SPECIFICATION FairSpec
CONSTANTS
  c1 = c1
  c2 = c2
  Calls = {c1, c2}
  Mixes <- Pairs
  Half = 16
  None = None
  Texts <- SmallTexts
  AssetLists <- SmallAssetLists
  TokenLists <- SmallTokenLists
  MaxPolls = 2
INVARIANTS RepliesOnce CapturesAlive BlockingHonest NumbersExact
PROPERTY AttemptsAnswered
CHECK_DEADLOCK FALSE
