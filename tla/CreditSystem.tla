---------------------------- MODULE CreditSystem ----------------------------
(***************************************************************************)
(* src/src/cesium_credit_system.cpp: the count of the credits fills a cache *)
(* from the snapshot of the moment, and the strings are read from the cache *)
(* one call at a time, while tiles come and go and the snapshot changes.    *)
(***************************************************************************)
EXTENDS Integers, Sequences

CONSTANTS Credits,   \* HTML strings
          OnScreen,  \* those that should be shown on screen
          NoString   \* NULL

VARIABLES currentCredits,  \* of the native snapshot
          cachedCredits,   \* of the wrapper
          counted          \* the strings the host was told of by its last count

creditVars == <<currentCredits, cachedCredits, counted>>

MaxCredits == 2   \* in the snapshot at once (a bound of the model)

\* The snapshot, unique strings, after tiles were shown or hidden.
Snapshots == {s \in UNION {[1 .. n -> Credits] : n \in 0 .. MaxCredits} :
                \A i, j \in DOMAIN s : s[i] = s[j] => i = j}

ShouldBeShownOnScreen(credit) == credit \in OnScreen

SnapshotChanges ==
    /\ currentCredits' \in Snapshots \ {currentCredits}
    /\ UNCHANGED <<cachedCredits, counted>>

\* Fault: the cache is not cleared.
CountCreditsAppends ==
    /\ cachedCredits' = cachedCredits \o SelectSeq(currentCredits, ShouldBeShownOnScreen)
    /\ counted' = SelectSeq(currentCredits, ShouldBeShownOnScreen)
    /\ Len(cachedCredits) < 4
    /\ UNCHANGED currentCredits

CountCredits ==
    /\ cachedCredits' = SelectSeq(currentCredits, ShouldBeShownOnScreen)
    /\ counted' = SelectSeq(currentCredits, ShouldBeShownOnScreen)
    /\ UNCHANGED currentCredits

\* The index, an int, is compared unsigned, which puts a negative one past every size.
GetCredit(index) ==
    IF index < 0 \/ index >= Len(cachedCredits) THEN NoString ELSE cachedCredits[index + 1]

CreditInit ==
    /\ currentCredits = <<>>
    /\ cachedCredits = <<>>
    /\ counted = <<>>

CreditNext == SnapshotChanges \/ CountCredits

\* For every index the host may still hold, the call gives the string the last count promised
\* it, whatever the tiles show by now, and NULL past the last and before the first.
CreditsReadable ==
    \A index \in -1 .. MaxCredits + 1 :
       GetCredit(index) = IF index \in 0 .. Len(counted) - 1 THEN counted[index + 1] ELSE NoString
=============================================================================
