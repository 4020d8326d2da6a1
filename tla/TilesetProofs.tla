---------------------------- MODULE TilesetProofs ----------------------------
(***************************************************************************)
(* What holds of Tileset for every set of callbacks, requests, options and  *)
(* frames.                                                                  *)
(***************************************************************************)
EXTENDS Tileset, TLAPS

\* The native flags are those of the ints passed, in the handle and in the tileset.
Options ==
    /\ DOMAIN passed = Fields
    /\ options # NoOptions => options = [field \in Fields |-> Stored(field, passed[field])]
    /\ used = [field \in Fields |-> Stored(field, passedThen[field])]

\* Only the forwarder calls, and it runs once.
Forwarder == forwarder # "over" => called = <<>>

\* A result the host holds is that of the last update.
Held ==
    heldFrame # 0 =>
       /\ nativeResult.frame = heldFrame
       /\ tilesFadingOut = FadingIn[heldFrame]
       /\ nativeResult.views = GatherViews(wanted)

\* The reply of a request whose continuation runs.
Answer(r) == [positions |-> [i \in DOMAIN Positions[r] |-> ToCCartographic(Sampled(r)[i])],
              success |-> FillSuccess(result[r], Len(Positions[r]))]

Heights ==
    /\ DOMAIN status = Requests /\ DOMAIN result = Requests /\ DOMAIN replies = Requests
    /\ \A r \in Requests :
          /\ status[r] # "over" => replies[r] = <<>>
          /\ replies[r] \in {<<>>, <<NoReply>>, <<Answer(r)>>}

IInv == Options /\ Forwarder /\ Held /\ Heights

-----------------------------------------------------------------------------
\* The defaults, as if each field had been set to its own.
LEMMA DefaultsStored == DefaultOptions = [field \in Fields |-> Stored(field, DefaultPassed[field])]
<1>1. "loadErrorCallback" \notin Flags
  BY DEF Flags
<1> QED BY <1>1 DEF DefaultOptions, DefaultPassed, Defaults, Stored, Fields

\* The defaults give a value to every field.
LEMMA PassedFields == DOMAIN DefaultPassed = Fields
BY DEF DefaultPassed, Defaults

\* Nothing has been passed, called or answered.
LEMMA InitInv == Init => IInv
BY DefaultsStored, PassedFields DEF Init, IInv, Options, Forwarder, Held, Heights

\* The setters keep the native options those of the ints passed.
LEMMA OptionStep == IInv /\ OptionCalls => IInv'
<1> SUFFICES ASSUME IInv, OptionCalls PROVE IInv'
  OBVIOUS
<1>1. UNCHANGED <<rootVars, viewVars, heightVars>>
  BY DEF OptionCalls
<1>2. Forwarder' /\ Held' /\ Heights'
  BY <1>1 DEF rootVars, viewVars, heightVars, IInv, Forwarder, Held, Heights, Answer, FillSuccess
<1>3. Options'
  <2>1. CASE CreateOptions
    BY <2>1, DefaultsStored, PassedFields DEF CreateOptions, IInv, Options
  <2>2. CASE DestroyOptions
    BY <2>2 DEF DestroyOptions, IInv, Options
  <2>3. ASSUME NEW field \in Fields, NEW value,
               options # NoOptions,
               options' = SetOption(options, field, value),
               passed' = [passed EXCEPT ![field] = value],
               UNCHANGED <<used, passedThen>>
        PROVE  Options'
    BY <2>3 DEF SetOption, IInv, Options
  <2>4. CASE PassOption
    BY <2>3, <2>4, TilesetAssumption DEF PassOption, SetLoadErrorCallback, Fields
  <2> QED BY <2>1, <2>2, <2>4 DEF OptionCalls
<1> QED BY <1>2, <1>3 DEF IInv

\* A tileset takes the options of the moment; destroying it changes none.
LEMMA LifeStep == IInv /\ (CreateTileset \/ DestroyTileset) => IInv'
BY DefaultsStored
   DEF CreateTileset, DestroyTileset, optionVars, rootVars, viewVars, heightVars,
       IInv, Options, Forwarder, Held, Heights, Answer, FillSuccess

\* Only the forwarder calls the root-tile callback.
LEMMA RootStep == IInv /\ RootSteps => IInv'
BY DEF RootSteps, RootLoaded, RunForwarder, SetRootTileAvailableCallback, Registered,
       optionVars, viewVars, heightVars,
       IInv, Options, Forwarder, Held, Heights, Answer, FillSuccess

\* An update takes its frame's result, or throws and leaves the host without one.
LEMMA ViewStep == IInv /\ ViewCalls => IInv'
<1> SUFFICES ASSUME IInv, NEW views \in ViewLists, UpdateView(views),
                    UNCHANGED <<optionVars, rootVars, heightVars>>
             PROVE  IInv'
  BY DEF ViewCalls
<1>1. Options' /\ Forwarder' /\ Heights'
  BY DEF optionVars, rootVars, heightVars, IInv, Options, Forwarder, Heights, Answer, FillSuccess
<1>2. Held'
  BY DEF UpdateView, Held
<1> QED BY <1>1, <1>2 DEF IInv

\* Credits disturb nothing else.
LEMMA CreditStep == IInv /\ CreditCalls => IInv'
BY DEF CreditCalls, optionVars, rootVars, viewVars, heightVars,
       IInv, Options, Forwarder, Held, Heights, Answer, FillSuccess

\* A request's answer is built when its own result is final, from nothing else; the steps of the
\* others leave both alone.
LEMMA HeightStep == ASSUME NEW r \in Requests PROVE IInv /\ HeightSteps(r) => IInv'
<1> SUFFICES ASSUME IInv, HeightSteps(r) PROVE IInv'
  OBVIOUS
<1>1. UNCHANGED <<optionVars, rootVars, viewVars>>
  BY DEF HeightSteps
<1>2. Options' /\ Forwarder' /\ Held'
  BY <1>1 DEF optionVars, rootVars, viewVars, IInv, Options, Forwarder, Held
<1>3. Heights'
  <2>1. CASE SampleHeight(r)
    BY <2>1 DEF SampleHeight, IInv, Heights, Answer
  <2>2. CASE HeightsSampled(r)
    BY <2>2 DEF HeightsSampled, IInv, Heights, Answer
  <2>3. CASE RunHeights(r)
    <3>1. replies[r] = <<>> /\ UNCHANGED result
      BY <2>3 DEF RunHeights, Reply, IInv, Heights
    <3>2. replies' = [replies EXCEPT ![r] = Append(@, Answer(r))]
      BY <2>3 DEF RunHeights, Reply, Answer
    <3>3. replies' = [replies EXCEPT ![r] = <<Answer(r)>>]
      BY <3>1, <3>2
    <3>4. status' = [status EXCEPT ![r] = "over"]
      BY <2>3 DEF RunHeights, Reply
    <3> QED BY <3>1, <3>3, <3>4 DEF IInv, Heights, Answer
  <2>4. CASE RunHeightsCatch(r)
    <3>1. replies[r] = <<>> /\ UNCHANGED result
      BY <2>4 DEF RunHeightsCatch, Reply, IInv, Heights
    <3>2. replies' = [replies EXCEPT ![r] = Append(@, NoReply)]
      BY <2>4 DEF RunHeightsCatch, Reply
    <3>3. replies' = [replies EXCEPT ![r] = <<NoReply>>]
      BY <3>1, <3>2
    <3>4. status' = [status EXCEPT ![r] = "over"]
      BY <2>4 DEF RunHeightsCatch, Reply
    <3> QED BY <3>1, <3>3, <3>4 DEF IInv, Heights, Answer
  <2> QED BY <2>1, <2>2, <2>3, <2>4 DEF HeightSteps
<1> QED BY <1>2, <1>3 DEF IInv

\* Every call and every continuation keeps the invariant.
LEMMA StepInv == IInv /\ [Next]_vars => IInv'
<1>1. IInv /\ UNCHANGED vars => IInv'
  BY DEF vars, optionVars, rootVars, viewVars, heightVars,
         IInv, Options, Forwarder, Held, Heights, Answer, FillSuccess
<1> QED BY <1>1, OptionStep, LifeStep, RootStep, ViewStep, CreditStep, HeightStep DEF Next

\* The inductive invariant.
THEOREM Inductive == Spec => []IInv
BY InitInv, StepInv, PTL DEF Spec

-----------------------------------------------------------------------------
\* Native flags that are those of the ints read back as the getters promise.
LEMMA OptionsImplied == IInv => OptionsFrozen
<1> SUFFICES ASSUME IInv PROVE OptionsFrozen
  OBVIOUS
<1>1. \A field \in Fields : used[field] = Stored(field, passedThen[field])
  BY DEF IInv, Options
<1>2. ASSUME NEW field \in SetFields \ Numbers, options # NoOptions
      PROVE  GetOption(options, field) = (IF passed[field] # 0 THEN 1 ELSE 0)
  <2>1. field \in Flags /\ field \in Fields
    BY TilesetAssumption DEF Fields
  <2>2. options[field] = Stored(field, passed[field])
    BY <1>2, <2>1 DEF IInv, Options
  <2> QED BY <1>2, <2>1, <2>2 DEF GetOption, Stored
<1> QED BY <1>1, <1>2 DEF OptionsFrozen

\* The tileset keeps the options of the moment it was created, and the handle those passed last.
THEOREM OptionsFrozenAlways == Spec => []OptionsFrozen
BY Inductive, OptionsImplied, PTL

\* A result held since the last update is of one frame in both its halves.
LEMMA ViewImplied == IInv => ViewConsistent
BY DEF IInv, Held, ViewConsistent, FrameNumber, TilesToRenderCount, TileToRender,
       TilesFadingOutCount, TileFadingOut, GatherViews

\* A view result the host holds is of one frame in all its parts, and of its own views.
THEOREM ViewConsistentAlways == Spec => []ViewConsistent
BY Inductive, ViewImplied, PTL

\* A reply that is the request's answer, given once, has its own positions and flags.
LEMMA HeightsImplied == IInv => HeightsOwn
<1> SUFFICES ASSUME IInv, NEW r \in Requests
             PROVE  /\ Len(replies[r]) <= 1
                    /\ \A i \in DOMAIN replies[r] :
                          replies[r][i] # NoReply =>
                             /\ replies[r][i].positions = Sampled(r)
                             /\ \A j \in DOMAIN Positions[r] :
                                   replies[r][i].success[j] = 1
                                     <=> j <= Len(result[r]) /\ result[r][j]
  BY DEF HeightsOwn
<1>1. replies[r] \in {<<>>, <<NoReply>>, <<Answer(r)>>}
  BY DEF IInv, Heights
<1>2. Len(replies[r]) <= 1
  <2>1. Len(<<>>) = 0 /\ Len(<<NoReply>>) = 1 /\ Len(<<Answer(r)>>) = 1
    OBVIOUS
  <2>2. Len(replies[r]) = 0 \/ Len(replies[r]) = 1
    BY <1>1, <2>1, Zenon
  <2>3. 0 <= 1 /\ 1 <= 1
    OBVIOUS
  <2> QED BY <2>2, <2>3, Zenon
<1>3. \A i \in DOMAIN replies[r] : replies[r][i] # NoReply => replies[r][i] = Answer(r)
  BY <1>1
<1>4. Answer(r).positions = Sampled(r)
  BY DEF Answer, Sampled, ToCCartographic, ToNativeCartographic
<1>5. DOMAIN Positions[r] = 1 .. Len(Positions[r])
  BY PositionsAssumption
<1>6. ASSUME NEW j \in DOMAIN Positions[r]
      PROVE  Answer(r).success[j] = 1 <=> j <= Len(result[r]) /\ result[r][j]
  <2>1. Answer(r).success[j] = IF j <= Len(result[r]) /\ result[r][j] THEN 1 ELSE 0
    BY <1>5, <1>6 DEF Answer, FillSuccess
  <2> QED BY <2>1
<1> QED BY <1>2, <1>3, <1>4, <1>6

\* A height request is answered once at most, with its own positions and flags or with none.
THEOREM HeightsOwnAlways == Spec => []HeightsOwn
BY Inductive, HeightsImplied, PTL

\* A call is the first, and of the callback that is set.
LEMMA CalledOnce ==
    IInv /\ [Next]_vars =>
       (called' # called => called = <<>> /\ called' = <<slot>> /\ slot # NoCallback)
<1> SUFFICES ASSUME IInv, [Next]_vars, called' # called
             PROVE  called = <<>> /\ called' = <<slot>> /\ slot # NoCallback
  OBVIOUS
<1>1. RunForwarder
  BY DEF Next, OptionCalls, CreateTileset, DestroyTileset, RootSteps, RootLoaded,
         SetRootTileAvailableCallback, ViewCalls, CreditCalls, HeightSteps, vars, rootVars
<1>2. called = <<>>
  BY <1>1 DEF RunForwarder, IInv, Forwarder
<1>3. slot # NoCallback /\ called' = Append(<<>>, slot)
  BY <1>1, <1>2 DEF RunForwarder
<1> QED BY <1>2, <1>3

\* The root-tile callback is called once at most, and it is the one last set.
THEOREM RootCallbackAlways == Spec => RootCallbackCurrent
BY Inductive, CalledOnce, PTL DEF Spec, RootCallbackCurrent

-----------------------------------------------------------------------------
\* Every count fills the cache anew with what it tells the host.
CreditsCached == cachedCredits = counted

\* Only a count changes the cache, and what it tells the host is the cache's size.
LEMMA CachedStep == CreditsCached /\ [Next]_vars => CreditsCached'
<1> SUFFICES ASSUME CreditsCached, [Next]_vars PROVE CreditsCached'
  OBVIOUS
<1>1. CASE CreditCalls
  BY <1>1 DEF CreditCalls, CreditNext, SnapshotChanges, CountCredits, CreditsCached
<1>2. CASE ~CreditCalls
  <2>1. UNCHANGED creditVars
    BY <1>2 DEF Next, OptionCalls, CreateTileset, DestroyTileset, RootSteps, ViewCalls,
                HeightSteps, vars
  <2> QED BY <2>1 DEF creditVars, CreditsCached
<1> QED BY <1>1, <1>2

\* A cache that is what was counted reads as promised at every index.
LEMMA CachedImplied == CreditsCached => CreditsReadable
<1> SUFFICES ASSUME CreditsCached, NEW index \in Int
             PROVE  GetCredit(index) =
                       IF index \in 0 .. Len(counted) - 1 THEN counted[index + 1] ELSE NoString
  BY DEF CreditsReadable, MaxCredits
<1>1. Len(counted) \in Nat
  OBVIOUS
<1> QED BY <1>1 DEF CreditsCached, GetCredit

\* Whatever the tiles show by now, the host reads the strings its last count promised, each in
\* its place, and NULL outside.
THEOREM CreditsReadableAlways == Spec => []CreditsReadable
<1>1. Init => CreditsCached
  BY DEF Init, CreditInit, CreditsCached
<1> QED BY <1>1, CachedStep, CachedImplied, PTL DEF Spec

-----------------------------------------------------------------------------
\* If the host waits, no forwarder is left behind by a tileset that goes.
NoneBehind ==
    /\ ~strayed
    /\ tileset \in {"none", "alive", "gone"}
    /\ tileset = "gone" => forwarder \in {"none", "over"}
    /\ tileset = "none" => forwarder = "none"

\* Every step keeps that: only DestroyTileset could leave a forwarder behind, and it waits.
LEMMA NoneBehindStep == HostWaits /\ NoneBehind /\ [Next]_vars => NoneBehind'
<1> SUFFICES ASSUME HostWaits, NoneBehind, [Next]_vars PROVE NoneBehind'
  OBVIOUS
<1>1. CASE CreateTileset
  BY <1>1 DEF CreateTileset, rootVars, NoneBehind
<1>2. CASE DestroyTileset
  BY <1>2 DEF DestroyTileset, rootVars, NoneBehind
<1>3. CASE RootSteps
  <2>1. tileset' = tileset
    BY <1>3 DEF RootSteps
  <2>2. CASE RootLoaded
    BY <2>1, <2>2 DEF RootLoaded, NoneBehind
  <2>3. CASE RunForwarder
    BY <2>1, <2>3 DEF RunForwarder, NoneBehind, Alive
  <2>4. CASE \E callback \in Callbacks \cup {NoCallback} : SetRootTileAvailableCallback(callback)
    BY <2>1, <2>4 DEF SetRootTileAvailableCallback, NoneBehind, Alive
  <2> QED BY <1>3, <2>2, <2>3, <2>4 DEF RootSteps
<1>4. CASE ~(CreateTileset \/ DestroyTileset \/ RootSteps)
  <2>1. UNCHANGED <<tileset, rootVars>>
    BY <1>4 DEF Next, OptionCalls, ViewCalls, CreditCalls, HeightSteps, vars
  <2> QED BY <2>1 DEF rootVars, NoneBehind
<1> QED BY <1>1, <1>2, <1>3, <1>4

\* The host that destroys a tileset only once its forwarder has run is safe from the fault that
\* the run tileset_forwarder shows: no forwarder reads a wrapper that is gone.
THEOREM WaitingSuffices == HostWaits /\ Spec => []ForwarderFindsWrapper
<1> SUFFICES ASSUME HostWaits PROVE Spec => []ForwarderFindsWrapper
  OBVIOUS
<1>1. Init => NoneBehind
  BY DEF Init, NoneBehind
<1>2. NoneBehind => ForwarderFindsWrapper
  BY DEF NoneBehind, ForwarderFindsWrapper
<1>3. NoneBehind /\ [Next]_vars => NoneBehind'
  BY NoneBehindStep
<1> QED BY <1>1, <1>2, <1>3, PTL DEF Spec
=============================================================================
