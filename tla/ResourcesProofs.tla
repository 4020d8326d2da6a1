--------------------------- MODULE ResourcesProofs ---------------------------
(***************************************************************************)
(* What holds of RendererResources for every set of tiles, overlays, tables *)
(* and options: no resource is lost or used after it was taken back, and an *)
(* overlay lives exactly as long as something holds it.                     *)
(***************************************************************************)
EXTENDS RendererResources, TLAPS

\* A pointer is of the object that carries it, so that no other object carries it; and an object
\* has none before its load thread has run.
Pointers ==
    \A o \in Objects :
       /\ pointer[o] # Null => pointer[o].of = o
       /\ stage[o] \in {"unloaded", "loading"} => pointer[o] = Null

IInv == TypeOK /\ Pointers /\ ResourcesHeld /\ OverlayHeld

-----------------------------------------------------------------------------
\* No object has a resource and no overlay is held.
LEMMA InitInv == Init => IInv
BY AddedAssumption
   DEF Init, OverlayInit, IInv, TypeOK, Pointers, ResourcesHeld, OverlayHeld, Objects

\* The load thread's resource is the object's first.
LEMMA LoadStep ==
    ASSUME IInv, NEW o \in Objects, NEW called \in BOOLEAN, PrepareInLoad(o, called)
    PROVE  IInv'
<1> USE NullAssumption DEF IInv, PrepareInLoad, overlayVars
<1>1. PICK made \in (IF called THEN Made(o, "load") ELSE {Null}) :
         /\ pointer' = [pointer EXCEPT ![o] = made]
         /\ owned' = owned \cup ({made} \ {Null})
  OBVIOUS
<1>2. made = Null \/ made = [of |-> o, in |-> "load"]
  BY <1>1 DEF Made
<1>3. made \in Resource \cup {Null} /\ (made # Null => made.of = o)
  BY <1>2 DEF Resource
<1>4. TypeOK'
  BY <1>1, <1>3 DEF TypeOK
<1>5. Pointers'
  BY <1>1, <1>3 DEF Pointers, TypeOK
<1>6. ResourcesHeld'
  BY <1>1 DEF ResourcesHeld, TypeOK
<1>7. OverlayHeld'
  BY DEF OverlayHeld, TypeOK, Objects
<1> QED BY <1>4, <1>5, <1>6, <1>7

\* The exchange takes one resource from the object and gives it one at most; the pointers of the
\* others are not among those taken.
LEMMA MainStep ==
    ASSUME IInv, NEW o \in Objects, NEW called \in BOOLEAN, PrepareMain(o, called)
    PROVE  IInv'
<1> USE NullAssumption DEF IInv, PrepareMain, overlayVars
<1>1. CASE ~called
  BY <1>1 DEF TypeOK, Pointers, ResourcesHeld, OverlayHeld, Objects
<1>2. CASE called
  <2>1. PICK made \in Made(o, "main") :
           /\ pointer' = [pointer EXCEPT ![o] = made]
           /\ owned' = (owned \ {pointer[o]}) \cup ({made} \ {Null})
    BY <1>2 DEF Exchange
  <2>2. made = Null \/ made = [of |-> o, in |-> "main"]
    BY <2>1 DEF Made
  <2>3. made \in Resource \cup {Null} /\ (made # Null => made.of = o)
    BY <2>2 DEF Resource
  <2>4. TypeOK'
    BY <2>1, <2>3 DEF TypeOK
  <2>5. Pointers'
    BY <2>1, <2>3 DEF Pointers, TypeOK
  <2>6. ResourcesHeld'
    BY <2>1 DEF ResourcesHeld, Pointers, TypeOK
  <2>7. OverlayHeld'
    BY DEF OverlayHeld, TypeOK, Objects
  <2> QED BY <2>4, <2>5, <2>6, <2>7
<1> QED BY <1>1, <1>2

\* What is left of the pointers when an object gives its own back.
LEMMA GiveBackStep ==
    ASSUME IInv, NEW o \in Objects, NEW called \in BOOLEAN, GiveBack(o, called)
    PROVE  /\ Pointers' /\ ResourcesHeld'
           /\ owned' \subseteq Resource
           /\ pointer' \in [Objects -> Resource \cup {Null}]
           /\ stage' \in [Objects -> {"unloaded", "loading", "loaded", "ready"}]
           /\ stage' = [stage EXCEPT ![o] = "unloaded"]
           /\ stage[o] # "unloaded"
BY NullAssumption DEF IInv, GiveBack, TypeOK, Pointers, ResourcesHeld

\* Whether a callback is called is TRUE or FALSE.
LEMMA CalledInLoad ==
    ASSUME NEW o \in Objects, PrepareInLoadThread(o) \/ PrepareRasterInLoadThread(o)
    PROVE  \E called \in BOOLEAN : PrepareInLoad(o, called)
<1> DEFINE tile == "prepareInLoadThread" \in callbacks /\ o \in WithModel
           raster == "prepareRasterInLoadThread" \in callbacks
<1>1. tile \in BOOLEAN /\ raster \in BOOLEAN
  OBVIOUS
<1>2. PrepareInLoad(o, tile) \/ PrepareInLoad(o, raster)
  BY DEF PrepareInLoadThread, PrepareRasterInLoadThread
<1> HIDE DEF tile, raster
<1> QED BY <1>1, <1>2

\* Both kinds of object prepare alike in the main thread, with a callback set or without.
LEMMA CalledInMain ==
    ASSUME NEW o \in Objects, PrepareInMainThread(o) \/ PrepareRasterInMainThread(o)
    PROVE  \E called \in BOOLEAN : PrepareMain(o, called)
<1> DEFINE tile == "prepareInMainThread" \in callbacks
           raster == "prepareRasterInMainThread" \in callbacks
<1>1. tile \in BOOLEAN /\ raster \in BOOLEAN
  OBVIOUS
<1>2. PrepareMain(o, tile) \/ PrepareMain(o, raster)
  BY DEF PrepareInMainThread, PrepareRasterInMainThread
<1> HIDE DEF tile, raster
<1> QED BY <1>1, <1>2

\* Both kinds of object are freed alike, with a callback set or without.
LEMMA CalledToFree ==
    ASSUME NEW o \in Objects, Free(o) \/ FreeRaster(o)
    PROVE  \E called \in BOOLEAN :
              /\ GiveBack(o, called)
              /\ Free(o) => o \in Tiles /\ (~called => "freeResources" \notin callbacks)
              /\ FreeRaster(o) => o \in Overlays /\ (~called => "freeRasterResources" \notin callbacks)
<1> DEFINE tile == "freeResources" \in callbacks
           raster == "freeRasterResources" \in callbacks
<1>1. tile \in BOOLEAN /\ raster \in BOOLEAN
  OBVIOUS
<1>2. \/ GiveBack(o, tile) /\ o \in Tiles
      \/ GiveBack(o, raster) /\ o \in Overlays
  BY DEF Free, FreeRaster, IsRaster
<1>3. (Free(o) => o \in Tiles) /\ (FreeRaster(o) => o \in Overlays)
  BY DEF Free, FreeRaster, IsRaster
<1>4. (~tile => "freeResources" \notin callbacks) /\ (~raster => "freeRasterResources" \notin callbacks)
  OBVIOUS
<1>5. ~(o \in Tiles /\ o \in Overlays)
  BY TilesAssumption
<1> HIDE DEF tile, raster
<1> QED BY <1>1, <1>2, <1>3, <1>4, <1>5

\* The host's calls keep an overlay alive as long as something holds it.
LEMMA OverlayStep == IInv /\ Host => IInv'
<1> SUFFICES ASSUME IInv, Host PROVE IInv'
  OBVIOUS
<1> USE AddedAssumption DEF IInv, TypeOK, Host, rendererVars
<1>1. Pointers' /\ ResourcesHeld'
  BY DEF Pointers, ResourcesHeld
<1>2. TypeOK' /\ OverlayHeld'
  <2> SUFFICES ASSUME NEW v \in Overlays,
                      \/ \E c \in OptionValues : SetOptions(v, c)
                      \/ CreateOverlay(v) \/ Add(v) \/ Remove(v) \/ DestroyOverlay(v)
               PROVE  TypeOK' /\ OverlayHeld'
    BY DEF OverlayNext
  <2>1. CASE \E c \in OptionValues : SetOptions(v, c)
    BY <2>1 DEF SetOptions, OverlayHeld
  <2>2. CASE CreateOverlay(v)
    BY <2>2 DEF CreateOverlay, Acquire, OverlayHeld
  <2>3. CASE Add(v)
    BY <2>3 DEF Add, Acquire, OverlayHeld
  <2>4. CASE Remove(v)
    BY <2>4 DEF Remove, Release, OverlayHeld
  <2>5. CASE DestroyOverlay(v)
    BY <2>5 DEF DestroyOverlay, Release, OverlayHeld
  <2> QED BY <2>1, <2>2, <2>3, <2>4, <2>5
<1> QED BY <1>1, <1>2

\* Every step of the loader or of the host keeps the invariant.
LEMMA StepInv == IInv /\ [Next]_vars => IInv'
<1> SUFFICES ASSUME IInv, [Next]_vars PROVE IInv'
  OBVIOUS
<1> USE TilesAssumption DEF IsRaster
<1>1. CASE LoadThread
  <2> PICK o \in Objects : PrepareInLoadThread(o) \/ PrepareRasterInLoadThread(o)
    BY <1>1 DEF LoadThread
  <2> QED BY LoadStep, CalledInLoad
<1>2. ASSUME NEW table \in Tables \cup {{}}, SetCallbacks(table) PROVE IInv'
  BY <1>2 DEF SetCallbacks, overlayVars, IInv, TypeOK, Pointers, ResourcesHeld, OverlayHeld
<1>3. ASSUME NEW o \in Objects, StartLoad(o) PROVE IInv'
  BY <1>3 DEF StartLoad, Acquire, IInv, TypeOK, Pointers, ResourcesHeld, OverlayHeld, Objects
<1>4. ASSUME NEW o \in Objects, PrepareInMainThread(o) \/ PrepareRasterInMainThread(o)
      PROVE  IInv'
  BY <1>4, MainStep, CalledInMain
<1>5. ASSUME NEW o \in Objects, Free(o) \/ FreeRaster(o) PROVE IInv'
  <2> PICK called \in BOOLEAN : GiveBack(o, called)
    BY <1>5, CalledToFree
  <2>1. UNCHANGED <<callbacks, attached>>
    BY DEF GiveBack
  <2>2. /\ Pointers' /\ ResourcesHeld'
        /\ owned' \subseteq Resource
        /\ pointer' \in [Objects -> Resource \cup {Null}]
        /\ stage' \in [Objects -> {"unloaded", "loading", "loaded", "ready"}]
        /\ stage' = [stage EXCEPT ![o] = "unloaded"]
        /\ stage[o] # "unloaded"
    BY GiveBackStep
  <2>3. CASE Free(o)
    <3>1. o \notin Overlays /\ UNCHANGED overlayVars
      BY <2>3 DEF Free
    <3> QED BY <2>1, <2>2, <3>1 DEF IInv, TypeOK, OverlayHeld, overlayVars, Objects
  <2>4. CASE FreeRaster(o)
    <3>1. o \in Overlays /\ Release(o) /\ UNCHANGED <<handle, added>>
      BY <2>4 DEF FreeRaster
    <3>2. refs[o] >= 1
      BY <2>2, <3>1 DEF IInv, TypeOK, OverlayHeld
    <3>3. TypeOK' /\ OverlayHeld'
      BY <2>1, <2>2, <3>1, <3>2 DEF Release, IInv, TypeOK, OverlayHeld, Objects
    <3> QED BY <2>2, <3>3 DEF IInv
  <2> QED BY <1>5, <2>3, <2>4
<1>7. ASSUME NEW t \in Tiles, NEW r \in Overlays, AttachRaster(t, r) \/ DetachRaster(t, r)
      PROVE  IInv'
  BY <1>7 DEF AttachRaster, DetachRaster, overlayVars, IInv, TypeOK, Pointers, ResourcesHeld,
              OverlayHeld
<1>8. CASE TilesetGone
  BY <1>8, AddedAssumption
     DEF TilesetGone, DropCollection, rendererVars, IInv, TypeOK, Pointers, ResourcesHeld,
         OverlayHeld, Objects
<1>9. CASE UNCHANGED vars
  BY <1>9 DEF vars, overlayVars, rendererVars, IInv, TypeOK, Pointers, ResourcesHeld, OverlayHeld
<1> QED
  BY <1>1, <1>2, <1>3, <1>4, <1>5, <1>7, <1>8, <1>9, OverlayStep DEF Next, MainThread

\* The inductive invariant.
THEOREM Inductive == Spec => []IInv
BY InitInv, StepInv, PTL DEF Spec

\* The types of the two modules' variables; the counts of references are naturals, so none is
\* released once too often.
THEOREM TypeCorrect == Spec => []TypeOK
BY Inductive, PTL DEF IInv

\* Every callback gets null or a resource the host made for that object and has not taken back.
THEOREM ResourcesHeldAlways == Spec => []ResourcesHeld
BY Inductive, PTL DEF IInv

\* An overlay's count is that of its holders, and it is deleted only when there are none.
THEOREM OverlayHeldAlways == Spec => []OverlayHeld
BY Inductive, PTL DEF IInv

-----------------------------------------------------------------------------
\* What NoneLost says of one step.
NoneLostStep ==
    \A resource \in owned :
       pointer[resource.of] = resource /\ pointer'[resource.of] # resource
          => \/ resource \notin owned'
             \/ (IF IsRaster(resource.of) THEN "freeRasterResources" ELSE "freeResources")
                     \notin callbacks

\* A pointer is replaced only when its resource was taken back or nobody is there to take it.
LEMMA LosesNone == IInv /\ [Next]_vars => NoneLostStep
<1> SUFFICES ASSUME IInv, [Next]_vars,
                    NEW resource \in owned,
                    pointer[resource.of] = resource, pointer'[resource.of] # resource,
                    resource \in owned'
             PROVE  (IF IsRaster(resource.of) THEN "freeRasterResources" ELSE "freeResources")
                        \notin callbacks
  BY DEF NoneLostStep
<1> DEFINE of == resource.of
<1>1. resource \in Resource /\ of \in Objects /\ resource # Null
  BY NullAssumption DEF IInv, TypeOK, Resource
<1>2. pointer \in [Objects -> Resource \cup {Null}]
  BY DEF IInv, TypeOK
<1>3. ASSUME NEW o \in Objects, NEW called \in BOOLEAN, PrepareInLoad(o, called) PROVE FALSE
  BY <1>1, <1>2, <1>3 DEF PrepareInLoad, IInv, Pointers
<1>4. ASSUME NEW o \in Objects, NEW called \in BOOLEAN, PrepareMain(o, called) PROVE FALSE
  BY <1>1, <1>2, <1>4 DEF PrepareMain, Exchange
<1>5. ASSUME NEW o \in Objects, NEW called \in BOOLEAN, GiveBack(o, called)
      PROVE  o = of /\ ~called
  BY <1>1, <1>2, <1>5 DEF GiveBack
<1>6. ASSUME NEW o \in Objects, Free(o) \/ FreeRaster(o)
      PROVE  (IF IsRaster(of) THEN "freeRasterResources" ELSE "freeResources") \notin callbacks
  <2> PICK called \in BOOLEAN :
         /\ GiveBack(o, called)
         /\ Free(o) => o \in Tiles /\ (~called => "freeResources" \notin callbacks)
         /\ FreeRaster(o) => o \in Overlays /\ (~called => "freeRasterResources" \notin callbacks)
    BY <1>6, CalledToFree
  <2> QED BY <1>5, <1>6, TilesAssumption DEF IsRaster
<1>8. UNCHANGED pointer => FALSE
  OBVIOUS
<1>9. LoadThread => FALSE
  BY <1>3, CalledInLoad DEF LoadThread
<1>10. ASSUME NEW o \in Objects, PrepareInMainThread(o) \/ PrepareRasterInMainThread(o)
       PROVE  FALSE
  BY <1>4, <1>10, CalledInMain
<1>11. \E o \in Objects : Free(o) \/ FreeRaster(o)
  BY <1>8, <1>9, <1>10
     DEF Next, MainThread, SetCallbacks, StartLoad, AttachRaster, DetachRaster, TilesetGone, Host,
         vars, rendererVars
<1> QED BY <1>6, <1>11

\* No step loses a resource: one its object lets go of was given back then, or the host has
\* cleared the callback that takes it.
THEOREM NoneLostAlways == Spec => NoneLost
BY Inductive, LosesNone, PTL DEF Spec, NoneLost, NoneLostStep

-----------------------------------------------------------------------------
\* The way of the options there and back, field by field: only the flag may change, to 1.
LEMMA RoundTrip ==
    ASSUME NEW c \in RasterOverlayOptions
    PROVE  ToC(ToNative(c)) = [c EXCEPT !.showCreditsOnScreen = FromBool(@ # 0)]
BY DEF RasterOverlayOptions, ToC, ToNative, ToBool, CopyKtx2TargetsToC, CopyKtx2TargetsToNative

\* And the way of a native struct, whose flag is 0 or 1 when it is passed back.
LEMMA DefaultTrip ==
    ASSUME NEW native
    PROVE  ToC(native) = [ToC(native) EXCEPT !.showCreditsOnScreen = FromBool(@ # 0)]
BY DEF ToC, FromBool

\* Every overlay has its options, and the host's memory of them.
KInv == DOMAIN options = Overlays /\ DOMAIN passed = Overlays /\ OptionsKept

\* Every call keeps the options of an overlay those last passed, through both conversions.
LEMMA OptionsStep == KInv /\ [Next]_vars => KInv'
<1> SUFFICES ASSUME DOMAIN options = Overlays, DOMAIN passed = Overlays, OptionsKept, [Next]_vars
             PROVE  DOMAIN options' = Overlays /\ DOMAIN passed' = Overlays /\ OptionsKept'
  BY DEF KInv
<1>1. CASE UNCHANGED <<options, passed>>
  BY <1>1 DEF OptionsKept
<1>2. ASSUME NEW v \in Overlays, NEW c \in OptionValues, SetOptions(v, c)
      PROVE  DOMAIN options' = Overlays /\ DOMAIN passed' = Overlays /\ OptionsKept'
  <2>1. \A w \in Overlays : /\ options'[w] = IF w = v THEN ToNative(c) ELSE options[w]
                            /\ passed'[w] = IF w = v THEN c ELSE passed[w]
    BY <1>2 DEF SetOptions
  <2>2. DOMAIN options' = Overlays /\ DOMAIN passed' = Overlays
    BY <1>2 DEF SetOptions
  <2>3. ToC(ToNative(c)) = [c EXCEPT !.showCreditsOnScreen = FromBool(@ # 0)]
    BY RoundTrip, OptionsAssumption
  <2> QED BY <2>1, <2>2, <2>3 DEF OptionsKept
<1>3. UNCHANGED <<options, passed>> \/ \E v \in Overlays : \E c \in OptionValues : SetOptions(v, c)
  <2>1. CASE Host
    BY <2>1 DEF Host, OverlayNext, CreateOverlay, Add, Remove, DestroyOverlay
  <2>2. CASE LoadThread
    BY <2>2 DEF LoadThread, PrepareInLoadThread, PrepareRasterInLoadThread, PrepareInLoad, overlayVars
  <2>3. CASE MainThread
    BY <2>3 DEF MainThread, SetCallbacks, StartLoad, PrepareInMainThread, PrepareRasterInMainThread,
                PrepareMain, Free, FreeRaster, AttachRaster, DetachRaster, TilesetGone,
                DropCollection, overlayVars
  <2>4. CASE UNCHANGED vars
    BY <2>4 DEF vars, overlayVars
  <2> QED BY <2>1, <2>2, <2>3, <2>4 DEF Next
<1> QED BY <1>1, <1>2, <1>3

\* What the host reads back is what it passed, whatever it passed, but for a flag that is neither
\* 0 nor 1.
THEOREM OptionsKeptAlways == Spec => []OptionsKept
<1>1. Init => KInv
  BY DefaultTrip DEF Init, OverlayInit, OptionsKept, KInv
<1>2. KInv => OptionsKept
  BY DEF KInv
<1> QED BY <1>1, <1>2, OptionsStep, PTL DEF Spec
=============================================================================
