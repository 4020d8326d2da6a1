------------------------------- MODULE Tileset -------------------------------
(***************************************************************************)
(* src/src/cesium_tileset.cpp: the wrapper of a tileset.  It keeps the slot *)
(* of the root-tile callback and the result of the last view update, copies *)
(* its options when it is created, and answers height requests through      *)
(* buffers of the thread.  Everything here runs in the main thread, in the  *)
(* host's calls or in its pump.                                             *)
(*                                                                          *)
(* The continuations belong to the async system: they run when it is        *)
(* pumped, whether or not the tileset is still there.                       *)
(***************************************************************************)
EXTENDS TilesetOptions, CreditSystem, FiniteSets

CONSTANTS Callbacks,    \* root-tile and load-error callbacks, each with its userData
          HostWaits,    \* the host destroys a tileset only once its forwarder has run
          Requests,     \* height requests
          Positions,    \* request -> the positions it passes
          Values,       \* ints the host passes to a setter
          SetFields,    \* fields it sets
          NativeDefaults, \* what it would pass to give each field the default of TilesetOptions
          ViewLists,    \* arrays of view states it passes
          NoView,       \* a NULL in one of them
          RenderedIn,   \* frame -> tilesToRenderThisFrame
          FadingIn,     \* frame -> tilesFadingOut
          MaxParts      \* parts of the wrapper a host uses together at most (a bound of the model)

ASSUME TilesetAssumption ==
    /\ HostWaits \in BOOLEAN
    /\ SetFields \subseteq Numbers \cup Flags
    /\ DOMAIN NativeDefaults = Numbers \cup Flags
    /\ DOMAIN RenderedIn = DOMAIN FadingIn
    /\ 0 \notin DOMAIN RenderedIn

ASSUME PositionsAssumption ==
    \A r \in Requests : Positions[r] \in Seq({Positions[r][i] : i \in DOMAIN Positions[r]})

Frames == DOMAIN RenderedIn    \* as many view updates (a bound of the model)

VARIABLES options,     \* the options handle, or NoOptions
          passed,      \* what the host has passed to its setters
          used,        \* the tileset's own options
          passedThen,  \* what the host had passed when the tileset was created
          tileset,     \* "none", "alive" or "gone"
          root,        \* the root-tile event: "pending", "available" or "failed"
          slot,        \* rootTileCallback, with its userData
          forwarder,   \* "none", "registered" (the event is pending), "queued" or "over"
          called,      \* the root-tile callbacks called
          strayed,     \* the forwarder read a wrapper that was freed
          viewStates,  \* the wrapper's scratch
          wanted,      \* the view states the host passed last
          nativeResult,    \* cesium-native's ViewUpdateResult: its frame and views
          tilesFadingOut,  \* the wrapper's copy
          heldFrame,   \* the frame of the result the host holds, or 0
          status,      \* of each height request
          result,      \* the native sampleSuccess of each
          outSampleSuccess,  \* the thread's buffer
          replies      \* what the callback of each was called with

optionVars == <<options, passed, used, passedThen>>
rootVars == <<root, slot, forwarder, called, strayed>>
viewVars == <<viewStates, wanted, nativeResult, tilesFadingOut, heldFrame>>
heightVars == <<status, result, outSampleSuccess, replies>>
vars == <<optionVars, tileset, rootVars, viewVars, heightVars, creditVars>>

Alive == tileset = "alive"

\* A structure nothing was set in; what the getters say of a NULL handle has no part in it.
Defaults(Convert(_, _)) ==
    [field \in Fields |-> IF field = "loadErrorCallback" THEN NoCallback
                                                         ELSE Convert(field, NativeDefaults[field])]
DefaultOptions == Defaults(Stored)
DefaultPassed == Defaults(LAMBDA field, value : value)

-----------------------------------------------------------------------------
(* Options and the life of the tileset. *)

CreateOptions ==
    /\ options = NoOptions
    /\ options' = DefaultOptions
    /\ passed' = DefaultPassed
    /\ UNCHANGED <<used, passedThen>>

DestroyOptions ==
    /\ options # NoOptions
    /\ options' = NoOptions
    /\ UNCHANGED <<passed, used, passedThen>>

PassOption ==
    /\ options # NoOptions
    /\ \/ \E field \in SetFields, value \in Values :
             /\ options' = SetOption(options, field, value)
             /\ passed' = [passed EXCEPT ![field] = value]
       \/ \E callback \in Callbacks \cup {NoCallback} :
             /\ options' = SetLoadErrorCallback(options, callback)
             /\ passed' = [passed EXCEPT !.loadErrorCallback = callback]
    /\ UNCHANGED <<used, passedThen>>

\* cesium_tileset_create_from_url, _from_ion: the options are copied, the load-error callback
\* with them.  The root starts to load.
CreateTileset ==
    /\ tileset = "none"
    /\ tileset' = "alive"
    /\ used' = IF options = NoOptions THEN DefaultOptions ELSE options
    /\ passedThen' = IF options = NoOptions THEN DefaultPassed ELSE passed
    /\ UNCHANGED <<options, passed, rootVars, viewVars, heightVars, creditVars>>

\* cesium_tileset_destroy frees the wrapper; the registered continuations stay.
DestroyTileset ==
    /\ Alive
    /\ HostWaits => forwarder \in {"none", "over"}
    /\ tileset' = "gone"
    /\ heldFrame' = 0
    /\ UNCHANGED <<optionVars, rootVars, viewStates, wanted, nativeResult, tilesFadingOut,
                   heightVars, creditVars>>

-----------------------------------------------------------------------------
(* The root tile. *)

\* cesium-native's content manager, which outlives the tileset while it is loading.
RootLoaded ==
    /\ tileset # "none"
    /\ root = "pending"
    /\ \/ root' = "available" /\ forwarder' = IF forwarder = "registered" THEN "queued" ELSE forwarder
       \/ root' = "failed" /\ forwarder' = IF forwarder = "registered" THEN "over" ELSE forwarder
    /\ UNCHANGED <<slot, called, strayed>>

\* What thenInMainThread makes of a new continuation.
Registered ==
    CASE root = "pending" -> "registered" [] root = "available" -> "queued" [] OTHER -> "over"

\* Fault: a forwarder that has run is registered again.
SetRootTileAvailableCallbackAgain(callback) ==
    /\ Alive
    /\ slot' = callback
    /\ forwarder' = IF forwarder \in {"none", "over"} THEN Registered ELSE forwarder
    /\ UNCHANGED <<root, called, strayed>>

\* cesium_tileset_set_root_tile_available_callback
SetRootTileAvailableCallback(callback) ==
    /\ Alive
    /\ slot' = callback
    /\ forwarder' = IF forwarder = "none" THEN Registered ELSE forwarder
    /\ UNCHANGED <<root, called, strayed>>

\* The forwarder reads the slot through the wrapper's address.
RunForwarder ==
    /\ forwarder = "queued"
    /\ forwarder' = "over"
    /\ strayed' = (strayed \/ ~Alive)
    /\ called' = IF slot # NoCallback THEN Append(called, slot) ELSE called
    /\ UNCHANGED <<root, slot>>

-----------------------------------------------------------------------------
(* View updates. *)

GivenView(view) == view # NoView

GatherViews(views) == SelectSeq(views, GivenView)

\* Fault: the copy is taken before the update.
UpdateViewCopyFirst(views) ==
    /\ Alive
    /\ Len(views) > 0
    /\ nativeResult.frame + 1 \in Frames
    /\ wanted' = views
    /\ viewStates' = GatherViews(views)
    /\ tilesFadingOut' = IF nativeResult.frame = 0 THEN <<>> ELSE FadingIn[nativeResult.frame]
    /\ nativeResult' = [frame |-> nativeResult.frame + 1, views |-> viewStates']
    /\ heldFrame' = nativeResult'.frame

\* updateViewGroup returns its one result by reference; it may throw before it has changed it or
\* after, and loadTiles after that.
UpdateView(views) ==
    /\ Alive
    /\ Len(views) > 0
    /\ wanted' = views
    /\ viewStates' = GatherViews(views)
    /\ nativeResult.frame + 1 \in Frames
    /\ LET frame == nativeResult.frame + 1
           updated == [frame |-> frame, views |-> viewStates'] IN
       \/ /\ nativeResult' = updated
          /\ tilesFadingOut' = FadingIn[frame]
          /\ heldFrame' = frame
       \/ /\ nativeResult' \in {nativeResult, updated}
          /\ heldFrame' = 0
          /\ UNCHANGED tilesFadingOut

\* The accessors of a result: the native one by its address, the fading tiles from the copy; no
\* index is checked.
TilesToRenderCount == Len(RenderedIn[nativeResult.frame])
TileToRender(index) == RenderedIn[nativeResult.frame][index + 1]
TilesFadingOutCount == Len(tilesFadingOut)
TileFadingOut(index) == tilesFadingOut[index + 1]
FrameNumber == nativeResult.frame

-----------------------------------------------------------------------------
(* Heights. *)

ToNativeCartographic(c) ==
    [longitude |-> c.longitude, latitude |-> c.latitude, height |-> c.height]
ToCCartographic(c) ==
    [longitude |-> c.longitude, latitude |-> c.latitude, height |-> c.height]

\* The positions of a native result: those asked for, at the sampled height.
Sampled(r) ==
    [i \in DOMAIN Positions[r] |->
        [ToNativeCartographic(Positions[r][i]) EXCEPT !.height = "sampled"]]

NoReply == [positions |-> <<>>, success |-> <<>>]   \* NULL, NULL, 0

\* cesium_tileset_sample_height_most_detailed; an exception in it ends the request unanswered.
SampleHeight(r) ==
    /\ Alive
    /\ status[r] = "new"
    /\ \E next \in {"native", "over"} : status' = [status EXCEPT ![r] = next]
    /\ UNCHANGED <<result, outSampleSuccess, replies>>

\* cesium-native is done, or fails, also because the tileset is gone; no more flags than
\* positions, and perhaps fewer.
HeightsSampled(r) ==
    /\ status[r] = "native"
    /\ \/ /\ status' = [status EXCEPT ![r] = "resolved"]
          /\ \E n \in 0 .. Len(Positions[r]) : \E success \in [1 .. n -> BOOLEAN] :
                result' = [result EXCEPT ![r] = success]
       \/ status' = [status EXCEPT ![r] = "rejected"] /\ UNCHANGED result
    /\ UNCHANGED <<outSampleSuccess, replies>>

\* Fault: the buffer is resized and keeps what it had.
FillSuccessStale(success, n) ==
    [i \in 1 .. n |-> IF i <= Len(success) THEN (IF success[i] THEN 1 ELSE 0)
                      ELSE IF i <= Len(outSampleSuccess) THEN outSampleSuccess[i] ELSE 0]

\* The buffer after assign(n, 0) and the loop.
FillSuccess(success, n) ==
    [i \in 1 .. n |-> IF i <= Len(success) /\ success[i] THEN 1 ELSE 0]

Reply(r, reply) ==
    /\ replies' = [replies EXCEPT ![r] = Append(@, reply)]
    /\ status' = [status EXCEPT ![r] = "over"]
    /\ UNCHANGED result

\* The continuation calls back with the buffers, in one step of the main thread: the host does
\* not pump from this callback.
RunHeights(r) ==
    /\ status[r] = "resolved"
    /\ outSampleSuccess' = FillSuccess(result[r], Len(Positions[r]))
    /\ Reply(r, [positions |-> [i \in DOMAIN Positions[r] |-> ToCCartographic(Sampled(r)[i])],
                 success |-> outSampleSuccess'])

\* Fault: only what the continuation throws is caught.
RunHeightsCatchOwn(r) ==
    /\ status[r] = "resolved"
    /\ Reply(r, NoReply)
    /\ UNCHANGED outSampleSuccess

\* A rejected future, or one whose continuation could not fill the buffers.
RunHeightsCatch(r) ==
    /\ status[r] \in {"resolved", "rejected"}
    /\ Reply(r, NoReply)
    /\ UNCHANGED outSampleSuccess

-----------------------------------------------------------------------------
Init ==
    /\ options = NoOptions /\ passed = DefaultPassed
    /\ used = DefaultOptions /\ passedThen = DefaultPassed
    /\ tileset = "none"
    /\ root = "pending" /\ slot = NoCallback /\ forwarder = "none"
    /\ called = <<>> /\ strayed = FALSE
    /\ viewStates = <<>> /\ wanted = <<>>
    /\ nativeResult = [frame |-> 0, views |-> <<>>]
    /\ tilesFadingOut = <<>> /\ heldFrame = 0
    /\ status = [r \in Requests |-> "new"]
    /\ result = [r \in Requests |-> <<>>]
    /\ outSampleSuccess = <<>>
    /\ replies = [r \in Requests |-> <<>>]
    /\ CreditInit

\* The parts of the wrapper that are in use; they share nothing but the tileset itself.
PartsUsed ==
    Cardinality({part \in {"options", "root", "views", "heights", "credits"} :
       CASE part = "options" -> passed # DefaultPassed \/ options # NoOptions
         [] part = "root" -> forwarder # "none" \/ root # "pending"
         [] part = "views" -> wanted # <<>>
         [] part = "heights" -> \E r \in Requests : status[r] # "new"
         [] part = "credits" -> currentCredits # <<>> \/ counted # <<>>})

Bounded == PartsUsed' <= MaxParts

OptionCalls ==
    /\ CreateOptions \/ DestroyOptions \/ PassOption
    /\ UNCHANGED <<tileset, rootVars, viewVars, heightVars, creditVars>>
    /\ Bounded

RootSteps ==
    /\ RootLoaded \/ RunForwarder
          \/ \E callback \in Callbacks \cup {NoCallback} : SetRootTileAvailableCallback(callback)
    /\ UNCHANGED <<optionVars, tileset, viewVars, heightVars, creditVars>>
    /\ Bounded

ViewCalls ==
    /\ \E views \in ViewLists : UpdateView(views)
    /\ UNCHANGED <<optionVars, tileset, rootVars, heightVars, creditVars>>
    /\ Bounded

HeightSteps(r) ==
    /\ SampleHeight(r) \/ HeightsSampled(r) \/ RunHeights(r) \/ RunHeightsCatch(r)
    /\ UNCHANGED <<optionVars, tileset, rootVars, viewVars, creditVars>>
    /\ Bounded

CreditCalls ==
    /\ CreditNext
    /\ UNCHANGED <<optionVars, tileset, rootVars, viewVars, heightVars>>
    /\ Bounded

Next ==
    \/ OptionCalls \/ CreateTileset \/ DestroyTileset \/ RootSteps \/ ViewCalls \/ CreditCalls
    \/ \E r \in Requests : HeightSteps(r)

\* cesium-native finishes every request, and the host pumps.
Fairness ==
    \A r \in Requests :
       WF_vars((HeightsSampled(r) \/ RunHeights(r) \/ RunHeightsCatch(r))
                 /\ UNCHANGED <<optionVars, tileset, rootVars, viewVars, creditVars>>)

Spec == Init /\ [][Next]_vars
FairSpec == Spec /\ Fairness

-----------------------------------------------------------------------------
(* Properties. *)

\* The tileset works with the options as they were when it was created, flags other than 0 and 1
\* counting as set, whatever becomes of the handle; and the handle reads back what was passed.
OptionsFrozen ==
    /\ \A field \in Fields : used[field] = Stored(field, passedThen[field])
    /\ \A field \in SetFields \ Numbers :
          options # NoOptions => GetOption(options, field) = (IF passed[field] # 0 THEN 1 ELSE 0)

\* The root-tile callback is called once at most, and it is the one last set: not one that was
\* replaced or cleared since the forwarder was registered.
RootCallbackCurrent ==
    [][called' # called => called = <<>> /\ called' = <<slot>> /\ slot # NoCallback]_vars

\* While the host holds a result, both halves of it are of the frame it was returned for, and
\* that frame was computed for the view states the host passed, none of an earlier call.
ViewConsistent ==
    heldFrame # 0 =>
       /\ FrameNumber = heldFrame
       /\ TilesToRenderCount = Len(RenderedIn[heldFrame])
       /\ \A index \in 0 .. TilesToRenderCount - 1 :
             TileToRender(index) = RenderedIn[heldFrame][index + 1]
       /\ TilesFadingOutCount = Len(FadingIn[heldFrame])
       /\ \A index \in 0 .. TilesFadingOutCount - 1 :
             TileFadingOut(index) = FadingIn[heldFrame][index + 1]
       /\ nativeResult.views = SelectSeq(wanted, GivenView)

\* A request is answered once at most: with NULLs, or with its own positions and a flag for each
\* that is cesium-native's, or 0 where there is none; nothing of an earlier request is left in
\* the buffers it shares with it.
HeightsOwn ==
    \A r \in Requests :
       /\ Len(replies[r]) <= 1
       /\ \A i \in DOMAIN replies[r] :
             replies[r][i] # NoReply =>
                /\ replies[r][i].positions = Sampled(r)
                /\ \A j \in DOMAIN Positions[r] :
                      replies[r][i].success[j] = 1 <=> j <= Len(result[r]) /\ result[r][j]

\* Every request that was handed to cesium-native is answered, the rejected ones and those of a
\* tileset that is gone included.
HeightsAnswered == \A r \in Requests : status[r] = "native" ~> replies[r] # <<>>

\* "registered, the tileset is destroyed, and nothing calls into a dead frame afterwards"
ForwarderFindsWrapper == ~strayed
=============================================================================
