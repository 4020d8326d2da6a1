-------------------------- MODULE RendererResources --------------------------
(***************************************************************************)
(* src/src/cesium_renderer_resources.cpp: the host's callbacks, a struct of *)
(* function pointers, behind IPrepareRendererResources.  cesium-native has  *)
(* the resources of a tile made in a load thread, exchanged in the main     *)
(* thread, and freed; those of the raster tile of an overlay likewise, and  *)
(* it attaches the raster to the tile.                                      *)
(*                                                                          *)
(* An object (a tile, or the raster tile of an overlay) carries one opaque  *)
(* pointer.  The host's side is kept beside it: the resources it has made   *)
(* and not taken back.  When and in which order cesium-native asks is       *)
(* external; what is passed on and what is returned is the code's.          *)
(***************************************************************************)
EXTENDS RasterOverlays, FiniteSets

CONSTANTS Tiles,           \* geometry tiles
          WithModel,       \* those whose content is a glTF model
          Tables,          \* the structs the host passes: the callbacks that are not null
          DefaultOptions,  \* RasterOverlayOptions{}
          Null             \* a null pointer

ASSUME TilesAssumption == WithModel \subseteq Tiles /\ Tiles \cap Overlays = {}

Objects == Tiles \cup Overlays          \* one raster tile for each overlay

VARIABLES callbacks,  \* _callbacks
          stage,      \* where each object is in its life
          pointer,    \* the opaque pointer it carries
          attached,   \* raster -> the tile it is attached to, or Null
          owned       \* resources the host has made and not taken back

rendererVars == <<callbacks, stage, pointer, attached, owned>>
vars == <<overlayVars, rendererVars>>

\* A resource: of which object, made in which thread.
Resource == [of : Objects, in : {"load", "main"}]

ASSUME NullAssumption == Null \notin Resource

TypeOK ==
    /\ callbacks \in Tables \cup {{}}
    /\ stage \in [Objects -> {"unloaded", "loading", "loaded", "ready"}]
    /\ pointer \in [Objects -> Resource \cup {Null}]
    /\ attached \in [Overlays -> Tiles \cup {Null}]
    /\ owned \subseteq Resource
    /\ refs \in [Overlays -> Nat]
    /\ added \in [Overlays -> 0 .. MaxAdded]
    /\ handle \subseteq Overlays /\ deleted \subseteq Overlays

IsRaster(o) == o \in Overlays

\* What a callback that makes resources may return: one for the object, or null.
Made(o, thread) == {[of |-> o, in |-> thread], Null}

-----------------------------------------------------------------------------
\* cesium_tileset_externals_set_renderer_resource_callbacks: setCallbacks, or clearCallbacks for
\* a null pointer.  The struct has no lock: the host replaces it while no load thread runs.
SetCallbacks(table) ==
    /\ \A o \in Objects : stage[o] # "loading"
    /\ callbacks' = table
    /\ UNCHANGED <<overlayVars, stage, pointer, attached, owned>>

\* cesium-native sends an object to a load thread; a raster only of an overlay that was added,
\* to which its raster tile then holds a reference.
StartLoad(o) ==
    /\ stage[o] = "unloaded"
    /\ IF IsRaster(o) THEN added[o] > 0 /\ Acquire(o) ELSE UNCHANGED refs
    /\ stage' = [stage EXCEPT ![o] = "loading"]
    /\ UNCHANGED <<handle, added, deleted, options, passed, callbacks, pointer, attached, owned>>

\* In the load thread: without the callback, or a model to give it, the pointer is null.
PrepareInLoad(o, called) ==
    /\ stage[o] = "loading"
    /\ stage' = [stage EXCEPT ![o] = "loaded"]
    /\ \E made \in (IF called THEN Made(o, "load") ELSE {Null}) :
          /\ pointer' = [pointer EXCEPT ![o] = made]
          /\ owned' = owned \cup ({made} \ {Null})
    /\ UNCHANGED <<overlayVars, callbacks, attached>>

PrepareInLoadThread(t) ==
    t \in Tiles /\ PrepareInLoad(t, "prepareInLoadThread" \in callbacks /\ t \in WithModel)
PrepareRasterInLoadThread(r) ==
    IsRaster(r) /\ PrepareInLoad(r, "prepareRasterInLoadThread" \in callbacks)

-----------------------------------------------------------------------------
\* What prepareInMainThread returns and what the host holds after it: the callback takes the load
\* thread's resource and gives one of its own, or null.
Exchange(o) ==
    \E made \in Made(o, "main") :
       /\ pointer' = [pointer EXCEPT ![o] = made]
       /\ owned' = (owned \ {pointer[o]}) \cup ({made} \ {Null})

\* Fault: without a callback the result is null.
PrepareMainNull(o, called) ==
    /\ stage[o] = "loaded"
    /\ stage' = [stage EXCEPT ![o] = "ready"]
    /\ IF called THEN Exchange(o)
                 ELSE pointer' = [pointer EXCEPT ![o] = Null] /\ UNCHANGED owned
    /\ UNCHANGED <<overlayVars, callbacks, attached>>

\* Fault: what the callback returns is not.
PrepareMainDiscards(o, called) ==
    /\ stage[o] = "loaded"
    /\ stage' = [stage EXCEPT ![o] = "ready"]
    /\ owned' = IF called THEN owned \ {pointer[o]} ELSE owned
    /\ UNCHANGED <<overlayVars, callbacks, pointer, attached>>

\* Without a callback the load thread's pointer goes through.
PrepareMain(o, called) ==
    /\ stage[o] = "loaded"
    /\ stage' = [stage EXCEPT ![o] = "ready"]
    /\ IF called THEN Exchange(o) ELSE UNCHANGED <<pointer, owned>>
    /\ UNCHANGED <<overlayVars, callbacks, attached>>

PrepareInMainThread(t) ==
    t \in WithModel /\ PrepareMain(t, "prepareInMainThread" \in callbacks)
PrepareRasterInMainThread(r) ==
    IsRaster(r) /\ PrepareMain(r, "prepareRasterInMainThread" \in callbacks)

\* cesium-native passes the pointer as the load thread's result or as the main thread's, and
\* forgets it; the host takes back what it gets.
GiveBack(o, called) ==
    /\ stage[o] \in {"loaded", "ready"}
    /\ stage' = [stage EXCEPT ![o] = "unloaded"]
    /\ pointer' = [pointer EXCEPT ![o] = Null]
    /\ owned' = IF called THEN owned \ {pointer[o]} ELSE owned
    /\ UNCHANGED <<callbacks, attached>>

\* A tile is freed once no raster is attached to it.
Free(t) ==
    /\ t \in Tiles
    /\ \A r \in Overlays : attached[r] # t
    /\ GiveBack(t, "freeResources" \in callbacks)
    /\ UNCHANGED overlayVars

\* A raster tile, once detached; with it goes its reference to the overlay.
FreeRaster(r) ==
    /\ IsRaster(r)
    /\ attached[r] = Null
    /\ GiveBack(r, "freeRasterResources" \in callbacks)
    /\ Release(r)
    /\ UNCHANGED <<handle, added, options, passed>>

AttachRaster(t, r) ==
    /\ stage[t] = "ready" /\ stage[r] = "ready"
    /\ attached[r] = Null
    /\ added[r] > 0
    /\ attached' = [attached EXCEPT ![r] = t]
    /\ UNCHANGED <<overlayVars, callbacks, stage, pointer, owned>>

DetachRaster(t, r) ==
    /\ attached[r] = t
    /\ attached' = [attached EXCEPT ![r] = Null]
    /\ UNCHANGED <<overlayVars, callbacks, stage, pointer, owned>>

\* cesium_tileset_destroy once its tiles are unloaded: the collection goes with it.
TilesetGone ==
    /\ \A o \in Objects : stage[o] = "unloaded"
    /\ \E v \in Overlays : added[v] > 0
    /\ DropCollection
    /\ UNCHANGED rendererVars

-----------------------------------------------------------------------------
Init ==
    /\ OverlayInit(DefaultOptions)
    /\ callbacks = {}
    /\ stage = [o \in Objects |-> "unloaded"]
    /\ pointer = [o \in Objects |-> Null]
    /\ attached = [r \in Overlays |-> Null]
    /\ owned = {}

LoadThread == \E o \in Objects : PrepareInLoadThread(o) \/ PrepareRasterInLoadThread(o)

MainThread ==
    \/ \E table \in Tables \cup {{}} : SetCallbacks(table)
    \/ \E o \in Objects : StartLoad(o) \/ PrepareInMainThread(o) \/ PrepareRasterInMainThread(o)
                          \/ Free(o) \/ FreeRaster(o)
    \/ \E t \in Tiles, r \in Overlays : AttachRaster(t, r) \/ DetachRaster(t, r)
    \/ TilesetGone

Host == OverlayNext /\ UNCHANGED rendererVars

Next == LoadThread \/ MainThread \/ Host

Spec == Init /\ [][Next]_vars

-----------------------------------------------------------------------------
(* Properties. *)

\* The pointer an object carries, which the next callback for it gets, is null or a resource the
\* host has made and not taken back, whatever table made it.
ResourcesHeld == \A o \in Objects : pointer[o] \in owned \cup {Null}

\* A resource its object lets go of was given back in that step, unless the host has cleared the
\* callback that takes it: the load thread's goes through the main thread with or without a
\* callback there, and a replaced table takes back what the one before it made.
NoneLost ==
    [][\A resource \in owned :
          pointer[resource.of] = resource /\ pointer'[resource.of] # resource
             => \/ resource \notin owned'
                \/ (IF IsRaster(resource.of) THEN "freeRasterResources" ELSE "freeResources")
                        \notin callbacks]_vars

\* An overlay lives as long as a handle, a collection or a raster tile holds it, and no longer:
\* each counts once, so that handle and tileset may go in any order.
OverlayHeld ==
    \A v \in Overlays :
       /\ refs[v] = (IF v \in handle THEN 1 ELSE 0) + added[v]
                       + (IF stage[v] # "unloaded" THEN 1 ELSE 0)
       /\ v \in deleted => refs[v] = 0

\* What the host reads back is what it passed, on every path of the two conversions, but for a
\* flag other than 0 and 1.
OptionsKept ==
    \A v \in Overlays :
       ToC(options[v]) = [passed[v] EXCEPT !.showCreditsOnScreen = FromBool(@ # 0)]

=============================================================================
