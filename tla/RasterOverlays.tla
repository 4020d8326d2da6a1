--------------------------- MODULE RasterOverlays ---------------------------
(***************************************************************************)
(* src/src/cesium_raster_overlays.cpp: a handle holds one reference to its  *)
(* overlay, a collection one for every time the overlay was added, and a    *)
(* raster tile of the overlay another.  The overlay is deleted with the     *)
(* last of them.  Its options are copied field by field, in and out.        *)
(***************************************************************************)
EXTENDS Integers

CONSTANTS Overlays,
          MaxAdded,        \* times the host adds an overlay at most (a bound of the model)
          OptionValues     \* options the host passes

ASSUME AddedAssumption == MaxAdded \in Nat \ {0}

VARIABLES handle,     \* overlays whose handle the host holds
          added,      \* how often each is in the collection
          refs,       \* IntrusivePointer count of each
          deleted,    \* overlays that are gone
          options,    \* RasterOverlay::getOptions()
          passed      \* what the host passed last

overlayVars == <<handle, added, refs, deleted, options, passed>>

Acquire(v) == refs' = [refs EXCEPT ![v] = @ + 1]
Release(v) == /\ refs' = [refs EXCEPT ![v] = @ - 1]
              /\ deleted' = IF refs[v] = 1 THEN deleted \cup {v} ELSE deleted

\* int to bool and back.
ToBool(n) == n # 0
FromBool(b) == IF b THEN 1 ELSE 0

Ktx2Targets == {"ETC1S_R", "ETC1S_RG", "ETC1S_RGB", "ETC1S_RGBA",
                "UASTC_R", "UASTC_RG", "UASTC_RGB", "UASTC_RGBA"}

\* The struct of C; the screen-space error, a double, is a number of these too.
RasterOverlayOptions ==
    [maximumSimultaneousTileLoads : Int, subTileCacheBytes : Int, maximumTextureSize : Int,
     maximumScreenSpaceError : Int, showCreditsOnScreen : Int,
     ktx2TranscodeTargets : [Ktx2Targets -> Int]]

ASSUME OptionsAssumption == OptionValues \subseteq RasterOverlayOptions

\* The enumerations of C and of native code have the same order.
CopyKtx2TargetsToC(src) == [target \in Ktx2Targets |-> src[target]]

\* Fault: two neighbours swapped.
CopyKtx2TargetsSwapped(src) ==
    [src EXCEPT !.ETC1S_RGB = src.ETC1S_RGBA, !.ETC1S_RGBA = src.ETC1S_RGB]

CopyKtx2TargetsToNative(src) == [target \in Ktx2Targets |-> src[target]]

\* cesium_raster_overlay_get_options, and _options_default of a native default.
ToC(native) ==
    [maximumSimultaneousTileLoads |-> native.maximumSimultaneousTileLoads,
     subTileCacheBytes |-> native.subTileCacheBytes,
     maximumTextureSize |-> native.maximumTextureSize,
     maximumScreenSpaceError |-> native.maximumScreenSpaceError,
     showCreditsOnScreen |-> FromBool(native.showCreditsOnScreen),
     ktx2TranscodeTargets |-> CopyKtx2TargetsToC(native.ktx2TranscodeTargets)]

\* cesium_raster_overlay_set_options.
ToNative(c) ==
    [maximumSimultaneousTileLoads |-> c.maximumSimultaneousTileLoads,
     subTileCacheBytes |-> c.subTileCacheBytes,
     maximumTextureSize |-> c.maximumTextureSize,
     maximumScreenSpaceError |-> c.maximumScreenSpaceError,
     showCreditsOnScreen |-> ToBool(c.showCreditsOnScreen),
     ktx2TranscodeTargets |-> CopyKtx2TargetsToNative(c.ktx2TranscodeTargets)]

-----------------------------------------------------------------------------
\* The four constructors differ in what the overlay draws, not in who holds it; each starts
\* with the default options.
CreateOverlay(v) ==
    /\ v \notin handle
    /\ refs[v] = 0
    /\ v \notin deleted
    /\ Acquire(v)
    /\ handle' = handle \cup {v}
    /\ UNCHANGED <<added, deleted, options, passed>>

\* Fault: the collection is given the pointer, not a reference.
AddWithoutRef(v) ==
    /\ v \in handle
    /\ added[v] < MaxAdded
    /\ added' = [added EXCEPT ![v] = @ + 1]
    /\ UNCHANGED <<handle, refs, deleted, options, passed>>

\* cesium_raster_overlay_collection_add; the temporary pointer comes and goes.
Add(v) ==
    /\ v \in handle
    /\ added[v] < MaxAdded
    /\ added' = [added EXCEPT ![v] = @ + 1]
    /\ Acquire(v)
    /\ UNCHANGED <<handle, deleted, options, passed>>

\* cesium_raster_overlay_collection_remove; of an overlay that is not there nothing is removed.
Remove(v) ==
    /\ v \in handle
    /\ added[v] > 0
    /\ added' = [added EXCEPT ![v] = @ - 1]
    /\ Release(v)
    /\ UNCHANGED <<handle, options, passed>>

SetOptions(v, c) ==
    /\ v \in handle
    /\ options' = [options EXCEPT ![v] = ToNative(c)]
    /\ passed' = [passed EXCEPT ![v] = c]
    /\ UNCHANGED <<handle, added, refs, deleted>>

DestroyOverlay(v) ==
    /\ v \in handle
    /\ handle' = handle \ {v}
    /\ Release(v)
    /\ UNCHANGED <<added, options, passed>>

\* The tileset that owns the collection is destroyed, and the collection with it.
DropCollection ==
    /\ added' = [v \in Overlays |-> 0]
    /\ refs' = [v \in Overlays |-> refs[v] - added[v]]
    /\ deleted' = deleted \cup {v \in Overlays : added[v] > 0 /\ refs[v] = added[v]}
    /\ UNCHANGED <<handle, options, passed>>

OverlayInit(native) ==
    /\ handle = {}
    /\ added = [v \in Overlays |-> 0]
    /\ refs = [v \in Overlays |-> 0]
    /\ deleted = {}
    /\ options = [v \in Overlays |-> native]
    /\ passed = [v \in Overlays |-> ToC(native)]

OverlayNext ==
    \E v \in Overlays :
       \/ \E c \in OptionValues : SetOptions(v, c)
       \/ CreateOverlay(v) \/ Add(v) \/ Remove(v) \/ DestroyOverlay(v)

=============================================================================
