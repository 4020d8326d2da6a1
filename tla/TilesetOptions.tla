--------------------------- MODULE TilesetOptions ---------------------------
(***************************************************************************)
(* src/src/cesium_tileset_options.cpp: the handle is the native structure   *)
(* itself; flags pass through an int, the load-error callback and its       *)
(* userData (one value here) through a closure.                             *)
(***************************************************************************)
EXTENDS Naturals

CONSTANTS NoOptions,   \* a NULL handle
          NoCallback   \* a NULL callback, or an empty std::function

Numbers == {"maximumScreenSpaceError", "maximumSimultaneousTileLoads", "maximumCachedBytes",
            "lodTransitionLength"}
Flags == {"preloadAncestors", "preloadSiblings", "forbidHoles", "enableFrustumCulling",
          "enableFogCulling", "enableOcclusionCulling", "enableLodTransitionPeriod"}
Fields == Numbers \cup Flags \cup {"loadErrorCallback"}

\* What a setter stores of what it is passed.
Stored(field, value) == IF field \in Flags THEN value # 0 ELSE value

\* Fault: the flag is stored as it comes, so that only 1 counts as set.
SetOptionExact(options, field, value) ==
    IF options = NoOptions THEN options
    ELSE [options EXCEPT ![field] = IF field \in Flags THEN value = 1 ELSE value]

SetOption(options, field, value) ==
    IF options = NoOptions THEN options ELSE [options EXCEPT ![field] = Stored(field, value)]

\* NULL empties the std::function.
SetLoadErrorCallback(options, callback) == SetOption(options, "loadErrorCallback", callback)

\* What the getters say of a NULL handle; the length in tenths, the bytes in mebibytes.
Fallback ==
    [field \in Numbers \cup Flags |->
        CASE field = "maximumScreenSpaceError" -> 16
          [] field = "maximumSimultaneousTileLoads" -> 20
          [] field = "maximumCachedBytes" -> 512
          [] field = "lodTransitionLength" -> 5
          [] field \in {"forbidHoles", "enableLodTransitionPeriod"} -> 0
          [] OTHER -> 1]

GetOption(options, field) ==
    IF options = NoOptions THEN Fallback[field]
    ELSE IF field \in Numbers THEN options[field]
    ELSE IF options[field] THEN 1 ELSE 0
=============================================================================
