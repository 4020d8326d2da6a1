------------------------- MODULE MCRendererResources -------------------------
EXTENDS RendererResources

MCWithModel == Tiles \ {CHOOSE t \in Tiles : TRUE}

AllCallbacks == {"prepareInLoadThread", "prepareInMainThread", "freeResources",
                 "prepareRasterInLoadThread", "prepareRasterInMainThread", "freeRasterResources"}

MCTables == {AllCallbacks,
             AllCallbacks \ {"prepareInMainThread", "prepareRasterInMainThread"},
             AllCallbacks \ {"freeResources", "prepareRasterInLoadThread"}}

Numbered(first) ==
    [ETC1S_R |-> first, ETC1S_RG |-> first + 1, ETC1S_RGB |-> first + 2,
     ETC1S_RGBA |-> first + 3, UASTC_R |-> first + 4, UASTC_RG |-> first + 5,
     UASTC_RGB |-> first + 6, UASTC_RGBA |-> first + 7]

\* Every field with a value of its own, and a flag that is neither 0 nor 1.
MCOptionValues ==
    {[maximumSimultaneousTileLoads |-> 31, subTileCacheBytes |-> 32, maximumTextureSize |-> 33,
      maximumScreenSpaceError |-> 34, showCreditsOnScreen |-> 2,
      ktx2TranscodeTargets |-> Numbered(1)]}

MCDefaultOptions ==
    [maximumSimultaneousTileLoads |-> 20, subTileCacheBytes |-> 16, maximumTextureSize |-> 48,
     maximumScreenSpaceError |-> 2, showCreditsOnScreen |-> FALSE,
     ktx2TranscodeTargets |-> Numbered(11)]
=============================================================================
