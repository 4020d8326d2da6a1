------------------------------ MODULE MCTileset ------------------------------
EXTENDS Tileset, TLC

CONSTANTS r1, r2, view, t1, t2

Place(name) == [longitude |-> <<name, "lon">>, latitude |-> <<name, "lat">>, height |-> "given"]

MCPositions == r1 :> <<Place("a"), Place("b")>> @@ r2 :> <<Place("c")>>
MCViewLists == {<<view>>, <<NoView, view>>}
MCRenderedIn == <<<<t1, t2>>, <<t2>>>>
MCFadingIn == <<<<>>, <<t1>>>>
MCValues == {0, 2}
MCSetFields == {"forbidHoles"}
MCNativeDefaults ==
    [field \in Numbers \cup Flags |-> IF field = "lodTransitionLength" THEN 10 ELSE Fallback[field]]
=============================================================================
