------------------------------ MODULE GltfModel ------------------------------
(***************************************************************************)
(* src/src/cesium_gltf.cpp: a model as the host reads it, the GLB writer,   *)
(* which renames the overlay attributes of the host's own model for the     *)
(* time of the write, and the removal of the feature ids.                   *)
(*                                                                          *)
(* A name is <<prefix, number>>.  Indices start at 0, as in the code.       *)
(* Buffers hold one token where an accessor's data begins.                  *)
(***************************************************************************)
EXTENDS GltfScene, FiniteSets, SequencesExt, FiniteSetsExt

CONSTANTS Models,   \* models a file may hold
          MaxWrites \* GLBs written at most (a bound of the model)

ASSUME WritesAssumption == MaxWrites \in Nat \ {0}

\* What int32_t counts to.
MaxTexCoord == 2147483647

\* A null pointer to a model, to a primitive of one, or to the bytes of a GLB.
NoModel == [none |-> TRUE]

\* What glTF asks of a file, as far as this code relies on it: an accessor a primitive refers to
\* is there, and if it has a view then the accessor's data begin in it and in its buffer.
IsSequence(s) == s \in Seq(Range(s))

ValidAccessor(m, index) ==
    LET accessor == At(m.accessors, index)
        view == At(m.bufferViews, accessor.bufferView)
    IN  /\ InRange(index, m.accessors)
        /\ {"bufferView", "byteOffset", "count", "components", "componentSize"} \subseteq DOMAIN accessor
        /\ accessor.bufferView \in Int /\ accessor.byteOffset \in Nat
        /\ InRange(accessor.bufferView, m.bufferViews) =>
              /\ accessor.byteOffset < view.byteLength
              /\ view.byteOffset + accessor.byteOffset < Len(At(m.buffers, view.buffer))

ValidView(m, view) ==
    /\ {"buffer", "byteOffset", "byteLength"} \subseteq DOMAIN view
    /\ view.buffer \in Int /\ InRange(view.buffer, m.buffers)
    /\ view.byteOffset \in Nat /\ view.byteLength \in Nat

ValidPrimitive(m, primitive) ==
    /\ DOMAIN primitive = {"attributes", "indices", "mode", "material"}
    /\ IsFiniteSet(DOMAIN primitive.attributes)
    /\ \A name \in DOMAIN primitive.attributes :
          /\ name[2] \in Nat
          /\ primitive.attributes[name] \in Nat /\ ValidAccessor(m, primitive.attributes[name])
    /\ primitive.indices # -1 => primitive.indices \in Nat /\ ValidAccessor(m, primitive.indices)

Lists == {"meshes", "accessors", "bufferViews", "buffers", "scenes", "nodes", "materials",
          "textures", "samplers", "images"}

ValidModel(m) ==
    /\ DOMAIN m = Lists \cup {"extensions", "scene"}
    /\ \A kind \in Lists : IsSequence(m[kind])
    /\ \A b \in DOMAIN m.buffers : IsSequence(m.buffers[b])
    /\ \A v \in DOMAIN m.bufferViews : ValidView(m, m.bufferViews[v])
    /\ \A i \in DOMAIN m.meshes : /\ IsSequence(m.meshes[i])
                                  /\ \A j \in DOMAIN m.meshes[i] : ValidPrimitive(m, m.meshes[i][j])

ASSUME ModelsAssumption == \A m \in Models : ValidModel(m)

VARIABLES model,     \* the model of the reader's result
          phase,     \* how far a write has come
          renames,   \* OverlayRename entries of it
          glb,       \* what the last write returned, or NoModel
          writes,    \* how many there were
          threw,     \* where an exception left the last of them, or "no"
          known,     \* what the host saw of the model when it was read, or after the last
                     \* write that threw
          stripped,  \* the feature ids were removed since then
          before     \* what it saw when the last write began

vars == <<model, phase, renames, glb, writes, threw, known, stripped, before>>

-----------------------------------------------------------------------------
(* What the host reads. *)

\* getPrimitive
GetPrimitive(m, meshIndex, primitiveIndex) ==
    IF InRange(meshIndex, m.meshes) /\ InRange(primitiveIndex, At(m.meshes, meshIndex))
    THEN At(At(m.meshes, meshIndex), primitiveIndex) ELSE NoModel

PrimitiveCount(m, meshIndex) == Len(At(m.meshes, meshIndex))

\* The order in which the hash map is iterated, whatever it is.
Iterated(attributes) == SetToSeq(DOMAIN attributes)

AttributeCount(m, meshIndex, primitiveIndex) ==
    LET primitive == GetPrimitive(m, meshIndex, primitiveIndex) IN
    IF primitive = NoModel THEN 0 ELSE Cardinality(DOMAIN primitive.attributes)

AttributeName(m, meshIndex, primitiveIndex, index) ==
    LET primitive == GetPrimitive(m, meshIndex, primitiveIndex) IN
    IF primitive = NoModel \/ ~InRange(index, Iterated(primitive.attributes)) THEN <<"", 0>>
    ELSE At(Iterated(primitive.attributes), index)

AttributeAccessorIndex(m, meshIndex, primitiveIndex, index) ==
    LET primitive == GetPrimitive(m, meshIndex, primitiveIndex) IN
    IF primitive = NoModel \/ ~InRange(index, Iterated(primitive.attributes)) THEN -1
    ELSE primitive.attributes[At(Iterated(primitive.attributes), index)]

IndicesAccessorIndex(m, meshIndex, primitiveIndex) ==
    LET primitive == GetPrimitive(m, meshIndex, primitiveIndex) IN
    IF primitive = NoModel THEN -1 ELSE primitive.indices

\* cesium_gltf_accessor_get_data: the accessor's index is not checked, the rest of the chain is,
\* down to the first byte.  The stride and the component type follow from the accessor and the
\* view as the number of components does, and are left out.
AccessorData(m, accessorIndex) ==
    LET accessor == At(m.accessors, accessorIndex)
        view == At(m.bufferViews, accessor.bufferView)
        data == At(m.buffers, view.buffer)
        offset == view.byteOffset + accessor.byteOffset
    IN  IF /\ InRange(accessor.bufferView, m.bufferViews)
           /\ InRange(view.buffer, m.buffers)
           /\ accessor.components > 0 /\ accessor.componentSize > 0
           /\ offset >= 0 /\ offset < Len(data)
        THEN [data |-> At(data, offset), count |-> accessor.count,
              numberOfComponents |-> accessor.components, byteLength |-> view.byteLength]
        ELSE Nothing

FindAttributeAccessorIndex(m, meshIndex, primitiveIndex, name) ==
    LET primitive == GetPrimitive(m, meshIndex, primitiveIndex) IN
    IF primitive = NoModel \/ name \notin DOMAIN primitive.attributes THEN -1
    ELSE primitive.attributes[name]

PrimitiveMode(m, meshIndex, primitiveIndex) ==
    LET primitive == GetPrimitive(m, meshIndex, primitiveIndex) IN
    IF primitive = NoModel THEN 4 ELSE primitive.mode

MaterialIndex(m, meshIndex, primitiveIndex) ==
    LET primitive == GetPrimitive(m, meshIndex, primitiveIndex) IN
    IF primitive = NoModel THEN -1 ELSE primitive.material

DataIfAny(m, accessorIndex) ==
    IF accessorIndex = -1 THEN Nothing ELSE AccessorData(m, accessorIndex)

\* Everything the host sees of a primitive: each attribute with its data, by place and by name,
\* the indices, and how it is drawn.
SeenPrimitive(m, i, j) ==
    [attributes |-> {LET name == AttributeName(m, i, j, k) IN
                     <<name, DataIfAny(m, AttributeAccessorIndex(m, i, j, k)),
                       DataIfAny(m, FindAttributeAccessorIndex(m, i, j, name))>> :
                        k \in 0 .. AttributeCount(m, i, j) - 1},
     indices |-> DataIfAny(m, IndicesAccessorIndex(m, i, j)),
     mode |-> PrimitiveMode(m, i, j),
     material |-> MaterialIndex(m, i, j)]

\* What hangs where in the default scene, and what the materials look like.
SeenScene(m) ==
    [roots |-> IF DefaultScene(m) = -1 THEN <<>> ELSE SceneNodes(m, DefaultScene(m)),
     nodes |-> [n \in 0 .. Count(m, "nodes") - 1 |->
                  <<NodeMesh(m, n), NodeChildren(m, n), NodeMatrix(m, n), NodeTranslation(m, n),
                    NodeRotation(m, n), NodeScale(m, n)>>],
     materials |-> [n \in 0 .. Count(m, "materials") - 1 |-> MaterialData(m, n)],
     textures |-> [n \in 0 .. Count(m, "textures") - 1 |->
                     <<ImageData(m, TextureSource(m, n)), SamplerData(m, TextureSampler(m, n))>>]]

Seen(m) ==
    [primitives |-> [i \in 0 .. Count(m, "meshes") - 1 |->
                       [j \in 0 .. PrimitiveCount(m, i) - 1 |-> SeenPrimitive(m, i, j)]],
     scene |-> SeenScene(m)]

-----------------------------------------------------------------------------
(* GltfUtilities, as far as this code relies on it. *)

ConcatenatedTo(buffers, index) == FlattenSeq(SubSeq(buffers, 1, index))

\* collapseToSingleBuffer
Collapsed(m) ==
    [m EXCEPT !.buffers = IF @ = <<>> THEN @ ELSE <<FlattenSeq(@)>>,
              !.bufferViews = [v \in DOMAIN m.bufferViews |->
                  LET view == m.bufferViews[v] IN
                  [view EXCEPT !.buffer = 0,
                               !.byteOffset = @ + Len(ConcatenatedTo(m.buffers, view.buffer))]]]

UsedAccessors(m) ==
    UNION {UNION {Range(m.meshes[i][j].attributes) \cup ({m.meshes[i][j].indices} \ {-1}) :
                     j \in DOMAIN m.meshes[i]} : i \in DOMAIN m.meshes}

\* What is kept of a list moves down.
MovedTo(used, index) == Cardinality({u \in used : u < index})
Keeping(list, used) ==
    [k \in 1 .. Cardinality(used) |-> At(list, CHOOSE u \in used : MovedTo(used, u) = k - 1)]

\* removeUnusedAccessors
WithoutUnusedAccessors(m) ==
    LET used == UsedAccessors(m) IN
    [m EXCEPT
       !.accessors = Keeping(@, used),
       !.meshes = [i \in DOMAIN m.meshes |-> [j \in DOMAIN m.meshes[i] |->
           LET primitive == m.meshes[i][j] IN
           [primitive EXCEPT
              !.attributes = [name \in DOMAIN primitive.attributes |->
                                 MovedTo(used, primitive.attributes[name])],
              !.indices = IF @ = -1 THEN @ ELSE MovedTo(used, @)]]]]

\* removeUnusedBufferViews; the images of the model are decoded and have none.
UsedViews(m) ==
    {view \in 0 .. Len(m.bufferViews) - 1 : \E a \in DOMAIN m.accessors : m.accessors[a].bufferView = view}

WithoutUnusedViews(m) ==
    LET used == UsedViews(m) IN
    [m EXCEPT !.bufferViews = Keeping(@, used),
              !.accessors = [a \in DOMAIN m.accessors |->
                  [m.accessors[a] EXCEPT !.bufferView = IF @ \in used THEN MovedTo(used, @) ELSE @]]]

\* removeUnusedBuffers
UsedBuffers(m) == {m.bufferViews[v].buffer : v \in DOMAIN m.bufferViews}

WithoutUnusedBuffers(m) ==
    LET used == UsedBuffers(m) IN
    [m EXCEPT !.buffers = Keeping(@, used),
              !.bufferViews = [v \in DOMAIN m.bufferViews |->
                  [m.bufferViews[v] EXCEPT !.buffer = MovedTo(used, @)]]]

\* compactBuffers: bytes of no view go, as many as the alignment of the views allows.
Covers(view, byte) ==
    /\ view.buffer = byte[1]
    /\ view.byteOffset <= byte[2] /\ byte[2] < view.byteOffset + view.byteLength

Gaps(m) ==
    {byte \in UNION {{b - 1} \X (0 .. Len(m.buffers[b]) - 1) : b \in DOMAIN m.buffers} :
        \A v \in DOMAIN m.bufferViews : ~Covers(m.bufferViews[v], byte)}

KeptBytes(m, gone, b) == {p \in 0 .. Len(At(m.buffers, b)) - 1 : <<b, p>> \notin gone}

Compacted(m, gone) ==
    [m EXCEPT !.buffers = [b \in DOMAIN m.buffers |-> Keeping(m.buffers[b], KeptBytes(m, gone, b - 1))],
              !.bufferViews = [v \in DOMAIN m.bufferViews |->
                  LET view == m.bufferViews[v] IN
                  [view EXCEPT !.byteOffset = MovedTo(KeptBytes(m, gone, view.buffer), @)]]]

-----------------------------------------------------------------------------
(* cesium_gltf_model_write_glb. *)

Overlays(attributes) == {name \in DOMAIN attributes : name[1] = "_CESIUMOVERLAY_"}

\* Fault: the largest index present, not the one after it.
NextTexCoordUsed(attributes) ==
    Max({0} \cup {name[2] : name \in {n \in DOMAIN attributes : n[1] = "TEXCOORD_"}})

NextTexCoord(attributes) ==
    Max({0} \cup {name[2] + 1 : name \in {n \in DOMAIN attributes : n[1] = "TEXCOORD_"}})

\* The names the overlays get, in the order the hash map has them: the next texture coordinates,
\* the overlays having been erased before.
TexCoordNames(attributes, order) ==
    LET next == NextTexCoord([name \in DOMAIN attributes \ Overlays(attributes) |-> 0]) IN
    [name \in Overlays(attributes) |->
        <<"TEXCOORD_", next - 1 + CHOOSE k \in DOMAIN order : order[k] = name>>]

\* Assigning to a name replaces what has it.
RenamedAttributes(attributes, names) ==
    LET given == {names[overlay] : overlay \in DOMAIN names} IN
    [name \in given \cup (DOMAIN attributes \ DOMAIN names) |->
        IF name \in given THEN attributes[CHOOSE overlay \in DOMAIN names : names[overlay] = name]
                          ELSE attributes[name]]

Places == UNION {{<<i, j>> : j \in DOMAIN model.meshes[i]} : i \in DOMAIN model.meshes}

Attributes(place) == model.meshes[place[1]][place[2]].attributes

\* The model with the attributes given for each primitive.
WithAttributes(given) ==
    [model EXCEPT !.meshes = [i \in DOMAIN @ |-> [j \in DOMAIN @[i] |->
        [@[i][j] EXCEPT !.attributes = given[<<i, j>>]]]]]

\* Each primitive with its own order, whatever its hash map gives.
Orders ==
    {orders \in [Places -> UNION {SetToSeqs(Overlays(Attributes(place))) : place \in Places}] :
        \A place \in Places : orders[place] \in SetToSeqs(Overlays(Attributes(place)))}

Renamed(place, order) ==
    RenamedAttributes(Attributes(place), TexCoordNames(Attributes(place), order))

\* The numbers of the texture coordinates are an int32_t's; what the code does beyond is undefined
\* and is left out.
WriteBegins ==
    /\ model # NoModel
    /\ phase = "idle"
    /\ writes < MaxWrites
    /\ \A place \in Places :
          LET overlays == Overlays(Attributes(place)) IN
          overlays # {} =>
             NextTexCoord([name \in DOMAIN Attributes(place) \ overlays |-> 0])
                <= MaxTexCoord - Cardinality(overlays)
    /\ writes' = writes + 1
    /\ before' = Seen(model)
    /\ glb' = NoModel

RenameOverlays ==
    /\ WriteBegins
    /\ \E orders \in Orders :
          /\ renames' = [place \in Places |-> TexCoordNames(Attributes(place), orders[place])]
          /\ model' = WithAttributes([place \in Places |-> Renamed(place, orders[place])])
    /\ phase' = "renamed"
    /\ threw' = "no"
    /\ UNCHANGED <<known, stripped>>

\* The catch of the entry point: the renames are forgotten, the model is left as it is.
Abandoned(where) ==
    /\ phase' = "idle"
    /\ threw' = where
    /\ renames' = <<>>
    /\ known' = Seen(model')
    /\ stripped' = FALSE

Earlier(place, other) ==
    place[1] < other[1] \/ (place[1] = other[1] /\ place[2] < other[2])

\* Some of the overlays were erased, all of them before the first got its other name.
HalfRenamed(place, order, erased, count) ==
    LET renamed == {order[k] : k \in 1 .. count} IN
    RenamedAttributes(Restrict(Attributes(place), DOMAIN Attributes(place) \ (erased \ renamed)),
                      Restrict(TexCoordNames(Attributes(place), order), renamed))

\* An allocation of the renaming fails at one primitive, those before it being done.
RenameThrows ==
    /\ WriteBegins
    /\ \E orders \in Orders, at \in Places :
       \E erased \in SUBSET Overlays(Attributes(at)), count \in 0 .. Len(orders[at]) :
          /\ orders[at] # <<>>
          /\ count > 0 => erased = Overlays(Attributes(at))
          /\ model' = WithAttributes([place \in Places |->
                CASE Earlier(place, at) -> Renamed(place, orders[place])
                  [] place = at -> HalfRenamed(at, orders[at], erased, count)
                  [] OTHER -> Attributes(place)])
    /\ Abandoned("renaming")

CollapseToSingleBuffer ==
    /\ phase = "renamed"
    /\ model' = Collapsed(model)
    /\ phase' = "collapsed"
    /\ UNCHANGED <<renames, glb, writes, threw, known, stripped, before>>

\* Fault: a guard erases the texture coordinates of the overlays instead of restoring them.
WriteThrowsErasing ==
    /\ phase \in {"renamed", "collapsed"}
    /\ model' = WithAttributes([place \in Places |->
          Restrict(Attributes(place), DOMAIN Attributes(place) \ Range(renames[place]))])
    /\ UNCHANGED <<glb, writes, before>>
    /\ Abandoned("writing")

\* An exception of either goes past the restoration to the catch of the entry point.
WriteThrows ==
    /\ phase \in {"renamed", "collapsed"}
    /\ UNCHANGED <<model, glb, writes, before>>
    /\ Abandoned("writing")

\* GltfWriter::writeGlb, with or without errors.
Serialize ==
    /\ phase = "collapsed"
    /\ glb' \in {Seen(model), NoModel}
    /\ phase' = "written"
    /\ UNCHANGED <<model, renames, writes, threw, known, stripped, before>>

\* Fault: the overlay's own name is looked for, which is not there.
RestoredLookingForOverlay(attributes, names) ==
    LET found == DOMAIN names \cap DOMAIN attributes IN
    [name \in (DOMAIN attributes \ {names[overlay] : overlay \in found}) \cup found |->
        IF name \in found THEN attributes[names[name]] ELSE attributes[name]]

\* An entry whose texture coordinate is not found is skipped.
RestoredAttributes(attributes, names) ==
    LET found == {overlay \in DOMAIN names : names[overlay] \in DOMAIN attributes} IN
    [name \in (DOMAIN attributes \ {names[overlay] : overlay \in found}) \cup found |->
        IF name \in found THEN attributes[names[name]] ELSE attributes[name]]

Restored(place) == RestoredAttributes(Attributes(place), renames[place])

\* The names are restored whether or not there were errors; then the bytes are handed over, or 0
\* is returned.
RestoreOverlays ==
    /\ phase = "written"
    /\ model' = WithAttributes([place \in Places |-> Restored(place)])
    /\ phase' = "idle"
    /\ renames' = <<>>
    /\ UNCHANGED <<glb, writes, threw, known, stripped, before>>

\* The texture coordinate was erased, the overlay is not there yet; those with smaller numbers
\* are restored.
HalfRestored(place, lost) ==
    LET names == renames[place]
        done == {overlay \in DOMAIN names : names[overlay][2] < names[lost][2]}
        restored == RestoredAttributes(Attributes(place), Restrict(names, done))
    IN  Restrict(restored, DOMAIN restored \ {names[lost]})

\* An allocation of the restoration fails.
RestoreThrows ==
    /\ phase = "written"
    /\ \E at \in Places : \E lost \in DOMAIN renames[at] :
          /\ renames[at][lost] \in DOMAIN Attributes(at)
          /\ model' = WithAttributes([place \in Places |->
                CASE Earlier(place, at) -> Restored(place)
                  [] place = at -> HalfRestored(at, lost)
                  [] OTHER -> Attributes(place)])
    /\ glb' = NoModel
    /\ UNCHANGED <<writes, before>>
    /\ Abandoned("restoring")

-----------------------------------------------------------------------------
\* cesium_gltf_model_strip_feature_ids: the attributes go, the extensions, and the accessors,
\* views, buffers and bytes nothing refers to any more.
StripFeatureIds ==
    /\ model # NoModel
    /\ phase = "idle"
    /\ LET without(attributes) ==
               Restrict(attributes, {n \in DOMAIN attributes : n[1] # "_FEATURE_ID_"})
           bare == WithAttributes([place \in Places |-> without(Attributes(place))])
           packed == WithoutUnusedAccessors(
                        [bare EXCEPT !.extensions = @ \ {"EXT_mesh_features", "EXT_structural_metadata"}])
           cleaned == WithoutUnusedBuffers(WithoutUnusedViews(packed))
       IN  \E gone \in SUBSET Gaps(cleaned) : model' = Compacted(cleaned, gone)
    /\ stripped' = TRUE
    /\ UNCHANGED <<phase, renames, glb, writes, threw, known, before>>

\* cesium_gltf_reader_read, cesium_gltf_reader_result_get_model: a model or none.
Read ==
    /\ model = NoModel
    /\ model' \in Models
    /\ known' = Seen(model')
    /\ UNCHANGED <<phase, renames, glb, writes, threw, stripped, before>>

Init ==
    /\ model = NoModel /\ glb = NoModel
    /\ phase = "idle"
    /\ renames = <<>> /\ known = <<>> /\ before = <<>>
    /\ writes = 0
    /\ threw = "no" /\ stripped = FALSE

Next ==
    \/ Read \/ StripFeatureIds
    \/ RenameOverlays \/ CollapseToSingleBuffer \/ Serialize \/ RestoreOverlays
    \/ RenameThrows \/ WriteThrows \/ RestoreThrows

Spec == Init /\ [][Next]_vars

-----------------------------------------------------------------------------
(* Properties. *)

\* The attributes the host should find, without the feature ids once they are removed.
Expected(primitive) == {seen \in primitive.attributes : stripped => seen[1][1] # "_FEATURE_ID_"}

\* Between the calls the host finds what it read, or what the last write that threw left: every
\* attribute with its data, whatever was renamed, collapsed, removed and compacted meanwhile, and
\* no other; the indices with theirs; the scene as it was.
ModelKept ==
    model # NoModel /\ phase = "idle" =>
       /\ Seen(model).scene = known.scene
       /\ \A i \in DOMAIN known.primitives : \A j \in DOMAIN known.primitives[i] :
             LET now == Seen(model).primitives[i][j]  was == known.primitives[i][j] IN
             /\ now.attributes = Expected(was)
             /\ now.indices = was.indices
             /\ now.mode = was.mode /\ now.material = was.material

\* The written file has every attribute the model had, none replaced by another: an overlay under
\* a texture coordinate of its own that the primitive did not have, the others as they were.
GlbComplete ==
    glb # NoModel =>
       \A i \in DOMAIN before.primitives : \A j \in DOMAIN before.primitives[i] :
          LET was == before.primitives[i][j].attributes
              written == glb.primitives[i][j].attributes
          IN  /\ Cardinality(written) = Cardinality(was)
              /\ \A seen \in was :
                    IF seen[1][1] # "_CESIUMOVERLAY_" THEN seen \in written
                    ELSE \E other \in written : /\ other[1][1] = "TEXCOORD_"
                                               /\ other[2] = seen[2]
                                               /\ \A kept \in was : kept[1] # other[1]

\* The attributes of a primitive that are no overlays, and its overlays.
Others(attributes) == {seen \in attributes : seen[1][1] # "_CESIUMOVERLAY_"}
OverlaysOf(attributes) == attributes \ Others(attributes)

\* Under its own name, or under that of a texture coordinate the primitive did not have.
StillThere(seen, was, now) ==
    \E other \in now :
       /\ Tail(other) = Tail(seen)
       /\ other[1] = seen[1] \/ (other[1][1] = "TEXCOORD_" /\ \A kept \in was : kept[1] # other[1])

\* After a write that threw, the attributes that are no overlays are as they were when it began,
\* and every other is an overlay, perhaps under another name.  None is missing if the collapse or
\* the writer threw, one if the restoration did, and the overlays of one primitive at most if the
\* renaming did.  (Until the feature ids are removed.)  This is all that is left, after a throw, of
\* the header's promise that the overlays are restored.
ThrowKeepsRest ==
    threw # "no" /\ ~stripped =>
       LET Was(place) == before.primitives[place[1]][place[2]].attributes
           Now(place) == Seen(model).primitives[place[1]][place[2]].attributes
           places == UNION {{<<i, j>> : j \in DOMAIN before.primitives[i]} : i \in DOMAIN before.primitives}
           missing(place) == Cardinality(Was(place)) - Cardinality(Now(place))
           hit == {place \in places : missing(place) # 0}
       IN  /\ \A place \in places :
                 /\ Others(Was(place)) \subseteq Now(place)
                 /\ \A seen \in Now(place) \ Others(Was(place)) :
                       \E overlay \in OverlaysOf(Was(place)) : StillThere(overlay, Was(place), {seen})
           /\ threw = "writing" => hit = {}
           /\ threw = "renaming" => Cardinality(hit) <= 1
           /\ threw = "restoring" => \E place \in places : hit = {place} /\ missing(place) = 1

\* The transformation glTF gives a node: its matrix, or the three properties with their defaults.
Placement(node) ==
    IF Len(node.matrix) = 16 /\ node.matrix # Identity THEN node.matrix
    ELSE <<Sized(node.translation, NoTranslation), Sized(node.rotation, NoRotation),
           Sized(node.scale, NoScale)>>

\* A host that uses the matrix where the getter says there is one, and else the three
\* properties, puts every node where glTF puts it, although a node without a matrix has one.
NodesPlaced ==
    model # NoModel =>
       \A n \in 0 .. Count(model, "nodes") - 1 :
          LET matrix == NodeMatrix(model, n) IN
          Placement(At(model.nodes, n)) =
             IF matrix.explicit /\ matrix.out # Identity THEN matrix.out
             ELSE IF matrix.explicit THEN <<NoTranslation, NoRotation, NoScale>>
             ELSE <<NodeTranslation(model, n), NodeRotation(model, n), NodeScale(model, n)>>
=============================================================================
