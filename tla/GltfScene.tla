------------------------------ MODULE GltfScene ------------------------------
(***************************************************************************)
(* src/src/cesium_gltf.cpp, the getters of scenes, nodes, materials,        *)
(* textures, samplers and images.  Indices start at 0 and are not checked.  *)
(* A vector or a matrix of a node is a sequence, empty or of any length, as *)
(* in the file; its numbers are integers here.                              *)
(***************************************************************************)
EXTENDS Integers, Sequences

CONSTANT Nothing    \* an optional that is not set, and what a getter gives for no data

\* One comparison of an int index, as unsigned, with a size.
InRange(index, list) == index >= 0 /\ index < Len(list)
At(list, index) == list[index + 1]

\* cesium_gltf_model_get_mesh_count, ..._accessor_count, ..._buffer_count and so on.
Count(m, kind) == Len(m[kind])

-----------------------------------------------------------------------------
(* Scenes and nodes. *)

DefaultScene(m) == m.scene
SceneNodes(m, scene) == At(m.scenes, scene).nodes
NodeMesh(m, node) == At(m.nodes, node).mesh
NodeChildren(m, node) == At(m.nodes, node).children

Identity == [k \in 1..16 |-> IF k \in {1, 6, 11, 16} THEN 1 ELSE 0]

\* A vector of the right length, or its default.
Sized(vector, default) == IF Len(vector) = Len(default) THEN vector ELSE default

NoTranslation == <<0, 0, 0>>
NoRotation == <<0, 0, 0, 1>>
NoScale == <<1, 1, 1>>

NodeTranslation(m, node) == Sized(At(m.nodes, node).translation, NoTranslation)
NodeRotation(m, node) == Sized(At(m.nodes, node).rotation, NoRotation)
NodeScale(m, node) == Sized(At(m.nodes, node).scale, NoScale)

\* Fault: an identity matrix is a matrix.
NodeMatrixTaken(m, node) ==
    LET matrix == At(m.nodes, node).matrix IN
    [out |-> Sized(matrix, Identity), explicit |-> Len(matrix) = 16]

\* cesium-native gives a node without a matrix the identity, so an identity is taken for one only
\* if nothing says that the other three are in use.
NodeMatrix(m, node) ==
    LET n == At(m.nodes, node)
        hasTRS == \/ Len(n.translation) = 3 /\ n.translation # NoTranslation
                  \/ Len(n.rotation) = 4 /\ n.rotation # NoRotation
                  \/ Len(n.scale) = 3 /\ n.scale # NoScale
    IN  [out |-> Sized(n.matrix, Identity),
         explicit |-> Len(n.matrix) = 16 /\ (n.matrix = Identity => ~hasTRS)]

-----------------------------------------------------------------------------
(* Materials and what they refer to. *)

\* An optional texture, with the factor the getter takes for this kind of texture.
Texture(optional, factor) ==
    IF optional = Nothing THEN [index |-> -1, texCoord |-> 0, scale |-> 1]
    ELSE [index |-> optional.index, texCoord |-> optional.texCoord, scale |-> factor]

\* A factor of at least as many numbers as the default has.
Factor(numbers, default) ==
    IF Len(numbers) < Len(default) THEN default ELSE SubSeq(numbers, 1, Len(default))

AlphaMode(name) == CASE name = "MASK" -> 1 [] name = "BLEND" -> 2 [] OTHER -> 0

MaterialData(m, material) ==
    LET mat == At(m.materials, material)
        pbr == IF mat.pbr = Nothing
               THEN [baseColorFactor |-> <<>>, metallicFactor |-> 1, roughnessFactor |-> 1,
                     baseColorTexture |-> Nothing, metallicRoughnessTexture |-> Nothing]
               ELSE mat.pbr
        OwnScale(optional) == IF optional = Nothing THEN 1 ELSE optional.scale
    IN  [baseColorFactor |-> Factor(pbr.baseColorFactor, <<1, 1, 1, 1>>),
         metallicFactor |-> pbr.metallicFactor, roughnessFactor |-> pbr.roughnessFactor,
         baseColorTexture |-> Texture(pbr.baseColorTexture, 1),
         metallicRoughnessTexture |-> Texture(pbr.metallicRoughnessTexture, 1),
         emissiveFactor |-> Factor(mat.emissiveFactor, <<0, 0, 0>>),
         alphaMode |-> AlphaMode(mat.alphaMode), alphaCutoff |-> mat.alphaCutoff,
         doubleSided |-> mat.doubleSided,
         normalTexture |-> Texture(mat.normalTexture, OwnScale(mat.normalTexture)),
         occlusionTexture |-> Texture(mat.occlusionTexture, OwnScale(mat.occlusionTexture)),
         emissiveTexture |-> Texture(mat.emissiveTexture, 1)]

TextureSource(m, texture) == At(m.textures, texture).source
TextureSampler(m, texture) == At(m.textures, texture).sampler

\* Filters are optional, wrapping is not.
SamplerData(m, sampler) ==
    LET s == At(m.samplers, sampler)
        Filter(optional) == IF optional = Nothing THEN -1 ELSE optional
    IN  [magFilter |-> Filter(s.magFilter), minFilter |-> Filter(s.minFilter),
         wrapS |-> s.wrapS, wrapT |-> s.wrapT]

\* No data before the image is decoded, and none once its pixels were released.
ImageData(m, image) ==
    LET asset == At(m.images, image) IN
    IF asset = Nothing \/ asset.pixelData = <<>> THEN Nothing ELSE asset
=============================================================================
