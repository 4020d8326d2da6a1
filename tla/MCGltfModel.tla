----------------------------- MODULE MCGltfModel -----------------------------
EXTENDS GltfModel

Accessor(view, offset) ==
    [bufferView |-> view, byteOffset |-> offset, count |-> 1, components |-> 3, componentSize |-> 1]
View(buffer, offset, length) ==
    [buffer |-> buffer, byteOffset |-> offset, byteLength |-> length]

Overlay(n) == <<"_CESIUMOVERLAY_", n>>
TexCoord(n) == <<"TEXCOORD_", n>>
FeatureId == <<"_FEATURE_ID_", 0>>
Position == <<"POSITION", 0>>

\* Three buffers: one only a feature id uses, one with a byte of no view between two views, one
\* with a view of two accessors.  A gap before a texture coordinate, two overlays and a feature id
\* in one primitive, one overlay and no texture coordinate in the other; indices without data.
Globe ==
    [meshes |-> <<<<[attributes |-> [name \in {Overlay(0), Overlay(1), TexCoord(1), FeatureId,
                                               Position} |->
                         CASE name = Position -> 1 [] name = FeatureId -> 0
                           [] name = TexCoord(1) -> 2 [] name = Overlay(0) -> 3
                           [] OTHER -> 4],
                     indices |-> 5, mode |-> 4, material |-> 0]>>,
                  <<[attributes |-> [name \in {Overlay(1), Position} |->
                         IF name = Position THEN 6 ELSE 4],
                     indices |-> 7, mode |-> 4, material |-> -1]>>>>,
     accessors |-> <<Accessor(0, 0), Accessor(1, 0), Accessor(1, 1), Accessor(2, 0), Accessor(3, 0),
                     Accessor(3, 1), Accessor(4, 0), [Accessor(4, 0) EXCEPT !.components = 0]>>,
     bufferViews |-> <<View(0, 0, 1), View(1, 0, 2), View(1, 3, 1), View(2, 0, 2), View(2, 2, 1)>>,
     buffers |-> <<<<"f">>, <<"p", "t", "-", "o">>, <<"q", "i", "r">>>>,
     extensions |-> {"EXT_mesh_features", "KHR_mesh_quantization"}]

\* One primitive with three overlays and texture coordinates from 0; the feature id is the first
\* byte of the only buffer.
Terrain ==
    [meshes |-> <<<<[attributes |-> [name \in {Overlay(0), Overlay(1), Overlay(2), TexCoord(0),
                                               FeatureId} |->
                         IF name = FeatureId THEN 0 ELSE IF name = TexCoord(0) THEN 1
                         ELSE 2 + name[2]],
                     indices |-> -1, mode |-> 4, material |-> -1]>>>>,
     accessors |-> <<Accessor(0, 0)>> \o [k \in 1 .. 4 |-> Accessor(1, k - 1)],
     bufferViews |-> <<View(0, 0, 1), View(0, 1, 4)>>,
     buffers |-> <<<<"f", "t", "a", "b", "c">>>>,
     extensions |-> {"EXT_mesh_features", "EXT_structural_metadata"}]

Empty == [meshes |-> <<>>, accessors |-> <<>>, bufferViews |-> <<>>, buffers |-> <<>>,
          extensions |-> {}]

\* Absent, the default, or another: every combination of the four.
Vector(default, n) == LET choices == <<<<>>, default, [k \in DOMAIN default |-> 2]>> IN choices[1 + (n % 3)]
Nodes == [k \in 1 .. 81 |->
            [mesh |-> 0, children |-> <<>>, matrix |-> Vector(Identity, k),
             translation |-> Vector(NoTranslation, k \div 3),
             rotation |-> Vector(NoRotation, k \div 9), scale |-> Vector(NoScale, k \div 27)]]

Material(texture, mode) ==
    [pbr |-> [baseColorFactor |-> <<0, 1, 0, 1>>, metallicFactor |-> 0, roughnessFactor |-> 1,
              baseColorTexture |-> texture, metallicRoughnessTexture |-> Nothing],
     emissiveFactor |-> <<>>, alphaMode |-> mode, alphaCutoff |-> 1, doubleSided |-> FALSE,
     normalTexture |-> texture, occlusionTexture |-> Nothing, emissiveTexture |-> Nothing]
TextureInfo == [index |-> 0, texCoord |-> 1, scale |-> 2]

\* The two models with a root and its child, or with every kind of node; one material, one not.
World(m, root) ==
    [k \in DOMAIN m \cup DOMAIN root |-> IF k \in DOMAIN m THEN m[k] ELSE root[k]]
Bare == [scene |-> -1, scenes |-> <<>>, nodes |-> <<>>, materials |-> <<>>, textures |-> <<>>,
         samplers |-> <<>>, images |-> <<>>]
Scene == [scene |-> 0, scenes |-> <<[nodes |-> <<0>>]>>,
          nodes |-> <<[mesh |-> -1, children |-> [n \in 1 .. Len(Nodes) |-> n], matrix |-> Identity,
                       translation |-> NoTranslation, rotation |-> NoRotation,
                       scale |-> NoScale]>> \o Nodes,
          materials |-> <<Material(TextureInfo, "MASK"), [Material(Nothing, "OPAQUE") EXCEPT !.pbr = Nothing]>>,
          textures |-> <<[source |-> 0, sampler |-> 0]>>,
          samplers |-> <<[magFilter |-> Nothing, minFilter |-> 9728, wrapS |-> 1, wrapT |-> 2]>>,
          images |-> <<[pixelData |-> <<"p">>, width |-> 1, height |-> 1]>>]

MCModels == {World(Globe, Scene), World(Terrain, Bare), World(Empty, Bare)}
=============================================================================
