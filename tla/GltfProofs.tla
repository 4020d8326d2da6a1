------------------------------ MODULE GltfProofs ------------------------------
(***************************************************************************)
(* What holds of GltfModel for all models that meet glTF's rules and any    *)
(* number of writes and removals: the host's data survive them, and no      *)
(* written file lacks one.                                                  *)
(*                                                                          *)
(* A primitive is reasoned about by its content, which gives each name the  *)
(* data its accessor leads to.  Each operation has a lemma that says what   *)
(* it does to the content: renaming and restoring change names, collapsing  *)
(* the buffers and packing accessors, views, buffers and bytes change       *)
(* nothing; a write given up on leaves a model again.  FlattenSeq, which is *)
(* recursive, is reasoned about by the least place that fails.              *)
(***************************************************************************)
EXTENDS GltfModel, FiniteSetTheorems, TLAPS

-----------------------------------------------------------------------------
(* Finite sets of numbers, and sets put in an order. *)

\* A finite set of numbers has a largest one.
LEMMA MaxExists ==
    ASSUME NEW S, IsFiniteSet(S), S \subseteq Nat, S # {}
    PROVE  Max(S) \in S /\ \A x \in S : x <= Max(S)
<1> DEFINE F == {T \in SUBSET S : T # {} /\ ~\E x \in T : \A y \in T : x >= y}
           R == StrictSubsetOrdering(S)
<1>1. F = {}
  <2> SUFFICES ASSUME F # {} PROVE FALSE
    OBVIOUS
  <2>1. F \subseteq FiniteSubsetsOf(S)
    BY FS_FiniteSubsetsOfFinite
  <2>2. IsWellFoundedOn(R, FiniteSubsetsOf(S))
    BY FS_StrictSubsetOrderingWellFounded
  <2>3. PICK T \in F : \A U \in F : ~(<<U, T>> \in R)
    <3> HIDE DEF F, R
    <3> QED BY <2>1, <2>2, WFMin
  <2>4. PICK t \in T : TRUE
    BY <2>3
  <2>5. CASE T = {t}
    BY <2>3, <2>5
  <2>6. CASE T # {t}
    <3> DEFINE U == T \ {t}
    <3>1. U \in SUBSET S /\ U # {} /\ U \subseteq T /\ U # T
      BY <2>3, <2>4, <2>6
    <3>2. <<U, T>> \in R
      BY <2>3, <3>1 DEF StrictSubsetOrdering
    <3>3. U \notin F
      BY <2>3, <3>2
    <3>4. PICK x \in U : \A y \in U : x >= y
      BY <3>1, <3>3
    <3>5. \A y \in T : y = t \/ y \in U
      OBVIOUS
    <3>6. t \in Nat /\ x \in Nat /\ x \in T
      BY <2>3, <2>4, <3>4
    <3>7. CASE x >= t
      BY <2>3, <3>4, <3>5, <3>6, <3>7
    <3>8. CASE ~(x >= t)
      <4>1. \A y \in U : t >= y
        BY <2>3, <3>4, <3>6, <3>8
      <4> QED BY <2>3, <2>4, <3>5, <3>6, <4>1
    <3> QED BY <3>7, <3>8
  <2> QED BY <2>5, <2>6
<1>2. \E x \in S : \A y \in S : x >= y
  BY <1>1
<1> QED BY <1>2 DEF Max

\* An enumeration of a finite set meets every element of it.
LEMMA Enumeration ==
    ASSUME NEW S, IsFiniteSet(S), NEW order \in SetToSeqs(S)
    PROVE  /\ DOMAIN order = 1..Cardinality(S)
           /\ Cardinality(S) \in Nat
           /\ \A k \in DOMAIN order : order[k] \in S
           /\ \A x \in S : \E k \in DOMAIN order : order[k] = x
           /\ \A j, k \in DOMAIN order : order[j] = order[k] => j = k
<1> DEFINE D == 1..Cardinality(S)
<1>1. Cardinality(S) \in Nat
  BY FS_CardinalityType
<1>2. order \in [D -> S] /\ \A j, k \in D : j # k => order[j] # order[k]
  BY DEF SetToSeqs
<1>3. order \in Injection(D, S)
  BY <1>2 DEF Injection, IsInjective
<1>4. Cardinality(D) = Cardinality(S)
  BY <1>1, FS_Interval
<1>5. order \in Surjection(D, S)
  BY <1>3, <1>4, FS_Injection
<1>6. \A x \in S : \E k \in D : order[k] = x
  BY <1>5 DEF Surjection
<1> QED BY <1>1, <1>2, <1>6

\* A finite set has an order, so that the one chosen is one.
LEMMA ChosenEnumeration ==
    ASSUME NEW S, IsFiniteSet(S)
    PROVE  SetToSeq(S) \in SetToSeqs(S)
<1> DEFINE D == 1..Cardinality(S)
<1>1. ExistsBijection(D, S)
  BY FS_CardinalityType
<1>2. \E f \in [D -> S] : IsInjective(f)
  BY <1>1 DEF ExistsBijection, Bijection, Injection
<1>3. SetToSeq(S) \in [D -> S] /\ IsInjective(SetToSeq(S))
  BY <1>2 DEF SetToSeq
<1> QED BY <1>3 DEF SetToSeqs, IsInjective

\* A set given by an injective function has as many elements as the domain.
LEMMA Counted ==
    ASSUME NEW f, IsFiniteSet(DOMAIN f), IsInjective(f)
    PROVE  /\ IsFiniteSet({f[x] : x \in DOMAIN f})
           /\ Cardinality({f[x] : x \in DOMAIN f}) = Cardinality(DOMAIN f)
<1> DEFINE T == {f[x] : x \in DOMAIN f}
           g == [x \in DOMAIN f |-> f[x]]
<1>1. g \in [DOMAIN f -> T] /\ IsInjective(g) /\ \A t \in T : \E x \in DOMAIN f : g[x] = t
  BY DEF IsInjective
<1>2. g \in Bijection(DOMAIN f, T)
  BY <1>1 DEF Bijection, Injection, Surjection
<1>3. ExistsBijection(DOMAIN f, T)
  BY <1>2 DEF ExistsBijection
<1> QED BY <1>3, FS_Bijection

-----------------------------------------------------------------------------
(* The names of a primitive's attributes. *)

Named(attributes) ==
    /\ IsFiniteSet(DOMAIN attributes)
    /\ \A name \in DOMAIN attributes : name[2] \in Nat

\* The next texture coordinate is past all that are there.
LEMMA NextIsFree ==
    ASSUME NEW attributes, Named(attributes)
    PROVE  /\ NextTexCoord(attributes) \in Nat
           /\ \A name \in DOMAIN attributes :
                 name[1] = "TEXCOORD_" => name[2] < NextTexCoord(attributes)
<1> DEFINE T == {n \in DOMAIN attributes : n[1] = "TEXCOORD_"}
           After == {name[2] + 1 : name \in T}
           f == [name \in T |-> name[2] + 1]
<1>1. \A name \in T : name[2] \in Nat
  BY DEF Named
<1>2. IsFiniteSet(T)
  BY FS_Subset DEF Named
<1>3. f \in Surjection(T, After)
  BY DEF Surjection
<1>4. IsFiniteSet(After)
  BY <1>2, <1>3, FS_Surjection
<1>5. IsFiniteSet({0} \cup After)
  <2>1. IsFiniteSet({0})
    BY FS_Singleton
  <2> HIDE DEF After
  <2> QED BY <1>4, <2>1, FS_Union
<1>6. {0} \cup After \subseteq Nat /\ {0} \cup After # {}
  BY <1>1
<1>7. NextTexCoord(attributes) = Max({0} \cup After)
  BY DEF NextTexCoord
<1>8. /\ Max({0} \cup After) \in {0} \cup After
      /\ \A x \in {0} \cup After : x <= Max({0} \cup After)
  <2> HIDE DEF After
  <2> QED BY <1>5, <1>6, MaxExists
<1> DEFINE next == NextTexCoord(attributes)
<1>9. next \in Nat /\ \A x \in After : x <= next
  <2> HIDE DEF After
  <2> QED BY <1>6, <1>7, <1>8
<1>10. ASSUME NEW name \in DOMAIN attributes, name[1] = "TEXCOORD_" PROVE name[2] < next
  <2>1. name \in T /\ name[2] \in Nat /\ name[2] + 1 \in After
    BY <1>1, <1>10
  <2> HIDE DEF next, After
  <2> QED BY <1>9, <2>1
<1> QED BY <1>9, <1>10

\* New names for the overlays of `attributes`: texture coordinates, each of its own, that no
\* attribute has.
Fresh(attributes, names) ==
    /\ DOMAIN names = Overlays(attributes)
    /\ \A overlay \in DOMAIN names : /\ names[overlay][2] \in Nat
                                     /\ names[overlay][1] = "TEXCOORD_"
                                     /\ names[overlay] \notin DOMAIN attributes
    /\ \A one, other \in DOMAIN names : names[one] = names[other] => one = other

\* The code's choice of names: consecutive numbers from the first free one.
THEOREM TexCoordNamesFresh ==
    ASSUME NEW attributes, Named(attributes), NEW order \in SetToSeqs(Overlays(attributes))
    PROVE  Fresh(attributes, TexCoordNames(attributes, order))
<1> DEFINE S == Overlays(attributes)
           kept == [name \in DOMAIN attributes \ S |-> 0]
           next == NextTexCoord(kept)
           place(o) == CHOOSE k \in DOMAIN order : order[k] = o
           names == TexCoordNames(attributes, order)
<1>1. S \subseteq DOMAIN attributes /\ IsFiniteSet(S) /\ \A o \in S : o[1] = "_CESIUMOVERLAY_"
  BY FS_Subset DEF Overlays, Named
<1>2. Named(kept)
  BY FS_Subset DEF Named
<1>3. next \in Nat /\ \A name \in DOMAIN attributes \ S : name[1] = "TEXCOORD_" => name[2] < next
  <2>1. DOMAIN kept = DOMAIN attributes \ S
    OBVIOUS
  <2> HIDE DEF kept, S
  <2> QED BY <1>2, <2>1, NextIsFree
<1>4. /\ \A o \in S : place(o) \in DOMAIN order /\ order[place(o)] = o
      /\ DOMAIN order = 1..Cardinality(S) /\ Cardinality(S) \in Nat
  BY <1>1, Enumeration
<1>5. DOMAIN names = S /\ \A o \in S : names[o] = <<"TEXCOORD_", next - 1 + place(o)>>
  BY DEF TexCoordNames
<1>6. \A o \in S : place(o) \in Nat /\ place(o) >= 1
  BY <1>4
<1> HIDE DEF names, place, next, S
<1>7. ASSUME NEW o \in S
      PROVE  /\ names[o][2] \in Nat
             /\ names[o][1] = "TEXCOORD_"
             /\ names[o] \notin DOMAIN attributes
  <2>1. next - 1 + place(o) \in Nat /\ ~(next - 1 + place(o) < next)
    BY <1>3, <1>6
  <2>2. names[o][1] = "TEXCOORD_" /\ names[o][2] = next - 1 + place(o)
    BY <1>5
  <2>3. names[o][2] \in Nat
    BY <2>1, <2>2
  <2>4. names[o] \notin S
    BY <1>1, <2>2
  <2>5. names[o] \notin DOMAIN attributes \ S
    BY <1>3, <2>1, <2>2
  <2> QED BY <2>2, <2>3, <2>4, <2>5
<1>8. ASSUME NEW o \in S, NEW p \in S, names[o] = names[p] PROVE o = p
  <2>1. next - 1 + place(o) = next - 1 + place(p)
    BY <1>5, <1>8
  <2>2. place(o) = place(p)
    BY <1>3, <1>6, <2>1
  <2> QED BY <1>4, <2>2
<1> QED BY <1>5, <1>7, <1>8 DEF Fresh, S, names

\* Renaming moves what an overlay has to its new name, and leaves the others.
LEMMA RenamedIs ==
    ASSUME NEW attributes, NEW names, Named(attributes), Fresh(attributes, names)
    PROVE  LET renamed == RenamedAttributes(attributes, names) IN
           /\ DOMAIN renamed = {names[overlay] : overlay \in DOMAIN names}
                                 \cup (DOMAIN attributes \ DOMAIN names)
           /\ \A overlay \in DOMAIN names : renamed[names[overlay]] = attributes[overlay]
           /\ \A name \in DOMAIN attributes \ DOMAIN names : renamed[name] = attributes[name]
           /\ Named(renamed)
           /\ Cardinality(DOMAIN renamed) = Cardinality(DOMAIN attributes)
<1> DEFINE renamed == RenamedAttributes(attributes, names)
           given == {names[overlay] : overlay \in DOMAIN names}
           moved == [name \in DOMAIN attributes |-> IF name \in DOMAIN names THEN names[name] ELSE name]
<1>1. DOMAIN renamed = given \cup (DOMAIN attributes \ DOMAIN names)
  BY DEF RenamedAttributes
<1>2. ASSUME NEW overlay \in DOMAIN names PROVE renamed[names[overlay]] = attributes[overlay]
  <2>1. (CHOOSE o \in DOMAIN names : names[o] = names[overlay]) = overlay
    BY DEF Fresh
  <2> QED BY <2>1 DEF RenamedAttributes
<1>3. ASSUME NEW name \in DOMAIN attributes \ DOMAIN names PROVE renamed[name] = attributes[name]
  <2>1. name \notin given
    BY DEF Fresh
  <2> QED BY <2>1 DEF RenamedAttributes
<1>4. IsInjective(moved) /\ DOMAIN moved = DOMAIN attributes
  BY DEF IsInjective, Fresh
<1>5. {moved[name] : name \in DOMAIN moved} = DOMAIN renamed
  <2>1. DOMAIN names \subseteq DOMAIN attributes
    BY DEF Fresh, Overlays
  <2> QED BY <1>1, <2>1
<1>6. IsFiniteSet(DOMAIN renamed) /\ Cardinality(DOMAIN renamed) = Cardinality(DOMAIN attributes)
  <2> HIDE DEF moved, renamed
  <2> QED BY <1>4, <1>5, Counted DEF Named
<1>7. Named(renamed)
  BY <1>1, <1>6 DEF Named, Fresh
<1> QED BY <1>1, <1>2, <1>3, <1>6, <1>7

\* And restoring undoes it.
THEOREM RestoredIs ==
    ASSUME NEW attributes, NEW names, Named(attributes), Fresh(attributes, names),
           attributes = [name \in DOMAIN attributes |-> attributes[name]]
    PROVE  RestoredAttributes(RenamedAttributes(attributes, names), names) = attributes
<1> DEFINE renamed == RenamedAttributes(attributes, names)
           found == {overlay \in DOMAIN names : names[overlay] \in DOMAIN renamed}
<1>1. /\ DOMAIN renamed = {names[overlay] : overlay \in DOMAIN names}
                            \cup (DOMAIN attributes \ DOMAIN names)
      /\ \A overlay \in DOMAIN names : renamed[names[overlay]] = attributes[overlay]
      /\ \A name \in DOMAIN attributes \ DOMAIN names : renamed[name] = attributes[name]
  BY RenamedIs
<1>2. DOMAIN names \subseteq DOMAIN attributes
  BY DEF Fresh, Overlays
<1> HIDE DEF renamed
<1>3. found = DOMAIN names
  BY <1>1
<1>4. (DOMAIN renamed \ {names[overlay] : overlay \in DOMAIN names}) \cup DOMAIN names
        = DOMAIN attributes
  <2> DEFINE given == {names[overlay] : overlay \in DOMAIN names}
  <2>1. given \cap DOMAIN attributes = {}
    BY DEF Fresh
  <2>2. DOMAIN renamed = given \cup (DOMAIN attributes \ DOMAIN names)
    BY <1>1
  <2> HIDE DEF given
  <2>3. (DOMAIN renamed \ given) \cup DOMAIN names = DOMAIN attributes
    BY <1>2, <2>1, <2>2
  <2> QED BY <2>3 DEF given
<1>5. RestoredAttributes(renamed, names) =
        [name \in DOMAIN attributes |->
           IF name \in DOMAIN names THEN renamed[names[name]] ELSE renamed[name]]
  BY <1>3, <1>4 DEF RestoredAttributes
<1>6. ASSUME NEW name \in DOMAIN attributes
      PROVE  (IF name \in DOMAIN names THEN renamed[names[name]] ELSE renamed[name]) = attributes[name]
  BY <1>1
<1> QED BY <1>5, <1>6 DEF renamed

-----------------------------------------------------------------------------
(* Buffers put one after the other. *)

\* Induction up to `last`, the hypothesis being membership of a set.
LEMMA UpTo ==
    ASSUME NEW last \in Nat, NEW P, 0 \in P, \A n \in 1..last : n - 1 \in P => n \in P
    PROVE  \A n \in 0..last : n \in P
<1> DEFINE T == {n \in 0..last : \A k \in 0..n : k \in P}
<1>1. IsFiniteSet(T) /\ T \subseteq Nat /\ 0 \in T
  <2>1. IsFiniteSet(0..last) /\ T \in SUBSET (0..last)
    BY FS_Interval
  <2>2. IsFiniteSet(T)
    <3> HIDE DEF T
    <3> QED BY <2>1, FS_Subset
  <2> QED BY <2>2
<1>2. PICK m \in T : \A n \in T : n <= m
  <2> HIDE DEF T
  <2> QED BY <1>1, MaxExists
<1>3. m = last
  <2> SUFFICES ASSUME m # last PROVE FALSE
    OBVIOUS
  <2>1. m + 1 \in 1..last /\ (m + 1) - 1 = m /\ m \in P
    BY <1>2
  <2>2. m + 1 \in P
    BY <2>1
  <2>3. \A k \in 0..m + 1 : k \in 0..m \/ k = m + 1
    BY <1>2
  <2>4. m + 1 \in T
    BY <1>2, <2>1, <2>2, <2>3
  <2> QED BY <1>2, <2>1, <2>4
<1> QED BY <1>2, <1>3

Flattens(flat, seqs) ==
    /\ flat[1] = seqs[1]
    /\ \A i \in 2..Len(seqs) : flat[i] = flat[i - 1] \o seqs[i]

\* Each prefix is a sequence over the same elements.
LEMMA FlatTyped ==
    ASSUME NEW X, NEW seqs \in Seq(Seq(X)), NEW flat, DOMAIN flat = 1..Len(seqs), Flattens(flat, seqs)
    PROVE  \A i \in 1..Len(seqs) : flat[i] \in Seq(X)
<1> DEFINE last == Len(seqs)
           P == {n \in 0..last : n = 0 \/ flat[n] \in Seq(X)}
<1>1. last \in Nat /\ 0 \in P
  OBVIOUS
<1>2. ASSUME NEW n \in 1..last, n - 1 \in P PROVE n \in P
  <2>1. CASE n = 1
    BY <2>1 DEF Flattens
  <2>2. CASE n # 1
    <3>5. n \in 2..Len(seqs)
      BY <2>2
    <3>1. flat[n] = flat[n - 1] \o seqs[n]
      BY <3>5 DEF Flattens
    <3>2. PICK left \in Seq(X) : left = flat[n - 1]
      BY <1>2, <2>2
    <3>3. PICK right \in Seq(X) : right = seqs[n]
      OBVIOUS
    <3>4. left \o right \in Seq(X)
      OBVIOUS
    <3>6. flat[n] \in Seq(X)
      BY <3>1, <3>2, <3>3, <3>4
    <3> QED BY <3>6
  <2> QED BY <2>1, <2>2
<1>3. \A n \in 0..last : n \in P
  <2> HIDE DEF P, last
  <2> QED BY <1>1, <1>2, UpTo
<1> QED BY <1>3

\* A function that concatenates the prefixes exists.
LEMMA FlatExists ==
    ASSUME NEW X, NEW seqs \in Seq(Seq(X))
    PROVE  \E flat : /\ flat = [i \in 1..Len(seqs) |->
                                  IF i = 1 THEN seqs[i] ELSE flat[i - 1] \o seqs[i]]
<1> DEFINE last == Len(seqs)
           Sol(g, n) == g = [i \in 1..n |-> IF i = 1 THEN seqs[i] ELSE g[i - 1] \o seqs[i]]
           P == {n \in 0..last : \E g : Sol(g, n)}
<1>1. last \in Nat
  OBVIOUS
<1>2. 0 \in P
  <2>1. Sol([i \in {} |-> 0], 0)
    OBVIOUS
  <2> HIDE DEF Sol
  <2> QED BY <1>1, <2>1
<1>3. ASSUME NEW n \in 1..last, n - 1 \in P PROVE n \in P
  <2>1. PICK g : Sol(g, n - 1)
    BY <1>3
  <2> DEFINE h == [i \in 1..n |-> IF i = n THEN IF n = 1 THEN seqs[n] ELSE g[n - 1] \o seqs[n]
                                           ELSE g[i]]
  <2>2. ASSUME NEW i \in 1..n PROVE h[i] = IF i = 1 THEN seqs[i] ELSE h[i - 1] \o seqs[i]
    <3>1. CASE i = n
      <4>1. n # 1 => h[n - 1] = g[n - 1]
        OBVIOUS
      <4>2. h[n] = IF n = 1 THEN seqs[n] ELSE g[n - 1] \o seqs[n]
        OBVIOUS
      <4> HIDE DEF h
      <4> QED BY <3>1, <4>1, <4>2
    <3>2. CASE i # n
      <4>1. i \in 1..n - 1 /\ h[i] = g[i] /\ (i # 1 => h[i - 1] = g[i - 1])
        BY <3>2
      <4>2. g[i] = IF i = 1 THEN seqs[i] ELSE g[i - 1] \o seqs[i]
        BY <2>1, <4>1
      <4> HIDE DEF h
      <4> QED BY <4>1, <4>2
    <3> QED BY <3>1, <3>2
  <2>3. h = [i \in 1..n |-> h[i]]
    OBVIOUS
  <2>4. Sol(h, n)
    <3> HIDE DEF h
    <3> QED BY <2>2, <2>3
  <2> HIDE DEF Sol, h
  <2> QED BY <2>4
<1>4. \A n \in 0..last : n \in P
  <2> HIDE DEF P, last
  <2> QED BY <1>1, <1>2, <1>3, UpTo
<1>5. last \in 0..last
  BY <1>1
<1>6. last \in P
  <2> HIDE DEF P, last
  <2> QED BY <1>4, <1>5
<1>7. \E g : Sol(g, last)
  <2> HIDE DEF Sol, last
  <2> QED BY <1>6
<1> QED BY <1>7

\* FlattenSeq is the last of the prefixes' concatenations.
LEMMA Flattening ==
    ASSUME NEW X, NEW seqs \in Seq(Seq(X)), seqs # <<>>
    PROVE  \E flat : /\ DOMAIN flat = 1..Len(seqs)
                     /\ Flattens(flat, seqs)
                     /\ \A i \in 1..Len(seqs) : flat[i] \in Seq(X)
                     /\ FlattenSeq(seqs) = flat[Len(seqs)]
<1> DEFINE flatten[i \in 1..Len(seqs)] == IF i = 1 THEN seqs[i] ELSE flatten[i - 1] \o seqs[i]
<1>1. flatten = [i \in 1..Len(seqs) |-> IF i = 1 THEN seqs[i] ELSE flatten[i - 1] \o seqs[i]]
  BY FlatExists
<1>2. FlattenSeq(seqs) = flatten[Len(seqs)]
  BY DEF FlattenSeq
<1> HIDE DEF flatten
<1>3. DOMAIN flatten = 1..Len(seqs)
  BY <1>1
<1>4. Flattens(flatten, seqs)
  <2>1. 1 \in 1..Len(seqs) /\ \A i \in 2..Len(seqs) : i \in 1..Len(seqs) /\ i # 1
    OBVIOUS
  <2> QED BY <1>1, <2>1 DEF Flattens
<1> QED BY <1>2, <1>3, <1>4, FlatTyped

\* The concatenation of the first of them.
LEMMA FlatPrefix ==
    ASSUME NEW X, NEW seqs \in Seq(Seq(X)), NEW b \in 1..Len(seqs),
           NEW flat, Flattens(flat, seqs)
    PROVE  FlattenSeq(SubSeq(seqs, 1, b)) = flat[b]
<1> DEFINE sub == SubSeq(seqs, 1, b)
<1>1. sub \in Seq(Seq(X)) /\ Len(sub) = b /\ sub # <<>> /\ \A i \in 1..b : sub[i] = seqs[i]
  OBVIOUS
<1> HIDE DEF sub
<1>2. PICK own : Flattens(own, sub) /\ FlattenSeq(sub) = own[b]
  BY <1>1, Flattening
<1> DEFINE P == {n \in 0..b : n = 0 \/ own[n] = flat[n]}
<1>3. b \in Nat /\ 0 \in P
  OBVIOUS
<1>4. ASSUME NEW n \in 1..b, n - 1 \in P PROVE n \in P
  <2>1. CASE n = 1
    BY <1>1, <1>2, <2>1 DEF Flattens
  <2>2. CASE n # 1
    <3>1. n \in 2..b /\ n \in 2..Len(seqs) /\ n - 1 # 0
      BY <2>2
    <3>2. own[n] = own[n - 1] \o sub[n] /\ flat[n] = flat[n - 1] \o seqs[n]
      BY <1>1, <1>2, <3>1 DEF Flattens
    <3>3. own[n - 1] = flat[n - 1]
      BY <1>4, <3>1
    <3>4. sub[n] = seqs[n]
      BY <1>1
    <3>5. own[n] = flat[n]
      BY <3>2, <3>3, <3>4
    <3> QED BY <3>5
  <2> QED BY <2>1, <2>2
<1>5. \A n \in 0..b : n \in P
  <2> HIDE DEF P
  <2> QED BY <1>3, <1>4, UpTo
<1> QED BY <1>2, <1>5 DEF sub

\* What is at an offset of a buffer is as far from where that buffer begins in the whole.
LEMMA Concatenation ==
    ASSUME NEW X, NEW seqs \in Seq(Seq(X)), NEW b \in 0..Len(seqs) - 1,
           NEW o \in 0..Len(seqs[b + 1]) - 1
    PROVE  /\ Len(ConcatenatedTo(seqs, b)) \in Nat
           /\ FlattenSeq(seqs) \in Seq(X)
           /\ Len(ConcatenatedTo(seqs, b)) + o < Len(FlattenSeq(seqs))
           /\ FlattenSeq(seqs)[Len(ConcatenatedTo(seqs, b)) + o + 1] = seqs[b + 1][o + 1]
<1>1. seqs # <<>> /\ Len(seqs) \in Nat /\ b + 1 \in 1..Len(seqs) /\ seqs[b + 1] \in Seq(X)
  OBVIOUS
<1>2. PICK flat : /\ Flattens(flat, seqs)
                  /\ \A i \in 1..Len(seqs) : flat[i] \in Seq(X)
                  /\ FlattenSeq(seqs) = flat[Len(seqs)]
  BY <1>1, Flattening
<1> DEFINE start == Len(ConcatenatedTo(seqs, b))
<1>3. start = IF b = 0 THEN 0 ELSE Len(flat[b])
  <2>1. CASE b = 0
    <3>1. SubSeq(seqs, 1, 0) = <<>>
      OBVIOUS
    <3>2. FlattenSeq(<<>>) = <<>>
      BY DEF FlattenSeq
    <3>3. ConcatenatedTo(seqs, b) = <<>>
      BY <2>1, <3>1, <3>2 DEF ConcatenatedTo
    <3>4. Len(<<>>) = 0
      OBVIOUS
    <3> QED BY <2>1, <3>3, <3>4
  <2>2. CASE b # 0
    <3>1. b \in 1..Len(seqs)
      BY <2>2
    <3>2. FlattenSeq(SubSeq(seqs, 1, b)) = flat[b]
      BY <1>2, <3>1, FlatPrefix
    <3> QED BY <2>2, <3>2 DEF ConcatenatedTo
  <2> QED BY <2>1, <2>2
<1>4. start \in Nat
  BY <1>1, <1>2, <1>3
<1> HIDE DEF start
<1> DEFINE P == {n \in 0..Len(seqs) : n >= b + 1 => /\ start + o < Len(flat[n])
                                                    /\ flat[n][start + o + 1] = seqs[b + 1][o + 1]}
<1>5. 0 \in P
  BY <1>1
<1>6. ASSUME NEW n \in 1..Len(seqs), n - 1 \in P PROVE n \in P
  <2>1. CASE n = b + 1
    <3>1. CASE b = 0
      <4>1. flat[n] = seqs[1] /\ start = 0
        BY <1>2, <1>3, <2>1, <3>1 DEF Flattens
      <4> QED BY <1>1, <2>1, <3>1, <4>1
    <3>2. CASE b # 0
      <4>1. b + 1 \in 2..Len(seqs) /\ b \in 1..Len(seqs) /\ (b + 1) - 1 = b
        BY <3>2
      <4>2. flat[b + 1] = flat[(b + 1) - 1] \o seqs[b + 1]
        BY <1>2, <4>1 DEF Flattens
      <4>3. PICK left \in Seq(X) : left = flat[b]
        BY <1>2, <4>1
      <4>4. PICK right \in Seq(X) : right = seqs[b + 1]
        BY <1>1
      <4>5. flat[n] = left \o right /\ start = Len(left) /\ o \in 0..Len(right) - 1
        BY <1>3, <2>1, <3>2, <4>1, <4>2, <4>3, <4>4
      <4>6. o \in Nat /\ o < Len(right) /\ Len(left) \in Nat /\ Len(right) \in Nat
        BY <4>5
      <4>7. /\ Len(left \o right) = Len(left) + Len(right)
            /\ \A k \in 1..Len(right) : (left \o right)[Len(left) + k] = right[k]
        OBVIOUS
      <4>8. o + 1 \in 1..Len(right) /\ Len(left) + (o + 1) = start + o + 1
        BY <4>5, <4>6
      <4>9. (left \o right)[start + o + 1] = right[o + 1]
        BY <4>7, <4>8
      <4>10. start + o < Len(left \o right)
        BY <4>5, <4>6, <4>7
      <4>11. start + o < Len(flat[n]) /\ flat[n][start + o + 1] = seqs[b + 1][o + 1]
        BY <4>4, <4>5, <4>9, <4>10
      <4> QED BY <4>11
    <3> QED BY <3>1, <3>2
  <2>2. CASE n > b + 1
    <3>1. n \in 2..Len(seqs) /\ n - 1 \in 1..Len(seqs) /\ n - 1 >= b + 1
      BY <2>2
    <3>3. flat[n] = flat[n - 1] \o seqs[n]
      BY <1>2, <3>1 DEF Flattens
    <3>4. PICK left \in Seq(X) : left = flat[n - 1]
      BY <1>2, <3>1
    <3>5. PICK right \in Seq(X) : right = seqs[n]
      BY <3>1
    <3>2. start + o < Len(flat[n - 1]) /\ flat[n - 1][start + o + 1] = seqs[b + 1][o + 1]
      BY <1>6, <3>1
    <3>6. PICK at \in Nat : at = start + o + 1
      BY <1>4
    <3>7. at \in 1..Len(left) /\ left[at] = seqs[b + 1][o + 1] /\ flat[n] = left \o right
      BY <3>2, <3>3, <3>4, <3>5, <3>6, <1>4
    <3>8. at \in 1..Len(left \o right) /\ (left \o right)[at] = left[at]
      BY <3>7
    <3>9. start + o < Len(left \o right)
      BY <1>4, <3>6, <3>8
    <3>10. start + o < Len(flat[n]) /\ flat[n][start + o + 1] = seqs[b + 1][o + 1]
      BY <3>6, <3>7, <3>8, <3>9
    <3> QED BY <3>10
  <2>3. CASE n < b + 1
    BY <2>3
  <2> QED BY <2>1, <2>2, <2>3
<1>7. \A n \in 0..Len(seqs) : n \in P
  <2> HIDE DEF P
  <2> QED BY <1>1, <1>5, <1>6, UpTo
<1> QED BY <1>1, <1>2, <1>4, <1>7 DEF start

-----------------------------------------------------------------------------
(* A model and what the host sees of it. *)

\* What a sequence has.
LEMMA SequenceHas ==
    ASSUME NEW s, IsSequence(s)
    PROVE  Len(s) \in Nat /\ DOMAIN s = 1..Len(s)
BY DEF IsSequence

\* What makes a sequence.
LEMMA SequenceMade ==
    ASSUME NEW n \in Nat, NEW s, s = [i \in 1..n |-> s[i]]
    PROVE  IsSequence(s) /\ Len(s) = n /\ DOMAIN s = 1..n
<1>1. DOMAIN s = 1..n
  OBVIOUS
<1>2. \A i \in 1..n : s[i] \in Range(s)
  BY <1>1 DEF Range
<1>3. s \in [1..n -> Range(s)]
  BY <1>2
<1>4. s \in Seq(Range(s)) /\ Len(s) = n
  <2> DEFINE S == Range(s)
  <2>1. s \in [1..n -> S]
    BY <1>3
  <2> HIDE DEF S
  <2>2. s \in Seq(S) /\ Len(s) = n
    BY <2>1
  <2> QED BY <2>2 DEF S
<1> QED BY <1>1, <1>4 DEF IsSequence

\* Each name with the data behind it.
Content(m, i, j) ==
    [name \in DOMAIN m.meshes[i][j].attributes |-> DataIfAny(m, m.meshes[i][j].attributes[name])]

\* And as the host sees it.
Pictured(content) == {<<name, content[name], content[name]>> : name \in DOMAIN content}

\* Every primitive of a valid model is valid.
LEMMA PrimitiveValid ==
    ASSUME NEW m, ValidModel(m), NEW i \in DOMAIN m.meshes, NEW j \in DOMAIN m.meshes[i]
    PROVE  ValidPrimitive(m, m.meshes[i][j])
BY DEF ValidModel

\* Meshes and primitives are numbered from 1.
LEMMA Shape ==
    ASSUME NEW m, ValidModel(m)
    PROVE  /\ Len(m.meshes) \in Nat /\ DOMAIN m.meshes = 1..Len(m.meshes)
           /\ \A i \in DOMAIN m.meshes :
                 Len(m.meshes[i]) \in Nat /\ DOMAIN m.meshes[i] = 1..Len(m.meshes[i])
<1>1. IsSequence(m.meshes) /\ \A i \in DOMAIN m.meshes : IsSequence(m.meshes[i])
  BY DEF ValidModel, Lists
<1> QED BY <1>1, SequenceHas

\* The host counts them from 0.
LEMMA SeenShape ==
    ASSUME NEW m, ValidModel(m)
    PROVE  /\ DOMAIN Seen(m).primitives = {i - 1 : i \in DOMAIN m.meshes}
           /\ \A i \in DOMAIN m.meshes :
                 DOMAIN Seen(m).primitives[i - 1] = {j - 1 : j \in DOMAIN m.meshes[i]}
<1> DEFINE prims == [i \in 0 .. Count(m, "meshes") - 1 |->
                       [j \in 0 .. PrimitiveCount(m, i) - 1 |-> SeenPrimitive(m, i, j)]]
<1>1. Seen(m).primitives = prims
  BY DEF Seen
<1>2. DOMAIN prims = 0..Len(m.meshes) - 1
  BY DEF Count
<1>3. \A n \in Nat : 0..n - 1 = {i - 1 : i \in 1..n}
  <2> SUFFICES ASSUME NEW n \in Nat PROVE 0..n - 1 = {i - 1 : i \in 1..n}
    OBVIOUS
  <2>1. ASSUME NEW k \in 0..n - 1 PROVE k \in {i - 1 : i \in 1..n}
    <3>1. k + 1 \in 1..n /\ k = (k + 1) - 1
      OBVIOUS
    <3> QED BY <3>1
  <2> QED BY <2>1
<1>4. ASSUME NEW i \in DOMAIN m.meshes
      PROVE  DOMAIN prims[i - 1] = {j - 1 : j \in DOMAIN m.meshes[i]}
  <2>1. i - 1 \in 0..Len(m.meshes) - 1 /\ (i - 1) + 1 = i
    BY Shape
  <2>2. DOMAIN prims[i - 1] = 0..Len(m.meshes[i]) - 1
    BY <1>2, <2>1 DEF PrimitiveCount, At
  <2> QED BY <1>3, <2>2, Shape
<1> QED BY <1>1, <1>2, <1>3, <1>4, Shape

\* Whatever the order of the hash map, the host sees the content, by place as by name.
THEOREM SeenIs ==
    ASSUME NEW m, ValidModel(m), NEW i \in DOMAIN m.meshes, NEW j \in DOMAIN m.meshes[i]
    PROVE  /\ Seen(m).primitives[i - 1][j - 1].attributes = Pictured(Content(m, i, j))
           /\ Seen(m).primitives[i - 1][j - 1].indices = DataIfAny(m, m.meshes[i][j].indices)
           /\ Seen(m).primitives[i - 1][j - 1].mode = m.meshes[i][j].mode
           /\ Seen(m).primitives[i - 1][j - 1].material = m.meshes[i][j].material
<1> DEFINE p == m.meshes[i][j]
           a == p.attributes
           order == Iterated(a)
           content == Content(m, i, j)
<1>1. ValidPrimitive(m, p)
  BY PrimitiveValid
<1>2. p # NoModel
  <2>1. DOMAIN NoModel = {"none"}
    BY DEF NoModel
  <2>2. "attributes" \in DOMAIN p
    BY <1>1 DEF ValidPrimitive
  <2> QED BY <2>1, <2>2
<1>3. /\ i - 1 \in 0..Len(m.meshes) - 1 /\ (i - 1) + 1 = i
      /\ j - 1 \in 0..Len(m.meshes[i]) - 1 /\ (j - 1) + 1 = j
  BY Shape
<1>4. GetPrimitive(m, i - 1, j - 1) = p
  BY <1>3, Shape DEF GetPrimitive, InRange, At
<1>5. /\ order \in SetToSeqs(DOMAIN a)
      /\ DOMAIN order = 1..Cardinality(DOMAIN a) /\ Cardinality(DOMAIN a) \in Nat
      /\ \A k \in DOMAIN order : order[k] \in DOMAIN a
      /\ \A x \in DOMAIN a : \E k \in DOMAIN order : order[k] = x
  BY <1>1, ChosenEnumeration, Enumeration DEF Iterated, ValidPrimitive
<1>6. Len(order) = Cardinality(DOMAIN a)
  BY <1>5 DEF SetToSeqs
<1>7. Seen(m).primitives[i - 1][j - 1] = SeenPrimitive(m, i - 1, j - 1)
  BY <1>3, Shape DEF Seen, Count, PrimitiveCount, At
<1> DEFINE n == Cardinality(DOMAIN a)
           triple(k) == <<order[k + 1], content[order[k + 1]], content[order[k + 1]]>>
<1>8. AttributeCount(m, i - 1, j - 1) = n
  BY <1>2, <1>4 DEF AttributeCount
<1>9. ASSUME NEW k \in 0..n - 1
      PROVE  /\ AttributeName(m, i - 1, j - 1, k) = order[k + 1]
             /\ AttributeAccessorIndex(m, i - 1, j - 1, k) = a[order[k + 1]]
             /\ FindAttributeAccessorIndex(m, i - 1, j - 1, order[k + 1]) = a[order[k + 1]]
             /\ order[k + 1] \in DOMAIN a
  <2>1. InRange(k, order) /\ k + 1 \in DOMAIN order
    BY <1>5, <1>6 DEF InRange
  <2> HIDE DEF p, order
  <2> QED BY <1>2, <1>4, <1>5, <2>1 DEF AttributeName, AttributeAccessorIndex,
        FindAttributeAccessorIndex, At, order
<1>10. {LET name == AttributeName(m, i - 1, j - 1, k) IN
          <<name, DataIfAny(m, AttributeAccessorIndex(m, i - 1, j - 1, k)),
            DataIfAny(m, FindAttributeAccessorIndex(m, i - 1, j - 1, name))>> :
              k \in 0 .. AttributeCount(m, i - 1, j - 1) - 1} = {triple(k) : k \in 0..n - 1}
  BY <1>8, <1>9 DEF Content
<1>11. {triple(k) : k \in 0..n - 1} = Pictured(content)
  <2>1. DOMAIN content = DOMAIN a
    BY DEF Content
  <2>2. ASSUME NEW k \in 0..n - 1 PROVE triple(k) \in Pictured(content)
    BY <1>9, <2>1 DEF Pictured
  <2>3. ASSUME NEW name \in DOMAIN a
        PROVE  \E k \in 0..n - 1 : triple(k) = <<name, content[name], content[name]>>
    <3>1. PICK l \in 1..n : order[l] = name
      BY <1>5
    <3>2. l - 1 \in 0..n - 1 /\ (l - 1) + 1 = l
      BY <1>5
    <3> QED BY <3>1, <3>2
  <2> QED BY <2>1, <2>2, <2>3 DEF Pictured
<1>12. SeenPrimitive(m, i - 1, j - 1).attributes = Pictured(content)
  BY <1>10, <1>11 DEF SeenPrimitive
<1>13. /\ SeenPrimitive(m, i - 1, j - 1).indices = DataIfAny(m, p.indices)
       /\ SeenPrimitive(m, i - 1, j - 1).mode = p.mode
       /\ SeenPrimitive(m, i - 1, j - 1).material = p.material
  BY <1>2, <1>4 DEF SeenPrimitive, IndicesAccessorIndex, PrimitiveMode, MaterialIndex
<1> QED BY <1>7, <1>12, <1>13

-----------------------------------------------------------------------------
(* What a change of the model leaves alone. *)

\* Data depend on accessors, views and buffers alone.
LEMMA SameData ==
    ASSUME NEW m, NEW n, n.accessors = m.accessors, n.bufferViews = m.bufferViews,
           n.buffers = m.buffers
    PROVE  \A index : /\ DataIfAny(n, index) = DataIfAny(m, index)
                      /\ ValidAccessor(n, index) <=> ValidAccessor(m, index)
BY DEF DataIfAny, AccessorData, ValidAccessor

\* Where the scene is.
SceneLists == {"scene", "scenes", "nodes", "materials", "textures", "samplers", "images"}

\* The scene does not depend on them.
LEMMA SameScene ==
    ASSUME NEW m, NEW n, \A kind \in SceneLists : n[kind] = m[kind]
    PROVE  Seen(n).scene = Seen(m).scene
<1>1. /\ n.scene = m.scene /\ n.scenes = m.scenes /\ n.nodes = m.nodes /\ n.textures = m.textures
      /\ n.materials = m.materials /\ n.samplers = m.samplers /\ n.images = m.images
  BY DEF SceneLists
<1>2. \A k : /\ NodeMesh(n, k) = NodeMesh(m, k) /\ NodeChildren(n, k) = NodeChildren(m, k)
             /\ NodeMatrix(n, k) = NodeMatrix(m, k)
             /\ NodeTranslation(n, k) = NodeTranslation(m, k)
             /\ NodeRotation(n, k) = NodeRotation(m, k) /\ NodeScale(n, k) = NodeScale(m, k)
  BY <1>1 DEF NodeMesh, NodeChildren, NodeMatrix, NodeTranslation, NodeRotation, NodeScale
<1>3. \A k : MaterialData(n, k) = MaterialData(m, k)
  BY <1>1 DEF MaterialData
<1>4. \A k : /\ ImageData(n, TextureSource(n, k)) = ImageData(m, TextureSource(m, k))
             /\ SamplerData(n, TextureSampler(n, k)) = SamplerData(m, TextureSampler(m, k))
  BY <1>1 DEF ImageData, TextureSource, SamplerData, TextureSampler
<1>5. DefaultScene(n) = DefaultScene(m) /\ SceneNodes(n, DefaultScene(n)) = SceneNodes(m, DefaultScene(m))
  BY <1>1 DEF DefaultScene, SceneNodes
<1>6. /\ Count(n, "nodes") = Count(m, "nodes") /\ Count(n, "materials") = Count(m, "materials")
      /\ Count(n, "textures") = Count(m, "textures")
  BY <1>1 DEF Count
<1>7. SeenScene(n) = SeenScene(m)
  BY <1>2, <1>3, <1>4, <1>5, <1>6 DEF SeenScene
<1> QED BY <1>7 DEF Seen

\* Attributes with which a primitive is valid in m.
Fit(m, attributes) ==
    /\ Named(attributes)
    /\ \A name \in DOMAIN attributes :
          attributes[name] \in Nat /\ ValidAccessor(m, attributes[name])

\* A primitive's own attributes fit it.
LEMMA AttributesFit ==
    ASSUME NEW m, ValidModel(m), NEW i \in DOMAIN m.meshes, NEW j \in DOMAIN m.meshes[i]
    PROVE  Fit(m, m.meshes[i][j].attributes)
BY PrimitiveValid DEF ValidPrimitive, Fit, Named

\* The same meshes and primitives, with their indices and the rest; the scene the same.
Alike(m, n) ==
    /\ DOMAIN n.meshes = DOMAIN m.meshes
    /\ \A i \in DOMAIN m.meshes : DOMAIN n.meshes[i] = DOMAIN m.meshes[i]
    /\ \A i \in DOMAIN m.meshes : \A j \in DOMAIN m.meshes[i] :
          /\ DataIfAny(n, n.meshes[i][j].indices) = DataIfAny(m, m.meshes[i][j].indices)
          /\ n.meshes[i][j].mode = m.meshes[i][j].mode
          /\ n.meshes[i][j].material = m.meshes[i][j].material
    /\ Seen(n).scene = Seen(m).scene

\* Changes of the same kind compose.
LEMMA AlikeTransitive ==
    ASSUME NEW m, NEW n, NEW o, Alike(m, n), Alike(n, o)
    PROVE  Alike(m, o)
BY DEF Alike

\* The model with the attributes given for each primitive.
Replaced(m, given) ==
    [m EXCEPT !.meshes = [i \in DOMAIN @ |-> [j \in DOMAIN @[i] |->
        [@[i][j] EXCEPT !.attributes = given[<<i, j>>]]]]]

\* Other attributes for each primitive, and nothing else changed.
LEMMA ReplacedIs ==
    ASSUME NEW m, ValidModel(m), NEW given,
           \A i \in DOMAIN m.meshes : \A j \in DOMAIN m.meshes[i] : Fit(m, given[<<i, j>>])
    PROVE  LET n == Replaced(m, given) IN
           /\ ValidModel(n)
           /\ Alike(m, n)
           /\ \A i \in DOMAIN m.meshes : \A j \in DOMAIN m.meshes[i] :
                 n.meshes[i][j].attributes = given[<<i, j>>]
           /\ \A index : DataIfAny(n, index) = DataIfAny(m, index)
<1> DEFINE n == Replaced(m, given)
<1>1. DOMAIN m = Lists \cup {"extensions", "scene"}
  BY DEF ValidModel
<1>2. /\ DOMAIN n = DOMAIN m
      /\ \A kind \in DOMAIN m : kind # "meshes" => n[kind] = m[kind]
  BY DEF Replaced
<1>3. n.meshes = [i \in DOMAIN m.meshes |-> [j \in DOMAIN m.meshes[i] |->
                    [m.meshes[i][j] EXCEPT !.attributes = given[<<i, j>>]]]]
  BY <1>1 DEF Replaced, Lists
<1> HIDE DEF n
<1>4. /\ n.accessors = m.accessors /\ n.bufferViews = m.bufferViews /\ n.buffers = m.buffers
      /\ \A kind \in SceneLists : n[kind] = m[kind]
  BY <1>1, <1>2 DEF Lists, SceneLists
<1>5. \A index : /\ DataIfAny(n, index) = DataIfAny(m, index)
                 /\ ValidAccessor(n, index) <=> ValidAccessor(m, index)
  BY <1>4, SameData
<1>6. ASSUME NEW i \in DOMAIN m.meshes, NEW j \in DOMAIN m.meshes[i]
      PROVE  /\ n.meshes[i][j].attributes = given[<<i, j>>]
             /\ n.meshes[i][j].indices = m.meshes[i][j].indices
             /\ n.meshes[i][j].mode = m.meshes[i][j].mode
             /\ n.meshes[i][j].material = m.meshes[i][j].material
             /\ DOMAIN n.meshes[i][j] = {"attributes", "indices", "mode", "material"}
  <2>1. DOMAIN m.meshes[i][j] = {"attributes", "indices", "mode", "material"}
    BY PrimitiveValid DEF ValidPrimitive
  <2>2. n.meshes[i][j] = [m.meshes[i][j] EXCEPT !.attributes = given[<<i, j>>]]
    BY <1>3
  <2> QED BY <2>1, <2>2
<1>7. /\ DOMAIN n.meshes = DOMAIN m.meshes
      /\ \A i \in DOMAIN m.meshes : DOMAIN n.meshes[i] = DOMAIN m.meshes[i]
  BY <1>3
<1>8. Alike(m, n)
  BY <1>4, <1>5, <1>6, <1>7, SameScene DEF Alike
<1>9. ValidModel(n)
  <2>1. \A i \in DOMAIN m.meshes : \A j \in DOMAIN m.meshes[i] : ValidPrimitive(n, n.meshes[i][j])
    <3> SUFFICES ASSUME NEW i \in DOMAIN m.meshes, NEW j \in DOMAIN m.meshes[i]
                 PROVE  ValidPrimitive(n, n.meshes[i][j])
      OBVIOUS
    <3>1. ValidPrimitive(m, m.meshes[i][j]) /\ Fit(m, given[<<i, j>>])
      BY PrimitiveValid
    <3> QED BY <1>5, <1>6, <3>1 DEF ValidPrimitive, Fit, Named
  <2>2. \A i \in DOMAIN m.meshes : IsSequence(n.meshes[i])
    <3> SUFFICES ASSUME NEW i \in DOMAIN m.meshes PROVE IsSequence(n.meshes[i])
      OBVIOUS
    <3>1. n.meshes[i] = [j \in 1..Len(m.meshes[i]) |-> n.meshes[i][j]]
      BY <1>3, Shape
    <3> QED BY <3>1, Shape, SequenceMade
  <2>3. IsSequence(n.meshes)
    <3>1. n.meshes = [i \in 1..Len(m.meshes) |-> n.meshes[i]]
      BY <1>3, Shape
    <3> QED BY <3>1, Shape, SequenceMade
  <2>4. \A kind \in Lists : IsSequence(n[kind])
    <3>1. \A kind \in Lists \ {"meshes"} : n[kind] = m[kind]
      BY <1>1, <1>2
    <3>2. \A kind \in Lists : IsSequence(m[kind])
      BY DEF ValidModel
    <3> QED BY <2>3, <3>1, <3>2
  <2>5. \A v \in DOMAIN n.bufferViews : ValidView(n, n.bufferViews[v])
    <3>1. \A v \in DOMAIN m.bufferViews : ValidView(m, m.bufferViews[v])
      BY DEF ValidModel
    <3> QED BY <1>4, <3>1 DEF ValidView
  <2>6. \A b \in DOMAIN n.buffers : IsSequence(n.buffers[b])
    BY <1>4 DEF ValidModel
  <2> QED BY <1>1, <1>2, <1>7, <2>1, <2>2, <2>4, <2>5, <2>6 DEF ValidModel
<1> QED BY <1>5, <1>6, <1>8, <1>9 DEF n

\* Some of the attributes fit as all do.
LEMMA RestrictedFits ==
    ASSUME NEW m, NEW attributes, NEW S, Fit(m, attributes), S \subseteq DOMAIN attributes
    PROVE  Fit(m, Restrict(attributes, S))
<1>1. DOMAIN Restrict(attributes, S) = S /\ \A name \in S : Restrict(attributes, S)[name] = attributes[name]
  BY DEF Restrict
<1>2. IsFiniteSet(S)
  BY FS_Subset DEF Fit, Named
<1>3. Named(Restrict(attributes, S))
  BY <1>1, <1>2 DEF Fit, Named
<1> QED BY <1>1, <1>3 DEF Fit

\* New names, whatever they are, leave the attributes referring to the accessors they did.
LEMMA RenamedFit ==
    ASSUME NEW m, NEW attributes, NEW names, Fit(m, attributes),
           DOMAIN names \subseteq DOMAIN attributes,
           \A overlay \in DOMAIN names : names[overlay][2] \in Nat
    PROVE  Fit(m, RenamedAttributes(attributes, names))
<1> DEFINE given == {names[overlay] : overlay \in DOMAIN names}
           others == DOMAIN attributes \ DOMAIN names
           renamed == RenamedAttributes(attributes, names)
           g == [overlay \in DOMAIN names |-> names[overlay]]
<1>1. /\ DOMAIN renamed = given \cup others
      /\ \A name \in given : renamed[name] = attributes[CHOOSE overlay \in DOMAIN names : names[overlay] = name]
      /\ \A name \in DOMAIN renamed \ given : renamed[name] = attributes[name]
  BY DEF RenamedAttributes
<1>2. IsFiniteSet(DOMAIN names) /\ IsFiniteSet(others)
  BY FS_Subset DEF Fit, Named
<1>3. g \in Surjection(DOMAIN names, given)
  BY DEF Surjection
<1>4. IsFiniteSet(given)
  <2> HIDE DEF given, g
  <2> QED BY <1>2, <1>3, FS_Surjection
<1>5. IsFiniteSet(given \cup others)
  <2> HIDE DEF given, others
  <2> QED BY <1>2, <1>4, FS_Union
<1>6. \A name \in given \cup others : name[2] \in Nat
  BY DEF Fit, Named
<1>7. ASSUME NEW name \in given \cup others
      PROVE  \E old \in DOMAIN attributes : renamed[name] = attributes[old]
  <2>1. CASE name \in given
    <3>1. \E overlay \in DOMAIN names : names[overlay] = name
      BY <2>1
    <3>2. (CHOOSE overlay \in DOMAIN names : names[overlay] = name) \in DOMAIN attributes
      BY <3>1
    <3> QED BY <1>1, <2>1, <3>2
  <2>2. CASE name \notin given
    BY <1>1, <2>2
  <2> QED BY <2>1, <2>2
<1> HIDE DEF renamed, given, others
<1>8. Named(renamed)
  BY <1>1, <1>5, <1>6 DEF Named
<1>9. Fit(m, renamed)
  BY <1>1, <1>7, <1>8 DEF Fit
<1> QED BY <1>9 DEF renamed

\* Accessor `a` of m and `b` of n, of different numbers perhaps, begin at bytes that are the same.
SameSpot(m, n, a, b) ==
    LET old == At(m.accessors, a)
        new == At(n.accessors, b)
        oldView == At(m.bufferViews, old.bufferView)
        newView == At(n.bufferViews, new.bufferView)
        oldAt == oldView.byteOffset + old.byteOffset
        newAt == newView.byteOffset + old.byteOffset
    IN  /\ InRange(b, n.accessors) /\ DOMAIN new = DOMAIN old
        /\ new.byteOffset = old.byteOffset /\ new.count = old.count
        /\ new.components = old.components /\ new.componentSize = old.componentSize
        /\ new.bufferView \in Int
        /\ InRange(new.bufferView, n.bufferViews) <=> InRange(old.bufferView, m.bufferViews)
        /\ InRange(old.bufferView, m.bufferViews) =>
              /\ InRange(oldView.buffer, m.buffers) /\ InRange(newView.buffer, n.buffers)
              /\ newView.byteLength = oldView.byteLength
              /\ oldAt \in Nat /\ newAt \in Nat
              /\ newAt < Len(At(n.buffers, newView.buffer))
              /\ At(At(n.buffers, newView.buffer), newAt) = At(At(m.buffers, oldView.buffer), oldAt)

\* Then both lead to the same data.
LEMMA SameReading ==
    ASSUME NEW m, NEW n, NEW a, NEW b, ValidAccessor(m, a), SameSpot(m, n, a, b)
    PROVE  ValidAccessor(n, b) /\ AccessorData(n, b) = AccessorData(m, a)
<1> DEFINE old == At(m.accessors, a)
           new == At(n.accessors, b)
           oldView == At(m.bufferViews, old.bufferView)
           newView == At(n.bufferViews, new.bufferView)
           oldAt == oldView.byteOffset + old.byteOffset
           newAt == newView.byteOffset + old.byteOffset
           sized == old.components > 0 /\ old.componentSize > 0
<1>1. /\ InRange(b, n.accessors) /\ DOMAIN new = DOMAIN old
      /\ new.byteOffset = old.byteOffset /\ new.count = old.count
      /\ new.components = old.components /\ new.componentSize = old.componentSize
      /\ new.bufferView \in Int
      /\ InRange(new.bufferView, n.bufferViews) <=> InRange(old.bufferView, m.bufferViews)
  BY DEF SameSpot
<1>2. /\ old.byteOffset \in Nat
      /\ {"bufferView", "byteOffset", "count", "components", "componentSize"} \subseteq DOMAIN old
  BY DEF ValidAccessor
<1>3. CASE ~InRange(old.bufferView, m.bufferViews)
  BY <1>1, <1>2, <1>3 DEF ValidAccessor, AccessorData
<1>4. CASE InRange(old.bufferView, m.bufferViews)
  <2>1. /\ InRange(oldView.buffer, m.buffers) /\ InRange(newView.buffer, n.buffers)
        /\ newView.byteLength = oldView.byteLength
        /\ oldAt \in Nat /\ newAt \in Nat
        /\ newAt < Len(At(n.buffers, newView.buffer))
        /\ At(At(n.buffers, newView.buffer), newAt) = At(At(m.buffers, oldView.buffer), oldAt)
    BY <1>4 DEF SameSpot
  <2>2. oldAt < Len(At(m.buffers, oldView.buffer)) /\ old.byteOffset < oldView.byteLength
    BY <1>4 DEF ValidAccessor
  <2>3. newView.byteOffset + new.byteOffset = newAt
    BY <1>1
  <2>4. oldAt >= 0 /\ newAt >= 0
    BY <2>1
  <2>5. AccessorData(m, a) =
          IF sized THEN [data |-> At(At(m.buffers, oldView.buffer), oldAt), count |-> old.count,
                         numberOfComponents |-> old.components, byteLength |-> oldView.byteLength]
          ELSE Nothing
    <3> HIDE DEF old
    <3>1. AccessorData(m, a) =
            IF /\ InRange(old.bufferView, m.bufferViews)
               /\ InRange(oldView.buffer, m.buffers)
               /\ old.components > 0 /\ old.componentSize > 0
               /\ oldAt >= 0 /\ oldAt < Len(At(m.buffers, oldView.buffer))
            THEN [data |-> At(At(m.buffers, oldView.buffer), oldAt), count |-> old.count,
                  numberOfComponents |-> old.components, byteLength |-> oldView.byteLength]
            ELSE Nothing
      BY DEF AccessorData, old
    <3> HIDE DEF oldView, oldAt
    <3> QED BY <1>4, <2>1, <2>2, <2>4, <3>1
  <2>6. AccessorData(n, b) =
          IF sized THEN [data |-> At(At(n.buffers, newView.buffer), newAt), count |-> old.count,
                         numberOfComponents |-> old.components, byteLength |-> newView.byteLength]
          ELSE Nothing
    <3> HIDE DEF new
    <3> DEFINE at == newView.byteOffset + new.byteOffset
    <3>1. AccessorData(n, b) =
            IF /\ InRange(new.bufferView, n.bufferViews)
               /\ InRange(newView.buffer, n.buffers)
               /\ new.components > 0 /\ new.componentSize > 0
               /\ at >= 0 /\ at < Len(At(n.buffers, newView.buffer))
            THEN [data |-> At(At(n.buffers, newView.buffer), at), count |-> new.count,
                  numberOfComponents |-> new.components, byteLength |-> newView.byteLength]
            ELSE Nothing
      BY DEF AccessorData, new
    <3>2. at = newAt
      BY <2>3
    <3> HIDE DEF newView, at, newAt, old
    <3> QED BY <1>1, <1>4, <2>1, <2>4, <3>1, <3>2
  <2>7. AccessorData(n, b) = AccessorData(m, a)
    <3> HIDE DEF old, oldView, newView, oldAt, newAt, sized
    <3> QED BY <2>1, <2>5, <2>6
  <2>8. ValidAccessor(n, b)
    <3> HIDE DEF old, oldView, newAt
    <3> QED BY <1>1, <1>2, <2>1, <2>2, <2>3 DEF ValidAccessor
  <2> QED BY <2>7, <2>8
<1> QED BY <1>3, <1>4

\* A model of the same meshes and scene in which every accessor in use leads to the same data.
LEMMA SameShown ==
    ASSUME NEW m, NEW n, ValidModel(m), DOMAIN n = DOMAIN m,
           n.meshes = m.meshes, \A kind \in SceneLists : n[kind] = m[kind],
           \A kind \in {"accessors", "bufferViews", "buffers"} : IsSequence(n[kind]),
           \A b \in DOMAIN n.buffers : IsSequence(n.buffers[b]),
           \A v \in DOMAIN n.bufferViews : ValidView(n, n.bufferViews[v]),
           \A index \in Nat : ValidAccessor(m, index) =>
              ValidAccessor(n, index) /\ AccessorData(n, index) = AccessorData(m, index)
    PROVE  /\ ValidModel(n)
           /\ Alike(m, n)
           /\ \A i \in DOMAIN m.meshes : \A j \in DOMAIN m.meshes[i] : Content(n, i, j) = Content(m, i, j)
<1>1. DOMAIN n = Lists \cup {"extensions", "scene"}
  BY DEF ValidModel
<1>2. ASSUME NEW i \in DOMAIN m.meshes, NEW j \in DOMAIN m.meshes[i]
      PROVE  /\ ValidPrimitive(n, m.meshes[i][j])
             /\ DataIfAny(n, m.meshes[i][j].indices) = DataIfAny(m, m.meshes[i][j].indices)
             /\ Content(n, i, j) = Content(m, i, j)
  <2>1. ValidPrimitive(m, m.meshes[i][j])
    BY PrimitiveValid
  <2> QED BY <2>1 DEF ValidPrimitive, DataIfAny, Content
<1>3. Alike(m, n)
  BY <1>2, SameScene DEF Alike
<1>4. \A kind \in Lists : IsSequence(n[kind])
  <2>1. \A kind \in Lists : kind \in SceneLists \cup {"meshes", "accessors", "bufferViews", "buffers"}
    BY DEF Lists, SceneLists
  <2>2. \A kind \in Lists : IsSequence(m[kind])
    BY DEF ValidModel
  <2>3. "meshes" \in Lists
    BY DEF Lists
  <2> QED BY <2>1, <2>2, <2>3
<1>5. \A i \in DOMAIN m.meshes : IsSequence(m.meshes[i])
  BY DEF ValidModel
<1>6. ValidModel(n)
  BY <1>1, <1>2, <1>4, <1>5 DEF ValidModel
<1> QED BY <1>2, <1>3, <1>6

-----------------------------------------------------------------------------
(* Collapsing the buffers. *)

\* A sequence over any set is one.
LEMMA SequenceOf ==
    ASSUME NEW X, NEW s \in Seq(X)
    PROVE  IsSequence(s)
<1>1. Len(s) \in Nat /\ s = [i \in 1..Len(s) |-> s[i]]
  OBVIOUS
<1> QED BY <1>1, SequenceMade

\* The buffers are sequences over one set.
LEMMA BuffersAre ==
    ASSUME NEW m, ValidModel(m)
    PROVE  \E X : m.buffers \in Seq(Seq(X))
<1> DEFINE X == UNION {Range(m.buffers[b]) : b \in DOMAIN m.buffers}
           last == Len(m.buffers)
<1>1. IsSequence(m.buffers) /\ \A b \in DOMAIN m.buffers : IsSequence(m.buffers[b])
  BY DEF ValidModel, Lists
<1>2. last \in Nat /\ DOMAIN m.buffers = 1..last /\ m.buffers = [b \in 1..last |-> m.buffers[b]]
  <2>1. PICK s : s = m.buffers
    OBVIOUS
  <2>2. s \in Seq(Range(s))
    BY <1>1, <2>1 DEF IsSequence
  <2>3. Len(s) \in Nat /\ DOMAIN s = 1..Len(s) /\ s = [b \in 1..Len(s) |-> s[b]]
    BY <2>2
  <2> QED BY <2>1, <2>3
<1>3. ASSUME NEW b \in DOMAIN m.buffers PROVE m.buffers[b] \in Seq(X)
  <2>1. PICK s : s = m.buffers[b]
    OBVIOUS
  <2>2. s \in Seq(Range(s)) /\ Range(s) \subseteq X
    BY <1>1, <2>1 DEF IsSequence
  <2>3. \A k \in 1..Len(s) : s[k] \in X
    BY <2>2
  <2>4. s \in Seq(X)
    <3> HIDE DEF X
    <3> QED BY <2>2, <2>3
  <2> QED BY <2>1, <2>4
<1>4. m.buffers \in [1..last -> Seq(X)]
  <2> HIDE DEF X, last
  <2> QED BY <1>2, <1>3
<1>5. m.buffers \in Seq(Seq(X))
  <2> HIDE DEF X, last
  <2> QED BY <1>2, <1>4
<1> QED BY <1>5
\* One buffer for all: the model is valid still and every accessor leads to the same data.
THEOREM CollapsedIs ==
    ASSUME NEW m, ValidModel(m)
    PROVE  LET n == Collapsed(m) IN
           /\ ValidModel(n)
           /\ n.meshes = m.meshes
           /\ Alike(m, n)
           /\ \A i \in DOMAIN m.meshes : \A j \in DOMAIN m.meshes[i] : Content(n, i, j) = Content(m, i, j)
<1> DEFINE n == Collapsed(m)
           start(b) == Len(ConcatenatedTo(m.buffers, b))
<1>1. DOMAIN m = Lists \cup {"extensions", "scene"}
  BY DEF ValidModel
<1>2. /\ DOMAIN n = DOMAIN m
      /\ \A kind \in DOMAIN m : kind \notin {"buffers", "bufferViews"} => n[kind] = m[kind]
      /\ n.buffers = IF m.buffers = <<>> THEN m.buffers ELSE <<FlattenSeq(m.buffers)>>
      /\ n.bufferViews = [v \in DOMAIN m.bufferViews |->
            [m.bufferViews[v] EXCEPT !.buffer = 0,
               !.byteOffset = @ + start(m.bufferViews[v].buffer)]]
  <2> DEFINE buffers == IF m.buffers = <<>> THEN m.buffers ELSE <<FlattenSeq(m.buffers)>>
             views == [v \in DOMAIN m.bufferViews |->
                         [m.bufferViews[v] EXCEPT !.buffer = 0,
                            !.byteOffset = @ + start(m.bufferViews[v].buffer)]]
  <2>1. DOMAIN n = DOMAIN m
    BY DEF Collapsed
  <2>2. "buffers" \in DOMAIN m /\ "bufferViews" \in DOMAIN m
    BY <1>1 DEF Lists
  <2>3. \A kind \in DOMAIN m : kind \notin {"buffers", "bufferViews"} => n[kind] = m[kind]
    BY DEF Collapsed
  <2>4. n.buffers = buffers
    BY <2>2 DEF Collapsed
  <2>5. n.bufferViews = views
    BY <2>2 DEF Collapsed
  <2> HIDE DEF n, buffers, views
  <2> QED BY <2>1, <2>3, <2>4, <2>5 DEF buffers, views
<1> HIDE DEF n
<1>3. /\ n.accessors = m.accessors /\ n.meshes = m.meshes
      /\ \A kind \in SceneLists : n[kind] = m[kind]
  BY <1>1, <1>2 DEF Lists, SceneLists
<1>4. /\ Len(m.bufferViews) \in Nat /\ DOMAIN m.bufferViews = 1..Len(m.bufferViews)
      /\ Len(m.buffers) \in Nat /\ DOMAIN m.buffers = 1..Len(m.buffers)
  BY SequenceHas DEF ValidModel, Lists
<1>5. /\ DOMAIN n.bufferViews = DOMAIN m.bufferViews
      /\ Len(n.bufferViews) = Len(m.bufferViews) /\ IsSequence(n.bufferViews)
  <2>1. n.bufferViews = [v \in 1..Len(m.bufferViews) |-> n.bufferViews[v]]
    BY <1>2, <1>4
  <2> QED BY <1>4, <2>1, SequenceMade
<1>6. PICK X : m.buffers \in Seq(Seq(X))
  BY BuffersAre
<1>7. ASSUME NEW v \in DOMAIN m.bufferViews
      PROVE  LET view == m.bufferViews[v]  new == n.bufferViews[v]
             IN  /\ view.buffer \in 0..Len(m.buffers) - 1 /\ view.byteOffset \in Nat
                 /\ start(view.buffer) \in Nat
                 /\ new.buffer = 0 /\ new.byteOffset = view.byteOffset + start(view.buffer)
                 /\ new.byteLength = view.byteLength
                 /\ DOMAIN new = DOMAIN view
                 /\ m.buffers # <<>>
  <2> DEFINE view == m.bufferViews[v]
             new == n.bufferViews[v]
  <2>1. /\ {"buffer", "byteOffset", "byteLength"} \subseteq DOMAIN view
        /\ view.buffer \in 0..Len(m.buffers) - 1 /\ view.byteOffset \in Nat
    BY <1>4 DEF ValidModel, ValidView, InRange
  <2>2. new = [view EXCEPT !.buffer = 0, !.byteOffset = @ + start(view.buffer)]
    BY <1>2
  <2>3. start(view.buffer) \in Nat
    OBVIOUS
  <2>4. m.buffers # <<>>
    BY <2>1, <1>4
  <2> HIDE DEF start
  <2> QED BY <2>1, <2>2, <2>3, <2>4
<1>8. ASSUME NEW v \in DOMAIN m.bufferViews PROVE ValidView(n, n.bufferViews[v])
  <2>1. Len(n.buffers) = 1
    <3>1. PICK flat : flat = FlattenSeq(m.buffers)
      OBVIOUS
    <3>2. n.buffers = <<flat>>
      BY <1>2, <1>7, <3>1
    <3> QED BY <3>2
  <2>2. /\ {"buffer", "byteOffset", "byteLength"} \subseteq DOMAIN m.bufferViews[v]
        /\ m.bufferViews[v].byteLength \in Nat
    BY DEF ValidModel, ValidView
  <2> HIDE DEF start
  <2>3. PICK s \in Nat : s = start(m.bufferViews[v].buffer)
    BY <1>7
  <2>4. m.bufferViews[v].byteOffset + s \in Nat
    BY <1>7
  <2> QED BY <1>7, <2>1, <2>2, <2>3, <2>4 DEF ValidView, InRange
<1>9. ASSUME NEW index, index \in Nat, ValidAccessor(m, index)
      PROVE  ValidAccessor(n, index) /\ AccessorData(n, index) = AccessorData(m, index)
  <2> DEFINE accessor == At(m.accessors, index)
             view == At(m.bufferViews, accessor.bufferView)
             new == At(n.bufferViews, accessor.bufferView)
  <2>1. /\ At(n.accessors, index) = accessor
        /\ InRange(index, n.accessors)
        /\ accessor.bufferView \in Int /\ accessor.byteOffset \in Nat
    BY <1>3, <1>9 DEF ValidAccessor
  <2>2. InRange(accessor.bufferView, n.bufferViews) <=> InRange(accessor.bufferView, m.bufferViews)
    BY <1>5 DEF InRange
  <2>3. ASSUME InRange(accessor.bufferView, m.bufferViews)
        PROVE  LET oldAt == view.byteOffset + accessor.byteOffset
                   newAt == new.byteOffset + accessor.byteOffset
               IN  /\ InRange(view.buffer, m.buffers) /\ InRange(new.buffer, n.buffers)
                   /\ new.byteLength = view.byteLength
                   /\ oldAt \in Nat /\ newAt \in Nat
                   /\ newAt < Len(At(n.buffers, new.buffer))
                   /\ At(At(n.buffers, new.buffer), newAt) = At(At(m.buffers, view.buffer), oldAt)
    <3>1. PICK v \in DOMAIN m.bufferViews : v = accessor.bufferView + 1
      BY <1>4, <2>1, <2>3 DEF InRange
    <3>2. view = m.bufferViews[v] /\ new = n.bufferViews[v]
      BY <3>1 DEF At
    <3>4. PICK b \in 0..Len(m.buffers) - 1 : b = view.buffer
      BY <1>7, <3>2
    <3>5. PICK o \in Nat : o = view.byteOffset + accessor.byteOffset
      BY <1>7, <2>1, <3>2
    <3>6. b + 1 \in 1..Len(m.buffers) /\ At(m.buffers, b) = m.buffers[b + 1]
      BY <1>4 DEF At
    <3>7. o < Len(m.buffers[b + 1])
      BY <1>9, <2>3, <3>4, <3>5, <3>6 DEF ValidAccessor
    <3>8. o \in 0..Len(m.buffers[b + 1]) - 1
      <4>1. Len(m.buffers[b + 1]) \in Nat
        BY <1>6, <3>6
      <4> QED BY <3>7, <4>1
    <3> DEFINE flat == FlattenSeq(m.buffers)
    <3>9. /\ start(b) \in Nat /\ start(b) + o < Len(flat)
          /\ flat[start(b) + o + 1] = m.buffers[b + 1][o + 1]
      <4>1. PICK seqs \in Seq(Seq(X)) : seqs = m.buffers
        BY <1>6
      <4>2. b \in 0..Len(seqs) - 1 /\ o \in 0..Len(seqs[b + 1]) - 1
        BY <3>8, <4>1
      <4>3. /\ Len(ConcatenatedTo(seqs, b)) \in Nat
            /\ Len(ConcatenatedTo(seqs, b)) + o < Len(FlattenSeq(seqs))
            /\ FlattenSeq(seqs)[Len(ConcatenatedTo(seqs, b)) + o + 1] = seqs[b + 1][o + 1]
        BY <4>2, Concatenation
      <4> QED BY <4>1, <4>3
    <3> HIDE DEF start, flat, view, new, accessor
    <3>10. n.buffers = <<flat>> /\ new.buffer = 0 /\ new.byteLength = view.byteLength
      BY <1>2, <1>7, <3>2 DEF flat
    <3>11. PICK from \in Nat : from = start(b)
      BY <3>9
    <3>12. new.byteOffset = view.byteOffset + from
      BY <1>7, <3>2, <3>4, <3>11
    <3>13. new.byteOffset + accessor.byteOffset = from + o
      <4>1. view.byteOffset \in Nat
        BY <1>7, <3>2
      <4> QED BY <2>1, <3>5, <3>12, <4>1
    <3>14. At(n.buffers, new.buffer) = flat /\ InRange(new.buffer, n.buffers)
      BY <3>10 DEF At, InRange
    <3>15. At(flat, from + o) = At(m.buffers[b + 1], o)
      BY <3>9, <3>11 DEF At
    <3>16. InRange(view.buffer, m.buffers)
      BY <1>4, <3>4 DEF InRange
    <3>17. from + o \in Nat /\ from + o < Len(flat)
      BY <3>9, <3>11
    <3> QED BY <3>4, <3>5, <3>6, <3>10, <3>13, <3>14, <3>15, <3>16, <3>17
  <2>4. SameSpot(m, n, index, index)
    <3> HIDE DEF view, new, accessor
    <3> QED BY <2>1, <2>2, <2>3 DEF SameSpot, view, new, accessor
  <2> QED BY <1>9, <2>4, SameReading
<1>10. IsSequence(n.buffers) /\ \A b \in DOMAIN n.buffers : IsSequence(n.buffers[b])
  <2>1. CASE m.buffers = <<>>
    BY <1>2, <2>1 DEF ValidModel, Lists
  <2>2. CASE m.buffers # <<>>
    <3>1. PICK flat \in Seq(X) : flat = FlattenSeq(m.buffers)
      BY <1>6, <2>2, Flattening
    <3>2. n.buffers = <<flat>>
      BY <1>2, <2>2, <3>1
    <3>3. <<flat>> \in Seq(Seq(X)) /\ DOMAIN <<flat>> = {1} /\ <<flat>>[1] = flat
      OBVIOUS
    <3> QED BY <3>2, <3>3, SequenceOf
  <2> QED BY <2>1, <2>2
<1>11. IsSequence(n.accessors)
  BY <1>3 DEF ValidModel, Lists
<1>12. \A kind \in {"accessors", "bufferViews", "buffers"} : IsSequence(n[kind])
  BY <1>5, <1>10, <1>11
<1>13. \A v \in DOMAIN n.bufferViews : ValidView(n, n.bufferViews[v])
  BY <1>5, <1>8
<1>14. /\ ValidModel(n) /\ Alike(m, n)
       /\ \A i \in DOMAIN m.meshes : \A j \in DOMAIN m.meshes[i] : Content(n, i, j) = Content(m, i, j)
  <2>1. \A index \in Nat : ValidAccessor(m, index) =>
           ValidAccessor(n, index) /\ AccessorData(n, index) = AccessorData(m, index)
    BY <1>9
  <2>2. DOMAIN n = DOMAIN m /\ \A b \in DOMAIN n.buffers : IsSequence(n.buffers[b])
    BY <1>2, <1>10
  <2>3. n.meshes = m.meshes /\ \A kind \in SceneLists : n[kind] = m[kind]
    BY <1>3
  <2> QED BY <1>12, <1>13, <2>1, <2>2, <2>3, SameShown
<1> QED BY <1>3, <1>14 DEF n

-----------------------------------------------------------------------------
(* What is kept of a list. *)

\* Among those that are kept, each has a place, and no other has it.
LEMMA Ranks ==
    ASSUME NEW used, IsFiniteSet(used), used \subseteq Nat
    PROVE  /\ Cardinality(used) \in Nat
           /\ \A u \in used : MovedTo(used, u) \in 0..Cardinality(used) - 1
           /\ \A u, w \in used : MovedTo(used, u) = MovedTo(used, w) => u = w
<1> DEFINE Below(u) == {w \in used : w < u}
<1>1. ASSUME NEW u
      PROVE  IsFiniteSet(Below(u)) /\ Cardinality(Below(u)) \in Nat /\ MovedTo(used, u) = Cardinality(Below(u))
  <2>1. Below(u) \in SUBSET used
    OBVIOUS
  <2> QED BY <2>1, FS_Subset, FS_CardinalityType DEF MovedTo
<1>2. Cardinality(used) \in Nat
  BY FS_CardinalityType
<1>3. ASSUME NEW u \in used PROVE Cardinality(Below(u)) < Cardinality(used)
  <2>1. Below(u) \in SUBSET used /\ Below(u) # used
    OBVIOUS
  <2>2. Cardinality(Below(u)) <= Cardinality(used) /\ Cardinality(Below(u)) # Cardinality(used)
    <3> HIDE DEF Below
    <3> QED BY <2>1, FS_Subset
  <2> QED BY <1>1, <1>2, <2>2
<1>4. ASSUME NEW u \in used, NEW w \in used, u < w PROVE MovedTo(used, u) # MovedTo(used, w)
  <2>1. Below(u) \in SUBSET Below(w) /\ u \in Below(w) /\ u \notin Below(u)
    <3>1. ASSUME NEW x \in used, x < u PROVE x < w
      <4>1. x \in Nat /\ u \in Nat /\ w \in Nat
        OBVIOUS
      <4> QED BY <1>4, <3>1, <4>1
    <3>2. u \in Nat /\ ~(u < u)
      OBVIOUS
    <3> QED BY <1>4, <3>1, <3>2
  <2>2. Below(u) # Below(w)
    BY <2>1
  <2>3. IsFiniteSet(Below(w))
    BY <1>1
  <2>4. Cardinality(Below(u)) # Cardinality(Below(w))
    <3> HIDE DEF Below
    <3> QED BY <2>1, <2>2, <2>3, FS_Subset
  <2> QED BY <1>1, <2>4
<1>5. \A u, w \in used : u < w \/ w < u \/ u = w
  OBVIOUS
<1>6. ASSUME NEW u \in used PROVE MovedTo(used, u) \in 0..Cardinality(used) - 1
  <2> HIDE DEF Below
  <2> QED BY <1>1, <1>2, <1>3
<1>7. ASSUME NEW u \in used, NEW w \in used, MovedTo(used, u) = MovedTo(used, w) PROVE u = w
  BY <1>4, <1>5, <1>7
<1> QED BY <1>2, <1>6, <1>7

\* What is kept of a list: each has its place, and there is nothing else.
Keeps(kept, list, used) ==
    /\ IsSequence(kept) /\ Len(kept) = Cardinality(used) /\ Cardinality(used) \in Nat
    /\ \A u \in used : /\ MovedTo(used, u) \in Nat /\ InRange(MovedTo(used, u), kept)
                      /\ At(kept, MovedTo(used, u)) = At(list, u)
    /\ \A k \in DOMAIN kept : \E u \in used : kept[k] = At(list, u)

\* So does Keeping.
LEMMA KeepingIs ==
    ASSUME NEW list, NEW used, IsFiniteSet(used), used \subseteq Nat
    PROVE  Keeps(Keeping(list, used), list, used)
<1> DEFINE kept == Keeping(list, used)
           size == Cardinality(used)
           moved(u) == MovedTo(used, u)
           place == [u \in used |-> moved(u) + 1]
<1>1. kept = [k \in 1..size |-> At(list, CHOOSE u \in used : moved(u) = k - 1)]
  BY DEF Keeping
<1>2. /\ size \in Nat
      /\ \A u \in used : moved(u) \in 0..size - 1
      /\ \A u, w \in used : moved(u) = moved(w) => u = w
  BY Ranks
<1> HIDE DEF kept, size, moved
<1>3. IsSequence(kept) /\ Len(kept) = size /\ DOMAIN kept = 1..size
  <2>1. kept = [k \in 1..size |-> kept[k]]
    BY <1>1
  <2> QED BY <1>2, <2>1, SequenceMade
<1>4. ASSUME NEW u \in used
      PROVE  At(kept, moved(u)) = At(list, u) /\ InRange(moved(u), kept) /\ moved(u) \in Nat
  <2>1. moved(u) + 1 \in 1..size /\ (moved(u) + 1) - 1 = moved(u) /\ moved(u) \in Nat
    BY <1>2
  <2>2. (CHOOSE w \in used : moved(w) = moved(u)) = u
    BY <1>2
  <2>3. kept[moved(u) + 1] = At(list, CHOOSE w \in used : moved(w) = (moved(u) + 1) - 1)
    BY <1>1, <2>1
  <2>4. kept[moved(u) + 1] = At(list, u)
    BY <2>1, <2>2, <2>3
  <2> QED BY <1>2, <1>3, <2>1, <2>4 DEF At, InRange
<1>5. ASSUME NEW k \in 1..size PROVE \E u \in used : kept[k] = At(list, u)
  <2>1. \A u \in used : place[u] \in 1..size
    BY <1>2
  <2>2. \A u, w \in used : place[u] = place[w] => u = w
    BY <1>2
  <2>3. place \in [used -> 1..size]
    BY <2>1
  <2>4. place \in Injection(used, 1..size)
    BY <2>2, <2>3 DEF Injection, IsInjective
  <2>5. IsFiniteSet(1..size) /\ Cardinality(1..size) = size
    BY <1>2, FS_Interval
  <2>6. place \in Surjection(used, 1..size)
    <3> HIDE DEF place
    <3> QED BY <2>4, <2>5, FS_Injection DEF size
  <2>7. PICK u \in used : place[u] = k
    BY <2>6 DEF Surjection
  <2>8. moved(u) = k - 1
    BY <1>2, <2>7
  <2>9. \E w \in used : moved(w) = k - 1
    BY <2>8
  <2>10. (CHOOSE w \in used : moved(w) = k - 1) \in used
    BY <2>9
  <2>11. kept[k] = At(list, CHOOSE w \in used : moved(w) = k - 1)
    BY <1>1
  <2> QED BY <2>10, <2>11
<1>6. /\ IsSequence(kept) /\ Len(kept) = size /\ size \in Nat
      /\ \A u \in used : moved(u) \in Nat /\ InRange(moved(u), kept) /\ At(kept, moved(u)) = At(list, u)
      /\ \A k \in DOMAIN kept : \E u \in used : kept[k] = At(list, u)
  BY <1>2, <1>3, <1>4, <1>5
<1> QED BY <1>6 DEF Keeps, kept, size, moved

-----------------------------------------------------------------------------
(* Removing the unused accessors, views, buffers and bytes. *)

\* The accessors in use are there, and finitely many.
LEMMA UsedAre ==
    ASSUME NEW m, ValidModel(m)
    PROVE  LET used == UsedAccessors(m) IN
           /\ IsFiniteSet(used) /\ used \subseteq Nat
           /\ \A u \in used : ValidAccessor(m, u)
           /\ \A i \in DOMAIN m.meshes : \A j \in DOMAIN m.meshes[i] :
                 /\ \A name \in DOMAIN m.meshes[i][j].attributes : m.meshes[i][j].attributes[name] \in used
                 /\ m.meshes[i][j].indices # -1 => m.meshes[i][j].indices \in used
<1> DEFINE used == UsedAccessors(m)
           Of(i, j) == Range(m.meshes[i][j].attributes) \cup ({m.meshes[i][j].indices} \ {-1})
<1>1. used = UNION {UNION {Of(i, j) : j \in DOMAIN m.meshes[i]} : i \in DOMAIN m.meshes}
  BY DEF UsedAccessors
<1>2. ASSUME NEW i \in DOMAIN m.meshes, NEW j \in DOMAIN m.meshes[i]
      PROVE  \A u \in Of(i, j) : u \in Nat /\ ValidAccessor(m, u)
  BY PrimitiveValid DEF ValidPrimitive, Range
<1>3. ASSUME NEW i \in DOMAIN m.meshes, NEW j \in DOMAIN m.meshes[i]
      PROVE  Of(i, j) \subseteq used
  <2> HIDE DEF Of, used
  <2> QED BY <1>1
<1>4. ASSUME NEW u \in used
      PROVE  \E i \in DOMAIN m.meshes : \E j \in DOMAIN m.meshes[i] : u \in Of(i, j)
  <2> HIDE DEF Of, used
  <2> QED BY <1>1
<1>5. \A u \in used : u \in Nat /\ ValidAccessor(m, u)
  <2> HIDE DEF Of, used
  <2> QED BY <1>2, <1>4
<1>6. IsFiniteSet(used)
  <2>1. Len(m.accessors) \in Nat
    BY SequenceHas DEF ValidModel, Lists
  <2>2. used \in SUBSET (0..Len(m.accessors))
    BY <1>5, <2>1 DEF ValidAccessor, InRange
  <2>3. IsFiniteSet(0..Len(m.accessors))
    BY <2>1, FS_Interval
  <2> HIDE DEF used
  <2> QED BY <2>2, <2>3, FS_Subset
<1>7. ASSUME NEW i \in DOMAIN m.meshes, NEW j \in DOMAIN m.meshes[i]
      PROVE  /\ \A name \in DOMAIN m.meshes[i][j].attributes : m.meshes[i][j].attributes[name] \in Of(i, j)
             /\ m.meshes[i][j].indices # -1 => m.meshes[i][j].indices \in Of(i, j)
  BY DEF Range
<1> HIDE DEF used, Of
<1>8. /\ \A u \in used : ValidAccessor(m, u)
      /\ used \subseteq Nat
  BY <1>5
<1> QED BY <1>3, <1>6, <1>7, <1>8 DEF used

\* Without the unused accessors, the others moved down, every primitive keeps its data.
THEOREM PackedIs ==
    ASSUME NEW m, ValidModel(m)
    PROVE  LET n == WithoutUnusedAccessors(m) IN
           /\ ValidModel(n)
           /\ Alike(m, n)
           /\ \A i \in DOMAIN m.meshes : \A j \in DOMAIN m.meshes[i] : Content(n, i, j) = Content(m, i, j)
<1> DEFINE n == WithoutUnusedAccessors(m)
           used == UsedAccessors(m)
           moved(u) == MovedTo(used, u)
           attributes(i, j) == m.meshes[i][j].attributes
           indices(i, j) == m.meshes[i][j].indices
<1>1. DOMAIN m = Lists \cup {"extensions", "scene"}
  BY DEF ValidModel
<1>2. /\ DOMAIN n = DOMAIN m
      /\ \A kind \in DOMAIN m : kind \notin {"accessors", "meshes"} => n[kind] = m[kind]
  BY DEF WithoutUnusedAccessors
<1>3. n.accessors = Keeping(m.accessors, used)
  BY <1>1 DEF WithoutUnusedAccessors, Lists
<1>4. n.meshes = [i \in DOMAIN m.meshes |-> [j \in DOMAIN m.meshes[i] |->
         [m.meshes[i][j] EXCEPT
            !.attributes = [name \in DOMAIN attributes(i, j) |-> moved(attributes(i, j)[name])],
            !.indices = IF indices(i, j) = -1 THEN indices(i, j) ELSE moved(indices(i, j))]]]
  BY <1>1 DEF WithoutUnusedAccessors, Lists
<1>5. /\ IsFiniteSet(used) /\ used \subseteq Nat
      /\ \A u \in used : ValidAccessor(m, u)
      /\ \A i \in DOMAIN m.meshes : \A j \in DOMAIN m.meshes[i] :
            /\ \A name \in DOMAIN attributes(i, j) : attributes(i, j)[name] \in used
            /\ indices(i, j) # -1 => indices(i, j) \in used
  BY UsedAre
<1> HIDE DEF n, used
<1>6. /\ IsSequence(n.accessors)
      /\ \A u \in used : /\ moved(u) \in Nat /\ InRange(moved(u), n.accessors)
                        /\ At(n.accessors, moved(u)) = At(m.accessors, u)
  <2>1. Keeps(n.accessors, m.accessors, used)
    BY <1>3, <1>5, KeepingIs
  <2> QED BY <2>1 DEF Keeps
<1>7. /\ n.bufferViews = m.bufferViews /\ n.buffers = m.buffers
      /\ \A kind \in SceneLists : n[kind] = m[kind]
  BY <1>1, <1>2 DEF Lists, SceneLists
<1> HIDE DEF moved
<1>10. ASSUME NEW u \in used
       PROVE  ValidAccessor(n, moved(u)) /\ AccessorData(n, moved(u)) = AccessorData(m, u)
  BY <1>5, <1>6, <1>7 DEF ValidAccessor, AccessorData
<1>11. ASSUME NEW u \in used PROVE DataIfAny(n, moved(u)) = DataIfAny(m, u) /\ moved(u) \in Nat
  <2>1. u # -1 /\ moved(u) \in Nat /\ moved(u) # -1
    BY <1>5, <1>6
  <2> QED BY <1>10, <2>1 DEF DataIfAny
<1>12. ASSUME NEW i \in DOMAIN m.meshes, NEW j \in DOMAIN m.meshes[i]
       PROVE  LET p == n.meshes[i][j] IN
              /\ DOMAIN p = {"attributes", "indices", "mode", "material"}
              /\ p.attributes = [name \in DOMAIN attributes(i, j) |-> moved(attributes(i, j)[name])]
              /\ p.indices = IF indices(i, j) = -1 THEN -1 ELSE moved(indices(i, j))
              /\ p.mode = m.meshes[i][j].mode /\ p.material = m.meshes[i][j].material
  <2>1. DOMAIN m.meshes[i][j] = {"attributes", "indices", "mode", "material"}
    BY PrimitiveValid DEF ValidPrimitive
  <2> DEFINE new == [name \in DOMAIN attributes(i, j) |-> moved(attributes(i, j)[name])]
             index == IF indices(i, j) = -1 THEN indices(i, j) ELSE moved(indices(i, j))
  <2>2. n.meshes[i][j] = [m.meshes[i][j] EXCEPT !.attributes = new, !.indices = index]
    <3> HIDE DEF attributes, indices
    <3>1. n.meshes[i] = [k \in DOMAIN m.meshes[i] |->
             [m.meshes[i][k] EXCEPT
                !.attributes = [name \in DOMAIN attributes(i, k) |-> moved(attributes(i, k)[name])],
                !.indices = IF indices(i, k) = -1 THEN indices(i, k) ELSE moved(indices(i, k))]]
      BY <1>4
    <3> QED BY <3>1
  <2> HIDE DEF new, index
  <2>3. /\ DOMAIN n.meshes[i][j] = {"attributes", "indices", "mode", "material"}
        /\ n.meshes[i][j].attributes = new /\ n.meshes[i][j].indices = index
        /\ n.meshes[i][j].mode = m.meshes[i][j].mode
        /\ n.meshes[i][j].material = m.meshes[i][j].material
    BY <2>1, <2>2
  <2> QED BY <2>3 DEF new, index
<1>13. ASSUME NEW i \in DOMAIN m.meshes, NEW j \in DOMAIN m.meshes[i]
       PROVE  /\ Content(n, i, j) = Content(m, i, j)
              /\ DataIfAny(n, n.meshes[i][j].indices) = DataIfAny(m, indices(i, j))
              /\ ValidPrimitive(n, n.meshes[i][j])
  <2> DEFINE p == n.meshes[i][j]
             old == attributes(i, j)
  <2>5. /\ DOMAIN p.attributes = DOMAIN old
        /\ \A name \in DOMAIN old : p.attributes[name] = moved(old[name]) /\ old[name] \in used
    <3>1. p.attributes = [name \in DOMAIN old |-> moved(old[name])]
      BY <1>12
    <3>2. \A name \in DOMAIN old : old[name] \in used
      BY <1>5
    <3> HIDE DEF p, old
    <3> QED BY <3>1, <3>2
  <2>1. Content(n, i, j) = Content(m, i, j)
    <3>1. \A name \in DOMAIN old : DataIfAny(n, p.attributes[name]) = DataIfAny(m, old[name])
      BY <1>11, <2>5
    <3> QED BY <2>5, <3>1 DEF Content
  <2>2. DataIfAny(n, n.meshes[i][j].indices) = DataIfAny(m, indices(i, j))
    <3>1. CASE indices(i, j) = -1
      BY <1>12, <3>1 DEF DataIfAny
    <3>2. CASE indices(i, j) # -1
      BY <1>5, <1>11, <1>12, <3>2
    <3> QED BY <3>1, <3>2
  <2>3. ValidPrimitive(m, m.meshes[i][j])
    BY PrimitiveValid
  <2>4. ValidPrimitive(n, n.meshes[i][j])
    <3>1. DOMAIN p = {"attributes", "indices", "mode", "material"}
      BY <1>12
    <3>2. IsFiniteSet(DOMAIN p.attributes)
      BY <2>3, <2>5 DEF ValidPrimitive
    <3>3. \A name \in DOMAIN p.attributes :
             /\ name[2] \in Nat
             /\ p.attributes[name] \in Nat /\ ValidAccessor(n, p.attributes[name])
      <4>1. \A name \in DOMAIN old : name[2] \in Nat
        BY <2>3 DEF ValidPrimitive
      <4>2. \A name \in DOMAIN old : moved(old[name]) \in Nat /\ ValidAccessor(n, moved(old[name]))
        BY <1>10, <1>11, <2>5
      <4> QED BY <2>5, <4>1, <4>2
    <3>4. p.indices # -1 => p.indices \in Nat /\ ValidAccessor(n, p.indices)
      <4>1. CASE indices(i, j) = -1
        BY <1>12, <4>1
      <4>2. CASE indices(i, j) # -1
        <5>1. indices(i, j) \in used /\ p.indices = moved(indices(i, j))
          BY <1>5, <1>12, <4>2
        <5> QED BY <1>10, <1>11, <5>1
      <4> QED BY <4>1, <4>2
    <3> QED BY <3>1, <3>2, <3>3, <3>4 DEF ValidPrimitive
  <2> QED BY <2>1, <2>2, <2>4
<1>14. /\ DOMAIN n.meshes = DOMAIN m.meshes
       /\ \A i \in DOMAIN m.meshes : DOMAIN n.meshes[i] = DOMAIN m.meshes[i]
  BY <1>4
<1>15. Alike(m, n)
  BY <1>7, <1>12, <1>13, <1>14, SameScene DEF Alike
<1>16. ValidModel(n)
  <2>1. \A i \in DOMAIN m.meshes : IsSequence(n.meshes[i])
    <3> SUFFICES ASSUME NEW i \in DOMAIN m.meshes PROVE IsSequence(n.meshes[i])
      OBVIOUS
    <3>1. n.meshes[i] = [j \in 1..Len(m.meshes[i]) |-> n.meshes[i][j]]
      BY <1>4, Shape
    <3> QED BY <3>1, Shape, SequenceMade
  <2>2. IsSequence(n.meshes)
    <3>1. n.meshes = [i \in 1..Len(m.meshes) |-> n.meshes[i]]
      BY <1>4, Shape
    <3> QED BY <3>1, Shape, SequenceMade
  <2>3. \A kind \in Lists : IsSequence(n[kind])
    <3>1. \A kind \in Lists \ {"accessors", "meshes"} : n[kind] = m[kind]
      BY <1>1, <1>2
    <3>2. \A kind \in Lists : IsSequence(m[kind])
      BY DEF ValidModel
    <3> QED BY <1>6, <2>2, <3>1, <3>2
  <2>4. \A v \in DOMAIN n.bufferViews : ValidView(n, n.bufferViews[v])
    <3>1. \A v \in DOMAIN m.bufferViews : ValidView(m, m.bufferViews[v])
      BY DEF ValidModel
    <3> QED BY <1>7, <3>1 DEF ValidView
  <2>5. \A b \in DOMAIN n.buffers : IsSequence(n.buffers[b])
    BY <1>7 DEF ValidModel
  <2> QED BY <1>1, <1>2, <1>13, <1>14, <2>1, <2>3, <2>4, <2>5 DEF ValidModel
<1> QED BY <1>13, <1>15, <1>16 DEF n

\* What ValidModel says of a view's place.
LEMMA ViewIs ==
    ASSUME NEW m, ValidModel(m)
    PROVE  /\ Len(m.bufferViews) \in Nat /\ DOMAIN m.bufferViews = 1..Len(m.bufferViews)
           /\ Len(m.buffers) \in Nat /\ DOMAIN m.buffers = 1..Len(m.buffers)
           /\ Len(m.accessors) \in Nat /\ DOMAIN m.accessors = 1..Len(m.accessors)
           /\ \A v \in DOMAIN m.bufferViews :
                 /\ {"buffer", "byteOffset", "byteLength"} \subseteq DOMAIN m.bufferViews[v]
                 /\ m.bufferViews[v].buffer \in 0..Len(m.buffers) - 1
                 /\ m.bufferViews[v].byteOffset \in Nat /\ m.bufferViews[v].byteLength \in Nat
<1>1. /\ Len(m.bufferViews) \in Nat /\ DOMAIN m.bufferViews = 1..Len(m.bufferViews)
      /\ Len(m.buffers) \in Nat /\ DOMAIN m.buffers = 1..Len(m.buffers)
      /\ Len(m.accessors) \in Nat /\ DOMAIN m.accessors = 1..Len(m.accessors)
  BY SequenceHas DEF ValidModel, Lists
<1>2. \A v \in DOMAIN m.bufferViews : ValidView(m, m.bufferViews[v])
  BY DEF ValidModel
<1> QED BY <1>1, <1>2 DEF ValidView, InRange

\* A valid accessor with a view begins at a byte of the view, which is one of the buffer.
LEMMA AccessorIs ==
    ASSUME NEW m, ValidModel(m), NEW index \in Nat, ValidAccessor(m, index)
    PROVE  LET accessor == At(m.accessors, index)
               view == At(m.bufferViews, accessor.bufferView)
           IN  /\ InRange(index, m.accessors) /\ index + 1 \in DOMAIN m.accessors
               /\ accessor = m.accessors[index + 1]
               /\ accessor.bufferView \in Int /\ accessor.byteOffset \in Nat
               /\ {"bufferView", "byteOffset", "count", "components", "componentSize"} \subseteq DOMAIN accessor
               /\ InRange(accessor.bufferView, m.bufferViews) =>
                     /\ accessor.bufferView \in 0..Len(m.bufferViews) - 1
                     /\ accessor.bufferView + 1 \in DOMAIN m.bufferViews
                     /\ view = m.bufferViews[accessor.bufferView + 1]
                     /\ InRange(view.buffer, m.buffers)
                     /\ view.buffer + 1 \in DOMAIN m.buffers
                     /\ view.byteOffset + accessor.byteOffset \in Nat
                     /\ accessor.byteOffset < view.byteLength
                     /\ view.byteOffset + accessor.byteOffset < Len(At(m.buffers, view.buffer))
<1> DEFINE accessor == At(m.accessors, index)
           view == At(m.bufferViews, accessor.bufferView)
<1>1. /\ InRange(index, m.accessors)
      /\ accessor.bufferView \in Int /\ accessor.byteOffset \in Nat
      /\ {"bufferView", "byteOffset", "count", "components", "componentSize"} \subseteq DOMAIN accessor
      /\ InRange(accessor.bufferView, m.bufferViews) =>
            /\ accessor.byteOffset < view.byteLength
            /\ view.byteOffset + accessor.byteOffset < Len(At(m.buffers, view.buffer))
  BY DEF ValidAccessor
<1>2. index + 1 \in DOMAIN m.accessors /\ accessor = m.accessors[index + 1]
  BY <1>1, ViewIs DEF InRange, At
<1> HIDE DEF accessor
<1>3. ASSUME InRange(accessor.bufferView, m.bufferViews)
      PROVE  /\ accessor.bufferView \in 0..Len(m.bufferViews) - 1
             /\ accessor.bufferView + 1 \in DOMAIN m.bufferViews
             /\ view = m.bufferViews[accessor.bufferView + 1]
             /\ InRange(view.buffer, m.buffers)
             /\ view.buffer + 1 \in DOMAIN m.buffers
             /\ view.byteOffset + accessor.byteOffset \in Nat
  <2>1. /\ accessor.bufferView \in 0..Len(m.bufferViews) - 1
        /\ accessor.bufferView + 1 \in DOMAIN m.bufferViews
        /\ view = m.bufferViews[accessor.bufferView + 1]
    BY <1>1, <1>3, ViewIs DEF InRange, At
  <2>2. view.buffer \in 0..Len(m.buffers) - 1 /\ view.byteOffset \in Nat
    BY <2>1, ViewIs
  <2> HIDE DEF view
  <2>3. /\ InRange(view.buffer, m.buffers)
        /\ view.buffer + 1 \in DOMAIN m.buffers
    <3>1. Len(m.buffers) \in Nat /\ DOMAIN m.buffers = 1..Len(m.buffers)
      BY ViewIs
    <3> QED BY <2>2, <3>1 DEF InRange
  <2>4. view.byteOffset + accessor.byteOffset \in Nat
    BY <1>1, <2>2
  <2> QED BY <2>1, <2>3, <2>4 DEF view
<1> QED BY <1>1, <1>2, <1>3 DEF accessor

\* Without the views no accessor has.
THEOREM ViewsPackedIs ==
    ASSUME NEW m, ValidModel(m)
    PROVE  LET n == WithoutUnusedViews(m) IN
           /\ ValidModel(n)
           /\ Alike(m, n)
           /\ \A i \in DOMAIN m.meshes : \A j \in DOMAIN m.meshes[i] : Content(n, i, j) = Content(m, i, j)
<1> DEFINE n == WithoutUnusedViews(m)
           used == UsedViews(m)
           moved(v) == MovedTo(used, v)
           to(v) == IF v \in used THEN moved(v) ELSE v
<1>1. DOMAIN m = Lists \cup {"extensions", "scene"}
  BY DEF ValidModel
<1>2. /\ DOMAIN n = DOMAIN m
      /\ \A kind \in DOMAIN m : kind \notin {"accessors", "bufferViews"} => n[kind] = m[kind]
  BY DEF WithoutUnusedViews
<1>3. n.bufferViews = Keeping(m.bufferViews, used)
  BY <1>1 DEF WithoutUnusedViews, Lists
<1>4. n.accessors = [a \in DOMAIN m.accessors |->
                        [m.accessors[a] EXCEPT !.bufferView = to(m.accessors[a].bufferView)]]
  BY <1>1 DEF WithoutUnusedViews, Lists
<1>5. /\ n.buffers = m.buffers /\ n.meshes = m.meshes
      /\ \A kind \in SceneLists : n[kind] = m[kind]
  BY <1>1, <1>2 DEF Lists, SceneLists
<1>6. /\ used \subseteq 0..Len(m.bufferViews) - 1
      /\ \A a \in DOMAIN m.accessors :
            m.accessors[a].bufferView \in 0..Len(m.bufferViews) - 1 => m.accessors[a].bufferView \in used
  BY DEF UsedViews
<1> HIDE DEF n, used
<1>7. IsFiniteSet(used) /\ used \subseteq Nat /\ Cardinality(used) <= Len(m.bufferViews)
  <2>1. /\ IsFiniteSet(0..Len(m.bufferViews) - 1)
        /\ Cardinality(0..Len(m.bufferViews) - 1) = Len(m.bufferViews)
    BY ViewIs, FS_Interval
  <2>2. IsFiniteSet(used) /\ Cardinality(used) <= Cardinality(0..Len(m.bufferViews) - 1)
    BY <1>6, <2>1, FS_Subset
  <2> QED BY <1>6, <2>1, <2>2
<1>8. /\ IsSequence(n.bufferViews) /\ Len(n.bufferViews) = Cardinality(used)
      /\ Cardinality(used) \in Nat
      /\ \A v \in used : /\ moved(v) \in Nat /\ InRange(moved(v), n.bufferViews)
                        /\ At(n.bufferViews, moved(v)) = At(m.bufferViews, v)
      /\ \A k \in DOMAIN n.bufferViews : \E v \in used : n.bufferViews[k] = At(m.bufferViews, v)
  <2>1. Keeps(n.bufferViews, m.bufferViews, used)
    BY <1>3, <1>7, KeepingIs
  <2> QED BY <2>1 DEF Keeps
<1> HIDE DEF moved
<1>9. IsSequence(n.accessors) /\ Len(n.accessors) = Len(m.accessors)
  <2>1. n.accessors = [a \in 1..Len(m.accessors) |-> n.accessors[a]]
    BY <1>4, ViewIs
  <2> QED BY <2>1, ViewIs, SequenceMade
<1>10. ASSUME NEW index \in Nat, ValidAccessor(m, index)
       PROVE  ValidAccessor(n, index) /\ AccessorData(n, index) = AccessorData(m, index)
  <2> DEFINE old == At(m.accessors, index)
             new == At(n.accessors, index)
             view == At(m.bufferViews, old.bufferView)
  <2>1. /\ InRange(index, m.accessors) /\ index + 1 \in DOMAIN m.accessors
        /\ old = m.accessors[index + 1]
        /\ old.bufferView \in Int /\ old.byteOffset \in Nat
        /\ {"bufferView", "byteOffset", "count", "components", "componentSize"} \subseteq DOMAIN old
        /\ InRange(old.bufferView, m.bufferViews) =>
              /\ old.bufferView \in 0..Len(m.bufferViews) - 1
              /\ InRange(view.buffer, m.buffers)
              /\ view.byteOffset + old.byteOffset \in Nat
              /\ view.byteOffset + old.byteOffset < Len(At(m.buffers, view.buffer))
    BY <1>10, AccessorIs
  <2>2. new = [old EXCEPT !.bufferView = to(old.bufferView)]
    BY <1>4, <2>1 DEF At
  <2> HIDE DEF old, new
  <2>3. /\ DOMAIN new = DOMAIN old /\ new.bufferView = to(old.bufferView)
        /\ new.byteOffset = old.byteOffset /\ new.count = old.count
        /\ new.components = old.components /\ new.componentSize = old.componentSize
    <3> HIDE DEF to
    <3> QED BY <2>1, <2>2
  <2>4. InRange(index, n.accessors)
    BY <1>9, <2>1 DEF InRange
  <2>5. CASE InRange(old.bufferView, m.bufferViews)
    <3>1. old.bufferView \in used
      BY <1>6, <2>1, <2>5 DEF old
    <3>2. new.bufferView = moved(old.bufferView)
      BY <2>3, <3>1
    <3>3. /\ new.bufferView \in Int /\ InRange(new.bufferView, n.bufferViews)
          /\ At(n.bufferViews, new.bufferView) = view
      BY <1>8, <3>1, <3>2
    <3> HIDE DEF view
    <3>4. SameSpot(m, n, index, index)
      BY <1>5, <2>1, <2>3, <2>4, <2>5, <3>3 DEF SameSpot, old, new, view
    <3> QED BY <1>10, <3>4, SameReading
  <2>6. CASE ~InRange(old.bufferView, m.bufferViews)
    <3>1. old.bufferView \notin used
      BY <1>6, <2>1, <2>6, ViewIs DEF InRange
    <3>2. new.bufferView = old.bufferView
      BY <2>3, <3>1
    <3>3. ~InRange(new.bufferView, n.bufferViews)
      BY <1>7, <1>8, <2>1, <2>6, <3>2, ViewIs DEF InRange
    <3>4. SameSpot(m, n, index, index)
      BY <2>1, <2>3, <2>4, <2>6, <3>2, <3>3 DEF SameSpot, old, new
    <3> QED BY <1>10, <3>4, SameReading
  <2> QED BY <2>5, <2>6
<1>11. ASSUME NEW k \in DOMAIN n.bufferViews PROVE ValidView(n, n.bufferViews[k])
  <2>1. PICK v \in used : n.bufferViews[k] = At(m.bufferViews, v)
    BY <1>8
  <2>2. v + 1 \in DOMAIN m.bufferViews /\ n.bufferViews[k] = m.bufferViews[v + 1]
    BY <1>6, <2>1, ViewIs DEF At
  <2>3. ValidView(m, m.bufferViews[v + 1])
    BY <2>2 DEF ValidModel
  <2> QED BY <1>5, <2>2, <2>3 DEF ValidView
<1>12. IsSequence(n.buffers) /\ \A b \in DOMAIN n.buffers : IsSequence(n.buffers[b])
  BY <1>5 DEF ValidModel, Lists
<1>13. \A kind \in {"accessors", "bufferViews", "buffers"} : IsSequence(n[kind])
  BY <1>8, <1>9, <1>12
<1>14. \A index \in Nat : ValidAccessor(m, index) =>
          ValidAccessor(n, index) /\ AccessorData(n, index) = AccessorData(m, index)
  BY <1>10
<1>15. DOMAIN n = DOMAIN m
  BY <1>2
<1>16. n.meshes = m.meshes /\ \A kind \in SceneLists : n[kind] = m[kind]
  BY <1>5
<1>17. /\ ValidModel(n) /\ Alike(m, n)
       /\ \A i \in DOMAIN m.meshes : \A j \in DOMAIN m.meshes[i] : Content(n, i, j) = Content(m, i, j)
  BY <1>11, <1>12, <1>13, <1>14, <1>15, <1>16, SameShown
<1> QED BY <1>17 DEF n

\* Without the buffers no view has.
THEOREM BuffersPackedIs ==
    ASSUME NEW m, ValidModel(m)
    PROVE  LET n == WithoutUnusedBuffers(m) IN
           /\ ValidModel(n)
           /\ Alike(m, n)
           /\ \A i \in DOMAIN m.meshes : \A j \in DOMAIN m.meshes[i] : Content(n, i, j) = Content(m, i, j)
<1> DEFINE n == WithoutUnusedBuffers(m)
           used == UsedBuffers(m)
           moved(b) == MovedTo(used, b)
<1>1. DOMAIN m = Lists \cup {"extensions", "scene"}
  BY DEF ValidModel
<1>2. /\ DOMAIN n = DOMAIN m
      /\ \A kind \in DOMAIN m : kind \notin {"buffers", "bufferViews"} => n[kind] = m[kind]
  BY DEF WithoutUnusedBuffers
<1>3. n.buffers = Keeping(m.buffers, used)
  BY <1>1 DEF WithoutUnusedBuffers, Lists
<1>4. n.bufferViews = [v \in DOMAIN m.bufferViews |->
                          [m.bufferViews[v] EXCEPT !.buffer = moved(m.bufferViews[v].buffer)]]
  BY <1>1 DEF WithoutUnusedBuffers, Lists
<1>5. /\ n.accessors = m.accessors /\ n.meshes = m.meshes
      /\ \A kind \in SceneLists : n[kind] = m[kind]
  BY <1>1, <1>2 DEF Lists, SceneLists
<1>6. /\ used \subseteq 0..Len(m.buffers) - 1
      /\ \A v \in DOMAIN m.bufferViews : m.bufferViews[v].buffer \in used
  BY ViewIs DEF UsedBuffers
<1> HIDE DEF n, used
<1>7. IsFiniteSet(used) /\ used \subseteq Nat
  <2>1. IsFiniteSet(0..Len(m.buffers) - 1)
    BY ViewIs, FS_Interval
  <2>2. IsFiniteSet(used)
    BY <1>6, <2>1, FS_Subset
  <2> QED BY <1>6, <2>2
<1>8. /\ IsSequence(n.buffers)
      /\ \A b \in used : /\ moved(b) \in Nat /\ InRange(moved(b), n.buffers)
                        /\ At(n.buffers, moved(b)) = At(m.buffers, b)
      /\ \A k \in DOMAIN n.buffers : \E b \in used : n.buffers[k] = At(m.buffers, b)
  <2>1. Keeps(n.buffers, m.buffers, used)
    BY <1>3, <1>7, KeepingIs
  <2> QED BY <2>1 DEF Keeps
<1> HIDE DEF moved
<1>9. IsSequence(n.bufferViews) /\ Len(n.bufferViews) = Len(m.bufferViews)
      /\ DOMAIN n.bufferViews = DOMAIN m.bufferViews
  <2>1. n.bufferViews = [v \in 1..Len(m.bufferViews) |-> n.bufferViews[v]]
    BY <1>4, ViewIs
  <2> QED BY <2>1, ViewIs, SequenceMade
<1>10. ASSUME NEW v \in DOMAIN m.bufferViews
       PROVE  LET view == m.bufferViews[v]  new == n.bufferViews[v]
              IN  /\ DOMAIN new = DOMAIN view
                  /\ {"buffer", "byteOffset", "byteLength"} \subseteq DOMAIN new
                  /\ new.buffer = moved(view.buffer) /\ view.buffer \in used
                  /\ new.byteOffset = view.byteOffset /\ new.byteLength = view.byteLength
                  /\ view.byteOffset \in Nat /\ view.byteLength \in Nat
  <2> DEFINE view == m.bufferViews[v]
             new == n.bufferViews[v]
  <2>1. new = [view EXCEPT !.buffer = moved(view.buffer)]
    BY <1>4
  <2>2. /\ {"buffer", "byteOffset", "byteLength"} \subseteq DOMAIN view
        /\ view.byteOffset \in Nat /\ view.byteLength \in Nat
        /\ view.buffer \in used
    BY <1>6, ViewIs
  <2> HIDE DEF view, new
  <2>3. /\ DOMAIN new = DOMAIN view /\ new.buffer = moved(view.buffer)
        /\ new.byteOffset = view.byteOffset /\ new.byteLength = view.byteLength
    BY <2>1, <2>2
  <2> QED BY <2>2, <2>3 DEF view, new
<1>11. ASSUME NEW index \in Nat, ValidAccessor(m, index)
       PROVE  ValidAccessor(n, index) /\ AccessorData(n, index) = AccessorData(m, index)
  <2> DEFINE old == At(m.accessors, index)
             view == At(m.bufferViews, old.bufferView)
             new == At(n.bufferViews, old.bufferView)
  <2>1. /\ At(n.accessors, index) = old /\ InRange(index, n.accessors)
        /\ old.bufferView \in Int /\ old.byteOffset \in Nat
        /\ InRange(old.bufferView, m.bufferViews) =>
              /\ old.bufferView + 1 \in DOMAIN m.bufferViews
              /\ view = m.bufferViews[old.bufferView + 1]
              /\ InRange(view.buffer, m.buffers)
              /\ view.byteOffset + old.byteOffset \in Nat
              /\ view.byteOffset + old.byteOffset < Len(At(m.buffers, view.buffer))
    BY <1>5, <1>11, AccessorIs
  <2>2. InRange(old.bufferView, n.bufferViews) <=> InRange(old.bufferView, m.bufferViews)
    BY <1>9 DEF InRange
  <2>3. new = n.bufferViews[old.bufferView + 1]
    BY DEF At
  <2> HIDE DEF old, view, new
  <2>4. ASSUME InRange(old.bufferView, m.bufferViews)
        PROVE  /\ InRange(view.buffer, m.buffers) /\ InRange(new.buffer, n.buffers)
               /\ At(n.buffers, new.buffer) = At(m.buffers, view.buffer)
               /\ new.byteOffset = view.byteOffset /\ new.byteLength = view.byteLength
               /\ view.byteOffset + old.byteOffset \in Nat
               /\ view.byteOffset + old.byteOffset < Len(At(m.buffers, view.buffer))
    <3>1. /\ new.buffer = moved(view.buffer) /\ view.buffer \in used
          /\ new.byteOffset = view.byteOffset /\ new.byteLength = view.byteLength
      BY <1>10, <2>1, <2>3, <2>4
    <3> QED BY <1>8, <2>1, <2>4, <3>1
  <2>5. SameSpot(m, n, index, index)
    BY <2>1, <2>2, <2>4 DEF SameSpot, old, view, new
  <2> QED BY <1>11, <2>5, SameReading
<1>12. ASSUME NEW v \in DOMAIN n.bufferViews PROVE ValidView(n, n.bufferViews[v])
  <2>1. /\ {"buffer", "byteOffset", "byteLength"} \subseteq DOMAIN n.bufferViews[v]
        /\ n.bufferViews[v].buffer = moved(m.bufferViews[v].buffer) /\ m.bufferViews[v].buffer \in used
        /\ n.bufferViews[v].byteOffset \in Nat /\ n.bufferViews[v].byteLength \in Nat
    BY <1>9, <1>10
  <2> QED BY <1>8, <2>1 DEF ValidView
<1>13. \A b \in DOMAIN n.buffers : IsSequence(n.buffers[b])
  <2> SUFFICES ASSUME NEW k \in DOMAIN n.buffers PROVE IsSequence(n.buffers[k])
    OBVIOUS
  <2>1. PICK b \in used : n.buffers[k] = At(m.buffers, b)
    BY <1>8
  <2>2. b + 1 \in DOMAIN m.buffers /\ n.buffers[k] = m.buffers[b + 1]
    BY <1>6, <2>1, ViewIs DEF At
  <2> QED BY <2>2 DEF ValidModel
<1>14. IsSequence(n.accessors)
  BY <1>5 DEF ValidModel, Lists
<1>15. \A kind \in {"accessors", "bufferViews", "buffers"} : IsSequence(n[kind])
  BY <1>8, <1>9, <1>14
<1>16. \A index \in Nat : ValidAccessor(m, index) =>
          ValidAccessor(n, index) /\ AccessorData(n, index) = AccessorData(m, index)
  BY <1>11
<1>17. DOMAIN n = DOMAIN m /\ n.meshes = m.meshes /\ \A kind \in SceneLists : n[kind] = m[kind]
  BY <1>2, <1>5
<1>18. /\ ValidModel(n) /\ Alike(m, n)
       /\ \A i \in DOMAIN m.meshes : \A j \in DOMAIN m.meshes[i] : Content(n, i, j) = Content(m, i, j)
  BY <1>12, <1>13, <1>15, <1>16, <1>17, SameShown
<1> QED BY <1>18 DEF n

\* Among the bytes that are kept, those that follow each other without a gap still do.
LEMMA CoveredMoves ==
    ASSUME NEW kept, IsFiniteSet(kept), kept \subseteq Nat, NEW first \in Nat, NEW further \in Nat,
           first..first + further - 1 \subseteq kept
    PROVE  MovedTo(kept, first + further) = MovedTo(kept, first) + further
<1> DEFINE Below == {p \in kept : p < first}
           Between == first..first + further - 1
           All == {p \in kept : p < first + further}
<1>1. All = Below \cup Between
  <2>1. ASSUME NEW p \in All PROVE p \in Below \cup Between
    <3>1. p \in Nat /\ p < first + further
      OBVIOUS
    <3> QED BY <3>1
  <2>2. ASSUME NEW p \in Below PROVE p \in All
    <3>1. p \in Nat /\ p < first /\ p \in kept
      OBVIOUS
    <3>2. p < first + further
      BY <3>1
    <3> QED BY <3>1, <3>2
  <2>3. ASSUME NEW p \in Between PROVE p \in All
    <3>1. p \in kept /\ p < first + further
      OBVIOUS
    <3> QED BY <3>1
  <2> QED BY <2>1, <2>2, <2>3
<1>2. Below \cap Between = {}
  <2> SUFFICES ASSUME NEW p \in Below, p \in Between PROVE FALSE
    OBVIOUS
  <2>1. p \in Nat /\ p < first /\ p >= first
    OBVIOUS
  <2> QED BY <2>1
<1>3. IsFiniteSet(Between) /\ Cardinality(Between) = further
  <2>1. /\ IsFiniteSet(Between)
        /\ Cardinality(Between) = IF first > first + further - 1 THEN 0
                                  ELSE (first + further - 1) - first + 1
    BY FS_Interval
  <2> QED BY <2>1
<1>4. IsFiniteSet(Below) /\ Cardinality(Below) \in Nat
  <2>1. Below \in SUBSET kept
    OBVIOUS
  <2> HIDE DEF Below
  <2> QED BY <2>1, FS_Subset, FS_CardinalityType
<1>5. MovedTo(kept, first) = Cardinality(Below) /\ MovedTo(kept, first + further) = Cardinality(All)
  BY DEF MovedTo
<1>6. Cardinality({}) = 0
  BY FS_EmptySet
<1> HIDE DEF Below, Between, All
<1>7. Cardinality(All) = Cardinality(Below) + Cardinality(Between) - Cardinality(Below \cap Between)
  BY <1>1, <1>3, <1>4, FS_Union
<1>8. Cardinality(Below \cap Between) = 0
  BY <1>2, <1>6
<1>9. Cardinality(All) = Cardinality(Below) + further
  BY <1>3, <1>4, <1>7, <1>8
<1> QED BY <1>5, <1>9

\* Without bytes that are in no view, however many go.
THEOREM CompactedIs ==
    ASSUME NEW m, ValidModel(m), NEW gone \in SUBSET Gaps(m)
    PROVE  LET n == Compacted(m, gone) IN
           /\ ValidModel(n)
           /\ Alike(m, n)
           /\ \A i \in DOMAIN m.meshes : \A j \in DOMAIN m.meshes[i] : Content(n, i, j) = Content(m, i, j)
<1> DEFINE n == Compacted(m, gone)
           kept(b) == KeptBytes(m, gone, b)
           moved(b, p) == MovedTo(kept(b), p)
<1>1. DOMAIN m = Lists \cup {"extensions", "scene"}
  BY DEF ValidModel
<1>2. /\ DOMAIN n = DOMAIN m
      /\ \A kind \in DOMAIN m : kind \notin {"buffers", "bufferViews"} => n[kind] = m[kind]
  BY DEF Compacted
<1>3. n.buffers = [b \in DOMAIN m.buffers |-> Keeping(m.buffers[b], kept(b - 1))]
  BY <1>1 DEF Compacted, Lists
<1>4. n.bufferViews = [v \in DOMAIN m.bufferViews |->
                          [m.bufferViews[v] EXCEPT
                             !.byteOffset = moved(m.bufferViews[v].buffer, m.bufferViews[v].byteOffset)]]
  BY <1>1 DEF Compacted, Lists
<1>5. /\ n.accessors = m.accessors /\ n.meshes = m.meshes
      /\ \A kind \in SceneLists : n[kind] = m[kind]
  BY <1>1, <1>2 DEF Lists, SceneLists
<1> HIDE DEF n
<1>6. ASSUME NEW b \in 0..Len(m.buffers) - 1
      PROVE  /\ b + 1 \in DOMAIN m.buffers /\ IsSequence(m.buffers[b + 1])
             /\ Len(m.buffers[b + 1]) \in Nat /\ At(m.buffers, b) = m.buffers[b + 1]
             /\ IsFiniteSet(kept(b)) /\ kept(b) \subseteq Nat
             /\ At(n.buffers, b) = Keeping(At(m.buffers, b), kept(b))
             /\ Keeps(At(n.buffers, b), At(m.buffers, b), kept(b))
             /\ \A p : MovedTo(kept(b), p) \in Nat
  <2>1. b + 1 \in DOMAIN m.buffers /\ At(m.buffers, b) = m.buffers[b + 1] /\ (b + 1) - 1 = b
    BY ViewIs DEF At
  <2>2. IsSequence(m.buffers[b + 1]) /\ Len(m.buffers[b + 1]) \in Nat
    BY <2>1, SequenceHas DEF ValidModel
  <2>3. kept(b) \in SUBSET (0..Len(m.buffers[b + 1]) - 1)
    BY <2>1 DEF KeptBytes
  <2>4. IsFiniteSet(0..Len(m.buffers[b + 1]) - 1)
    <3> DEFINE length == Len(m.buffers[b + 1])
               last == length - 1
    <3> HIDE DEF length
    <3>1. last \in Int
      BY <2>2 DEF length
    <3> HIDE DEF last
    <3>2. IsFiniteSet(0..last)
      BY <3>1, FS_Interval
    <3> QED BY <3>2 DEF last, length
  <2> HIDE DEF kept
  <2>5. IsFiniteSet(kept(b)) /\ kept(b) \subseteq Nat
    BY <2>2, <2>3, <2>4, FS_Subset
  <2>6. At(n.buffers, b) = Keeping(At(m.buffers, b), kept(b))
    BY <1>3, <2>1 DEF At
  <2>7. ASSUME NEW p PROVE MovedTo(kept(b), p) \in Nat
    <3>1. {u \in kept(b) : u < p} \in SUBSET kept(b)
      OBVIOUS
    <3>2. IsFiniteSet({u \in kept(b) : u < p})
      BY <2>5, <3>1, FS_Subset
    <3> QED BY <3>2, FS_CardinalityType DEF MovedTo
  <2> QED BY <2>1, <2>2, <2>5, <2>6, <2>7, KeepingIs
<1> HIDE DEF kept
<1>7. /\ IsSequence(n.buffers) /\ Len(n.buffers) = Len(m.buffers)
      /\ DOMAIN n.buffers = DOMAIN m.buffers
  <2>1. n.buffers = [b \in 1..Len(m.buffers) |-> n.buffers[b]]
    BY <1>3, ViewIs
  <2> QED BY <2>1, ViewIs, SequenceMade
<1>8. /\ IsSequence(n.bufferViews) /\ Len(n.bufferViews) = Len(m.bufferViews)
      /\ DOMAIN n.bufferViews = DOMAIN m.bufferViews
  <2>1. n.bufferViews = [v \in 1..Len(m.bufferViews) |-> n.bufferViews[v]]
    BY <1>4, ViewIs
  <2> QED BY <2>1, ViewIs, SequenceMade
<1>9. ASSUME NEW v \in DOMAIN m.bufferViews
      PROVE  LET view == m.bufferViews[v]  new == n.bufferViews[v]
             IN  /\ {"buffer", "byteOffset", "byteLength"} \subseteq DOMAIN new
                 /\ new.buffer = view.buffer /\ new.byteLength = view.byteLength
                 /\ new.byteOffset = moved(view.buffer, view.byteOffset)
                 /\ view.buffer \in 0..Len(m.buffers) - 1
                 /\ view.byteOffset \in Nat /\ view.byteLength \in Nat
  <2> DEFINE view == m.bufferViews[v]
             new == n.bufferViews[v]
  <2>1. new = [view EXCEPT !.byteOffset = moved(view.buffer, view.byteOffset)]
    BY <1>4
  <2>2. /\ {"buffer", "byteOffset", "byteLength"} \subseteq DOMAIN view
        /\ view.byteOffset \in Nat /\ view.byteLength \in Nat
        /\ view.buffer \in 0..Len(m.buffers) - 1
    BY ViewIs
  <2> HIDE DEF view, new, moved
  <2>3. /\ DOMAIN new = DOMAIN view /\ new.buffer = view.buffer
        /\ new.byteOffset = moved(view.buffer, view.byteOffset) /\ new.byteLength = view.byteLength
    BY <2>1, <2>2
  <2> QED BY <2>2, <2>3 DEF view, new
<1>10. ASSUME NEW index \in Nat, ValidAccessor(m, index)
       PROVE  ValidAccessor(n, index) /\ AccessorData(n, index) = AccessorData(m, index)
  <2> DEFINE old == At(m.accessors, index)
             view == At(m.bufferViews, old.bufferView)
             new == At(n.bufferViews, old.bufferView)
  <2>1. /\ At(n.accessors, index) = old /\ InRange(index, n.accessors)
        /\ old.bufferView \in Int /\ old.byteOffset \in Nat
        /\ InRange(old.bufferView, m.bufferViews) =>
              /\ old.bufferView + 1 \in DOMAIN m.bufferViews
              /\ view = m.bufferViews[old.bufferView + 1]
              /\ InRange(view.buffer, m.buffers)
              /\ view.byteOffset + old.byteOffset \in Nat
              /\ old.byteOffset < view.byteLength
              /\ view.byteOffset + old.byteOffset < Len(At(m.buffers, view.buffer))
    BY <1>5, <1>10, AccessorIs
  <2>2. InRange(old.bufferView, n.bufferViews) <=> InRange(old.bufferView, m.bufferViews)
    BY <1>8 DEF InRange
  <2>3. new = n.bufferViews[old.bufferView + 1]
    BY DEF At
  <2> HIDE DEF old, view, new
  <2>4. ASSUME InRange(old.bufferView, m.bufferViews)
        PROVE  LET oldAt == view.byteOffset + old.byteOffset
                   newAt == new.byteOffset + old.byteOffset
               IN  /\ InRange(view.buffer, m.buffers) /\ InRange(new.buffer, n.buffers)
                   /\ new.byteLength = view.byteLength
                   /\ oldAt \in Nat /\ newAt \in Nat
                   /\ newAt < Len(At(n.buffers, new.buffer))
                   /\ At(At(n.buffers, new.buffer), newAt) = At(At(m.buffers, view.buffer), oldAt)
    <3>1. PICK v \in DOMAIN m.bufferViews : v = old.bufferView + 1 /\ view = m.bufferViews[v] /\ new = n.bufferViews[v]
      BY <2>1, <2>3, <2>4
    <3>2. /\ new.buffer = view.buffer /\ new.byteLength = view.byteLength
          /\ new.byteOffset = moved(view.buffer, view.byteOffset)
          /\ view.buffer \in 0..Len(m.buffers) - 1
          /\ view.byteOffset \in Nat /\ view.byteLength \in Nat
      BY <1>9, <3>1
    <3>3. PICK b \in 0..Len(m.buffers) - 1 : b = view.buffer
      BY <3>2
    <3>4. PICK first \in Nat : first = view.byteOffset
      BY <3>2
    <3>5. PICK further \in Nat : further = old.byteOffset
      BY <2>1
    <3>6. /\ first + further \in Nat /\ further < view.byteLength
          /\ first + further < Len(At(m.buffers, b)) /\ Len(At(m.buffers, b)) \in Nat
      BY <1>6, <2>1, <2>4, <3>3, <3>4, <3>5
    <3>7. ASSUME NEW p \in first..first + further PROVE p \in kept(b)
      <4>1. p \in 0..Len(At(m.buffers, b)) - 1
        BY <3>6
      <4>2. Covers(view, <<b, p>>)
        BY <3>2, <3>3, <3>4, <3>6 DEF Covers
      <4>3. <<b, p>> \notin Gaps(m)
        BY <3>1, <4>2 DEF Gaps
      <4> QED BY <4>1, <4>3 DEF kept, KeptBytes
    <3>8. first..first + further - 1 \subseteq kept(b) /\ first + further \in kept(b)
      BY <3>7
    <3>9. IsFiniteSet(kept(b)) /\ kept(b) \subseteq Nat /\ MovedTo(kept(b), first) \in Nat
      BY <1>6
    <3>10. MovedTo(kept(b), first + further) = MovedTo(kept(b), first) + further
      BY <3>8, <3>9, CoveredMoves
    <3>11. Keeps(At(n.buffers, b), At(m.buffers, b), kept(b))
      BY <1>6
    <3>12. /\ InRange(MovedTo(kept(b), first + further), At(n.buffers, b))
           /\ At(At(n.buffers, b), MovedTo(kept(b), first + further)) = At(At(m.buffers, b), first + further)
      BY <3>8, <3>11 DEF Keeps
    <3>13. new.byteOffset + old.byteOffset = MovedTo(kept(b), first + further)
      BY <3>2, <3>3, <3>4, <3>5, <3>10
    <3>14. new.byteOffset + old.byteOffset \in Nat
      BY <3>9, <3>10, <3>13
    <3>15. InRange(view.buffer, m.buffers) /\ InRange(new.buffer, n.buffers)
      BY <1>7, <2>1, <2>4, <3>2 DEF InRange
    <3> QED BY <3>2, <3>3, <3>4, <3>5, <3>6, <3>12, <3>13, <3>14, <3>15 DEF InRange
  <2>5. SameSpot(m, n, index, index)
    BY <2>1, <2>2, <2>4 DEF SameSpot, old, view, new
  <2> QED BY <1>10, <2>5, SameReading
<1>11. ASSUME NEW v \in DOMAIN n.bufferViews PROVE ValidView(n, n.bufferViews[v])
  <2>1. /\ {"buffer", "byteOffset", "byteLength"} \subseteq DOMAIN n.bufferViews[v]
        /\ n.bufferViews[v].buffer \in 0..Len(m.buffers) - 1
        /\ n.bufferViews[v].byteLength \in Nat
        /\ n.bufferViews[v].byteOffset = moved(m.bufferViews[v].buffer, m.bufferViews[v].byteOffset)
        /\ m.bufferViews[v].buffer \in 0..Len(m.buffers) - 1
    BY <1>8, <1>9
  <2>2. n.bufferViews[v].byteOffset \in Nat
    BY <1>6, <2>1
  <2>3. InRange(n.bufferViews[v].buffer, n.buffers) /\ n.bufferViews[v].buffer \in Int
    BY <1>7, <2>1, ViewIs DEF InRange
  <2> QED BY <2>1, <2>2, <2>3 DEF ValidView
<1>12. \A b \in DOMAIN n.buffers : IsSequence(n.buffers[b])
  <2> SUFFICES ASSUME NEW b \in DOMAIN n.buffers PROVE IsSequence(n.buffers[b])
    OBVIOUS
  <2>1. b - 1 \in 0..Len(m.buffers) - 1 /\ n.buffers[b] = At(n.buffers, b - 1)
    BY <1>7, ViewIs DEF At
  <2> QED BY <1>6, <2>1 DEF Keeps
<1>13. IsSequence(n.accessors)
  BY <1>5 DEF ValidModel, Lists
<1>14. \A kind \in {"accessors", "bufferViews", "buffers"} : IsSequence(n[kind])
  BY <1>7, <1>8, <1>13
<1>15. \A index \in Nat : ValidAccessor(m, index) =>
          ValidAccessor(n, index) /\ AccessorData(n, index) = AccessorData(m, index)
  BY <1>10
<1>16. DOMAIN n = DOMAIN m /\ n.meshes = m.meshes /\ \A kind \in SceneLists : n[kind] = m[kind]
  BY <1>2, <1>5
<1>17. /\ ValidModel(n) /\ Alike(m, n)
       /\ \A i \in DOMAIN m.meshes : \A j \in DOMAIN m.meshes[i] : Content(n, i, j) = Content(m, i, j)
  BY <1>11, <1>12, <1>14, <1>15, <1>16, SameShown
<1> QED BY <1>17 DEF n

\* The extensions carry none of what the host reads.
LEMMA ExtensionsGone ==
    ASSUME NEW m, NEW rest, ValidModel(m)
    PROVE  LET n == [m EXCEPT !.extensions = rest] IN
           /\ ValidModel(n)
           /\ n.meshes = m.meshes
           /\ Alike(m, n)
           /\ \A i \in DOMAIN m.meshes : \A j \in DOMAIN m.meshes[i] : Content(n, i, j) = Content(m, i, j)
<1> DEFINE n == [m EXCEPT !.extensions = rest]
<1>1. DOMAIN m = Lists \cup {"extensions", "scene"}
  BY DEF ValidModel
<1>2. DOMAIN n = DOMAIN m /\ \A kind \in Lists \cup SceneLists : n[kind] = m[kind]
  BY <1>1 DEF Lists, SceneLists
<1> HIDE DEF n
<1>3. /\ n.accessors = m.accessors /\ n.bufferViews = m.bufferViews /\ n.buffers = m.buffers
      /\ n.meshes = m.meshes
  BY <1>2 DEF Lists
<1>4. \A index : /\ DataIfAny(n, index) = DataIfAny(m, index)
                 /\ ValidAccessor(n, index) <=> ValidAccessor(m, index)
  BY <1>3, SameData
<1>5. Alike(m, n)
  BY <1>2, <1>3, <1>4, SameScene DEF Alike
<1>6. \A i \in DOMAIN m.meshes : \A j \in DOMAIN m.meshes[i] : Content(n, i, j) = Content(m, i, j)
  BY <1>3, <1>4 DEF Content
<1>7. ValidModel(n)
  <2>1. \A i \in DOMAIN m.meshes : \A j \in DOMAIN m.meshes[i] : ValidPrimitive(n, m.meshes[i][j])
    BY <1>4, PrimitiveValid DEF ValidPrimitive
  <2>2. \A kind \in Lists : IsSequence(n[kind])
    BY <1>2 DEF ValidModel
  <2>3. \A v \in DOMAIN n.bufferViews : ValidView(n, n.bufferViews[v])
    BY <1>3 DEF ValidModel, ValidView
  <2> QED BY <1>1, <1>2, <1>3, <2>1, <2>2, <2>3 DEF ValidModel
<1> QED BY <1>3, <1>5, <1>6, <1>7 DEF n

-----------------------------------------------------------------------------
(* A primitive's attributes by what their accessors give, whose names the operations change. *)

ContentOf(m, attributes) == [name \in DOMAIN attributes |-> DataIfAny(m, attributes[name])]

\* Renaming does the same to the attributes and to their data.
LEMMA RenamedContent ==
    ASSUME NEW m, NEW attributes, NEW names, Named(attributes), Fresh(attributes, names)
    PROVE  ContentOf(m, RenamedAttributes(attributes, names))
             = RenamedAttributes(ContentOf(m, attributes), names)
<1> DEFINE content == ContentOf(m, attributes)
           renamed == RenamedAttributes(attributes, names)
           other == RenamedAttributes(content, names)
<1>1. DOMAIN content = DOMAIN attributes /\ Named(content) /\ Fresh(content, names)
  BY DEF ContentOf, Named, Fresh, Overlays
<1>2. /\ DOMAIN renamed = {names[overlay] : overlay \in DOMAIN names}
                            \cup (DOMAIN attributes \ DOMAIN names)
      /\ \A overlay \in DOMAIN names : renamed[names[overlay]] = attributes[overlay]
      /\ \A name \in DOMAIN attributes \ DOMAIN names : renamed[name] = attributes[name]
  BY RenamedIs
<1>3. /\ DOMAIN other = {names[overlay] : overlay \in DOMAIN names}
                            \cup (DOMAIN content \ DOMAIN names)
      /\ \A overlay \in DOMAIN names : other[names[overlay]] = content[overlay]
      /\ \A name \in DOMAIN content \ DOMAIN names : other[name] = content[name]
  BY <1>1, RenamedIs
<1>4. DOMAIN names \subseteq DOMAIN attributes
  BY DEF Fresh, Overlays
<1>5. other = [name \in DOMAIN other |-> other[name]]
  BY DEF RenamedAttributes
<1>6. \A name \in DOMAIN attributes : content[name] = DataIfAny(m, attributes[name])
  BY DEF ContentOf
<1> HIDE DEF content, renamed, other
<1>7. \A name \in DOMAIN renamed : DataIfAny(m, renamed[name]) = other[name]
  BY <1>1, <1>2, <1>3, <1>4, <1>6
<1>8. ContentOf(m, renamed) = [name \in DOMAIN other |-> other[name]]
  BY <1>1, <1>2, <1>3, <1>7 DEF ContentOf
<1> QED BY <1>5, <1>8 DEF content, renamed, other

\* So does restoring.
LEMMA RestoredContent ==
    ASSUME NEW m, NEW attributes, NEW names
    PROVE  ContentOf(m, RestoredAttributes(attributes, names))
             = RestoredAttributes(ContentOf(m, attributes), names)
<1> DEFINE content == ContentOf(m, attributes)
           found == {overlay \in DOMAIN names : names[overlay] \in DOMAIN attributes}
           restored == (DOMAIN attributes \ {names[overlay] : overlay \in found}) \cup found
<1>1. DOMAIN content = DOMAIN attributes
  BY DEF ContentOf
<1>2. \A name \in DOMAIN attributes : content[name] = DataIfAny(m, attributes[name])
  BY DEF ContentOf
<1> HIDE DEF content
<1>3. RestoredAttributes(attributes, names) = [name \in restored |->
         IF name \in found THEN attributes[names[name]] ELSE attributes[name]]
  BY DEF RestoredAttributes
<1>4. RestoredAttributes(content, names) = [name \in restored |->
         IF name \in found THEN content[names[name]] ELSE content[name]]
  BY <1>1 DEF RestoredAttributes
<1>5. \A name \in restored :
         DataIfAny(m, IF name \in found THEN attributes[names[name]] ELSE attributes[name])
           = IF name \in found THEN content[names[name]] ELSE content[name]
  BY <1>2
<1> HIDE DEF found, restored
<1>6. ContentOf(m, RestoredAttributes(attributes, names)) = RestoredAttributes(content, names)
  BY <1>3, <1>4, <1>5 DEF ContentOf
<1> QED BY <1>6 DEF content

\* Restored attributes refer to accessors that are there, as they did before.
LEMMA RestoredFit ==
    ASSUME NEW m, NEW attributes, NEW names, NEW own,
           Fit(m, attributes), Named(own), DOMAIN names \subseteq DOMAIN own
    PROVE  Fit(m, RestoredAttributes(attributes, names))
<1> DEFINE found == {overlay \in DOMAIN names : names[overlay] \in DOMAIN attributes}
           places == (DOMAIN attributes \ {names[overlay] : overlay \in found}) \cup found
           restored == RestoredAttributes(attributes, names)
<1>1. /\ DOMAIN restored = places
      /\ \A name \in places :
            restored[name] = IF name \in found THEN attributes[names[name]] ELSE attributes[name]
  BY DEF RestoredAttributes
<1>2. found \subseteq DOMAIN own
  OBVIOUS
<1>3. IsFiniteSet(found) /\ \A name \in found : name[2] \in Nat
  BY <1>2, FS_Subset DEF Named
<1>4. IsFiniteSet(DOMAIN attributes) /\ \A name \in DOMAIN attributes : name[2] \in Nat
  BY DEF Fit, Named
<1>5. places \in SUBSET (DOMAIN attributes \cup found)
  OBVIOUS
<1>6. IsFiniteSet(places)
  <2>1. IsFiniteSet(DOMAIN attributes \cup found)
    BY <1>3, <1>4, FS_Union
  <2> HIDE DEF found, places
  <2> QED BY <1>5, <2>1, FS_Subset
<1>7. \A name \in places : \E old \in DOMAIN attributes : restored[name] = attributes[old]
  <2> SUFFICES ASSUME NEW name \in places
               PROVE  \E old \in DOMAIN attributes : restored[name] = attributes[old]
    OBVIOUS
  <2>1. CASE name \in found
    <3>1. names[name] \in DOMAIN attributes /\ restored[name] = attributes[names[name]]
      BY <1>1, <2>1
    <3> QED BY <3>1
  <2>2. CASE name \notin found
    BY <1>1, <2>2
  <2> QED BY <2>1, <2>2
<1> HIDE DEF restored
<1>8. Named(restored)
  BY <1>1, <1>3, <1>4, <1>6 DEF Named
<1>9. Fit(m, restored)
  <2> HIDE DEF found, places
  <2> QED BY <1>1, <1>7, <1>8 DEF Fit
<1> QED BY <1>9 DEF restored

\* As many things seen as attributes, since each has its name.
LEMMA PicturedCount ==
    ASSUME NEW content, IsFiniteSet(DOMAIN content)
    PROVE  Cardinality(Pictured(content)) = Cardinality(DOMAIN content)
<1> DEFINE f == [name \in DOMAIN content |-> <<name, content[name], content[name]>>]
<1>1. \A one, other \in DOMAIN content : f[one] = f[other] => one = other
  OBVIOUS
<1>2. DOMAIN f = DOMAIN content /\ IsInjective(f)
  BY <1>1 DEF IsInjective
<1>3. {f[name] : name \in DOMAIN f} = Pictured(content)
  BY DEF Pictured
<1> HIDE DEF f
<1> QED BY <1>2, <1>3, Counted

\* What the file holds after the renaming, against what the model had.
LEMMA WrittenIs ==
    ASSUME NEW own, NEW names, Named(own), Fresh(own, names)
    PROVE  LET was == Pictured(own)  written == Pictured(RenamedAttributes(own, names)) IN
           /\ Cardinality(written) = Cardinality(was)
           /\ \A seen \in was :
                 IF seen[1][1] # "_CESIUMOVERLAY_" THEN seen \in written
                 ELSE \E other \in written : /\ other[1][1] = "TEXCOORD_"
                                            /\ other[2] = seen[2]
                                            /\ \A kept \in was : kept[1] # other[1]
<1> DEFINE renamed == RenamedAttributes(own, names)
           was == Pictured(own)
           written == Pictured(renamed)
           one(content, name) == <<name, content[name], content[name]>>
<1>1. /\ DOMAIN renamed = {names[overlay] : overlay \in DOMAIN names}
                            \cup (DOMAIN own \ DOMAIN names)
      /\ \A overlay \in DOMAIN names : renamed[names[overlay]] = own[overlay]
      /\ \A name \in DOMAIN own \ DOMAIN names : renamed[name] = own[name]
      /\ Named(renamed)
      /\ Cardinality(DOMAIN renamed) = Cardinality(DOMAIN own)
  BY RenamedIs
<1> HIDE DEF renamed
<1>2. Cardinality(written) = Cardinality(was)
  BY <1>1, PicturedCount DEF Named
<1>3. \A content : Pictured(content) = {one(content, name) : name \in DOMAIN content}
  BY DEF Pictured
<1>4. ASSUME NEW name \in DOMAIN own, name \notin DOMAIN names
      PROVE  one(own, name) \in written
  BY <1>1, <1>3, <1>4
<1>5. ASSUME NEW overlay \in DOMAIN names
      PROVE  LET other == one(renamed, names[overlay]) IN
             /\ other \in written
             /\ other[1][1] = "TEXCOORD_"
             /\ other[2] = own[overlay]
             /\ \A kept \in was : kept[1] # other[1]
  <2> DEFINE other == one(renamed, names[overlay])
  <2>1. names[overlay] \in DOMAIN renamed /\ other \in written
    BY <1>1, <1>3
  <2>2. other[1] = names[overlay] /\ other[2] = own[overlay]
    BY <1>1
  <2>3. names[overlay][1] = "TEXCOORD_" /\ names[overlay] \notin DOMAIN own
    BY DEF Fresh
  <2>4. \A kept \in was : kept[1] \in DOMAIN own
    BY <1>3
  <2> HIDE DEF other, was, written
  <2>5. \A kept \in was : kept[1] # other[1]
    BY <2>2, <2>3, <2>4
  <2>6. other[1][1] = "TEXCOORD_"
    BY <2>2, <2>3
  <2> QED BY <2>1, <2>2, <2>5, <2>6 DEF other
<1>6. ASSUME NEW seen \in was
      PROVE  IF seen[1][1] # "_CESIUMOVERLAY_" THEN seen \in written
             ELSE \E other \in written : /\ other[1][1] = "TEXCOORD_"
                                        /\ other[2] = seen[2]
                                        /\ \A kept \in was : kept[1] # other[1]
  <2>1. PICK name \in DOMAIN own : seen = one(own, name)
    BY <1>3
  <2>2. seen[1] = name /\ seen[2] = own[name]
    BY <2>1
  <2>3. name \in DOMAIN names <=> name[1] = "_CESIUMOVERLAY_"
    BY DEF Fresh, Overlays
  <2>4. CASE name \in DOMAIN names
    <3>1. PICK other : /\ other \in written
                       /\ other[1][1] = "TEXCOORD_"
                       /\ other[2] = own[name]
                       /\ \A kept \in was : kept[1] # other[1]
      BY <1>5, <2>4
    <3> HIDE DEF was, written, one
    <3> QED BY <2>2, <2>3, <2>4, <3>1
  <2>5. CASE name \notin DOMAIN names
    BY <1>4, <2>1, <2>2, <2>3, <2>5
  <2> QED BY <2>4, <2>5
<1>7. /\ Cardinality(written) = Cardinality(was)
      /\ \A seen \in was :
            IF seen[1][1] # "_CESIUMOVERLAY_" THEN seen \in written
            ELSE \E other \in written : /\ other[1][1] = "TEXCOORD_"
                                       /\ other[2] = seen[2]
                                       /\ \A kept \in was : kept[1] # other[1]
  BY <1>2, <1>6
<1> QED BY <1>7 DEF renamed

-----------------------------------------------------------------------------
(* The inductive invariant. *)

\* The attributes without the feature ids.
Without(content) == Restrict(content, {name \in DOMAIN content : name[1] # "_FEATURE_ID_"})

\* What is left of a primitive's attributes once the feature ids are removed, if they are.
Kept(content) == IF stripped THEN Without(content) ELSE content

\* The attributes a primitive has between the calls: during a write, those the restoration
\* will bring back.
Own(i, j) ==
    IF phase = "idle" THEN Content(model, i, j)
    ELSE RestoredAttributes(Content(model, i, j), renames[<<i, j>>])

\* The model is still the one the host knows.
FromFile(read) ==
    /\ ValidModel(read)
    /\ known = Seen(read)
    /\ Alike(read, model)
    /\ \A i \in DOMAIN read.meshes : \A j \in DOMAIN read.meshes[i] :
          Own(i, j) = Kept(Content(read, i, j))

\* During a write the names are those given to the primitive's own attributes, which the host
\* saw before.
InWrite ==
    /\ DOMAIN before.primitives = {i - 1 : i \in DOMAIN model.meshes}
    /\ \A i \in DOMAIN model.meshes :
          DOMAIN before.primitives[i - 1] = {j - 1 : j \in DOMAIN model.meshes[i]}
    /\ \A i \in DOMAIN model.meshes : \A j \in DOMAIN model.meshes[i] :
          /\ Fresh(Own(i, j), renames[<<i, j>>])
          /\ Content(model, i, j) = RenamedAttributes(Own(i, j), renames[<<i, j>>])
          /\ before.primitives[i - 1][j - 1].attributes = Pictured(Own(i, j))
          /\ Named(Own(i, j))

IInv ==
    /\ phase \in {"idle", "renamed", "collapsed", "written"}
    /\ stripped \in BOOLEAN
    /\ model = NoModel => phase = "idle" /\ ~stripped
    /\ model # NoModel => ValidModel(model) /\ \E read : FromFile(read)
    /\ phase # "idle" => InWrite
    /\ GlbComplete

\* A valid model is not the null pointer.
LEMMA ModelThere ==
    ASSUME NEW m, ValidModel(m)
    PROVE  m # NoModel
<1>1. DOMAIN NoModel = {"none"}
  BY DEF NoModel
<1>2. "meshes" \in DOMAIN m
  BY DEF ValidModel, Lists
<1> QED BY <1>1, <1>2

\* The content has the attributes' names.
LEMMA ContentIs ==
    ASSUME NEW m, ValidModel(m), NEW i \in DOMAIN m.meshes, NEW j \in DOMAIN m.meshes[i]
    PROVE  /\ Content(m, i, j) = ContentOf(m, m.meshes[i][j].attributes)
           /\ Content(m, i, j) = [name \in DOMAIN Content(m, i, j) |-> Content(m, i, j)[name]]
           /\ DOMAIN Content(m, i, j) = DOMAIN m.meshes[i][j].attributes
           /\ Named(Content(m, i, j))
<1>1. Fit(m, m.meshes[i][j].attributes)
  BY AttributesFit
<1> QED BY <1>1 DEF Content, ContentOf, Fit, Named

\* The places are those of the primitives.
LEMMA InPlaces ==
    ASSUME NEW i \in DOMAIN model.meshes, NEW j \in DOMAIN model.meshes[i]
    PROVE  /\ <<i, j>> \in Places
           /\ Attributes(<<i, j>>) = model.meshes[i][j].attributes
<1> DEFINE In(k) == {<<k, l>> : l \in DOMAIN model.meshes[k]}
<1>1. Places = UNION {In(k) : k \in DOMAIN model.meshes}
  BY DEF Places
<1>2. <<i, j>> \in In(i)
  OBVIOUS
<1> HIDE DEF In
<1>3. <<i, j>> \in Places
  BY <1>1, <1>2
<1> QED BY <1>3 DEF Attributes

\* ReplacedIs, for the model at hand.
LEMMA WithAttributesIs ==
    ASSUME NEW given, ValidModel(model),
           \A i \in DOMAIN model.meshes : \A j \in DOMAIN model.meshes[i] :
              Fit(model, given[<<i, j>>])
    PROVE  /\ ValidModel(WithAttributes(given))
           /\ Alike(model, WithAttributes(given))
           /\ \A i \in DOMAIN model.meshes : \A j \in DOMAIN model.meshes[i] :
                 Content(WithAttributes(given), i, j) = ContentOf(model, given[<<i, j>>])
<1> DEFINE n == WithAttributes(given)
<1>1. n = Replaced(model, given)
  BY DEF WithAttributes, Replaced
<1>2. /\ ValidModel(n) /\ Alike(model, n)
      /\ \A i \in DOMAIN model.meshes : \A j \in DOMAIN model.meshes[i] :
            n.meshes[i][j].attributes = given[<<i, j>>]
      /\ \A index : DataIfAny(n, index) = DataIfAny(model, index)
  BY <1>1, ReplacedIs
<1> HIDE DEF n
<1>3. \A i \in DOMAIN model.meshes : \A j \in DOMAIN model.meshes[i] :
         Content(n, i, j) = ContentOf(model, given[<<i, j>>])
  BY <1>2 DEF Content, ContentOf
<1> QED BY <1>2, <1>3 DEF n

-----------------------------------------------------------------------------
(* One lemma per step. *)

\* A step that leaves the primitives' own attributes alone.
LEMMA StillFromFile ==
    ASSUME NEW read, FromFile(read), ValidModel(model), Alike(model, model'),
           stripped' = stripped, known' = known,
           \A i \in DOMAIN model.meshes : \A j \in DOMAIN model.meshes[i] :
              Own(i, j) = Kept(Content(read, i, j))
                 => (Own(i, j) = Kept(Content(read, i, j)))'
    PROVE  FromFile(read)'
<1>1. Alike(read, model')
  BY AlikeTransitive DEF FromFile
<1>2. \A i \in DOMAIN read.meshes : \A j \in DOMAIN read.meshes[i] :
         (Own(i, j) = Kept(Content(read, i, j)))'
  BY DEF FromFile, Alike
<1> QED BY <1>1, <1>2 DEF FromFile

\* GlbComplete of a file and of what the host saw before it.
Matched(was, written) ==
    /\ Cardinality(written) = Cardinality(was)
    /\ \A seen \in was :
          IF seen[1][1] # "_CESIUMOVERLAY_" THEN seen \in written
          ELSE \E other \in written : /\ other[1][1] = "TEXCOORD_"
                                     /\ other[2] = seen[2]
                                     /\ \A kept \in was : kept[1] # other[1]

Complete(file, then) ==
    \A i \in DOMAIN then.primitives : \A j \in DOMAIN then.primitives[i] :
       Matched(then.primitives[i][j].attributes, file.primitives[i][j].attributes)

\* GlbComplete by that operator, now and after a step.
LEMMA GlbCompleteIs ==
    /\ GlbComplete <=> (glb # NoModel => Complete(glb, before))
    /\ GlbComplete' <=> (glb' # NoModel => Complete(glb', before'))
<1>1. GlbComplete <=> (glb # NoModel => Complete(glb, before))
  BY DEF GlbComplete, Complete, Matched
<1>2. GlbComplete' <=> (glb' # NoModel => Complete(glb', before'))
  BY DEF GlbComplete, Complete, Matched
<1> QED BY <1>1, <1>2

\* It stays while the file and what was seen before stay.
LEMMA SameGlb ==
    ASSUME GlbComplete, UNCHANGED <<glb, before>> PROVE GlbComplete'
BY GlbCompleteIs

\* What the host has just seen is what it knows.
LEMMA KnownAnew ==
    ASSUME ValidModel(model'), phase' = "idle", ~stripped', known' = Seen(model')
    PROVE  \E read : FromFile(read)'
<1>1. PICK read : read = model'
  OBVIOUS
<1>2. Alike(read, model')
  BY <1>1 DEF Alike
<1>3. \A i, j : Own(i, j)' = Content(read, i, j)
  BY <1>1 DEF Own
<1>4. \A i, j : Kept(Content(read, i, j))' = Content(read, i, j)
  BY DEF Kept
<1>5. FromFile(read)'
  BY <1>1, <1>2, <1>3, <1>4 DEF FromFile
<1> QED BY <1>5

\* Wherever a write gives up, what is left is a model, which the host sees anew.
LEMMA GivenUp ==
    ASSUME NEW where, ValidModel(model'), Abandoned(where), GlbComplete'
    PROVE  IInv'
<1>1. phase' = "idle" /\ ~stripped' /\ stripped' \in BOOLEAN /\ known' = Seen(model')
  BY DEF Abandoned
<1> QED BY <1>1, KnownAnew, ModelThere DEF IInv

\* A model just read is the file's.
LEMMA ReadStep ==
    ASSUME IInv, Read PROVE IInv'
<1>1. ValidModel(model')
  BY ModelsAssumption DEF Read
<1>2. phase' = "idle" /\ ~stripped' /\ known' = Seen(model')
  BY DEF Read, IInv
<1>3. \E read : FromFile(read)'
  BY <1>1, <1>2, KnownAnew
<1>4. GlbComplete'
  BY SameGlb DEF Read, IInv
<1>5. stripped' \in BOOLEAN
  BY DEF Read, IInv
<1> QED BY <1>1, <1>2, <1>3, <1>4, <1>5, ModelThere DEF IInv

\* The write begins: names fresh for the attributes, what the host sees remembered.
LEMMA RenameStep ==
    ASSUME IInv, RenameOverlays PROVE IInv'
<1>1. /\ model # NoModel /\ phase = "idle" /\ phase' = "renamed"
      /\ stripped' = stripped /\ known' = known
      /\ before' = Seen(model) /\ glb' = NoModel
  BY DEF RenameOverlays, WriteBegins
<1>2. PICK orders \in Orders :
         /\ renames' = [place \in Places |-> TexCoordNames(Attributes(place), orders[place])]
         /\ model' = WithAttributes([place \in Places |-> Renamed(place, orders[place])])
  BY DEF RenameOverlays
<1> DEFINE given == [place \in Places |-> Renamed(place, orders[place])]
<1>12. model' = WithAttributes(given)
  BY <1>2
<1>13. \A place \in Places : orders[place] \in SetToSeqs(Overlays(Attributes(place)))
  BY DEF Orders
<1>3. ValidModel(model) /\ \E read : FromFile(read)
  BY <1>1 DEF IInv
<1> HIDE DEF given
<1>4. ASSUME NEW i \in DOMAIN model.meshes, NEW j \in DOMAIN model.meshes[i]
      PROVE  LET attributes == model.meshes[i][j].attributes  names == renames'[<<i, j>>] IN
             /\ Fit(model, attributes) /\ Named(attributes)
             /\ Fresh(attributes, names)
             /\ given[<<i, j>>] = RenamedAttributes(attributes, names)
             /\ Fit(model, given[<<i, j>>])
  <2> DEFINE attributes == model.meshes[i][j].attributes
             names == renames'[<<i, j>>]
  <2>1. <<i, j>> \in Places /\ Attributes(<<i, j>>) = attributes
    BY InPlaces
  <2>2. Fit(model, attributes) /\ Named(attributes)
    BY <1>3, AttributesFit DEF Fit
  <2>3. names = TexCoordNames(attributes, orders[<<i, j>>])
    BY <1>2, <2>1
  <2>4. orders[<<i, j>>] \in SetToSeqs(Overlays(attributes))
    BY <1>13, <2>1
  <2>5. given[<<i, j>>] = RenamedAttributes(attributes, names)
    BY <2>1, <2>3 DEF given, Renamed
  <2> HIDE DEF attributes, names
  <2>6. Fresh(attributes, names)
    BY <2>2, <2>3, <2>4, TexCoordNamesFresh
  <2>7. Fit(model, given[<<i, j>>])
    <3>1. DOMAIN names \subseteq DOMAIN attributes /\ \A overlay \in DOMAIN names : names[overlay][2] \in Nat
      BY <2>6 DEF Fresh, Overlays
    <3> QED BY <2>2, <2>5, <3>1, RenamedFit
  <2> QED BY <2>2, <2>5, <2>6, <2>7 DEF attributes, names
<1>5. /\ ValidModel(model') /\ Alike(model, model')
      /\ \A i \in DOMAIN model.meshes : \A j \in DOMAIN model.meshes[i] :
            Content(model', i, j) = ContentOf(model, given[<<i, j>>])
  BY <1>12, <1>3, <1>4, WithAttributesIs
<1>6. ASSUME NEW i \in DOMAIN model.meshes, NEW j \in DOMAIN model.meshes[i]
      PROVE  LET own == Content(model, i, j)  names == renames'[<<i, j>>] IN
             /\ Named(own) /\ Fresh(own, names)
             /\ Content(model', i, j) = RenamedAttributes(own, names)
             /\ Own(i, j)' = own
             /\ Own(i, j) = own
  <2> DEFINE own == Content(model, i, j)
             names == renames'[<<i, j>>]
             attributes == model.meshes[i][j].attributes
  <2>1. /\ own = ContentOf(model, attributes) /\ DOMAIN own = DOMAIN attributes /\ Named(own)
        /\ own = [name \in DOMAIN own |-> own[name]]
    BY <1>3, ContentIs
  <2>2. Named(attributes) /\ Fresh(attributes, names)
    BY <1>4
  <2>3. Content(model', i, j) = ContentOf(model, RenamedAttributes(attributes, names))
    BY <1>4, <1>5
  <2>4. Own(i, j)' = RestoredAttributes(Content(model', i, j), names)
    BY <1>1 DEF Own
  <2>5. Own(i, j) = own
    BY <1>1 DEF Own
  <2> HIDE DEF own, names, attributes
  <2>6. Content(model', i, j) = RenamedAttributes(own, names)
    BY <2>1, <2>2, <2>3, RenamedContent
  <2>7. Fresh(own, names)
    BY <2>1, <2>2 DEF Fresh, Overlays
  <2>8. Own(i, j)' = own
    BY <2>1, <2>4, <2>6, <2>7, RestoredIs
  <2> QED BY <2>1, <2>5, <2>6, <2>7, <2>8 DEF own, names
<1>7. InWrite'
  <2>1. /\ DOMAIN before'.primitives = {i - 1 : i \in DOMAIN model.meshes}
        /\ \A i \in DOMAIN model.meshes :
              DOMAIN before'.primitives[i - 1] = {j - 1 : j \in DOMAIN model.meshes[i]}
    BY <1>1, <1>3, SeenShape
  <2>2. /\ DOMAIN model'.meshes = DOMAIN model.meshes
        /\ \A i \in DOMAIN model.meshes : DOMAIN model'.meshes[i] = DOMAIN model.meshes[i]
    BY <1>5 DEF Alike
  <2>3. ASSUME NEW i \in DOMAIN model.meshes, NEW j \in DOMAIN model.meshes[i]
        PROVE  before'.primitives[i - 1][j - 1].attributes = Pictured(Content(model, i, j))
    BY <1>1, <1>3, SeenIs
  <2> QED BY <1>6, <2>1, <2>2, <2>3 DEF InWrite
<1>8. \E read : FromFile(read)'
  <2>1. PICK read : FromFile(read)
    BY <1>3
  <2>2. ASSUME NEW i \in DOMAIN model.meshes, NEW j \in DOMAIN model.meshes[i]
        PROVE  Own(i, j) = Kept(Content(read, i, j))
                 => (Own(i, j) = Kept(Content(read, i, j)))'
    <3>1. Own(i, j)' = Own(i, j)
      BY <1>6
    <3> QED BY <1>1, <3>1 DEF Kept
  <2> QED BY <1>1, <1>3, <1>5, <2>1, <2>2, StillFromFile
<1>9. model' # NoModel
  BY <1>5, ModelThere
<1>10. GlbComplete'
  BY <1>1 DEF GlbComplete
<1>11. phase' \in {"idle", "renamed", "collapsed", "written"} /\ stripped' \in BOOLEAN
  BY <1>1 DEF IInv
<1> QED BY <1>5, <1>7, <1>8, <1>9, <1>10, <1>11 DEF IInv

\* A step within a write that moves nothing among the primitives' attributes.
LEMMA WriteGoesOn ==
    ASSUME IInv, phase # "idle", phase' \in {"collapsed", "written"},
           UNCHANGED <<renames, stripped, known, before>>,
           ValidModel(model'), Alike(model, model'), GlbComplete',
           \A i \in DOMAIN model.meshes : \A j \in DOMAIN model.meshes[i] :
              Content(model', i, j) = Content(model, i, j)
    PROVE  IInv'
<1>1. /\ ValidModel(model) /\ InWrite /\ \E read : FromFile(read)
      /\ stripped' \in BOOLEAN
  BY DEF IInv
<1>2. ASSUME NEW i \in DOMAIN model.meshes, NEW j \in DOMAIN model.meshes[i]
      PROVE  Own(i, j)' = Own(i, j)
  <2>1. Own(i, j) = RestoredAttributes(Content(model, i, j), renames[<<i, j>>])
    BY DEF Own
  <2>2. Own(i, j)' = RestoredAttributes(Content(model', i, j), renames'[<<i, j>>])
    BY DEF Own
  <2> QED BY <2>1, <2>2
<1>3. InWrite'
  <2>1. /\ DOMAIN model'.meshes = DOMAIN model.meshes
        /\ \A i \in DOMAIN model.meshes : DOMAIN model'.meshes[i] = DOMAIN model.meshes[i]
    BY DEF Alike
  <2> QED BY <1>1, <1>2, <2>1 DEF InWrite
<1>4. \E read : FromFile(read)'
  <2>1. PICK read : FromFile(read)
    BY <1>1
  <2>2. ASSUME NEW i \in DOMAIN model.meshes, NEW j \in DOMAIN model.meshes[i]
        PROVE  Own(i, j) = Kept(Content(read, i, j))
                 => (Own(i, j) = Kept(Content(read, i, j)))'
    BY <1>2 DEF Kept
  <2> QED BY <1>1, <2>1, <2>2, StillFromFile
<1> QED BY <1>1, <1>3, <1>4, ModelThere DEF IInv

\* Collapsing is a step that only moves bytes.
LEMMA CollapseStep ==
    ASSUME IInv, CollapseToSingleBuffer PROVE IInv'
<1>1. /\ phase = "renamed" /\ phase' = "collapsed" /\ model' = Collapsed(model)
      /\ UNCHANGED <<renames, glb, stripped, known, before>>
  BY DEF CollapseToSingleBuffer
<1>2. ValidModel(model)
  BY <1>1 DEF IInv
<1>3. /\ ValidModel(model') /\ Alike(model, model')
      /\ \A i \in DOMAIN model.meshes : \A j \in DOMAIN model.meshes[i] :
            Content(model', i, j) = Content(model, i, j)
  BY <1>1, <1>2, CollapsedIs
<1>4. GlbComplete'
  BY <1>1, SameGlb DEF IInv
<1> QED BY <1>1, <1>3, <1>4, WriteGoesOn

\* The file is the model as it is renamed: none of what was seen before lacks.
LEMMA SerializeStep ==
    ASSUME IInv, Serialize PROVE IInv'
<1>1. /\ phase = "collapsed" /\ phase' = "written" /\ glb' \in {Seen(model), NoModel}
      /\ UNCHANGED <<model, renames, stripped, known, before>>
  BY DEF Serialize
<1>2. ValidModel(model) /\ InWrite
  BY <1>1 DEF IInv
<1>3. ASSUME NEW i \in DOMAIN model.meshes, NEW j \in DOMAIN model.meshes[i]
      PROVE  Matched(before.primitives[i - 1][j - 1].attributes,
                     Seen(model).primitives[i - 1][j - 1].attributes)
  <2> DEFINE own == Own(i, j)
             names == renames[<<i, j>>]
             renamed == RenamedAttributes(own, names)
  <2>1. /\ Named(own) /\ Fresh(own, names) /\ Content(model, i, j) = renamed
        /\ before.primitives[i - 1][j - 1].attributes = Pictured(own)
    BY <1>2 DEF InWrite
  <2>2. Seen(model).primitives[i - 1][j - 1].attributes = Pictured(renamed)
    BY <1>2, <2>1, SeenIs
  <2> HIDE DEF own, names
  <2>3. Matched(Pictured(own), Pictured(renamed))
    BY <2>1, WrittenIs DEF Matched
  <2> QED BY <2>1, <2>2, <2>3
<1>4. Complete(Seen(model), before)
  <2> SUFFICES ASSUME NEW k \in DOMAIN before.primitives, NEW l \in DOMAIN before.primitives[k]
               PROVE  Matched(before.primitives[k][l].attributes, Seen(model).primitives[k][l].attributes)
    BY DEF Complete
  <2>1. PICK i \in DOMAIN model.meshes : k = i - 1
    BY <1>2 DEF InWrite
  <2>2. PICK j \in DOMAIN model.meshes[i] : l = j - 1
    BY <1>2, <2>1 DEF InWrite
  <2> QED BY <1>3, <2>1, <2>2
<1>5. GlbComplete'
  BY <1>1, <1>4, GlbCompleteIs
<1>6. Alike(model, model')
  BY <1>1 DEF Alike
<1> QED BY <1>1, <1>2, <1>5, <1>6, WriteGoesOn

\* A write that gives up after the renaming leaves the model as it is then.
LEMMA WriteThrowsStep ==
    ASSUME IInv, WriteThrows PROVE IInv'
<1>1. phase # "idle" /\ UNCHANGED <<model, glb, before>> /\ Abandoned("writing")
  BY DEF WriteThrows
<1>2. ValidModel(model')
  BY <1>1 DEF IInv
<1>3. GlbComplete'
  BY <1>1, SameGlb DEF IInv
<1> QED BY <1>1, <1>2, <1>3, GivenUp

\* One that gives up during it leaves attributes that refer to accessors as they did.
LEMMA RenameThrowsStep ==
    ASSUME IInv, RenameThrows PROVE IInv'
<1>1. model # NoModel /\ glb' = NoModel /\ Abandoned("renaming")
  BY DEF RenameThrows, WriteBegins
<1>2. ValidModel(model)
  BY <1>1 DEF IInv
<1>3. PICK orders \in Orders, at \in Places :
      \E erased \in SUBSET Overlays(Attributes(at)), count \in 0 .. Len(orders[at]) :
         model' = WithAttributes([place \in Places |->
               CASE Earlier(place, at) -> Renamed(place, orders[place])
                 [] place = at -> HalfRenamed(at, orders[at], erased, count)
                 [] OTHER -> Attributes(place)])
  BY DEF RenameThrows
<1>4. PICK erased \in SUBSET Overlays(Attributes(at)), count \in 0 .. Len(orders[at]) :
         model' = WithAttributes([place \in Places |->
               CASE Earlier(place, at) -> Renamed(place, orders[place])
                 [] place = at -> HalfRenamed(at, orders[at], erased, count)
                 [] OTHER -> Attributes(place)])
  BY <1>3
<1> DEFINE given == [place \in Places |->
               CASE Earlier(place, at) -> Renamed(place, orders[place])
                 [] place = at -> HalfRenamed(at, orders[at], erased, count)
                 [] OTHER -> Attributes(place)]
<1>5. \A place \in Places : orders[place] \in SetToSeqs(Overlays(Attributes(place)))
  BY DEF Orders
<1>6. ASSUME NEW i \in DOMAIN model.meshes, NEW j \in DOMAIN model.meshes[i]
      PROVE  Fit(model, given[<<i, j>>])
  <2> DEFINE place == <<i, j>>
             order == orders[place]
             names == TexCoordNames(Attributes(place), order)
             renamed == {order[k] : k \in 1 .. count}
             left == DOMAIN Attributes(place) \ (erased \ renamed)
  <2>1. place \in Places /\ Fit(model, Attributes(place)) /\ Named(Attributes(place))
    BY <1>2, InPlaces, AttributesFit DEF Fit
  <2>2. order \in SetToSeqs(Overlays(Attributes(place)))
    BY <1>5, <2>1
  <2>3. Fresh(Attributes(place), names)
    BY <2>1, <2>2, TexCoordNamesFresh
  <2>4. /\ DOMAIN names = Overlays(Attributes(place))
        /\ Overlays(Attributes(place)) \subseteq DOMAIN Attributes(place)
        /\ \A overlay \in DOMAIN names : names[overlay][2] \in Nat
    BY <2>3 DEF Fresh, Overlays
  <2>5. Fit(model, Renamed(place, order))
    <3> HIDE DEF place, order, names
    <3> QED BY <2>1, <2>4, RenamedFit DEF Renamed, names
  <2>6. CASE place = at
    <3>1. IsFiniteSet(Overlays(Attributes(place)))
      BY <2>1, <2>4, FS_Subset DEF Named
    <3>2. /\ DOMAIN order = 1..Cardinality(Overlays(Attributes(place)))
          /\ Cardinality(Overlays(Attributes(place))) \in Nat
          /\ \A k \in DOMAIN order : order[k] \in Overlays(Attributes(place))
      BY <2>2, <3>1, Enumeration
    <3>3. Len(order) = Cardinality(Overlays(Attributes(place)))
      BY <2>2, <3>2 DEF SetToSeqs
    <3>4. renamed \subseteq Overlays(Attributes(place))
      <4>1. \A k \in 1..count : k \in DOMAIN order
        BY <2>6, <3>2, <3>3
      <4> QED BY <3>2, <4>1
    <3> DEFINE some == Restrict(Attributes(place), left)
               few == Restrict(names, renamed)
    <3>5. Fit(model, some)
      BY <2>1, RestrictedFits
    <3>6. DOMAIN some = left /\ DOMAIN few = renamed /\ \A overlay \in renamed : few[overlay] = names[overlay]
      BY DEF Restrict
    <3>7. renamed \subseteq left
      BY <2>4, <3>4
    <3>8. \A overlay \in DOMAIN few : few[overlay][2] \in Nat
      BY <2>4, <3>4, <3>6
    <3>9. HalfRenamed(at, orders[at], erased, count) = RenamedAttributes(some, few)
      BY <2>6 DEF HalfRenamed
    <3> HIDE DEF some, few, left, renamed
    <3>10. Fit(model, RenamedAttributes(some, few))
      BY <3>5, <3>6, <3>7, <3>8, RenamedFit
    <3>11. Fit(model, HalfRenamed(at, orders[at], erased, count))
      BY <3>9, <3>10
    <3> QED BY <2>1, <2>5, <2>6, <3>11
  <2> HIDE DEF place, order
  <2>7. \/ given[place] = Renamed(place, order)
        \/ given[place] = Attributes(place)
        \/ place = at
    BY <2>1 DEF order
  <2>8. CASE place # at
    <3> HIDE DEF given
    <3>1. Fit(model, given[place])
      BY <2>1, <2>5, <2>7, <2>8
    <3> QED BY <3>1 DEF place
  <2> QED BY <2>6, <2>8
<1> HIDE DEF given
<1>7. ValidModel(WithAttributes(given))
  BY <1>2, <1>6, WithAttributesIs
<1>8. ValidModel(model')
  BY <1>4, <1>7 DEF given
<1>9. GlbComplete'
  BY <1>1 DEF GlbComplete
<1> QED BY <1>1, <1>8, <1>9, GivenUp

\* So does one that gives up while the names are restored.
LEMMA RestoreThrowsStep ==
    ASSUME IInv, RestoreThrows PROVE IInv'
<1>1. phase # "idle" /\ glb' = NoModel /\ Abandoned("restoring")
  BY DEF RestoreThrows
<1>2. ValidModel(model) /\ InWrite
  BY <1>1 DEF IInv
<1>10. PICK at \in Places : \E lost \in DOMAIN renames[at] :
         model' = WithAttributes([place \in Places |->
               CASE Earlier(place, at) -> Restored(place)
                 [] place = at -> HalfRestored(at, lost)
                 [] OTHER -> Attributes(place)])
  BY DEF RestoreThrows
<1>3. PICK lost \in DOMAIN renames[at] :
         model' = WithAttributes([place \in Places |->
               CASE Earlier(place, at) -> Restored(place)
                 [] place = at -> HalfRestored(at, lost)
                 [] OTHER -> Attributes(place)])
  BY <1>10
<1> DEFINE given == [place \in Places |->
               CASE Earlier(place, at) -> Restored(place)
                 [] place = at -> HalfRestored(at, lost)
                 [] OTHER -> Attributes(place)]
<1>4. ASSUME NEW i \in DOMAIN model.meshes, NEW j \in DOMAIN model.meshes[i]
      PROVE  Fit(model, given[<<i, j>>])
  <2> DEFINE place == <<i, j>>
             names == renames[place]
             own == Own(i, j)
  <2>1. place \in Places /\ Fit(model, Attributes(place))
    BY <1>2, InPlaces, AttributesFit
  <2>2. Named(own) /\ DOMAIN names \subseteq DOMAIN own
    BY <1>2 DEF InWrite, Fresh, Overlays
  <2> HIDE DEF own, place, names
  <2>3. Fit(model, Restored(place))
    BY <2>1, <2>2, RestoredFit DEF Restored, names
  <2>4. Fit(model, HalfRestored(place, lost))
    <3> DEFINE done == {overlay \in DOMAIN names : names[overlay][2] < names[lost][2]}
               few == Restrict(names, done)
               restored == RestoredAttributes(Attributes(place), few)
               left == DOMAIN restored \ {names[lost]}
    <3>1. DOMAIN few \subseteq DOMAIN own
      BY <2>2 DEF Restrict
    <3> HIDE DEF few
    <3>2. Fit(model, restored)
      BY <2>1, <2>2, <3>1, RestoredFit
    <3>3. HalfRestored(place, lost) = Restrict(restored, left)
      BY DEF HalfRestored, few, names
    <3>4. left \subseteq DOMAIN restored
      OBVIOUS
    <3> HIDE DEF restored, left
    <3> QED BY <3>2, <3>3, <3>4, RestrictedFits
  <2>5. \/ given[place] = Restored(place)
        \/ given[place] = HalfRestored(place, lost)
        \/ given[place] = Attributes(place)
    BY <2>1
  <2> HIDE DEF given
  <2>6. Fit(model, given[place])
    BY <2>1, <2>3, <2>4, <2>5
  <2> QED BY <2>6 DEF place
<1> HIDE DEF given
<1>5. ValidModel(WithAttributes(given))
  BY <1>2, <1>4, WithAttributesIs
<1>6. ValidModel(model')
  BY <1>3, <1>5 DEF given
<1>7. GlbComplete'
  BY <1>1 DEF GlbComplete
<1> QED BY <1>1, <1>6, <1>7, GivenUp

\* The restoration brings the primitive's own attributes back.
LEMMA RestoreStep ==
    ASSUME IInv, RestoreOverlays PROVE IInv'
<1> DEFINE given == [place \in Places |-> Restored(place)]
<1>1. /\ phase # "idle" /\ phase' = "idle" /\ model' = WithAttributes(given)
      /\ UNCHANGED <<glb, stripped, known, before>>
  BY DEF RestoreOverlays
<1>2. ValidModel(model) /\ InWrite /\ \E read : FromFile(read)
  BY <1>1 DEF IInv
<1>3. ASSUME NEW i \in DOMAIN model.meshes, NEW j \in DOMAIN model.meshes[i]
      PROVE  /\ given[<<i, j>>] = RestoredAttributes(model.meshes[i][j].attributes, renames[<<i, j>>])
             /\ Fit(model, given[<<i, j>>])
  <2> DEFINE attributes == model.meshes[i][j].attributes
             names == renames[<<i, j>>]
             own == Own(i, j)
  <2>1. given[<<i, j>>] = RestoredAttributes(attributes, names)
    BY InPlaces DEF Restored
  <2>2. Fit(model, attributes)
    BY <1>2, AttributesFit
  <2>3. Named(own) /\ DOMAIN names \subseteq DOMAIN own
    BY <1>2 DEF InWrite, Fresh, Overlays
  <2> HIDE DEF attributes, names, own, given
  <2>4. Fit(model, given[<<i, j>>])
    BY <2>1, <2>2, <2>3, RestoredFit
  <2> QED BY <2>1, <2>4 DEF attributes, names
<1> HIDE DEF given
<1>4. /\ ValidModel(model') /\ Alike(model, model')
      /\ \A i \in DOMAIN model.meshes : \A j \in DOMAIN model.meshes[i] :
            Content(model', i, j) = ContentOf(model, given[<<i, j>>])
  BY <1>1, <1>2, <1>3, WithAttributesIs
<1>5. ASSUME NEW i \in DOMAIN model.meshes, NEW j \in DOMAIN model.meshes[i]
      PROVE  Own(i, j)' = Own(i, j)
  <2>1. Content(model, i, j) = ContentOf(model, model.meshes[i][j].attributes)
    BY <1>2, ContentIs
  <2>2. Content(model', i, j) = RestoredAttributes(Content(model, i, j), renames[<<i, j>>])
    BY <1>3, <1>4, <2>1, RestoredContent
  <2>3. Own(i, j)' = Content(model', i, j)
    BY <1>1 DEF Own
  <2>4. Own(i, j) = RestoredAttributes(Content(model, i, j), renames[<<i, j>>])
    BY <1>1 DEF Own
  <2> QED BY <2>2, <2>3, <2>4
<1>6. \E read : FromFile(read)'
  <2>1. PICK read : FromFile(read)
    BY <1>2
  <2>2. ASSUME NEW i \in DOMAIN model.meshes, NEW j \in DOMAIN model.meshes[i]
        PROVE  Own(i, j) = Kept(Content(read, i, j))
                 => (Own(i, j) = Kept(Content(read, i, j)))'
    BY <1>1, <1>5 DEF Kept
  <2> QED BY <1>1, <1>2, <1>4, <2>1, <2>2, StillFromFile
<1>7. GlbComplete'
  BY <1>1, SameGlb DEF IInv
<1>8. stripped' \in BOOLEAN
  BY <1>1 DEF IInv
<1> QED BY <1>1, <1>4, <1>6, <1>7, <1>8, ModelThere DEF IInv

\* The attributes without the feature ids fit as they did with them.
LEMMA WithoutFits ==
    ASSUME NEW m, NEW attributes, Fit(m, attributes)
    PROVE  /\ Fit(m, Without(attributes))
           /\ ContentOf(m, Without(attributes)) = Without(ContentOf(m, attributes))
<1>1. Fit(m, Without(attributes))
  BY RestrictedFits DEF Without
<1>2. ContentOf(m, Without(attributes)) = Without(ContentOf(m, attributes))
  BY DEF Without, ContentOf, Restrict
<1> QED BY <1>1, <1>2

\* The removal drops the feature ids from the own attributes and nothing else.
LEMMA StripStep ==
    ASSUME IInv, StripFeatureIds PROVE IInv'
<1> DEFINE given == [place \in Places |-> Without(Attributes(place))]
           bare == WithAttributes(given)
           gone == {"EXT_mesh_features", "EXT_structural_metadata"}
           rest == bare.extensions \ gone
           closed == [bare EXCEPT !.extensions = rest]
           packed == WithoutUnusedAccessors(closed)
           viewed == WithoutUnusedViews(packed)
           cleaned == WithoutUnusedBuffers(viewed)
<1>1. /\ model # NoModel /\ phase = "idle" /\ phase' = "idle" /\ stripped' = TRUE
      /\ \E bytes \in SUBSET Gaps(cleaned) : model' = Compacted(cleaned, bytes)
      /\ UNCHANGED <<glb, known, before>>
  BY DEF StripFeatureIds, Without
<1>2. ValidModel(model) /\ \E read : FromFile(read)
  BY <1>1 DEF IInv
<1>3. ASSUME NEW i \in DOMAIN model.meshes, NEW j \in DOMAIN model.meshes[i]
      PROVE  LET attributes == model.meshes[i][j].attributes IN
             /\ given[<<i, j>>] = Without(attributes)
             /\ Fit(model, given[<<i, j>>])
             /\ ContentOf(model, given[<<i, j>>]) = Without(Content(model, i, j))
  <2> DEFINE attributes == model.meshes[i][j].attributes
  <2>1. given[<<i, j>>] = Without(attributes)
    BY InPlaces
  <2>2. Fit(model, attributes)
    BY <1>2, AttributesFit
  <2>3. Content(model, i, j) = ContentOf(model, attributes)
    BY <1>2, ContentIs
  <2> HIDE DEF given, attributes
  <2>4. /\ Fit(model, given[<<i, j>>])
        /\ ContentOf(model, given[<<i, j>>]) = Without(Content(model, i, j))
    BY <2>1, <2>2, <2>3, WithoutFits
  <2> QED BY <2>1, <2>4 DEF attributes
<1> HIDE DEF given
<1>4. /\ ValidModel(bare) /\ Alike(model, bare)
      /\ \A i \in DOMAIN model.meshes : \A j \in DOMAIN model.meshes[i] :
            Content(bare, i, j) = ContentOf(model, given[<<i, j>>])
  BY <1>2, <1>3, WithAttributesIs
<1> HIDE DEF bare
<1>5. /\ ValidModel(closed) /\ Alike(bare, closed)
      /\ \A i \in DOMAIN bare.meshes : \A j \in DOMAIN bare.meshes[i] :
            Content(closed, i, j) = Content(bare, i, j)
  BY <1>4, ExtensionsGone
<1> HIDE DEF closed
<1>6. /\ ValidModel(packed) /\ Alike(closed, packed)
      /\ \A i \in DOMAIN closed.meshes : \A j \in DOMAIN closed.meshes[i] :
            Content(packed, i, j) = Content(closed, i, j)
  BY <1>5, PackedIs
<1> HIDE DEF packed
<1>7. /\ ValidModel(viewed) /\ Alike(packed, viewed)
      /\ \A i \in DOMAIN packed.meshes : \A j \in DOMAIN packed.meshes[i] :
            Content(viewed, i, j) = Content(packed, i, j)
  BY <1>6, ViewsPackedIs
<1> HIDE DEF viewed
<1>14. /\ ValidModel(cleaned) /\ Alike(viewed, cleaned)
       /\ \A i \in DOMAIN viewed.meshes : \A j \in DOMAIN viewed.meshes[i] :
             Content(cleaned, i, j) = Content(viewed, i, j)
  BY <1>7, BuffersPackedIs
<1> HIDE DEF cleaned
<1>15. /\ ValidModel(model') /\ Alike(cleaned, model')
       /\ \A i \in DOMAIN cleaned.meshes : \A j \in DOMAIN cleaned.meshes[i] :
             Content(model', i, j) = Content(cleaned, i, j)
  BY <1>1, <1>14, CompactedIs
<1>16. Alike(model, model')
  <2>1. Alike(model, packed)
    BY <1>4, <1>5, <1>6, AlikeTransitive
  <2> QED BY <1>7, <1>14, <1>15, <2>1, AlikeTransitive
<1>8. ASSUME NEW i \in DOMAIN model.meshes, NEW j \in DOMAIN model.meshes[i]
      PROVE  Own(i, j)' = Without(Own(i, j))
  <2>1. /\ i \in DOMAIN bare.meshes /\ j \in DOMAIN bare.meshes[i]
        /\ i \in DOMAIN closed.meshes /\ j \in DOMAIN closed.meshes[i]
        /\ i \in DOMAIN packed.meshes /\ j \in DOMAIN packed.meshes[i]
        /\ i \in DOMAIN viewed.meshes /\ j \in DOMAIN viewed.meshes[i]
        /\ i \in DOMAIN cleaned.meshes /\ j \in DOMAIN cleaned.meshes[i]
    BY <1>4, <1>5, <1>6, <1>7, <1>14 DEF Alike
  <2>2. Content(model', i, j) = Without(Content(model, i, j))
    <3>1. Content(bare, i, j) = Without(Content(model, i, j))
      BY <1>3, <1>4
    <3>2. Content(closed, i, j) = Content(bare, i, j)
      BY <1>5, <2>1
    <3>3. Content(packed, i, j) = Content(closed, i, j)
      BY <1>6, <2>1
    <3>4. Content(viewed, i, j) = Content(packed, i, j)
      BY <1>7, <2>1
    <3>5. Content(cleaned, i, j) = Content(viewed, i, j)
      BY <1>14, <2>1
    <3>6. Content(model', i, j) = Content(cleaned, i, j)
      BY <1>15, <2>1
    <3> QED BY <3>1, <3>2, <3>3, <3>4, <3>5, <3>6
  <2>3. Own(i, j)' = Content(model', i, j) /\ Own(i, j) = Content(model, i, j)
    BY <1>1 DEF Own
  <2> QED BY <2>2, <2>3
<1>9. PICK read : FromFile(read)
  BY <1>2
<1>10. ASSUME NEW i \in DOMAIN model.meshes, NEW j \in DOMAIN model.meshes[i]
       PROVE  (Own(i, j) = Kept(Content(read, i, j)))'
  <2> DEFINE own == Own(i, j)
             content == Content(read, i, j)
  <2>1. i \in DOMAIN read.meshes /\ j \in DOMAIN read.meshes[i]
    BY <1>9 DEF FromFile, Alike
  <2>2. own = Kept(content)
    BY <1>9, <2>1 DEF FromFile
  <2>3. Own(i, j)' = Without(own) /\ Kept(content)' = Without(content)
    BY <1>1, <1>8 DEF Kept
  <2> HIDE DEF own, content
  <2>4. Without(Without(content)) = Without(content)
    BY DEF Without, Restrict
  <2>5. Without(Kept(content)) = Without(content)
    BY <2>4 DEF Kept
  <2> QED BY <2>2, <2>3, <2>5 DEF content
<1>11. FromFile(read)'
  <2>1. Alike(read, model')
    BY <1>16, <1>9, AlikeTransitive DEF FromFile
  <2>2. \A i \in DOMAIN read.meshes : \A j \in DOMAIN read.meshes[i] :
           (Own(i, j) = Kept(Content(read, i, j)))'
    BY <1>9, <1>10 DEF FromFile, Alike
  <2> QED BY <1>1, <1>9, <2>1, <2>2 DEF FromFile
<1>12. GlbComplete'
  BY <1>1, SameGlb DEF IInv
<1>13. stripped' \in BOOLEAN
  BY <1>1 DEF IInv
<1> QED BY <1>1, <1>15, <1>11, <1>12, <1>13, ModelThere DEF IInv

-----------------------------------------------------------------------------
(* The theorems. *)

\* Whatever is done with a model, it stays the file's as IInv says.
THEOREM Inductive == Spec => []IInv
<1>1. ASSUME Init PROVE IInv
  BY <1>1 DEF Init, IInv, GlbComplete
<1>2. ASSUME IInv, [Next]_vars PROVE IInv'
  <2>1. CASE Read BY <1>2, <2>1, ReadStep
  <2>2. CASE StripFeatureIds BY <1>2, <2>2, StripStep
  <2>3. CASE RenameOverlays BY <1>2, <2>3, RenameStep
  <2>4. CASE CollapseToSingleBuffer BY <1>2, <2>4, CollapseStep
  <2>5. CASE WriteThrows BY <1>2, <2>5, WriteThrowsStep
  <2>6. CASE Serialize BY <1>2, <2>6, SerializeStep
  <2>7. CASE RestoreOverlays BY <1>2, <2>7, RestoreStep
  <2>8. CASE RenameThrows BY <1>2, <2>8, RenameThrowsStep
  <2>9. CASE RestoreThrows BY <1>2, <2>9, RestoreThrowsStep
  <2>10. CASE UNCHANGED vars
    <3>1. UNCHANGED <<model, phase, renames, glb, stripped, known, before>>
      BY <2>10 DEF vars
    <3>2. GlbComplete'
      BY <1>2, <3>1, SameGlb DEF IInv
    <3>3. \A i, j : Own(i, j)' = Own(i, j)
      BY <3>1 DEF Own
    <3>4. ASSUME NEW read PROVE FromFile(read) => FromFile(read)'
      BY <3>1, <3>3 DEF FromFile, Kept
    <3>5. InWrite => InWrite'
      BY <3>1, <3>3 DEF InWrite
    <3> QED BY <1>2, <3>1, <3>2, <3>4, <3>5 DEF IInv
  <2> QED BY <1>2, <2>1, <2>2, <2>3, <2>4, <2>5, <2>6, <2>7, <2>8, <2>9, <2>10 DEF Next
<1> QED BY <1>1, <1>2, PTL DEF Spec

\* The invariant shows what ModelKept asks.
LEMMA KeptShown ==
    ASSUME IInv PROVE ModelKept
<1> SUFFICES ASSUME model # NoModel, phase = "idle" PROVE
       /\ Seen(model).scene = known.scene
       /\ \A k \in DOMAIN known.primitives : \A l \in DOMAIN known.primitives[k] :
             LET now == Seen(model).primitives[k][l]  was == known.primitives[k][l] IN
             /\ now.attributes = Expected(was)
             /\ now.indices = was.indices
             /\ now.mode = was.mode /\ now.material = was.material
  BY DEF ModelKept
<1>1. ValidModel(model)
  BY DEF IInv
<1>2. PICK read : FromFile(read)
  BY DEF IInv
<1>3. ValidModel(read) /\ known = Seen(read) /\ Alike(read, model)
  BY <1>2 DEF FromFile
<1>4. ASSUME NEW k \in DOMAIN known.primitives, NEW l \in DOMAIN known.primitives[k]
      PROVE  LET now == Seen(model).primitives[k][l]  was == known.primitives[k][l] IN
             /\ now.attributes = Expected(was)
             /\ now.indices = was.indices
             /\ now.mode = was.mode /\ now.material = was.material
  <2>1. PICK i \in DOMAIN read.meshes : k = i - 1
    BY <1>3, SeenShape
  <2>2. PICK j \in DOMAIN read.meshes[i] : l = j - 1
    BY <1>3, <2>1, SeenShape
  <2>3. i \in DOMAIN model.meshes /\ j \in DOMAIN model.meshes[i]
    BY <1>3 DEF Alike
  <2> DEFINE now == Seen(model).primitives[k][l]
             was == known.primitives[k][l]
             own == Content(model, i, j)
             content == Content(read, i, j)
  <2>4. /\ now.attributes = Pictured(own)
        /\ now.indices = DataIfAny(model, model.meshes[i][j].indices)
        /\ now.mode = model.meshes[i][j].mode /\ now.material = model.meshes[i][j].material
    BY <1>1, <2>1, <2>2, <2>3, SeenIs
  <2>5. /\ was.attributes = Pictured(content)
        /\ was.indices = DataIfAny(read, read.meshes[i][j].indices)
        /\ was.mode = read.meshes[i][j].mode /\ was.material = read.meshes[i][j].material
    BY <1>3, <2>1, <2>2, SeenIs
  <2>6. Named(own) /\ Named(content)
    BY <1>1, <1>3, <2>3, ContentIs
  <2>7. own = Kept(content)
    BY <1>2, <2>1, <2>2 DEF FromFile, Own
  <2> HIDE DEF now, was, own, content
  <2>8. now.indices = was.indices /\ now.mode = was.mode /\ now.material = was.material
    BY <1>3, <2>4, <2>5 DEF Alike
  <2>9. Expected(was) = Pictured(Kept(content))
    <3>1. CASE stripped
      <4>1. Expected(was) = {seen \in Pictured(content) : seen[1][1] # "_FEATURE_ID_"}
        BY <2>5, <3>1 DEF Expected
      <4>2. Kept(content) = Without(content)
        BY <3>1 DEF Kept
      <4>3. {seen \in Pictured(content) : seen[1][1] # "_FEATURE_ID_"} = Pictured(Without(content))
        <5> DEFINE one(name) == <<name, content[name], content[name]>>
        <5>1. \A name : one(name)[1] = name
          OBVIOUS
        <5>2. DOMAIN Without(content) = {name \in DOMAIN content : name[1] # "_FEATURE_ID_"}
          BY DEF Without, Restrict
        <5>3. \A name \in DOMAIN Without(content) : Without(content)[name] = content[name]
          BY DEF Without, Restrict
        <5>4. Pictured(content) = {one(name) : name \in DOMAIN content}
          BY DEF Pictured
        <5>5. Pictured(Without(content)) = {one(name) : name \in DOMAIN Without(content)}
          BY <5>3 DEF Pictured
        <5> HIDE DEF one
        <5> QED BY <5>1, <5>2, <5>4, <5>5
      <4> QED BY <4>1, <4>2, <4>3
    <3>2. CASE ~stripped
      BY <2>5, <3>2 DEF Expected, Kept
    <3> QED BY <3>1, <3>2
  <2>10. now.attributes = Expected(was)
    BY <2>4, <2>7, <2>9
  <2> QED BY <2>8, <2>10 DEF now, was
<1>5. Seen(model).scene = known.scene
  BY <1>3 DEF Alike
<1> QED BY <1>4, <1>5

\* Between the calls every attribute the host read, or found after the last write that threw, is
\* there with its data, and no other, unless the feature ids were removed.
THEOREM ModelKeptAlways == Spec => []ModelKept
<1>1. IInv => ModelKept
  BY KeptShown
<1> QED BY <1>1, Inductive, PTL

\* No attribute is lost from a written file, and none takes the place of another.
THEOREM GlbCompleteAlways == Spec => []GlbComplete
<1>1. IInv => GlbComplete
  BY DEF IInv
<1> QED BY <1>1, Inductive, PTL

\* The getters against glTF, node by node.
LEMMA PlacedNode ==
    ASSUME NEW m, NEW n
    PROVE  Placement(At(m.nodes, n)) =
             IF NodeMatrix(m, n).explicit /\ NodeMatrix(m, n).out # Identity THEN NodeMatrix(m, n).out
             ELSE IF NodeMatrix(m, n).explicit THEN <<NoTranslation, NoRotation, NoScale>>
             ELSE <<NodeTranslation(m, n), NodeRotation(m, n), NodeScale(m, n)>>
<1>1. Identity \in Seq(Int) /\ Len(Identity) = 16
  BY DEF Identity
<1> QED BY <1>1 DEF Placement, NodeMatrix, NodeTranslation, NodeRotation, NodeScale, Sized,
          NoTranslation, NoRotation, NoScale

\* The getters place every node where glTF does, whatever the file says of it.
THEOREM NodesPlacedAlways == Spec => []NodesPlaced
<1>1. NodesPlaced
  BY PlacedNode DEF NodesPlaced
<1> QED BY <1>1, PTL
=============================================================================
