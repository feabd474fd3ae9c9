----------------------------- MODULE Tree_proof -----------------------------
(***************************************************************************)
(* What holds of a .Manifest with folders whatever commands it has gone    *)
(* through: it is the text of a tree that no folder of which has a name    *)
(* twice, and as a table of paths it changes as FileIndex says.            *)
(*                                                                         *)
(* The operators of Tree are recursive functions.  For each there is a     *)
(* lemma <operator>Def, which says that it has the value its equation      *)
(* gives; the others are proved from these by induction on the path or on  *)
(* the depth of the layer.                                                 *)
(***************************************************************************)
EXTENDS Tree, FdStruct_proof

-----------------------------------------------------------------------------
(* Paths, nodes, and recursion over them.                                  *)

(* The first name of a path, and the path below it.                        *)
LEMMA TailOfPath ==
  ASSUME NEW p \in AnyPath
  PROVE  /\ p \in Seq(Name) /\ Len(p) \in Nat \ {0}
         /\ Head(p) = p[1] /\ p[1] \in Name
         /\ Len(p) # 1 => Tail(p) \in AnyPath /\ Len(Tail(p)) = Len(p) - 1
  <1>1. p \in Seq(Name) /\ Len(p) \in Nat \ {0} /\ Head(p) = p[1] /\ p[1] \in Name
    BY DEF AnyPath
  <1>2. Tail(p) \in Seq(Name) /\ Len(Tail(p)) = Len(p) - 1
    BY DEF AnyPath
  <1>3. Len(p) # 1 => Tail(p) # <<>>
    BY <1>1, <1>2
  <1>4. QED BY <1>1, <1>2, <1>3 DEF AnyPath

(* A path is its first name and the rest.                                  *)
LEMMA PathIs ==
  ASSUME NEW p \in AnyPath
  PROVE  /\ p = <<p[1]>> \o Tail(p)
         /\ Len(p) = 1 => p = <<p[1]>>
  BY DEF AnyPath

(* What holds of a path when it holds of the path below its first name     *)
(* holds of every path.                                                    *)
LEMMA ByPath ==
  ASSUME NEW S, \A p \in AnyPath : (Len(p) # 1 => Tail(p) \in S) => p \in S
  PROVE  AnyPath \subseteq S
  <1> DEFINE T == {n \in Nat : \A p \in AnyPath : Len(p) = n => p \in S}
  <1>1. 0 \in T
    BY TailOfPath
  <1>2. ASSUME NEW n \in Nat, n \in T
        PROVE  n + 1 \in T
    <2>1. SUFFICES ASSUME NEW p \in AnyPath, Len(p) = n + 1 PROVE p \in S
      OBVIOUS
    <2>2. Len(p) # 1 => Tail(p) \in AnyPath /\ Len(Tail(p)) = n
      <3>1. Len(p) # 1 => Tail(p) \in AnyPath /\ Len(Tail(p)) = Len(p) - 1
        BY TailOfPath
      <3>2. Len(p) - 1 = n
        BY <2>1
      <3>3. QED BY <3>1, <3>2
    <2>3. QED BY <2>2, <1>2
  <1>3. Nat \subseteq T
    <2> HIDE DEF T
    <2>1. QED BY <1>1, <1>2, FromZero
  <1>4. QED BY <1>3, TailOfPath

ReadsTail(F, V) ==
  \A p \in AnyPath : \A g, h \in [AnyPath -> V] :
    (Len(p) # 1 => g[Tail(p)] = h[Tail(p)]) => F[p][g] = F[p][h]

(* A definition by recursion along a path has a solution, ...              *)
LEMMA PathRecursion ==
  ASSUME NEW V, V # {}, NEW F \in Recursion(AnyPath, V), ReadsTail(F, V)
  PROVE  \E f : IsSolution(f, F, AnyPath, V)
  <1> DEFINE rank == [p \in AnyPath |-> Len(p)]
  <1>1. Decreases(rank, F, AnyPath, V)
    <2>1. rank \in [AnyPath -> Nat]
      BY TailOfPath
    <2>2. ASSUME NEW p \in AnyPath, NEW g \in [AnyPath -> V], NEW h \in [AnyPath -> V],
                 \A q \in AnyPath : rank[q] < rank[p] => g[q] = h[q]
          PROVE  F[p][g] = F[p][h]
      <3>1. Len(p) # 1 => Tail(p) \in AnyPath /\ rank[Tail(p)] < rank[p]
        BY TailOfPath
      <3>2. Len(p) # 1 => g[Tail(p)] = h[Tail(p)]
        BY <3>1, <2>2
      <3>3. QED BY <3>2 DEF ReadsTail
    <2> HIDE DEF rank
    <2>3. QED BY <2>1, <2>2 DEF Decreases
  <1> HIDE DEF rank
  <1>2. QED BY <1>1, RecursionHasSolution

ReadsKids(F, V) ==
  \A l \in AnyLayer : \A g, h \in [AnyLayer -> V] :
    (\A i \in DOMAIN l : g[l[i].kids] = h[l[i].kids]) => F[l][g] = F[l][h]

(* ... one by recursion over the children of a layer, ...                  *)
LEMMA LayerRecursion ==
  ASSUME NEW V, V # {}, NEW F \in Recursion(AnyLayer, V), ReadsKids(F, V)
  PROVE  \E f : IsSolution(f, F, AnyLayer, V)
  <1>1. PICK rank \in [AnyLayer -> Nat] :
          \A layer \in AnyLayer : \A i \in DOMAIN layer : rank[layer[i].kids] < rank[layer]
    BY KidsRank
  <1>2. Decreases(rank, F, AnyLayer, V)
    <2>2. ASSUME NEW l \in AnyLayer, NEW g \in [AnyLayer -> V], NEW h \in [AnyLayer -> V],
                 \A m \in AnyLayer : rank[m] < rank[l] => g[m] = h[m]
          PROVE  F[l][g] = F[l][h]
      <3>1. \A i \in DOMAIN l : l[i].kids \in AnyLayer
        BY AnyLayerKids
      <3>2. \A i \in DOMAIN l : g[l[i].kids] = h[l[i].kids]
        BY <3>1, <2>2, <1>1
      <3>3. QED BY <3>2 DEF ReadsKids
    <2>3. QED BY <2>2 DEF Decreases
  <1>3. QED BY <1>2, RecursionHasSolution

(* The parts of a node.                                                    *)
LEMMA NodeKids ==
  ASSUME NEW n \in AnyNode
  PROVE  /\ n.kids \in AnyLayer /\ n.name \in Name /\ n.type \in {1, 2}
         /\ n.version \in Nat /\ n.hash \in Hash \cup {None}
         /\ \A i \in DOMAIN n.kids : n.kids[i] \in AnyNode
         /\ n.kids # <<>> => 1 \in DOMAIN n.kids /\ Head(n.kids) = n.kids[1]
  <1>1. n.kids \in AnyLayer /\ n.name \in Name /\ n.type \in {1, 2}
        /\ n.version \in Nat /\ n.hash \in Hash \cup {None}
    BY DEF AnyNode, Node
  <1>2. n.kids \in Seq(AnyNode)
    BY <1>1, AnyLayerKids
  <1>3. QED BY <1>1, <1>2

ReadsNodes(F, V) ==
  \A n \in AnyNode : \A g, h \in [AnyNode -> V] :
    (\A i \in DOMAIN n.kids : g[n.kids[i]] = h[n.kids[i]]) => F[n][g] = F[n][h]

(* ... and one by recursion over the children of a node.                   *)
LEMMA NodeRecursion ==
  ASSUME NEW V, V # {}, NEW F \in Recursion(AnyNode, V), ReadsNodes(F, V)
  PROVE  \E f : IsSolution(f, F, AnyNode, V)
  <1>1. PICK depth \in [AnyLayer -> Nat] :
          \A layer \in AnyLayer : \A i \in DOMAIN layer : depth[layer[i].kids] < depth[layer]
    BY KidsRank
  <1> DEFINE rank == [n \in AnyNode |-> depth[n.kids]]
  <1>2. Decreases(rank, F, AnyNode, V)
    <2>1. rank \in [AnyNode -> Nat]
      BY NodeKids
    <2>2. ASSUME NEW l \in AnyNode, NEW g \in [AnyNode -> V], NEW h \in [AnyNode -> V],
                 \A m \in AnyNode : rank[m] < rank[l] => g[m] = h[m]
          PROVE  F[l][g] = F[l][h]
      <3>1. \A i \in DOMAIN l.kids : l.kids[i] \in AnyNode /\ rank[l.kids[i]] < rank[l]
        BY NodeKids, <1>1
      <3>2. \A i \in DOMAIN l.kids : g[l.kids[i]] = h[l.kids[i]]
        BY <3>1, <2>2
      <3>3. QED BY <3>2 DEF ReadsNodes
    <2> HIDE DEF rank
    <2>3. QED BY <2>1, <2>2 DEF Decreases
  <1> HIDE DEF rank
  <1>3. QED BY <1>2, RecursionHasSolution

(* What holds of a node when it holds of its children holds of every node. *)
LEMMA ByNode ==
  ASSUME NEW S, \A n \in AnyNode : (\A i \in DOMAIN n.kids : n.kids[i] \in S) => n \in S
  PROVE  AnyNode \subseteq S
  <1> DEFINE T == {l \in AnyLayer : \A i \in DOMAIN l : l[i] \in S}
  <1>1. ASSUME NEW l \in AnyLayer, \A i \in DOMAIN l : l[i].kids \in T
        PROVE  l \in T
    <2>1. ASSUME NEW i \in DOMAIN l PROVE l[i] \in S
      <3>1. l[i] \in AnyNode
        BY AnyLayerKids
      <3>2. \A j \in DOMAIN l[i].kids : l[i].kids[j] \in S
        BY <1>1
      <3>3. QED BY <3>1, <3>2
    <2>2. QED BY <2>1
  <1>2. AnyLayer \subseteq T
    <2> HIDE DEF T
    <2>1. QED BY <1>1, ByDepth
  <1>3. QED BY <1>2, NodeKids

(* A search finds the first node with a name, and nothing where there is   *)
(* none.                                                                   *)
LEMMA SearchFinds ==
  ASSUME NEW T, NEW layer \in Seq(T), NEW name
  PROVE  /\ SearchStructNodeLayer(layer, name) \in 0..Len(layer)
         /\ SearchStructNodeLayer(layer, name) # 0 =>
              /\ SearchStructNodeLayer(layer, name) \in DOMAIN layer
              /\ layer[SearchStructNodeLayer(layer, name)].name = name
         /\ SearchStructNodeLayer(layer, name) = 0 =>
              \A i \in DOMAIN layer : layer[i].name # name
  <1> DEFINE I == {i \in 1..Len(layer) : layer[i].name = name}
  <1>1. SearchStructNodeLayer(layer, name) = IF I # {} THEN Min(I) ELSE 0
    BY DEF SearchStructNodeLayer, SelectInSeq
  <1>2. DOMAIN layer = 1..Len(layer) /\ Len(layer) \in Nat
    OBVIOUS
  <1>3. I # {} => Min(I) \in I
    <2>1. SUFFICES ASSUME I # {} PROVE Min(I) \in I
      OBVIOUS
    <2>2. I \subseteq Nat
      BY <1>2
    <2> HIDE DEF I
    <2>3. \E m \in I : \A k \in I : m <= k
      BY <2>1, <2>2, LeastOf
    <2>4. QED BY <2>3 DEF Min
  <1>4. QED BY <1>1, <1>2, <1>3

-----------------------------------------------------------------------------
(* AddTo                                                                   *)

(* Layers of a depth with another node, or with other children of a node.  *)
LEMMA LayerWith ==
  ASSUME NEW n \in Nat, NEW l \in LayersOf[n + 1], NEW kids \in LayersOf[n]
  PROVE  /\ \A node : node \in Node(LayersOf[n]) => <<node>> \o l \in LayersOf[n + 1]
         /\ \A i \in DOMAIN l : [l EXCEPT ![i].kids = kids] \in LayersOf[n + 1]
  <1>1. l \in Seq(Node(LayersOf[n])) /\ LayersOf[n + 1] = Seq(Node(LayersOf[n]))
    BY LayersOfDef
  <1>2. ASSUME NEW node \in Node(LayersOf[n])
        PROVE  <<node>> \o l \in LayersOf[n + 1]
    BY <1>1
  <1>3. ASSUME NEW i \in DOMAIN l
        PROVE  [l EXCEPT ![i].kids = kids] \in LayersOf[n + 1]
    <2>1. l[i] \in Node(LayersOf[n])
      BY <1>1
    <2>2. [l[i] EXCEPT !.kids = kids] \in Node(LayersOf[n])
      BY <2>1 DEF Node
    <2>3. [l EXCEPT ![i].kids = kids] = [l EXCEPT ![i] = [l[i] EXCEPT !.kids = kids]]
      BY <1>1
    <2> DEFINE node == [l[i] EXCEPT !.kids = kids]
    <2> HIDE DEF node
    <2>4. [l EXCEPT ![i] = node] \in Seq(Node(LayersOf[n]))
      BY <1>1, <2>2 DEF node
    <2>5. QED BY <1>1, <2>3, <2>4 DEF node
  <1>4. QED BY <1>2, <1>3

AllLayers == UNION {LayersOf[n] : n \in Nat}

(* Adding a node, or replacing the children of one, gives a layer of some  *)
(* depth.                                                                  *)
LEMMA AllLayersWith ==
  ASSUME NEW l \in AllLayers, NEW kids \in AllLayers
  PROVE  /\ \A node : node \in Node({kids}) => <<node>> \o l \in AllLayers
         /\ \A i \in DOMAIN l : [l EXCEPT ![i].kids = kids] \in AllLayers
  <1>1. PICK m \in Nat : l \in LayersOf[m]
    BY DEF AllLayers
  <1>2. PICK n \in Nat : kids \in LayersOf[n]
    BY DEF AllLayers
  <1>3. PICK k \in Nat : m <= k /\ n <= k
    BY m <= n \/ n <= m
  <1>4. kids \in LayersOf[k] /\ l \in LayersOf[k + 1]
    <2>1. k + 1 \in Nat /\ m <= k + 1
      BY <1>3
    <2>2. QED BY <1>1, <1>2, <1>3, <2>1, LayersGrow
  <1>5. \A node : node \in Node({kids}) => node \in Node(LayersOf[k])
    BY <1>4 DEF Node
  <1>6. /\ \A node : node \in Node(LayersOf[k]) => <<node>> \o l \in LayersOf[k + 1]
        /\ \A i \in DOMAIN l : [l EXCEPT ![i].kids = kids] \in LayersOf[k + 1]
    BY <1>4, LayerWith
  <1>7. LayersOf[k + 1] \subseteq AllLayers
    BY DEF AllLayers
  <1>8. QED BY <1>5, <1>6, <1>7

(* The layers of the model are layers of some depth.                       *)
LEMMA AnyLayerIsLayer == AnyLayer \subseteq AllLayers /\ <<>> \in AllLayers
  BY EmptyLayer, LayerAssumption DEF AnyLayer, AllLayers

(* The layer with other children for a node.                               *)
WithKids(layer, i, kids) == [layer EXCEPT ![i].kids = kids]

(* AddTo has the value its equation gives.                                 *)
LEMMA AddDef ==
  ASSUME NEW path \in AnyPath, NEW layer \in AnyLayer,
         NEW hash \in Hash \cup {None}, NEW version \in Nat
  PROVE  /\ Len(path) = 1 =>
              AddTo(layer, path, hash, version) = <<FileNode(path[1], hash, version)>> \o layer
         /\ Len(path) # 1 /\ SearchStructNodeLayer(layer, path[1]) = 0 =>
              AddTo(layer, path, hash, version)
                = <<FolderNode(path[1], AddTo(<<>>, Tail(path), hash, version), version)>> \o layer
         /\ Len(path) # 1 /\ SearchStructNodeLayer(layer, path[1]) # 0 =>
              AddTo(layer, path, hash, version)
                = WithKids(layer, SearchStructNodeLayer(layer, path[1]),
                           AddTo(layer[SearchStructNodeLayer(layer, path[1])].kids,
                                 Tail(path), hash, version))
  <1> DEFINE Value(below, p, l) ==
               LET i == SearchStructNodeLayer(l, Head(p))
               IN IF Len(p) = 1 THEN <<FileNode(p[1], hash, version)>> \o l
                  ELSE IF i = 0
                  THEN <<FolderNode(p[1], below[<<>>], version)>> \o l
                  ELSE [l EXCEPT ![i].kids = below[@]]
             V == [AnyLayer -> AllLayers]
             F == [p \in AnyPath |-> [g \in [AnyPath -> V] |->
                     [l \in AnyLayer |-> Value(g[Tail(p)], p, l)]]]
             add[p \in AnyPath] == [l \in AnyLayer |->
               LET i == SearchStructNodeLayer(l, Head(p))
               IN IF Len(p) = 1 THEN <<FileNode(p[1], hash, version)>> \o l
                  ELSE IF i = 0
                  THEN <<FolderNode(p[1], add[Tail(p)][<<>>], version)>> \o l
                  ELSE [l EXCEPT ![i].kids = add[Tail(p)][@]]]
  <1>1. ASSUME NEW p \in AnyPath, NEW l \in AnyLayer, NEW below, Len(p) # 1 => below \in V
        PROVE  Value(below, p, l) \in AllLayers
    <2> DEFINE i == SearchStructNodeLayer(l, p[1])
    <2>1. l \in AllLayers /\ Head(p) = p[1] /\ p[1] \in Name
      BY AnyLayerIsLayer, TailOfPath
    <2>2. CASE Len(p) = 1
      <3>1. FileNode(p[1], hash, version) \in Node({<<>>})
        BY <2>1 DEF FileNode, Node
      <3>2. <<FileNode(p[1], hash, version)>> \o l \in AllLayers
        BY <2>1, <3>1, AnyLayerIsLayer, AllLayersWith
      <3>3. QED BY <2>2, <3>2
    <2>3. CASE Len(p) # 1 /\ i = 0
      <3>1. below[<<>>] \in AllLayers
        BY <1>1, <2>3, EmptyLayer
      <3>2. FolderNode(p[1], below[<<>>], version) \in Node({below[<<>>]})
        BY <2>1 DEF FolderNode, Node
      <3>3. <<FolderNode(p[1], below[<<>>], version)>> \o l \in AllLayers
        BY <2>1, <3>1, <3>2, AllLayersWith
      <3>4. QED BY <2>1, <2>3, <3>3
    <2>4. CASE Len(p) # 1 /\ i # 0
      <3>1. i \in DOMAIN l
        BY <2>4, SearchFinds, AnyLayerKids
      <3>2. l[i].kids \in AnyLayer
        BY <3>1, AnyLayerKids
      <3>3. below[l[i].kids] \in AllLayers
        BY <1>1, <2>4, <3>2
      <3>4. [l EXCEPT ![i].kids = below[l[i].kids]] \in AllLayers
        BY <2>1, <3>1, <3>3, AllLayersWith
      <3>5. Value(below, p, l) = [l EXCEPT ![i].kids = below[@]]
        BY <2>1, <2>4
      <3>6. [l EXCEPT ![i].kids = below[@]] = [l EXCEPT ![i].kids = below[l[i].kids]]
        OBVIOUS
      <3>7. QED BY <3>4, <3>5, <3>6
    <2>5. QED BY <2>2, <2>3, <2>4
  <1>2. PICK f : f \in [AnyPath -> V] /\ \A p \in AnyPath : f[p] = F[p][f]
    <2>1. F \in Recursion(AnyPath, V)
      <3>1. ASSUME NEW p \in AnyPath, NEW g \in [AnyPath -> V]
            PROVE  [l \in AnyLayer |-> Value(g[Tail(p)], p, l)] \in V
        <4>1. Len(p) # 1 => g[Tail(p)] \in V
          <5> HIDE DEF V
          <5>1. QED BY TailOfPath
        <4>2. \A l \in AnyLayer : Value(g[Tail(p)], p, l) \in AllLayers
          <5> HIDE DEF V, Value
          <5>1. QED BY <4>1, <1>1
        <4> HIDE DEF Value
        <4>3. QED BY <4>2
      <3> HIDE DEF Value, V
      <3>2. QED BY <3>1 DEF Recursion
    <2>2. V # {}
      <3>1. [l \in AnyLayer |-> <<>>] \in V
        BY AnyLayerIsLayer
      <3>2. QED BY <3>1
    <2>3. ASSUME NEW p \in AnyPath, NEW g \in [AnyPath -> V], NEW h \in [AnyPath -> V],
                 Len(p) # 1 => g[Tail(p)] = h[Tail(p)]
          PROVE  F[p][g] = F[p][h]
      <3>1. \A l \in AnyLayer : Value(g[Tail(p)], p, l) = Value(h[Tail(p)], p, l)
        BY <2>3
      <3> HIDE DEF Value, V
      <3>2. QED BY <3>1
    <2> HIDE DEF F, V
    <2>4. ReadsTail(F, V)
      BY <2>3 DEF ReadsTail
    <2>5. QED BY <2>1, <2>2, <2>4, PathRecursion DEF IsSolution
  <1>3. f = [p \in AnyPath |-> [l \in AnyLayer |-> Value(f[Tail(p)], p, l)]]
    <2>1. \A p \in AnyPath : f[p] = [l \in AnyLayer |-> Value(f[Tail(p)], p, l)]
      <3> HIDE DEF Value, V
      <3>1. QED BY <1>2
    <2>2. f = [p \in AnyPath |-> f[p]]
      BY <1>2
    <2> HIDE DEF Value
    <2>3. QED BY <2>1, <2>2
  <1>4. add = [p \in AnyPath |-> [l \in AnyLayer |-> Value(add[Tail(p)], p, l)]]
    BY <1>3
  <1>5. \A l \in AnyLayer, p \in AnyPath : AddTo(l, p, hash, version) = add[p][l]
    BY DEF AddTo
  <1> HIDE DEF add
  <1>6. \A p \in AnyPath, l \in AnyLayer : add[p][l] = Value(add[Tail(p)], p, l)
    <2> HIDE DEF Value
    <2>1. QED BY <1>4
  <1>7. AddTo(layer, path, hash, version) = Value(add[Tail(path)], path, layer)
    BY <1>5, <1>6
  <1> DEFINE i == SearchStructNodeLayer(layer, path[1])
  <1>8. CASE Len(path) = 1
    BY <1>7, <1>8
  <1>9. CASE Len(path) # 1 /\ i = 0
    <2>1. add[Tail(path)][<<>>] = AddTo(<<>>, Tail(path), hash, version)
      BY <1>5, <1>9, TailOfPath, EmptyLayer
    <2>2. Head(path) = path[1]
      BY TailOfPath
    <2>3. QED BY <1>7, <1>9, <2>1, <2>2
  <1>10. CASE Len(path) # 1 /\ i # 0
    <2>1. i \in DOMAIN layer /\ layer[i].kids \in AnyLayer
      BY <1>10, SearchFinds, AnyLayerKids
    <2>2. add[Tail(path)][layer[i].kids] = AddTo(layer[i].kids, Tail(path), hash, version)
      BY <1>5, <1>10, <2>1, TailOfPath
    <2>3. Head(path) = path[1]
      BY TailOfPath
    <2>4. Value(add[Tail(path)], path, layer)
            = [layer EXCEPT ![i].kids = add[Tail(path)][layer[i].kids]]
      BY <1>10, <2>3
    <2>5. AddTo(layer, path, hash, version)
            = WithKids(layer, i, AddTo(layer[i].kids, Tail(path), hash, version))
      BY <1>7, <2>2, <2>4 DEF WithKids
    <2>6. QED BY <1>10, <2>5
  <1>11. QED BY <1>8, <1>9, <1>10

-----------------------------------------------------------------------------
(* IsAdded, LayersAt, Without                                              *)

(* IsAdded has the value its equation gives.                               *)
LEMMA IsAddedDef ==
  ASSUME NEW path \in AnyPath, NEW layer \in AnyLayer
  PROVE  LET i == SearchStructNodeLayer(layer, path[1])
         IN IsAdded(layer, path) <=>
              i # 0 /\ (Len(path) = 1 \/ IsAdded(layer[i].kids, Tail(path)))
  <1> DEFINE Value(below, p, l) ==
               LET i == SearchStructNodeLayer(l, Head(p))
               IN i # 0 /\ (Len(p) = 1 \/ below[l[i].kids])
             V == [AnyLayer -> BOOLEAN]
             F == [p \in AnyPath |-> [g \in [AnyPath -> V] |->
                     [l \in AnyLayer |-> Value(g[Tail(p)], p, l)]]]
             found[p \in AnyPath] == [l \in AnyLayer |->
               LET i == SearchStructNodeLayer(l, Head(p))
               IN i # 0 /\ (Len(p) = 1 \/ found[Tail(p)][l[i].kids])]
  <1>2. PICK f : f \in [AnyPath -> V] /\ \A p \in AnyPath : f[p] = F[p][f]
    <2>1. F \in Recursion(AnyPath, V)
      <3>1. ASSUME NEW p \in AnyPath, NEW g \in [AnyPath -> V]
            PROVE  [l \in AnyLayer |-> Value(g[Tail(p)], p, l)] \in V
        <4>2. \A l \in AnyLayer : Value(g[Tail(p)], p, l) \in BOOLEAN
          OBVIOUS
        <4> HIDE DEF Value
        <4>3. QED BY <4>2
      <3> HIDE DEF Value, V
      <3>2. QED BY <3>1 DEF Recursion
    <2>2. V # {}
      <3>1. [l \in AnyLayer |-> TRUE] \in V
        OBVIOUS
      <3>2. QED BY <3>1
    <2>3. ASSUME NEW p \in AnyPath, NEW g \in [AnyPath -> V], NEW h \in [AnyPath -> V],
                 Len(p) # 1 => g[Tail(p)] = h[Tail(p)]
          PROVE  F[p][g] = F[p][h]
      <3>1. \A l \in AnyLayer : Value(g[Tail(p)], p, l) = Value(h[Tail(p)], p, l)
        BY <2>3
      <3> HIDE DEF Value, V
      <3>2. QED BY <3>1
    <2> HIDE DEF F, V
    <2>4. ReadsTail(F, V)
      BY <2>3 DEF ReadsTail
    <2>5. QED BY <2>1, <2>2, <2>4, PathRecursion DEF IsSolution
  <1>3. f = [p \in AnyPath |-> [l \in AnyLayer |-> Value(f[Tail(p)], p, l)]]
    <2>1. \A p \in AnyPath : f[p] = [l \in AnyLayer |-> Value(f[Tail(p)], p, l)]
      <3> HIDE DEF Value, V
      <3>1. QED BY <1>2
    <2>2. f = [p \in AnyPath |-> f[p]]
      BY <1>2
    <2> HIDE DEF Value
    <2>3. QED BY <2>1, <2>2
  <1>4. found = [p \in AnyPath |-> [l \in AnyLayer |-> Value(found[Tail(p)], p, l)]]
    BY <1>3
  <1>5. \A l \in AnyLayer, p \in AnyPath : IsAdded(l, p) = found[p][l]
    BY DEF IsAdded
  <1> HIDE DEF found
  <1>6. \A p \in AnyPath, l \in AnyLayer : found[p][l] = Value(found[Tail(p)], p, l)
    <2> HIDE DEF Value
    <2>1. QED BY <1>4
  <1> DEFINE i == SearchStructNodeLayer(layer, path[1])
  <1>7. IsAdded(layer, path) = (i # 0 /\ (Len(path) = 1 \/ found[Tail(path)][layer[i].kids]))
    <2>1. IsAdded(layer, path) = Value(found[Tail(path)], path, layer)
      BY <1>5, <1>6
    <2>2. Head(path) = path[1]
      BY TailOfPath
    <2>3. QED BY <2>1, <2>2
  <1>8. i # 0 /\ Len(path) # 1 =>
          IsAdded(layer[i].kids, Tail(path)) = found[Tail(path)][layer[i].kids]
    <2>1. i # 0 => layer[i].kids \in AnyLayer
      BY SearchFinds, AnyLayerKids
    <2>2. Len(path) # 1 => Tail(path) \in AnyPath
      BY TailOfPath
    <2> HIDE DEF i
    <2>3. QED BY <2>1, <2>2, <1>5
  <1> HIDE DEF i
  <1>9. IsAdded(layer, path) <=> i # 0 /\ (Len(path) = 1 \/ IsAdded(layer[i].kids, Tail(path)))
    BY <1>7, <1>8
  <1>10. QED BY <1>9 DEF i

(* What a hash map finds has the name.                                     *)
LEMMA MapPlaces ==
  ASSUME NEW layer, NEW name, NEW i \in HashMapFind(layer, name)
  PROVE  i \in DOMAIN layer /\ layer[i].name = name
  BY DEF HashMapFind, Newest, Bucket

(* LayersAt has the value its equation gives.                              *)
LEMMA LayersAtDef ==
  ASSUME NEW path \in AnyPath, NEW layer \in AnyLayer
  PROVE  /\ LayersAt(layer, path) \subseteq AnyLayer
         /\ LayersAt(layer, path) =
              IF Len(path) = 1 THEN {layer}
              ELSE UNION {LayersAt(layer[i].kids, Tail(path)) : i \in HashMapFind(layer, path[1])}
  <1> DEFINE Value(below, p, l) ==
               IF Len(p) = 1 THEN {l}
               ELSE UNION {below[l[i].kids] : i \in HashMapFind(l, Head(p))}
             V == [AnyLayer -> SUBSET AnyLayer]
             F == [p \in AnyPath |-> [g \in [AnyPath -> V] |->
                     [l \in AnyLayer |-> Value(g[Tail(p)], p, l)]]]
             at[p \in AnyPath] == [l \in AnyLayer |->
               IF Len(p) = 1 THEN {l}
               ELSE UNION {at[Tail(p)][l[i].kids] : i \in HashMapFind(l, Head(p))}]
  <1>1. ASSUME NEW p \in AnyPath, NEW l \in AnyLayer, NEW below, Len(p) # 1 => below \in V
        PROVE  Value(below, p, l) \in SUBSET AnyLayer
    <2>1. CASE Len(p) = 1
      BY <2>1
    <2>2. CASE Len(p) # 1
      <3>1. ASSUME NEW i \in HashMapFind(l, Head(p))
            PROVE  below[l[i].kids] \in SUBSET AnyLayer
        <4>1. l[i].kids \in AnyLayer
          BY MapPlaces, AnyLayerKids
        <4>2. QED BY <4>1, <1>1, <2>2
      <3>2. QED BY <3>1, <2>2
    <2>3. QED BY <2>1, <2>2
  <1>2. PICK f : f \in [AnyPath -> V] /\ \A p \in AnyPath : f[p] = F[p][f]
    <2>1. F \in Recursion(AnyPath, V)
      <3>1. ASSUME NEW p \in AnyPath, NEW g \in [AnyPath -> V]
            PROVE  [l \in AnyLayer |-> Value(g[Tail(p)], p, l)] \in V
        <4>1. Len(p) # 1 => g[Tail(p)] \in V
          <5> HIDE DEF V
          <5>1. QED BY TailOfPath
        <4>2. \A l \in AnyLayer : Value(g[Tail(p)], p, l) \in SUBSET AnyLayer
          <5> HIDE DEF V, Value
          <5>1. QED BY <4>1, <1>1
        <4> HIDE DEF Value
        <4>3. QED BY <4>2
      <3> HIDE DEF Value, V
      <3>2. QED BY <3>1 DEF Recursion
    <2>2. V # {}
      <3>1. [l \in AnyLayer |-> {}] \in V
        OBVIOUS
      <3>2. QED BY <3>1
    <2>3. ASSUME NEW p \in AnyPath, NEW g \in [AnyPath -> V], NEW h \in [AnyPath -> V],
                 Len(p) # 1 => g[Tail(p)] = h[Tail(p)]
          PROVE  F[p][g] = F[p][h]
      <3>1. \A l \in AnyLayer : Value(g[Tail(p)], p, l) = Value(h[Tail(p)], p, l)
        BY <2>3
      <3> HIDE DEF Value, V
      <3>2. QED BY <3>1
    <2> HIDE DEF F, V
    <2>4. ReadsTail(F, V)
      BY <2>3 DEF ReadsTail
    <2>5. QED BY <2>1, <2>2, <2>4, PathRecursion DEF IsSolution
  <1>3. f = [p \in AnyPath |-> [l \in AnyLayer |-> Value(f[Tail(p)], p, l)]]
    <2>1. \A p \in AnyPath : f[p] = [l \in AnyLayer |-> Value(f[Tail(p)], p, l)]
      <3> HIDE DEF Value, V
      <3>1. QED BY <1>2
    <2>2. f = [p \in AnyPath |-> f[p]]
      BY <1>2
    <2> HIDE DEF Value
    <2>3. QED BY <2>1, <2>2
  <1>4. at = [p \in AnyPath |-> [l \in AnyLayer |-> Value(at[Tail(p)], p, l)]]
    BY <1>3
  <1>5. \A l \in AnyLayer, p \in AnyPath : LayersAt(l, p) = at[p][l]
    BY DEF LayersAt
  <1> HIDE DEF at
  <1>6. \A p \in AnyPath, l \in AnyLayer : at[p][l] = Value(at[Tail(p)], p, l)
    <2> HIDE DEF Value
    <2>1. QED BY <1>4
  <1>7. at \in [AnyPath -> V]
    <2> DEFINE S == {p \in AnyPath : at[p] \in V}
    <2>1. ASSUME NEW p \in AnyPath, Len(p) # 1 => Tail(p) \in S
          PROVE  p \in S
      <3>1. Len(p) # 1 => at[Tail(p)] \in V
        BY <2>1
      <3>2. \A l \in AnyLayer : Value(at[Tail(p)], p, l) \in SUBSET AnyLayer
        <4> HIDE DEF V, Value
        <4>1. QED BY <3>1, <1>1
      <3>3. at[p] = [l \in AnyLayer |-> Value(at[Tail(p)], p, l)]
        <4> HIDE DEF Value
        <4>1. QED BY <1>4
      <3> HIDE DEF Value
      <3>4. QED BY <3>2, <3>3
    <2> HIDE DEF S
    <2>2. AnyPath \subseteq S
      BY <2>1, ByPath
    <2>3. \A p \in AnyPath : at[p] \in V
      BY <2>2 DEF S
    <2>4. at = [p \in AnyPath |-> at[p]]
      <3> HIDE DEF Value
      <3>1. QED BY <1>4
    <2> HIDE DEF V
    <2>5. QED BY <2>3, <2>4
  <1>8. LayersAt(layer, path) \subseteq AnyLayer
    BY <1>5, <1>7
  <1>9. CASE Len(path) = 1
    <2>1. LayersAt(layer, path) = Value(at[Tail(path)], path, layer)
      BY ZenonT(60), <1>5, <1>6
    <2>2. QED BY <1>8, <1>9, <2>1
  <1>10. CASE Len(path) # 1
    <2>1. Head(path) = path[1] /\ Tail(path) \in AnyPath
      BY <1>10, TailOfPath
    <2>2. \A i \in HashMapFind(layer, path[1]) :
            at[Tail(path)][layer[i].kids] = LayersAt(layer[i].kids, Tail(path))
      BY <1>5, <2>1, MapPlaces, AnyLayerKids
    <2>3. LayersAt(layer, path)
            = UNION {at[Tail(path)][layer[i].kids] : i \in HashMapFind(layer, path[1])}
      <3>1. LayersAt(layer, path) = Value(at[Tail(path)], path, layer)
        BY ZenonT(60), <1>5, <1>6
      <3>2. QED BY <3>1, <1>10, <2>1
    <2>4. QED BY <1>8, <1>10, <2>2, <2>3
  <1>11. QED BY <1>9, <1>10

(* A sequence without one element; the place 0 removes nothing.            *)
LEMMA RemoveAtIs ==
  ASSUME NEW T, NEW s \in Seq(T), NEW i \in 0..Len(s)
  PROVE  /\ RemoveAt(s, i) \in Seq(T)
         /\ Len(RemoveAt(s, i)) = IF i = 0 THEN Len(s) ELSE Len(s) - 1
         /\ i # 0 => \A j \in 1..Len(s) - 1 :
              RemoveAt(s, i)[j] = IF j < i THEN s[j] ELSE s[j + 1]
  <1> DEFINE front == SubSeq(s, 1, i - 1)
             back == SubSeq(s, i + 1, Len(s))
  <1>1. /\ front \in Seq(T) /\ Len(front) = IF i = 0 THEN 0 ELSE i - 1
        /\ \A j \in 1..Len(front) : front[j] = s[j]
    OBVIOUS
  <1>2. /\ back \in Seq(T) /\ Len(back) = Len(s) - i
        /\ \A j \in 1..Len(back) : back[j] = s[i + j]
    OBVIOUS
  <1> HIDE DEF front, back
  <1>3. RemoveAt(s, i) = front \o back
    BY DEF RemoveAt, front, back
  <1>4. /\ front \o back \in Seq(T)
        /\ Len(front \o back) = Len(front) + Len(back)
        /\ \A j \in 1..Len(front) : (front \o back)[j] = front[j]
        /\ \A j \in 1..Len(back) : (front \o back)[Len(front) + j] = back[j]
    <2>1. front \in Seq(T) /\ back \in Seq(T)
      BY <1>1, <1>2
    <2>2. QED BY <2>1
  <1>5. Len(RemoveAt(s, i)) = IF i = 0 THEN Len(s) ELSE Len(s) - 1
    BY <1>1, <1>2, <1>3, <1>4
  <1>6. ASSUME i # 0, NEW j \in 1..Len(s) - 1
        PROVE  RemoveAt(s, i)[j] = IF j < i THEN s[j] ELSE s[j + 1]
    <2>1. CASE j < i
      <3>1. j \in 1..Len(front)
        BY <1>1, <1>6, <2>1
      <3>2. QED BY <1>1, <1>3, <1>4, <2>1, <3>1
    <2>2. CASE ~(j < i)
      <3> DEFINE k == j - Len(front)
      <3>1. k \in 1..Len(back) /\ Len(front) + k = j /\ i + k = j + 1
        BY <1>1, <1>2, <1>6, <2>2
      <3> HIDE DEF k
      <3>2. (front \o back)[j] = back[k]
        BY <3>1, <1>4
      <3>3. back[k] = s[j + 1]
        BY <3>1, <1>2
      <3>4. QED BY <1>3, <2>2, <3>2, <3>3
    <2>3. QED BY <2>1, <2>2
  <1>7. QED BY <1>3, <1>4, <1>5, <1>6

(* Without has the value its equation gives.                               *)
LEMMA WithoutDef ==
  ASSUME NEW path \in AnyPath, NEW layer \in AnyLayer
  PROVE  /\ Len(path) = 1 =>
              Without(layer, path) = RemoveAt(layer, SearchStructNodeLayer(layer, path[1]))
         /\ Len(path) # 1 /\ MapPlace(layer, path[1]) \in DOMAIN layer =>
              Without(layer, path)
                = WithKids(layer, MapPlace(layer, path[1]),
                           Without(layer[MapPlace(layer, path[1])].kids, Tail(path)))
         /\ Len(path) # 1 /\ MapPlace(layer, path[1]) \notin DOMAIN layer =>
              Without(layer, path) = layer
  <1> DEFINE Value(below, p, l) ==
               IF Len(p) = 1 THEN RemoveAt(l, SearchStructNodeLayer(l, p[1]))
               ELSE [l EXCEPT ![MapPlace(l, Head(p))].kids = below[@]]
             V == [AnyLayer -> AllLayers]
             F == [p \in AnyPath |-> [g \in [AnyPath -> V] |->
                     [l \in AnyLayer |-> Value(g[Tail(p)], p, l)]]]
             without[p \in AnyPath] == [l \in AnyLayer |->
               IF Len(p) = 1 THEN RemoveAt(l, SearchStructNodeLayer(l, p[1]))
               ELSE [l EXCEPT ![MapPlace(l, Head(p))].kids = without[Tail(p)][@]]]
  <1>1. ASSUME NEW p \in AnyPath, NEW l \in AnyLayer, NEW below, Len(p) # 1 => below \in V
        PROVE  Value(below, p, l) \in AllLayers
    <2>0. l \in AllLayers
      BY AnyLayerIsLayer
    <2>1. CASE Len(p) = 1
      <3> DEFINE i == SearchStructNodeLayer(l, p[1])
      <3>1. l \in Seq(AnyNode) /\ i \in 0..Len(l)
        BY AnyLayerKids, SearchFinds
      <3> HIDE DEF i
      <3>2. RemoveAt(l, i) \in Seq(AnyNode)
        BY <3>1, RemoveAtIs
      <3>3. LayersOf[MaxDepth + 1] = Seq(AnyNode) /\ MaxDepth + 1 \in Nat
        BY LayersOfDef, LayerAssumption DEF AnyNode, AnyLayer
      <3>4. QED BY <2>1, <3>2, <3>3 DEF AllLayers, i
    <2>2. CASE Len(p) # 1
      <3> DEFINE i == MapPlace(l, Head(p))
      <3>1. Value(below, p, l) = [l EXCEPT ![i].kids = below[@]]
        BY <2>2
      <3> HIDE DEF i
      <3>2. CASE i \in DOMAIN l
        <4>1. l[i].kids \in AnyLayer
          BY <3>2, AnyLayerKids
        <4>2. below[l[i].kids] \in AllLayers
          BY <1>1, <2>2, <4>1
        <4>3. [l EXCEPT ![i].kids = below[l[i].kids]] \in AllLayers
          BY <2>0, <3>2, <4>2, AllLayersWith
        <4>4. [l EXCEPT ![i].kids = below[@]] = [l EXCEPT ![i].kids = below[l[i].kids]]
          OBVIOUS
        <4>5. QED BY <3>1, <4>3, <4>4
      <3>3. CASE i \notin DOMAIN l
        <4>1. l \in Seq(AnyNode)
          BY AnyLayerKids
        <4>2. [l EXCEPT ![i].kids = below[@]] = l
          BY <3>3, <4>1
        <4>3. QED BY <2>0, <3>1, <4>2
      <3>4. QED BY <3>2, <3>3
    <2>3. QED BY <2>1, <2>2
  <1>2. PICK f : f \in [AnyPath -> V] /\ \A p \in AnyPath : f[p] = F[p][f]
    <2>1. F \in Recursion(AnyPath, V)
      <3>1. ASSUME NEW p \in AnyPath, NEW g \in [AnyPath -> V]
            PROVE  [l \in AnyLayer |-> Value(g[Tail(p)], p, l)] \in V
        <4>1. Len(p) # 1 => g[Tail(p)] \in V
          <5> HIDE DEF V
          <5>1. QED BY TailOfPath
        <4>2. \A l \in AnyLayer : Value(g[Tail(p)], p, l) \in AllLayers
          <5> HIDE DEF V, Value
          <5>1. QED BY <4>1, <1>1
        <4> HIDE DEF Value
        <4>3. QED BY <4>2
      <3> HIDE DEF Value, V
      <3>2. QED BY <3>1 DEF Recursion
    <2>2. V # {}
      <3>1. [l \in AnyLayer |-> <<>>] \in V
        BY AnyLayerIsLayer
      <3>2. QED BY <3>1
    <2>3. ASSUME NEW p \in AnyPath, NEW g \in [AnyPath -> V], NEW h \in [AnyPath -> V],
                 Len(p) # 1 => g[Tail(p)] = h[Tail(p)]
          PROVE  F[p][g] = F[p][h]
      <3>1. \A l \in AnyLayer : Value(g[Tail(p)], p, l) = Value(h[Tail(p)], p, l)
        BY <2>3
      <3> HIDE DEF Value, V
      <3>2. QED BY <3>1
    <2> HIDE DEF F, V
    <2>4. ReadsTail(F, V)
      BY <2>3 DEF ReadsTail
    <2>5. QED BY <2>1, <2>2, <2>4, PathRecursion DEF IsSolution
  <1>3. f = [p \in AnyPath |-> [l \in AnyLayer |-> Value(f[Tail(p)], p, l)]]
    <2>1. \A p \in AnyPath : f[p] = [l \in AnyLayer |-> Value(f[Tail(p)], p, l)]
      <3> HIDE DEF Value, V
      <3>1. QED BY <1>2
    <2>2. f = [p \in AnyPath |-> f[p]]
      BY <1>2
    <2> HIDE DEF Value
    <2>3. QED BY <2>1, <2>2
  <1>4. without = [p \in AnyPath |-> [l \in AnyLayer |-> Value(without[Tail(p)], p, l)]]
    BY <1>3
  <1>5. \A l \in AnyLayer, p \in AnyPath : Without(l, p) = without[p][l]
    BY DEF Without
  <1> HIDE DEF without
  <1>6. \A p \in AnyPath, l \in AnyLayer : without[p][l] = Value(without[Tail(p)], p, l)
    <2> HIDE DEF Value
    <2>1. QED BY <1>4
  <1>7. Without(layer, path) = Value(without[Tail(path)], path, layer)
    BY <1>5, <1>6
  <1>8. CASE Len(path) = 1
    BY <1>7, <1>8
  <1>9. CASE Len(path) # 1
    <2> DEFINE i == MapPlace(layer, path[1])
    <2>1. Without(layer, path) = [layer EXCEPT ![i].kids = without[Tail(path)][@]]
      BY <1>7, <1>9, TailOfPath
    <2> HIDE DEF i
    <2>2. layer \in Seq(AnyNode)
      BY AnyLayerKids
    <2>3. CASE i \in DOMAIN layer
      <3>1. without[Tail(path)][layer[i].kids] = Without(layer[i].kids, Tail(path))
        BY <1>5, <1>9, <2>3, TailOfPath, AnyLayerKids
      <3>2. Without(layer, path) = WithKids(layer, i, Without(layer[i].kids, Tail(path)))
        BY <2>1, <3>1 DEF WithKids
      <3>3. QED BY <1>9, <2>3, <3>2 DEF i
    <2>4. CASE i \notin DOMAIN layer
      <3>1. Without(layer, path) = layer
        BY <2>1, <2>2, <2>4
      <3>2. QED BY <1>9, <2>4, <3>1 DEF i
    <2>5. QED BY <2>3, <2>4
  <1>10. QED BY <1>8, <1>9

-----------------------------------------------------------------------------
(* Entries, Layers, Reached                                                *)

(* What a table lists, and what comparisons and checkouts reach.           *)
Listed == [path : AnyPath, hash : Hash \cup {None}]

(* Entries has the value its equation gives.                               *)
LEMMA EntriesDef ==
  ASSUME NEW layer \in AnyLayer
  PROVE  /\ Entries(layer) \subseteq Listed
         /\ Entries(layer) =
              UNION {(IF layer[i].type = 1
                      THEN {[path |-> <<layer[i].name>>, hash |-> layer[i].hash]} ELSE {})
                     \cup {[path |-> <<layer[i].name>> \o f.path, hash |-> f.hash]
                           : f \in Entries(layer[i].kids)}
                     : i \in DOMAIN layer}
  <1> DEFINE Of(node, below) ==
               (IF node.type = 1 THEN {[path |-> <<node.name>>, hash |-> node.hash]} ELSE {})
                 \cup {[path |-> <<node.name>> \o f.path, hash |-> f.hash] : f \in below}
             Value(g, l) == UNION {Of(l[i], g[l[i].kids]) : i \in DOMAIN l}
             V == SUBSET Listed
             F == [l \in AnyLayer |-> [g \in [AnyLayer -> V] |-> Value(g, l)]]
             entries[l \in AnyLayer] ==
               UNION {(IF l[i].type = 1 THEN {[path |-> <<l[i].name>>, hash |-> l[i].hash]} ELSE {})
                        \cup {[path |-> <<l[i].name>> \o f.path, hash |-> f.hash]
                              : f \in entries[l[i].kids]}
                      : i \in DOMAIN l}
  <1>1. ASSUME NEW l \in AnyLayer, NEW g, \A i \in DOMAIN l : g[l[i].kids] \in V
        PROVE  Value(g, l) \in V
    <2>1. ASSUME NEW i \in DOMAIN l
          PROVE  Of(l[i], g[l[i].kids]) \in V
      <3>1. l[i].name \in Name /\ l[i].hash \in Hash \cup {None}
        BY AnyLayerKids, NodeKids
      <3>2. <<l[i].name>> \in AnyPath /\ \A p \in AnyPath : <<l[i].name>> \o p \in AnyPath
        BY <3>1 DEF AnyPath
      <3>3. \A f \in g[l[i].kids] : f.path \in AnyPath /\ f.hash \in Hash \cup {None}
        BY <1>1 DEF Listed
      <3>4. [path |-> <<l[i].name>>, hash |-> l[i].hash] \in Listed
        BY <3>1, <3>2 DEF Listed
      <3>5. ASSUME NEW f \in g[l[i].kids]
            PROVE  [path |-> <<l[i].name>> \o f.path, hash |-> f.hash] \in Listed
        <4>1. f.path \in AnyPath /\ <<l[i].name>> \o f.path \in AnyPath
          BY <3>2, <3>3
        <4>2. QED BY <3>3, <4>1 DEF Listed
      <3> HIDE DEF Listed
      <3>6. QED BY <3>4, <3>5
    <2> HIDE DEF Of
    <2>2. QED BY <2>1
  <1>2. PICK f : f \in [AnyLayer -> V] /\ \A l \in AnyLayer : f[l] = F[l][f]
    <2>1. F \in Recursion(AnyLayer, V)
      <3>1. ASSUME NEW l \in AnyLayer, NEW g \in [AnyLayer -> V]
            PROVE  Value(g, l) \in V
        <4> HIDE DEF V, Value
        <4>1. QED BY <1>1, AnyLayerKids
      <3> HIDE DEF Value, V
      <3>2. QED BY <3>1 DEF Recursion
    <2>2. ASSUME NEW l \in AnyLayer, NEW g \in [AnyLayer -> V], NEW h \in [AnyLayer -> V],
                 \A i \in DOMAIN l : g[l[i].kids] = h[l[i].kids]
          PROVE  F[l][g] = F[l][h]
      <3> HIDE DEF Of, V
      <3>1. Value(g, l) = Value(h, l)
        BY <2>2
      <3> HIDE DEF Value
      <3>2. QED BY <3>1
    <2>3. V # {}
      OBVIOUS
    <2> HIDE DEF F, V
    <2>4. ReadsKids(F, V)
      BY <2>2 DEF ReadsKids
    <2>5. QED BY <2>1, <2>3, <2>4, LayerRecursion DEF IsSolution
  <1>3. f = [l \in AnyLayer |-> Value(f, l)]
    <2> HIDE DEF Value, V
    <2>1. \A l \in AnyLayer : f[l] = Value(f, l)
      BY <1>2
    <2>2. f = [l \in AnyLayer |-> f[l]]
      BY <1>2
    <2>3. QED BY <2>1, <2>2
  <1>4. entries = [l \in AnyLayer |-> Value(entries, l)]
    BY <1>3
  <1>5. \A l \in AnyLayer : Entries(l) = entries[l]
    BY DEF Entries
  <1> HIDE DEF entries
  <1>6. \A l \in AnyLayer : entries[l] = Value(entries, l)
    <2> HIDE DEF Value
    <2>1. QED BY <1>4
  <1>7. \A l \in AnyLayer : entries[l] \in V
    <2> DEFINE S == {l \in AnyLayer : entries[l] \in V}
    <2> HIDE DEF V, Value
    <2>1. ASSUME NEW l \in AnyLayer, \A i \in DOMAIN l : l[i].kids \in S
          PROVE  l \in S
      BY <2>1, <1>1, <1>6
    <2> HIDE DEF S
    <2>2. AnyLayer \subseteq S
      BY <2>1, ByDepth
    <2>3. QED BY <2>2 DEF S
  <1>8. Entries(layer) = UNION {Of(layer[i], Entries(layer[i].kids)) : i \in DOMAIN layer}
    <2>1. \A i \in DOMAIN layer : entries[layer[i].kids] = Entries(layer[i].kids)
      BY <1>5, AnyLayerKids
    <2> HIDE DEF Of
    <2>2. QED BY <1>5, <1>6, <2>1
  <1>9. QED BY <1>5, <1>7, <1>8

(* Layers has the value its equation gives.                                *)
LEMMA LayersDef ==
  ASSUME NEW layer \in AnyLayer
  PROVE  /\ Layers(layer) \subseteq AnyLayer
         /\ Layers(layer) = {layer} \cup UNION {Layers(layer[i].kids) : i \in DOMAIN layer}
  <1> DEFINE Value(g, l) == {l} \cup UNION {g[l[i].kids] : i \in DOMAIN l}
             V == SUBSET AnyLayer
             F == [l \in AnyLayer |-> [g \in [AnyLayer -> V] |-> Value(g, l)]]
             layers[l \in AnyLayer] == {l} \cup UNION {layers[l[i].kids] : i \in DOMAIN l}
  <1>1. ASSUME NEW l \in AnyLayer, NEW g, \A i \in DOMAIN l : g[l[i].kids] \in V
        PROVE  Value(g, l) \in V
    BY <1>1
  <1>2. PICK f : f \in [AnyLayer -> V] /\ \A l \in AnyLayer : f[l] = F[l][f]
    <2>1. F \in Recursion(AnyLayer, V)
      <3>1. ASSUME NEW l \in AnyLayer, NEW g \in [AnyLayer -> V]
            PROVE  Value(g, l) \in V
        <4> HIDE DEF V, Value
        <4>1. QED BY <1>1, AnyLayerKids
      <3> HIDE DEF Value, V
      <3>2. QED BY <3>1 DEF Recursion
    <2>2. ASSUME NEW l \in AnyLayer, NEW g \in [AnyLayer -> V], NEW h \in [AnyLayer -> V],
                 \A i \in DOMAIN l : g[l[i].kids] = h[l[i].kids]
          PROVE  F[l][g] = F[l][h]
      <3> HIDE DEF V
      <3>1. Value(g, l) = Value(h, l)
        BY <2>2
      <3> HIDE DEF Value
      <3>2. QED BY <3>1
    <2>3. V # {}
      OBVIOUS
    <2> HIDE DEF F, V
    <2>4. ReadsKids(F, V)
      BY <2>2 DEF ReadsKids
    <2>5. QED BY <2>1, <2>3, <2>4, LayerRecursion DEF IsSolution
  <1>3. f = [l \in AnyLayer |-> Value(f, l)]
    <2> HIDE DEF Value, V
    <2>1. \A l \in AnyLayer : f[l] = Value(f, l)
      BY <1>2
    <2>2. f = [l \in AnyLayer |-> f[l]]
      BY <1>2
    <2>3. QED BY <2>1, <2>2
  <1>4. layers = [l \in AnyLayer |-> Value(layers, l)]
    BY <1>3
  <1>5. \A l \in AnyLayer : Layers(l) = layers[l]
    BY DEF Layers
  <1> HIDE DEF layers
  <1>6. \A l \in AnyLayer : layers[l] = Value(layers, l)
    <2> HIDE DEF Value
    <2>1. QED BY <1>4
  <1>7. \A l \in AnyLayer : layers[l] \in V
    <2> DEFINE S == {l \in AnyLayer : layers[l] \in V}
    <2> HIDE DEF V, Value
    <2>1. ASSUME NEW l \in AnyLayer, \A i \in DOMAIN l : l[i].kids \in S
          PROVE  l \in S
      BY <2>1, <1>1, <1>6
    <2> HIDE DEF S
    <2>2. AnyLayer \subseteq S
      BY <2>1, ByDepth
    <2>3. QED BY <2>2 DEF S
  <1>8. Layers(layer) = {layer} \cup UNION {Layers(layer[i].kids) : i \in DOMAIN layer}
    <2>1. \A i \in DOMAIN layer : layers[layer[i].kids] = Layers(layer[i].kids)
      BY <1>5, AnyLayerKids
    <2>2. QED BY <1>5, <1>6, <2>1
  <1>9. QED BY <1>5, <1>7, <1>8

(* Reached has the value its equation gives.                               *)
LEMMA ReachedDef ==
  ASSUME NEW node \in AnyNode, NEW parent \in Seq(Name)
  PROVE  /\ Reached(node, parent) \subseteq Listed
         /\ Reached(node, parent) =
              LET path == Append(parent, node.name)
              IN IF node.type = 1 THEN {[path |-> path, hash |-> node.hash]}
                 ELSE UNION {Reached(node.kids[i], path) : i \in DOMAIN node.kids}
  <1> DEFINE At(g, n, above) ==
               LET path == Append(above, n.name)
               IN IF n.type = 1 THEN {[path |-> path, hash |-> n.hash]}
                  ELSE UNION {g[n.kids[i]][path] : i \in DOMAIN n.kids}
             Value(g, n) == [above \in Seq(Name) |-> At(g, n, above)]
             V == [Seq(Name) -> SUBSET Listed]
             F == [n \in AnyNode |-> [g \in [AnyNode -> V] |-> Value(g, n)]]
             reached[n \in AnyNode] == [above \in Seq(Name) |->
               LET path == Append(above, n.name)
               IN IF n.type = 1 THEN {[path |-> path, hash |-> n.hash]}
                  ELSE UNION {reached[n.kids[i]][path] : i \in DOMAIN n.kids}]
  <1>1. ASSUME NEW n \in AnyNode, NEW g, \A i \in DOMAIN n.kids : g[n.kids[i]] \in V
        PROVE  Value(g, n) \in V
    <2>1. ASSUME NEW above \in Seq(Name)
          PROVE  At(g, n, above) \in SUBSET Listed
      <3> DEFINE path == Append(above, n.name)
      <3>1. n.name \in Name /\ n.hash \in Hash \cup {None}
        BY NodeKids
      <3>2. path \in AnyPath /\ path \in Seq(Name)
        <4>1. path \in Seq(Name) /\ Len(path) = Len(above) + 1 /\ Len(above) \in Nat
          BY <3>1
        <4>2. path # <<>>
          BY <4>1
        <4> HIDE DEF path
        <4>3. QED BY <4>1, <4>2 DEF AnyPath
      <3> HIDE DEF path
      <3>3. CASE n.type = 1
        <4>1. At(g, n, above) = {[path |-> path, hash |-> n.hash]}
          BY <3>3 DEF path
        <4>2. [path |-> path, hash |-> n.hash] \in Listed
          BY <3>1, <3>2 DEF Listed
        <4> HIDE DEF At
        <4>3. QED BY <4>1, <4>2
      <3>4. CASE n.type # 1
        <4>1. At(g, n, above) = UNION {g[n.kids[i]][path] : i \in DOMAIN n.kids}
          BY <3>4 DEF path
        <4>2. \A i \in DOMAIN n.kids : g[n.kids[i]][path] \in SUBSET Listed
          <5>1. ASSUME NEW t \in V PROVE t[path] \in SUBSET Listed
            BY <3>2
          <5> HIDE DEF V
          <5>2. QED BY <1>1, <5>1
        <4> HIDE DEF At
        <4>3. QED BY <4>1, <4>2
      <3>5. QED BY <3>3, <3>4
    <2> HIDE DEF At
    <2>2. QED BY <2>1
  <1>2. PICK f : f \in [AnyNode -> V] /\ \A n \in AnyNode : f[n] = F[n][f]
    <2>1. F \in Recursion(AnyNode, V)
      <3>1. ASSUME NEW n \in AnyNode, NEW g \in [AnyNode -> V]
            PROVE  Value(g, n) \in V
        <4> HIDE DEF V, Value
        <4>1. QED BY <1>1, NodeKids
      <3> HIDE DEF Value, V
      <3>2. QED BY <3>1 DEF Recursion
    <2>2. ASSUME NEW n \in AnyNode, NEW g \in [AnyNode -> V], NEW h \in [AnyNode -> V],
                 \A i \in DOMAIN n.kids : g[n.kids[i]] = h[n.kids[i]]
          PROVE  F[n][g] = F[n][h]
      <3> HIDE DEF V
      <3>1. ASSUME NEW above \in Seq(Name)
            PROVE  At(g, n, above) = At(h, n, above)
        <4> DEFINE path == Append(above, n.name)
        <4> HIDE DEF path
        <4>1. UNION {g[n.kids[i]][path] : i \in DOMAIN n.kids}
                = UNION {h[n.kids[i]][path] : i \in DOMAIN n.kids}
          BY <2>2
        <4>2. QED BY <4>1 DEF path
      <3> HIDE DEF At
      <3>2. Value(g, n) = Value(h, n)
        BY <3>1
      <3> HIDE DEF Value
      <3>3. QED BY <3>2
    <2>3. V # {}
      <3>1. [above \in Seq(Name) |-> {}] \in V
        OBVIOUS
      <3>2. QED BY <3>1
    <2> HIDE DEF F, V
    <2>4. ReadsNodes(F, V)
      BY <2>2 DEF ReadsNodes
    <2>5. QED BY <2>1, <2>3, <2>4, NodeRecursion DEF IsSolution
  <1>3. f = [n \in AnyNode |-> Value(f, n)]
    <2> HIDE DEF Value, V
    <2>1. \A n \in AnyNode : f[n] = Value(f, n)
      BY <1>2
    <2>2. f = [n \in AnyNode |-> f[n]]
      BY <1>2
    <2>3. QED BY <2>1, <2>2
  <1>4. reached = [n \in AnyNode |-> Value(reached, n)]
    BY ZenonT(60), <1>3
  <1>5. \A n \in AnyNode, above \in Seq(Name) : Reached(n, above) = reached[n][above]
    BY DEF Reached
  <1> HIDE DEF reached
  <1>6. \A n \in AnyNode : reached[n] = Value(reached, n)
    <2> HIDE DEF Value
    <2>1. QED BY <1>4
  <1>7. \A n \in AnyNode : reached[n] \in V
    <2> DEFINE S == {n \in AnyNode : reached[n] \in V}
    <2> HIDE DEF V, Value
    <2>1. ASSUME NEW n \in AnyNode, \A i \in DOMAIN n.kids : n.kids[i] \in S
          PROVE  n \in S
      BY <2>1, <1>1, <1>6
    <2> HIDE DEF S
    <2>2. AnyNode \subseteq S
      BY <2>1, ByNode
    <2>3. QED BY <2>2 DEF S
  <1>8. Reached(node, parent) = At(reached, node, parent)
    <2> HIDE DEF At
    <2>1. QED BY <1>5, <1>6
  <1>9. \A i \in DOMAIN node.kids : Reached(node.kids[i], Append(parent, node.name))
                                      = reached[node.kids[i]][Append(parent, node.name)]
    <2>1. Append(parent, node.name) \in Seq(Name)
      BY NodeKids
    <2>2. QED BY <1>5, <2>1, NodeKids
  <1>10. Reached(node, parent) \subseteq Listed
    BY <1>5, <1>7
  <1>11. QED BY <1>8, <1>9, <1>10

-----------------------------------------------------------------------------
(* Fetched, Met                                                            *)

(* The path of a child.                                                    *)
LEMMA PathBelow ==
  ASSUME NEW at \in Seq(Name), NEW name \in Name
  PROVE  /\ Append(at, name) \in AnyPath /\ Append(at, name) \in Seq(Name)
         /\ Len(Append(at, name)) = Len(at) + 1
  <1>1. Append(at, name) \in Seq(Name) /\ Len(Append(at, name)) = Len(at) + 1 /\ Len(at) \in Nat
    OBVIOUS
  <1>2. Append(at, name) # <<>>
    BY <1>1
  <1>3. QED BY <1>1, <1>2 DEF AnyPath

(* Fetched has the value its equation gives.                               *)
LEMMA FetchedDef ==
  ASSUME NEW node \in AnyNode, NEW parent \in Seq(Name)
  PROVE  /\ Fetched(node, parent) \subseteq Listed
         /\ Fetched(node, parent) =
              LET path == Append(parent, node.name)
              IN IF node.type = 1 THEN {[path |-> path, hash |-> node.hash]}
                 ELSE IF node.kids = <<>> THEN {} ELSE Fetched(Head(node.kids), path)
  <1> DEFINE At(g, n, above) ==
               LET path == Append(above, n.name)
               IN IF n.type = 1 THEN {[path |-> path, hash |-> n.hash]}
                  ELSE IF n.kids = <<>> THEN {} ELSE g[Head(n.kids)][path]
             Value(g, n) == [above \in Seq(Name) |-> At(g, n, above)]
             V == [Seq(Name) -> SUBSET Listed]
             F == [n \in AnyNode |-> [g \in [AnyNode -> V] |-> Value(g, n)]]
             fetched[n \in AnyNode] == [above \in Seq(Name) |->
               LET path == Append(above, n.name)
               IN IF n.type = 1 THEN {[path |-> path, hash |-> n.hash]}
                  ELSE IF n.kids = <<>> THEN {} ELSE fetched[Head(n.kids)][path]]
  <1>1. ASSUME NEW n \in AnyNode, NEW g, n.kids # <<>> => g[Head(n.kids)] \in V
        PROVE  Value(g, n) \in V
    <2>1. ASSUME NEW above \in Seq(Name)
          PROVE  At(g, n, above) \in SUBSET Listed
      <3> DEFINE path == Append(above, n.name)
      <3>1. n.name \in Name /\ n.hash \in Hash \cup {None}
        BY NodeKids
      <3>2. path \in AnyPath /\ path \in Seq(Name)
        BY <3>1, PathBelow
      <3> HIDE DEF path
      <3>3. [path |-> path, hash |-> n.hash] \in Listed
        BY <3>1, <3>2 DEF Listed
      <3>4. n.kids # <<>> => g[Head(n.kids)][path] \in SUBSET Listed
        <4>1. ASSUME NEW t \in V PROVE t[path] \in SUBSET Listed
          BY <3>2
        <4> HIDE DEF V
        <4>2. QED BY <1>1, <4>1
      <3>5. At(g, n, above) = IF n.type = 1 THEN {[path |-> path, hash |-> n.hash]}
                              ELSE IF n.kids = <<>> THEN {} ELSE g[Head(n.kids)][path]
        BY DEF path
      <3> HIDE DEF At
      <3>6. QED BY <3>3, <3>4, <3>5
    <2> HIDE DEF At
    <2>2. QED BY <2>1
  <1>2. PICK f : f \in [AnyNode -> V] /\ \A n \in AnyNode : f[n] = F[n][f]
    <2>1. F \in Recursion(AnyNode, V)
      <3>1. ASSUME NEW n \in AnyNode, NEW g \in [AnyNode -> V]
            PROVE  Value(g, n) \in V
        <4> HIDE DEF V, Value
        <4>1. n.kids # <<>> => Head(n.kids) \in AnyNode
          BY NodeKids
        <4>2. QED BY <1>1, <4>1
      <3> HIDE DEF Value, V
      <3>2. QED BY <3>1 DEF Recursion
    <2>2. ASSUME NEW n \in AnyNode, NEW g \in [AnyNode -> V], NEW h \in [AnyNode -> V],
                 \A i \in DOMAIN n.kids : g[n.kids[i]] = h[n.kids[i]]
          PROVE  F[n][g] = F[n][h]
      <3> HIDE DEF V
      <3>1. n.kids # <<>> => g[Head(n.kids)] = h[Head(n.kids)]
        BY <2>2, NodeKids
      <3>2. \A above \in Seq(Name) : At(g, n, above) = At(h, n, above)
        BY <3>1
      <3> HIDE DEF At
      <3>3. Value(g, n) = Value(h, n)
        BY <3>2
      <3> HIDE DEF Value
      <3>4. QED BY <3>3
    <2>3. V # {}
      <3>1. [above \in Seq(Name) |-> {}] \in V
        OBVIOUS
      <3>2. QED BY <3>1
    <2> HIDE DEF F, V
    <2>4. ReadsNodes(F, V)
      BY <2>2 DEF ReadsNodes
    <2>5. QED BY <2>1, <2>3, <2>4, NodeRecursion DEF IsSolution
  <1>3. f = [n \in AnyNode |-> Value(f, n)]
    <2> HIDE DEF Value, V
    <2>1. \A n \in AnyNode : f[n] = Value(f, n)
      BY <1>2
    <2>2. f = [n \in AnyNode |-> f[n]]
      BY <1>2
    <2>3. QED BY <2>1, <2>2
  <1>4. fetched = [n \in AnyNode |-> Value(fetched, n)]
    BY <1>3
  <1>5. \A n \in AnyNode, above \in Seq(Name) : Fetched(n, above) = fetched[n][above]
    BY DEF Fetched
  <1> HIDE DEF fetched
  <1>6. \A n \in AnyNode : fetched[n] = Value(fetched, n)
    <2> HIDE DEF Value
    <2>1. QED BY <1>4
  <1>7. \A n \in AnyNode : fetched[n] \in V
    <2> DEFINE S == {n \in AnyNode : fetched[n] \in V}
    <2> HIDE DEF V, Value
    <2>1. ASSUME NEW n \in AnyNode, \A i \in DOMAIN n.kids : n.kids[i] \in S
          PROVE  n \in S
      <3>1. n.kids # <<>> => fetched[Head(n.kids)] \in V
        BY <2>1, NodeKids
      <3>2. QED BY <3>1, <1>1, <1>6
    <2> HIDE DEF S
    <2>2. AnyNode \subseteq S
      BY <2>1, ByNode
    <2>3. QED BY <2>2 DEF S
  <1>8. Fetched(node, parent) = At(fetched, node, parent)
    <2> HIDE DEF At
    <2>1. QED BY <1>5, <1>6
  <1>9. node.kids # <<>> => Fetched(Head(node.kids), Append(parent, node.name))
                              = fetched[Head(node.kids)][Append(parent, node.name)]
    <2>1. Append(parent, node.name) \in Seq(Name)
      BY NodeKids
    <2>2. QED BY <1>5, <2>1, NodeKids
  <1>10. Fetched(node, parent) \subseteq Listed
    BY <1>5, <1>7
  <1>11. QED BY <1>8, <1>9, <1>10

Compared == [path : AnyPath, mine : Hash \cup {None}, theirs : Hash \cup {None}]

(* The nodes a node is compared with, and what comes of it; below gives it *)
(* for the children.                                                       *)
Same(node, others) ==
  {j \in HashMapFind(others, node.name) : others[j].type = node.type}
Alone(node, at) ==
  {[path |-> r.path, mine |-> r.hash, theirs |-> None] : r \in Reached(node, at)}

(* Met has the value its equation gives.                                   *)
LEMMA MetDef ==
  ASSUME NEW layer \in AnyLayer, NEW others \in AnyLayer, NEW parent \in Seq(Name)
  PROVE  /\ Met(layer, others, parent) \subseteq Compared
         /\ Met(layer, others, parent) =
              UNION {IF Same(layer[i], others) = {} THEN Alone(layer[i], parent)
                     ELSE UNION {IF layer[i].type = 1
                                 THEN {[path |-> Append(parent, layer[i].name),
                                        mine |-> layer[i].hash, theirs |-> others[j].hash]}
                                 ELSE Met(layer[i].kids, others[j].kids,
                                          Append(parent, layer[i].name))
                                 : j \in Same(layer[i], others)}
                     : i \in DOMAIN layer}
  <1> DEFINE Meets(below, n, o, above) ==
               IF Same(n, o) = {} THEN Alone(n, above)
               ELSE UNION {IF n.type = 1
                           THEN {[path |-> Append(above, n.name), mine |-> n.hash,
                                  theirs |-> o[j].hash]}
                           ELSE below[o[j].kids][Append(above, n.name)]
                           : j \in Same(n, o)}
             At(g, l, o, above) == UNION {Meets(g[l[i].kids], l[i], o, above) : i \in DOMAIN l}
             Value(g, l) == [o \in AnyLayer |-> [above \in Seq(Name) |-> At(g, l, o, above)]]
             V == [AnyLayer -> [Seq(Name) -> SUBSET Compared]]
             F == [l \in AnyLayer |-> [g \in [AnyLayer -> V] |-> Value(g, l)]]
             met[l \in AnyLayer] == [o \in AnyLayer |-> [above \in Seq(Name) |->
               UNION {LET node == l[i]
                          same == {j \in HashMapFind(o, node.name) : o[j].type = node.type}
                      IN IF same = {}
                         THEN {[path |-> r.path, mine |-> r.hash, theirs |-> None]
                               : r \in Reached(node, above)}
                         ELSE UNION {IF node.type = 1
                                     THEN {[path |-> Append(above, node.name), mine |-> node.hash,
                                            theirs |-> o[j].hash]}
                                     ELSE met[node.kids][o[j].kids][Append(above, node.name)]
                                     : j \in same}
                      : i \in DOMAIN l}]]
  <1>1. ASSUME NEW n \in AnyNode, NEW below \in V, NEW o \in AnyLayer, NEW above \in Seq(Name)
        PROVE  Meets(below, n, o, above) \in SUBSET Compared
    <2> DEFINE path == Append(above, n.name)
    <2>1. path \in AnyPath /\ path \in Seq(Name) /\ n.hash \in Hash \cup {None}
      BY NodeKids, PathBelow
    <2>2. Alone(n, above) \in SUBSET Compared
      <3>1. \A r \in Reached(n, above) : r.path \in AnyPath /\ r.hash \in Hash \cup {None}
        BY ReachedDef DEF Listed
      <3>2. \A r \in Reached(n, above) :
              [path |-> r.path, mine |-> r.hash, theirs |-> None] \in Compared
        BY <3>1 DEF Compared
      <3> HIDE DEF Compared
      <3>3. QED BY <3>2 DEF Alone
    <2>3. ASSUME NEW j \in Same(n, o)
          PROVE  /\ [path |-> path, mine |-> n.hash, theirs |-> o[j].hash] \in Compared
                 /\ below[o[j].kids][path] \in SUBSET Compared
      <3>1. j \in DOMAIN o
        BY MapPlaces DEF Same
      <3>2. o[j].hash \in Hash \cup {None} /\ o[j].kids \in AnyLayer
        BY <3>1, AnyLayerKids, NodeKids
      <3>3. below[o[j].kids] \in [Seq(Name) -> SUBSET Compared]
        <4> DEFINE W == [Seq(Name) -> SUBSET Compared]
        <4>1. below \in [AnyLayer -> W]
          OBVIOUS
        <4> HIDE DEF W
        <4>2. below[o[j].kids] \in W
          BY <4>1, <3>2
        <4>3. QED BY <4>2 DEF W
      <3> HIDE DEF path
      <3> DEFINE t == below[o[j].kids]
      <3> HIDE DEF t
      <3>4. t[path] \in SUBSET Compared
        BY <2>1, <3>3 DEF t
      <3>5. [path |-> path, mine |-> n.hash, theirs |-> o[j].hash] \in Compared
        BY <2>1, <3>2 DEF Compared
      <3>6. QED BY <3>4, <3>5 DEF t
    <2>4. Meets(below, n, o, above) =
            IF Same(n, o) = {} THEN Alone(n, above)
            ELSE UNION {IF n.type = 1
                        THEN {[path |-> path, mine |-> n.hash, theirs |-> o[j].hash]}
                        ELSE below[o[j].kids][path]
                        : j \in Same(n, o)}
      OBVIOUS
    <2> HIDE DEF path, V, Meets
    <2>5. \A j \in Same(n, o) :
            (IF n.type = 1 THEN {[path |-> path, mine |-> n.hash, theirs |-> o[j].hash]}
             ELSE below[o[j].kids][path]) \in SUBSET Compared
      <3> HIDE DEF Compared
      <3>1. QED BY <2>3
    <2> HIDE DEF Compared
    <2>6. CASE Same(n, o) = {}
      BY <2>2, <2>4, <2>6
    <2>7. CASE Same(n, o) # {}
      <3> DEFINE Of(j) == IF n.type = 1
                          THEN {[path |-> path, mine |-> n.hash, theirs |-> o[j].hash]}
                          ELSE below[o[j].kids][path]
      <3>1. Meets(below, n, o, above) = UNION {Of(j) : j \in Same(n, o)}
        BY <2>4, <2>7
      <3>2. \A j \in Same(n, o) : Of(j) \in SUBSET Compared
        BY <2>5
      <3> HIDE DEF Of
      <3>3. QED BY <3>1, <3>2
    <2>8. QED BY <2>6, <2>7
  <1> DEFINE W == [Seq(Name) -> SUBSET Compared]
  <1>2. ASSUME NEW l \in AnyLayer, NEW g, \A i \in DOMAIN l : g[l[i].kids] \in V
        PROVE  Value(g, l) \in V
    <2>1. ASSUME NEW o \in AnyLayer, NEW above \in Seq(Name)
          PROVE  At(g, l, o, above) \in SUBSET Compared
      <3> HIDE DEF Meets, V
      <3>1. \A i \in DOMAIN l : Meets(g[l[i].kids], l[i], o, above) \in SUBSET Compared
        BY <1>1, <1>2, AnyLayerKids
      <3>2. QED BY <3>1
    <2> HIDE DEF At
    <2>2. \A o \in AnyLayer : [above \in Seq(Name) |-> At(g, l, o, above)] \in W
      BY <2>1
    <2> HIDE DEF W
    <2>3. Value(g, l) \in [AnyLayer -> W]
      BY <2>2
    <2>4. QED BY <2>3 DEF W
  <1>3. PICK f : f \in [AnyLayer -> V] /\ \A l \in AnyLayer : f[l] = F[l][f]
    <2>1. F \in Recursion(AnyLayer, V)
      <3>1. ASSUME NEW l \in AnyLayer, NEW g \in [AnyLayer -> V]
            PROVE  Value(g, l) \in V
        <4> HIDE DEF V, Value
        <4>1. QED BY <1>2, AnyLayerKids
      <3> HIDE DEF Value, V
      <3>2. QED BY <3>1 DEF Recursion
    <2>2. ASSUME NEW l \in AnyLayer, NEW g \in [AnyLayer -> V], NEW h \in [AnyLayer -> V],
                 \A i \in DOMAIN l : g[l[i].kids] = h[l[i].kids]
          PROVE  F[l][g] = F[l][h]
      <3> HIDE DEF Meets, V
      <3>1. \A o \in AnyLayer, above \in Seq(Name) : At(g, l, o, above) = At(h, l, o, above)
        BY <2>2
      <3> HIDE DEF At
      <3>2. \A o \in AnyLayer : [above \in Seq(Name) |-> At(g, l, o, above)]
                                  = [above \in Seq(Name) |-> At(h, l, o, above)]
        BY <3>1
      <3>3. Value(g, l) = Value(h, l)
        BY <3>2, Zenon
      <3> HIDE DEF Value
      <3>4. QED BY <3>3
    <2>3. V # {}
      <3>1. [above \in Seq(Name) |-> {}] \in W
        OBVIOUS
      <3>2. V = [AnyLayer -> W]
        OBVIOUS
      <3> HIDE DEF W, V
      <3>3. [o \in AnyLayer |-> [above \in Seq(Name) |-> {}]] \in V
        BY <3>1, <3>2
      <3>4. QED BY <3>3
    <2> HIDE DEF F, V
    <2>4. ReadsKids(F, V)
      BY <2>2 DEF ReadsKids
    <2>5. QED BY <2>1, <2>3, <2>4, LayerRecursion DEF IsSolution
  <1>4. f = [l \in AnyLayer |-> Value(f, l)]
    <2> HIDE DEF Value, V
    <2>1. \A l \in AnyLayer : f[l] = Value(f, l)
      BY <1>3
    <2>2. f = [l \in AnyLayer |-> f[l]]
      BY <1>3
    <2>3. QED BY <2>1, <2>2
  <1>5. met = [l \in AnyLayer |-> Value(met, l)]
    BY <1>4 DEF Same, Alone
  <1>6. \A l \in AnyLayer, o \in AnyLayer, above \in Seq(Name) : Met(l, o, above) = met[l][o][above]
    BY DEF Met
  <1> HIDE DEF met
  <1>7. \A l \in AnyLayer : met[l] = Value(met, l)
    <2> HIDE DEF Value
    <2>1. QED BY <1>5
  <1>8. \A l \in AnyLayer : met[l] \in V
    <2> DEFINE S == {l \in AnyLayer : met[l] \in V}
    <2> HIDE DEF V, Value
    <2>1. ASSUME NEW l \in AnyLayer, \A i \in DOMAIN l : l[i].kids \in S
          PROVE  l \in S
      BY <2>1, <1>2, <1>7
    <2> HIDE DEF S
    <2>2. AnyLayer \subseteq S
      BY <2>1, ByDepth
    <2>3. QED BY <2>2 DEF S
  <1>9. Met(layer, others, parent) \in SUBSET Compared
    <2>1. V = [AnyLayer -> W]
      OBVIOUS
    <2> HIDE DEF W, V
    <2>2. met[layer][others] \in W
      BY <1>8, <2>1
    <2>3. met[layer][others][parent] \in SUBSET Compared
      BY <2>2 DEF W
    <2>4. QED BY <1>6, <2>3
  <1>10. Met(layer, others, parent) = At(met, layer, others, parent)
    <2> HIDE DEF At
    <2>1. met[layer] = Value(met, layer)
      BY <1>7
    <2>2. met[layer][others] = [above \in Seq(Name) |-> At(met, layer, others, above)]
      BY <2>1
    <2>3. QED BY <1>6, <2>2
  <1> DEFINE Meets2(i) ==
               IF Same(layer[i], others) = {} THEN Alone(layer[i], parent)
               ELSE UNION {IF layer[i].type = 1
                           THEN {[path |-> Append(parent, layer[i].name),
                                  mine |-> layer[i].hash, theirs |-> others[j].hash]}
                           ELSE Met(layer[i].kids, others[j].kids, Append(parent, layer[i].name))
                           : j \in Same(layer[i], others)}
  <1>11. ASSUME NEW i \in DOMAIN layer
         PROVE  Meets(met[layer[i].kids], layer[i], others, parent) = Meets2(i)
    <2>1. layer[i].kids \in AnyLayer /\ Append(parent, layer[i].name) \in Seq(Name)
      BY AnyLayerKids, NodeKids, PathBelow
    <2>2. \A j \in Same(layer[i], others) : others[j].kids \in AnyLayer
      BY MapPlaces, AnyLayerKids DEF Same
    <2>3. \A j \in Same(layer[i], others) :
            met[layer[i].kids][others[j].kids][Append(parent, layer[i].name)]
              = Met(layer[i].kids, others[j].kids, Append(parent, layer[i].name))
      BY <1>6, <2>1, <2>2
    <2>4. QED BY <2>3
  <1> HIDE DEF Meets
  <1>12. Met(layer, others, parent) = UNION {Meets2(i) : i \in DOMAIN layer}
    <2> HIDE DEF Meets2
    <2>1. QED BY <1>10, <1>11
  <1>13. QED BY <1>9, <1>12

-----------------------------------------------------------------------------
(* Added, CompareFaults, Nodes                                             *)

AddLines == [mode : {"A"}, path : AnyPath, new : {None}]

(* Every line of Added comes from two nodes of one name.                   *)
LEMMA AddedDef ==
  ASSUME NEW layer \in AnyLayer, NEW others \in AnyLayer
  PROVE  /\ Added(layer, others) \subseteq AddLines
         /\ \A line \in Added(layer, others) :
              \E j \in DOMAIN others : \E i \in HashMapFind(layer, others[j].name) :
                \/ layer[i].type # others[j].type
                \/ line \in Added(layer[i].kids, others[j].kids)
  <1> DEFINE Adds(below, n, m) ==
               IF n.type # m.type
               THEN {[mode |-> "A", path |-> r.path, new |-> None] : r \in Reached(m, <<>>)}
               ELSE IF n.type = 2 THEN below[m.kids] ELSE {}
             Value(g, l) == [o \in AnyLayer |->
               UNION {UNION {Adds(g[l[i].kids], l[i], o[j]) : i \in HashMapFind(l, o[j].name)}
                      : j \in DOMAIN o}]
             V == [AnyLayer -> SUBSET AddLines]
             F == [l \in AnyLayer |-> [g \in [AnyLayer -> V] |-> Value(g, l)]]
             added[l \in AnyLayer] == [o \in AnyLayer |->
               UNION {UNION {IF l[i].type # o[j].type
                             THEN {[mode |-> "A", path |-> r.path, new |-> None]
                                   : r \in Reached(o[j], <<>>)}
                             ELSE IF l[i].type = 2 THEN added[l[i].kids][o[j].kids] ELSE {}
                             : i \in HashMapFind(l, o[j].name)}
                      : j \in DOMAIN o}]
  <1>1. ASSUME NEW n, NEW m \in AnyNode, NEW below \in V
        PROVE  Adds(below, n, m) \in SUBSET AddLines
    <2>1. below[m.kids] \in SUBSET AddLines
      BY NodeKids
    <2>2. \A r \in Reached(m, <<>>) :
            [mode |-> "A", path |-> r.path, new |-> None] \in AddLines
      <3>1. <<>> \in Seq(Name)
        OBVIOUS
      <3>2. \A r \in Reached(m, <<>>) : r.path \in AnyPath
        BY <3>1, ReachedDef DEF Listed
      <3>3. QED BY <3>2 DEF AddLines
    <2> HIDE DEF V, AddLines
    <2>3. QED BY <2>1, <2>2
  <1>2. ASSUME NEW l \in AnyLayer, NEW g, \A i \in DOMAIN l : g[l[i].kids] \in V
        PROVE  Value(g, l) \in V
    <2> HIDE DEF Adds
    <2>1. ASSUME NEW o \in AnyLayer, NEW j \in DOMAIN o, NEW i \in HashMapFind(l, o[j].name)
          PROVE  Adds(g[l[i].kids], l[i], o[j]) \in SUBSET AddLines
      <3> HIDE DEF V
      <3>1. QED BY <1>1, <1>2, MapPlaces, AnyLayerKids
    <2>2. QED BY <2>1
  <1>3. PICK f : f \in [AnyLayer -> V] /\ \A l \in AnyLayer : f[l] = F[l][f]
    <2>1. F \in Recursion(AnyLayer, V)
      <3>1. ASSUME NEW l \in AnyLayer, NEW g \in [AnyLayer -> V]
            PROVE  Value(g, l) \in V
        <4> HIDE DEF V, Value
        <4>1. QED BY <1>2, AnyLayerKids
      <3> HIDE DEF Value, V
      <3>2. QED BY <3>1 DEF Recursion
    <2>2. ASSUME NEW l \in AnyLayer, NEW g \in [AnyLayer -> V], NEW h \in [AnyLayer -> V],
                 \A i \in DOMAIN l : g[l[i].kids] = h[l[i].kids]
          PROVE  F[l][g] = F[l][h]
      <3> HIDE DEF Adds, V
      <3>1. ASSUME NEW o \in AnyLayer, NEW j \in DOMAIN o
            PROVE  UNION {Adds(g[l[i].kids], l[i], o[j]) : i \in HashMapFind(l, o[j].name)}
                     = UNION {Adds(h[l[i].kids], l[i], o[j]) : i \in HashMapFind(l, o[j].name)}
        BY <2>2, MapPlaces
      <3> DEFINE Of(d, o, j) ==
                   UNION {Adds(d[l[i].kids], l[i], o[j]) : i \in HashMapFind(l, o[j].name)}
      <3>2. \A o \in AnyLayer : \A j \in DOMAIN o : Of(g, o, j) = Of(h, o, j)
        BY <3>1
      <3>3. /\ Value(g, l) = [o \in AnyLayer |-> UNION {Of(g, o, j) : j \in DOMAIN o}]
            /\ Value(h, l) = [o \in AnyLayer |-> UNION {Of(h, o, j) : j \in DOMAIN o}]
        OBVIOUS
      <3> HIDE DEF Value, Of
      <3>4. \A o \in AnyLayer :
              UNION {Of(g, o, j) : j \in DOMAIN o} = UNION {Of(h, o, j) : j \in DOMAIN o}
        BY <3>2
      <3>5. QED BY <3>3, <3>4
    <2>3. V # {}
      <3>1. [o \in AnyLayer |-> {}] \in V
        OBVIOUS
      <3>2. QED BY <3>1
    <2> HIDE DEF F, V
    <2>4. ReadsKids(F, V)
      BY <2>2 DEF ReadsKids
    <2>5. QED BY <2>1, <2>3, <2>4, LayerRecursion DEF IsSolution
  <1>4. f = [l \in AnyLayer |-> Value(f, l)]
    <2> HIDE DEF Value, V
    <2>1. \A l \in AnyLayer : f[l] = Value(f, l)
      BY <1>3
    <2>2. f = [l \in AnyLayer |-> f[l]]
      BY <1>3
    <2>3. QED BY <2>1, <2>2
  <1>5. added = [l \in AnyLayer |-> Value(added, l)]
    BY <1>4
  <1>6. \A l \in AnyLayer, o \in AnyLayer : Added(l, o) = added[l][o]
    BY DEF Added
  <1> HIDE DEF added
  <1>7. \A l \in AnyLayer : added[l] = Value(added, l)
    <2> HIDE DEF Value
    <2>1. QED BY <1>5
  <1>8. \A l \in AnyLayer : added[l] \in V
    <2> DEFINE S == {l \in AnyLayer : added[l] \in V}
    <2> HIDE DEF V, Value
    <2>1. ASSUME NEW l \in AnyLayer, \A i \in DOMAIN l : l[i].kids \in S
          PROVE  l \in S
      BY <2>1, <1>2, <1>7
    <2> HIDE DEF S
    <2>2. AnyLayer \subseteq S
      BY <2>1, ByDepth
    <2>3. QED BY <2>2 DEF S
  <1>9. ASSUME NEW line \in Added(layer, others)
        PROVE  \E j \in DOMAIN others : \E i \in HashMapFind(layer, others[j].name) :
                 layer[i].type # others[j].type \/ line \in Added(layer[i].kids, others[j].kids)
    <2>1. Value(added, layer)[others] =
            UNION {UNION {Adds(added[layer[i].kids], layer[i], others[j])
                          : i \in HashMapFind(layer, others[j].name)}
                   : j \in DOMAIN others}
      OBVIOUS
    <2> HIDE DEF Value, Adds
    <2>2. PICK j \in DOMAIN others : \E i \in HashMapFind(layer, others[j].name) :
            line \in Adds(added[layer[i].kids], layer[i], others[j])
      BY <1>6, <1>7, <1>9, <2>1
    <2>3. PICK i \in HashMapFind(layer, others[j].name) :
            line \in Adds(added[layer[i].kids], layer[i], others[j])
      BY <2>2
    <2>4. Added(layer[i].kids, others[j].kids) = added[layer[i].kids][others[j].kids]
      BY <1>6, MapPlaces, AnyLayerKids
    <2>5. QED BY <2>3, <2>4 DEF Adds
  <1>10. QED BY <1>6, <1>8, <1>9

(* CompareFaults has the value its equation gives.                         *)
LEMMA CompareFaultsDef ==
  ASSUME NEW layer \in AnyLayer, NEW others \in AnyLayer
  PROVE  CompareFaults(layer, others) <=>
           \E j \in DOMAIN others :
             LET found == HashMapFind(layer, others[j].name)
             IN \/ found = {}
                \/ \E i \in found : /\ layer[i].type = 2 /\ others[j].type = 2
                                    /\ CompareFaults(layer[i].kids, others[j].kids)
  <1> DEFINE At(g, l, o) ==
               \E j \in DOMAIN o :
                 LET found == HashMapFind(l, o[j].name)
                 IN \/ found = {}
                    \/ \E i \in found : l[i].type = 2 /\ o[j].type = 2 /\ g[l[i].kids][o[j].kids]
             Value(g, l) == [o \in AnyLayer |-> At(g, l, o)]
             V == [AnyLayer -> BOOLEAN]
             F == [l \in AnyLayer |-> [g \in [AnyLayer -> V] |-> Value(g, l)]]
             faults[l \in AnyLayer] == [o \in AnyLayer |->
               \E j \in DOMAIN o :
                 LET found == HashMapFind(l, o[j].name)
                 IN \/ found = {}
                    \/ \E i \in found : l[i].type = 2 /\ o[j].type = 2
                                        /\ faults[l[i].kids][o[j].kids]]
  <1>1. \A g, l, o : At(g, l, o) \in BOOLEAN
    OBVIOUS
  <1>2. ASSUME NEW l, NEW g
        PROVE  Value(g, l) \in V
    <2> HIDE DEF At
    <2>1. QED BY <1>1
  <1>3. PICK f : f \in [AnyLayer -> V] /\ \A l \in AnyLayer : f[l] = F[l][f]
    <2>1. F \in Recursion(AnyLayer, V)
      <3> HIDE DEF Value, V
      <3>2. QED BY <1>2 DEF Recursion
    <2>2. ASSUME NEW l \in AnyLayer, NEW g \in [AnyLayer -> V], NEW h \in [AnyLayer -> V],
                 \A i \in DOMAIN l : g[l[i].kids] = h[l[i].kids]
          PROVE  F[l][g] = F[l][h]
      <3> HIDE DEF V
      <3>1. ASSUME NEW o \in AnyLayer
            PROVE  At(g, l, o) = At(h, l, o)
        BY <2>2, MapPlaces
      <3> HIDE DEF At
      <3>2. Value(g, l) = Value(h, l)
        BY <3>1
      <3> HIDE DEF Value
      <3>4. QED BY <3>2
    <2>3. V # {}
      <3>1. [o \in AnyLayer |-> TRUE] \in V
        OBVIOUS
      <3>2. QED BY <3>1
    <2> HIDE DEF F, V
    <2>4. ReadsKids(F, V)
      BY <2>2 DEF ReadsKids
    <2>5. QED BY <2>1, <2>3, <2>4, LayerRecursion DEF IsSolution
  <1>4. f = [l \in AnyLayer |-> Value(f, l)]
    <2> HIDE DEF Value, V
    <2>1. \A l \in AnyLayer : f[l] = Value(f, l)
      BY <1>3
    <2>2. f = [l \in AnyLayer |-> f[l]]
      BY <1>3
    <2>3. QED BY <2>1, <2>2
  <1>5. faults = [l \in AnyLayer |-> Value(faults, l)]
    <2>1. f = [l \in AnyLayer |-> [o \in AnyLayer |->
               \E j \in DOMAIN o :
                 LET found == HashMapFind(l, o[j].name)
                 IN \/ found = {}
                    \/ \E i \in found : l[i].type = 2 /\ o[j].type = 2
                                        /\ f[l[i].kids][o[j].kids]]]
      BY <1>4
    <2>2. \E g : g = [l \in AnyLayer |-> [o \in AnyLayer |->
               \E j \in DOMAIN o :
                 LET found == HashMapFind(l, o[j].name)
                 IN \/ found = {}
                    \/ \E i \in found : l[i].type = 2 /\ o[j].type = 2
                                        /\ g[l[i].kids][o[j].kids]]]
      BY <2>1, Zenon
    <2> HIDE DEF Value
    <2>3. faults = [l \in AnyLayer |-> [o \in AnyLayer |->
               \E j \in DOMAIN o :
                 LET found == HashMapFind(l, o[j].name)
                 IN \/ found = {}
                    \/ \E i \in found : l[i].type = 2 /\ o[j].type = 2
                                        /\ faults[l[i].kids][o[j].kids]]]
      BY <2>2, Zenon
    <2>4. QED BY <2>3 DEF Value
  <1>6. \A l \in AnyLayer, o \in AnyLayer : CompareFaults(l, o) = faults[l][o]
    BY DEF CompareFaults
  <1> HIDE DEF faults
  <1>7. \A l \in AnyLayer : faults[l] = Value(faults, l)
    <2> HIDE DEF Value
    <2>1. QED BY <1>5
  <1>8. CompareFaults(layer, others) = At(faults, layer, others)
    <2> HIDE DEF At
    <2>1. QED BY <1>6, <1>7
  <1>9. \A j \in DOMAIN others : \A i \in HashMapFind(layer, others[j].name) :
          faults[layer[i].kids][others[j].kids] = CompareFaults(layer[i].kids, others[j].kids)
    BY <1>6, MapPlaces, AnyLayerKids
  <1>10. QED BY <1>8, <1>9

(* Nodes has the value its equation gives.                                 *)
LEMMA NodesDef ==
  ASSUME NEW layer \in AnyLayer, NEW parent \in Seq(Name)
  PROVE  Nodes(layer, parent) =
           UNION {LET path == Append(parent, layer[i].name)
                  IN {[path |-> path, type |-> layer[i].type]} \cup Nodes(layer[i].kids, path)
                  : i \in DOMAIN layer}
  <1> DEFINE Typed == [path : Seq(Name), type : {1, 2}]
             Of(below, n, above) ==
               LET path == Append(above, n.name)
               IN {[path |-> path, type |-> n.type]} \cup below[path]
             At(g, l, above) == UNION {Of(g[l[i].kids], l[i], above) : i \in DOMAIN l}
             Value(g, l) == [above \in Seq(Name) |-> At(g, l, above)]
             V == [Seq(Name) -> SUBSET Typed]
             F == [l \in AnyLayer |-> [g \in [AnyLayer -> V] |-> Value(g, l)]]
             nodes[l \in AnyLayer] == [above \in Seq(Name) |->
               UNION {LET path == Append(above, l[i].name)
                      IN {[path |-> path, type |-> l[i].type]} \cup nodes[l[i].kids][path]
                      : i \in DOMAIN l}]
  <1>1. ASSUME NEW n \in AnyNode, NEW below \in V, NEW above \in Seq(Name)
        PROVE  Of(below, n, above) \in SUBSET Typed
    <2> DEFINE path == Append(above, n.name)
    <2>1. path \in Seq(Name) /\ n.type \in {1, 2}
      BY NodeKids, PathBelow
    <2> HIDE DEF path
    <2>2. below[path] \in SUBSET Typed /\ [path |-> path, type |-> n.type] \in Typed
      BY <2>1
    <2>3. Of(below, n, above) = {[path |-> path, type |-> n.type]} \cup below[path]
      BY DEF path
    <2> HIDE DEF Typed, V, Of
    <2>4. QED BY <2>2, <2>3
  <1>2. ASSUME NEW l \in AnyLayer, NEW g, \A i \in DOMAIN l : g[l[i].kids] \in V
        PROVE  Value(g, l) \in V
    <2> HIDE DEF Of
    <2>1. ASSUME NEW above \in Seq(Name)
          PROVE  At(g, l, above) \in SUBSET Typed
      <3> HIDE DEF V, Typed
      <3>1. \A i \in DOMAIN l : Of(g[l[i].kids], l[i], above) \in SUBSET Typed
        BY <1>1, <1>2, AnyLayerKids
      <3>2. QED BY <3>1
    <2> HIDE DEF At, Typed
    <2>2. QED BY <2>1
  <1>3. PICK f : f \in [AnyLayer -> V] /\ \A l \in AnyLayer : f[l] = F[l][f]
    <2>1. F \in Recursion(AnyLayer, V)
      <3>1. ASSUME NEW l \in AnyLayer, NEW g \in [AnyLayer -> V]
            PROVE  Value(g, l) \in V
        <4> HIDE DEF V, Value
        <4>1. QED BY <1>2, AnyLayerKids
      <3> HIDE DEF Value, V
      <3>2. QED BY <3>1 DEF Recursion
    <2>2. ASSUME NEW l \in AnyLayer, NEW g \in [AnyLayer -> V], NEW h \in [AnyLayer -> V],
                 \A i \in DOMAIN l : g[l[i].kids] = h[l[i].kids]
          PROVE  F[l][g] = F[l][h]
      <3> HIDE DEF Of, V
      <3>1. ASSUME NEW above \in Seq(Name)
            PROVE  At(g, l, above) = At(h, l, above)
        BY <2>2
      <3> HIDE DEF At
      <3>2. Value(g, l) = Value(h, l)
        BY <3>1
      <3> HIDE DEF Value
      <3>4. QED BY <3>2
    <2>3. V # {}
      <3>1. [above \in Seq(Name) |-> {}] \in V
        OBVIOUS
      <3>2. QED BY <3>1
    <2> HIDE DEF F, V
    <2>4. ReadsKids(F, V)
      BY <2>2 DEF ReadsKids
    <2>5. QED BY <2>1, <2>3, <2>4, LayerRecursion DEF IsSolution
  <1>4. f = [l \in AnyLayer |-> Value(f, l)]
    <2> HIDE DEF Value, V
    <2>1. \A l \in AnyLayer : f[l] = Value(f, l)
      BY <1>3
    <2>2. f = [l \in AnyLayer |-> f[l]]
      BY <1>3
    <2>3. QED BY <2>1, <2>2
  <1>5. nodes = [l \in AnyLayer |-> Value(nodes, l)]
    BY <1>4
  <1>6. \A l \in AnyLayer, above \in Seq(Name) : Nodes(l, above) = nodes[l][above]
    BY DEF Nodes
  <1> HIDE DEF nodes
  <1>7. \A l \in AnyLayer : nodes[l] = Value(nodes, l)
    <2> HIDE DEF Value
    <2>1. QED BY <1>5
  <1>8. Nodes(layer, parent) = At(nodes, layer, parent)
    <2> HIDE DEF At
    <2>1. QED BY <1>6, <1>7
  <1>9. \A i \in DOMAIN layer : Of(nodes[layer[i].kids], layer[i], parent)
          = {[path |-> Append(parent, layer[i].name), type |-> layer[i].type]}
              \cup Nodes(layer[i].kids, Append(parent, layer[i].name))
    <2>1. \A i \in DOMAIN layer :
            layer[i].kids \in AnyLayer /\ Append(parent, layer[i].name) \in Seq(Name)
      BY AnyLayerKids, NodeKids, PathBelow
    <2>2. QED BY <1>6, <2>1
  <1> HIDE DEF Of
  <1>10. QED BY <1>8, <1>9

-----------------------------------------------------------------------------
(* add and remove build trees no deeper than the path needs.               *)

(* Layers of a smaller depth are layers of the model.                      *)
LEMMA AnyDepth ==
  ASSUME NEW n \in Nat, n <= MaxDepth
  PROVE  LayersOf[n] \subseteq AnyLayer /\ <<>> \in LayersOf[n]
  <1>1. LayersOf[0] \subseteq LayersOf[n]
    BY LayersGrow
  <1>2. QED BY <1>1, LayersGrow, LayersOfDef, LayerAssumption DEF AnyLayer

(* add needs no more depth than its path.                                  *)
LEMMA AddDepth ==
  ASSUME NEW hash \in Hash \cup {None}, NEW version \in Nat,
         NEW path \in AnyPath, NEW n \in Nat, NEW layer \in LayersOf[n],
         n <= MaxDepth, Len(path) <= n
  PROVE  AddTo(layer, path, hash, version) \in LayersOf[n]
  <1> DEFINE Add1(l, p) == AddTo(l, p, hash, version)
             Fits(p, m, l) == m <= MaxDepth /\ Len(p) <= m => Add1(l, p) \in LayersOf[m]
             S == {p \in AnyPath : \A m \in Nat : \A l \in LayersOf[m] : Fits(p, m, l)}
  <1>1. ASSUME NEW p \in AnyPath, Len(p) # 1 => Tail(p) \in S
        PROVE  p \in S
    <2>1. SUFFICES ASSUME NEW m \in Nat, NEW l \in LayersOf[m], m <= MaxDepth, Len(p) <= m
                   PROVE  Add1(l, p) \in LayersOf[m]
      OBVIOUS
    <2> DEFINE k == m - 1
               i == SearchStructNodeLayer(l, p[1])
    <2>2. p[1] \in Name /\ Len(p) \in Nat \ {0}
          /\ (Len(p) # 1 => Tail(p) \in AnyPath /\ Len(Tail(p)) = Len(p) - 1)
      BY TailOfPath
    <2>3. k \in Nat /\ k + 1 = m /\ k <= MaxDepth
      BY <2>1, <2>2, LayerAssumption
    <2> HIDE DEF k
    <2>4. l \in LayersOf[k + 1] /\ l \in AnyLayer /\ <<>> \in LayersOf[k]
      BY <2>1, <2>3, AnyDepth
    <2>6. ASSUME NEW kids \in LayersOf[k], Len(p) # 1
          PROVE  Add1(kids, Tail(p)) \in LayersOf[k]
      <3>1. Tail(p) \in S /\ Len(Tail(p)) <= k
        BY <1>1, <2>1, <2>2, <2>3, <2>6
      <3>2. Fits(Tail(p), k, kids)
        BY <3>1, <2>3
      <3>3. QED BY <3>1, <3>2, <2>3
    <2> HIDE DEF Add1
    <2>7. CASE Len(p) = 1
      <3>1. FileNode(p[1], hash, version) \in Node(LayersOf[k])
        BY <2>2, <2>4 DEF FileNode, Node
      <3>2. <<FileNode(p[1], hash, version)>> \o l \in LayersOf[k + 1]
        BY <2>3, <2>4, <3>1, LayerWith
      <3>3. QED BY <2>3, <2>4, <2>7, <3>2, AddDef DEF Add1
    <2>8. CASE Len(p) # 1 /\ i = 0
      <3> DEFINE kids == Add1(<<>>, Tail(p))
      <3>1. kids \in LayersOf[k]
        BY <2>4, <2>6, <2>8
      <3> HIDE DEF kids
      <3>2. FolderNode(p[1], kids, version) \in Node(LayersOf[k])
        BY <2>2, <3>1 DEF FolderNode, Node
      <3>3. <<FolderNode(p[1], kids, version)>> \o l \in LayersOf[k + 1]
        BY <2>3, <2>4, <3>1, <3>2, LayerWith
      <3>4. Add1(l, p) = <<FolderNode(p[1], kids, version)>> \o l
        BY <2>4, <2>8, AddDef DEF Add1, kids
      <3>5. QED BY <2>3, <3>3, <3>4
    <2>9. CASE Len(p) # 1 /\ i # 0
      <3>1. i \in DOMAIN l /\ l[i].kids \in LayersOf[k]
        <4>1. i \in DOMAIN l
          BY <2>4, <2>9, AnyLayerKids, SearchFinds
        <4>2. l[i].kids \in LayersOf[(k + 1) - 1]
          BY <2>3, <2>4, <4>1, KidsOf
        <4>3. QED BY <2>3, <4>1, <4>2
      <3> DEFINE kids == Add1(l[i].kids, Tail(p))
      <3>2. kids \in LayersOf[k]
        BY <2>6, <2>9, <3>1
      <3> HIDE DEF kids, i
      <3>3. WithKids(l, i, kids) \in LayersOf[k + 1]
        BY <2>3, <2>4, <3>1, <3>2, LayerWith DEF WithKids
      <3>4. Add1(l, p) = WithKids(l, i, kids)
        BY <2>4, <2>9, AddDef DEF Add1, kids, i
      <3>5. QED BY <2>3, <3>3, <3>4
    <2>10. QED BY <2>7, <2>8, <2>9
  <1>2. AnyPath \subseteq S
    <2> HIDE DEF S
    <2>1. QED BY <1>1, ByPath
  <1>3. Fits(path, n, layer)
    BY <1>2
  <1>4. QED BY <1>3

(* add gives a layer of the model.                                         *)
LEMMA AddType ==
  ASSUME NEW hash \in Hash \cup {None}, NEW version \in Nat, NEW path \in AnyPath,
         NEW n \in Nat, NEW layer \in LayersOf[n], n <= MaxDepth, Len(path) <= n
  PROVE  layer \in AnyLayer /\ AddTo(layer, path, hash, version) \in AnyLayer
  BY AddDepth, AnyDepth

(* remove needs no more depth.                                             *)
LEMMA WithoutDepth ==
  ASSUME NEW path \in AnyPath, NEW n \in Nat, NEW layer \in LayersOf[n], n <= MaxDepth
  PROVE  Without(layer, path) \in LayersOf[n]
  <1> DEFINE Fits(p, m, l) == m <= MaxDepth => Without(l, p) \in LayersOf[m]
             S == {p \in AnyPath : \A m \in Nat : \A l \in LayersOf[m] : Fits(p, m, l)}
  <1>1. ASSUME NEW p \in AnyPath, Len(p) # 1 => Tail(p) \in S
        PROVE  p \in S
    <2>1. SUFFICES ASSUME NEW m \in Nat, NEW l \in LayersOf[m], m <= MaxDepth
                   PROVE  Without(l, p) \in LayersOf[m]
      OBVIOUS
    <2>2. l \in AnyLayer
      BY <2>1, AnyDepth
    <2>3. CASE Len(p) = 1
      <3> DEFINE i == SearchStructNodeLayer(l, p[1])
      <3>1. Without(l, p) = RemoveAt(l, i)
        BY <2>2, <2>3, WithoutDef
      <3>2. l \in Seq(AnyNode) /\ i \in 0..Len(l)
        BY <2>2, AnyLayerKids, SearchFinds
      <3> HIDE DEF i
      <3>3. CASE m = 0
        <4>1. l = <<>>
          BY <3>3, LayersOfDef
        <4>2. i = 0
          BY <3>2, <4>1
        <4>3. RemoveAt(l, i) \in Seq(AnyNode) /\ Len(RemoveAt(l, i)) = 0
          BY <3>2, <4>1, <4>2, RemoveAtIs
        <4>4. RemoveAt(l, i) = <<>>
          BY <4>3
        <4>5. QED BY <3>1, <4>1, <4>4
      <3>4. CASE m # 0
        <4> DEFINE k == m - 1
        <4>1. k \in Nat /\ k + 1 = m
          BY <3>4
        <4> HIDE DEF k
        <4>2. LayersOf[m] = Seq(Node(LayersOf[k]))
          BY <4>1, LayersOfDef
        <4>3. RemoveAt(l, i) \in Seq(Node(LayersOf[k]))
          BY <3>2, <4>2, RemoveAtIs
        <4>4. QED BY <3>1, <4>2, <4>3
      <3>5. QED BY <3>3, <3>4
    <2>4. CASE Len(p) # 1
      <3> DEFINE i == MapPlace(l, p[1])
      <3>2. Tail(p) \in S /\ Tail(p) \in AnyPath
        BY <1>1, <2>4
      <3>3. l \in Seq(AnyNode)
        BY <2>2, AnyLayerKids
      <3> HIDE DEF i
      <3>4. CASE i \in DOMAIN l
        <4>1. m # 0 /\ l[i].kids \in LayersOf[m - 1]
          BY <3>4, KidsOf
        <4> DEFINE k == m - 1
        <4>2. k \in Nat /\ k + 1 = m /\ k <= MaxDepth
          BY <2>1, <4>1, LayerAssumption
        <4>3. Fits(Tail(p), k, l[i].kids)
          BY <3>2, <4>1, <4>2
        <4> DEFINE kids == Without(l[i].kids, Tail(p))
        <4>4. kids \in LayersOf[k]
          BY <4>2, <4>3
        <4> HIDE DEF k, kids
        <4>5. WithKids(l, i, kids) \in LayersOf[k + 1]
          BY <3>4, <4>2, <4>4, LayerWith DEF WithKids
        <4>6. Without(l, p) = WithKids(l, i, kids)
          BY <2>2, <2>4, <3>4, WithoutDef DEF kids, i
        <4>7. QED BY <4>2, <4>5, <4>6
      <3>5. CASE i \notin DOMAIN l
        <4>1. Without(l, p) = l
          BY <2>2, <2>4, <3>5, WithoutDef DEF i
        <4>2. QED BY <4>1
      <3>6. QED BY <3>4, <3>5
    <2>5. QED BY <2>3, <2>4
  <1>2. AnyPath \subseteq S
    <2> HIDE DEF S
    <2>1. QED BY <1>1, ByPath
  <1>3. Fits(path, n, layer)
    BY <1>2
  <1>4. QED BY <1>3

(* No folder of the layer, however deep, has a name twice.                 *)
Tidy(layer) == \A l \in Layers(layer) : Distinct(l)

(* A layer is tidy when its own names are apart and the children of its    *)
(* nodes are tidy.                                                         *)
LEMMA TidyDef ==
  ASSUME NEW layer \in AnyLayer
  PROVE  Tidy(layer) <=> Distinct(layer) /\ \A i \in DOMAIN layer : Tidy(layer[i].kids)
  BY LayersDef DEF Tidy

(* The folder create makes is tidy.                                        *)
LEMMA TidyEmpty == Tidy(<<>>)
  <1>1. Distinct(<<>>)
    BY DEF Distinct
  <1>2. QED BY <1>1, EmptyLayer, TidyDef

-----------------------------------------------------------------------------
(* Sequences: another node in front, other children, a prefix.             *)

(* Other children change nothing else.                                     *)
LEMMA WithKidsHas ==
  ASSUME NEW l \in AnyLayer, NEW i \in DOMAIN l, NEW kids
  PROVE  /\ DOMAIN WithKids(l, i, kids) = DOMAIN l
         /\ \A j \in DOMAIN l :
              /\ WithKids(l, i, kids)[j].name = l[j].name
              /\ WithKids(l, i, kids)[j].type = l[j].type
              /\ WithKids(l, i, kids)[j].hash = l[j].hash
              /\ WithKids(l, i, kids)[j].version = l[j].version
              /\ WithKids(l, i, kids)[j].kids = IF j = i THEN kids ELSE l[j].kids
  <1>1. l \in Seq(AnyNode)
    BY AnyLayerKids
  <1>2. \A j \in DOMAIN l : l[j] \in AnyNode
    BY <1>1
  <1>3. \A j \in DOMAIN l : WithKids(l, i, kids)[j] = IF j = i THEN [l[i] EXCEPT !.kids = kids] ELSE l[j]
    BY <1>1 DEF WithKids
  <1>4. DOMAIN WithKids(l, i, kids) = DOMAIN l
    BY <1>1 DEF WithKids
  <1>5. \A node \in AnyNode :
          LET new == [node EXCEPT !.kids = kids]
          IN /\ new.name = node.name /\ new.type = node.type /\ new.hash = node.hash
             /\ new.version = node.version /\ new.kids = kids
    BY DEF AnyNode, Node
  <1> DEFINE new == [l[i] EXCEPT !.kids = kids]
             m == WithKids(l, i, kids)
  <1>6. /\ new.name = l[i].name /\ new.type = l[i].type /\ new.hash = l[i].hash
        /\ new.version = l[i].version /\ new.kids = kids
    BY <1>2, <1>5
  <1>7. DOMAIN m = DOMAIN l /\ m[i] = new /\ \A j \in DOMAIN l : j # i => m[j] = l[j]
    BY <1>3, <1>4
  <1> HIDE DEF new, m
  <1>8. \A j \in DOMAIN l :
          /\ m[j].name = l[j].name /\ m[j].type = l[j].type /\ m[j].hash = l[j].hash
          /\ m[j].version = l[j].version /\ m[j].kids = IF j = i THEN kids ELSE l[j].kids
    BY <1>6, <1>7
  <1>9. QED BY <1>7, <1>8 DEF m

(* A layer with another node in front.                                     *)
LEMMA FrontIs ==
  ASSUME NEW T, NEW node \in T, NEW l \in Seq(T)
  PROVE  /\ DOMAIN (<<node>> \o l) = 1..Len(l) + 1
         /\ (<<node>> \o l)[1] = node
         /\ \A j \in DOMAIN l : j + 1 \in DOMAIN (<<node>> \o l) /\ (<<node>> \o l)[j + 1] = l[j]
         /\ \A j \in DOMAIN (<<node>> \o l) : j = 1 \/ j - 1 \in DOMAIN l
  OBVIOUS

(* A path is the prefix of another when it agrees with it to its end.      *)
LEMMA PrefixIs ==
  ASSUME NEW p \in Seq(Name), NEW q \in Seq(Name)
  PROVE  IsPrefix(p, q) <=> Len(p) <= Len(q) /\ \A i \in 1..Len(p) : p[i] = q[i]
  <1>1. ASSUME Len(p) <= Len(q)
        PROVE  SubSeq(p, 1, Len(p)) = SubSeq(q, 1, Len(p)) <=> \A i \in 1..Len(p) : p[i] = q[i]
    <2>1. SubSeq(p, 1, Len(p)) = p
      OBVIOUS
    <2> DEFINE s == SubSeq(q, 1, Len(p))
    <2>2. s \in Seq(Name) /\ Len(s) = Len(p) /\ \A i \in 1..Len(p) : s[i] = q[i]
      BY <1>1
    <2> HIDE DEF s
    <2>3. p = s <=> \A i \in 1..Len(p) : p[i] = s[i]
      BY <2>2
    <2>4. QED BY <2>1, <2>2, <2>3 DEF s
  <1>2. QED BY <1>1 DEF IsPrefix

(* Prefixes of a path that begins with a name.                             *)
LEMMA PrefixFromHead ==
  ASSUME NEW p \in AnyPath, NEW name \in Name
  PROVE  /\ IsPrefix(p, <<name>>) <=> Len(p) = 1 /\ p[1] = name
         /\ \A q \in AnyPath :
              IsPrefix(p, <<name>> \o q) <=>
                p[1] = name /\ (Len(p) = 1 \/ IsPrefix(Tail(p), q))
  <1>1. p \in Seq(Name) /\ Len(p) \in Nat \ {0} /\ <<name>> \in Seq(Name)
    BY TailOfPath
  <1>2. IsPrefix(p, <<name>>) <=> Len(p) = 1 /\ p[1] = name
    <2> DEFINE q == <<name>>
    <2>1. Len(q) = 1 /\ q[1] = name /\ q \in Seq(Name)
      OBVIOUS
    <2> HIDE DEF q
    <2>2. IsPrefix(p, q) <=> Len(p) <= Len(q) /\ \A i \in 1..Len(p) : p[i] = q[i]
      BY <1>1, <2>1, PrefixIs
    <2>3. IsPrefix(p, q) <=> Len(p) = 1 /\ p[1] = name
      BY SMTT(30), <1>1, <2>1, <2>2
    <2>4. QED BY <2>3 DEF q
  <1>3. ASSUME NEW q \in AnyPath
        PROVE  IsPrefix(p, <<name>> \o q) <=>
                 p[1] = name /\ (Len(p) = 1 \/ IsPrefix(Tail(p), q))
    <2> DEFINE r == <<name>> \o q
    <2>1. q \in Seq(Name) /\ Len(q) \in Nat \ {0}
      BY TailOfPath
    <2>2. /\ r \in Seq(Name) /\ Len(r) = Len(q) + 1 /\ r[1] = name
          /\ \A i \in 1..Len(q) : r[i + 1] = q[i]
      BY <2>1
    <2> HIDE DEF r
    <2>3. IsPrefix(p, r) <=> Len(p) <= Len(r) /\ \A i \in 1..Len(p) : p[i] = r[i]
      BY <1>1, <2>2, PrefixIs
    <2>4. /\ Tail(p) \in Seq(Name) /\ Len(Tail(p)) = Len(p) - 1
          /\ \A i \in 1..Len(p) - 1 : Tail(p)[i] = p[i + 1]
      BY <1>1
    <2>5. IsPrefix(Tail(p), q) <=>
            Len(p) - 1 <= Len(q) /\ \A i \in 1..Len(p) - 1 : p[i + 1] = q[i]
      BY <2>1, <2>4, PrefixIs
    <2>6. ASSUME IsPrefix(p, r)
          PROVE  p[1] = name /\ IsPrefix(Tail(p), q)
      <3>1. p[1] = r[1]
        BY <1>1, <2>3, <2>6
      <3>2. \A i \in 1..Len(p) - 1 : i + 1 \in 1..Len(p) /\ i \in 1..Len(q)
        BY <1>1, <2>1, <2>2, <2>3, <2>6
      <3>3. \A i \in 1..Len(p) - 1 : p[i + 1] = q[i]
        BY <2>2, <2>3, <2>6, <3>2
      <3>4. Len(p) - 1 <= Len(q)
        BY <1>1, <2>1, <2>2, <2>3, <2>6
      <3>5. QED BY <2>2, <2>5, <3>1, <3>3, <3>4
    <2>7. ASSUME p[1] = name, Len(p) = 1 \/ IsPrefix(Tail(p), q)
          PROVE  IsPrefix(p, r)
      <3>1. Len(p) - 1 <= Len(q) /\ \A i \in 1..Len(p) - 1 : p[i + 1] = q[i]
        BY <1>1, <2>1, <2>5, <2>7
      <3>2. ASSUME NEW i \in 1..Len(p)
            PROVE  p[i] = r[i]
        <4>1. CASE i = 1
          BY <2>2, <2>7, <4>1
        <4>2. CASE i # 1
          <5> DEFINE j == i - 1
          <5>1. j \in 1..Len(p) - 1 /\ j \in 1..Len(q) /\ j + 1 = i
            BY <1>1, <2>1, <3>1, <4>2
          <5> HIDE DEF j
          <5>2. p[j + 1] = q[j] /\ r[j + 1] = q[j]
            BY <2>2, <3>1, <5>1
          <5>3. QED BY <5>1, <5>2
        <4>3. QED BY <4>1, <4>2
      <3>3. Len(p) <= Len(r)
        BY <1>1, <2>1, <2>2, <3>1
      <3>4. QED BY <2>3, <3>2, <3>3
    <2>8. QED BY <2>6, <2>7 DEF r
  <1>4. QED BY <1>2, <1>3

(* Paths that begin with a name.                                           *)
LEMMA PathsFromHead ==
  ASSUME NEW p \in AnyPath, NEW name \in Name, NEW q \in AnyPath
  PROVE  /\ p = <<name>> <=> Len(p) = 1 /\ p[1] = name
         /\ p = <<name>> \o q <=> Len(p) # 1 /\ p[1] = name /\ Tail(p) = q
         /\ <<name>> \o q \in AnyPath /\ <<name>> \in AnyPath
  <1>1. p \in Seq(Name) /\ Len(p) \in Nat \ {0} /\ q \in Seq(Name) /\ Len(q) \in Nat \ {0}
    BY TailOfPath
  <1>2. p = <<name>> <=> Len(p) = 1 /\ p[1] = name
    BY <1>1
  <1>3. /\ <<name>> \o q \in Seq(Name) /\ Len(<<name>> \o q) = Len(q) + 1
        /\ (<<name>> \o q)[1] = name
    BY <1>1
  <1>4. Tail(<<name>> \o q) = q
    BY <1>1
  <1>5. p = <<p[1]>> \o Tail(p)
    BY PathIs
  <1>6. <<name>> \o q # <<>> /\ Len(<<name>> \o q) # 1
    BY <1>1, <1>3
  <1>7. <<name>> \o q \in AnyPath
    BY <1>3, <1>6 DEF AnyPath
  <1>8. <<name>> \in AnyPath
    BY DEF AnyPath
  <1>9. p = <<name>> \o q <=> Len(p) # 1 /\ p[1] = name /\ Tail(p) = q
    BY <1>3, <1>4, <1>5, <1>6
  <1>10. QED BY <1>2, <1>7, <1>8, <1>9

-----------------------------------------------------------------------------
(* add inserts one entry.                                                  *)

(* The entries of what lies below a folder, and of a node.                 *)
Below(name, entries) == {[path |-> <<name>> \o f.path, hash |-> f.hash] : f \in entries}
Own(node) ==
  IF node.type = 1 THEN {[path |-> <<node.name>>, hash |-> node.hash]} ELSE {}
EntriesOf(node) == Own(node) \cup Below(node.name, Entries(node.kids))

(* The entries of a layer are those of its nodes.                          *)
LEMMA EntriesAre ==
  ASSUME NEW layer \in AnyLayer
  PROVE  Entries(layer) = UNION {EntriesOf(layer[i]) : i \in DOMAIN layer}
  BY EntriesDef DEF EntriesOf, Own, Below

(* An empty layer lists nothing.                                           *)
LEMMA EntriesEmpty == Entries(<<>>) = {}
  <1>1. DOMAIN <<>> = {}
    OBVIOUS
  <1>2. Entries(<<>>) = UNION {EntriesOf(<<>>[i]) : i \in DOMAIN <<>>}
    BY EmptyLayer, EntriesAre
  <1>3. QED BY <1>1, <1>2

(* The entries of one node of a layer, and of the others.                  *)
LEMMA EntriesApart ==
  ASSUME NEW layer \in AnyLayer, NEW i \in DOMAIN layer
  PROVE  Entries(layer) = (UNION {EntriesOf(layer[j]) : j \in DOMAIN layer \ {i}})
                            \cup EntriesOf(layer[i])
  <1> DEFINE Of(j) == EntriesOf(layer[j])
  <1>1. Entries(layer) = UNION {Of(j) : j \in DOMAIN layer}
    BY EntriesAre
  <1>2. UNION {Of(j) : j \in DOMAIN layer} = (UNION {Of(j) : j \in DOMAIN layer \ {i}}) \cup Of(i)
    <2> DEFINE all == UNION {Of(j) : j \in DOMAIN layer}
               rest == (UNION {Of(j) : j \in DOMAIN layer \ {i}})
    <2> HIDE DEF Of
    <2>1. \A x : x \in all <=> \E j \in DOMAIN layer : x \in Of(j)
      OBVIOUS
    <2>2. \A x : x \in rest <=> \E j \in DOMAIN layer : j # i /\ x \in Of(j)
      OBVIOUS
    <2> HIDE DEF all, rest
    <2>3. \A x : x \in all <=> x \in rest \cup Of(i)
      BY <2>1, <2>2
    <2>4. all = rest \cup Of(i)
      BY <2>3
    <2>5. QED BY <2>4 DEF all, rest
  <1>3. QED BY <1>1, <1>2

(* Another node in front adds its entries.                                 *)
LEMMA EntriesFront ==
  ASSUME NEW node, NEW layer \in AnyLayer, <<node>> \o layer \in AnyLayer
  PROVE  Entries(<<node>> \o layer) = EntriesOf(node) \cup Entries(layer)
  <1> DEFINE l == <<node>> \o layer
  <1>1. layer \in Seq(AnyNode \cup {node}) /\ node \in AnyNode \cup {node}
    BY AnyLayerKids
  <1>2. /\ DOMAIN l = 1..Len(layer) + 1 /\ l[1] = node
        /\ \A j \in DOMAIN layer : j + 1 \in DOMAIN l /\ l[j + 1] = layer[j]
        /\ \A j \in DOMAIN l : j = 1 \/ j - 1 \in DOMAIN layer
    BY <1>1, FrontIs
  <1>3. Len(layer) \in Nat /\ DOMAIN layer = 1..Len(layer)
    BY <1>1
  <1> HIDE DEF l
  <1>4. \A j \in DOMAIN l : j = 1 \/ (j - 1 \in DOMAIN layer /\ l[j] = layer[j - 1])
    <2>1. \A j \in DOMAIN l : j \in Int /\ j = (j - 1) + 1
      BY <1>2, <1>3
    <2>2. QED BY <1>2, <2>1
  <1>5. 1 \in DOMAIN l
    BY <1>2, <1>3
  <1>6. UNION {EntriesOf(l[i]) : i \in DOMAIN l}
          = EntriesOf(node) \cup UNION {EntriesOf(layer[i]) : i \in DOMAIN layer}
    BY <1>2, <1>4, <1>5
  <1>7. l \in AnyLayer
    BY DEF l
  <1>8. QED BY <1>6, <1>7, EntriesAre DEF l

(* Other children change what is below one node.                           *)
LEMMA EntriesWithKids ==
  ASSUME NEW layer \in AnyLayer, NEW i \in DOMAIN layer, NEW kids,
         WithKids(layer, i, kids) \in AnyLayer
  PROVE  Entries(WithKids(layer, i, kids))
           = (UNION {EntriesOf(layer[j]) : j \in DOMAIN layer \ {i}})
               \cup Own(layer[i]) \cup Below(layer[i].name, Entries(kids))
  <1> DEFINE l == WithKids(layer, i, kids)
  <1>1. /\ DOMAIN l = DOMAIN layer
        /\ \A j \in DOMAIN layer :
             /\ l[j].name = layer[j].name /\ l[j].type = layer[j].type
             /\ l[j].hash = layer[j].hash
             /\ l[j].kids = IF j = i THEN kids ELSE layer[j].kids
    BY WithKidsHas
  <1>2. l \in AnyLayer
    OBVIOUS
  <1> HIDE DEF l
  <1>3. \A j \in DOMAIN layer \ {i} : EntriesOf(l[j]) = EntriesOf(layer[j])
    BY <1>1 DEF EntriesOf, Own
  <1>4. EntriesOf(l[i]) = Own(layer[i]) \cup Below(layer[i].name, Entries(kids))
    BY <1>1 DEF EntriesOf, Own
  <1>5. Entries(l) = (UNION {EntriesOf(l[j]) : j \in DOMAIN layer \ {i}}) \cup EntriesOf(l[i])
    BY <1>1, <1>2, EntriesApart
  <1>6. (UNION {EntriesOf(l[j]) : j \in DOMAIN layer \ {i}})
          = (UNION {EntriesOf(layer[j]) : j \in DOMAIN layer \ {i}})
    BY <1>3
  <1>7. QED BY <1>4, <1>5, <1>6 DEF l

(* add inserts the entry of the path and leaves the others as they are.    *)
LEMMA AddEntries ==
  ASSUME NEW hash \in Hash \cup {None}, NEW version \in Nat,
         NEW path \in AnyPath, NEW n \in Nat, NEW layer \in LayersOf[n],
         n <= MaxDepth, Len(path) <= n
  PROVE  Entries(AddTo(layer, path, hash, version))
           = Entries(layer) \cup {[path |-> path, hash |-> hash]}
  <1> DEFINE Add1(l, p) == AddTo(l, p, hash, version)
             E(p) == [path |-> p, hash |-> hash]
             Inserts(p, m, l) == m <= MaxDepth /\ Len(p) <= m =>
                                   Entries(Add1(l, p)) = Entries(l) \cup {E(p)}
             S == {p \in AnyPath : \A m \in Nat : \A l \in LayersOf[m] : Inserts(p, m, l)}
  <1>1. ASSUME NEW p \in AnyPath, Len(p) # 1 => Tail(p) \in S
        PROVE  p \in S
    <2>1. SUFFICES ASSUME NEW m \in Nat, NEW l \in LayersOf[m], m <= MaxDepth, Len(p) <= m
                   PROVE  Entries(Add1(l, p)) = Entries(l) \cup {E(p)}
      OBVIOUS
    <2> DEFINE k == m - 1
               i == SearchStructNodeLayer(l, p[1])
    <2>2. p[1] \in Name /\ Len(p) \in Nat \ {0}
          /\ (Len(p) # 1 => Tail(p) \in AnyPath /\ Len(Tail(p)) = Len(p) - 1)
      BY TailOfPath
    <2>3. k \in Nat /\ k + 1 = m /\ k <= MaxDepth
      BY <2>1, <2>2, LayerAssumption
    <2> HIDE DEF k
    <2>4. l \in AnyLayer /\ Add1(l, p) \in AnyLayer /\ <<>> \in LayersOf[k]
      BY <2>1, <2>3, AnyDepth, AddType
    <2>5. ASSUME NEW kids \in LayersOf[k], Len(p) # 1
          PROVE  Entries(Add1(kids, Tail(p))) = Entries(kids) \cup {E(Tail(p))}
      <3>1. Tail(p) \in S /\ Len(Tail(p)) <= k
        BY <1>1, <2>1, <2>2, <2>3, <2>5
      <3>2. Inserts(Tail(p), k, kids)
        BY <3>1, <2>3
      <3>3. QED BY <3>1, <3>2, <2>3
    <2>6. p = <<p[1]>> \o Tail(p) /\ (Len(p) = 1 => p = <<p[1]>>)
      BY PathIs
    <2>7. Len(p) # 1 => Below(p[1], {E(Tail(p))}) = {E(p)}
      <3>1. Below(p[1], {E(Tail(p))}) = {[path |-> <<p[1]>> \o E(Tail(p)).path,
                                         hash |-> E(Tail(p)).hash]}
        BY DEF Below
      <3>2. E(Tail(p)).path = Tail(p) /\ E(Tail(p)).hash = hash
        OBVIOUS
      <3>3. QED BY <2>6, <3>1, <3>2
    <2> HIDE DEF Add1
    <2>8. CASE Len(p) = 1
      <3> DEFINE node == FileNode(p[1], hash, version)
      <3>1. Add1(l, p) = <<node>> \o l
        BY <2>4, <2>8, AddDef DEF Add1
      <3>2. EntriesOf(node) = {E(p)}
        <4>1. node.type = 1 /\ node.name = p[1] /\ node.hash = hash /\ node.kids = <<>>
          BY DEF FileNode
        <4> HIDE DEF node
        <4>2. Below(p[1], Entries(<<>>)) = {}
          BY EntriesEmpty DEF Below
        <4>3. EntriesOf(node) = {[path |-> <<p[1]>>, hash |-> hash]}
          BY <4>1, <4>2 DEF EntriesOf, Own
        <4>4. QED BY <4>3, <2>6, <2>8
      <3> HIDE DEF node
      <3>3. Entries(<<node>> \o l) = EntriesOf(node) \cup Entries(l)
        BY <2>4, <3>1, EntriesFront
      <3>4. QED BY <3>1, <3>2, <3>3
    <2>9. CASE Len(p) # 1 /\ i = 0
      <3> DEFINE kids == Add1(<<>>, Tail(p))
                 node == FolderNode(p[1], kids, version)
      <3>1. Add1(l, p) = <<node>> \o l
        BY <2>4, <2>9, AddDef DEF Add1
      <3>2. Entries(kids) = {E(Tail(p))}
        BY <2>4, <2>5, <2>9, EntriesEmpty
      <3> HIDE DEF kids
      <3>3. EntriesOf(node) = {E(p)}
        <4>1. node.type = 2 /\ node.name = p[1] /\ node.kids = kids
          BY DEF FolderNode
        <4> HIDE DEF node
        <4>2. EntriesOf(node) = Below(p[1], {E(Tail(p))})
          BY <4>1, <3>2 DEF EntriesOf, Own
        <4>3. QED BY <4>2, <2>7, <2>9
      <3> HIDE DEF node
      <3>4. Entries(<<node>> \o l) = EntriesOf(node) \cup Entries(l)
        BY <2>4, <3>1, EntriesFront
      <3>5. QED BY <3>1, <3>3, <3>4
    <2>10. CASE Len(p) # 1 /\ i # 0
      <3>1. i \in DOMAIN l /\ l[i].name = p[1] /\ l[i].kids \in LayersOf[k]
        <4>1. i \in DOMAIN l /\ l[i].name = p[1]
          BY <2>4, <2>10, AnyLayerKids, SearchFinds
        <4>2. l[i].kids \in LayersOf[m - 1]
          BY <2>1, <4>1, KidsOf
        <4>3. QED BY <4>1, <4>2 DEF k
      <3> DEFINE kids == Add1(l[i].kids, Tail(p))
      <3>2. Entries(kids) = Entries(l[i].kids) \cup {E(Tail(p))}
        BY <2>5, <2>10, <3>1
      <3>3. Add1(l, p) = WithKids(l, i, kids)
        BY <2>4, <2>10, AddDef DEF Add1
      <3> HIDE DEF kids, i
      <3>4. Entries(WithKids(l, i, kids))
              = (UNION {EntriesOf(l[j]) : j \in DOMAIN l \ {i}})
                  \cup Own(l[i]) \cup Below(l[i].name, Entries(kids))
        BY <2>4, <3>1, <3>3, EntriesWithKids
      <3>5. Below(l[i].name, Entries(kids)) = Below(l[i].name, Entries(l[i].kids)) \cup {E(p)}
        <4>1. Below(p[1], {E(Tail(p))}) = {E(p)}
          BY <2>7, <2>10
        <4>2. Below(p[1], Entries(l[i].kids) \cup {E(Tail(p))})
                = Below(p[1], Entries(l[i].kids)) \cup Below(p[1], {E(Tail(p))})
          BY DEF Below
        <4>3. QED BY <3>1, <3>2, <4>1, <4>2
      <3>6. Entries(l) = (UNION {EntriesOf(l[j]) : j \in DOMAIN l \ {i}}) \cup EntriesOf(l[i])
        BY <2>4, <3>1, EntriesApart
      <3>7. EntriesOf(l[i]) = Own(l[i]) \cup Below(l[i].name, Entries(l[i].kids))
        BY DEF EntriesOf
      <3>8. \A others, own, below, new :
              (others \cup own) \cup (below \cup new) = (others \cup (own \cup below)) \cup new
        OBVIOUS
      <3> HIDE DEF E
      <3> DEFINE others == (UNION {EntriesOf(l[j]) : j \in DOMAIN l \ {i}})
      <3> HIDE DEF others
      <3>9. Entries(Add1(l, p))
              = (others \cup Own(l[i])) \cup (Below(l[i].name, Entries(l[i].kids)) \cup {E(p)})
        BY <3>3, <3>4, <3>5, Zenon DEF others
      <3>10. Entries(l) = others \cup (Own(l[i]) \cup Below(l[i].name, Entries(l[i].kids)))
        BY <3>6, <3>7, Zenon DEF others
      <3>11. QED BY <3>8, <3>9, <3>10
    <2>11. QED BY <2>8, <2>9, <2>10
  <1>2. AnyPath \subseteq S
    <2> HIDE DEF S
    <2>1. QED BY <1>1, ByPath
  <1>3. Inserts(path, n, layer)
    BY <1>2
  <1>4. QED BY <1>3

EntryFor(path, hash) == [path |-> path, hash |-> hash]

(* The same with a name for the entry.                                     *)
LEMMA AddEntry ==
  ASSUME NEW hash \in Hash \cup {None}, NEW version \in Nat,
         NEW path \in AnyPath, NEW n \in Nat, NEW layer \in LayersOf[n],
         n <= MaxDepth, Len(path) <= n
  PROVE  Entries(AddTo(layer, path, hash, version)) = Entries(layer) \cup {EntryFor(path, hash)}
  <1>1. Entries(AddTo(layer, path, hash, version))
          = Entries(layer) \cup {[path |-> path, hash |-> hash]}
    BY AddEntries
  <1>2. QED BY <1>1 DEF EntryFor

(* Where names are apart, map and search find one and the same node.       *)
LEMMA MapOf ==
  ASSUME NEW layer \in AnyLayer, Distinct(layer), NEW name
  PROVE  /\ HashMapFind(layer, name) = {SearchStructNodeLayer(layer, name)} \ {0}
         /\ \A i \in DOMAIN layer : layer[i].name = name =>
              SearchStructNodeLayer(layer, name) = i /\ i # 0
         /\ SearchStructNodeLayer(layer, name) # 0 =>
              /\ SearchStructNodeLayer(layer, name) \in DOMAIN layer
              /\ layer[SearchStructNodeLayer(layer, name)].name = name
              /\ MapPlace(layer, name) = SearchStructNodeLayer(layer, name)
  <1>1. layer \in Seq(AnyNode)
    BY AnyLayerKids
  <1> DEFINE i == SearchStructNodeLayer(layer, name)
  <1>2. HashMapFind(layer, name) = {i} \ {0}
    BY <1>1, MapFindsNode
  <1>3. \A j \in DOMAIN layer : layer[j].name = name => i = j /\ j # 0
    BY <1>1, SearchOf
  <1>4. i # 0 => i \in DOMAIN layer /\ layer[i].name = name
    BY <1>1, SearchFinds
  <1> HIDE DEF i
  <1>5. i # 0 => MapPlace(layer, name) = i
    BY <1>2 DEF MapPlace
  <1>6. QED BY <1>2, <1>3, <1>4, <1>5 DEF i

(* What is not added yet has no entry.                                     *)
LEMMA NotAdded ==
  ASSUME NEW path \in AnyPath, NEW layer \in AnyLayer, Tidy(layer), ~IsAdded(layer, path)
  PROVE  \A e \in Entries(layer) : e.path # path
  <1> DEFINE Misses(p, l) == Tidy(l) /\ ~IsAdded(l, p) => \A e \in Entries(l) : e.path # p
             S == {p \in AnyPath : \A l \in AnyLayer : Misses(p, l)}
  <1>1. ASSUME NEW p \in AnyPath, Len(p) # 1 => Tail(p) \in S
        PROVE  p \in S
    <2>1. SUFFICES ASSUME NEW l \in AnyLayer, Tidy(l), ~IsAdded(l, p),
                          NEW e \in Entries(l), e.path = p
                   PROVE  FALSE
      OBVIOUS
    <2>2. PICK i \in DOMAIN l : e \in EntriesOf(l[i])
      BY EntriesAre
    <2>3. Distinct(l) /\ Tidy(l[i].kids) /\ l[i].kids \in AnyLayer /\ l[i].name \in Name
      BY <2>1, TidyDef, AnyLayerKids, NodeKids
    <2>4. CASE l[i].type = 1 /\ e = [path |-> <<l[i].name>>, hash |-> l[i].hash]
      <3>1. p = <<l[i].name>>
        BY <2>1, <2>4
      <3>2. Len(p) = 1 /\ p[1] = l[i].name
        BY <2>3, <3>1
      <3>3. SearchStructNodeLayer(l, p[1]) # 0
        BY <2>3, <3>2, MapOf
      <3>4. QED BY <2>1, <3>2, <3>3, IsAddedDef
    <2>5. CASE e \in Below(l[i].name, Entries(l[i].kids))
      <3>1. PICK f \in Entries(l[i].kids) : e = [path |-> <<l[i].name>> \o f.path, hash |-> f.hash]
        BY <2>5 DEF Below
      <3>2. f.path \in AnyPath /\ p = <<l[i].name>> \o f.path
        BY <2>1, <2>3, <3>1, EntriesDef DEF Listed
      <3>3. Len(p) # 1 /\ p[1] = l[i].name /\ Tail(p) = f.path
        BY <2>3, <3>2, PathsFromHead
      <3>4. SearchStructNodeLayer(l, p[1]) = i /\ i # 0
        BY <2>3, <3>3, MapOf
      <3>5. ~IsAdded(l[i].kids, Tail(p))
        BY <2>1, <3>3, <3>4, IsAddedDef
      <3>6. Tail(p) \in S
        BY <1>1, <3>3
      <3>7. Misses(Tail(p), l[i].kids)
        BY <2>3, <3>6
      <3>8. QED BY <2>3, <3>3, <3>5, <3>7
    <2>6. QED BY <2>2, <2>4, <2>5 DEF EntriesOf, Own
  <1>2. AnyPath \subseteq S
    <2> HIDE DEF S
    <2>1. QED BY <1>1, ByPath
  <1>3. Misses(path, layer)
    BY <1>2
  <1>4. QED BY <1>3

-----------------------------------------------------------------------------
(* add and remove leave no name twice in a folder.                         *)

(* A new name in front keeps a layer tidy, ...                             *)
LEMMA TidyFront ==
  ASSUME NEW node, NEW layer \in AnyLayer, <<node>> \o layer \in AnyLayer,
         Tidy(layer), Tidy(node.kids), \A j \in DOMAIN layer : layer[j].name # node.name
  PROVE  Tidy(<<node>> \o layer)
  <1> DEFINE l == <<node>> \o layer
  <1>1. layer \in Seq(AnyNode \cup {node}) /\ node \in AnyNode \cup {node}
    BY AnyLayerKids
  <1>2. /\ DOMAIN l = 1..Len(layer) + 1 /\ l[1] = node
        /\ \A j \in DOMAIN layer : j + 1 \in DOMAIN l /\ l[j + 1] = layer[j]
        /\ \A j \in DOMAIN l : j = 1 \/ j - 1 \in DOMAIN layer
    BY <1>1, FrontIs
  <1>3. Len(layer) \in Nat /\ DOMAIN layer = 1..Len(layer)
    BY <1>1
  <1>4. l \in AnyLayer
    OBVIOUS
  <1> HIDE DEF l
  <1>5. \A j \in DOMAIN l : j \in Int /\ (j = 1 \/ (j - 1 \in DOMAIN layer /\ l[j] = layer[j - 1]))
    <2>1. \A j \in DOMAIN l : j \in Int /\ j = (j - 1) + 1
      BY <1>2, <1>3
    <2>2. QED BY <1>2, <2>1
  <1>6. Distinct(layer) /\ \A j \in DOMAIN layer : Tidy(layer[j].kids)
    BY TidyDef
  <1>7. Distinct(l)
    <2>1. ASSUME NEW i \in DOMAIN l, NEW j \in DOMAIN l, l[i].name = l[j].name
          PROVE  i = j
      <3>1. CASE i = 1
        BY <1>2, <1>5, <2>1, <3>1
      <3>2. CASE j = 1
        BY <1>2, <1>5, <2>1, <3>2
      <3>3. CASE i # 1 /\ j # 1
        <4>1. i - 1 = j - 1
          BY <1>5, <1>6, <2>1, <3>3 DEF Distinct
        <4>2. QED BY <1>5, <4>1
      <3>4. QED BY <3>1, <3>2, <3>3
    <2>2. QED BY <2>1 DEF Distinct
  <1>8. \A j \in DOMAIN l : Tidy(l[j].kids)
    BY <1>2, <1>5, <1>6
  <1>9. QED BY <1>4, <1>7, <1>8, TidyDef DEF l

(* ... and so do other children that are tidy, ...                         *)
LEMMA TidyWithKids ==
  ASSUME NEW layer \in AnyLayer, NEW i \in DOMAIN layer, NEW kids,
         WithKids(layer, i, kids) \in AnyLayer, Tidy(layer), Tidy(kids)
  PROVE  Tidy(WithKids(layer, i, kids))
  <1> DEFINE l == WithKids(layer, i, kids)
  <1>1. /\ DOMAIN l = DOMAIN layer
        /\ \A j \in DOMAIN layer :
             l[j].name = layer[j].name /\ l[j].kids = IF j = i THEN kids ELSE layer[j].kids
    BY WithKidsHas
  <1>2. l \in AnyLayer
    OBVIOUS
  <1> HIDE DEF l
  <1>3. Distinct(layer) /\ \A j \in DOMAIN layer : Tidy(layer[j].kids)
    BY TidyDef
  <1>4. Distinct(l)
    BY <1>1, <1>3 DEF Distinct
  <1>5. \A j \in DOMAIN l : Tidy(l[j].kids)
    BY <1>1, <1>3
  <1>6. QED BY <1>2, <1>4, <1>5, TidyDef DEF l

(* ... and taking away a node.                                             *)
LEMMA TidyRemoveAt ==
  ASSUME NEW layer \in AnyLayer, NEW i \in 0..Len(layer), Tidy(layer),
         RemoveAt(layer, i) \in AnyLayer
  PROVE  Tidy(RemoveAt(layer, i))
  <1>1. layer \in Seq(AnyNode) /\ Len(layer) \in Nat /\ DOMAIN layer = 1..Len(layer)
    BY AnyLayerKids
  <1> DEFINE l == RemoveAt(layer, i)
  <1>2. /\ l \in Seq(AnyNode) /\ Len(l) = IF i = 0 THEN Len(layer) ELSE Len(layer) - 1
        /\ i # 0 => \A j \in 1..Len(layer) - 1 : l[j] = IF j < i THEN layer[j] ELSE layer[j + 1]
    BY <1>1, RemoveAtIs
  <1>3. CASE i = 0
    <2>1. RemoveAt(layer, 0) = layer
      <3>1. SubSeq(layer, 1, 0 - 1) = <<>> /\ SubSeq(layer, 0 + 1, Len(layer)) = layer
        BY <1>1
      <3>2. QED BY <1>1, <3>1 DEF RemoveAt
    <2>2. QED BY <1>3, <2>1
  <1>4. CASE i # 0
    <2>1. DOMAIN l = 1..Len(layer) - 1
      BY <1>1, <1>2, <1>4
    <2>2. l \in AnyLayer
      OBVIOUS
    <2> HIDE DEF l
    <2>3. Distinct(layer) /\ \A j \in DOMAIN layer : Tidy(layer[j].kids)
      BY TidyDef
    <2> DEFINE At(j) == IF j < i THEN j ELSE j + 1
    <2>4. ASSUME NEW j \in DOMAIN l
          PROVE  At(j) \in DOMAIN layer /\ l[j] = layer[At(j)]
      BY <1>1, <1>2, <1>4, <2>1
    <2>5. \A j, k \in DOMAIN l : At(j) = At(k) => j = k
      BY <1>1, <2>1
    <2> HIDE DEF At
    <2>6. Distinct(l)
      BY <2>3, <2>4, <2>5 DEF Distinct
    <2>7. \A j \in DOMAIN l : Tidy(l[j].kids)
      BY <2>3, <2>4
    <2>8. QED BY <2>2, <2>6, <2>7, TidyDef DEF l
  <1>5. QED BY <1>3, <1>4

(* add puts no name twice into a folder.                                   *)
LEMMA AddTidy ==
  ASSUME NEW hash \in Hash \cup {None}, NEW version \in Nat,
         NEW path \in AnyPath, NEW n \in Nat, NEW layer \in LayersOf[n],
         n <= MaxDepth, Len(path) <= n, Tidy(layer), ~IsAdded(layer, path)
  PROVE  Tidy(AddTo(layer, path, hash, version))
  <1> DEFINE Add1(l, p) == AddTo(l, p, hash, version)
             Keeps(p, m, l) == m <= MaxDepth /\ Len(p) <= m /\ Tidy(l) /\ ~IsAdded(l, p) =>
                                 Tidy(Add1(l, p))
             S == {p \in AnyPath : \A m \in Nat : \A l \in LayersOf[m] : Keeps(p, m, l)}
  <1>1. ASSUME NEW p \in AnyPath, Len(p) # 1 => Tail(p) \in S
        PROVE  p \in S
    <2>1. SUFFICES ASSUME NEW m \in Nat, NEW l \in LayersOf[m], m <= MaxDepth, Len(p) <= m,
                          Tidy(l), ~IsAdded(l, p)
                   PROVE  Tidy(Add1(l, p))
      OBVIOUS
    <2> DEFINE k == m - 1
               i == SearchStructNodeLayer(l, p[1])
    <2>2. p[1] \in Name /\ Len(p) \in Nat \ {0}
          /\ (Len(p) # 1 => Tail(p) \in AnyPath /\ Len(Tail(p)) = Len(p) - 1)
      BY TailOfPath
    <2>3. k \in Nat /\ k + 1 = m /\ k <= MaxDepth
      BY <2>1, <2>2, LayerAssumption
    <2> HIDE DEF k
    <2>4. l \in AnyLayer /\ Add1(l, p) \in AnyLayer /\ <<>> \in LayersOf[k]
      BY <2>1, <2>3, AnyDepth, AddType
    <2>5. ASSUME NEW kids \in LayersOf[k], Len(p) # 1, Tidy(kids), ~IsAdded(kids, Tail(p))
          PROVE  Tidy(Add1(kids, Tail(p)))
      <3>1. Tail(p) \in S /\ Len(Tail(p)) <= k
        BY <1>1, <2>1, <2>2, <2>3, <2>5
      <3>2. Keeps(Tail(p), k, kids)
        BY <3>1, <2>3
      <3>3. QED BY <3>1, <3>2, <2>3, <2>5
    <2>6. i = 0 => \A j \in DOMAIN l : l[j].name # p[1]
      BY <2>4, AnyLayerKids, SearchFinds
    <2> HIDE DEF Add1
    <2>7. CASE Len(p) = 1
      <3> DEFINE node == FileNode(p[1], hash, version)
      <3>1. Add1(l, p) = <<node>> \o l
        BY <2>4, <2>7, AddDef DEF Add1
      <3>2. i = 0
        BY <2>1, <2>4, <2>7, IsAddedDef
      <3>3. node.name = p[1] /\ node.kids = <<>>
        BY DEF FileNode
      <3> HIDE DEF node
      <3>4. QED BY <2>1, <2>4, <2>6, <3>1, <3>2, <3>3, TidyEmpty, TidyFront
    <2>8. CASE Len(p) # 1 /\ i = 0
      <3> DEFINE kids == Add1(<<>>, Tail(p))
                 node == FolderNode(p[1], kids, version)
      <3>1. Add1(l, p) = <<node>> \o l
        BY <2>4, <2>8, AddDef DEF Add1
      <3>2. Tidy(kids)
        <4>1. SearchStructNodeLayer(<<>>, Tail(p)[1]) = 0
          <5>1. <<>> \in Seq(AnyNode) /\ Len(<<>>) = 0
            OBVIOUS
          <5>2. SearchStructNodeLayer(<<>>, Tail(p)[1]) \in 0..0
            BY <5>1, SearchFinds
          <5>3. \A x \in 0..0 : x = 0
            OBVIOUS
          <5>4. QED BY <5>2, <5>3
        <4>2. ~IsAdded(<<>>, Tail(p))
          BY <2>2, <2>8, <4>1, EmptyLayer, IsAddedDef
        <4>3. QED BY <2>4, <2>5, <2>8, <4>2, TidyEmpty
      <3>3. node.name = p[1] /\ node.kids = kids
        BY DEF FolderNode
      <3> HIDE DEF node, kids
      <3>4. QED BY <2>1, <2>4, <2>6, <2>8, <3>1, <3>2, <3>3, TidyFront
    <2>9. CASE Len(p) # 1 /\ i # 0
      <3>1. i \in DOMAIN l /\ l[i].kids \in LayersOf[k] /\ Tidy(l[i].kids)
        <4>1. i \in DOMAIN l
          BY <2>4, <2>9, AnyLayerKids, SearchFinds
        <4>2. l[i].kids \in LayersOf[m - 1]
          BY <2>1, <4>1, KidsOf
        <4>3. Tidy(l[i].kids)
          BY <2>1, <2>4, <4>1, TidyDef
        <4>4. QED BY <4>1, <4>2, <4>3 DEF k
      <3> DEFINE kids == Add1(l[i].kids, Tail(p))
      <3>2. ~IsAdded(l[i].kids, Tail(p))
        BY <2>1, <2>4, <2>9, IsAddedDef
      <3>3. Tidy(kids)
        BY <2>5, <2>9, <3>1, <3>2
      <3>4. Add1(l, p) = WithKids(l, i, kids)
        BY <2>4, <2>9, AddDef DEF Add1
      <3> HIDE DEF kids, i
      <3>5. QED BY <2>1, <2>4, <3>1, <3>3, <3>4, TidyWithKids
    <2>10. QED BY <2>7, <2>8, <2>9
  <1>2. AnyPath \subseteq S
    <2> HIDE DEF S
    <2>1. QED BY <1>1, ByPath
  <1>3. Keeps(path, n, layer)
    BY <1>2
  <1>4. QED BY <1>3

(* remove gives a layer of the model.                                      *)
LEMMA WithoutType ==
  ASSUME NEW path \in AnyPath, NEW layer \in AnyLayer
  PROVE  Without(layer, path) \in AnyLayer
  BY WithoutDepth, LayerAssumption DEF AnyLayer

(* remove keeps the names of every folder apart.                           *)
LEMMA WithoutTidy ==
  ASSUME NEW path \in AnyPath, NEW layer \in AnyLayer, Tidy(layer)
  PROVE  Tidy(Without(layer, path))
  <1> DEFINE Keeps(p, l) == Tidy(l) => Tidy(Without(l, p))
             S == {p \in AnyPath : \A l \in AnyLayer : Keeps(p, l)}
  <1>1. ASSUME NEW p \in AnyPath, Len(p) # 1 => Tail(p) \in S
        PROVE  p \in S
    <2>1. SUFFICES ASSUME NEW l \in AnyLayer, Tidy(l) PROVE Tidy(Without(l, p))
      OBVIOUS
    <2>2. Without(l, p) \in AnyLayer
      BY WithoutType
    <2>3. CASE Len(p) = 1
      <3> DEFINE i == SearchStructNodeLayer(l, p[1])
      <3>1. Without(l, p) = RemoveAt(l, i) /\ i \in 0..Len(l)
        BY <2>3, WithoutDef, AnyLayerKids, SearchFinds
      <3> HIDE DEF i
      <3>2. QED BY <2>1, <2>2, <3>1, TidyRemoveAt
    <2> DEFINE i == MapPlace(l, p[1])
    <2>4. CASE Len(p) # 1 /\ i \in DOMAIN l
      <3> DEFINE kids == Without(l[i].kids, Tail(p))
      <3>1. Without(l, p) = WithKids(l, i, kids)
        BY <2>4, WithoutDef
      <3>2. l[i].kids \in AnyLayer /\ Tidy(l[i].kids) /\ Tail(p) \in S
        BY <1>1, <2>1, <2>4, AnyLayerKids, TidyDef
      <3>3. Keeps(Tail(p), l[i].kids)
        BY <3>2
      <3>4. Tidy(kids)
        BY <3>2, <3>3
      <3> HIDE DEF kids, i
      <3>5. QED BY <2>1, <2>2, <2>4, <3>1, <3>4, TidyWithKids
    <2>5. CASE Len(p) # 1 /\ i \notin DOMAIN l
      BY <2>1, <2>5, WithoutDef
    <2>6. QED BY <2>3, <2>4, <2>5
  <1>2. AnyPath \subseteq S
    <2> HIDE DEF S
    <2>1. QED BY <1>1, ByPath
  <1>3. Keeps(path, layer)
    BY <1>2
  <1>4. QED BY <1>3

-----------------------------------------------------------------------------
(* remove takes away an entry and what lies below it.                      *)

(* The entries that remain when a node is taken away.                      *)
LEMMA EntriesRemoveAt ==
  ASSUME NEW layer \in AnyLayer, NEW i \in DOMAIN layer, RemoveAt(layer, i) \in AnyLayer
  PROVE  Entries(RemoveAt(layer, i)) = UNION {EntriesOf(layer[j]) : j \in DOMAIN layer \ {i}}
  <1> DEFINE l == RemoveAt(layer, i)
  <1>1. layer \in Seq(AnyNode) /\ Len(layer) \in Nat /\ DOMAIN layer = 1..Len(layer)
    BY AnyLayerKids
  <1>2. i \in 0..Len(layer) /\ i # 0
    BY <1>1
  <1>3. /\ l \in Seq(AnyNode) /\ Len(l) = Len(layer) - 1
        /\ \A j \in 1..Len(layer) - 1 : l[j] = IF j < i THEN layer[j] ELSE layer[j + 1]
    BY <1>1, <1>2, RemoveAtIs
  <1>4. DOMAIN l = 1..Len(layer) - 1
    BY <1>1, <1>3
  <1>5. l \in AnyLayer
    OBVIOUS
  <1> HIDE DEF l
  <1>6. \A j \in DOMAIN l : \E k \in DOMAIN layer \ {i} : l[j] = layer[k]
    <2>1. ASSUME NEW j \in DOMAIN l
          PROVE  \E k \in DOMAIN layer \ {i} : l[j] = layer[k]
      <3>1. CASE j < i
        <4>1. j \in DOMAIN layer \ {i} /\ l[j] = layer[j]
          BY <1>1, <1>2, <1>3, <1>4, <3>1
        <4>2. QED BY <4>1
      <3>2. CASE ~(j < i)
        <4>1. j + 1 \in DOMAIN layer \ {i} /\ l[j] = layer[j + 1]
          BY <1>1, <1>2, <1>3, <1>4, <3>2
        <4>2. QED BY <4>1
      <3>3. QED BY <3>1, <3>2
    <2>2. QED BY <2>1
  <1>7. \A k \in DOMAIN layer \ {i} : \E j \in DOMAIN l : l[j] = layer[k]
    <2>1. ASSUME NEW k \in DOMAIN layer \ {i}
          PROVE  \E j \in DOMAIN l : l[j] = layer[k]
      <3>1. CASE k < i
        <4>1. k \in DOMAIN l /\ l[k] = layer[k]
          BY <1>1, <1>2, <1>3, <1>4, <3>1
        <4>2. QED BY <4>1
      <3>2. CASE ~(k < i)
        <4> DEFINE j == k - 1
        <4>1. j \in DOMAIN l /\ ~(j < i) /\ j + 1 = k
          BY <1>1, <1>2, <1>3, <1>4, <3>2
        <4> HIDE DEF j
        <4>2. l[j] = layer[k]
          BY <1>3, <1>4, <4>1
        <4>3. QED BY <4>1, <4>2
      <3>3. QED BY <3>1, <3>2
    <2>2. QED BY <2>1
  <1>8. UNION {EntriesOf(l[j]) : j \in DOMAIN l}
          = UNION {EntriesOf(layer[j]) : j \in DOMAIN layer \ {i}}
    <2> DEFINE left == UNION {EntriesOf(l[j]) : j \in DOMAIN l}
               right == UNION {EntriesOf(layer[j]) : j \in DOMAIN layer \ {i}}
    <2>1. \A e : e \in left <=> \E j \in DOMAIN l : e \in EntriesOf(l[j])
      OBVIOUS
    <2>2. \A e : e \in right <=> \E j \in DOMAIN layer \ {i} : e \in EntriesOf(layer[j])
      OBVIOUS
    <2> HIDE DEF left, right
    <2>3. \A e : e \in left <=> e \in right
      BY <1>6, <1>7, <2>1, <2>2
    <2>4. left = right
      BY <2>3
    <2>5. QED BY <2>4 DEF left, right
  <1>9. QED BY <1>5, <1>8, EntriesAre DEF l

(* The path of an entry begins with the name of its node.                  *)
LEMMA EntryName ==
  ASSUME NEW layer \in AnyLayer, NEW j \in DOMAIN layer, NEW e \in EntriesOf(layer[j])
  PROVE  /\ e.path \in AnyPath /\ e.path[1] = layer[j].name
         /\ \A p \in AnyPath : IsPrefix(p, e.path) => layer[j].name = p[1]
  <1>1. layer[j].name \in Name /\ layer[j].kids \in AnyLayer
    BY AnyLayerKids, NodeKids
  <1>2. \A f \in Entries(layer[j].kids) : f.path \in AnyPath
    BY <1>1, EntriesDef DEF Listed
  <1>3. CASE e \in Own(layer[j])
    <2>1. e.path = <<layer[j].name>>
      BY <1>3 DEF Own
    <2>2. \A p \in AnyPath : IsPrefix(p, e.path) => p[1] = layer[j].name
      BY <1>1, <2>1, PrefixFromHead
    <2>3. e.path \in AnyPath /\ e.path[1] = layer[j].name
      BY <1>1, <2>1 DEF AnyPath
    <2>4. QED BY <2>2, <2>3
  <1>4. CASE e \in Below(layer[j].name, Entries(layer[j].kids))
    <2>1. PICK f \in Entries(layer[j].kids) :
            e = [path |-> <<layer[j].name>> \o f.path, hash |-> f.hash]
      BY <1>4 DEF Below
    <2>2. \A p \in AnyPath : IsPrefix(p, e.path) => p[1] = layer[j].name
      BY <1>1, <1>2, <2>1, PrefixFromHead
    <2>3. e.path \in AnyPath /\ e.path[1] = layer[j].name
      BY <1>1, <1>2, <2>1 DEF AnyPath
    <2>4. QED BY <2>2, <2>3
  <1>5. QED BY <1>3, <1>4 DEF EntriesOf

(* The entries at or below a path, step by step.                           *)
LEMMA EntryOf ==
  ASSUME NEW layer \in AnyLayer, NEW j \in DOMAIN layer, NEW e \in EntriesOf(layer[j]),
         NEW p \in AnyPath
  PROVE  IsPrefix(p, e.path) <=>
           /\ layer[j].name = p[1]
           /\ \/ Len(p) = 1
              \/ \E f \in Entries(layer[j].kids) :
                   /\ e = [path |-> <<layer[j].name>> \o f.path, hash |-> f.hash]
                   /\ IsPrefix(Tail(p), f.path)
  <1>1. layer[j].name \in Name /\ layer[j].kids \in AnyLayer
    BY AnyLayerKids, NodeKids
  <1>2. \A f \in Entries(layer[j].kids) : f.path \in AnyPath
    BY <1>1, EntriesDef DEF Listed
  <1>3. CASE e \in Own(layer[j])
    <2>1. e.path = <<layer[j].name>>
      BY <1>3 DEF Own
    <2>2. IsPrefix(p, e.path) <=> Len(p) = 1 /\ p[1] = layer[j].name
      BY <1>1, <2>1, PrefixFromHead
    <2>3. ASSUME NEW f \in Entries(layer[j].kids),
                 e = [path |-> <<layer[j].name>> \o f.path, hash |-> f.hash]
          PROVE  FALSE
      <3>1. <<layer[j].name>> = <<layer[j].name>> \o f.path
        BY <2>1, <2>3
      <3>2. <<layer[j].name>> \in AnyPath /\ f.path \in AnyPath
        BY <1>1, <1>2 DEF AnyPath
      <3>3. Len(<<layer[j].name>>) # 1
        BY <1>1, <3>1, <3>2, PathsFromHead
      <3>4. QED BY <3>3
    <2>4. QED BY <2>2, <2>3
  <1>4. CASE e \in Below(layer[j].name, Entries(layer[j].kids))
    <2>1. PICK f \in Entries(layer[j].kids) :
            e = [path |-> <<layer[j].name>> \o f.path, hash |-> f.hash]
      BY <1>4 DEF Below
    <2>2. ASSUME NEW g \in Entries(layer[j].kids),
                 e = [path |-> <<layer[j].name>> \o g.path, hash |-> g.hash]
          PROVE  IsPrefix(p, e.path) <=>
                   p[1] = layer[j].name /\ (Len(p) = 1 \/ IsPrefix(Tail(p), g.path))
      BY <1>1, <1>2, <2>2, PrefixFromHead
    <2>3. QED BY <2>1, <2>2
  <1>5. QED BY <1>3, <1>4 DEF EntriesOf

(* remove deletes the entry of the path and of what lies below it, and no  *)
(* other.                                                                  *)
LEMMA WithoutEntries ==
  ASSUME NEW path \in AnyPath, NEW layer \in AnyLayer, Tidy(layer),
         NEW found \in LayersAt(layer, path), SearchStructNodeLayer(found, Last(path)) # 0
  PROVE  Entries(Without(layer, path)) = {e \in Entries(layer) : ~IsPrefix(path, e.path)}
  <1> DEFINE Finds(p, l) == \E s \in LayersAt(l, p) : SearchStructNodeLayer(s, Last(p)) # 0
             Rest(p, entries) == {e \in entries : ~IsPrefix(p, e.path)}
             Deletes(p, l) == Tidy(l) /\ Finds(p, l) => Entries(Without(l, p)) = Rest(p, Entries(l))
             S == {p \in AnyPath : \A l \in AnyLayer : Deletes(p, l)}
  <1>1. ASSUME NEW p \in AnyPath, Len(p) # 1 => Tail(p) \in S
        PROVE  p \in S
    <2>1. SUFFICES ASSUME NEW l \in AnyLayer, Tidy(l), Finds(p, l)
                   PROVE  Entries(Without(l, p)) = Rest(p, Entries(l))
      OBVIOUS
    <2> DEFINE i == SearchStructNodeLayer(l, p[1])
               others == UNION {EntriesOf(l[j]) : j \in DOMAIN l \ {i}}
    <2>2. Distinct(l) /\ Without(l, p) \in AnyLayer
      BY <2>1, TidyDef, WithoutType
    <2>3. p \in Seq(Name) /\ Len(p) \in Nat \ {0}
          /\ (Len(p) # 1 => Tail(p) \in AnyPath /\ Len(Tail(p)) = Len(p) - 1)
      BY TailOfPath
    <2>4. \A e \in others : ~IsPrefix(p, e.path)
      <3>1. \A j \in DOMAIN l : l[j].name = p[1] => j = i
        BY <2>2, MapOf
      <3>2. ASSUME NEW e \in others PROVE ~IsPrefix(p, e.path)
        <4>1. PICK j \in DOMAIN l \ {i} : e \in EntriesOf(l[j])
          OBVIOUS
        <4>2. l[j].name # p[1]
          BY <3>1
        <4> HIDE DEF i, others
        <4>3. QED BY <4>1, <4>2, EntryName
      <3>3. QED BY <3>2
    <2>5. i # 0 => i \in DOMAIN l /\ l[i].name = p[1] /\ MapPlace(l, p[1]) = i
                   /\ HashMapFind(l, p[1]) = {i}
      BY <2>2, MapOf
    <2>6. CASE Len(p) = 1
      <3>1. i # 0
        BY <2>1, <2>6, LayersAtDef DEF Last
      <3>2. Without(l, p) = RemoveAt(l, i)
        BY <2>6, WithoutDef
      <3>3. Entries(Without(l, p)) = others
        BY <2>2, <2>5, <3>1, <3>2, EntriesRemoveAt
      <3>4. \A e \in EntriesOf(l[i]) : IsPrefix(p, e.path)
        BY <2>5, <2>6, <3>1, EntryOf
      <3>5. Entries(l) = others \cup EntriesOf(l[i])
        BY <2>5, <3>1, EntriesApart
      <3> HIDE DEF others
      <3>6. QED BY <2>4, <3>3, <3>4, <3>5
    <2>7. CASE Len(p) # 1
      <3>1. PICK s \in LayersAt(l, p) : SearchStructNodeLayer(s, Last(p)) # 0
        BY <2>1
      <3>2. LayersAt(l, p)
              = UNION {LayersAt(l[j].kids, Tail(p)) : j \in HashMapFind(l, p[1])}
        BY <2>7, LayersAtDef
      <3>3. i # 0
        <4>1. HashMapFind(l, p[1]) = {i} \ {0}
          BY <2>2, MapOf
        <4>2. QED BY <3>2, <4>1
      <3>4. s \in LayersAt(l[i].kids, Tail(p))
        BY <2>5, <3>2, <3>3
      <3>5. Last(Tail(p)) = Last(p)
        BY <2>3, <2>7 DEF Last
      <3>6. l[i].kids \in AnyLayer /\ Tidy(l[i].kids)
        BY <2>1, <2>5, <3>3, TidyDef, AnyLayerKids
      <3> DEFINE kids == Without(l[i].kids, Tail(p))
      <3>7. Entries(kids) = Rest(Tail(p), Entries(l[i].kids))
        <4>1. Finds(Tail(p), l[i].kids)
          BY <3>1, <3>4, <3>5
        <4>2. Deletes(Tail(p), l[i].kids)
          BY <1>1, <2>7, <3>6
        <4>3. QED BY <3>6, <4>1, <4>2
      <3>8. Without(l, p) = WithKids(l, i, kids)
        BY <2>5, <2>7, <3>3, WithoutDef
      <3> HIDE DEF kids
      <3>9. Entries(Without(l, p)) = others \cup Own(l[i]) \cup Below(l[i].name, Entries(kids))
        <4> HIDE DEF i
        <4>1. WithKids(l, i, kids) \in AnyLayer
          BY <2>2, <3>8
        <4>2. Entries(WithKids(l, i, kids))
                = (UNION {EntriesOf(l[j]) : j \in DOMAIN l \ {i}})
                    \cup Own(l[i]) \cup Below(l[i].name, Entries(kids))
          BY <2>5, <3>3, <4>1, EntriesWithKids
        <4>3. QED BY <3>8, <4>2, Zenon
      <3>10. Entries(l) = others \cup EntriesOf(l[i])
        BY <2>5, <3>3, EntriesApart
      <3>11. \A e \in Own(l[i]) : ~IsPrefix(p, e.path)
        <4>1. ASSUME NEW e \in Own(l[i]) PROVE ~IsPrefix(p, e.path)
          <5>1. e.path = <<l[i].name>> /\ l[i].name \in Name
            BY <2>5, <3>3, AnyLayerKids, NodeKids DEF Own
          <5>2. QED BY <2>7, <5>1, PrefixFromHead
        <4>2. QED BY <4>1
      <3>12. Below(l[i].name, Entries(kids)) = Rest(p, Below(l[i].name, Entries(l[i].kids)))
        <4>1. ASSUME NEW f \in Entries(l[i].kids)
              PROVE  IsPrefix(p, <<l[i].name>> \o f.path) <=> IsPrefix(Tail(p), f.path)
          <5>1. f.path \in AnyPath /\ l[i].name \in Name
            BY <2>5, <3>3, <3>6, EntriesDef, AnyLayerKids, NodeKids DEF Listed
          <5>2. QED BY <2>5, <2>7, <3>3, <5>1, PrefixFromHead
        <4> DEFINE name == l[i].name
                   R(f) == [path |-> <<name>> \o f.path, hash |-> f.hash]
                   old == Entries(l[i].kids)
        <4>2. Entries(kids) = {f \in old : ~IsPrefix(p, R(f).path)}
          BY <3>7, <4>1
        <4>3. /\ Below(name, Entries(kids)) = {R(f) : f \in Entries(kids)}
              /\ Below(name, old) = {R(f) : f \in old}
          BY DEF Below
        <4> HIDE DEF R, old, name
        <4>4. Below(name, Entries(kids)) = Rest(p, Below(name, old))
          BY <4>2, <4>3
        <4>5. QED BY <4>4 DEF name, old
      <3> HIDE DEF others, i
      <3>13. QED BY <2>4, <3>9, <3>10, <3>11, <3>12 DEF EntriesOf
    <2>8. QED BY <2>6, <2>7
  <1>2. AnyPath \subseteq S
    <2> HIDE DEF S
    <2>1. QED BY <1>1, ByPath
  <1>3. Deletes(path, layer)
    BY <1>2
  <1>4. QED BY <1>3

-----------------------------------------------------------------------------
(* The files a comparison or a checkout reaches.                           *)

(* Paths one after the other.                                              *)
LEMMA PathsJoined ==
  ASSUME NEW at \in Seq(Name), NEW name \in Name, NEW q \in Seq(Name)
  PROVE  /\ Append(at, name) = at \o <<name>>
         /\ Append(at, name) \o q = at \o (<<name>> \o q)
         /\ <<>> \o q = q
         /\ at \o q \in Seq(Name) /\ Len(at \o q) = Len(at) + Len(q)
         /\ \A k \in 1..Len(at) : (at \o q)[k] = at[k]
         /\ \A k \in 1..Len(q) : (at \o q)[Len(at) + k] = q[k]
  OBVIOUS

(* Where a path stands for the entry e, when the layer hangs at at.        *)
At(at, e) == [path |-> at \o e.path, hash |-> e.hash]

(* The place of an entry below a folder.                                   *)
LEMMA AtBelow ==
  ASSUME NEW at \in Seq(Name), NEW name \in Name, NEW f, f.path \in Seq(Name)
  PROVE  At(Append(at, name), f) = At(at, [path |-> <<name>> \o f.path, hash |-> f.hash])
  <1>1. Append(at, name) \o f.path = at \o (<<name>> \o f.path)
    BY PathsJoined
  <1>2. QED BY <1>1 DEF At

(* A file that is reached is one of the entries.                           *)
LEMMA ReachedListed ==
  ASSUME NEW node \in AnyNode, NEW at \in Seq(Name)
  PROVE  \A r \in Reached(node, at) : \E e \in EntriesOf(node) : r = At(at, e)
  <1> DEFINE Claim(n, parent) == \A r \in Reached(n, parent) : \E e \in EntriesOf(n) : r = At(parent, e)
             S == {n \in AnyNode : \A parent \in Seq(Name) : Claim(n, parent)}
  <1>1. ASSUME NEW n \in AnyNode, \A i \in DOMAIN n.kids : n.kids[i] \in S
        PROVE  n \in S
    <2>1. SUFFICES ASSUME NEW parent \in Seq(Name), NEW r \in Reached(n, parent)
                   PROVE  \E e \in EntriesOf(n) : r = At(parent, e)
      OBVIOUS
    <2> DEFINE path == Append(parent, n.name)
    <2>2. n.name \in Name /\ n.kids \in AnyLayer /\ path \in Seq(Name)
      BY NodeKids, PathBelow
    <2>3. CASE n.type = 1
      <3> DEFINE e == [path |-> <<n.name>>, hash |-> n.hash]
      <3>1. r = [path |-> path, hash |-> n.hash]
        BY <2>1, <2>3, ReachedDef
      <3>2. path = parent \o <<n.name>>
        BY <2>2
      <3>3. e \in EntriesOf(n)
        BY <2>3 DEF EntriesOf, Own
      <3>4. r = At(parent, e)
        BY <3>1, <3>2 DEF At
      <3>5. QED BY <3>3, <3>4
    <2>4. CASE n.type # 1
      <3>1. PICK i \in DOMAIN n.kids : r \in Reached(n.kids[i], path)
        BY <2>1, <2>4, ReachedDef
      <3>2. Claim(n.kids[i], path)
        BY <1>1, <2>2
      <3>3. PICK f \in EntriesOf(n.kids[i]) : r = At(path, f)
        BY <3>1, <3>2
      <3>4. f \in Entries(n.kids)
        BY <2>2, <3>3, EntriesAre
      <3>5. f.path \in Seq(Name)
        BY <2>2, <3>4, EntriesDef DEF Listed, AnyPath
      <3> DEFINE e == [path |-> <<n.name>> \o f.path, hash |-> f.hash]
      <3>6. e \in EntriesOf(n)
        BY <3>4 DEF EntriesOf, Below
      <3>7. r = At(parent, e)
        BY <2>2, <3>3, <3>5, AtBelow
      <3>8. QED BY <3>6, <3>7
    <2>5. QED BY <2>3, <2>4
  <1>2. AnyNode \subseteq S
    <2> HIDE DEF S
    <2>1. QED BY <1>1, ByNode
  <1>3. Claim(node, at)
    BY <1>2
  <1>4. QED BY <1>3

(* The path of a file that is reached goes through its node.               *)
LEMMA ReachedThere ==
  ASSUME NEW layer \in AnyLayer, NEW i \in DOMAIN layer, NEW at \in Seq(Name),
         NEW r \in Reached(layer[i], at)
  PROVE  /\ r.path \in Seq(Name) /\ Len(r.path) \in Nat /\ Len(at) \in Nat
         /\ Len(at) < Len(r.path) /\ r.path[Len(at) + 1] = layer[i].name
  <1>1. layer[i] \in AnyNode
    BY AnyLayerKids
  <1>2. PICK e \in EntriesOf(layer[i]) : r = At(at, e)
    BY <1>1, ReachedListed
  <1>3. e.path \in AnyPath /\ e.path[1] = layer[i].name
    BY EntryName
  <1>4. e.path \in Seq(Name) /\ Len(e.path) \in Nat \ {0}
    BY <1>3, TailOfPath
  <1>5. r.path = at \o e.path
    BY <1>2 DEF At
  <1>6. Len(r.path) = Len(at) + Len(e.path) /\ r.path \in Seq(Name)
    BY <1>4, <1>5
  <1>7. 1 \in 1..Len(e.path)
    BY <1>4
  <1>8. r.path[Len(at) + 1] = e.path[1]
    BY <1>4, <1>5, <1>7, PathsJoined
  <1>9. QED BY <1>3, <1>4, <1>6, <1>8

(* A strict prefix is a shorter prefix.                                    *)
LEMMA StrictIs ==
  ASSUME NEW p \in Seq(Name), NEW q \in Seq(Name)
  PROVE  IsStrictPrefix(p, q) <=> IsPrefix(p, q) /\ Len(p) < Len(q)
  BY DEF IsPrefix, IsStrictPrefix

(* What is reached from two siblings differs in their names.               *)
LEMMA SiblingsApart ==
  ASSUME NEW layer \in AnyLayer, Distinct(layer), NEW at \in Seq(Name),
         NEW i \in DOMAIN layer, NEW j \in DOMAIN layer, i # j,
         NEW r \in Reached(layer[i], at), NEW s \in Reached(layer[j], at)
  PROVE  ~IsPrefix(r.path, s.path)
  <1> DEFINE k == Len(at) + 1
  <1>1. /\ r.path \in Seq(Name) /\ s.path \in Seq(Name) /\ k \in 1..Len(r.path)
        /\ r.path[k] = layer[i].name /\ s.path[k] = layer[j].name
    BY ReachedThere
  <1>2. layer[i].name # layer[j].name
    BY DEF Distinct
  <1> HIDE DEF k
  <1>3. QED BY <1>1, <1>2, PrefixIs

(* No path that is reached leads through another.                          *)
LEMMA ReachedApart ==
  ASSUME NEW node \in AnyNode, Tidy(node.kids), NEW at \in Seq(Name),
         NEW r \in Reached(node, at), NEW s \in Reached(node, at)
  PROVE  ~IsStrictPrefix(r.path, s.path)
  <1> DEFINE Claim(n, parent) == Tidy(n.kids) =>
               \A x, y \in Reached(n, parent) : ~IsStrictPrefix(x.path, y.path)
             S == {n \in AnyNode : \A parent \in Seq(Name) : Claim(n, parent)}
  <1>1. ASSUME NEW n \in AnyNode, \A i \in DOMAIN n.kids : n.kids[i] \in S
        PROVE  n \in S
    <2>1. SUFFICES ASSUME NEW parent \in Seq(Name), Tidy(n.kids),
                          NEW x \in Reached(n, parent), NEW y \in Reached(n, parent)
                   PROVE  ~IsStrictPrefix(x.path, y.path)
      OBVIOUS
    <2> DEFINE path == Append(parent, n.name)
    <2>2. n.name \in Name /\ n.kids \in AnyLayer /\ path \in Seq(Name)
      BY NodeKids, PathBelow
    <2>3. x.path \in Seq(Name) /\ y.path \in Seq(Name)
      BY <2>1, ReachedDef DEF Listed, AnyPath
    <2>4. IsStrictPrefix(x.path, y.path) <=> IsPrefix(x.path, y.path) /\ Len(x.path) < Len(y.path)
      BY <2>3, StrictIs
    <2>5. CASE n.type = 1
      <3>1. Reached(n, parent) = {[path |-> path, hash |-> n.hash]}
        BY <2>5, ReachedDef
      <3>2. x = y
        BY <2>1, <3>1
      <3>3. QED BY <2>3, <2>4, <3>2
    <2>6. CASE n.type # 1
      <3>1. Distinct(n.kids) /\ \A i \in DOMAIN n.kids : Tidy(n.kids[i].kids)
        BY <2>1, <2>2, TidyDef
      <3>2. Reached(n, parent) = UNION {Reached(n.kids[i], path) : i \in DOMAIN n.kids}
        BY <2>6, ReachedDef
      <3>3. PICK i \in DOMAIN n.kids : x \in Reached(n.kids[i], path)
        BY <3>2
      <3>4. PICK j \in DOMAIN n.kids : y \in Reached(n.kids[j], path)
        BY <3>2
      <3>5. CASE i = j
        <4>1. Claim(n.kids[i], path)
          BY <1>1, <2>2
        <4>2. QED BY <3>1, <3>3, <3>4, <3>5, <4>1
      <3>6. CASE i # j
        <4>1. ~IsPrefix(x.path, y.path)
          BY <2>2, <3>1, <3>3, <3>4, <3>6, SiblingsApart
        <4>2. QED BY <2>4, <4>1
      <3>7. QED BY <3>5, <3>6
    <2>7. QED BY <2>5, <2>6
  <1>2. AnyNode \subseteq S
    <2> HIDE DEF S
    <2>1. QED BY <1>1, ByNode
  <1>3. Claim(node, at)
    BY <1>2
  <1>4. QED BY <1>3

-----------------------------------------------------------------------------
(* Layers reached, fetched and compared.                                   *)

(* What is reached from a layer, and what is fetched of it.                *)
AllReached(layer) == UNION {Reached(layer[i], <<>>) : i \in DOMAIN layer}
AllFetched(layer) == UNION {Fetched(layer[i], <<>>) : i \in DOMAIN layer}

(* Only what is reached is fetched.                                        *)
LEMMA FetchedReached ==
  ASSUME NEW node \in AnyNode, NEW at \in Seq(Name)
  PROVE  Fetched(node, at) \subseteq Reached(node, at)
  <1> DEFINE Claim(n, parent) == Fetched(n, parent) \subseteq Reached(n, parent)
             S == {n \in AnyNode : \A parent \in Seq(Name) : Claim(n, parent)}
  <1>1. ASSUME NEW n \in AnyNode, \A i \in DOMAIN n.kids : n.kids[i] \in S
        PROVE  n \in S
    <2>1. SUFFICES ASSUME NEW parent \in Seq(Name), NEW r \in Fetched(n, parent)
                   PROVE  r \in Reached(n, parent)
      OBVIOUS
    <2> DEFINE path == Append(parent, n.name)
    <2>2. n.name \in Name /\ n.kids \in AnyLayer /\ path \in Seq(Name)
      BY NodeKids, PathBelow
    <2>3. CASE n.type = 1
      <3>1. /\ Fetched(n, parent) = {[path |-> path, hash |-> n.hash]}
            /\ Reached(n, parent) = {[path |-> path, hash |-> n.hash]}
        BY <2>3, FetchedDef, ReachedDef
      <3>2. QED BY <2>1, <3>1
    <2>4. CASE n.type # 1
      <3>1. /\ Fetched(n, parent) = IF n.kids = <<>> THEN {} ELSE Fetched(Head(n.kids), path)
            /\ Reached(n, parent) = UNION {Reached(n.kids[i], path) : i \in DOMAIN n.kids}
        BY <2>4, FetchedDef, ReachedDef
      <3>2. n.kids # <<>> /\ r \in Fetched(Head(n.kids), path)
        BY <2>1, <3>1
      <3>3. 1 \in DOMAIN n.kids /\ Head(n.kids) = n.kids[1]
        BY <3>2, NodeKids
      <3>4. Claim(n.kids[1], path)
        BY <1>1, <2>2, <3>3
      <3>5. r \in Reached(n.kids[1], path)
        BY <3>2, <3>3, <3>4
      <3>6. QED BY <3>1, <3>3, <3>5
    <2>5. QED BY <2>3, <2>4
  <1>2. AnyNode \subseteq S
    <2> HIDE DEF S
    <2>1. QED BY <1>1, ByNode
  <1>3. Claim(node, at)
    BY <1>2
  <1>4. QED BY <1>3

(* What is reached is listed, and is not below another file reached.       *)
LEMMA AllReachedHas ==
  ASSUME NEW layer \in AnyLayer
  PROVE  /\ AllFetched(layer) \subseteq AllReached(layer)
         /\ AllReached(layer) \subseteq Entries(layer)
         /\ Tidy(layer) => \A r, s \in AllReached(layer) : ~IsStrictPrefix(r.path, s.path)
  <1>1. \A i \in DOMAIN layer : layer[i] \in AnyNode
    BY AnyLayerKids
  <1>2. <<>> \in Seq(Name)
    OBVIOUS
  <1>3. AllFetched(layer) \subseteq AllReached(layer)
    <2>1. \A i \in DOMAIN layer : Fetched(layer[i], <<>>) \subseteq Reached(layer[i], <<>>)
      BY <1>1, <1>2, FetchedReached
    <2>2. QED BY <2>1 DEF AllFetched, AllReached
  <1>4. ASSUME NEW r \in AllReached(layer)
        PROVE  r \in Entries(layer)
    <2>1. PICK i \in DOMAIN layer : r \in Reached(layer[i], <<>>)
      BY <1>4 DEF AllReached
    <2>2. PICK e \in EntriesOf(layer[i]) : r = At(<<>>, e)
      BY <1>1, <1>2, <2>1, ReachedListed
    <2>3. e \in Entries(layer)
      BY EntriesAre
    <2>4. e \in Listed
      BY <2>3, EntriesDef
    <2>5. <<>> \o e.path = e.path
      BY <2>4 DEF Listed, AnyPath
    <2>6. r = e
      BY <2>2, <2>4, <2>5 DEF At, Listed
    <2>7. QED BY <2>3, <2>6
  <1>5. ASSUME Tidy(layer), NEW r \in AllReached(layer), NEW s \in AllReached(layer)
        PROVE  ~IsStrictPrefix(r.path, s.path)
    <2>1. Distinct(layer) /\ \A i \in DOMAIN layer : Tidy(layer[i].kids)
      BY <1>5, TidyDef
    <2>2. PICK i \in DOMAIN layer : r \in Reached(layer[i], <<>>)
      BY <1>5 DEF AllReached
    <2>3. PICK j \in DOMAIN layer : s \in Reached(layer[j], <<>>)
      BY <1>5 DEF AllReached
    <2>4. r.path \in Seq(Name) /\ s.path \in Seq(Name)
      BY <1>2, <2>2, <2>3, ReachedThere
    <2>5. CASE i = j
      BY <1>1, <1>2, <2>1, <2>2, <2>3, <2>5, ReachedApart
    <2>6. CASE i # j
      <3>1. ~IsPrefix(r.path, s.path)
        BY <1>2, <2>1, <2>2, <2>3, <2>6, SiblingsApart
      <3>2. QED BY <2>4, <3>1, StrictIs
    <2>7. QED BY <2>5, <2>6
  <1>6. QED BY <1>3, <1>4, <1>5

(* Every file of the client is compared under the path of its entry.       *)
LEMMA MetListed ==
  ASSUME NEW layer \in AnyLayer, NEW others \in AnyLayer, NEW at \in Seq(Name)
  PROVE  \A m \in Met(layer, others, at) :
           \E e \in Entries(layer) : m.path = at \o e.path /\ m.mine = e.hash
  <1> DEFINE Claim(l, o, parent) ==
               \A m \in Met(l, o, parent) :
                 \E e \in Entries(l) : m.path = parent \o e.path /\ m.mine = e.hash
             S == {l \in AnyLayer : \A o \in AnyLayer, parent \in Seq(Name) : Claim(l, o, parent)}
  <1>1. ASSUME NEW l \in AnyLayer, \A i \in DOMAIN l : l[i].kids \in S
        PROVE  l \in S
    <2>1. SUFFICES ASSUME NEW o \in AnyLayer, NEW parent \in Seq(Name), NEW m \in Met(l, o, parent)
                   PROVE  \E e \in Entries(l) : m.path = parent \o e.path /\ m.mine = e.hash
      OBVIOUS
    <2> DEFINE Of(i, j) == IF l[i].type = 1
                           THEN {[path |-> Append(parent, l[i].name), mine |-> l[i].hash,
                                  theirs |-> o[j].hash]}
                           ELSE Met(l[i].kids, o[j].kids, Append(parent, l[i].name))
    <2>2. Met(l, o, parent) = UNION {IF Same(l[i], o) = {} THEN Alone(l[i], parent)
                                     ELSE UNION {Of(i, j) : j \in Same(l[i], o)}
                                     : i \in DOMAIN l}
      BY MetDef
    <2> HIDE DEF Of
    <2>3. PICK i \in DOMAIN l : m \in IF Same(l[i], o) = {} THEN Alone(l[i], parent)
                                      ELSE UNION {Of(i, j) : j \in Same(l[i], o)}
      BY <2>1, <2>2
    <2> DEFINE path == Append(parent, l[i].name)
    <2>4. l[i] \in AnyNode /\ l[i].name \in Name /\ l[i].kids \in AnyLayer /\ path \in Seq(Name)
      BY AnyLayerKids, NodeKids, PathBelow
    <2>5. EntriesOf(l[i]) \subseteq Entries(l) /\ \A e \in Entries(l) : e.path \in Seq(Name)
      BY EntriesAre, EntriesDef DEF Listed, AnyPath
    <2>6. SUFFICES \E e \in EntriesOf(l[i]) : m.path = parent \o e.path /\ m.mine = e.hash
      BY <2>5
    <2>7. CASE m \in Alone(l[i], parent)
      <3>1. PICK r \in Reached(l[i], parent) : m.path = r.path /\ m.mine = r.hash
        BY <2>7 DEF Alone
      <3>2. PICK e \in EntriesOf(l[i]) : r = At(parent, e)
        BY <2>4, ReachedListed
      <3>3. m.path = parent \o e.path /\ m.mine = e.hash
        BY <3>1, <3>2 DEF At
      <3>4. QED BY <3>3
    <2>8. ASSUME NEW j \in Same(l[i], o), m \in Of(i, j)
          PROVE  \E e \in EntriesOf(l[i]) : m.path = parent \o e.path /\ m.mine = e.hash
      <3>1. CASE l[i].type = 1
        <4>1. m.path = path /\ m.mine = l[i].hash
          BY <2>8, <3>1 DEF Of
        <4> DEFINE e == [path |-> <<l[i].name>>, hash |-> l[i].hash]
        <4>2. e \in EntriesOf(l[i])
          BY <3>1 DEF EntriesOf, Own
        <4>3. parent \o e.path = path /\ e.hash = l[i].hash
          BY <2>4
        <4>4. QED BY <4>1, <4>2, <4>3
      <3>2. CASE l[i].type # 1
        <4>1. j \in DOMAIN o /\ o[j].kids \in AnyLayer
          BY <2>8, MapPlaces, AnyLayerKids DEF Same
        <4>2. m \in Met(l[i].kids, o[j].kids, path)
          BY <2>8, <3>2 DEF Of
        <4>3. Claim(l[i].kids, o[j].kids, path)
          BY <1>1, <2>4, <4>1
        <4>4. PICK f \in Entries(l[i].kids) : m.path = path \o f.path /\ m.mine = f.hash
          BY <4>2, <4>3
        <4> DEFINE e == [path |-> <<l[i].name>> \o f.path, hash |-> f.hash]
        <4>5. e \in EntriesOf(l[i])
          BY DEF EntriesOf, Below
        <4>6. f.path \in Seq(Name)
          BY <2>4, EntriesDef DEF Listed, AnyPath
        <4>7. path \o f.path = parent \o (<<l[i].name>> \o f.path)
          BY ZenonT(60), <2>4, <4>6, PathsJoined
        <4>8. m.path = parent \o e.path /\ m.mine = e.hash
          BY <4>4, <4>7
        <4>9. QED BY <4>5, <4>8
      <3>3. QED BY <3>1, <3>2
    <2>9. QED BY <2>3, <2>7, <2>8
  <1>2. AnyLayer \subseteq S
    <2> HIDE DEF S
    <2>1. QED BY <1>1, ByDepth
  <1>3. Claim(layer, others, at)
    BY <1>2
  <1>4. QED BY <1>3

-----------------------------------------------------------------------------
(* How many lines a tree takes: add makes the text longer.                 *)

(* The lines a layer takes.                                                *)
Count(layer) == Len(PrintFdStruct(layer, 0))

(* The number of lines does not depend on the first index.                 *)
LEMMA CountAnywhere ==
  ASSUME NEW layer \in AnyLayer, NEW begin \in Nat
  PROVE  Len(PrintFdStruct(layer, begin)) = Count(layer)
  <1> DEFINE Printed(l, b) == PrintFdStruct(l, b)
             S == {l \in AnyLayer : \A b, c \in Nat : Len(Printed(l, b)) = Len(Printed(l, c))}
  <1>1. <<>> \in S
    <2>1. \A b \in Nat : Printed(<<>>, b) = <<>>
      BY EmptyLayer, PrintLinksDown
    <2>2. QED BY <2>1, EmptyLayer
  <1>2. ASSUME NEW l \in AnyLayer \ {<<>>}, Head(l).kids \in S, Tail(l) \in S
        PROVE  l \in S
    <2>1. ASSUME NEW b \in Nat
          PROVE  /\ Len(Printed(Head(l).kids, b + 1)) \in Nat
                 /\ Len(Printed(l, b)) = 1 + Len(Printed(Head(l).kids, b + 1))
                      + Len(Printed(Tail(l), b + 1 + Len(Printed(Head(l).kids, b + 1))))
      <3>1. Printed(Head(l).kids, b + 1) \in Seq(AnyLine)
        BY <1>2, PrintedInParts
      <3>2. QED BY <1>2, <3>1, PrintedInParts
    <2>2. ASSUME NEW b \in Nat, NEW c \in Nat
          PROVE  Len(Printed(l, b)) = Len(Printed(l, c))
      <3> HIDE DEF Printed
      <3> DEFINE kids(x) == Len(Printed(Head(l).kids, x + 1))
                 rest(x) == Len(Printed(Tail(l), x + 1 + kids(x)))
      <3>1. kids(b) = kids(c)
        BY <1>2
      <3>2. b + 1 + kids(b) \in Nat /\ c + 1 + kids(c) \in Nat
        BY <2>1
      <3>3. rest(b) = rest(c)
        <4> HIDE DEF kids
        <4>1. QED BY <1>2, <3>2
      <3>4. Len(Printed(l, b)) = 1 + kids(b) + rest(b) /\ Len(Printed(l, c)) = 1 + kids(c) + rest(c)
        BY <2>1
      <3> HIDE DEF kids, rest
      <3>5. QED BY <3>1, <3>3, <3>4
    <2>3. QED BY <1>2, <2>2
  <1>3. AnyLayer \subseteq S
    <2> HIDE DEF S
    <2>1. QED BY <1>1, <1>2, ByHeadAndTail
  <1>4. QED BY <1>3 DEF Count

(* A layer takes a line for each of its nodes and what their children      *)
(* take.                                                                   *)
LEMMA CountDef ==
  ASSUME NEW layer \in AnyLayer
  PROVE  /\ Count(layer) \in Nat
         /\ layer = <<>> => Count(layer) = 0
         /\ layer # <<>> => Count(layer) = 1 + Count(Head(layer).kids) + Count(Tail(layer))
  <1>1. Count(layer) \in Nat
    <2>1. PrintFdStruct(layer, 0) \in Seq(AnyLine)
      BY PrintDef
    <2>2. QED BY <2>1 DEF Count
  <1>2. layer = <<>> => Count(layer) = 0
    <2>1. layer = <<>> => PrintFdStruct(layer, 0) = <<>>
      BY PrintLinksDown
    <2>2. QED BY <2>1 DEF Count
  <1>3. ASSUME layer # <<>>
        PROVE  Count(layer) = 1 + Count(Head(layer).kids) + Count(Tail(layer))
    <2> DEFINE kids == PrintFdStruct(Head(layer).kids, 0 + 1)
               rest == PrintFdStruct(Tail(layer), 0 + 1 + Len(kids))
    <2>1. kids \in Seq(AnyLine) /\ Len(PrintFdStruct(layer, 0)) = 1 + Len(kids) + Len(rest)
      BY <1>3, PrintedInParts
    <2>2. Head(layer).kids \in AnyLayer /\ Tail(layer) \in AnyLayer
      BY <1>3, AnyLayerKids
    <2>3. Len(kids) = Count(Head(layer).kids)
      BY <2>2, CountAnywhere
    <2> HIDE DEF kids
    <2>4. Len(rest) = Count(Tail(layer))
      <3>1. 0 + 1 + Len(kids) \in Nat
        BY <2>1
      <3>2. QED BY <2>2, <3>1, CountAnywhere
    <2> HIDE DEF rest
    <2>5. QED BY <2>1, <2>3, <2>4 DEF Count
  <1>4. QED BY <1>1, <1>2, <1>3

-----------------------------------------------------------------------------
(* The invariant.                                                          *)

(* A tree that commands produce: room for a path of Path, no name twice in *)
(* a folder, and no file but those of Path.                                *)
Proper(tree) ==
  /\ tree \in Node(LayersOf[MaxDepth - 1])
  /\ Tidy(tree.kids)
  /\ Entries(tree.kids) \subseteq Index!Entry

(* A text of such a tree, lines of an older one behind it.                 *)
IsText(text) ==
  /\ text \in AnyText /\ text.count <= Len(text.lines)
  /\ \E tree : Proper(tree) /\ IsTextOf(text, tree)

(* The types of a proper tree.                                             *)
LEMMA ProperTree ==
  ASSUME NEW tree, Proper(tree)
  PROVE  /\ MaxDepth - 1 \in Nat /\ MaxDepth - 1 <= MaxDepth
         /\ tree \in AnyTree /\ <<tree>> \in AnyLayer /\ tree \in AnyNode
         /\ tree.kids \in LayersOf[MaxDepth - 1] /\ tree.kids \in AnyLayer
         /\ tree.version \in Nat /\ Tidy(tree.kids) /\ Entries(tree.kids) \subseteq Index!Entry
  <1>1. MaxDepth - 1 \in Nat /\ MaxDepth - 1 <= MaxDepth /\ (MaxDepth - 1) + 1 = MaxDepth
        /\ MaxDepth \in Nat
    BY LayerAssumption
  <1> DEFINE k == MaxDepth - 1
  <1>2. tree \in Node(LayersOf[k])
    BY DEF Proper
  <1>3. LayersOf[k] \subseteq AnyLayer
    BY <1>1, AnyDepth
  <1>4. LayersOf[MaxDepth] = Seq(Node(LayersOf[k]))
    BY <1>1, LayersOfDef
  <1> HIDE DEF k
  <1>5. tree.kids \in LayersOf[k] /\ tree.version \in Nat
    BY <1>2 DEF Node
  <1>6. tree \in AnyNode
    BY <1>2, <1>3 DEF Node, AnyNode
  <1>7. <<tree>> \in AnyLayer
    BY <1>2, <1>4 DEF AnyLayer
  <1>8. QED BY <1>1, <1>3, <1>5, <1>6, <1>7 DEF AnyTree, Proper, k

(* The text of a proper tree has a line for each node and one for the      *)
(* root.                                                                   *)
LEMMA SerializedText ==
  ASSUME NEW tree, Proper(tree)
  PROVE  /\ SerializeStructure(tree) \in AnyText
         /\ SerializeStructure(tree) = [count |-> 1 + Count(tree.kids),
                                        lines |-> PrintFdStruct(<<tree>>, 0)]
         /\ Len(PrintFdStruct(<<tree>>, 0)) = 1 + Count(tree.kids) /\ Count(tree.kids) \in Nat
         /\ IsTextOf(SerializeStructure(tree), tree)
  <1> DEFINE lines == PrintFdStruct(<<tree>>, 0)
             layer == <<tree>>
  <1>1. layer \in AnyLayer /\ tree.kids \in AnyLayer
    BY ProperTree
  <1>2. lines \in Seq(AnyLine)
    BY <1>1, PrintDef
  <1>3. layer # <<>> /\ Head(layer) = tree /\ Tail(layer) = <<>>
    OBVIOUS
  <1>4. Count(layer) = 1 + Count(tree.kids) + Count(<<>>)
    <2> HIDE DEF layer
    <2>1. QED BY <1>1, <1>3, CountDef
  <1>5. Count(<<>>) = 0 /\ Count(tree.kids) \in Nat
    BY <1>1, EmptyLayer, CountDef
  <1>6. Len(lines) = 1 + Count(tree.kids)
    BY <1>4, <1>5 DEF Count
  <1>7. SerializeStructure(tree) = [count |-> Len(lines), lines |-> lines]
    BY DEF SerializeStructure
  <1> HIDE DEF lines
  <1>8. SerializeStructure(tree) \in AnyText
    BY <1>2, <1>7 DEF AnyText
  <1>9. IsTextOf(SerializeStructure(tree), tree)
    BY <1>7 DEF IsTextOf, lines
  <1>10. QED BY <1>5, <1>6, <1>7, <1>8, <1>9 DEF lines

(* A text of a tree stands for that tree.                                  *)
LEMMA TextOf ==
  ASSUME NEW tree, Proper(tree)
  PROVE  /\ ConstructStructure(SerializeStructure(tree)) = tree
         /\ IsText(SerializeStructure(tree))
         /\ IndexOf(SerializeStructure(tree)) = Entries(tree.kids)
  <1> DEFINE text == SerializeStructure(tree)
  <1>1. ConstructStructure(text) = tree
    BY ProperTree, SerializedText, ReadsBack
  <1>2. text.count <= Len(text.lines)
    <2>1. text = [count |-> 1 + Count(tree.kids), lines |-> PrintFdStruct(<<tree>>, 0)]
      BY SerializedText
    <2>2. Len(PrintFdStruct(<<tree>>, 0)) = 1 + Count(tree.kids) /\ Count(tree.kids) \in Nat
      BY SerializedText
    <2> HIDE DEF text
    <2>3. QED BY <2>1, <2>2
  <1>3. text \in AnyText /\ IsTextOf(text, tree)
    BY SerializedText
  <1> HIDE DEF text
  <1>4. IsText(text) /\ IndexOf(text) = Entries(tree.kids)
    BY <1>1, <1>2, <1>3 DEF IsText, IndexOf
  <1>5. QED BY <1>1, <1>4 DEF text

(* What is read from such a text, ...                                      *)
LEMMA TextIs ==
  ASSUME NEW text, IsText(text)
  PROVE  /\ Proper(ConstructStructure(text)) /\ IsTextOf(text, ConstructStructure(text))
         /\ text \in AnyText /\ text \notin {Null, Bad, None}
         /\ IndexOf(text) = Entries(ConstructStructure(text).kids)
         /\ IndexOf(text) \subseteq Index!Entry
  <1>1. PICK tree : Proper(tree) /\ IsTextOf(text, tree)
    BY DEF IsText
  <1>2. ConstructStructure(text) = tree
    BY <1>1, ProperTree, ReadsBack
  <1>3. text \in AnyText
    BY DEF IsText
  <1>4. text \notin {Null, Bad, None}
    BY <1>3, TreeAssumption
  <1>5. IndexOf(text) = Entries(tree.kids) /\ Entries(tree.kids) \subseteq Index!Entry
    BY <1>1, <1>2, ProperTree DEF IndexOf
  <1>6. QED BY <1>1, <1>2, <1>3, <1>4, <1>5

(* ... and written again: the lines that it counts.                        *)
LEMMA TextAgain ==
  ASSUME NEW text, IsText(text)
  PROVE  SerializeStructure(ConstructStructure(text)) =
           [text EXCEPT !.lines = SubSeq(@, 1, text.count)]
  <1> DEFINE tree == ConstructStructure(text)
             lines == PrintFdStruct(<<tree>>, 0)
             again == SubSeq(text.lines, 1, text.count)
  <1>1. Proper(tree) /\ IsTextOf(text, tree) /\ text \in AnyText
    BY TextIs
  <1>2. text.count = Len(lines) /\ \A i \in 1..Len(lines) : text.lines[i] = lines[i]
    BY <1>1 DEF IsTextOf
  <1>3. lines \in Seq(AnyLine) /\ SerializeStructure(tree) = [count |-> Len(lines), lines |-> lines]
    BY <1>1, ProperTree, PrintDef DEF SerializeStructure
  <1> HIDE DEF lines, tree
  <1>4. text.lines \in Seq(AnyLine) /\ text.count \in Nat /\ text.count <= Len(text.lines)
    BY <1>1 DEF AnyText, IsText
  <1>5. again \in Seq(AnyLine) /\ Len(again) = text.count
        /\ \A i \in 1..text.count : again[i] = text.lines[i]
    BY <1>4
  <1> HIDE DEF again
  <1>6. again = lines
    BY <1>2, <1>3, <1>5
  <1>7. [text EXCEPT !.lines = again] = [count |-> text.count, lines |-> again]
    BY <1>1 DEF AnyText
  <1>8. QED BY <1>2, <1>3, <1>6, <1>7 DEF tree, again

(* What is behind the place where other lines end are lines.               *)
LEMMA RestOfLines ==
  ASSUME NEW old \in Seq(AnyLine), NEW lines \in Seq(AnyLine)
  PROVE  SubSeq(old, Len(lines) + 1, Len(old)) \in Seq(AnyLine)
  OBVIOUS

(* A text written over an older one stands for what it stood for before.   *)
LEMMA TextOver ==
  ASSUME NEW old, old \in {Null, Bad, None} \/ IsText(old), NEW text, IsText(text)
  PROVE  /\ IsText(OverText(old, text))
         /\ ConstructStructure(OverText(old, text)) = ConstructStructure(text)
         /\ IndexOf(OverText(old, text)) = IndexOf(text)
  <1> DEFINE tree == ConstructStructure(text)
             tail == SubSeq(old.lines, Len(text.lines) + 1, Len(old.lines))
             new == [text EXCEPT !.lines = text.lines \o tail]
  <1>1. CASE old \in {Null, Bad, None}
    BY <1>1 DEF OverText
  <1>2. CASE old \notin {Null, Bad, None}
    <2>1. OverText(old, text) = new
      BY <1>2 DEF OverText
    <2>2. Proper(tree) /\ IsTextOf(text, tree) /\ text \in AnyText
      BY TextIs
    <2>3. old \in AnyText
      BY <1>2, TextIs
    <2>4. /\ text.lines \in Seq(AnyLine) /\ text.count \in Nat /\ text.count <= Len(text.lines)
          /\ old.lines \in Seq(AnyLine)
      BY <2>2, <2>3 DEF AnyText, IsText
    <2>5. tail \in Seq(AnyLine)
      BY <2>4, RestOfLines
    <2>6. new = [count |-> text.count, lines |-> text.lines \o tail]
      <3>1. \A lines : [text EXCEPT !.lines = lines] = [count |-> text.count, lines |-> lines]
        BY <2>2 DEF AnyText
      <3> HIDE DEF tail
      <3>2. QED BY <3>1
    <2> HIDE DEF new, tail, tree
    <2>7. new \in AnyText /\ new.count <= Len(new.lines)
      BY <2>4, <2>5, <2>6 DEF AnyText
    <2>8. \A i \in 1..text.count : new.lines[i] = text.lines[i]
      BY <2>4, <2>5, <2>6
    <2>9. IsTextOf(new, tree)
      <3> DEFINE lines == PrintFdStruct(<<tree>>, 0)
      <3>1. text.count = Len(lines) /\ \A i \in 1..Len(lines) : text.lines[i] = lines[i]
        BY <2>2 DEF IsTextOf
      <3> HIDE DEF lines
      <3>2. new.count = Len(lines) /\ \A i \in 1..Len(lines) : new.lines[i] = lines[i]
        BY <2>6, <2>8, <3>1
      <3>3. QED BY <3>2 DEF IsTextOf, lines
    <2>10. ConstructStructure(new) = tree
      BY <2>2, <2>9, ProperTree, ReadsBack
    <2>11. QED BY <2>1, <2>2, <2>7, <2>9, <2>10 DEF IsText, IndexOf, tree
  <1>3. QED BY <1>1, <1>2

(* A proper tree stays one with other children, ...                        *)
LEMMA ProperWithKids ==
  ASSUME NEW tree, Proper(tree), NEW kids \in LayersOf[MaxDepth - 1],
         Tidy(kids), Entries(kids) \subseteq Index!Entry
  PROVE  Proper([tree EXCEPT !.kids = kids]) /\ [tree EXCEPT !.kids = kids].kids = kids
  <1> DEFINE new == [tree EXCEPT !.kids = kids]
  <1>1. tree \in Node(LayersOf[MaxDepth - 1])
    BY DEF Proper
  <1>2. new \in Node(LayersOf[MaxDepth - 1]) /\ new.kids = kids
    BY <1>1 DEF Node
  <1> HIDE DEF new
  <1>3. QED BY <1>2 DEF Proper, new

(* ... and with another version.                                           *)
LEMMA ProperWithVersion ==
  ASSUME NEW tree, Proper(tree)
  PROVE  /\ Proper([tree EXCEPT !.version = @ + 1])
         /\ [tree EXCEPT !.version = @ + 1].kids = tree.kids
  <1> DEFINE new == [tree EXCEPT !.version = @ + 1]
  <1>1. tree \in Node(LayersOf[MaxDepth - 1])
    BY DEF Proper
  <1>2. new \in Node(LayersOf[MaxDepth - 1]) /\ new.kids = tree.kids
    BY <1>1 DEF Node
  <1> HIDE DEF new
  <1>3. QED BY <1>2 DEF Proper, new

(* What is known of the lines of .Update: the files to delete were listed. *)
KnownLines(lines) ==
  \A l \in lines : /\ l.mode \in {"A", "D", "M", "U"} /\ l.path \in AnyPath
                   /\ l.mode = "D" => l.path \in Path

TreeInv ==
  /\ manifest \in {Null, Bad} \/ IsText(manifest)
  /\ IsText(server) /\ (temp = None \/ IsText(temp))
  /\ disk \in [Path -> Contents \cup {None, <<>>}] /\ Possible(disk)
  /\ KnownLines(update) /\ KnownLines(pending)
  /\ runs \in 0..MaxRuns /\ edits \in 0..MaxEdits

(* What the client reads from its .Manifest.                               *)
LEMMA RootIs ==
  ASSUME TreeInv, Parses
  PROVE  /\ IsText(manifest) /\ Proper(Root)
         /\ IndexOf(manifest) = Entries(Root.kids)
         /\ Root.kids \in AnyLayer /\ Root.kids \in LayersOf[MaxDepth - 1]
  <1>1. IsText(manifest)
    BY DEF TreeInv, Parses
  <1>2. QED BY <1>1, TextIs, ProperTree DEF Root

(* The paths of users fit into the depth of the trees.                     *)
LEMMA PathOf ==
  ASSUME NEW p \in Path
  PROVE  p \in AnyPath /\ Len(p) <= MaxDepth - 1
  <1>1. p \in Seq(Name) \ {<<>>} /\ Len(p) < MaxDepth
    BY TreeAssumption
  <1>2. Len(p) \in Nat /\ MaxDepth \in Nat
    BY <1>1, LayerAssumption
  <1>3. QED BY <1>1, <1>2 DEF AnyPath

(* The hash of a working file.                                             *)
LEMMA DiskHash ==
  ASSUME TreeInv, NEW p \in Path
  PROVE  Flat!Md5(disk[p]) \in Hash
  <1>1. disk[p] \in Contents \cup {None, <<>>}
    BY DEF TreeInv
  <1>2. QED BY <1>1, TreeAssumption DEF Flat!Md5

-----------------------------------------------------------------------------
(* The text each command writes.                                           *)

(* add writes the text of a tree with one more entry.                      *)
LEMMA AddText ==
  ASSUME TreeInv, NEW p \in Path, Add(p)
  PROVE  /\ Parses /\ IsText(manifest')
         /\ IndexOf(manifest') = IndexOf(manifest) \cup {[path |-> p, hash |-> Flat!Md5(disk[p])]}
         /\ [path |-> p, hash |-> Flat!Md5(disk[p])] \in Index!Entry
         /\ \A f \in IndexOf(manifest) : f.path # p
  <1> DEFINE hash == Flat!Md5(disk[p])
             version == Root.version + 1
             kids == AddTo(Root.kids, p, hash, version)
             tree == [Root EXCEPT !.kids = kids]
             e == [path |-> p, hash |-> hash]
             n == MaxDepth - 1
  <1>1. Parses /\ ~IsAdded(Root.kids, p) /\ manifest' = OverText(manifest, SerializeStructure(tree))
    BY DEF Add
  <1>2. /\ IsText(manifest) /\ Proper(Root) /\ IndexOf(manifest) = Entries(Root.kids)
        /\ Root.kids \in AnyLayer /\ Root.kids \in LayersOf[n]
    BY <1>1, RootIs
  <1>3. /\ n \in Nat /\ n <= MaxDepth /\ Tidy(Root.kids)
        /\ Entries(Root.kids) \subseteq Index!Entry /\ Root.version \in Nat
    BY <1>2, ProperTree
  <1>4. hash \in Hash
    BY DiskHash
  <1>5. e \in Index!Entry
    BY <1>4 DEF Index!Entry
  <1>6. p \in AnyPath /\ Len(p) <= n /\ version \in Nat /\ hash \in Hash \cup {None}
    BY <1>3, <1>4, PathOf
  <1> HIDE DEF hash, version, e, n
  <1>7. kids \in LayersOf[n]
    BY <1>2, <1>3, <1>6, AddDepth
  <1>8. Entries(kids) = Entries(Root.kids) \cup {e}
    <2>1. PICK old \in LayersOf[n] : old = Root.kids
      BY <1>2
    <2>2. n \in Nat /\ n <= MaxDepth
      BY <1>3
    <2>3. Entries(AddTo(old, p, hash, version)) = Entries(old) \cup {EntryFor(p, hash)}
      BY <1>6, <2>2, AddEntry
    <2>4. QED BY <2>1, <2>3 DEF e, EntryFor
  <1>9. Tidy(kids)
    BY <1>1, <1>2, <1>3, <1>6, AddTidy
  <1>11. \A f \in Entries(Root.kids) : f.path # p
    BY <1>1, <1>2, <1>3, <1>6, NotAdded
  <1> HIDE DEF kids
  <1>12. Proper(tree) /\ tree.kids = kids
    <2>1. Entries(kids) \subseteq Index!Entry
      BY <1>3, <1>5, <1>8
    <2>2. kids \in LayersOf[MaxDepth - 1]
      BY <1>7 DEF n
    <2>3. QED BY <1>2, <1>9, <2>1, <2>2, ProperWithKids
  <1> HIDE DEF tree
  <1>13. IsText(SerializeStructure(tree)) /\ IndexOf(SerializeStructure(tree)) = Entries(kids)
    BY <1>12, TextOf
  <1>14. IsText(manifest') /\ IndexOf(manifest') = Entries(kids)
    BY <1>1, <1>2, <1>13, TextOver
  <1>15. QED BY <1>1, <1>2, <1>5, <1>8, <1>11, <1>14 DEF e, hash

(* The text that remove and upgrade write.                                 *)
LEMMA RemoveText ==
  ASSUME TreeInv, Parses, NEW p \in AnyPath, RemoveFinds(p)
  PROVE  /\ IsText(RemovedText(p))
         /\ IndexOf(RemovedText(p)) = {e \in IndexOf(manifest) : ~IsPrefix(p, e.path)}
  <1> DEFINE kids == Without(Root.kids, p)
             tree == [Root EXCEPT !.kids = kids]
             n == MaxDepth - 1
  <1>1. RemovedText(p) = SerializeStructure(tree)
    BY DEF RemovedText
  <1>2. /\ Proper(Root) /\ IndexOf(manifest) = Entries(Root.kids)
        /\ Root.kids \in AnyLayer /\ Root.kids \in LayersOf[n]
    BY RootIs
  <1>3. /\ n \in Nat /\ n <= MaxDepth /\ Tidy(Root.kids)
        /\ Entries(Root.kids) \subseteq Index!Entry
    BY <1>2, ProperTree
  <1> HIDE DEF n
  <1>4. kids \in LayersOf[n]
    BY <1>2, <1>3, WithoutDepth
  <1>5. Entries(kids) = {e \in Entries(Root.kids) : ~IsPrefix(p, e.path)}
    <2>1. PICK found \in LayersAt(Root.kids, p) : SearchStructNodeLayer(found, Last(p)) # 0
      BY DEF RemoveFinds
    <2>2. QED BY <1>2, <1>3, <2>1, WithoutEntries
  <1>6. Tidy(kids)
    BY <1>2, <1>3, WithoutTidy
  <1> HIDE DEF kids
  <1>7. Entries(kids) \subseteq Index!Entry
    BY <1>3, <1>5
  <1>8. Proper(tree) /\ tree.kids = kids
    <2>1. kids \in LayersOf[MaxDepth - 1]
      BY <1>4 DEF n
    <2>2. QED BY <1>2, <1>6, <1>7, <2>1, ProperWithKids
  <1> HIDE DEF tree
  <1>9. IsText(RemovedText(p)) /\ IndexOf(RemovedText(p)) = Entries(kids)
    BY <1>1, <1>8, TextOf
  <1>10. QED BY <1>2, <1>5, <1>9

(* push, given up or not, only raises the version, and the server takes    *)
(* the text from before or none.                                           *)
LEMMA PushText ==
  ASSUME TreeInv, Push \/ PushGivenUp
  PROVE  /\ Parses /\ IsText(manifest') /\ IndexOf(manifest') = IndexOf(manifest)
         /\ IsText(server') /\ IndexOf(server') \in {IndexOf(manifest), IndexOf(server)}
         /\ temp' = None \/ IsText(temp')
  <1> DEFINE tree == [Root EXCEPT !.version = @ + 1]
             written == OverText(temp, manifest)
  <1>1. /\ Parses /\ manifest' = SerializeStructure(tree)
        /\ server' \in {written, server} /\ temp' \in {None, written, temp}
    BY DEF Push, PushGivenUp, SameVersion, RaiseVersion
  <1>2. IsText(manifest) /\ Proper(Root) /\ IndexOf(manifest) = Entries(Root.kids)
    BY <1>1, RootIs
  <1>3. Proper(tree) /\ tree.kids = Root.kids
    BY <1>2, ProperWithVersion
  <1> HIDE DEF tree
  <1>4. IsText(manifest') /\ IndexOf(manifest') = Entries(Root.kids)
    BY <1>1, <1>3, TextOf
  <1>5. IsText(server) /\ (temp = None \/ IsText(temp))
    BY DEF TreeInv
  <1>6. IsText(written) /\ IndexOf(written) = IndexOf(manifest)
    BY <1>2, <1>5, TextOver
  <1> HIDE DEF written
  <1>7. QED BY <1>1, <1>2, <1>4, <1>5, <1>6

(* create writes the text of an empty folder.                              *)
LEMMA InitText ==
  LET text == SerializeStructure(FolderNode(Project, <<>>, 0))
  IN IsText(text) /\ IndexOf(text) = {}
  <1> DEFINE tree == FolderNode(Project, <<>>, 0)
             n == MaxDepth - 1
  <1>1. n \in Nat /\ n <= MaxDepth
    BY LayerAssumption
  <1>2. <<>> \in LayersOf[n]
    BY <1>1, AnyDepth
  <1>3. tree.kids = <<>>
    BY DEF FolderNode
  <1>4. tree \in Node(LayersOf[n])
    <2> HIDE DEF n
    <2>1. QED BY <1>2, TreeAssumption DEF FolderNode, Node
  <1> HIDE DEF tree
  <1>5. Proper(tree)
    BY <1>3, <1>4, TidyEmpty, EntriesEmpty DEF Proper
  <1>6. IsText(SerializeStructure(tree)) /\ IndexOf(SerializeStructure(tree)) = {}
    BY <1>3, <1>5, TextOf, EntriesEmpty
  <1>7. QED BY <1>6 DEF tree

-----------------------------------------------------------------------------
(* The steps that leave the texts alone.                                   *)

(* create satisfies the invariant.                                         *)
LEMMA TreeInit == Init => TreeInv
  <1> SUFFICES ASSUME Init PROVE TreeInv
    OBVIOUS
  <1>1. IsText(manifest) /\ IsText(server) /\ temp = None
    BY InitText DEF Init
  <1>2. disk \in [Path -> Contents \cup {None}] /\ Possible(disk)
    BY DEF Init
  <1>3. disk \in [Path -> Contents \cup {None, <<>>}]
    BY <1>2
  <1>4. runs \in 0..MaxRuns /\ edits \in 0..MaxEdits
    BY TreeAssumption DEF Init
  <1>5. QED BY <1>1, <1>2, <1>3, <1>4 DEF Init, TreeInv, KnownLines

(* What is compared is listed in .Manifest.                                *)
LEMMA MetPaths ==
  ASSUME TreeInv, Parses, NEW others \in AnyLayer, NEW m \in Met(Root.kids, others, <<>>)
  PROVE  m.path \in Path /\ [path |-> m.path, hash |-> m.mine] \in IndexOf(manifest)
  <1>1. IsText(manifest) /\ IndexOf(manifest) = Entries(Root.kids) /\ Root.kids \in AnyLayer
    BY RootIs
  <1>2. <<>> \in Seq(Name)
    OBVIOUS
  <1>3. PICK e \in Entries(Root.kids) : m.path = <<>> \o e.path /\ m.mine = e.hash
    BY <1>1, <1>2, MetListed
  <1>4. e \in Index!Entry /\ e \in Listed
    BY <1>1, TextIs, EntriesDef
  <1>5. <<>> \o e.path = e.path
    BY <1>4 DEF Listed, AnyPath
  <1>6. e = [path |-> e.path, hash |-> e.hash] /\ e.path \in Path
    BY <1>4 DEF Index!Entry
  <1>7. QED BY <1>1, <1>3, <1>5, <1>6

(* The lines for a file are about that file.                               *)
LEMMA LinesKnown ==
  ASSUME NEW m, m.path \in Path, NEW same, NEW answer, NEW l \in LinesFor(m, same, answer)
  PROVE  l.mode \in {"D", "M", "U"} /\ l.path = m.path
  <1> DEFINE upload == [mode |-> "U", path |-> m.path, new |-> Flat!Md5(disk[m.path])]
             take == [mode |-> "M", path |-> m.path, new |-> m.theirs]
             kept == [upload EXCEPT !.new = m.mine]
             delete == [mode |-> "D", path |-> m.path, new |-> None]
  <1>1. l \in {upload, take, kept, delete}
    BY DEF LinesFor
  <1>2. /\ upload.mode = "U" /\ take.mode = "M" /\ kept.mode = "U" /\ delete.mode = "D"
        /\ upload.path = m.path /\ take.path = m.path /\ kept.path = m.path /\ delete.path = m.path
    OBVIOUS
  <1> HIDE DEF upload, take, kept, delete
  <1>3. QED BY <1>1, <1>2

(* update writes such lines only.                                          *)
LEMMA UpdateKnown ==
  ASSUME TreeInv, Update
  PROVE  KnownLines(update')
  <1> DEFINE theirs == ConstructStructure(server)
             same == Root.version = theirs.version
             met == Met(Root.kids, theirs.kids, <<>>)
             added == IF same THEN {} ELSE Added(Root.kids, theirs.kids)
             Lines(m, answer) == LinesFor(m, same, IF Asked(m, same) THEN answer[m] ELSE "other")
  <1>1. Parses /\ \E answer :
          update' = IF CompareFaults(Root.kids, theirs.kids) THEN {}
                    ELSE (UNION {Lines(m, answer) : m \in met}) \cup added
    BY DEF Update
  <1>2. Root.kids \in AnyLayer /\ theirs.kids \in AnyLayer
    BY <1>1, RootIs, TextIs, ProperTree DEF TreeInv
  <1>3. ASSUME NEW m \in met, NEW answer, NEW l \in Lines(m, answer)
        PROVE  l.mode \in {"A", "D", "M", "U"} /\ l.path \in AnyPath /\ l.path \in Path
    <2>1. m.path \in Path
      BY <1>1, <1>2, MetPaths
    <2>2. l.mode \in {"D", "M", "U"} /\ l.path = m.path
      BY <2>1, LinesKnown
    <2>3. QED BY <2>1, <2>2, PathOf
  <1>4. ASSUME NEW l \in added
        PROVE  l.mode = "A" /\ l.path \in AnyPath
    BY <1>2, <1>4, AddedDef DEF AddLines
  <1> HIDE DEF Lines, met, added
  <1>5. PICK answer :
          update' = IF CompareFaults(Root.kids, theirs.kids) THEN {}
                    ELSE (UNION {Lines(m, answer) : m \in met}) \cup added
    BY <1>1
  <1>6. \A l \in update' : l \in added \/ \E m \in met : l \in Lines(m, answer)
    BY <1>5
  <1>7. QED BY <1>3, <1>4, <1>6 DEF KnownLines

(* A hash found belongs to an entry.                                       *)
LEMMA HashInIs ==
  ASSUME NEW entries, NEW p, HashIn(entries, p) # None
  PROVE  \E f \in entries : f.path = p /\ HashIn(entries, p) = f.hash
  BY DEF HashIn

(* The old content of a file, with a new one written over it.              *)
LEMMA WrittenHash ==
  ASSUME TreeInv, NEW p \in Path, NEW hash \in Hash
  PROVE  Flat!Overwrite(Flat!Md5(disk[p]), hash) \in Hash
  <1>1. \A old, new \in Hash : Flat!Overwrite(old, new) \in Hash
    BY TreeAssumption
  <1>2. QED BY <1>1, DiskHash

(* What checkout puts beside the files that are there.                     *)
LEMMA CheckoutDisk ==
  ASSUME Checkout
  PROVE  LET layer == ConstructStructure(server).kids
             fetched == {f \in AllFetched(layer) : f.hash \in Stored}
             missing == {p \in Path : /\ HashIn(AllReached(layer), p) # None
                                      /\ disk[p] = None /\ ~Blocked(p)}
         IN  \E created \in SUBSET missing :
               disk' = [p \in Path |->
                 IF disk[p] = None /\ p \notin created THEN None
                 ELSE IF HashIn(fetched, p) = None THEN Flat!Md5(disk[p])
                 ELSE Flat!Overwrite(Flat!Md5(disk[p]), HashIn(fetched, p))]
  BY Zenon DEF Checkout, AllReached, AllFetched

(* It can be there.                                                        *)
LEMMA CheckoutPossible ==
  ASSUME TreeInv, Checkout
  PROVE  disk' \in [Path -> Contents \cup {None, <<>>}] /\ Possible(disk')
  <1> DEFINE layer == ConstructStructure(server).kids
             listed == AllReached(layer)
             fetched == {f \in AllFetched(layer) : f.hash \in Stored}
             missing == {p \in Path : HashIn(listed, p) # None /\ disk[p] = None /\ ~Blocked(p)}
             Content(p) == IF HashIn(fetched, p) = None THEN Flat!Md5(disk[p])
                           ELSE Flat!Overwrite(Flat!Md5(disk[p]), HashIn(fetched, p))
  <1>1. PICK created \in SUBSET missing :
          disk' = [p \in Path |-> IF disk[p] = None /\ p \notin created THEN None ELSE Content(p)]
    BY CheckoutDisk
  <1>2. layer \in AnyLayer /\ Tidy(layer) /\ Entries(layer) \subseteq Index!Entry
    BY TextIs, ProperTree DEF TreeInv
  <1> HIDE DEF layer
  <1>3. /\ fetched \subseteq listed /\ listed \subseteq Entries(layer)
        /\ \A r, s \in listed : ~IsStrictPrefix(r.path, s.path)
    BY <1>2, AllReachedHas
  <1> HIDE DEF listed, fetched
  <1>4. \A f \in listed : f.hash \in Hash
    BY <1>2, <1>3 DEF Index!Entry
  <1>5. ASSUME NEW p \in Path
        PROVE  Content(p) \in Hash
    <2>1. CASE HashIn(fetched, p) = None
      BY <2>1, DiskHash
    <2>2. CASE HashIn(fetched, p) # None
      <3>1. PICK f \in fetched : f.path = p /\ HashIn(fetched, p) = f.hash
        BY <2>2, HashInIs
      <3>2. QED BY <1>3, <1>4, <2>2, <3>1, WrittenHash
    <2>3. QED BY <2>1, <2>2
  <1> HIDE DEF Content
  <1>6. disk' \in [Path -> Contents \cup {None, <<>>}]
    BY <1>1, <1>5, TreeAssumption
  <1>7. disk \in [Path -> Contents \cup {None, <<>>}] /\ Possible(disk)
    BY DEF TreeInv
  <1>8. ASSUME NEW p \in Path, NEW q \in Path, disk'[p] # None, disk'[q] # None
        PROVE  ~IsStrictPrefix(p, q)
    <2>1. (disk[p] # None \/ p \in missing) /\ (disk[q] # None \/ q \in missing)
      BY <1>1, <1>8
    <2>2. CASE disk[p] # None /\ disk[q] # None
      BY <1>7, <2>2 DEF Possible
    <2>3. CASE p \in missing /\ disk[q] # None
      BY <2>3 DEF Blocked
    <2>4. CASE disk[p] # None /\ q \in missing
      BY <2>4 DEF Blocked
    <2>5. CASE p \in missing /\ q \in missing
      <3>1. (\E f \in listed : f.path = p) /\ (\E g \in listed : g.path = q)
        BY <2>5, HashInIs
      <3>2. QED BY <1>3, <3>1
    <2>6. QED BY <2>1, <2>2, <2>3, <2>4, <2>5
  <1>9. QED BY <1>6, <1>8 DEF Possible

(* Writing a file that is there, or deleting one, puts none in the place   *)
(* of a folder.                                                            *)
LEMMA SetPossible ==
  ASSUME TreeInv, NEW p \in Path, NEW content \in Contents \cup {None, <<>>},
         SetDisk(p, content), disk[p] # None \/ content = None
  PROVE  disk' \in [Path -> Contents \cup {None, <<>>}] /\ Possible(disk')
  <1>1. disk' = [disk EXCEPT ![p] = content] /\ disk \in [Path -> Contents \cup {None, <<>>}]
    BY DEF SetDisk, TreeInv
  <1>2. \A q \in Path : disk'[q] # None => disk[q] # None
    BY <1>1
  <1>3. Possible(disk)
    BY DEF TreeInv
  <1>4. QED BY <1>1, <1>2, <1>3 DEF Possible

(* So does appending to a file.                                            *)
LEMMA AppendPossible ==
  ASSUME TreeInv, NEW l, Appended(l)
  PROVE  disk' \in [Path -> Contents \cup {None, <<>>}] /\ Possible(disk')
  <1>1. CASE l.path \in Path /\ disk[l.path] # None
    <2>1. PICK content \in Contents \cup {disk[l.path]} : SetDisk(l.path, content)
      BY <1>1 DEF Appended
    <2>2. disk[l.path] \in Contents \cup {None, <<>>}
      BY <1>1 DEF TreeInv
    <2>3. QED BY <1>1, <2>1, <2>2, SetPossible
  <1>2. CASE ~(l.path \in Path /\ disk[l.path] # None)
    <2>1. disk' = disk
      BY <1>2 DEF Appended
    <2>2. QED BY <2>1 DEF TreeInv
  <1>3. QED BY <1>1, <1>2

(* A user who writes a file clears its place first.                        *)
LEMMA EditPossible ==
  ASSUME TreeInv, Edit
  PROVE  disk' \in [Path -> Contents \cup {None, <<>>}] /\ Possible(disk')
  <1>1. disk \in [Path -> Contents \cup {None, <<>>}] /\ Possible(disk)
    BY DEF TreeInv
  <1>2. PICK p \in Path, content \in Contents \cup {None} :
          disk' = [q \in Path |-> IF q = p THEN content
                                  ELSE IF IsPrefix(p, q) \/ IsPrefix(q, p) THEN None ELSE disk[q]]
    BY DEF Edit
  <1>3. disk' \in [Path -> Contents \cup {None, <<>>}]
    BY <1>1, <1>2
  <1>4. ASSUME NEW q \in Path, NEW r \in Path, disk'[q] # None, disk'[r] # None
        PROVE  ~IsStrictPrefix(q, r)
    <2>1. q \in Seq(Name) /\ r \in Seq(Name) /\ Len(q) \in Nat /\ Len(r) \in Nat
      BY PathOf, TailOfPath
    <2>2. IsStrictPrefix(q, r) <=> IsPrefix(q, r) /\ Len(q) < Len(r)
      BY <2>1, StrictIs
    <2>3. /\ q = p \/ (~IsPrefix(p, q) /\ ~IsPrefix(q, p) /\ disk[q] # None)
          /\ r = p \/ (~IsPrefix(p, r) /\ ~IsPrefix(r, p) /\ disk[r] # None)
      BY <1>2, <1>4
    <2>4. CASE q = p /\ r = p
      BY <2>1, <2>2, <2>4
    <2>5. CASE q # p \/ r # p
      BY <1>1, <2>2, <2>3, <2>5 DEF Possible
    <2>6. QED BY <2>4, <2>5
  <1>5. QED BY <1>3, <1>4 DEF Possible

-----------------------------------------------------------------------------
(* The invariant holds.                                                    *)

(* The type invariant follows.                                             *)
LEMMA TypeOfTree == TreeInv => TypeOK
  <1>1. ASSUME TreeInv
        PROVE  /\ manifest \in AnyText \cup {Null, Bad} /\ server \in AnyText
               /\ temp \in AnyText \cup {None}
    BY <1>1, TextIs DEF TreeInv
  <1>2. AnyPath \subseteq Seq(Name)
    BY DEF AnyPath
  <1>3. QED BY <1>1, <1>2 DEF TreeInv, KnownLines, TypeOK

(* What one step does to the texts.                                        *)
LEMMA TextsNext ==
  ASSUME TreeInv, [Next]_vars
  PROVE  /\ manifest' \in {Null, Bad} \/ IsText(manifest')
         /\ IsText(server') /\ (temp' = None \/ IsText(temp'))
  <1>1. /\ manifest \in {Null, Bad} \/ IsText(manifest)
        /\ IsText(server) /\ (temp = None \/ IsText(temp))
    BY DEF TreeInv
  <1>2. CASE \E p \in Path : Add(p)
    <2>1. PICK p \in Path : Add(p)
      BY <1>2
    <2>2. UNCHANGED <<server, temp>>
      BY <2>1 DEF Add
    <2>3. QED BY <1>1, <2>1, <2>2, AddText
  <1>3. CASE \E p \in Path : RemoveNode(p)
    <2>1. PICK p \in Path : RemoveNode(p)
      BY <1>3
    <2>2. p \in AnyPath /\ Parses /\ RemoveFinds(p) /\ manifest' = RemovedText(p)
          /\ UNCHANGED <<server, temp>>
      BY <2>1, PathOf DEF RemoveNode
    <2>3. QED BY <1>1, <2>2, RemoveText
  <1>4. CASE Push \/ PushGivenUp
    BY <1>4, PushText
  <1>5. CASE Checkout
    <2>1. manifest' = OverText(manifest, server) /\ UNCHANGED <<server, temp>>
      BY <1>5 DEF Checkout
    <2>2. QED BY <1>1, <2>1, TextOver
  <1>6. CASE UpgradeStep
    <2>1. UNCHANGED <<server, temp>>
      BY <1>6 DEF UpgradeStep
    <2>2. PICK l \in pending : UpgradeDelete(l) \/ manifest' = manifest
      BY <1>6 DEF UpgradeStep
    <2>3. CASE UpgradeDelete(l)
      <3>1. l.path \in AnyPath
        BY <2>2 DEF TreeInv, KnownLines
      <3>2. \/ manifest' \in {Null, Bad}
            \/ Parses /\ RemoveFinds(l.path) /\ manifest' = RemovedText(l.path)
        BY <2>3 DEF UpgradeDelete
      <3>3. QED BY <1>1, <2>1, <3>1, <3>2, RemoveText
    <2>4. QED BY <1>1, <2>1, <2>2, <2>3
  <1>7. CASE UNCHANGED texts
    BY <1>1, <1>7 DEF texts
  <1>8. Update \/ Upgrade \/ Edit \/ Kill \/ UNCHANGED vars => UNCHANGED texts
    BY DEF Update, Upgrade, Edit, Kill, vars
  <1>9. QED BY <1>2, <1>3, <1>4, <1>5, <1>6, <1>7, <1>8 DEF Next, Command

(* The working files stay possible.                                        *)
LEMMA DiskNext ==
  ASSUME TreeInv, [Next]_vars
  PROVE  disk' \in [Path -> Contents \cup {None, <<>>}] /\ Possible(disk')
  <1>1. disk \in [Path -> Contents \cup {None, <<>>}] /\ Possible(disk)
    BY DEF TreeInv
  <1>2. CASE Checkout
    BY <1>2, CheckoutPossible
  <1>3. CASE Edit
    BY <1>3, EditPossible
  <1>4. CASE UpgradeStep
    <2>1. PICK l \in pending : UpgradeDelete(l) \/ Appended(l) \/ UNCHANGED disk
      BY <1>4 DEF UpgradeStep
    <2>2. CASE UpgradeDelete(l)
      <3>1. l.mode = "D" /\ SetDisk(l.path, None)
        BY <2>2 DEF UpgradeDelete
      <3>2. l.path \in Path
        BY <2>1, <3>1 DEF TreeInv, KnownLines
      <3>3. QED BY <3>1, <3>2, SetPossible
    <2>3. CASE Appended(l)
      BY <2>3, AppendPossible
    <2>4. CASE UNCHANGED disk
      BY <1>1, <2>4
    <2>5. QED BY <2>1, <2>2, <2>3, <2>4
  <1>5. CASE UNCHANGED disk
    BY <1>1, <1>5
  <1>6. (\E p \in Path : Add(p) \/ RemoveNode(p)) \/ Update \/ Upgrade \/ Push \/ PushGivenUp
          \/ Kill \/ UNCHANGED vars
          => UNCHANGED disk
    BY DEF Add, RemoveNode, Update, Upgrade, Push, PushGivenUp, Kill, vars
  <1>7. QED BY <1>2, <1>3, <1>4, <1>5, <1>6 DEF Next, Command

(* The lines stay known.                                                   *)
LEMMA LinesNext ==
  ASSUME TreeInv, [Next]_vars
  PROVE  KnownLines(update') /\ KnownLines(pending')
  <1>1. KnownLines(update) /\ KnownLines(pending)
    BY DEF TreeInv
  <1>2. \A lines, more : KnownLines(more) /\ lines \subseteq more => KnownLines(lines)
    BY DEF KnownLines
  <1>3. CASE Update
    <2>1. pending' = pending
      BY <1>3 DEF Update
    <2>2. QED BY <1>1, <1>3, <2>1, UpdateKnown
  <1>4. CASE Upgrade
    BY <1>1, <1>4 DEF Upgrade
  <1>5. CASE update' \subseteq update /\ pending' \subseteq pending
    BY <1>1, <1>2, <1>5
  <1>6. (\E p \in Path : Add(p) \/ RemoveNode(p)) \/ Push \/ PushGivenUp \/ Checkout
          \/ Edit \/ Kill \/ UNCHANGED vars
          => update' \subseteq update /\ pending' \subseteq pending
    BY DEF Add, RemoveNode, Push, PushGivenUp, Checkout, Edit, Kill, vars
  <1>7. UpgradeStep => update' \subseteq update /\ pending' \subseteq pending
    BY DEF UpgradeStep, UpgradeDelete
  <1>8. QED BY <1>3, <1>4, <1>5, <1>6, <1>7 DEF Next, Command

(* The bounds hold.                                                        *)
LEMMA BoundsNext ==
  ASSUME TreeInv, [Next]_vars
  PROVE  runs' \in 0..MaxRuns /\ edits' \in 0..MaxEdits
  <1>1. runs \in 0..MaxRuns /\ edits \in 0..MaxEdits
    BY DEF TreeInv
  <1>2. /\ runs' = runs \/ (runs < MaxRuns /\ runs' = runs + 1)
        /\ edits' = edits \/ (edits < MaxEdits /\ edits' = edits + 1)
    BY DEF Next, Command, Edit, Kill, vars
  <1>3. QED BY <1>1, <1>2, TreeAssumption

(* Every step of every command keeps the texts those of proper trees.      *)
LEMMA TreeNext == TreeInv /\ [Next]_vars => TreeInv'
  <1> SUFFICES ASSUME TreeInv, [Next]_vars PROVE TreeInv'
    OBVIOUS
  <1>1. QED BY TextsNext, DiskNext, LinesNext, BoundsNext DEF TreeInv, Possible, KnownLines

(* .Manifest is NULL, empty, or the text of a tree of nodes that no folder *)
(* of which has a name twice and that lists no path but the user's; so are *)
(* the server's, always a text, and its ~Manifest.  Lines of older texts   *)
(* may be behind them.  All other theorems of this module rest on it.      *)
THEOREM TreeAlways == Spec => []TreeInv
  <1>1. QED BY TreeInit, TreeNext, PTL DEF Spec

(* Both .Manifests are texts or one of the two states a .Manifest without  *)
(* a text has, the lines of .Update have a mode and a path, and no file is *)
(* where a folder has to be: checkout, upgrade and the user's edits only   *)
(* write files that can be there together.                                 *)
THEOREM TypeAlways == Spec => []TypeOK
  BY TreeAlways, TypeOfTree, PTL

(* Reading a .Manifest and writing it again gives the lines it counts,     *)
(* whatever commands it went through and whatever was behind these lines:  *)
(* add and checkout write over the old text without truncating it, and so  *)
(* does a push over a ~Manifest (SerializeStructure,                       *)
(* ConstructStructureFromFile).                                            *)
THEOREM RoundTripAlways == Spec => []RoundTrip
  <1>1. TreeInv => RoundTrip
    <2> SUFFICES ASSUME TreeInv, NEW text \in Texts
                 PROVE  SerializeStructure(ConstructStructure(text)) =
                          [text EXCEPT !.lines = SubSeq(@, 1, text.count)]
      BY DEF RoundTrip
    <2>1. IsText(text)
      BY DEF TreeInv, Texts
    <2>2. QED BY <2>1, TextAgain
  <1>2. QED BY <1>1, TreeAlways, PTL

(* In every layer that commands produce, the hash map finds what a search  *)
(* along the links finds: add looks before it inserts, and remove takes    *)
(* nodes away, so no folder gets a name twice (HashMapFind,                *)
(* SearchStructNodeLayer).                                                 *)
THEOREM LookupsAlwaysAgree == Spec => []LookupsAgree
  <1>1. TreeInv => LookupsAgree
    <2> SUFFICES ASSUME TreeInv, NEW text \in Texts,
                        NEW layer \in Layers(ConstructStructure(text).kids), NEW name \in Name
                 PROVE  HashMapFind(layer, name) = {SearchStructNodeLayer(layer, name)} \ {0}
      BY DEF LookupsAgree
    <2>1. IsText(text)
      BY DEF TreeInv, Texts
    <2>2. Tidy(ConstructStructure(text).kids) /\ ConstructStructure(text).kids \in AnyLayer
      BY <2>1, TextIs, ProperTree
    <2>3. Distinct(layer) /\ layer \in AnyLayer
      BY <2>2, LayersDef DEF Tidy
    <2>4. QED BY <2>3, MapOf
  <1>2. QED BY <1>1, TreeAlways, PTL

-----------------------------------------------------------------------------
(* The commands implement FileIndex.                                       *)

(* The table of FileIndex that a .Manifest stands for.                     *)
Table == IF Parses THEN IndexOf(manifest) ELSE {None}

(* The steps of FileIndex, in terms of the texts.                          *)
LEMMA IndexStep ==
  ASSUME
    \/ \E e \in Index!Entry : /\ Table # {None} /\ \A f \in Table : f.path # e.path
                              /\ Table' = Table \cup {e} /\ UNCHANGED IndexOf(server)
    \/ \E p \in Path : /\ Table # {None} /\ UNCHANGED IndexOf(server)
                       /\ Table' = {e \in Table : ~Index!IsPrefix(p, e.path)}
    \/ Table' = {None} /\ UNCHANGED IndexOf(server)
    \/ Table # {None} /\ IndexOf(server)' = Table /\ UNCHANGED Table
    \/ Table' = IndexOf(server) /\ UNCHANGED IndexOf(server)
  PROVE  Index!Next \/ UNCHANGED <<Table, IndexOf(server)>>
  <1>1. ASSUME NEW e \in Index!Entry, Table # {None}, \A f \in Table : f.path # e.path,
               Table' = Table \cup {e}, UNCHANGED IndexOf(server)
        PROVE  Index!Change
    <2>1. e \in Table' \ Table
      BY <1>1
    <2>2. Table' # Table
      BY <2>1
    <2>3. Index!Insert
      BY <1>1, <2>1 DEF Table, Index!Insert
    <2>4. QED BY <1>1, <2>2, <2>3 DEF Table, Index!Change
  <1>2. CASE Table' = Table
    BY <1>2 DEF Table, Index!Next, Index!Push
  <1>3. CASE Table' # Table
    BY <1>1, <1>3
    DEF Table, Index!Next, Index!Change, Index!Delete, Index!Lose, Index!Checkout
  <1>4. QED BY <1>2, <1>3

(* A .Manifest that parses is a table.                                     *)
LEMMA TableIs ==
  ASSUME TreeInv
  PROVE  /\ IsText(server)
         /\ Parses => IsText(manifest) /\ Table = IndexOf(manifest) /\ Table # {None}
         /\ ~Parses => Table = {None}
  <1>1. ASSUME Parses
        PROVE  IsText(manifest) /\ IndexOf(manifest) # {None}
    <2>1. IsText(manifest)
      BY <1>1, RootIs
    <2>2. None \notin IndexOf(manifest)
      <3>1. Index!Entry \subseteq [path : Seq(Name), hash : Hash \cup {None}]
        BY TreeAssumption DEF Index!Entry
      <3>2. QED BY <2>1, <3>1, TextIs, TreeAssumption
    <2>3. QED BY <2>1, <2>2
  <1>2. QED BY <1>1 DEF TreeInv, Table

(* A text that is written is the table of the next state.                  *)
LEMMA TableOfText ==
  ASSUME IsText(manifest')
  PROVE  Table' = IndexOf(manifest')
  <1>1. manifest' \notin {Null, Bad}
    BY TextIs
  <1>2. QED BY <1>1 DEF Table, Parses

(* create makes empty tables.                                              *)
LEMMA IndexInit == Init => Index!Init
  <1> SUFFICES ASSUME Init PROVE Index!Init
    OBVIOUS
  <1>1. TreeInv
    BY TreeInit
  <1>2. IsText(manifest) /\ IndexOf(manifest) = {} /\ server = manifest
    BY InitText DEF Init
  <1>3. Parses
    BY <1>2, TextIs DEF Parses
  <1>4. QED BY <1>2, <1>3 DEF Index!Init

(* Every step of a command is one of FileIndex, or none.                   *)
LEMMA IndexNext ==
  ASSUME TreeInv, [Next]_vars
  PROVE  Index!Next \/ UNCHANGED <<Table, IndexOf(server)>>
  <1>1. /\ IsText(server)
        /\ Parses => IsText(manifest) /\ Table = IndexOf(manifest) /\ Table # {None}
        /\ ~Parses => Table = {None}
    BY TableIs
  <1>2. UNCHANGED server => UNCHANGED IndexOf(server)
    BY DEF IndexOf
  <1>3. UNCHANGED manifest => UNCHANGED Table
    BY DEF Table, Parses, IndexOf
  <1>4. CASE \E p \in Path : Add(p)
    <2>1. PICK p \in Path : Add(p)
      BY <1>4
    <2> DEFINE e == [path |-> p, hash |-> Flat!Md5(disk[p])]
    <2>2. /\ Parses /\ IsText(manifest') /\ IndexOf(manifest') = IndexOf(manifest) \cup {e}
          /\ e \in Index!Entry /\ \A f \in IndexOf(manifest) : f.path # p
      BY <2>1, AddText
    <2>3. e.path = p
      OBVIOUS
    <2>4. UNCHANGED server
      BY <2>1 DEF Add
    <2> HIDE DEF e
    <2>5. Table' = Table \cup {e} /\ \A f \in Table : f.path # e.path
      BY <1>1, <2>2, <2>3, TableOfText
    <2>6. QED BY <1>1, <1>2, <2>2, <2>4, <2>5, IndexStep
  <1>5. ASSUME NEW p \in Path, Parses, RemoveFinds(p), manifest' = RemovedText(p), UNCHANGED server
        PROVE  Index!Next \/ UNCHANGED <<Table, IndexOf(server)>>
    <2>1. /\ IsText(manifest')
          /\ IndexOf(manifest') = {e \in IndexOf(manifest) : ~IsPrefix(p, e.path)}
      BY <1>5, PathOf, RemoveText
    <2>2. Table' = {e \in Table : ~Index!IsPrefix(p, e.path)}
      <3>1. Table' = {e \in Table : ~IsPrefix(p, e.path)}
        BY <1>1, <1>5, <2>1, TableOfText
      <3>2. \A q : Index!IsPrefix(p, q) <=> IsPrefix(p, q)
        BY DEF Index!IsPrefix, IsPrefix
      <3>3. QED BY <3>1, <3>2
    <2>3. QED BY <1>1, <1>2, <1>5, <2>2, IndexStep
  <1>6. CASE \E p \in Path : RemoveNode(p)
    BY <1>5, <1>6 DEF RemoveNode
  <1>7. CASE Push \/ PushGivenUp
    <2>1. /\ Parses /\ IsText(manifest') /\ IndexOf(manifest') = IndexOf(manifest)
          /\ IndexOf(server') \in {IndexOf(manifest), IndexOf(server)}
      BY <1>7, PushText
    <2>2. UNCHANGED Table
      BY <1>1, <2>1, TableOfText
    <2>3. CASE IndexOf(server') = IndexOf(server)
      <3>1. UNCHANGED IndexOf(server)
        BY <2>3 DEF IndexOf
      <3>2. QED BY <2>2, <3>1
    <2>4. CASE IndexOf(server') = IndexOf(manifest)
      <3>1. IndexOf(server)' = Table
        BY <1>1, <2>1, <2>4 DEF IndexOf
      <3>2. QED BY <1>1, <2>1, <2>2, <3>1, IndexStep
    <2>5. QED BY <2>1, <2>3, <2>4
  <1>8. CASE Checkout
    <2>1. manifest' = OverText(manifest, server) /\ UNCHANGED server
      BY <1>8 DEF Checkout
    <2>2. manifest \in {Null, Bad} \/ IsText(manifest)
      BY DEF TreeInv
    <2>3. IsText(manifest') /\ IndexOf(manifest') = IndexOf(server)
      BY <1>1, <2>1, <2>2, TextOver
    <2>4. Table' = IndexOf(server)
      BY <2>3, TableOfText
    <2>5. QED BY <1>2, <2>1, <2>4, IndexStep
  <1>9. CASE UpgradeStep
    <2>1. UNCHANGED server
      BY <1>9 DEF UpgradeStep
    <2>2. PICK l \in pending : UpgradeDelete(l) \/ UNCHANGED manifest
      BY <1>9 DEF UpgradeStep
    <2>3. CASE UpgradeDelete(l)
      <3>1. l.path \in Path
        BY <2>2, <2>3 DEF TreeInv, KnownLines, UpgradeDelete
      <3>2. \/ manifest' \in {Null, Bad}
            \/ Parses /\ RemoveFinds(l.path) /\ manifest' = RemovedText(l.path)
        BY <2>3 DEF UpgradeDelete
      <3>3. CASE manifest' \in {Null, Bad}
        <4>1. Table' = {None}
          BY <3>3 DEF Table, Parses
        <4>2. QED BY <1>2, <2>1, <4>1, IndexStep
      <3>4. QED BY <1>5, <2>1, <3>1, <3>2, <3>3
    <2>4. QED BY <1>2, <1>3, <2>1, <2>2, <2>3
  <1>10. CASE UNCHANGED <<manifest, server>>
    BY <1>2, <1>3, <1>10
  <1>11. Update \/ Upgrade \/ Edit \/ Kill \/ UNCHANGED vars => UNCHANGED <<manifest, server>>
    BY DEF Update, Upgrade, Edit, Kill, vars, texts
  <1>12. QED BY <1>4, <1>6, <1>7, <1>8, <1>9, <1>10, <1>11 DEF Next, Command

(* The commands implement FileIndex: add inserts the entry of its path,    *)
(* remove and the D lines of upgrade delete one and what lies below it,    *)
(* push and checkout copy the table, and no command loses or moves another *)
(* entry, unless the text as a whole is lost.  The texts are those of no   *)
(* more than one block (BlockAssumption): a longer one arrives garbled     *)
(* (process_add, remove_node_from_root, process_push, process_checkout).   *)
THEOREM ManifestIsIndex == Spec => AsIndex
  <1>1. TreeInv /\ [Next]_vars => [Index!Next]_<<Table, IndexOf(server)>>
    BY IndexNext
  <1>2. QED BY <1>1, IndexInit, TreeAlways, PTL DEF Spec, AsIndex, Index!Spec, Table

-----------------------------------------------------------------------------
(* The nodes of a tree by their paths.                                     *)

(* The node of a layer at at that has the path p from there.               *)
NodeAt(at, p, type) == [path |-> at \o p, type |-> type]

(* Two paths below a node are the same when they are below a child of it.  *)
LEMMA SamePaths ==
  ASSUME NEW at \in Seq(Name), NEW name \in Name, NEW p \in AnyPath
  PROVE  /\ at \o p = Append(at, name) <=> p = <<name>>
         /\ \A q \in AnyPath : at \o p = Append(at, name) \o q <=> p = <<name>> \o q
  <1>1. p \in Seq(Name) /\ <<name>> \in Seq(Name)
    BY DEF AnyPath
  <1>2. ASSUME NEW q \in Seq(Name), NEW r \in Seq(Name), at \o q = at \o r
        PROVE  q = r
    <2>1. Len(q) = Len(r) /\ Len(q) \in Nat /\ Len(at) \in Nat
      <3>1. Len(at \o q) = Len(at) + Len(q) /\ Len(at \o r) = Len(at) + Len(r)
        BY PathsJoined
      <3>2. QED BY <1>2, <3>1
    <2>2. \A k \in 1..Len(q) : q[k] = r[k]
      <3>1. \A k \in 1..Len(q) : (at \o q)[Len(at) + k] = q[k]
        BY PathsJoined
      <3>2. \A k \in 1..Len(r) : (at \o r)[Len(at) + k] = r[k]
        BY PathsJoined
      <3>3. QED BY <1>2, <2>1, <3>1, <3>2
    <2>3. QED BY <2>1, <2>2
  <1>3. Append(at, name) = at \o <<name>>
    BY PathsJoined
  <1>4. ASSUME NEW q \in AnyPath
        PROVE  Append(at, name) \o q = at \o (<<name>> \o q) /\ <<name>> \o q \in Seq(Name)
    BY PathsJoined, PathsFromHead DEF AnyPath
  <1>5. QED BY <1>1, <1>2, <1>3, <1>4

(* Every node has a path and a type.                                       *)
LEMMA NodesListed ==
  ASSUME NEW layer \in AnyLayer, NEW at \in Seq(Name)
  PROVE  \A n \in Nodes(layer, at) :
           \E p \in AnyPath, type \in {1, 2} : n = NodeAt(at, p, type)
  <1> DEFINE Claim(l, above) == \A n \in Nodes(l, above) :
               \E p \in AnyPath, type \in {1, 2} : n = NodeAt(above, p, type)
             S == {l \in AnyLayer : \A above \in Seq(Name) : Claim(l, above)}
  <1>1. ASSUME NEW l \in AnyLayer, \A i \in DOMAIN l : l[i].kids \in S
        PROVE  l \in S
    <2>1. SUFFICES ASSUME NEW above \in Seq(Name), NEW n \in Nodes(l, above)
                   PROVE  \E p \in AnyPath, type \in {1, 2} : n = NodeAt(above, p, type)
      OBVIOUS
    <2>2. PICK i \in DOMAIN l :
            \/ n = [path |-> Append(above, l[i].name), type |-> l[i].type]
            \/ n \in Nodes(l[i].kids, Append(above, l[i].name))
      BY <2>1, NodesDef
    <2> DEFINE path == Append(above, l[i].name)
    <2>3. l[i].name \in Name /\ l[i].type \in {1, 2} /\ path \in Seq(Name) /\ l[i].kids \in AnyLayer
      BY AnyLayerKids, NodeKids, PathBelow
    <2>4. CASE n = [path |-> path, type |-> l[i].type]
      <3>1. path = above \o <<l[i].name>> /\ <<l[i].name>> \in AnyPath
        BY <2>3, PathsJoined DEF AnyPath
      <3>2. n = NodeAt(above, <<l[i].name>>, l[i].type)
        BY <2>4, <3>1 DEF NodeAt
      <3>3. QED BY <2>3, <3>1, <3>2
    <2>5. CASE n \in Nodes(l[i].kids, path)
      <3>1. Claim(l[i].kids, path)
        BY <1>1, <2>3
      <3>2. PICK q \in AnyPath, type \in {1, 2} : n = NodeAt(path, q, type)
        BY <2>5, <3>1
      <3>3. path \o q = above \o (<<l[i].name>> \o q) /\ <<l[i].name>> \o q \in AnyPath
        BY SMTT(30), <2>3, PathsJoined, PathsFromHead DEF AnyPath
      <3>4. n = NodeAt(above, <<l[i].name>> \o q, type)
        BY <3>2, <3>3 DEF NodeAt
      <3>5. QED BY <3>3, <3>4
    <2>6. QED BY <2>2, <2>4, <2>5
  <1>2. AnyLayer \subseteq S
    <2> HIDE DEF S
    <2>1. QED BY <1>1, ByDepth
  <1>3. Claim(layer, at)
    BY <1>2
  <1>4. QED BY <1>3

(* Where the node of a path is.                                            *)
LEMMA NodesFromHead ==
  ASSUME NEW layer \in AnyLayer, NEW at \in Seq(Name), NEW p \in AnyPath, NEW type
  PROVE  NodeAt(at, p, type) \in Nodes(layer, at) <=>
           \E i \in DOMAIN layer :
             /\ layer[i].name = p[1]
             /\ \/ Len(p) = 1 /\ layer[i].type = type
                \/ /\ Len(p) # 1
                   /\ NodeAt(Append(at, p[1]), Tail(p), type)
                        \in Nodes(layer[i].kids, Append(at, p[1]))
  <1> DEFINE n == NodeAt(at, p, type)
             Here(i) == n = [path |-> Append(at, layer[i].name), type |-> layer[i].type]
             Under(i) == n \in Nodes(layer[i].kids, Append(at, layer[i].name))
  <1>1. n \in Nodes(layer, at) <=> \E i \in DOMAIN layer : Here(i) \/ Under(i)
    BY NodesDef
  <1>2. ASSUME NEW i \in DOMAIN layer
        PROVE  /\ Here(i) <=> Len(p) = 1 /\ p[1] = layer[i].name /\ layer[i].type = type
               /\ Under(i) <=> /\ Len(p) # 1 /\ p[1] = layer[i].name
                               /\ NodeAt(Append(at, p[1]), Tail(p), type)
                                    \in Nodes(layer[i].kids, Append(at, p[1]))
    <2> DEFINE name == layer[i].name
               path == Append(at, name)
    <2>1. name \in Name /\ path \in Seq(Name) /\ layer[i].kids \in AnyLayer
      BY AnyLayerKids, NodeKids, PathBelow
    <2>2. Here(i) <=> at \o p = path /\ type = layer[i].type
      BY DEF NodeAt
    <2> HIDE DEF name
    <2>3. /\ at \o p = path <=> Len(p) = 1 /\ p[1] = name
          /\ \A q \in AnyPath : at \o p = path \o q <=> Len(p) # 1 /\ p[1] = name /\ Tail(p) = q
      <3>1. at \o p = path <=> p = <<name>>
        BY ZenonT(60), <2>1, SamePaths
      <3>2. \A q \in AnyPath : at \o p = path \o q <=> p = <<name>> \o q
        BY <2>1, SamePaths
      <3>3. p = <<name>> <=> Len(p) = 1 /\ p[1] = name
        BY <2>1, PathsFromHead
      <3>4. \A q \in AnyPath : p = <<name>> \o q <=> Len(p) # 1 /\ p[1] = name /\ Tail(p) = q
        BY <2>1, PathsFromHead
      <3> HIDE DEF path
      <3>5. QED BY <3>1, <3>2, <3>3, <3>4
    <2>4. ASSUME Under(i)
          PROVE  Len(p) # 1 /\ p[1] = name /\ NodeAt(path, Tail(p), type) \in Nodes(layer[i].kids, path)
      <3>0. n \in Nodes(layer[i].kids, path)
        BY <2>4 DEF name
      <3>1. PICK q \in AnyPath, t \in {1, 2} : n = NodeAt(path, q, t)
        BY <2>1, <3>0, NodesListed
      <3>2. at \o p = path \o q
        BY <3>1 DEF NodeAt
      <3>3. Len(p) # 1 /\ p[1] = name /\ Tail(p) = q
        BY <2>3, <3>2
      <3>4. n = NodeAt(path, Tail(p), type)
        BY <3>2, <3>3 DEF NodeAt
      <3>5. QED BY <3>0, <3>3, <3>4
    <2>5. ASSUME Len(p) # 1, p[1] = name, NodeAt(path, Tail(p), type) \in Nodes(layer[i].kids, path)
          PROVE  Under(i)
      <3>1. Tail(p) \in AnyPath
        BY <2>5, TailOfPath
      <3>2. at \o p = path \o Tail(p)
        BY <2>3, <2>5, <3>1
      <3>3. n = NodeAt(path, Tail(p), type)
        BY <3>2 DEF NodeAt
      <3>4. QED BY <2>5, <3>3 DEF name
    <2>6. Here(i) <=> Len(p) = 1 /\ p[1] = name /\ layer[i].type = type
      BY <2>2, <2>3 DEF name
    <2>7. QED BY <2>4, <2>5, <2>6 DEF name
  <1> HIDE DEF Here, Under, n
  <1>3. QED BY <1>1, <1>2 DEF n

-----------------------------------------------------------------------------
(* The first child at each step of a path.                                 *)

(* The first steps of a path.                                              *)
LEMMA PrefixOfPath ==
  ASSUME NEW p \in AnyPath, NEW k \in 1..Len(p)
  PROVE  /\ SubSeq(p, 1, k) \in AnyPath /\ Len(SubSeq(p, 1, k)) = k
         /\ SubSeq(p, 1, k)[1] = p[1]
         /\ k # 1 => Tail(SubSeq(p, 1, k)) = SubSeq(Tail(p), 1, k - 1)
  <1> DEFINE s == SubSeq(p, 1, k)
  <1>1. p \in Seq(Name) /\ Len(p) \in Nat \ {0} /\ k \in Nat \ {0} /\ k <= Len(p)
    BY TailOfPath
  <1>2. s \in Seq(Name) /\ Len(s) = k /\ \A j \in 1..k : s[j] = p[j]
    BY <1>1
  <1> HIDE DEF s
  <1>3. s \in AnyPath /\ s[1] = p[1]
    BY <1>1, <1>2 DEF AnyPath
  <1>4. ASSUME k # 1
        PROVE  Tail(s) = SubSeq(Tail(p), 1, k - 1)
    <2> DEFINE a == Tail(s)
               q == Tail(p)
               b == SubSeq(q, 1, k - 1)
    <2>1. q \in Seq(Name) /\ Len(q) = Len(p) - 1 /\ \A j \in 1..Len(p) - 1 : q[j] = p[j + 1]
      BY <1>1
    <2>2. a \in Seq(Name) /\ Len(a) = k - 1 /\ \A j \in 1..k - 1 : a[j] = s[j + 1]
      BY <1>1, <1>2
    <2> HIDE DEF a, q
    <2>3. b \in Seq(Name) /\ Len(b) = k - 1 /\ \A j \in 1..k - 1 : b[j] = q[j]
      BY <1>1, <2>1
    <2> HIDE DEF b
    <2>4. \A j \in 1..k - 1 : j + 1 \in 1..k /\ j \in 1..Len(p) - 1
      BY <1>1
    <2>5. \A j \in 1..k - 1 : a[j] = b[j]
      BY <1>2, <2>1, <2>2, <2>3, <2>4
    <2>6. a = b
      BY <2>2, <2>3, <2>5
    <2>7. QED BY <2>6 DEF a, b, q
  <1>5. QED BY <1>2, <1>3, <1>4 DEF s

(* Every step of p leads to the first child.                               *)
FirstIn(layer, p) ==
  \A k \in 1..Len(p) : \E s \in LayersAt(layer, SubSeq(p, 1, k)) : Head(s).name = p[k]
FirstBelow(layer, p) ==
  \A k \in 2..Len(p) : \E s \in LayersAt(layer, SubSeq(p, 1, k)) : Head(s).name = p[k]

(* The layers on a path, seen from the next folder.                        *)
LEMMA LayersAtBelow ==
  ASSUME NEW layer \in AnyLayer, Distinct(layer), NEW p \in AnyPath,
         NEW i \in DOMAIN layer, layer[i].name = p[1], NEW k \in 2..Len(p)
  PROVE  /\ LayersAt(layer, SubSeq(p, 1, k)) = LayersAt(layer[i].kids, SubSeq(Tail(p), 1, k - 1))
         /\ Tail(p)[k - 1] = p[k] /\ k - 1 \in 1..Len(Tail(p))
  <1> DEFINE s == SubSeq(p, 1, k)
  <1>1. p \in Seq(Name) /\ Len(p) \in Nat \ {0} /\ k \in 1..Len(p) /\ k # 1
    BY TailOfPath
  <1>2. s \in AnyPath /\ Len(s) # 1 /\ s[1] = p[1] /\ Tail(s) = SubSeq(Tail(p), 1, k - 1)
    BY <1>1, PrefixOfPath
  <1> HIDE DEF s
  <1>3. HashMapFind(layer, p[1]) = {i}
    BY MapOf
  <1>4. LayersAt(layer, s) = UNION {LayersAt(layer[j].kids, Tail(s)) : j \in HashMapFind(layer, s[1])}
    BY <1>2, LayersAtDef
  <1>5. LayersAt(layer, s) = LayersAt(layer[i].kids, Tail(s))
    <2>1. LayersAt(layer, s) = UNION {LayersAt(layer[j].kids, Tail(s)) : j \in {i}}
      BY <1>2, <1>3, <1>4
    <2>2. QED BY <2>1
  <1>6. Tail(p)[k - 1] = p[k] /\ k - 1 \in 1..Len(Tail(p))
    BY <1>1
  <1>7. QED BY <1>2, <1>5, <1>6 DEF s

(* First children below the first step, seen from the next folder, ...     *)
LEMMA FirstBelowIs ==
  ASSUME NEW layer \in AnyLayer, Distinct(layer), NEW p \in AnyPath,
         NEW i \in DOMAIN layer, layer[i].name = p[1]
  PROVE  FirstBelow(layer, p) <=> FirstIn(layer[i].kids, Tail(p))
  <1> DEFINE q == Tail(p)
             kids == layer[i].kids
             At1(k) == \E s \in LayersAt(layer, SubSeq(p, 1, k)) : Head(s).name = p[k]
             At2(k) == \E s \in LayersAt(kids, SubSeq(q, 1, k)) : Head(s).name = q[k]
  <1>1. p \in Seq(Name) /\ Len(p) \in Nat \ {0} /\ Len(q) = Len(p) - 1
    BY TailOfPath
  <1>2. \A k \in 2..Len(p) : k - 1 \in 1..Len(q) /\ (At1(k) <=> At2(k - 1))
    BY LayersAtBelow
  <1>3. \A k \in 1..Len(q) : k + 1 \in 2..Len(p) /\ (k + 1) - 1 = k
    BY <1>1
  <1>4. (\A k \in 2..Len(p) : At1(k)) <=> (\A k \in 1..Len(q) : At2(k))
    <2> HIDE DEF At1, At2, q
    <2>1. QED BY <1>2, <1>3
  <1>5. QED BY <1>4 DEF FirstBelow, FirstIn

(* ... and first children at every step.                                   *)
LEMMA FirstInIs ==
  ASSUME NEW layer \in AnyLayer, Distinct(layer), NEW p \in AnyPath,
         NEW i \in DOMAIN layer, layer[i].name = p[1]
  PROVE  FirstIn(layer, p) <=> Head(layer).name = p[1] /\ FirstIn(layer[i].kids, Tail(p))
  <1>1. p \in Seq(Name) /\ Len(p) \in Nat \ {0}
    BY TailOfPath
  <1> DEFINE first == SubSeq(p, 1, 1)
  <1>2. first \in AnyPath /\ Len(first) = 1
    BY <1>1, PrefixOfPath
  <1> HIDE DEF first
  <1>3. LayersAt(layer, first) = {layer}
    BY <1>2, LayersAtDef
  <1>4. (\E s \in LayersAt(layer, SubSeq(p, 1, 1)) : Head(s).name = p[1]) <=> Head(layer).name = p[1]
    BY <1>3 DEF first
  <1>5. \A k : k \in 1..Len(p) <=> k = 1 \/ k \in 2..Len(p)
    BY <1>1
  <1>6. FirstIn(layer, p) <=> Head(layer).name = p[1] /\ FirstBelow(layer, p)
    BY <1>4, <1>5 DEF FirstIn, FirstBelow
  <1>7. QED BY <1>6, FirstBelowIs

(* No file has anything below it.                                          *)
Plain(entries) == \A f, g \in entries : ~IsStrictPrefix(f.path, g.path)

(* A name in front of paths keeps prefixes.                                *)
LEMMA UnderHead ==
  ASSUME NEW name \in Name, NEW p \in AnyPath, NEW q \in AnyPath
  PROVE  /\ (<<name>> \o p)[1] = name /\ Tail(<<name>> \o p) = p
         /\ IsPrefix(p, q) => IsPrefix(<<name>> \o p, <<name>> \o q)
  <1>1. <<name>> \o p \in AnyPath
    BY PathsFromHead
  <1>2. PICK a \in AnyPath : a = <<name>> \o p
    BY <1>1
  <1>3. a[1] = name /\ Tail(a) = p
    BY <1>2, PathsFromHead
  <1>4. IsPrefix(a, <<name>> \o q) <=> a[1] = name /\ (Len(a) = 1 \/ IsPrefix(Tail(a), q))
    BY PrefixFromHead
  <1>5. QED BY <1>2, <1>3, <1>4

(* If no file has anything below it, a file is its node's only entry.      *)
LEMMA PlainBelow ==
  ASSUME NEW node \in AnyNode, Plain(EntriesOf(node))
  PROVE  /\ Plain(Entries(node.kids))
         /\ node.type = 1 => EntriesOf(node) = {[path |-> <<node.name>>, hash |-> node.hash]}
  <1> DEFINE name == node.name
             Under(f) == [path |-> <<name>> \o f.path, hash |-> f.hash]
  <1>1. name \in Name /\ node.kids \in AnyLayer
    BY NodeKids
  <1>2. \A f \in Entries(node.kids) : f.path \in AnyPath
    BY <1>1, EntriesDef DEF Listed
  <1>3. \A f \in Entries(node.kids) : Under(f) \in EntriesOf(node)
    BY DEF EntriesOf, Below
  <1>4. ASSUME NEW f \in Entries(node.kids), NEW g \in Entries(node.kids),
               IsStrictPrefix(f.path, g.path)
        PROVE  FALSE
    <2> DEFINE a == <<name>> \o f.path
               b == <<name>> \o g.path
    <2>1. /\ f.path \in Seq(Name) /\ g.path \in Seq(Name)
          /\ Len(f.path) \in Nat \ {0} /\ Len(g.path) \in Nat
      BY <1>2, TailOfPath DEF AnyPath
    <2>2. IsPrefix(f.path, g.path) /\ Len(f.path) < Len(g.path)
      BY <1>4, <2>1, StrictIs
    <2>3. a \in AnyPath /\ b \in AnyPath
      BY <1>1, <1>2, PathsFromHead
    <2>5. IsPrefix(a, b)
      <3>1. f.path \in AnyPath /\ g.path \in AnyPath
        BY <1>2
      <3>2. QED BY <1>1, <2>2, <3>1, UnderHead
    <2>6. Len(a) < Len(b)
      BY <2>1, <2>2
    <2>7. IsStrictPrefix(a, b)
      <3> HIDE DEF a, b
      <3>1. QED BY <2>3, <2>5, <2>6, StrictIs DEF AnyPath
    <2>8. QED BY <1>3, <2>7 DEF Plain
  <1>5. ASSUME node.type = 1, NEW f \in Entries(node.kids)
        PROVE  FALSE
    <2> DEFINE a == <<name>>
               b == <<name>> \o f.path
               own == [path |-> a, hash |-> node.hash]
    <2>1. own \in EntriesOf(node)
      BY <1>5 DEF EntriesOf, Own
    <2>2. f.path \in Seq(Name) /\ Len(f.path) \in Nat \ {0}
      BY <1>2, <1>5, TailOfPath DEF AnyPath
    <2>3. a \in AnyPath /\ b \in AnyPath /\ Len(a) = 1 /\ a[1] = name /\ Len(b) = Len(f.path) + 1
      BY <1>1, <2>2 DEF AnyPath
    <2>4. IsPrefix(a, b)
      BY <1>1, <1>2, <1>5, <2>3, PrefixFromHead
    <2>5. Len(a) < Len(b)
      BY <2>2, <2>3
    <2>6. IsStrictPrefix(a, b)
      <3> HIDE DEF a, b
      <3>1. QED BY <2>3, <2>4, <2>5, StrictIs DEF AnyPath
    <2>7. QED BY <1>3, <1>5, <2>1, <2>6 DEF Plain
  <1>6. node.type = 1 => Below(name, Entries(node.kids)) = {}
    BY <1>5 DEF Below
  <1>7. node.type = 1 => EntriesOf(node) = Own(node)
    BY <1>6 DEF EntriesOf
  <1>8. QED BY <1>4, <1>7 DEF Plain, Own

(* What holds for a layer holds for its nodes.                             *)
LEMMA PlainParts ==
  ASSUME NEW layer \in AnyLayer, Plain(Entries(layer)), NEW i \in DOMAIN layer
  PROVE  Plain(EntriesOf(layer[i]))
  BY EntriesAre DEF Plain

-----------------------------------------------------------------------------
(* Files with nothing below them.                                          *)

(* An entry of a folder is one of its children's.                          *)
LEMMA FolderEntry ==
  ASSUME NEW node \in AnyNode, node.type # 1, NEW e \in EntriesOf(node)
  PROVE  \E i \in DOMAIN node.kids : \E f \in EntriesOf(node.kids[i]) :
           /\ f \in Entries(node.kids) /\ f.path \in AnyPath
           /\ e = [path |-> <<node.name>> \o f.path, hash |-> f.hash]
           /\ \A at \in Seq(Name) : At(at, e) = At(Append(at, node.name), f)
  <1>1. node.name \in Name /\ node.kids \in AnyLayer
    BY NodeKids
  <1>2. e \in Below(node.name, Entries(node.kids))
    BY DEF EntriesOf, Own
  <1>3. PICK f \in Entries(node.kids) : e = [path |-> <<node.name>> \o f.path, hash |-> f.hash]
    BY <1>2 DEF Below
  <1>4. PICK i \in DOMAIN node.kids : f \in EntriesOf(node.kids[i])
    BY <1>1, EntriesAre
  <1>5. f.path \in AnyPath /\ f.path \in Seq(Name)
    BY <1>1, EntriesDef DEF Listed, AnyPath
  <1>6. \A at \in Seq(Name) : At(at, e) = At(Append(at, node.name), f)
    BY <1>1, <1>3, <1>5, AtBelow
  <1>7. QED BY <1>3, <1>4, <1>5, <1>6

(* The entry of a file.                                                    *)
LEMMA FileEntry ==
  ASSUME NEW node \in AnyNode, node.type = 1, Plain(EntriesOf(node)), NEW e \in EntriesOf(node),
         NEW at \in Seq(Name)
  PROVE  /\ e = [path |-> <<node.name>>, hash |-> node.hash]
         /\ At(at, e) = [path |-> Append(at, node.name), hash |-> node.hash]
  <1>1. e = [path |-> <<node.name>>, hash |-> node.hash]
    BY PlainBelow
  <1>2. Append(at, node.name) = at \o <<node.name>>
    BY NodeKids, PathsJoined
  <1>3. QED BY <1>1, <1>2 DEF At

(* Where no file has anything below it, every file is reached.             *)
LEMMA PlainReached ==
  ASSUME NEW node \in AnyNode, Plain(EntriesOf(node)), NEW at \in Seq(Name)
  PROVE  \A e \in EntriesOf(node) : At(at, e) \in Reached(node, at)
  <1> DEFINE Claim(n, parent) == Plain(EntriesOf(n)) =>
               \A e \in EntriesOf(n) : At(parent, e) \in Reached(n, parent)
             S == {n \in AnyNode : \A parent \in Seq(Name) : Claim(n, parent)}
  <1>1. ASSUME NEW n \in AnyNode, \A i \in DOMAIN n.kids : n.kids[i] \in S
        PROVE  n \in S
    <2>1. SUFFICES ASSUME NEW parent \in Seq(Name), Plain(EntriesOf(n)), NEW e \in EntriesOf(n)
                   PROVE  At(parent, e) \in Reached(n, parent)
      OBVIOUS
    <2> DEFINE path == Append(parent, n.name)
    <2>2. n.name \in Name /\ n.kids \in AnyLayer /\ path \in Seq(Name)
      BY NodeKids, PathBelow
    <2>3. CASE n.type = 1
      <3>1. At(parent, e) = [path |-> path, hash |-> n.hash]
        BY <2>1, <2>3, FileEntry
      <3>2. Reached(n, parent) = {[path |-> path, hash |-> n.hash]}
        BY <2>3, ReachedDef
      <3>3. QED BY <3>1, <3>2
    <2>4. CASE n.type # 1
      <3>1. PICK i \in DOMAIN n.kids : \E f \in EntriesOf(n.kids[i]) : At(parent, e) = At(path, f)
        BY <2>1, <2>4, FolderEntry
      <3>2. PICK f \in EntriesOf(n.kids[i]) : At(parent, e) = At(path, f)
        BY <3>1
      <3>3. Plain(EntriesOf(n.kids[i]))
        BY <2>1, <2>2, PlainBelow, PlainParts
      <3>4. Claim(n.kids[i], path)
        BY <1>1, <2>2
      <3>5. At(path, f) \in Reached(n.kids[i], path)
        BY <3>3, <3>4
      <3>6. Reached(n, parent) = UNION {Reached(n.kids[k], path) : k \in DOMAIN n.kids}
        BY <2>4, ReachedDef
      <3>7. QED BY <3>2, <3>5, <3>6
    <2>5. QED BY <2>3, <2>4
  <1>2. AnyNode \subseteq S
    <2> HIDE DEF S
    <2>1. QED BY <1>1, ByNode
  <1>3. Claim(node, at)
    BY <1>2
  <1>4. QED BY <1>3

(* A tidy layer lists a path once.                                         *)
LEMMA EntriesUnique ==
  ASSUME NEW layer \in AnyLayer, Tidy(layer), NEW e \in Entries(layer), NEW f \in Entries(layer),
         e.path = f.path
  PROVE  e = f
  <1> DEFINE Claim(l) == Tidy(l) => \A x, y \in Entries(l) : x.path = y.path => x = y
             S == {l \in AnyLayer : Claim(l)}
  <1>1. ASSUME NEW l \in AnyLayer, \A i \in DOMAIN l : l[i].kids \in S
        PROVE  l \in S
    <2>1. SUFFICES ASSUME Tidy(l), NEW x \in Entries(l), NEW y \in Entries(l), x.path = y.path
                   PROVE  x = y
      OBVIOUS
    <2>2. PICK i \in DOMAIN l : x \in EntriesOf(l[i])
      BY EntriesAre
    <2>3. PICK j \in DOMAIN l : y \in EntriesOf(l[j])
      BY EntriesAre
    <2>4. i = j
      <3>1. x.path[1] = l[i].name /\ y.path[1] = l[j].name
        BY <2>2, <2>3, EntryName
      <3>2. Distinct(l)
        BY <2>1, TidyDef
      <3>3. QED BY <2>1, <3>1, <3>2 DEF Distinct
    <2> DEFINE name == l[i].name
               kids == l[i].kids
    <2>5. name \in Name /\ kids \in AnyLayer /\ Tidy(kids) /\ x.path \in AnyPath
      BY <2>1, <2>2, TidyDef, AnyLayerKids, NodeKids, EntryName
    <2>6. x \in Own(l[i]) \/ x \in Below(name, Entries(kids))
      BY <2>2 DEF EntriesOf
    <2>7. y \in Own(l[i]) \/ y \in Below(name, Entries(kids))
      BY <2>3, <2>4 DEF EntriesOf
    <2> HIDE DEF name, kids
    <2>8. ASSUME NEW z \in Own(l[i])
          PROVE  z = [path |-> <<name>>, hash |-> l[i].hash] /\ z.path = <<name>>
      BY <2>8 DEF Own, name
    <2>9. ASSUME NEW z \in Below(name, Entries(kids))
          PROVE  \E g \in Entries(kids) : /\ z = [path |-> <<name>> \o g.path, hash |-> g.hash]
                                          /\ z.path = <<name>> \o g.path /\ g.path \in AnyPath
      <3>1. PICK g \in Entries(kids) : z = [path |-> <<name>> \o g.path, hash |-> g.hash]
        BY <2>9 DEF Below
      <3>2. g.path \in AnyPath
        BY <2>5, EntriesDef DEF Listed
      <3>3. QED BY <3>1, <3>2
    <2>10. ASSUME NEW g, g.path \in AnyPath, x.path = <<name>> \o g.path, x.path = <<name>>
           PROVE  FALSE
      BY ZenonT(60), <2>5, <2>10, PathsFromHead
    <2>11. CASE x \in Own(l[i]) /\ y \in Own(l[i])
      BY <2>8, <2>11
    <2>12. CASE x \in Own(l[i]) /\ y \in Below(name, Entries(kids))
      BY <2>1, <2>8, <2>9, <2>10, <2>12
    <2>13. CASE x \in Below(name, Entries(kids)) /\ y \in Own(l[i])
      BY <2>1, <2>8, <2>9, <2>10, <2>13
    <2>14. CASE x \in Below(name, Entries(kids)) /\ y \in Below(name, Entries(kids))
      <3>1. PICK g \in Entries(kids) : /\ x = [path |-> <<name>> \o g.path, hash |-> g.hash]
                                       /\ x.path = <<name>> \o g.path /\ g.path \in AnyPath
        BY <2>9, <2>14
      <3>2. PICK h \in Entries(kids) : /\ y = [path |-> <<name>> \o h.path, hash |-> h.hash]
                                       /\ y.path = <<name>> \o h.path /\ h.path \in AnyPath
        BY <2>9, <2>14
      <3>3. g.path = h.path
        <4>1. Tail(x.path) = g.path
          BY <2>5, <3>1, UnderHead
        <4>2. Tail(x.path) = h.path
          BY <2>1, <2>5, <3>2, UnderHead
        <4>3. QED BY <4>1, <4>2
      <3>4. Claim(kids)
        BY <1>1 DEF kids
      <3>5. g = h
        BY <2>5, <3>3, <3>4
      <3>6. QED BY <3>1, <3>2, <3>5
    <2>15. QED BY <2>6, <2>7, <2>11, <2>12, <2>13, <2>14
  <1>2. AnyLayer \subseteq S
    <2> HIDE DEF S
    <2>1. QED BY <1>1, ByDepth
  <1>3. Claim(layer)
    BY <1>2
  <1>4. QED BY <1>3

(* Of a folder's files those are fetched whose path leads through first    *)
(* children.                                                               *)
LEMMA FetchedFirst ==
  ASSUME NEW node \in AnyNode, Tidy(node.kids), Plain(EntriesOf(node)), NEW at \in Seq(Name)
  PROVE  \A e \in EntriesOf(node) :
           At(at, e) \in Fetched(node, at) <=> FirstIn(node.kids, Tail(e.path))
  <1> DEFINE Claim(n, parent) == Tidy(n.kids) /\ Plain(EntriesOf(n)) =>
               \A e \in EntriesOf(n) :
                 At(parent, e) \in Fetched(n, parent) <=> FirstIn(n.kids, Tail(e.path))
             S == {n \in AnyNode : \A parent \in Seq(Name) : Claim(n, parent)}
  <1>1. ASSUME NEW n \in AnyNode, \A i \in DOMAIN n.kids : n.kids[i] \in S
        PROVE  n \in S
    <2>1. SUFFICES ASSUME NEW parent \in Seq(Name), Tidy(n.kids), Plain(EntriesOf(n)),
                          NEW e \in EntriesOf(n)
                   PROVE  At(parent, e) \in Fetched(n, parent) <=> FirstIn(n.kids, Tail(e.path))
      OBVIOUS
    <2> DEFINE path == Append(parent, n.name)
    <2>2. n.name \in Name /\ n.kids \in AnyLayer /\ path \in Seq(Name)
      BY NodeKids, PathBelow
    <2>3. CASE n.type = 1
      <3>1. At(parent, e) = [path |-> path, hash |-> n.hash] /\ e.path = <<n.name>>
        BY <2>1, <2>3, FileEntry
      <3>2. Fetched(n, parent) = {[path |-> path, hash |-> n.hash]}
        BY <2>3, FetchedDef
      <3>3. Len(Tail(e.path)) = 0
        BY <2>2, <3>1
      <3>4. FirstIn(n.kids, Tail(e.path))
        BY <3>3 DEF FirstIn
      <3>5. QED BY <3>1, <3>2, <3>4
    <2>4. CASE n.type # 1
      <3>1. PICK i \in DOMAIN n.kids : \E f \in EntriesOf(n.kids[i]) :
              /\ f.path \in AnyPath /\ e = [path |-> <<n.name>> \o f.path, hash |-> f.hash]
              /\ At(parent, e) = At(path, f)
        BY <2>1, <2>4, FolderEntry
      <3>2. PICK f \in EntriesOf(n.kids[i]) :
              /\ f.path \in AnyPath /\ e = [path |-> <<n.name>> \o f.path, hash |-> f.hash]
              /\ At(parent, e) = At(path, f)
        BY <3>1
      <3>3. Tail(e.path) = f.path
        <4>1. e.path = <<n.name>> \o f.path
          BY <3>2
        <4>2. QED BY <2>2, <3>2, <4>1, UnderHead
      <3>4. f.path[1] = n.kids[i].name
        BY <2>2, EntryName
      <3>5. Distinct(n.kids) /\ Tidy(n.kids[i].kids)
        BY <2>1, <2>2, TidyDef
      <3>6. FirstIn(n.kids, f.path) <=>
              Head(n.kids).name = f.path[1] /\ FirstIn(n.kids[i].kids, Tail(f.path))
        BY <2>2, <3>2, <3>4, <3>5, FirstInIs
      <3>7. n.kids # <<>> /\ 1 \in DOMAIN n.kids /\ Head(n.kids) = n.kids[1]
        <4>1. n.kids \in Seq(AnyNode)
          BY <2>2, AnyLayerKids
        <4>2. n.kids # <<>>
          BY <4>1
        <4>3. QED BY <4>2, NodeKids
      <3>8. Fetched(n, parent) = Fetched(n.kids[1], path)
        BY <2>4, <3>7, FetchedDef
      <3>9. CASE i = 1
        <4>1. Claim(n.kids[1], path)
          BY <1>1, <2>2, <3>7
        <4>2. Plain(EntriesOf(n.kids[1]))
          BY <2>1, <2>2, <3>7, PlainBelow, PlainParts
        <4>3. At(path, f) \in Fetched(n.kids[1], path) <=> FirstIn(n.kids[1].kids, Tail(f.path))
          BY <3>5, <3>9, <4>1, <4>2
        <4>4. QED BY <3>2, <3>3, <3>4, <3>6, <3>7, <3>8, <3>9, <4>3
      <3>10. CASE i # 1
        <4>1. n.kids[1].name # n.kids[i].name
          BY <3>5, <3>7, <3>10 DEF Distinct
        <4>2. At(path, f) \notin Fetched(n.kids[1], path)
          <5>1. SUFFICES ASSUME At(path, f) \in Fetched(n.kids[1], path) PROVE FALSE
            OBVIOUS
          <5>2. At(path, f) \in Reached(n.kids[1], path)
            BY <2>2, <3>7, <5>1, AnyLayerKids, FetchedReached
          <5>3. At(path, f).path[Len(path) + 1] = n.kids[1].name
            BY <2>2, <3>7, <5>2, ReachedThere
          <5>4. At(path, f).path = path \o f.path
            BY DEF At
          <5>5. f.path \in Seq(Name) /\ 1 \in 1..Len(f.path)
            BY <3>2, TailOfPath
          <5>6. (path \o f.path)[Len(path) + 1] = f.path[1]
            BY ZenonT(60), <2>2, <5>5, PathsJoined
          <5>7. QED BY <3>4, <4>1, <5>3, <5>4, <5>6
        <4>3. QED BY <3>2, <3>3, <3>4, <3>6, <3>7, <3>8, <4>1, <4>2
      <3>11. QED BY <3>9, <3>10
    <2>5. QED BY <2>3, <2>4
  <1>2. AnyNode \subseteq S
    <2> HIDE DEF S
    <2>1. QED BY <1>1, ByNode
  <1>3. Claim(node, at)
    BY <1>2
  <1>4. QED BY <1>3

-----------------------------------------------------------------------------
(* What a checkout fetches.                                                *)

(* A checkout creates every file of the layer, and fetches those whose     *)
(* path leads through first children.                                      *)
LEMMA LayerFetched ==
  ASSUME NEW layer \in AnyLayer, Tidy(layer), Plain(Entries(layer)), NEW e \in Entries(layer)
  PROVE  /\ e \in AllReached(layer)
         /\ e \in AllFetched(layer) <=> FirstBelow(layer, e.path)
  <1>1. \A i \in DOMAIN layer : layer[i] \in AnyNode /\ layer[i].kids \in AnyLayer
    BY AnyLayerKids, NodeKids
  <1>2. <<>> \in Seq(Name)
    OBVIOUS
  <1>3. PICK i \in DOMAIN layer : e \in EntriesOf(layer[i])
    BY EntriesAre
  <1>4. Plain(EntriesOf(layer[i])) /\ Distinct(layer) /\ Tidy(layer[i].kids)
    BY <1>1, <1>3, PlainParts, TidyDef
  <1>5. e.path \in AnyPath /\ layer[i].name = e.path[1]
    BY <1>3, EntryName
  <1>6. At(<<>>, e) = e
    <2>1. e \in Listed
      BY EntriesDef
    <2>2. <<>> \o e.path = e.path
      BY <1>5 DEF AnyPath
    <2>3. QED BY <2>1, <2>2 DEF At, Listed
  <1>7. e \in Reached(layer[i], <<>>)
    BY <1>1, <1>2, <1>3, <1>4, <1>6, PlainReached
  <1>8. e \in Fetched(layer[i], <<>>) <=> FirstIn(layer[i].kids, Tail(e.path))
    BY <1>1, <1>2, <1>3, <1>4, <1>6, FetchedFirst
  <1>9. FirstBelow(layer, e.path) <=> FirstIn(layer[i].kids, Tail(e.path))
    BY <1>4, <1>5, FirstBelowIs
  <1>10. ASSUME NEW j \in DOMAIN layer, e \in Fetched(layer[j], <<>>)
         PROVE  j = i
    <2>1. e \in Reached(layer[j], <<>>)
      BY <1>1, <1>2, <1>10, FetchedReached
    <2>2. e.path[Len(<<>>) + 1] = layer[j].name
      BY <1>1, <1>2, <2>1, ReachedThere
    <2>3. layer[j].name = layer[i].name
      BY <1>5, <2>2
    <2>4. QED BY <1>4, <2>3 DEF Distinct
  <1>11. QED BY <1>3, <1>7, <1>8, <1>9, <1>10 DEF AllReached, AllFetched

(* The hash of a path that is listed with one hash only.                   *)
LEMMA HashOfListed ==
  ASSUME NEW entries, NEW p, NEW hash, hash # None,
         \A f \in entries : f.path = p => f.hash = hash
  PROVE  HashIn(entries, p) = IF \E f \in entries : f.path = p THEN hash ELSE None
  BY DEF HashIn

(* So a checkout writes into a file exactly when its path leads through    *)
(* first children.                                                         *)
LEMMA CheckoutOfPlain ==
  ASSUME TreeInv, Checkout, Ordinary(server), NEW f \in IndexOf(server), disk'[f.path] # None
  PROVE  disk'[f.path] = IF IsFirst(server, f.path) /\ f.hash \in Stored
                         THEN Flat!Overwrite(Flat!Md5(disk[f.path]), f.hash)
                         ELSE Flat!Md5(disk[f.path])
  <1> DEFINE layer == ConstructStructure(server).kids
             fetched == {g \in AllFetched(layer) : g.hash \in Stored}
             path == f.path
  <1>1. \E created :
          disk' = [p \in Path |->
            IF disk[p] = None /\ p \notin created THEN None
            ELSE IF HashIn(fetched, p) = None THEN Flat!Md5(disk[p])
            ELSE Flat!Overwrite(Flat!Md5(disk[p]), HashIn(fetched, p))]
    BY CheckoutDisk
  <1>2. /\ layer \in AnyLayer /\ Tidy(layer) /\ Entries(layer) \subseteq Index!Entry
        /\ IndexOf(server) = Entries(layer)
    BY TextIs, ProperTree DEF TreeInv
  <1>3. Plain(Entries(layer))
    BY <1>2 DEF Ordinary, Plain
  <1>4. IsFirst(server, path) <=> FirstBelow(layer, path)
    BY DEF IsFirst, FirstBelow
  <1> HIDE DEF layer
  <1>5. f \in Entries(layer) /\ path \in Path /\ f.hash # None
    BY <1>2, LayerAssumption DEF Index!Entry
  <1>6. f \in fetched <=> FirstBelow(layer, path) /\ f.hash \in Stored
    BY <1>2, <1>3, <1>5, LayerFetched
  <1>7. \A g \in fetched : g.path = path => g = f
    <2>1. \A g \in fetched : g \in Entries(layer)
      BY <1>2, AllReachedHas
    <2>2. QED BY <1>2, <1>5, <2>1, EntriesUnique
  <1> HIDE DEF fetched
  <1>8. PICK p, hash : p = path /\ hash = f.hash
    OBVIOUS
  <1>9. HashIn(fetched, p) = IF f \in fetched THEN hash ELSE None
    <2>1. hash # None /\ \A g \in fetched : g.path = p => g.hash = hash
      BY <1>5, <1>7, <1>8
    <2>2. (\E g \in fetched : g.path = p) <=> f \in fetched
      BY <1>7, <1>8
    <2>3. QED BY <2>1, <2>2, HashOfListed
  <1>10. disk'[p] = IF HashIn(fetched, p) = None THEN Flat!Md5(disk[p])
                    ELSE Flat!Overwrite(Flat!Md5(disk[p]), HashIn(fetched, p))
    BY <1>1, <1>5, <1>8
  <1>11. QED BY <1>4, <1>5, <1>6, <1>8, <1>9, <1>10

(* A checkout writes into a file exactly when each step of its path below  *)
(* the first is the first child there and the server has the content, for  *)
(* every tree that commands produce: receive_file_from_node goes into the  *)
(* first child once per child.  Other files keep their content.            *)
THEOREM CheckoutAlwaysFetches == Spec => CheckoutFetches
  <1>1. TreeInv /\ [Next]_vars =>
          [Checkout /\ Ordinary(server) =>
             \A f \in IndexOf(server) : disk'[f.path] # None =>
               LET old == Flat!Md5(disk[f.path])
               IN disk'[f.path] = IF IsFirst(server, f.path) /\ f.hash \in Stored
                                  THEN Flat!Overwrite(old, f.hash) ELSE old]_vars
    BY CheckoutOfPlain
  <1>2. QED BY <1>1, TreeAlways, PTL DEF Spec, CheckoutFetches

-----------------------------------------------------------------------------
(* A server tree that the client covers.                                   *)

(* Every node of the second layer has one of the same path and type in the *)
(* first.                                                                  *)
Covers(layer, others, at) == Nodes(others, at) \subseteq Nodes(layer, at)

(* A node of the server has the client's node of the same name and type,   *)
(* which covers it.                                                        *)
LEMMA CoversKids ==
  ASSUME NEW layer \in AnyLayer, NEW others \in AnyLayer, NEW at \in Seq(Name),
         Distinct(layer), Distinct(others), Covers(layer, others, at), NEW j \in DOMAIN others
  PROVE  \E i \in DOMAIN layer :
           /\ layer[i].name = others[j].name /\ layer[i].type = others[j].type
           /\ HashMapFind(layer, others[j].name) = {i} /\ HashMapFind(others, others[j].name) = {j}
           /\ Covers(layer[i].kids, others[j].kids, Append(at, others[j].name))
  <1> DEFINE name == others[j].name
             type == others[j].type
             path == Append(at, name)
  <1>1. name \in Name /\ path \in Seq(Name) /\ others[j].kids \in AnyLayer
    BY AnyLayerKids, NodeKids, PathBelow
  <1> HIDE DEF path
  <1>2. <<name>> \in AnyPath /\ Len(<<name>>) = 1 /\ <<name>>[1] = name
    BY <1>1 DEF AnyPath
  <1>3. PICK first \in AnyPath : first = <<name>>
    BY <1>2
  <1>4. Len(first) = 1 /\ first[1] = name
    BY <1>2, <1>3
  <1>5. NodeAt(at, first, type) \in Nodes(others, at)
    BY <1>4, NodesFromHead
  <1>6. NodeAt(at, first, type) \in Nodes(layer, at)
    BY <1>5 DEF Covers
  <1>7. PICK i \in DOMAIN layer : layer[i].name = name /\ layer[i].type = type
    BY <1>4, <1>6, NodesFromHead
  <1>8. HashMapFind(layer, name) = {i} /\ HashMapFind(others, name) = {j}
    BY <1>7, MapOf
  <1>9. ASSUME NEW n \in Nodes(others[j].kids, path)
        PROVE  n \in Nodes(layer[i].kids, path)
    <2>1. PICK q \in AnyPath, t \in {1, 2} : n = NodeAt(path, q, t)
      BY <1>1, <1>9, NodesListed
    <2>2. PICK p \in AnyPath : p = <<name>> \o q
      BY <1>1, PathsFromHead
    <2>3. Len(p) # 1 /\ p[1] = name /\ Tail(p) = q
      BY <1>1, <2>2, PathsFromHead
    <2>4. NodeAt(path, q, t) \in Nodes(others[j].kids, path)
      BY <1>9, <2>1
    <2>5. NodeAt(at, p, t) \in Nodes(others, at)
      BY <2>3, <2>4, NodesFromHead DEF path
    <2>6. NodeAt(at, p, t) \in Nodes(layer, at)
      BY <2>5 DEF Covers
    <2>7. PICK k \in DOMAIN layer :
            /\ layer[k].name = name
            /\ NodeAt(path, q, t) \in Nodes(layer[k].kids, path)
      <3>1. PICK k \in DOMAIN layer :
              /\ layer[k].name = p[1]
              /\ NodeAt(Append(at, p[1]), Tail(p), t) \in Nodes(layer[k].kids, Append(at, p[1]))
        BY <2>3, <2>6, NodesFromHead
      <3>2. QED BY <2>3, <3>1 DEF path
    <2>8. k = i
      BY <1>7, <2>7 DEF Distinct
    <2>9. QED BY <2>1, <2>7, <2>8
  <1>10. Covers(layer[i].kids, others[j].kids, path)
    BY <1>9 DEF Covers
  <1>11. QED BY <1>7, <1>8, <1>10 DEF path

(* Then no fault, and nothing to add.                                      *)
LEMMA CoveredCompared ==
  ASSUME NEW layer \in AnyLayer, NEW others \in AnyLayer, NEW at \in Seq(Name),
         Tidy(layer), Tidy(others), Covers(layer, others, at)
  PROVE  ~CompareFaults(layer, others) /\ Added(layer, others) = {}
  <1> DEFINE Claim(l, o, above) ==
               Tidy(l) /\ Tidy(o) /\ Covers(l, o, above) => ~CompareFaults(l, o) /\ Added(l, o) = {}
             S == {l \in AnyLayer : \A o \in AnyLayer, above \in Seq(Name) : Claim(l, o, above)}
  <1>1. ASSUME NEW l \in AnyLayer, \A i \in DOMAIN l : l[i].kids \in S
        PROVE  l \in S
    <2>1. SUFFICES ASSUME NEW o \in AnyLayer, NEW above \in Seq(Name),
                          Tidy(l), Tidy(o), Covers(l, o, above)
                   PROVE  ~CompareFaults(l, o) /\ Added(l, o) = {}
      OBVIOUS
    <2>2. /\ Distinct(l) /\ \A i \in DOMAIN l : Tidy(l[i].kids) /\ l[i].kids \in AnyLayer
          /\ Distinct(o) /\ \A j \in DOMAIN o : Tidy(o[j].kids) /\ o[j].kids \in AnyLayer
      BY <2>1, TidyDef, AnyLayerKids
    <2>3. ASSUME NEW j \in DOMAIN o
          PROVE  \E i \in DOMAIN l :
                   /\ HashMapFind(l, o[j].name) = {i} /\ l[i].type = o[j].type
                   /\ ~CompareFaults(l[i].kids, o[j].kids) /\ Added(l[i].kids, o[j].kids) = {}
      <3> DEFINE path == Append(above, o[j].name)
      <3>1. path \in Seq(Name)
        BY AnyLayerKids, NodeKids, PathBelow
      <3>2. PICK i \in DOMAIN l :
              /\ l[i].type = o[j].type /\ HashMapFind(l, o[j].name) = {i}
              /\ Covers(l[i].kids, o[j].kids, path)
        BY <2>1, <2>2, CoversKids
      <3> HIDE DEF path
      <3>3. Claim(l[i].kids, o[j].kids, path)
        BY <1>1, <2>2, <3>1
      <3>4. ~CompareFaults(l[i].kids, o[j].kids) /\ Added(l[i].kids, o[j].kids) = {}
        BY <2>2, <3>2, <3>3
      <3>5. QED BY <3>2, <3>4
    <2>4. ~CompareFaults(l, o)
      <3>1. SUFFICES ASSUME CompareFaults(l, o) PROVE FALSE
        OBVIOUS
      <3>2. PICK j \in DOMAIN o :
              \/ HashMapFind(l, o[j].name) = {}
              \/ \E i \in HashMapFind(l, o[j].name) : CompareFaults(l[i].kids, o[j].kids)
        BY <3>1, CompareFaultsDef
      <3>3. QED BY <2>3, <3>2
    <2>5. ASSUME NEW line \in Added(l, o)
          PROVE  FALSE
      <3>1. PICK j \in DOMAIN o : \E i \in HashMapFind(l, o[j].name) :
              l[i].type # o[j].type \/ line \in Added(l[i].kids, o[j].kids)
        BY <2>5, AddedDef
      <3>2. QED BY <2>3, <3>1
    <2>6. QED BY <2>4, <2>5
  <1>2. AnyLayer \subseteq S
    <2> HIDE DEF S
    <2>1. QED BY <1>1, ByDepth
  <1>3. Claim(layer, others, at)
    BY <1>2
  <1>4. QED BY <1>3

-----------------------------------------------------------------------------
(* The comparison of covered trees, node by node.                          *)

(* An entry of the client with the hash the others list in its place.      *)
Beside(at, e, others) ==
  [path |-> at \o e.path, mine |-> e.hash, theirs |-> HashIn(Entries(others), e.path)]

(* A tidy layer gives each entry its hash.                                 *)
LEMMA HashOf ==
  ASSUME NEW layer \in AnyLayer, Tidy(layer), NEW f \in Entries(layer)
  PROVE  HashIn(Entries(layer), f.path) = f.hash
  <1>1. \A g \in Entries(layer) : g.path = f.path => g = f
    BY EntriesUnique
  <1>2. QED BY <1>1 DEF HashIn

(* An entry of the same path is below the node of the same name.           *)
LEMMA HashBelow ==
  ASSUME NEW layer \in AnyLayer, Tidy(layer), NEW j \in DOMAIN layer, NEW p \in AnyPath
  PROVE  HashIn(Entries(layer), <<layer[j].name>> \o p) = HashIn(Entries(layer[j].kids), p)
  <1> DEFINE name == layer[j].name
             kids == layer[j].kids
             path == <<name>> \o p
  <1>1. /\ name \in Name /\ kids \in AnyLayer /\ Tidy(kids) /\ Distinct(layer)
        /\ path \in AnyPath /\ path[1] = name /\ Len(path) # 1 /\ Tail(path) = p
    <2>1. name \in Name /\ kids \in AnyLayer /\ Tidy(kids) /\ Distinct(layer)
      BY AnyLayerKids, NodeKids, TidyDef
    <2> HIDE DEF name
    <2>2. PICK q \in AnyPath : q = path
      BY <2>1, PathsFromHead
    <2>3. q[1] = name /\ Len(q) # 1 /\ Tail(q) = p
      BY <2>1, <2>2, PathsFromHead
    <2>4. QED BY <2>1, <2>2, <2>3
  <1>2. ASSUME NEW g \in Entries(kids), g.path = p
        PROVE  \E f \in Entries(layer) : f.path = path /\ f.hash = g.hash
    <2> DEFINE f == [path |-> path, hash |-> g.hash]
    <2>1. f \in EntriesOf(layer[j])
      BY <1>2 DEF EntriesOf, Below
    <2>2. f \in Entries(layer)
      BY <2>1, EntriesAre
    <2>3. QED BY <2>2
  <1>3. ASSUME NEW f \in Entries(layer), f.path = path
        PROVE  \E g \in Entries(kids) : g.path = p /\ g.hash = f.hash
    <2>1. PICK i \in DOMAIN layer : f \in EntriesOf(layer[i])
      BY EntriesAre
    <2>2. layer[i].name = name
      BY <1>1, <1>3, <2>1, EntryName
    <2>3. i = j
      BY <1>1, <2>2 DEF Distinct
    <2>4. f \in Own(layer[j]) \/ f \in Below(name, Entries(kids))
      BY <2>1, <2>3 DEF EntriesOf
    <2>5. f \notin Own(layer[j])
      <3>1. path # <<name>>
        BY <1>1, PathsFromHead
      <3>2. \A g \in Own(layer[j]) : g.path = <<name>>
        BY DEF Own
      <3> HIDE DEF path
      <3>3. QED BY <1>3, <3>1, <3>2
    <2>6. PICK g \in Entries(kids) : f = [path |-> <<name>> \o g.path, hash |-> g.hash]
      BY <2>4, <2>5 DEF Below
    <2>7. g.path \in AnyPath
      BY <1>1, EntriesDef DEF Listed
    <2>8. g.path = p
      <3>1. path = <<name>> \o g.path
        BY <1>3, <2>6
      <3> HIDE DEF path
      <3>2. Tail(path) = g.path
        BY <1>1, <2>7, <3>1, UnderHead
      <3>3. QED BY <1>1, <3>2
    <2>9. QED BY <2>6, <2>8
  <1> HIDE DEF path, kids
  <1>4. CASE \E g \in Entries(kids) : g.path = p
    <2>1. PICK g \in Entries(kids) : g.path = p
      BY <1>4
    <2>2. PICK f \in Entries(layer) : f.path = path /\ f.hash = g.hash
      BY <1>2, <2>1
    <2>3. HashIn(Entries(kids), p) = g.hash
      BY <1>1, <2>1, HashOf
    <2>4. HashIn(Entries(layer), path) = f.hash
      BY <2>2, HashOf
    <2>5. QED BY <2>2, <2>3, <2>4 DEF path, kids
  <1>5. CASE ~\E g \in Entries(kids) : g.path = p
    <2>1. ~\E f \in Entries(layer) : f.path = path
      BY <1>3, <1>5
    <2>2. HashIn(Entries(kids), p) = None /\ HashIn(Entries(layer), path) = None
      BY <1>5, <2>1 DEF HashIn
    <2>3. QED BY <2>2 DEF path, kids
  <1>6. QED BY <1>4, <1>5

(* What the comparison gives for one node of the layer.                    *)
MetOf(node, others, at) ==
  IF Same(node, others) = {} THEN Alone(node, at)
  ELSE UNION {IF node.type = 1
              THEN {[path |-> Append(at, node.name), mine |-> node.hash, theirs |-> others[j].hash]}
              ELSE Met(node.kids, others[j].kids, Append(at, node.name))
              : j \in Same(node, others)}

(* The comparison of a layer is that of its nodes.                         *)
LEMMA MetParts ==
  ASSUME NEW layer \in AnyLayer, NEW others \in AnyLayer, NEW at \in Seq(Name)
  PROVE  Met(layer, others, at) = UNION {MetOf(layer[i], others, at) : i \in DOMAIN layer}
  BY MetDef DEF MetOf

(* A node the server has none for: its files have no hash there.           *)
LEMMA MetAlone ==
  ASSUME NEW layer \in AnyLayer, NEW others \in AnyLayer, NEW at \in Seq(Name),
         Tidy(layer), Tidy(others), Plain(Entries(layer)), Covers(layer, others, at),
         NEW i \in DOMAIN layer, Same(layer[i], others) = {}
  PROVE  MetOf(layer[i], others, at) = {Beside(at, e, others) : e \in EntriesOf(layer[i])}
  <1> DEFINE node == layer[i]
  <1>1. node \in AnyNode /\ Plain(EntriesOf(node)) /\ Distinct(layer) /\ Distinct(others)
    BY AnyLayerKids, PlainParts, TidyDef
  <1>2. ASSUME NEW e \in EntriesOf(node)
        PROVE  HashIn(Entries(others), e.path) = None
    <2>1. SUFFICES ASSUME NEW g \in Entries(others), g.path = e.path PROVE FALSE
      BY DEF HashIn
    <2>2. PICK j \in DOMAIN others : g \in EntriesOf(others[j])
      BY EntriesAre
    <2>3. others[j].name = layer[i].name
      BY <2>1, <2>2, EntryName
    <2>4. PICK k \in DOMAIN layer :
            /\ layer[k].name = others[j].name /\ layer[k].type = others[j].type
            /\ HashMapFind(others, others[j].name) = {j}
      BY <1>1, CoversKids
    <2>5. k = i
      BY <1>1, <2>3, <2>4 DEF Distinct
    <2>6. QED BY <2>3, <2>4, <2>5 DEF Same
  <1>3. \A r \in Reached(node, at) : \E e \in EntriesOf(node) : r = At(at, e)
    BY <1>1, ReachedListed
  <1>4. \A e \in EntriesOf(node) : At(at, e) \in Reached(node, at)
    BY <1>1, PlainReached
  <1> DEFINE Of(r) == [path |-> r.path, mine |-> r.hash, theirs |-> None]
  <1>5. \A e \in EntriesOf(node) : Of(At(at, e)) = Beside(at, e, others)
    BY <1>2 DEF At, Beside
  <1>6. MetOf(node, others, at) = {Of(r) : r \in Reached(node, at)}
    BY DEF MetOf, Alone
  <1> HIDE DEF Of, node
  <1>7. {Of(r) : r \in Reached(node, at)} = {Beside(at, e, others) : e \in EntriesOf(node)}
    BY <1>3, <1>4, <1>5
  <1>8. QED BY <1>6, <1>7 DEF node

(* A file that both have.                                                  *)
LEMMA MetFile ==
  ASSUME NEW layer \in AnyLayer, NEW others \in AnyLayer, NEW at \in Seq(Name),
         Tidy(others), Plain(Entries(layer)), NEW i \in DOMAIN layer, layer[i].type = 1,
         Same(layer[i], others) # {}
  PROVE  MetOf(layer[i], others, at) = {Beside(at, e, others) : e \in EntriesOf(layer[i])}
  <1> DEFINE node == layer[i]
             path == Append(at, node.name)
             own == [path |-> <<node.name>>, hash |-> node.hash]
  <1>1. node \in AnyNode /\ node.name \in Name /\ Plain(EntriesOf(node)) /\ Distinct(others)
    BY AnyLayerKids, NodeKids, PlainParts, TidyDef
  <1>2. EntriesOf(node) = {own}
    BY <1>1, PlainBelow
  <1>3. PICK j \in Same(node, others) : TRUE
    OBVIOUS
  <1>4. j \in DOMAIN others /\ others[j].name = node.name /\ others[j].type = 1
    BY <1>3, MapPlaces DEF Same
  <1>5. Same(node, others) = {j}
    <2>1. HashMapFind(others, node.name) = {j}
      BY <1>1, <1>4, MapOf
    <2>2. QED BY <1>3, <2>1 DEF Same
  <1>6. HashIn(Entries(others), <<node.name>>) = others[j].hash
    <2> DEFINE theirs == [path |-> <<others[j].name>>, hash |-> others[j].hash]
    <2>1. theirs \in EntriesOf(others[j])
      BY <1>4 DEF EntriesOf, Own
    <2>2. theirs \in Entries(others)
      BY <1>4, <2>1, EntriesAre
    <2>3. theirs.path = <<node.name>> /\ theirs.hash = others[j].hash
      BY <1>4
    <2> HIDE DEF theirs
    <2>4. HashIn(Entries(others), theirs.path) = theirs.hash
      BY <2>2, HashOf
    <2>5. QED BY <2>3, <2>4
  <1>7. at \o <<node.name>> = path
    BY <1>1
  <1>8. Beside(at, own, others) = [path |-> path, mine |-> node.hash, theirs |-> others[j].hash]
    BY <1>6, <1>7 DEF Beside
  <1>9. MetOf(node, others, at) = {[path |-> path, mine |-> node.hash, theirs |-> others[j].hash]}
    <2> DEFINE Of(k) == [path |-> path, mine |-> node.hash, theirs |-> others[k].hash]
    <2>1. MetOf(node, others, at) = UNION {{Of(k)} : k \in Same(node, others)}
      BY <1>5 DEF MetOf
    <2> HIDE DEF Of
    <2>2. UNION {{Of(k)} : k \in {j}} = {Of(j)}
      OBVIOUS
    <2>3. QED BY <1>5, <2>1, <2>2 DEF Of
  <1> HIDE DEF own, node
  <1>10. {Beside(at, e, others) : e \in EntriesOf(node)} = {Beside(at, own, others)}
    BY <1>2
  <1>11. QED BY <1>8, <1>9, <1>10 DEF node

-----------------------------------------------------------------------------
(* The comparison of covered trees.                                        *)

(* The comparison below a node is that of the tables below it.             *)
KidsMet(node, others, path) ==
  \A j \in DOMAIN others :
    Covers(node.kids, others[j].kids, path) =>
      Met(node.kids, others[j].kids, path)
        = {Beside(path, f, others[j].kids) : f \in Entries(node.kids)}

(* A folder that both have.                                                *)
LEMMA MetFolder ==
  ASSUME NEW layer \in AnyLayer, NEW others \in AnyLayer, NEW at \in Seq(Name),
         Tidy(layer), Tidy(others), Covers(layer, others, at),
         NEW i \in DOMAIN layer, layer[i].type # 1, Same(layer[i], others) # {},
         KidsMet(layer[i], others, Append(at, layer[i].name))
  PROVE  MetOf(layer[i], others, at) = {Beside(at, e, others) : e \in EntriesOf(layer[i])}
  <1> DEFINE node == layer[i]
             name == node.name
             path == Append(at, name)
  <1>1. /\ node \in AnyNode /\ name \in Name /\ node.kids \in AnyLayer
        /\ Distinct(layer) /\ Distinct(others)
    BY AnyLayerKids, NodeKids, TidyDef
  <1>2. PICK j \in Same(node, others) : TRUE
    OBVIOUS
  <1>3. j \in DOMAIN others /\ others[j].name = name /\ others[j].type = node.type
    BY <1>2, MapPlaces DEF Same
  <1>4. Same(node, others) = {j}
    <2>1. HashMapFind(others, name) = {j}
      BY <1>1, <1>3, MapOf
    <2>2. QED BY <1>2, <2>1 DEF Same
  <1>5. Covers(node.kids, others[j].kids, path)
    <2>1. PICK k \in DOMAIN layer :
            layer[k].name = others[j].name /\ Covers(layer[k].kids, others[j].kids, Append(at, others[j].name))
      BY <1>1, <1>3, CoversKids
    <2>2. k = i
      BY <1>1, <1>3, <2>1 DEF Distinct
    <2>3. QED BY <1>3, <2>1, <2>2
  <1>6. Met(node.kids, others[j].kids, path)
          = {Beside(path, f, others[j].kids) : f \in Entries(node.kids)}
    BY <1>3, <1>5 DEF KidsMet
  <1>7. MetOf(node, others, at) = Met(node.kids, others[j].kids, path)
    <2> DEFINE Of(k) == Met(node.kids, others[k].kids, path)
    <2>1. MetOf(node, others, at) = UNION {Of(k) : k \in Same(node, others)}
      BY <1>4 DEF MetOf
    <2> HIDE DEF Of
    <2>2. UNION {Of(k) : k \in {j}} = Of(j)
      OBVIOUS
    <2>3. QED BY <1>4, <2>1, <2>2 DEF Of
  <1> DEFINE Under(f) == [path |-> <<name>> \o f.path, hash |-> f.hash]
  <1>8. EntriesOf(node) = {Under(f) : f \in Entries(node.kids)}
    <2>1. Own(node) = {}
      BY DEF Own
    <2>2. QED BY <2>1 DEF EntriesOf, Below
  <1>9. ASSUME NEW f \in Entries(node.kids)
        PROVE  Beside(path, f, others[j].kids) = Beside(at, Under(f), others)
    <2>1. f.path \in AnyPath
      BY <1>1, EntriesDef DEF Listed
    <2>2. HashIn(Entries(others), <<name>> \o f.path) = HashIn(Entries(others[j].kids), f.path)
      <3>1. HashIn(Entries(others), <<others[j].name>> \o f.path)
              = HashIn(Entries(others[j].kids), f.path)
        BY <1>3, <2>1, HashBelow
      <3>2. QED BY <1>3, <3>1
    <2>3. path \o f.path = at \o (<<name>> \o f.path)
      BY <1>1, <2>1, PathsJoined DEF AnyPath
    <2>4. Under(f).path = <<name>> \o f.path /\ Under(f).hash = f.hash
      OBVIOUS
    <2> HIDE DEF Under
    <2>5. QED BY <2>2, <2>3, <2>4 DEF Beside
  <1> HIDE DEF Under, node, path
  <1>10. {Beside(path, f, others[j].kids) : f \in Entries(node.kids)}
           = {Beside(at, e, others) : e \in {Under(f) : f \in Entries(node.kids)}}
    BY <1>9
  <1>11. QED BY <1>6, <1>7, <1>8, <1>10 DEF node

(* Where every node of the server is one of the client's as well, the      *)
(* comparison of the trees is the comparison of their tables.              *)
LEMMA MetIs ==
  ASSUME NEW layer \in AnyLayer, NEW others \in AnyLayer, NEW at \in Seq(Name),
         Tidy(layer), Tidy(others), Plain(Entries(layer)), Covers(layer, others, at)
  PROVE  Met(layer, others, at) = {Beside(at, e, others) : e \in Entries(layer)}
  <1> DEFINE Claim(l, o, above) ==
               Tidy(l) /\ Tidy(o) /\ Plain(Entries(l)) /\ Covers(l, o, above) =>
                 Met(l, o, above) = {Beside(above, e, o) : e \in Entries(l)}
             S == {l \in AnyLayer : \A o \in AnyLayer, above \in Seq(Name) : Claim(l, o, above)}
  <1>1. ASSUME NEW l \in AnyLayer, \A i \in DOMAIN l : l[i].kids \in S
        PROVE  l \in S
    <2>1. SUFFICES ASSUME NEW o \in AnyLayer, NEW above \in Seq(Name),
                          Tidy(l), Tidy(o), Plain(Entries(l)), Covers(l, o, above)
                   PROVE  Met(l, o, above) = {Beside(above, e, o) : e \in Entries(l)}
      OBVIOUS
    <2>2. /\ \A i \in DOMAIN l : Tidy(l[i].kids)
          /\ \A j \in DOMAIN o : Tidy(o[j].kids) /\ o[j].kids \in AnyLayer
      BY <2>1, TidyDef, AnyLayerKids
    <2>3. ASSUME NEW i \in DOMAIN l
          PROVE  MetOf(l[i], o, above) = {Beside(above, e, o) : e \in EntriesOf(l[i])}
      <3>1. CASE Same(l[i], o) = {}
        BY <2>1, <3>1, MetAlone
      <3>2. CASE Same(l[i], o) # {} /\ l[i].type = 1
        BY <2>1, <3>2, MetFile
      <3>3. CASE Same(l[i], o) # {} /\ l[i].type # 1
        <4> DEFINE path == Append(above, l[i].name)
        <4>1. path \in Seq(Name) /\ Plain(Entries(l[i].kids))
          BY <2>1, AnyLayerKids, NodeKids, PathBelow, PlainParts, PlainBelow
        <4>2. ASSUME NEW j \in DOMAIN o, Covers(l[i].kids, o[j].kids, path)
              PROVE  Met(l[i].kids, o[j].kids, path)
                       = {Beside(path, f, o[j].kids) : f \in Entries(l[i].kids)}
          <5> HIDE DEF path
          <5>1. Claim(l[i].kids, o[j].kids, path)
            BY <1>1, <2>2, <4>1
          <5>2. QED BY <2>2, <4>1, <4>2, <5>1
        <4>3. KidsMet(l[i], o, path)
          BY <4>2 DEF KidsMet
        <4>4. QED BY <2>1, <3>3, <4>3, MetFolder
      <3>4. QED BY <3>1, <3>2, <3>3
    <2>4. Met(l, o, above) = UNION {MetOf(l[i], o, above) : i \in DOMAIN l}
      BY <2>1, MetParts
    <2>5. \A e : e \in Entries(l) <=> \E i \in DOMAIN l : e \in EntriesOf(l[i])
      BY EntriesAre
    <2>6. QED BY <2>3, <2>4, <2>5
  <1>2. AnyLayer \subseteq S
    <2> HIDE DEF S
    <2>1. QED BY <1>1, ByDepth
  <1>3. Claim(layer, others, at)
    BY <1>2
  <1>4. QED BY <1>3

-----------------------------------------------------------------------------
(* The lines for one file.                                                 *)

(* What Store writes for a file, case by case.                             *)
LEMMA FlatCases ==
  ASSUME NEW mine, NEW theirs, NEW files, NEW answer, NEW p \in Path, NEW line,
         line = Flat!UpdateLines(mine, theirs, files, answer)[p]
  PROVE  /\ mine.hash[p] = None => line = None
         /\ mine.hash[p] # None /\ theirs.hash[p] = None =>
              line = IF Flat!SameVersion(mine, theirs)
                     THEN [mode |-> "U", new |-> mine.hash[p]] ELSE [mode |-> "D", new |-> None]
         /\ /\ mine.hash[p] # None /\ theirs.hash[p] # None
            /\ Flat!SameVersion(mine, theirs) \/ mine.hash[p] = theirs.hash[p]
            /\ Flat!Md5(files[p]) # None
            => line = IF Flat!Md5(files[p]) # mine.hash[p]
                      THEN [mode |-> "U", new |-> Flat!Md5(files[p])] ELSE None
         /\ /\ mine.hash[p] # None /\ theirs.hash[p] # None
            /\ ~Flat!SameVersion(mine, theirs) /\ mine.hash[p] # theirs.hash[p]
            /\ Flat!Md5(files[p]) # None
            => line = IF Flat!Md5(files[p]) = mine.hash[p] \/ answer[p] = "server"
                      THEN [mode |-> "M", new |-> theirs.hash[p]]
                      ELSE IF answer[p] = "client" THEN [mode |-> "U", new |-> Flat!Md5(files[p])]
                      ELSE None
  <1> DEFINE same == Flat!SameVersion(mine, theirs)
             a == mine.hash[p]
             b == theirs.hash[p]
             d == Flat!Md5(files[p])
  <1>1. line = CASE p \in Flat!Deleted(mine, theirs) -> [mode |-> "D", new |-> None]
                 [] p \in Flat!Modified(mine, theirs, files, answer)
                      -> [mode |-> "M", new |-> b]
                 [] Flat!UploadHash(mine, theirs, files, answer, p) # None
                      -> [mode |-> "U", new |-> Flat!UploadHash(mine, theirs, files, answer, p)]
                 [] OTHER -> None
    BY DEF Flat!UpdateLines
  <1>2. p \in Flat!Deleted(mine, theirs) <=> ~same /\ a # None /\ b = None
    BY DEF Flat!Deleted, Flat!OnlyClient, Flat!Listed
  <1>3. p \in Flat!OnBoth(mine, theirs) <=> a # None /\ b # None
    BY DEF Flat!OnBoth, Flat!Listed
  <1>4. p \in Flat!OnlyClient(mine, theirs) <=> a # None /\ b = None
    BY DEF Flat!OnlyClient, Flat!Listed
  <1>5. Flat!Edited(mine, files, p) <=> d # a
    BY DEF Flat!Edited
  <1>6. p \in Flat!Outdated(mine, theirs) <=> a # None /\ b # None /\ ~same /\ a # b
    BY <1>3 DEF Flat!Outdated
  <1>7. p \in Flat!Conflict(mine, theirs, files) <=> a # None /\ b # None /\ ~same /\ a # b /\ d # a
    BY <1>5, <1>6 DEF Flat!Conflict
  <1>8. p \in Flat!Modified(mine, theirs, files, answer) <=>
          a # None /\ b # None /\ ~same /\ a # b /\ (d # a => answer[p] = "server")
    BY <1>6, <1>7 DEF Flat!Modified
  <1>9. Flat!UploadHash(mine, theirs, files, answer, p) =
          CASE a # None /\ b = None /\ same -> a
            [] a # None /\ b # None /\ (same \/ a = b) /\ d # a -> d
            [] a # None /\ b # None /\ ~same /\ a # b /\ d # a /\ answer[p] = "client" -> d
            [] OTHER -> None
    BY <1>3, <1>4, <1>5, <1>6, <1>7, SMT DEF Flat!UploadHash
  <1> HIDE DEF same, a, b, d
  <1>10. a = None => line = None
    BY <1>1, <1>2, <1>8, <1>9
  <1>11. a # None /\ b = None =>
           line = IF same THEN [mode |-> "U", new |-> a] ELSE [mode |-> "D", new |-> None]
    BY <1>1, <1>2, <1>8, <1>9
  <1>12. a # None /\ b # None /\ (same \/ a = b) /\ d # None =>
           line = IF d # a THEN [mode |-> "U", new |-> d] ELSE None
    BY <1>1, <1>2, <1>8, <1>9
  <1>13. a # None /\ b # None /\ ~same /\ a # b /\ d # None =>
           line = IF d = a \/ answer[p] = "server" THEN [mode |-> "M", new |-> b]
                  ELSE IF answer[p] = "client" THEN [mode |-> "U", new |-> d] ELSE None
    BY <1>1, <1>2, <1>8, <1>9
  <1>14. QED BY <1>10, <1>11, <1>12, <1>13 DEF same, a, b, d

(* Some lines of one path are the one line, or None.                       *)
AreLine(lines, p, line) ==
  \/ lines = {} /\ line = None
  \/ \E l : lines = {l} /\ l.path = p /\ line = [mode |-> l.mode, new |-> l.new]

(* A line is one line, and no line none.                                   *)
LEMMA OneLine ==
  ASSUME NEW mode, NEW p, NEW new
  PROVE  /\ AreLine({[mode |-> mode, path |-> p, new |-> new]}, p, [mode |-> mode, new |-> new])
         /\ AreLine({}, p, None)
  <1> DEFINE l == [mode |-> mode, path |-> p, new |-> new]
  <1>1. l.path = p /\ [mode |-> mode, new |-> new] = [mode |-> l.mode, new |-> l.new]
    OBVIOUS
  <1> HIDE DEF l
  <1>2. AreLine({l}, p, [mode |-> mode, new |-> new])
    BY <1>1 DEF AreLine
  <1>3. QED BY <1>2 DEF l, AreLine

(* The lines update writes for a file are those of Store.                  *)
LEMMA LinesAre ==
  ASSUME NEW mine, NEW theirs, NEW answer, NEW p \in Path,
         NEW m, m.path = p, m.mine = mine.hash[p], m.theirs = theirs.hash[p],
         m.mine # None, Flat!Md5(disk[p]) # None,
         NEW same, same = Flat!SameVersion(mine, theirs),
         NEW given, Asked(m, same) => given = answer[p]
  PROVE  AreLine(LinesFor(m, same, given), p, Flat!UpdateLines(mine, theirs, disk, answer)[p])
  <1> DEFINE d == Flat!Md5(disk[p])
             upload == [mode |-> "U", path |-> p, new |-> d]
             kept == [mode |-> "U", path |-> p, new |-> m.mine]
             delete == [mode |-> "D", path |-> p, new |-> None]
             take == [mode |-> "M", path |-> p, new |-> m.theirs]
             lines == LinesFor(m, same, given)
  <1>1. PICK line : line = Flat!UpdateLines(mine, theirs, disk, answer)[p]
    OBVIOUS
  <1>2. Edited(m) <=> d # m.mine
    BY DEF Edited
  <1>3. lines = IF m.theirs = None THEN {IF same THEN kept ELSE delete}
                ELSE IF same \/ m.mine = m.theirs THEN {l \in {upload} : Edited(m)}
                ELSE IF ~Edited(m) THEN {take}
                ELSE {l \in {take, upload} : given = IF l = take THEN "server" ELSE "client"}
    BY DEF LinesFor
  <1>4. Asked(m, same) <=> m.theirs # None /\ ~same /\ m.mine # m.theirs /\ d # m.mine
    BY <1>2 DEF Asked
  <1>5. take # upload
    <2>1. take.mode # upload.mode
      OBVIOUS
    <2> HIDE DEF take, upload
    <2>2. QED BY <2>1
  <1> HIDE DEF lines
  <1> DEFINE U(new) == [mode |-> "U", new |-> new]
             D == [mode |-> "D", new |-> None]
             M == [mode |-> "M", new |-> m.theirs]
  <1>6. /\ AreLine({upload}, p, U(d)) /\ AreLine({kept}, p, U(m.mine)) /\ AreLine({delete}, p, D)
        /\ AreLine({take}, p, M) /\ AreLine({}, p, None)
    BY OneLine
  <1>7. /\ m.theirs = None => line = IF same THEN U(m.mine) ELSE D
        /\ m.theirs # None /\ (same \/ m.mine = m.theirs) => line = IF d # m.mine THEN U(d) ELSE None
        /\ m.theirs # None /\ ~same /\ m.mine # m.theirs =>
             line = IF d = m.mine \/ answer[p] = "server" THEN M
                    ELSE IF answer[p] = "client" THEN U(d) ELSE None
    BY <1>1, FlatCases
  <1> HIDE DEF upload, kept, delete, take, U, D, M
  <1>8. CASE m.theirs = None
    <2>1. lines = {IF same THEN kept ELSE delete} /\ line = IF same THEN U(m.mine) ELSE D
      BY <1>3, <1>7, <1>8
    <2>2. AreLine(lines, p, line)
      BY <1>6, <2>1
    <2>3. QED BY <1>1, <2>2 DEF lines
  <1>9. CASE m.theirs # None /\ (same \/ m.mine = m.theirs)
    <2>1. lines = IF d # m.mine THEN {upload} ELSE {}
      BY <1>2, <1>3, <1>9
    <2>2. line = IF d # m.mine THEN U(d) ELSE None
      BY <1>7, <1>9
    <2>3. AreLine(lines, p, line)
      BY <1>6, <2>1, <2>2
    <2>4. QED BY <1>1, <2>3 DEF lines
  <1>10. CASE m.theirs # None /\ ~same /\ m.mine # m.theirs
    <2>1. line = IF d = m.mine \/ answer[p] = "server" THEN M
                 ELSE IF answer[p] = "client" THEN U(d) ELSE None
      BY <1>7, <1>10
    <2>2. CASE d = m.mine
      <3>1. lines = {take}
        BY <1>2, <1>3, <1>10, <2>2
      <3>2. AreLine(lines, p, line)
        BY <1>6, <2>1, <2>2, <3>1
      <3>3. QED BY <1>1, <3>2 DEF lines
    <2>3. CASE d # m.mine
      <3>1. given = answer[p]
        BY <1>4, <1>10, <2>3
      <3>2. lines = {l \in {take, upload} : given = IF l = take THEN "server" ELSE "client"}
        BY <1>2, <1>3, <1>10, <2>3
      <3>3. lines = IF given = "server" THEN {take} ELSE IF given = "client" THEN {upload} ELSE {}
        BY <1>5, <3>2
      <3>4. AreLine(lines, p, line)
        BY <1>6, <2>1, <2>3, <3>1, <3>3
      <3>5. QED BY <1>1, <3>4 DEF lines
    <2>4. QED BY <2>2, <2>3
  <1>11. QED BY <1>8, <1>9, <1>10

(* The comparison of the trees in the terms of Store.                      *)
LEMMA MetFlat ==
  ASSUME TreeInv, Parses, Ordinary(manifest), Covered,
         NEW mine, mine = Flattened(manifest), NEW theirs, theirs = Flattened(server)
  PROVE  /\ Met(Root.kids, ConstructStructure(server).kids, <<>>)
              = {[path |-> p, mine |-> mine.hash[p], theirs |-> theirs.hash[p]]
                 : p \in Flat!Listed(mine)}
         /\ ~CompareFaults(Root.kids, ConstructStructure(server).kids)
         /\ Added(Root.kids, ConstructStructure(server).kids) = {}
         /\ Flat!SameVersion(mine, theirs) <=> Root.version = ConstructStructure(server).version
  <1> DEFINE l == Root.kids
             o == ConstructStructure(server).kids
  <1>1. /\ l \in AnyLayer /\ Tidy(l) /\ Entries(l) \subseteq Index!Entry
        /\ IndexOf(manifest) = Entries(l) /\ IndexOf(server) = Entries(o)
        /\ o \in AnyLayer /\ Tidy(o)
    BY RootIs, TextIs, ProperTree DEF TreeInv
  <1>2. Covers(l, o, <<>>) /\ <<>> \in Seq(Name)
    BY DEF Covered, Covers
  <1>3. Plain(Entries(l))
    BY <1>1 DEF Ordinary, Plain
  <1>4. /\ \A p \in Path : mine.hash[p] = HashIn(Entries(l), p)
        /\ \A p \in Path : theirs.hash[p] = HashIn(Entries(o), p)
        /\ mine.version = Root.version /\ theirs.version = ConstructStructure(server).version
    BY <1>1 DEF Flattened, Root
  <1> HIDE DEF l, o
  <1>5. ~CompareFaults(l, o) /\ Added(l, o) = {}
    BY <1>1, <1>2, CoveredCompared
  <1>6. Met(l, o, <<>>) = {Beside(<<>>, e, o) : e \in Entries(l)}
    BY <1>1, <1>2, <1>3, MetIs
  <1> DEFINE At1(p) == [path |-> p, mine |-> mine.hash[p], theirs |-> theirs.hash[p]]
  <1>7. ASSUME NEW e \in Entries(l)
        PROVE  e.path \in Flat!Listed(mine) /\ Beside(<<>>, e, o) = At1(e.path)
    <2>1. e.path \in Path /\ e.hash \in Hash
      BY <1>1 DEF Index!Entry
    <2>2. mine.hash[e.path] = e.hash
      BY <1>1, <1>4, <2>1, HashOf
    <2>3. e.hash # None
      BY <2>1, LayerAssumption
    <2>4. <<>> \o e.path = e.path
      BY <2>1, PathOf DEF AnyPath
    <2>5. theirs.hash[e.path] = HashIn(Entries(o), e.path)
      BY <1>4, <2>1
    <2>6. QED BY <2>1, <2>2, <2>3, <2>4, <2>5 DEF Flat!Listed, Beside
  <1>8. ASSUME NEW p \in Flat!Listed(mine)
        PROVE  \E e \in Entries(l) : e.path = p
    BY <1>4 DEF Flat!Listed, HashIn
  <1>9. {Beside(<<>>, e, o) : e \in Entries(l)} = {At1(p) : p \in Flat!Listed(mine)}
    <2> HIDE DEF At1
    <2>1. QED BY <1>7, <1>8
  <1>10. QED BY <1>4, <1>5, <1>6, <1>9 DEF l, o, Flat!SameVersion

-----------------------------------------------------------------------------
(* update of covered trees is update of flat folders.                      *)

(* What is read of the lines for a path.                                   *)
LEMMA LinesStand ==
  ASSUME NEW lines, NEW p \in Path, NEW line,
         AreLine({l \in lines : l.path = p}, p, line)
  PROVE  LinesAsStore(lines)[p] = line
  <1>1. LinesAsStore(lines)[p] =
          IF \E l \in lines : l.path = p
          THEN [mode |-> (CHOOSE l \in lines : l.path = p).mode,
                new |-> (CHOOSE l \in lines : l.path = p).new]
          ELSE None
    BY DEF LinesAsStore
  <1>2. CASE {l \in lines : l.path = p} = {} /\ line = None
    <2>1. ~\E l \in lines : l.path = p
      BY <1>2
    <2>2. QED BY <1>1, <1>2, <2>1
  <1>3. CASE \E l : /\ {k \in lines : k.path = p} = {l}
                    /\ line = [mode |-> l.mode, new |-> l.new]
    <2>1. PICK l : {k \in lines : k.path = p} = {l} /\ line = [mode |-> l.mode, new |-> l.new]
      BY <1>3
    <2>2. l \in lines /\ l.path = p /\ \A k \in lines : k.path = p => k = l
      BY <2>1
    <2>3. (CHOOSE k \in lines : k.path = p) = l
      BY <2>2
    <2>4. QED BY <1>1, <2>1, <2>2, <2>3
  <1>4. QED BY <1>2, <1>3 DEF AreLine

(* The answers of the user to update are answers to Store.                 *)
LEMMA UpdateOfCovered ==
  ASSUME TreeInv, Update, Ordinary(manifest), Covered
  PROVE  \E mine \in {Flattened(manifest)}, theirs \in {Flattened(server)} :
           \E answer \in [Flat!Conflict(mine, theirs, disk) -> Flat!Answers] :
             LinesAsStore(update') = Flat!UpdateLines(mine, theirs, disk, answer)
  <1> DEFINE tree == ConstructStructure(server)
             same == Root.version = tree.version
             met == Met(Root.kids, tree.kids, <<>>)
             added == IF same THEN {} ELSE Added(Root.kids, tree.kids)
             Given(answer, m) == IF Asked(m, same) THEN answer[m] ELSE "other"
             Lines(answer, m) == LinesFor(m, same, Given(answer, m))
  <1>1. Parses /\ \E answer \in [{m \in met : Asked(m, same)} -> Flat!Answers] :
          update' = IF CompareFaults(Root.kids, tree.kids) THEN {}
                    ELSE (UNION {Lines(answer, m) : m \in met}) \cup added
    BY DEF Update
  <1>2. PICK given \in [{m \in met : Asked(m, same)} -> Flat!Answers] :
          update' = IF CompareFaults(Root.kids, tree.kids) THEN {}
                    ELSE (UNION {Lines(given, m) : m \in met}) \cup added
    BY <1>1
  <1>3. PICK mine, theirs : mine = Flattened(manifest) /\ theirs = Flattened(server)
    OBVIOUS
  <1> DEFINE At1(p) == [path |-> p, mine |-> mine.hash[p], theirs |-> theirs.hash[p]]
  <1>4. /\ met = {At1(p) : p \in Flat!Listed(mine)}
        /\ ~CompareFaults(Root.kids, tree.kids) /\ added = {}
        /\ same <=> Flat!SameVersion(mine, theirs)
    BY <1>1, <1>3, MetFlat
  <1> HIDE DEF added, met, tree
  <1>5. update' = UNION {Lines(given, m) : m \in met}
    BY <1>2, <1>4
  <1>6. \A p \in Flat!Listed(mine) : p \in Path /\ mine.hash[p] # None
    BY DEF Flat!Listed
  <1>7. ASSUME NEW p \in Path
        PROVE  Flat!Md5(disk[p]) # None
    BY DiskHash, LayerAssumption
  <1>8. ASSUME NEW p
        PROVE  /\ At1(p).path = p /\ At1(p).mine = mine.hash[p] /\ At1(p).theirs = theirs.hash[p]
    OBVIOUS
  <1> HIDE DEF At1
  <1>9. ASSUME NEW p \in Path, mine.hash[p] # None
        PROVE  Asked(At1(p), same) <=> p \in Flat!Conflict(mine, theirs, disk)
    <2>1. Asked(At1(p), same) <=> /\ theirs.hash[p] # None /\ ~same /\ mine.hash[p] # theirs.hash[p]
                                  /\ Flat!Md5(disk[p]) # mine.hash[p]
      BY <1>8 DEF Asked, Edited
    <2>2. p \in Flat!OnBoth(mine, theirs) <=> theirs.hash[p] # None
      BY <1>9 DEF Flat!OnBoth, Flat!Listed
    <2>3. QED BY <1>4, <2>1, <2>2 DEF Flat!Conflict, Flat!Outdated, Flat!Edited
  <1>10. \A p \in Flat!Conflict(mine, theirs, disk) : p \in Flat!Listed(mine)
    BY DEF Flat!Conflict, Flat!Outdated, Flat!OnBoth
  <1> DEFINE answer == [p \in Flat!Conflict(mine, theirs, disk) |-> given[At1(p)]]
  <1>11. answer \in [Flat!Conflict(mine, theirs, disk) -> Flat!Answers]
    <2>1. ASSUME NEW p \in Flat!Conflict(mine, theirs, disk)
          PROVE  given[At1(p)] \in Flat!Answers
      <3>1. At1(p) \in met /\ Asked(At1(p), same)
        BY <1>4, <1>6, <1>9, <1>10
      <3> HIDE DEF same
      <3>2. QED BY <3>1
    <2>2. QED BY <2>1
  <1>12. ASSUME NEW p \in Path
         PROVE  AreLine({l \in update' : l.path = p}, p,
                        Flat!UpdateLines(mine, theirs, disk, answer)[p])
    <2>1. ASSUME NEW q \in Flat!Listed(mine), NEW l \in Lines(given, At1(q))
          PROVE  l.path = q
      BY <1>6, <1>8, <2>1, LinesKnown
    <2> HIDE DEF Lines, answer
    <2>2. CASE p \in Flat!Listed(mine)
      <3>1. {l \in update' : l.path = p} = Lines(given, At1(p))
        BY <1>4, <1>5, <2>1, <2>2
      <3>2. Asked(At1(p), same) => Given(given, At1(p)) = answer[p]
        BY <1>6, <1>9, <2>2 DEF answer
      <3>3. AreLine(Lines(given, At1(p)), p, Flat!UpdateLines(mine, theirs, disk, answer)[p])
        <4>1. PICK m, asked, s : m = At1(p) /\ asked = Given(given, At1(p)) /\ s = same
          OBVIOUS
        <4>2. m.path = p /\ m.mine = mine.hash[p] /\ m.theirs = theirs.hash[p] /\ m.mine # None
          BY <1>6, <1>8, <2>2, <4>1
        <4>3. (s = Flat!SameVersion(mine, theirs)) /\ (Asked(m, s) => asked = answer[p])
          BY <1>4, <3>2, <4>1 DEF Flat!SameVersion
        <4> HIDE DEF same, Given
        <4>4. AreLine(LinesFor(m, s, asked), p, Flat!UpdateLines(mine, theirs, disk, answer)[p])
          BY <1>7, <4>2, <4>3, LinesAre
        <4>5. QED BY <4>1, <4>4 DEF Lines
      <3>4. QED BY <3>1, <3>3
    <2>3. CASE p \notin Flat!Listed(mine)
      <3>1. {l \in update' : l.path = p} = {}
        BY <1>4, <1>5, <2>1, <2>3
      <3>2. mine.hash[p] = None
        BY <2>3 DEF Flat!Listed
      <3>3. Flat!UpdateLines(mine, theirs, disk, answer)[p] = None
        BY <3>2, FlatCases
      <3>4. QED BY <3>1, <3>3 DEF AreLine
    <2>4. QED BY <2>2, <2>3
  <1> HIDE DEF answer
  <1>13. \A p \in Path : LinesAsStore(update')[p] = Flat!UpdateLines(mine, theirs, disk, answer)[p]
    BY <1>12, LinesStand
  <1>14. LinesAsStore(update') = Flat!UpdateLines(mine, theirs, disk, answer)
    <2> DEFINE a == LinesAsStore(update')
               b == Flat!UpdateLines(mine, theirs, disk, answer)
    <2>1. a = [p \in Path |-> a[p]]
      BY DEF LinesAsStore
    <2>2. b = [p \in Path |-> b[p]]
      BY DEF Flat!UpdateLines
    <2> HIDE DEF a, b
    <2>3. \A p \in Path : a[p] = b[p]
      BY <1>13 DEF a, b
    <2>4. a = b
      BY <2>1, <2>2, <2>3
    <2>5. QED BY <2>4 DEF a, b
  <1>15. QED BY <1>3, <1>11, <1>14

(* Where every file and folder of the server is one of the client's as     *)
(* well, update writes the lines that the comparison of two flat folders   *)
(* gives, so what WTF shows of .Update for a flat project holds for trees  *)
(* (compare_client_server_diff).                                           *)
THEOREM UpdateAlwaysAsFlat == Spec => UpdateAsFlat
  <1>1. TreeInv /\ [Next]_vars =>
          [Update /\ Ordinary(manifest) /\ Covered =>
             \E mine \in {Flattened(manifest)}, theirs \in {Flattened(server)} :
               \E answer \in [Flat!Conflict(mine, theirs, disk) -> Flat!Answers] :
                 LinesAsStore(update') = Flat!UpdateLines(mine, theirs, disk, answer)]_vars
    BY UpdateOfCovered
  <1>2. QED BY <1>1, TreeAlways, PTL DEF Spec, UpdateAsFlat
=============================================================================
