--------------------------- MODULE FdStruct_proof ---------------------------
(***************************************************************************)
(* The text of a .Manifest gives back the tree it was written from, and    *)
(* the two ways to look up a node agree, for trees of any size.  Trees are *)
(* finite, so both rest on induction, which is derived here from the fact  *)
(* that the natural numbers are well founded: first that a recursive       *)
(* definition has the value its equation gives, then what the value is.    *)
(***************************************************************************)
EXTENDS FdStruct, WellFoundedInduction, TLAPS

-----------------------------------------------------------------------------
(* Induction and recursion over the natural numbers.                       *)

(* Every set of natural numbers has a least element.                       *)
LEMMA LeastOf ==
  ASSUME NEW T, T \subseteq Nat, T # {}
  PROVE  \E m \in T : \A k \in T : m <= k
  <1> DEFINE R == OpToRel(<, Nat)
  <1>1. IsWellFoundedOn(R, Nat)
    BY NatLessThanWellFounded
  <1>2. ASSUME NEW k \in Nat, NEW m \in Nat
        PROVE  <<k, m>> \in R <=> k < m
    BY DEF OpToRel
  <1> HIDE DEF R
  <1>3. PICK m \in T : \A k \in T : ~(<<k, m>> \in R)
    BY <1>1, WFMin
  <1>4. ASSUME NEW k \in T
        PROVE  m <= k
    <2>1. k \in Nat /\ m \in Nat
      OBVIOUS
    <2>2. ~(k < m)
      BY <2>1, <1>2, <1>3
    <2>3. QED BY <2>1, <2>2
  <1>5. QED BY <1>4

(* Induction on the natural numbers.                                       *)
LEMMA FromZero ==
  ASSUME NEW S, 0 \in S, \A n \in Nat : n \in S => n + 1 \in S
  PROVE  Nat \subseteq S
  <1> DEFINE T == {n \in Nat : n \notin S}
  <1>1. SUFFICES ASSUME T # {} PROVE FALSE
    OBVIOUS
  <1>2. PICK m \in T : \A k \in T : m <= k
    BY <1>1, LeastOf
  <1>3. m \in Nat \ {0}
    BY <1>2
  <1>4. m - 1 \in Nat /\ m - 1 \notin T
    BY <1>2, <1>3
  <1>5. m - 1 \in S
    BY <1>4
  <1>6. m \in S
    BY <1>3, <1>4, <1>5
  <1>7. QED BY <1>6, <1>2

(* A definition by recursion, f[x] = F[x][f], and its solution.            *)
Recursion(D, V) == [D -> [[D -> V] -> V]]
IsSolution(f, F, D, V) == f \in [D -> V] /\ \A x \in D : f[x] = F[x][f]

(* The value at x needs the values at arguments of a smaller rank only.    *)
Decreases(rank, F, D, V) ==
  /\ rank \in [D -> Nat]
  /\ \A x \in D : \A g, h \in [D -> V] :
       (\A y \in D : rank[y] < rank[x] => g[y] = h[y]) => F[x][g] = F[x][h]

(* A recursive definition has a solution when each value depends only on   *)
(* values of smaller rank.                                                 *)
LEMMA RecursionHasSolution ==
  ASSUME NEW D, NEW V, V # {}, NEW F \in Recursion(D, V),
         NEW rank, Decreases(rank, F, D, V)
  PROVE  \E f : IsSolution(f, F, D, V)
  <1> PICK start \in V : TRUE
    OBVIOUS
  <1> USE DEF Recursion, Decreases, IsSolution
  <1> DEFINE Solves(f, n) == \A x \in D : rank[x] < n => f[x] = F[x][f]
             S == {n \in Nat : \E f \in [D -> V] : Solves(f, n)}
  <1>1. 0 \in S
    <2>1. [x \in D |-> start] \in [D -> V]
      OBVIOUS
    <2>2. Solves([x \in D |-> start], 0)
      OBVIOUS
    <2>3. QED BY <2>1, <2>2
  <1>2. ASSUME NEW n \in Nat, n \in S
        PROVE  n + 1 \in S
    <2>1. PICK f \in [D -> V] : Solves(f, n)
      BY <1>2
    <2> DEFINE g == [x \in D |-> F[x][f]]
    <2>2. g \in [D -> V]
      OBVIOUS
    <2>3. ASSUME NEW x \in D, rank[x] < n + 1
          PROVE  g[x] = F[x][g]
      <3>1. \A y \in D : rank[y] < rank[x] => f[y] = g[y]
        BY <2>1, <2>3
      <3> HIDE DEF g
      <3>2. F[x][f] = F[x][g]
        BY <3>1, <2>2
      <3>3. QED BY <3>2 DEF g
    <2> HIDE DEF g
    <2>4. QED BY <2>2, <2>3
  <1>3. ASSUME NEW n \in Nat, NEW f \in [D -> V], NEW g \in [D -> V],
               Solves(f, n), Solves(g, n), NEW x \in D, rank[x] < n
        PROVE  f[x] = g[x]
    <2> DEFINE T == {k \in Nat : \E y \in D : rank[y] = k /\ k < n /\ f[y] # g[y]}
    <2>1. SUFFICES ASSUME f[x] # g[x] PROVE FALSE
      OBVIOUS
    <2>2. rank[x] \in T
      BY <2>1, <1>3
    <2>3. PICK m \in T : \A k \in T : m <= k
      <3>1. T \subseteq Nat /\ T # {}
        BY <2>2
      <3> HIDE DEF T
      <3>2. QED BY <3>1, LeastOf
    <2>4. PICK y \in D : rank[y] = m /\ m < n /\ f[y] # g[y]
      BY <2>3
    <2>5. \A z \in D : rank[z] < rank[y] => f[z] = g[z]
      BY <2>3, <2>4
    <2>6. F[y][f] = F[y][g]
      BY <2>5
    <2>7. QED BY <2>4, <2>6, <1>3
  <1>4. \A n \in Nat : \E f \in [D -> V] : Solves(f, n)
    <2>1. Nat \subseteq S
      <3> HIDE DEF S
      <3>1. QED BY <1>1, <1>2, FromZero
    <2>2. QED BY <2>1
  <1> DEFINE h == [n \in Nat |-> CHOOSE f \in [D -> V] : Solves(f, n)]
  <1>5. ASSUME NEW n \in Nat
        PROVE  h[n] \in [D -> V] /\ Solves(h[n], n)
    BY <1>4
  <1> DEFINE f == [x \in D |-> h[rank[x] + 1][x]]
  <1> HIDE DEF h
  <1>6. f \in [D -> V]
    BY <1>5
  <1>7. ASSUME NEW x \in D
        PROVE  f[x] = F[x][f]
    <2> DEFINE n == rank[x] + 1
    <2>1. n \in Nat /\ rank[x] < n
      OBVIOUS
    <2>2. h[n] \in [D -> V] /\ Solves(h[n], n)
      BY <2>1, <1>5
    <2>3. ASSUME NEW y \in D, rank[y] < rank[x]
          PROVE  f[y] = h[n][y]
      <3> DEFINE k == rank[y] + 1
      <3>1. k \in Nat /\ rank[y] < k /\ k <= n
        BY <2>3
      <3>2. h[k] \in [D -> V] /\ Solves(h[k], k)
        BY <3>1, <1>5
      <3>3. Solves(h[n], k)
        BY <2>2, <3>1
      <3>4. h[k][y] = h[n][y]
        BY <3>1, <3>2, <3>3, <2>2, <1>3
      <3>5. QED BY <3>4
    <2> HIDE DEF f
    <2>4. F[x][f] = F[x][h[n]]
      BY <2>2, <2>3, <1>6
    <2>5. f[x] = h[n][x]
      BY DEF f
    <2>6. QED BY <2>1, <2>2, <2>4, <2>5
  <1>8. QED BY <1>6, <1>7

-----------------------------------------------------------------------------
(* Layers of layers: what their depth says, and induction on it.           *)

(* So the definition of LayersOf has one ...                               *)
LEMMA LayersOfHasSolution ==
  \E f : f = [n \in Nat |-> IF n = 0 THEN {<<>>} ELSE Seq(Node(f[n - 1]))]
  <1> DEFINE Value(g, i) == IF i = 0 THEN {<<>>} ELSE Seq(Node(g[i - 1]))
             Solves(g, n) == \A i \in 0..n : g[i] = Value(g, i)
             S == {n \in Nat : \E g : Solves(g, n)}
  <1>1. 0 \in S
    <2> DEFINE g == [i \in 0..0 |-> {<<>>}]
    <2>1. Solves(g, 0)
      OBVIOUS
    <2>2. QED BY <2>1
  <1>2. ASSUME NEW n \in Nat, n \in S
        PROVE  n + 1 \in S
    <2>1. PICK g : Solves(g, n)
      BY <1>2
    <2> DEFINE h == [i \in 0..n + 1 |-> IF i <= n THEN g[i] ELSE Seq(Node(g[n]))]
    <2>2. ASSUME NEW i \in 0..n + 1
          PROVE  h[i] = Value(h, i)
      <3>1. CASE i = 0
        BY <2>1, <3>1
      <3>2. CASE i \in 1..n
        <4>1. h[i - 1] = g[i - 1] /\ h[i] = g[i]
          BY <3>2
        <4>2. g[i] = Value(g, i)
          BY <2>1, <3>2
        <4>3. QED BY <4>1, <4>2, <3>2
      <3>3. CASE i = n + 1
        <4>1. h[i - 1] = g[n]
          BY <3>3
        <4>2. QED BY <3>3, <4>1
      <3>4. QED BY <3>1, <3>2, <3>3
    <2> HIDE DEF h
    <2>3. QED BY <2>2
  <1>3. \A n \in Nat : \E g : Solves(g, n)
    <2>1. Nat \subseteq S
      <3> HIDE DEF S
      <3>1. QED BY <1>1, <1>2, FromZero
    <2>2. QED BY <2>1
  <1>4. ASSUME NEW m \in Nat, NEW n \in Nat, NEW g, NEW h, Solves(g, m), Solves(h, n)
        PROVE  \A i \in Nat : i <= m /\ i <= n => g[i] = h[i]
    <2> DEFINE T == {i \in Nat : i <= m /\ i <= n => g[i] = h[i]}
    <2>1. 0 \in T
      BY <1>4
    <2>2. ASSUME NEW i \in Nat, i \in T
          PROVE  i + 1 \in T
      <3>1. SUFFICES ASSUME i + 1 <= m, i + 1 <= n
                     PROVE  g[i + 1] = h[i + 1]
        OBVIOUS
      <3>2. g[i] = h[i]
        BY <2>2, <3>1
      <3>3. i + 1 \in 0..m /\ i + 1 \in 0..n
        BY <3>1
      <3>4. Value(g, i + 1) = Value(h, i + 1)
        BY <3>2
      <3>5. QED BY <3>3, <3>4, <1>4
    <2>3. Nat \subseteq T
      <3> HIDE DEF T
      <3>1. QED BY <2>1, <2>2, FromZero
    <2>4. QED BY <2>3
  <1> DEFINE h == [n \in Nat |-> CHOOSE g : Solves(g, n)]
  <1>5. ASSUME NEW n \in Nat
        PROVE  Solves(h[n], n)
    BY <1>3
  <1> DEFINE f == [n \in Nat |-> h[n][n]]
  <1> HIDE DEF h
  <1>6. ASSUME NEW n \in Nat
        PROVE  f[n] = Value(f, n)
    <2>1. CASE n = 0
      <3>1. Solves(h[0], 0) /\ 0 \in 0..0
        BY <1>5
      <3>2. QED BY <2>1, <3>1
    <2>2. CASE n # 0
      <3>1. n - 1 \in Nat /\ n - 1 <= n /\ Solves(h[n - 1], n - 1) /\ Solves(h[n], n)
        BY <2>2, <1>5
      <3>2. h[n - 1][n - 1] = h[n][n - 1]
        <4> HIDE DEF Solves
        <4>1. \A i \in Nat : i <= n - 1 /\ i <= n => h[n - 1][i] = h[n][i]
          BY <3>1, <1>4
        <4>2. QED BY <3>1, <4>1
      <3>3. n \in 0..n
        OBVIOUS
      <3>4. h[n][n] = Value(h[n], n)
        BY <3>1, <3>3
      <3>5. QED BY <2>2, <3>1, <3>2, <3>4
    <2>3. QED BY <2>1, <2>2
  <1>7. f = [n \in Nat |-> f[n]]
    OBVIOUS
  <1> HIDE DEF f
  <1>8. f = [n \in Nat |-> Value(f, n)]
    BY <1>6, <1>7
  <1>9. QED BY <1>8

(* ... and LayersOf has the value its equation gives.                      *)
LEMMA LayersOfDef ==
  /\ LayersOf[0] = {<<>>}
  /\ \A n \in Nat : LayersOf[n + 1] = Seq(Node(LayersOf[n]))
  <1>1. LayersOf = [n \in Nat |-> IF n = 0 THEN {<<>>} ELSE Seq(Node(LayersOf[n - 1]))]
    BY LayersOfHasSolution DEF LayersOf
  <1>2. \A n \in Nat : LayersOf[n] = IF n = 0 THEN {<<>>} ELSE Seq(Node(LayersOf[n - 1]))
    BY <1>1, Zenon
  <1>3. LayersOf[0] = {<<>>}
    BY <1>2
  <1>4. ASSUME NEW n \in Nat
        PROVE  LayersOf[n + 1] = Seq(Node(LayersOf[n]))
    <2>1. n + 1 \in Nat /\ n + 1 # 0 /\ (n + 1) - 1 = n
      OBVIOUS
    <2>2. QED BY <1>2, <2>1
  <1>5. QED BY <1>3, <1>4

(* A layer of some depth is one of any greater depth.                      *)
LEMMA LayersGrow ==
  ASSUME NEW m \in Nat, NEW n \in Nat, m <= n
  PROVE  LayersOf[m] \subseteq LayersOf[n]
  <1> DEFINE S == {k \in Nat : LayersOf[k] \subseteq LayersOf[k + 1]}
             T == {k \in Nat : LayersOf[m] \subseteq LayersOf[m + k]}
  <1>1. 0 \in S
    <2>1. <<>> \in Seq(Node(LayersOf[0]))
      OBVIOUS
    <2>2. LayersOf[0 + 1] = Seq(Node(LayersOf[0]))
      BY LayersOfDef
    <2>3. QED BY <2>1, <2>2, LayersOfDef
  <1>2. ASSUME NEW k \in Nat, k \in S
        PROVE  k + 1 \in S
    <2>1. Node(LayersOf[k]) \subseteq Node(LayersOf[k + 1])
      BY <1>2 DEF Node
    <2>2. Seq(Node(LayersOf[k])) \subseteq Seq(Node(LayersOf[k + 1]))
      BY <2>1
    <2>3. LayersOf[k + 1] = Seq(Node(LayersOf[k])) /\ LayersOf[(k + 1) + 1] = Seq(Node(LayersOf[k + 1]))
      BY LayersOfDef
    <2>4. QED BY <2>2, <2>3
  <1>3. Nat \subseteq S
    <2> HIDE DEF S
    <2>1. QED BY <1>1, <1>2, FromZero
  <1>4. Nat \subseteq T
    <2>1. 0 \in T
      OBVIOUS
    <2>2. ASSUME NEW k \in Nat, k \in T
          PROVE  k + 1 \in T
      <3>1. LayersOf[m + k] \subseteq LayersOf[(m + k) + 1]
        BY <1>3
      <3>2. (m + k) + 1 = m + (k + 1)
        OBVIOUS
      <3>3. QED BY <2>2, <3>1, <3>2
    <2> HIDE DEF T
    <2>3. QED BY <2>1, <2>2, FromZero
  <1>5. n - m \in T /\ m + (n - m) = n
    BY <1>4
  <1>6. QED BY <1>5

(* The children of a node lie in a layer of a smaller depth.               *)
LEMMA KidsOf ==
  ASSUME NEW n \in Nat, NEW layer \in LayersOf[n]
  PROVE  /\ layer \in Seq(Node(AnyLayer)) \/ n > MaxDepth
         /\ \A i \in DOMAIN layer :
              /\ n # 0
              /\ layer[i] \in Node(LayersOf[n - 1])
              /\ layer[i].kids \in LayersOf[n - 1]
         /\ layer # <<>> => Tail(layer) \in LayersOf[n] /\ Head(layer) = layer[1]
  <1>1. CASE n = 0
    <2>1. layer = <<>>
      BY <1>1, LayersOfDef
    <2>2. QED BY <2>1
  <1>2. CASE n # 0
    <2>1. n - 1 \in Nat /\ (n - 1) + 1 = n
      BY <1>2
    <2>2. layer \in Seq(Node(LayersOf[n - 1])) /\ LayersOf[n] = Seq(Node(LayersOf[n - 1]))
      BY <2>1, LayersOfDef
    <2>3. \A node \in Node(LayersOf[n - 1]) : node.kids \in LayersOf[n - 1]
      BY DEF Node
    <2>4. \A i \in DOMAIN layer : layer[i] \in Node(LayersOf[n - 1])
      BY <2>2
    <2>5. n <= MaxDepth => LayersOf[n - 1] \subseteq LayersOf[MaxDepth]
      BY <2>1, LayersGrow, LayerAssumption
    <2>6. n <= MaxDepth => layer \in Seq(Node(AnyLayer))
      <3>1. SUFFICES ASSUME n <= MaxDepth PROVE layer \in Seq(Node(AnyLayer))
        OBVIOUS
      <3>2. Node(LayersOf[n - 1]) \subseteq Node(AnyLayer)
        BY <2>5, <3>1 DEF Node, AnyLayer
      <3>3. QED BY <2>2, <3>2
    <2>7. layer # <<>> => Tail(layer) \in LayersOf[n] /\ Head(layer) = layer[1]
      BY <2>2
    <2>8. QED BY <1>2, <2>3, <2>4, <2>6, <2>7, LayerAssumption
  <1>3. QED BY <1>1, <1>2

(* The nodes of a layer, and their children.                               *)
LEMMA AnyLayerKids ==
  ASSUME NEW layer \in AnyLayer
  PROVE  /\ layer \in Seq(AnyNode)
         /\ <<>> \in AnyLayer
         /\ \A i \in DOMAIN layer : layer[i] \in AnyNode /\ layer[i].kids \in AnyLayer
         /\ layer # <<>> => /\ Tail(layer) \in AnyLayer
                            /\ Head(layer) \in AnyNode /\ Head(layer).kids \in AnyLayer
  <1>1. MaxDepth \in Nat
    BY LayerAssumption
  <1>2. layer \in Seq(AnyNode)
    BY <1>1, KidsOf DEF AnyLayer, AnyNode
  <1>3. <<>> \in AnyLayer
    <2>1. LayersOf[0] \subseteq LayersOf[MaxDepth]
      BY <1>1, LayersGrow
    <2>2. QED BY <2>1, LayersOfDef DEF AnyLayer
  <1>4. \A i \in DOMAIN layer : layer[i] \in AnyNode
    BY <1>2
  <1>5. \A node \in AnyNode : node.kids \in AnyLayer
    BY DEF AnyNode, Node
  <1>6. layer # <<>> => Tail(layer) \in AnyLayer
    BY <1>1, KidsOf DEF AnyLayer
  <1>7. layer # <<>> => Head(layer) \in AnyNode
    BY <1>2
  <1>8. QED BY <1>2, <1>3, <1>4, <1>5, <1>6, <1>7

(* What holds of a layer when it holds of the children of its nodes holds  *)
(* of every layer.                                                         *)
LEMMA ByDepth ==
  ASSUME NEW S,
         \A layer \in AnyLayer : (\A i \in DOMAIN layer : layer[i].kids \in S) => layer \in S
  PROVE  AnyLayer \subseteq S
  <1> DEFINE T == {n \in Nat : n <= MaxDepth => LayersOf[n] \subseteq S}
  <1>1. \A n \in Nat : n <= MaxDepth => LayersOf[n] \subseteq AnyLayer
    BY LayersGrow, LayerAssumption DEF AnyLayer
  <1>2. 0 \in T
    <2>1. <<>> \in AnyLayer
      BY <1>1, LayersOfDef, LayerAssumption
    <2>2. <<>> \in S
      BY <2>1
    <2>3. QED BY <2>2, LayersOfDef
  <1>3. ASSUME NEW n \in Nat, n \in T
        PROVE  n + 1 \in T
    <2>1. SUFFICES ASSUME n + 1 <= MaxDepth, NEW layer \in LayersOf[n + 1]
                   PROVE  layer \in S
      OBVIOUS
    <2>2. LayersOf[n] \subseteq S
      BY <1>3, <2>1, LayerAssumption
    <2>3. \A i \in DOMAIN layer : layer[i].kids \in LayersOf[(n + 1) - 1]
      BY KidsOf
    <2>4. QED BY <1>1, <2>1, <2>2, <2>3
  <1>4. Nat \subseteq T
    <2> HIDE DEF T
    <2>1. QED BY <1>2, <1>3, FromZero
  <1>5. QED BY <1>4, LayerAssumption DEF AnyLayer

(* What holds of the empty layer, and of a layer when it holds of the      *)
(* children of its first node and of the rest, holds of every layer.       *)
LEMMA ByHeadAndTail ==
  ASSUME NEW S, <<>> \in S,
         \A layer \in AnyLayer \ {<<>>} :
           Head(layer).kids \in S /\ Tail(layer) \in S => layer \in S
  PROVE  AnyLayer \subseteq S
  <1>1. ASSUME NEW layer \in AnyLayer, \A i \in DOMAIN layer : layer[i].kids \in S
        PROVE  layer \in S
    <2> DEFINE Small(l) == \A i \in DOMAIN l : l[i].kids \in S
               T == {n \in Nat : \A l \in AnyLayer : Len(l) = n /\ Small(l) => l \in S}
    <2>1. 0 \in T
      <3>1. ASSUME NEW l \in AnyLayer, Len(l) = 0
            PROVE  l = <<>>
        BY <3>1, AnyLayerKids
      <3>2. QED BY <3>1
    <2>2. ASSUME NEW n \in Nat, n \in T
          PROVE  n + 1 \in T
      <3>1. SUFFICES ASSUME NEW l \in AnyLayer, Len(l) = n + 1, Small(l)
                     PROVE  l \in S
        OBVIOUS
      <3>2. l \in Seq(AnyNode) /\ l # <<>> /\ Tail(l) \in AnyLayer
        BY <3>1, AnyLayerKids
      <3>3. Head(l) = l[1] /\ 1 \in DOMAIN l /\ Len(Tail(l)) = n
        BY <3>1, <3>2
      <3>4. \A i \in DOMAIN Tail(l) : i + 1 \in DOMAIN l /\ Tail(l)[i] = l[i + 1]
        BY <3>2
      <3>5. Small(Tail(l))
        BY <3>1, <3>4
      <3>6. Tail(l) \in S
        BY <2>2, <3>2, <3>3, <3>5
      <3>7. QED BY <3>1, <3>2, <3>3, <3>6
    <2>3. Nat \subseteq T
      <3> HIDE DEF T
      <3>1. QED BY <2>1, <2>2, FromZero
    <2>4. Len(layer) \in Nat
      BY AnyLayerKids
    <2>5. QED BY <2>3, <2>4, <1>1
  <1>2. QED BY <1>1, ByDepth

-----------------------------------------------------------------------------
(* Every layer has a rank above that of what it is made of.                *)

(* The folder create makes is a layer.                                     *)
LEMMA EmptyLayer == <<>> \in AnyLayer
  <1>1. LayersOf[0] \subseteq LayersOf[MaxDepth]
    BY LayersGrow, LayerAssumption
  <1>2. QED BY <1>1, LayersOfDef DEF AnyLayer

(* The children of a node have a smaller rank than the layer it is in.     *)
LEMMA KidsRank ==
  \E rank \in [AnyLayer -> Nat] :
    \A layer \in AnyLayer : \A i \in DOMAIN layer : rank[layer[i].kids] < rank[layer]
  <1> DEFINE Depths(layer) == {n \in Nat : layer \in LayersOf[n]}
             Least(layer, n) == n \in Depths(layer) /\ \A m \in Depths(layer) : n <= m
             rank == [layer \in AnyLayer |-> CHOOSE n \in Nat : Least(layer, n)]
  <1>1. ASSUME NEW layer \in AnyLayer
        PROVE  rank[layer] \in Nat /\ Least(layer, rank[layer])
    <2>1. MaxDepth \in Depths(layer)
      BY LayerAssumption DEF AnyLayer
    <2>2. \E n \in Nat : Least(layer, n)
      <3>1. Depths(layer) \subseteq Nat /\ Depths(layer) # {}
        BY <2>1
      <3>2. \E n \in Depths(layer) : \A m \in Depths(layer) : n <= m
        <4> HIDE DEF Depths
        <4>1. QED BY <3>1, LeastOf
      <3>3. QED BY <3>2
    <2> HIDE DEF Least
    <2>3. QED BY <2>2
  <1>2. rank \in [AnyLayer -> Nat]
    <2>1. \A layer \in AnyLayer : rank[layer] \in Nat
      BY <1>1
    <2> HIDE DEF Least
    <2>2. rank = [layer \in AnyLayer |-> rank[layer]]
      OBVIOUS
    <2> HIDE DEF rank
    <2>3. QED BY <2>1, <2>2
  <1>3. ASSUME NEW layer \in AnyLayer, NEW i \in DOMAIN layer
        PROVE  rank[layer[i].kids] < rank[layer]
    <2> HIDE DEF rank
    <2> DEFINE n == rank[layer]
    <2>1. n \in Nat /\ layer \in LayersOf[n]
      BY <1>1
    <2>2. n # 0 /\ layer[i].kids \in LayersOf[n - 1]
      BY <2>1, KidsOf
    <2>3. layer[i].kids \in AnyLayer
      BY AnyLayerKids
    <2>4. n - 1 \in Depths(layer[i].kids)
      BY <2>1, <2>2
    <2>5. rank[layer[i].kids] \in Nat /\ rank[layer[i].kids] <= n - 1
      BY <1>1, <2>3, <2>4
    <2>6. QED BY <2>1, <2>2, <2>5
  <1> HIDE DEF rank
  <1>4. QED BY <1>2, <1>3

(* Both the children of the first node and the rest have a smaller rank.   *)
LEMMA HeadAndTailRank ==
  \E rank \in [AnyLayer -> Nat] :
    \A layer \in AnyLayer \ {<<>>} :
      rank[Head(layer).kids] < rank[layer] /\ rank[Tail(layer)] < rank[layer]
  <1> DEFINE Value(g, n) == {l \in AnyLayer : l = <<>> \/ (n # 0 /\ Head(l).kids \in g[n - 1]
                                                                /\ Tail(l) \in g[n - 1])}
             V == SUBSET AnyLayer
             F == [n \in Nat |-> [g \in [Nat -> V] |-> Value(g, n)]]
             id == [n \in Nat |-> n]
  <1>1. PICK small : small \in [Nat -> V] /\ \A n \in Nat : small[n] = F[n][small]
    <2>1. F \in Recursion(Nat, V) /\ V # {}
      BY DEF Recursion
    <2>2. ASSUME NEW n \in Nat, NEW g \in [Nat -> V], NEW h \in [Nat -> V],
                 \A m \in Nat : id[m] < id[n] => g[m] = h[m]
          PROVE  F[n][g] = F[n][h]
      <3>1. n # 0 => g[n - 1] = h[n - 1]
        BY <2>2
      <3>2. Value(g, n) = Value(h, n)
        BY <3>1
      <3>3. F[n][g] = Value(g, n) /\ F[n][h] = Value(h, n)
        OBVIOUS
      <3>4. QED BY <3>2, <3>3
    <2>3. id \in [Nat -> Nat]
      OBVIOUS
    <2> HIDE DEF F, id, V
    <2>4. Decreases(id, F, Nat, V)
      BY <2>2, <2>3 DEF Decreases
    <2>5. \E f : IsSolution(f, F, Nat, V)
      BY <2>1, <2>4, RecursionHasSolution
    <2>6. QED BY <2>5 DEF IsSolution
  <1>2. \A n \in Nat : small[n] = Value(small, n)
    BY <1>1
  <1>3. ASSUME NEW m \in Nat, NEW n \in Nat, m <= n
        PROVE  small[m] \subseteq small[n]
    <2> DEFINE T == {k \in Nat : \A j \in Nat : j <= k => small[j] \subseteq small[k]}
    <2>1. 0 \in T
      OBVIOUS
    <2>2. ASSUME NEW k \in Nat, k \in T
          PROVE  k + 1 \in T
      <3>1. SUFFICES ASSUME NEW j \in Nat, j <= k
                     PROVE  small[j] \subseteq small[k + 1]
        OBVIOUS
      <3>2. small[j] = Value(small, j) /\ small[k + 1] = Value(small, k + 1)
        BY <1>2
      <3>3. j # 0 => small[j - 1] \subseteq small[k]
        BY <2>2, <3>1
      <3>4. QED BY <3>2, <3>3
    <2>3. Nat \subseteq T
      <3> HIDE DEF T
      <3>1. QED BY <2>1, <2>2, FromZero
    <2>4. QED BY <2>3, <1>3
  <1> DEFINE S == {l \in AnyLayer : \E n \in Nat : l \in small[n]}
  <1>4. AnyLayer \subseteq S
    <2>1. ASSUME NEW l \in AnyLayer, l # <<>>, Head(l).kids \in S, Tail(l) \in S
          PROVE  l \in S
      <3>1. PICK m \in Nat : Head(l).kids \in small[m]
        BY <2>1
      <3>2. PICK n \in Nat : Tail(l) \in small[n]
        BY <2>1
      <3>3. PICK k \in Nat : m <= k /\ n <= k
        BY m <= n \/ n <= m
      <3>4. Head(l).kids \in small[k] /\ Tail(l) \in small[k]
        BY <3>1, <3>2, <3>3, <1>3
      <3>5. l \in Value(small, k + 1)
        BY <3>4
      <3>6. k + 1 \in Nat
        OBVIOUS
      <3>7. l \in small[k + 1]
        BY <3>5, <3>6, <1>2
      <3>8. QED BY <3>6, <3>7
    <2>2. <<>> \in S
      <3>2. <<>> \in AnyLayer
        BY EmptyLayer
      <3>3. <<>> \in Value(small, 0)
        BY <3>2
      <3>4. QED BY <3>2, <3>3, <1>2
    <2> HIDE DEF S
    <2>3. QED BY <2>1, <2>2, ByHeadAndTail
  <1> DEFINE Least(l, n) == l \in small[n] /\ \A m \in Nat : l \in small[m] => n <= m
             rank == [l \in AnyLayer |-> CHOOSE n \in Nat : Least(l, n)]
  <1>5. ASSUME NEW l \in AnyLayer
        PROVE  rank[l] \in Nat /\ Least(l, rank[l])
    <2> DEFINE T == {n \in Nat : l \in small[n]}
    <2>1. T \subseteq Nat /\ T # {}
      BY <1>4
    <2>2. \E n \in T : \A m \in T : n <= m
      <3> HIDE DEF T
      <3>1. QED BY <2>1, LeastOf
    <2>3. \E n \in Nat : Least(l, n)
      BY <2>2
    <2> HIDE DEF Least
    <2>4. QED BY <2>3
  <1>6. rank \in [AnyLayer -> Nat]
    <2>1. \A l \in AnyLayer : rank[l] \in Nat
      BY <1>5
    <2> HIDE DEF Least
    <2>2. rank = [l \in AnyLayer |-> rank[l]]
      OBVIOUS
    <2> HIDE DEF rank
    <2>3. QED BY <2>1, <2>2
  <1>7. ASSUME NEW l \in AnyLayer, l # <<>>
        PROVE  rank[Head(l).kids] < rank[l] /\ rank[Tail(l)] < rank[l]
    <2> HIDE DEF rank
    <2>1. rank[l] \in Nat /\ l \in Value(small, rank[l])
      BY <1>2, <1>5
    <2>2. rank[l] # 0 /\ rank[l] - 1 \in Nat
      BY <2>1, <1>7
    <2>3. Head(l).kids \in small[rank[l] - 1] /\ Tail(l) \in small[rank[l] - 1]
      BY <2>1, <1>7
    <2>4. Head(l).kids \in AnyLayer /\ Tail(l) \in AnyLayer
      BY <1>7, AnyLayerKids
    <2>5. rank[Head(l).kids] \in Nat /\ rank[Head(l).kids] <= rank[l] - 1
      BY <2>2, <2>3, <2>4, <1>5
    <2>6. rank[Tail(l)] \in Nat /\ rank[Tail(l)] <= rank[l] - 1
      BY <2>2, <2>3, <2>4, <1>5
    <2>7. QED BY <2>1, <2>5, <2>6
  <1> HIDE DEF rank
  <1>8. QED BY <1>6, <1>7

-----------------------------------------------------------------------------
(* The lines PrintFdStruct gives.                                          *)

(* PrintFdStruct has the value its equation gives: the first node, its     *)
(* children, its siblings.                                                 *)
LEMMA PrintDef ==
  ASSUME NEW layer \in AnyLayer, NEW begin \in Nat
  PROVE  /\ PrintFdStruct(layer, begin) \in Seq(AnyLine)
         /\ PrintFdStruct(layer, begin) =
              IF layer = <<>> THEN <<>>
              ELSE LET kids == PrintFdStruct(Head(layer).kids, begin + 1)
                       rest == PrintFdStruct(Tail(layer), begin + 1 + Len(kids))
                   IN <<LineOf(Head(layer), begin,
                               IF kids = <<>> THEN -1 ELSE begin + 1,
                               IF rest = <<>> THEN -1 ELSE begin + 1 + Len(kids))>> \o kids \o rest
  <1> DEFINE Lines(l, at, kids, rest) ==
               <<LineOf(Head(l), at,
                        IF kids = <<>> THEN -1 ELSE at + 1,
                        IF rest = <<>> THEN -1 ELSE at + 1 + Len(kids))>> \o kids \o rest
             Value(g, l) == [at \in Nat |->
               IF l = <<>> THEN <<>>
               ELSE Lines(l, at, g[Head(l).kids][at + 1],
                          g[Tail(l)][at + 1 + Len(g[Head(l).kids][at + 1])])]
             V == [Nat -> Seq(AnyLine)]
             D == AnyLayer
             F == [l \in D |-> [g \in [D -> V] |-> Value(g, l)]]
  <1>1. ASSUME NEW l \in D, NEW g, l # <<>> => g[Head(l).kids] \in V /\ g[Tail(l)] \in V
        PROVE  Value(g, l) \in V
    <2>1. ASSUME NEW at \in Nat, l # <<>>
          PROVE  Value(g, l)[at] \in Seq(AnyLine)
      <3> DEFINE kids == g[Head(l).kids][at + 1]
                 rest == g[Tail(l)][at + 1 + Len(kids)]
      <3>1. Head(l) \in AnyNode
        BY <2>1, AnyLayerKids
      <3>2. kids \in Seq(AnyLine)
        <4>1. g[Head(l).kids] \in [Nat -> Seq(AnyLine)] /\ at + 1 \in Nat
          <5>1. g[Head(l).kids] \in V
            <6> HIDE DEF V
            <6>1. QED BY <1>1, <2>1
          <5>2. at + 1 \in Nat
            OBVIOUS
          <5>3. QED BY <5>1, <5>2
        <4> DEFINE printed == g[Head(l).kids]
        <4> HIDE DEF printed
        <4>2. \A n \in Nat : printed[n] \in Seq(AnyLine)
          BY <4>1 DEF printed
        <4>3. QED BY <4>1, <4>2 DEF printed
      <3>3. at + 1 + Len(kids) \in Nat
        <4> HIDE DEF kids
        <4>1. QED BY <3>2
      <3>4. rest \in Seq(AnyLine)
        <4> HIDE DEF kids
        <4>1. QED BY <1>1, <2>1, <3>3
      <3> DEFINE line == LineOf(Head(l), at,
                                IF kids = <<>> THEN -1 ELSE at + 1,
                                IF rest = <<>> THEN -1 ELSE at + 1 + Len(kids))
      <3>5. ASSUME NEW h \in Int, NEW n \in Int
            PROVE  LineOf(Head(l), at, h, n) \in AnyLine
        BY <3>1 DEF LineOf, AnyLine, AnyNode, Node
      <3>6. Value(g, l)[at] = <<line>> \o kids \o rest
        BY <2>1
      <3> HIDE DEF kids, rest
      <3>7. line \in AnyLine
        <4>1. (IF kids = <<>> THEN -1 ELSE at + 1) \in Int
              /\ (IF rest = <<>> THEN -1 ELSE at + 1 + Len(kids)) \in Int
          BY <3>3
        <4>2. QED BY <3>5, <4>1
      <3> HIDE DEF line
      <3>8. <<line>> \o kids \o rest \in Seq(AnyLine)
        BY <3>2, <3>4, <3>7
      <3> HIDE DEF Value
      <3>9. QED BY <3>6, <3>8
    <2>2. ASSUME NEW at \in Nat, l = <<>>
          PROVE  Value(g, l)[at] \in Seq(AnyLine)
      BY <2>2
    <2>3. \A at \in Nat : Value(g, l)[at] \in Seq(AnyLine)
      BY <2>1, <2>2
    <2>4. Value(g, l) = [at \in Nat |-> Value(g, l)[at]]
      OBVIOUS
    <2> HIDE DEF Value
    <2>5. QED BY <2>3, <2>4
  <1>2. PICK f : f \in [D -> V] /\ \A l \in D : f[l] = F[l][f]
    <2>1. F \in Recursion(D, V) /\ V # {}
      <3>1. ASSUME NEW l \in D, NEW g \in [D -> V]
            PROVE  Value(g, l) \in V
        <4> HIDE DEF V, Value
        <4>1. l # <<>> => g[Head(l).kids] \in V /\ g[Tail(l)] \in V
          BY AnyLayerKids
        <4>2. QED BY <4>1, <1>1
      <3>2. [at \in Nat |-> <<>>] \in V
        OBVIOUS
      <3> HIDE DEF Value, V
      <3>3. QED BY <3>1, <3>2 DEF Recursion
    <2>2. PICK rank \in [D -> Nat] : \A l \in D \ {<<>>} :
            rank[Head(l).kids] < rank[l] /\ rank[Tail(l)] < rank[l]
      BY HeadAndTailRank
    <2>3. ASSUME NEW l \in D, NEW g \in [D -> V], NEW h \in [D -> V],
                 \A m \in D : rank[m] < rank[l] => g[m] = h[m]
          PROVE  F[l][g] = F[l][h]
      <3>1. l # <<>> => g[Head(l).kids] = h[Head(l).kids] /\ g[Tail(l)] = h[Tail(l)]
        BY <2>2, <2>3, AnyLayerKids
      <3>2. F[l][g] = Value(g, l) /\ F[l][h] = Value(h, l)
        BY DEF V
      <3>3. Value(g, l) = Value(h, l)
        <4>1. CASE l = <<>>
          BY <4>1
        <4>2. CASE l # <<>>
          BY <3>1, <4>2
        <4>3. QED BY <4>1, <4>2
      <3>4. QED BY <3>2, <3>3
    <2> HIDE DEF F, V, D
    <2>4. Decreases(rank, F, D, V)
      BY <2>2, <2>3 DEF Decreases
    <2>5. \E f : IsSolution(f, F, D, V)
      BY <2>1, <2>4, RecursionHasSolution
    <2>6. QED BY <2>5 DEF IsSolution
  <1> DEFINE print[l \in AnyLayer] == [at \in Nat |->
        IF l = <<>> THEN <<>>
        ELSE LET kids == print[Head(l).kids][at + 1]
                 rest == print[Tail(l)][at + 1 + Len(kids)]
             IN <<LineOf(Head(l), at,
                         IF kids = <<>> THEN -1 ELSE at + 1,
                         IF rest = <<>> THEN -1 ELSE at + 1 + Len(kids))>> \o kids \o rest]
  <1>3. f = [l \in AnyLayer |-> Value(f, l)]
    <2>1. \A l \in D : f[l] = Value(f, l)
      BY <1>2
    <2>2. f = [l \in D |-> f[l]]
      BY <1>2
    <2> HIDE DEF Value
    <2>3. QED BY <2>1, <2>2
  <1>4. print = [l \in AnyLayer |-> Value(print, l)]
    BY <1>3
  <1>5. \A l \in AnyLayer, at \in Nat : PrintFdStruct(l, at) = print[l][at]
    BY DEF PrintFdStruct
  <1> HIDE DEF print
  <1>6. \A l \in AnyLayer : print[l] = Value(print, l)
    <2> HIDE DEF Value
    <2>1. QED BY <1>4
  <1>7. AnyLayer \subseteq {l \in AnyLayer : print[l] \in V}
    <2> DEFINE S == {l \in AnyLayer : print[l] \in V}
    <2>1. ASSUME NEW l \in AnyLayer, l # <<>> => Head(l).kids \in S /\ Tail(l) \in S
          PROVE  l \in S
      <3> HIDE DEF V, Value
      <3>1. l # <<>> => print[Head(l).kids] \in V /\ print[Tail(l)] \in V
        BY <2>1
      <3>2. QED BY <3>1, <1>1, <1>6
    <2>2. <<>> \in S
      BY <2>1, EmptyLayer
    <2> HIDE DEF S
    <2>3. AnyLayer \subseteq S
      BY <2>1, <2>2, ByHeadAndTail
    <2>4. QED BY <2>3 DEF S
  <1>8. PrintFdStruct(layer, begin) \in Seq(AnyLine)
    BY <1>5, <1>7
  <1>9. CASE layer = <<>>
    <2>1. print[layer][begin] = <<>>
      BY <1>6, <1>9
    <2>2. QED BY <2>1, <1>5, <1>8, <1>9
  <1>10. CASE layer # <<>>
    <2> DEFINE kids == print[Head(layer).kids][begin + 1]
               rest == print[Tail(layer)][begin + 1 + Len(kids)]
    <2>1. print[layer][begin] = Lines(layer, begin, kids, rest)
      BY ZenonT(60), <1>6, <1>10
    <2>2. Head(layer).kids \in AnyLayer /\ Tail(layer) \in AnyLayer
      BY <1>10, AnyLayerKids
    <2>3. kids = PrintFdStruct(Head(layer).kids, begin + 1) /\ kids \in Seq(AnyLine)
      BY <2>2, <1>5, <1>7
    <2>4. begin + 1 + Len(kids) \in Nat
      BY <2>3
    <2>5. rest = PrintFdStruct(Tail(layer), begin + 1 + Len(kids))
      <3> HIDE DEF kids
      <3>1. QED BY <2>2, <2>4, <1>5
    <2>6. PrintFdStruct(layer, begin) = Lines(layer, begin, kids, rest)
      BY <2>1, <1>5
    <2> HIDE DEF kids, rest
    <2>7. QED BY <2>3, <2>5, <2>6, <1>8, <1>10
  <1>11. QED BY <1>9, <1>10

-----------------------------------------------------------------------------
(* The links of printed lines, and what following them gives.              *)

(* The lines of a layer printed from an index on carry the following       *)
(* indices, and link lines further down, among them.                       *)
LinksDown(lines, begin) ==
  \A i \in 1..Len(lines) :
    /\ lines[i].index = begin + i - 1
    /\ lines[i].head = -1 \/ lines[i].head \in begin + i..begin + Len(lines) - 1
    /\ lines[i].next = -1 \/ lines[i].next \in begin + i..begin + Len(lines) - 1

(* The three parts of such a sequence.                                     *)
LEMMA PartsOf ==
  ASSUME NEW T, NEW e \in T, NEW k \in Seq(T), NEW r \in Seq(T),
         NEW s, s = <<e>> \o k \o r
  PROVE  /\ s \in Seq(T)
         /\ Len(s) = 1 + Len(k) + Len(r)
         /\ s[1] = e
         /\ \A i \in 1..Len(k) : s[1 + i] = k[i]
         /\ \A i \in 1..Len(r) : s[1 + Len(k) + i] = r[i]
         /\ \A i \in 1..Len(s) :
              \/ i = 1
              \/ i - 1 \in 1..Len(k)
              \/ i - 1 - Len(k) \in 1..Len(r)
  <1> DEFINE t == <<e>> \o k
  <1>1. t \in Seq(T) /\ Len(t) = 1 + Len(k) /\ t[1] = e /\ \A i \in 1..Len(k) : t[1 + i] = k[i]
    OBVIOUS
  <1>2. Len(k) \in Nat /\ Len(r) \in Nat
    OBVIOUS
  <1> HIDE DEF t
  <1>3. s = t \o r
    BY DEF t
  <1>4. s \in Seq(T) /\ Len(s) = Len(t) + Len(r)
    BY <1>1, <1>3
  <1>5. \A i \in 1..Len(t) : s[i] = t[i]
    BY <1>1, <1>3
  <1>6. \A i \in 1..Len(r) : s[Len(t) + i] = r[i]
    BY <1>1, <1>3
  <1>7. QED BY <1>1, <1>2, <1>4, <1>5, <1>6

(* The three parts of what is printed for a layer that is not empty.       *)
LEMMA PrintedInParts ==
  ASSUME NEW layer \in AnyLayer \ {<<>>}, NEW begin \in Nat
  PROVE  LET kids == PrintFdStruct(Head(layer).kids, begin + 1)
             rest == PrintFdStruct(Tail(layer), begin + 1 + Len(kids))
             printed == PrintFdStruct(layer, begin)
             line == LineOf(Head(layer), begin,
                            IF kids = <<>> THEN -1 ELSE begin + 1,
                            IF rest = <<>> THEN -1 ELSE begin + 1 + Len(kids))
         IN /\ kids \in Seq(AnyLine) /\ rest \in Seq(AnyLine) /\ printed \in Seq(AnyLine)
            /\ Len(printed) = 1 + Len(kids) + Len(rest)
            /\ printed[1] = line
            /\ \A i \in 1..Len(kids) : printed[1 + i] = kids[i]
            /\ \A i \in 1..Len(rest) : printed[1 + Len(kids) + i] = rest[i]
            /\ \A i \in 1..Len(printed) :
                 \/ i = 1
                 \/ i - 1 \in 1..Len(kids)
                 \/ i - 1 - Len(kids) \in 1..Len(rest)
  <1> DEFINE kids == PrintFdStruct(Head(layer).kids, begin + 1)
             rest == PrintFdStruct(Tail(layer), begin + 1 + Len(kids))
             printed == PrintFdStruct(layer, begin)
             line == LineOf(Head(layer), begin,
                            IF kids = <<>> THEN -1 ELSE begin + 1,
                            IF rest = <<>> THEN -1 ELSE begin + 1 + Len(kids))
  <1>1. /\ Head(layer).kids \in AnyLayer /\ Tail(layer) \in AnyLayer
        /\ Head(layer) \in AnyNode /\ begin + 1 \in Nat
    BY AnyLayerKids
  <1>2. kids \in Seq(AnyLine)
    BY <1>1, PrintDef
  <1>3. begin + 1 + Len(kids) \in Nat
    <2> HIDE DEF kids
    <2>1. QED BY <1>2
  <1>4. rest \in Seq(AnyLine)
    <2> HIDE DEF kids
    <2>1. QED BY <1>1, <1>3, PrintDef
  <1>5. printed \in Seq(AnyLine)
    BY PrintDef
  <1>6. printed = <<line>> \o kids \o rest
    BY PrintDef
  <1>7. line \in AnyLine
    <2> HIDE DEF kids, rest
    <2>1. (IF kids = <<>> THEN -1 ELSE begin + 1) \in Int
          /\ (IF rest = <<>> THEN -1 ELSE begin + 1 + Len(kids)) \in Int
      BY <1>3
    <2>2. ASSUME NEW h \in Int, NEW n \in Int
          PROVE  LineOf(Head(layer), begin, h, n) \in AnyLine
      BY <1>1 DEF LineOf, AnyLine, AnyNode, Node
    <2>3. QED BY <2>1, <2>2
  <1> HIDE DEF kids, rest, printed, line
  <1>8. Len(printed) = 1 + Len(kids) + Len(rest)
        /\ printed[1] = line
        /\ (\A i \in 1..Len(kids) : printed[1 + i] = kids[i])
        /\ (\A i \in 1..Len(rest) : printed[1 + Len(kids) + i] = rest[i])
        /\ \A i \in 1..Len(printed) :
             \/ i = 1
             \/ i - 1 \in 1..Len(kids)
             \/ i - 1 - Len(kids) \in 1..Len(rest)
    BY <1>2, <1>4, <1>6, <1>7, PartsOf
  <1>9. QED BY <1>2, <1>4, <1>5, <1>8 DEF kids, rest, printed, line

(* All links that are printed lead down the text.                          *)
LEMMA PrintLinksDown ==
  ASSUME NEW layer \in AnyLayer, NEW begin \in Nat
  PROVE  /\ PrintFdStruct(layer, begin) = <<>> <=> layer = <<>>
         /\ LinksDown(PrintFdStruct(layer, begin), begin)
  <1> DEFINE Shape(l, b) == /\ PrintFdStruct(l, b) = <<>> <=> l = <<>>
                            /\ LinksDown(PrintFdStruct(l, b), b)
             S == {l \in AnyLayer : \A b \in Nat : Shape(l, b)}
  <1>1. <<>> \in S
    <2>1. ASSUME NEW b \in Nat
          PROVE  PrintFdStruct(<<>>, b) = <<>>
      BY PrintDef, EmptyLayer
    <2>2. QED BY <2>1, EmptyLayer DEF LinksDown
  <1>2. ASSUME NEW l \in AnyLayer \ {<<>>}, Head(l).kids \in S, Tail(l) \in S
        PROVE  l \in S
    <2>1. SUFFICES ASSUME NEW b \in Nat PROVE Shape(l, b)
      OBVIOUS
    <2> DEFINE kids == PrintFdStruct(Head(l).kids, b + 1)
               rest == PrintFdStruct(Tail(l), b + 1 + Len(kids))
               printed == PrintFdStruct(l, b)
               line == LineOf(Head(l), b,
                              IF kids = <<>> THEN -1 ELSE b + 1,
                              IF rest = <<>> THEN -1 ELSE b + 1 + Len(kids))
    <2>2. /\ kids \in Seq(AnyLine) /\ rest \in Seq(AnyLine) /\ printed \in Seq(AnyLine)
          /\ Len(printed) = 1 + Len(kids) + Len(rest)
          /\ printed[1] = line
          /\ \A i \in 1..Len(kids) : printed[1 + i] = kids[i]
          /\ \A i \in 1..Len(rest) : printed[1 + Len(kids) + i] = rest[i]
          /\ \A i \in 1..Len(printed) :
               \/ i = 1
               \/ i - 1 \in 1..Len(kids)
               \/ i - 1 - Len(kids) \in 1..Len(rest)
      BY PrintedInParts
    <2>3. LinksDown(kids, b + 1)
      BY <1>2
    <2>4. LinksDown(rest, b + 1 + Len(kids))
      <3>1. b + 1 + Len(kids) \in Nat
        <4> HIDE DEF kids
        <4>1. QED BY <2>2
      <3> HIDE DEF kids
      <3>2. QED BY <1>2, <3>1
    <2>5. /\ line.index = b
          /\ line.head = IF kids = <<>> THEN -1 ELSE b + 1
          /\ line.next = IF rest = <<>> THEN -1 ELSE b + 1 + Len(kids)
      BY DEF LineOf
    <2> HIDE DEF kids, rest, printed, line
    <2>6. Len(kids) \in Nat /\ Len(rest) \in Nat
          /\ Len(printed) = 1 + Len(kids) + Len(rest)
          /\ (kids # <<>> => Len(kids) > 0) /\ (rest # <<>> => Len(rest) > 0)
      BY <2>2
    <2>7. ASSUME NEW i \in 1..Len(printed)
          PROVE  /\ printed[i].index = b + i - 1
                 /\ printed[i].head = -1 \/ printed[i].head \in b + i..b + Len(printed) - 1
                 /\ printed[i].next = -1 \/ printed[i].next \in b + i..b + Len(printed) - 1
      <3>1. CASE i = 1
        BY <3>1, <2>2, <2>5, <2>6
      <3>2. CASE i - 1 \in 1..Len(kids)
        <4> DEFINE j == i - 1
        <4>1. j \in 1..Len(kids) /\ i = 1 + j
          BY <3>2
        <4> HIDE DEF j
        <4>2. printed[i] = kids[j]
          BY <2>2, <4>1
        <4>3. /\ kids[j].index = b + 1 + j - 1
              /\ kids[j].head = -1 \/ kids[j].head \in b + 1 + j..b + 1 + Len(kids) - 1
              /\ kids[j].next = -1 \/ kids[j].next \in b + 1 + j..b + 1 + Len(kids) - 1
          BY <4>1, <2>3 DEF LinksDown
        <4>4. \A n \in b + 1 + j..b + 1 + Len(kids) - 1 : n \in b + i..b + Len(printed) - 1
          BY <4>1, <2>6
        <4>5. b + 1 + j - 1 = b + i - 1
          BY <4>1, <2>6
        <4>6. QED BY <4>2, <4>3, <4>4, <4>5
      <3>3. CASE i - 1 - Len(kids) \in 1..Len(rest)
        <4> DEFINE j == i - 1 - Len(kids)
                   c == b + 1 + Len(kids)
        <4>1. j \in 1..Len(rest) /\ i = 1 + Len(kids) + j
          BY <3>3, <2>6
        <4> HIDE DEF j
        <4>2. printed[i] = rest[j]
          BY <2>2, <4>1
        <4>3. /\ rest[j].index = c + j - 1
              /\ rest[j].head = -1 \/ rest[j].head \in c + j..c + Len(rest) - 1
              /\ rest[j].next = -1 \/ rest[j].next \in c + j..c + Len(rest) - 1
          BY <4>1, <2>4 DEF LinksDown
        <4>4. \A n \in c + j..c + Len(rest) - 1 : n \in b + i..b + Len(printed) - 1
          BY <4>1, <2>6
        <4>5. c + j - 1 = b + i - 1
          BY <4>1, <2>6
        <4>6. QED BY <4>2, <4>3, <4>4, <4>5
      <3>4. QED BY <3>1, <3>2, <3>3, <2>2
    <2>8. printed # <<>>
      BY <2>2, <2>6
    <2>9. LinksDown(printed, b)
      BY <2>7 DEF LinksDown
    <2>10. QED BY <2>8, <2>9 DEF printed
  <1> HIDE DEF S
  <1>3. AnyLayer \subseteq S
    BY <1>1, <1>2, ByHeadAndTail
  <1>4. QED BY <1>3 DEF S

(* What reads the lines from the links reads the layer they were printed   *)
(* from.                                                                   *)
Relinks(f, lines, count) ==
  /\ f[-1] = <<>>
  /\ \A index \in 0..count - 1 :
       LET l == lines[index + 1]
       IN f[index] = <<[type |-> l.type, version |-> l.version, hash |-> l.hash,
                        name |-> l.name, kids |-> f[l.head]]>> \o f[l.next]

Holds(lines, count, layer, begin) ==
  LET printed == PrintFdStruct(layer, begin)
  IN /\ begin + Len(printed) <= count
     /\ \A i \in 1..Len(printed) : lines[begin + i] = printed[i]

(* Following the links gives the layer back, from whatever index on it is  *)
(* printed.                                                                *)
LEMMA RelinksLayer ==
  ASSUME NEW f, NEW lines, NEW count \in Nat, Relinks(f, lines, count),
         NEW layer \in AnyLayer, NEW begin \in Nat, Holds(lines, count, layer, begin)
  PROVE  f[IF layer = <<>> THEN -1 ELSE begin] = layer
  <1> DEFINE S == {l \in AnyLayer : \A b \in Nat :
                     Holds(lines, count, l, b) => f[IF l = <<>> THEN -1 ELSE b] = l}
  <1>1. <<>> \in S
    BY EmptyLayer DEF Relinks
  <1>2. ASSUME NEW l \in AnyLayer \ {<<>>}, Head(l).kids \in S, Tail(l) \in S
        PROVE  l \in S
    <2>1. SUFFICES ASSUME NEW b \in Nat, Holds(lines, count, l, b) PROVE f[b] = l
      OBVIOUS
    <2> DEFINE kids == PrintFdStruct(Head(l).kids, b + 1)
               rest == PrintFdStruct(Tail(l), b + 1 + Len(kids))
               printed == PrintFdStruct(l, b)
               line == LineOf(Head(l), b,
                              IF kids = <<>> THEN -1 ELSE b + 1,
                              IF rest = <<>> THEN -1 ELSE b + 1 + Len(kids))
    <2>2. /\ kids \in Seq(AnyLine) /\ rest \in Seq(AnyLine) /\ printed \in Seq(AnyLine)
          /\ Len(printed) = 1 + Len(kids) + Len(rest)
          /\ printed[1] = line
          /\ \A i \in 1..Len(kids) : printed[1 + i] = kids[i]
          /\ \A i \in 1..Len(rest) : printed[1 + Len(kids) + i] = rest[i]
      BY PrintedInParts
    <2>3. Head(l).kids \in AnyLayer /\ Tail(l) \in AnyLayer /\ Head(l) \in AnyNode
          /\ l \in Seq(AnyNode)
      BY AnyLayerKids
    <2>4. b + 1 + Len(kids) \in Nat
      <3> HIDE DEF kids
      <3>1. QED BY <2>2
    <2>5. f[line.head] = Head(l).kids
      <3>1. kids = <<>> <=> Head(l).kids = <<>>
        BY <2>3, PrintLinksDown
      <3>2. Holds(lines, count, Head(l).kids, b + 1)
        <4>1. b + 1 + Len(kids) <= count /\ \A i \in 1..Len(kids) : lines[b + 1 + i] = kids[i]
          <5> HIDE DEF kids, rest, line
          <5>1. printed = PrintFdStruct(l, b)
            OBVIOUS
          <5> HIDE DEF printed
          <5>2. Len(kids) \in Nat /\ Len(rest) \in Nat
            BY <2>2
          <5>3. \A i \in 1..Len(kids) : b + 1 + i = b + (1 + i) /\ 1 + i \in 1..Len(printed)
            BY <2>2, <5>2
          <5>4. \A i \in 1..Len(printed) : lines[b + i] = printed[i]
            BY <2>1, <5>1 DEF Holds
          <5>5. b + Len(printed) <= count
            BY <2>1, <5>1 DEF Holds
          <5>6. QED BY <2>2, <5>2, <5>3, <5>4, <5>5
        <4>2. QED BY <4>1 DEF Holds
      <3>3. f[IF Head(l).kids = <<>> THEN -1 ELSE b + 1] = Head(l).kids
        <4>1. b + 1 \in Nat
          OBVIOUS
        <4>2. QED BY <3>2, <1>2, <4>1
      <3>4. line.head = IF kids = <<>> THEN -1 ELSE b + 1
        BY DEF LineOf
      <3> HIDE DEF kids, line
      <3>5. QED BY <3>1, <3>3, <3>4
    <2>6. f[line.next] = Tail(l)
      <3> DEFINE c == b + 1 + Len(kids)
      <3>1. rest = <<>> <=> Tail(l) = <<>>
        <4> HIDE DEF kids
        <4>1. QED BY <2>3, <2>4, PrintLinksDown
      <3>2. Holds(lines, count, Tail(l), c)
        <4>1. c + Len(rest) <= count /\ \A i \in 1..Len(rest) : lines[c + i] = rest[i]
          <5>1. printed = PrintFdStruct(l, b)
            OBVIOUS
          <5> HIDE DEF kids, rest, line, printed
          <5>2. Len(kids) \in Nat /\ Len(rest) \in Nat
            BY <2>2
          <5>3. \A i \in 1..Len(rest) : c + i = b + (1 + Len(kids) + i)
                                        /\ 1 + Len(kids) + i \in 1..Len(printed)
            BY <2>2, <5>2
          <5>4. \A i \in 1..Len(printed) : lines[b + i] = printed[i]
            BY <2>1, <5>1 DEF Holds
          <5>5. b + Len(printed) <= count
            BY <2>1, <5>1 DEF Holds
          <5>6. \A i \in 1..Len(rest) : lines[c + i] = rest[i]
            BY <2>2, <5>3, <5>4
          <5>7. c + Len(rest) <= count
            BY <2>2, <5>2, <5>5
          <5> HIDE DEF c
          <5>8. QED BY <5>6, <5>7
        <4>2. QED BY <4>1 DEF Holds
      <3>3. f[IF Tail(l) = <<>> THEN -1 ELSE c] = Tail(l)
        <4> HIDE DEF c
        <4>1. c \in Nat
          BY <2>4 DEF c
        <4>2. QED BY <3>2, <1>2, <4>1
      <3>4. line.next = IF rest = <<>> THEN -1 ELSE c
        BY DEF LineOf
      <3> HIDE DEF kids, line, rest
      <3>5. QED BY <3>1, <3>3, <3>4
    <2>7. lines[b + 1] = line /\ b \in 0..count - 1
      <3>1. printed = PrintFdStruct(l, b)
        OBVIOUS
      <3> HIDE DEF kids, rest, line, printed
      <3>2. Len(kids) \in Nat /\ Len(rest) \in Nat
        BY <2>2
      <3>3. QED BY <2>1, <2>2, <3>1, <3>2 DEF Holds
    <2>8. f[b] = <<[type |-> line.type, version |-> line.version, hash |-> line.hash,
                    name |-> line.name, kids |-> f[line.head]]>> \o f[line.next]
      <3> HIDE DEF line
      <3>1. QED BY <2>7 DEF Relinks
    <2>9. /\ line.type = Head(l).type /\ line.version = Head(l).version
          /\ line.hash = Head(l).hash /\ line.name = Head(l).name
      BY DEF LineOf
    <2> HIDE DEF line, kids, rest
    <2>10. [type |-> line.type, version |-> line.version, hash |-> line.hash,
            name |-> line.name, kids |-> f[line.head]] = Head(l)
      BY <2>3, <2>5, <2>9 DEF AnyNode, Node
    <2>11. l = <<Head(l)>> \o Tail(l)
      BY <2>3
    <2>12. QED BY <2>6, <2>8, <2>10, <2>11
  <1> HIDE DEF S
  <1>3. AnyLayer \subseteq S
    BY <1>1, <1>2, ByHeadAndTail
  <1>4. QED BY <1>3 DEF S

-----------------------------------------------------------------------------
(* Writing and reading a text.                                             *)

(* Trees whose root is in a layer of its own.                              *)
AnyTree == {node \in AnyNode : <<node>> \in AnyLayer}

IsTextOf(text, tree) ==
  LET lines == PrintFdStruct(<<tree>>, 0)
  IN text.count = Len(lines) /\ \A i \in 1..Len(lines) : text.lines[i] = lines[i]

(* What is read back from the text of a tree is that tree, with the same   *)
(* nodes in the same order in every folder, also when lines of an older    *)
(* text follow (SerializeStructure, ConstructStructureFromFile).           *)
THEOREM ReadsBack ==
  ASSUME NEW tree \in AnyTree, NEW text, IsTextOf(text, tree)
  PROVE  ConstructStructure(text) = tree
  <1> DEFINE lines == PrintFdStruct(<<tree>>, 0)
             count == text.count
             D == -1..count - 1
             At(index) == CHOOSE l \in {text.lines[i] : i \in 1..count} : l.index = index
             Made(l, kids, rest) == <<[type |-> l.type, version |-> l.version, hash |-> l.hash,
                                       name |-> l.name, kids |-> kids]>> \o rest
             Value(g, index) == IF index = -1 THEN <<>>
                                ELSE Made(At(index), g[At(index).head], g[At(index).next])
             V == UNION {LayersOf[n] : n \in Nat}
             F == [index \in D |-> [g \in [D -> V] |-> Value(g, index)]]
             layer[index \in -1..text.count - 1] ==
               IF index = -1 THEN <<>>
               ELSE LET l == At(index)
                    IN <<[type |-> l.type, version |-> l.version, hash |-> l.hash,
                          name |-> l.name, kids |-> layer[l.head]]>> \o layer[l.next]
  <1>1. <<tree>> \in AnyLayer /\ <<tree>> # <<>> /\ tree = Head(<<tree>>)
    BY DEF AnyTree
  <1>2. lines \in Seq(AnyLine) /\ lines # <<>> /\ LinksDown(lines, 0)
    BY <1>1, PrintDef, PrintLinksDown
  <1>3. count = Len(lines) /\ count \in Nat \ {0} /\ \A i \in 1..count : text.lines[i] = lines[i]
    <2> HIDE DEF lines
    <2>1. count = Len(lines) /\ \A i \in 1..Len(lines) : text.lines[i] = lines[i]
      BY DEF IsTextOf, lines
    <2>2. Len(lines) \in Nat \ {0}
      BY <1>2
    <2>3. QED BY <2>1, <2>2
  <1> HIDE DEF lines
  <1>4. ASSUME NEW index \in 0..count - 1
        PROVE  At(index) = lines[index + 1]
    <2>1. index + 1 \in 1..count /\ lines[index + 1].index = index
      BY <1>2, <1>3 DEF LinksDown
    <2>2. ASSUME NEW i \in 1..count, text.lines[i].index = index
          PROVE  text.lines[i] = lines[index + 1]
      <3>1. lines[i].index = i - 1
        BY <1>2, <1>3 DEF LinksDown
      <3>2. i = index + 1
        BY <3>1, <2>2, <1>3
      <3>3. QED BY <3>2, <1>3
    <2>3. lines[index + 1] \in {text.lines[i] : i \in 1..count}
      BY <2>1, <1>3
    <2>4. QED BY <2>1, <2>2, <2>3
  <1>5. ASSUME NEW index \in 0..count - 1
        PROVE  /\ lines[index + 1] \in AnyLine
               /\ lines[index + 1].head = -1 \/ lines[index + 1].head \in index + 1..count - 1
               /\ lines[index + 1].next = -1 \/ lines[index + 1].next \in index + 1..count - 1
    <2>1. index + 1 \in 1..Len(lines)
      BY <1>3
    <2>2. QED BY <2>1, <1>2, <1>3 DEF LinksDown
  <1> HIDE DEF At
  <1>6. PICK f : f \in [D -> V] /\ \A index \in D : f[index] = F[index][f]
    <2>1. <<>> \in V
      <3>1. <<>> \in LayersOf[0]
        BY LayersOfDef
      <3>2. QED BY <3>1
    <2>2. ASSUME NEW l \in AnyLine, NEW kids \in V, NEW rest \in V
          PROVE  Made(l, kids, rest) \in V
      <3>1. PICK m \in Nat : kids \in LayersOf[m]
        OBVIOUS
      <3>2. PICK n \in Nat : rest \in LayersOf[n]
        OBVIOUS
      <3>3. PICK k \in Nat : m <= k /\ n <= k
        BY m <= n \/ n <= m
      <3>4. kids \in LayersOf[k] /\ rest \in LayersOf[k + 1]
        BY <3>1, <3>2, <3>3, LayersGrow
      <3>5. LayersOf[k + 1] = Seq(Node(LayersOf[k]))
        BY LayersOfDef
      <3>6. [type |-> l.type, version |-> l.version, hash |-> l.hash,
             name |-> l.name, kids |-> kids] \in Node(LayersOf[k])
        BY <3>4 DEF AnyLine, Node
      <3>7. Made(l, kids, rest) \in LayersOf[k + 1]
        BY <3>4, <3>5, <3>6
      <3>8. QED BY <3>7
    <2> HIDE DEF V, Made
    <2>3. F \in Recursion(D, V)
      <3>1. ASSUME NEW index \in D, NEW g \in [D -> V]
            PROVE  Value(g, index) \in V
        <4>1. CASE index = -1
          BY <4>1, <2>1
        <4>2. CASE index # -1
          <5>1. index \in 0..count - 1
            BY <4>2, <1>3
          <5>2. At(index) \in AnyLine /\ At(index).head \in D /\ At(index).next \in D
            BY <5>1, <1>3, <1>4, <1>5
          <5>3. g[At(index).head] \in V /\ g[At(index).next] \in V
            BY <5>2
          <5>4. QED BY <4>2, <5>2, <5>3, <2>2
        <4>3. QED BY <4>1, <4>2
      <3> HIDE DEF Value
      <3>2. QED BY <3>1 DEF Recursion
    <2> DEFINE rank == [index \in D |-> IF index = -1 THEN 0 ELSE count - index]
    <2>4. rank \in [D -> Nat]
      BY <1>3
    <2>5. ASSUME NEW index \in D, NEW g \in [D -> V], NEW h \in [D -> V],
                 \A i \in D : rank[i] < rank[index] => g[i] = h[i]
          PROVE  F[index][g] = F[index][h]
      <3>1. F[index][g] = Value(g, index) /\ F[index][h] = Value(h, index)
        <4> HIDE DEF Value
        <4>1. QED OBVIOUS
      <3>2. CASE index = -1
        BY <3>1, <3>2
      <3>3. CASE index # -1
        <4>1. index \in 0..count - 1
          BY <3>3, <1>3
        <4>2. \A i \in D : i = -1 \/ i \in index + 1..count - 1 => rank[i] < rank[index]
          BY <4>1, <1>3
        <4>3. At(index).head \in D /\ rank[At(index).head] < rank[index]
              /\ At(index).next \in D /\ rank[At(index).next] < rank[index]
          <5> HIDE DEF rank
          <5>1. /\ At(index).head = -1 \/ At(index).head \in index + 1..count - 1
                /\ At(index).next = -1 \/ At(index).next \in index + 1..count - 1
            BY <4>1, <1>4, <1>5
          <5>2. \A i : i = -1 \/ i \in index + 1..count - 1 => i \in D
            BY <4>1, <1>3
          <5> HIDE DEF D
          <5>3. QED BY <5>1, <5>2, <4>2
        <4>4. g[At(index).head] = h[At(index).head] /\ g[At(index).next] = h[At(index).next]
          <5> HIDE DEF rank
          <5>1. QED BY <4>3, <2>5
        <4>5. QED BY <3>1, <4>4
      <3>4. QED BY <3>2, <3>3
    <2>6. V # {}
      BY <2>1
    <2> HIDE DEF F, D, rank
    <2>7. Decreases(rank, F, D, V)
      BY <2>4, <2>5 DEF Decreases
    <2>8. \E f : IsSolution(f, F, D, V)
      BY <2>3, <2>6, <2>7, RecursionHasSolution
    <2>9. QED BY <2>8 DEF IsSolution
  <1>7. f = [index \in D |-> Value(f, index)]
    <2>1. \A index \in D : f[index] = Value(f, index)
      <3> HIDE DEF Value, V
      <3>1. QED BY <1>6
    <2>2. f = [index \in D |-> f[index]]
      BY <1>6
    <2> HIDE DEF Value
    <2>3. QED BY <2>1, <2>2
  <1>8. layer = [index \in D |-> Value(layer, index)]
    BY <1>7
  <1>9. ConstructStructure(text) = Head(layer[0])
    BY DEF ConstructStructure, At
  <1> HIDE DEF layer
  <1>10. \A index \in D : layer[index] = Value(layer, index)
    <2> HIDE DEF Value
    <2>1. QED BY <1>8
  <1>11. Relinks(layer, lines, count)
    <2>1. layer[-1] = <<>>
      <3>1. -1 \in D
        BY <1>3
      <3>2. QED BY <3>1, <1>10
    <2>2. ASSUME NEW index \in 0..count - 1
          PROVE  layer[index] = Made(lines[index + 1], layer[lines[index + 1].head],
                                     layer[lines[index + 1].next])
      <3>1. index \in D /\ index # -1
        BY <1>3
      <3> HIDE DEF Made, D
      <3>2. QED BY <3>1, <1>4, <1>10
    <2>3. QED BY <2>1, <2>2 DEF Relinks
  <1>12. layer[0] = <<tree>>
    <2>1. 0 + Len(lines) <= count /\ \A i \in 1..Len(lines) : lines[0 + i] = lines[i]
      BY <1>3
    <2>2. layer[IF <<tree>> = <<>> THEN -1 ELSE 0] = <<tree>>
      <3>1. Holds(lines, count, <<tree>>, 0)
        BY <2>1 DEF lines, Holds
      <3>2. 0 \in Nat /\ count \in Nat
        BY <1>3
      <3> HIDE DEF count
      <3>3. QED BY <1>1, <1>11, <3>1, <3>2, RelinksLayer
    <2>3. QED BY <1>1, <2>2
  <1>13. QED BY <1>1, <1>9, <1>12

-----------------------------------------------------------------------------
(* The two ways to find a node in a layer.                                 *)

(* No two nodes of a layer have one name.                                  *)
Distinct(layer) ==
  \A i, j \in DOMAIN layer : layer[i].name = layer[j].name => i = j

(* The search along the links stops at the node with the name.             *)
LEMMA SearchOf ==
  ASSUME NEW T, NEW layer \in Seq(T), Distinct(layer), NEW name
  PROVE  /\ \A i \in DOMAIN layer :
              layer[i].name = name => SearchStructNodeLayer(layer, name) = i
         /\ (\A i \in DOMAIN layer : layer[i].name # name)
              => SearchStructNodeLayer(layer, name) = 0
  <1> DEFINE I == {i \in 1..Len(layer) : layer[i].name = name}
  <1>1. SearchStructNodeLayer(layer, name) = IF I # {} THEN Min(I) ELSE 0
    BY DEF SearchStructNodeLayer, SelectInSeq
  <1>2. DOMAIN layer = 1..Len(layer) /\ Len(layer) \in Nat
    OBVIOUS
  <1>3. ASSUME NEW i \in DOMAIN layer, layer[i].name = name
        PROVE  SearchStructNodeLayer(layer, name) = i
    <2>1. I = {i}
      BY <1>2, <1>3 DEF Distinct
    <2> HIDE DEF I
    <2>2. i \in Int /\ {i} # {}
      BY <1>2
    <2>3. Min({i}) = i
      BY <2>2 DEF Min
    <2>4. QED BY <1>1, <2>1, <2>2, <2>3
  <1>4. ASSUME \A i \in DOMAIN layer : layer[i].name # name
        PROVE  SearchStructNodeLayer(layer, name) = 0
    <2>1. I = {}
      BY <1>2, <1>4
    <2> HIDE DEF I
    <2>2. QED BY <1>1, <2>1
  <1>5. QED BY <1>3, <1>4

(* A node that has the name lies in the bucket of that name, whatever the  *)
(* codes of the names and the number of buckets: where no name occurs      *)
(* twice, the hash map of a layer finds the node that a search of the      *)
(* layer finds, and nothing where that finds nothing (hashify_layer,       *)
(* HashMapFind, SearchStructNodeLayer).                                    *)
THEOREM MapFindsNode ==
  ASSUME NEW T, NEW layer \in Seq(T), Distinct(layer), NEW name
  PROVE  HashMapFind(layer, name) = {SearchStructNodeLayer(layer, name)} \ {0}
  <1> DEFINE found == {i \in Bucket(layer, name) : layer[i].name = name}
  <1>1. DOMAIN layer = 1..Len(layer) /\ Len(layer) \in Nat
    OBVIOUS
  <1>2. found = {i \in DOMAIN layer : layer[i].name = name}
    BY DEF Bucket
  <1>3. HashMapFind(layer, name) = Newest(found)
    BY DEF HashMapFind
  <1>4. ASSUME NEW i \in DOMAIN layer, layer[i].name = name
        PROVE  HashMapFind(layer, name) = {SearchStructNodeLayer(layer, name)} \ {0}
    <2>1. found = {i}
      BY <1>2, <1>4 DEF Distinct
    <2> HIDE DEF found
    <2>2. i \in Int /\ i # 0
      BY <1>1
    <2>3. Newest({i}) = {i}
      BY <2>2 DEF Newest
    <2>4. SearchStructNodeLayer(layer, name) = i
      BY <1>4, SearchOf
    <2>5. QED BY <1>3, <2>1, <2>2, <2>3, <2>4
  <1>5. ASSUME \A i \in DOMAIN layer : layer[i].name # name
        PROVE  HashMapFind(layer, name) = {SearchStructNodeLayer(layer, name)} \ {0}
    <2>1. found = {}
      BY <1>2, <1>5
    <2> HIDE DEF found
    <2>2. Newest({}) = {}
      BY DEF Newest
    <2>3. SearchStructNodeLayer(layer, name) = 0
      BY <1>5, SearchOf
    <2>4. QED BY <1>3, <2>1, <2>2, <2>3
  <1>6. QED BY <1>4, <1>5
=============================================================================
