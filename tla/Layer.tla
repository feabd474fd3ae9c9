------------------------------- MODULE Layer -------------------------------
(***************************************************************************)
(* The layers of a folder tree (the children of a node: folderHead and the *)
(* nextFile links from there), each a sequence of nodes, and the two ways  *)
(* to find a node in one: the search along the links, and the hash map     *)
(* built from the layer (hashify_layer).                                   *)
(***************************************************************************)
EXTENDS Integers, SequencesExt

CONSTANTS Name,       \* names of files and folders
          Hash,       \* hashes of file contents
          None,       \* the hash of a folder
          MaxDepth,   \* bound: the layers of a tree, one below the other
          Code,       \* the sum of the characters of a name
          Size        \* buckets of a hash map, 20

ASSUME LayerAssumption ==
  /\ None \notin Hash
  /\ MaxDepth \in Nat \ {0}
  /\ Code \in [Name -> Nat] /\ Size \in Nat \ {0}

(* A file (type 1) or a folder (type 2), with its children.                *)
Node(layers) ==
  [type : {1, 2}, version : Nat, hash : Hash \cup {None}, name : Name, kids : layers]

LayersOf[depth \in Nat] == IF depth = 0 THEN {<<>>} ELSE Seq(Node(LayersOf[depth - 1]))

AnyLayer == LayersOf[MaxDepth]
AnyNode == Node(AnyLayer)

(* The place of the first node with that name, 0 for none.                 *)
SearchStructNodeLayer(layer, name) == SelectInSeq(layer, LAMBDA n : n.name = name)

(* The places of the layer in the bucket of a name.                        *)
Bucket(layer, name) ==
  {i \in DOMAIN layer : Code[layer[i].name] % Size = Code[name] % Size}

(* Nodes are inserted at the head of their bucket.                         *)
Newest(places) == {i \in places : \A j \in places : j <= i}

(* Mutant: the keys in a bucket are not compared.                          *)
HashMapFindFirst(layer, name) == Newest(Bucket(layer, name))

(* The place of the node with that name, if there is one.                  *)
HashMapFind(layer, name) == Newest({i \in Bucket(layer, name) : layer[i].name = name})
=============================================================================
