------------------------------ MODULE FdStruct ------------------------------
(***************************************************************************)
(* The text of a .Manifest and the folder tree it is read to.  The root is *)
(* a node in a layer of its own.                                           *)
(***************************************************************************)
EXTENDS Layer

(* A line of the text: the indices of the node, of its first child (head)  *)
(* and of its next sibling, -1 for none.                                   *)
LineOf(node, index, head, next) ==
  [index |-> index, type |-> node.type, version |-> node.version,
   head |-> head, next |-> next, hash |-> node.hash, name |-> node.name]

AnyLine ==
  [index : Nat, type : {1, 2}, version : Nat, head : Int, next : Int,
   hash : Hash \cup {None}, name : Name]

AnyText == [count : Nat, lines : Seq(AnyLine)]

(* Mutant: the next sibling is taken to follow at once.                    *)
PrintFdStructNext(layer, begin) ==
  LET print[l \in AnyLayer] == [at \in Nat |->
        IF l = <<>> THEN <<>>
        ELSE LET kids == print[Head(l).kids][at + 1]
                 rest == print[Tail(l)][at + 1 + Len(kids)]
             IN <<LineOf(Head(l), at,
                         IF kids = <<>> THEN -1 ELSE at + 1,
                         IF rest = <<>> THEN -1 ELSE at + 1)>> \o kids \o rest]
  IN print[layer][begin]

(* The lines of a layer when its first node gets the index begin: a node,  *)
(* its children, its siblings (ComputeNewIndex numbers them in the order   *)
(* RecursivePrintFdStruct prints them).                                    *)
PrintFdStruct(layer, begin) ==
  LET print[l \in AnyLayer] == [at \in Nat |->
        IF l = <<>> THEN <<>>
        ELSE LET kids == print[Head(l).kids][at + 1]
                 rest == print[Tail(l)][at + 1 + Len(kids)]
             IN <<LineOf(Head(l), at,
                         IF kids = <<>> THEN -1 ELSE at + 1,
                         IF rest = <<>> THEN -1 ELSE at + 1 + Len(kids))>> \o kids \o rest]
  IN print[layer][begin]

SerializeStructure(tree) ==
  LET lines == PrintFdStruct(<<tree>>, 0) IN [count |-> Len(lines), lines |-> lines]

(* The nodes are linked by their indices; lines beyond count are not read. *)
ConstructStructure(text) ==
  LET At(index) ==
        CHOOSE l \in {text.lines[i] : i \in 1..text.count} : l.index = index
      layer[index \in -1..text.count - 1] ==
        IF index = -1 THEN <<>>
        ELSE LET l == At(index)
             IN <<[type |-> l.type, version |-> l.version, hash |-> l.hash,
                   name |-> l.name, kids |-> layer[l.head]]>> \o layer[l.next]
  IN Head(layer[0])
=============================================================================
