------------------------------ MODULE MC_Tree ------------------------------
(* A small instance of Tree for TLC.                                       *)
EXTENDS Tree

CONSTANTS a, b, d, proj, x, y, zero

(* A file and a folder of the same name, and in the folder a file and a    *)
(* folder whose names share a bucket.                                      *)
Paths == {<<d>>, <<d, a>>, <<d, b, a>>}
Codes == [n \in Name |-> IF n = d THEN 2 ELSE 1]
TwoTexts == {<<x>>, <<x, y>>}
ShortText == {<<x>>}
TheirHashes == TwoTexts \cup {<<>>}
=============================================================================
