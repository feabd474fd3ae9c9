----------------------------- MODULE FileIndex -----------------------------
(***************************************************************************)
(* What a .Manifest promises to be, whatever it looks like: a table from   *)
(* the paths of a project to hashes, one on the client and the one last    *)
(* pushed to the server.                                                   *)
(***************************************************************************)
EXTENDS SequencesExt

CONSTANTS Path, Hash,
          Lost        \* the state of a client that has lost its table

VARIABLES index, pushed

(* A table is a set of entries, with one entry for a path.                 *)
Entry == [path : Path, hash : Hash]

Init == index = {} /\ pushed = {}

Insert ==
  \E e \in index' \ index :
    /\ index # Lost /\ e \in Entry
    /\ \A f \in index : f.path # e.path
    /\ index' = index \cup {e}

(* The entries of p and of what lies below it.                             *)
Delete(p) == index # Lost /\ index' = {e \in index : ~IsPrefix(p, e.path)}

Lose == index' = Lost
Checkout == index' = pushed

Change ==
  /\ UNCHANGED pushed /\ index' # index
  /\ Checkout \/ Insert \/ (\E p \in Path : Delete(p)) \/ Lose

Push == index # Lost /\ pushed' = index /\ UNCHANGED index

Next == Change \/ Push

Spec == Init /\ [][Next]_<<index, pushed>>
=============================================================================
