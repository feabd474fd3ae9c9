------------------------------- MODULE MC_WTF -------------------------------
(* Small instances of WTF for TLC.                                         *)
EXTENDS WTF, TLC

CONSTANTS f1, f2, x, y, zero, k1, k2, k3, c1, c2,
          Main, MainCommands,       \* how many commands c1 runs, and which
          Others, OtherCommands     \* how many the others run

OneFile == {f1}
TwoFiles == {f1, f2}
Texts == {<<x>>, <<y>>}
OneText == {<<x>>}
OtherText == {<<y>>}
OtherTexts == {<<y>>, <<x, y>>}

(* A project without files; one with f1.                                   *)
EmptyStart == [hash |-> [f \in File |-> None], sent |-> <<>>]
FileStart == [hash |-> [f \in File |-> IF f = f1 THEN <<x>> ELSE None], sent |-> <<<<x>>>>]

CommandsOf == [c \in Client |-> IF c = c1 THEN MainCommands ELSE OtherCommands]
RunsOf == [c \in Client |-> IF c = c1 THEN Main ELSE Others]

Symmetry == Permutations(Conn) \cup Permutations(Client)
SymmetryConn == Permutations(Conn)
=============================================================================
