----------------------------- MODULE ByteQueue -----------------------------
(***************************************************************************)
(* What two programs expect of a connection in one direction: the bytes    *)
(* one of them has passed to send_all reach the caller of read_all once    *)
(* each and in order.  Bytes are numbered from 1 as they are passed.       *)
(***************************************************************************)
EXTENDS Naturals, Sequences

VARIABLES sent,       \* how many bytes were passed
          received    \* the bytes delivered

queueVars == <<sent, received>>

FirstBytes(n) == [i \in 1..n |-> i]

Init == sent = 0 /\ received = <<>>

Put == sent' \in Nat /\ sent' > sent /\ UNCHANGED received

Get ==
  /\ \E n \in 1..sent : n > Len(received) /\ received' = FirstBytes(n)
  /\ UNCHANGED sent

Next == Put \/ Get

Spec == Init /\ [][Next]_queueVars
=============================================================================
