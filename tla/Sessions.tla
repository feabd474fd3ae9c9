------------------------------ MODULE Sessions ------------------------------
(***************************************************************************)
(* What the threads of WTFserver promise together: connections are served  *)
(* one at a time, each of them once and from its first request to its end, *)
(* and every connection that was accepted gets its turn.                   *)
(***************************************************************************)
CONSTANTS Conn, None

VARIABLES waiting,    \* connections accepted and not served yet
          current,    \* the connection that is served, or None
          over        \* connections whose session has ended

sessions == <<waiting, current, over>>

Init == waiting = {} /\ current = None /\ over = {}

Arrive(k) ==
  /\ k \notin waiting \cup {current} \cup over
  /\ waiting' = waiting \cup {k}
  /\ UNCHANGED <<current, over>>

Turn(k) ==
  /\ k \in waiting /\ current = None
  /\ waiting' = waiting \ {k} /\ current' = k
  /\ UNCHANGED over

Leave ==
  /\ current # None
  /\ current' = None /\ over' = over \cup {current}
  /\ UNCHANGED waiting

Next == Leave \/ \E k \in Conn : Arrive(k) \/ Turn(k)

(* A session ends, and nobody waits for ever.                              *)
Spec ==
  /\ Init /\ [][Next]_sessions
  /\ WF_sessions(Leave)
  /\ \A k \in Conn : SF_sessions(Turn(k))
=============================================================================
