----------------------------- MODULE Transport -----------------------------
(***************************************************************************)
(* send_all and read_all over one direction of a connection, down to the   *)
(* single send and recv.  The client's socket is non-blocking, the         *)
(* server's is not (handle_customer sets O_NONBLOCK among the descriptor   *)
(* flags, where it means nothing).  Bytes are numbered as the sending      *)
(* program passes them; the byte 0 is one it never passed.                 *)
(***************************************************************************)
EXTENDS Integers, Sequences

CONSTANTS Modes,      \* the connections considered
          Room,       \* what the kernel buffers of a slow connection hold
          MaxBack     \* bound: how far send_all moves back in a full buffer

(* sleepClears: sleep(0) leaves errno with another value than EAGAIN (it   *)
(* does not with glibc).  mayFill: the reader may be so slow that the      *)
(* kernel's buffers fill up.                                               *)
Mode == [sender : {"client", "server"}, sleepClears : BOOLEAN, mayFill : BOOLEAN]

ASSUME TransportAssumption ==
  Modes \subseteq Mode /\ Room \in Nat \ {0} /\ MaxBack \in Nat

VARIABLES mode,       \* the connection
          wire,       \* the bytes in the kernel's buffers
          sender,     \* where send_all is
          base,       \* the last byte before the buffer it sends
          data,       \* the last byte it has sent of it
          goal,       \* the last byte it is to send
          reader,     \* where read_all is
          stored,     \* the bytes all calls of read_all have delivered
          want,       \* how many will have been delivered when it returns
          errno,      \* in the reading thread: whether it is EAGAIN
          stop        \* the sides whose globalStop is set

transportVars ==
  <<mode, wire, sender, base, data, goal, reader, stored, want, errno, stop>>

Sides == {"sender", "reader"}

TransportTypeOK ==
  /\ mode \in Modes
  /\ wire \in Seq(Nat) /\ stored \in Seq(Nat)
  /\ sender \in {"idle", "test", "send", "closed"}
  /\ reader \in {"idle", "test", "recv", "failed"}
  /\ base \in Nat /\ data \in Int /\ goal \in Nat /\ want \in Nat
  /\ errno \in BOOLEAN
  /\ stop \subseteq Sides

SendBlocks == mode.sender = "server"
RecvBlocks == mode.sender = "client"

(* A send_all of this thread may have left EAGAIN before.                  *)
TransportInit ==
  /\ mode \in Modes
  /\ wire = <<>> /\ stored = <<>>
  /\ sender = "idle" /\ reader = "idle"
  /\ base = 0 /\ data = 0 /\ goal = 0 /\ want = 0
  /\ errno \in IF RecvBlocks \/ mode.sleepClears THEN {FALSE} ELSE BOOLEAN
  /\ stop = {}

sendVars == <<sender, base, data, goal>>
readVars == <<reader, stored, want, errno>>

-----------------------------------------------------------------------------
(* send_all is called with the next n bytes.                               *)
SendAll(n) ==
  /\ sender = "idle"
  /\ sender' = "test" /\ base' = data /\ goal' = data + n
  /\ UNCHANGED <<mode, wire, data, readVars, stop>>

(* The test of the loop; the call returns 1, or -1 with bytes left, after  *)
(* which the program closes its end.                                       *)
SendTest ==
  /\ sender = "test"
  /\ sender' = IF data = goal THEN "idle"
               ELSE IF "sender" \in stop THEN "closed" ELSE "send"
  /\ UNCHANGED <<mode, wire, base, data, goal, readVars, stop>>

(* The byte at position b, which may lie before the buffer.                *)
ByteAt(b) == IF b > base THEN b ELSE 0

Fits(r) == mode.mayFill => Len(wire) + r <= Room

(* Mutant: what send did not take is given up.                             *)
SendBytesOnce ==
  /\ sender = "send" /\ reader # "failed"
  /\ \E r \in 1..goal - data :
       /\ Fits(r)
       /\ wire' = wire \o [i \in 1..r |-> ByteAt(data + i)]
       /\ data' = goal
  /\ sender' = "test"
  /\ UNCHANGED <<mode, base, goal, readVars, stop>>

SendBytes ==
  /\ sender = "send" /\ reader # "failed"
  /\ \E r \in 1..goal - data :
       /\ Fits(r)
       /\ wire' = wire \o [i \in 1..r |-> ByteAt(data + i)]
       /\ data' = data + r
  /\ sender' = "test"
  /\ UNCHANGED <<mode, base, goal, readVars, stop>>

(* send fails with EAGAIN: r = -1 is subtracted from len and added to data *)
(* all the same.                                                           *)
SendAgain ==
  /\ sender = "send" /\ ~SendBlocks
  /\ ~Fits(1) /\ data > base - MaxBack
  /\ data' = data - 1
  /\ sender' = "test"
  /\ UNCHANGED <<mode, wire, base, goal, readVars, stop>>

(* The other end is closed.                                                *)
SendBroken ==
  /\ sender = "send" /\ reader = "failed"
  /\ sender' = "closed"
  /\ UNCHANGED <<mode, wire, base, data, goal, readVars, stop>>

(* The signal hit the thread that sits in send.                            *)
SendInterrupted ==
  /\ sender = "send" /\ ~Fits(1) /\ "sender" \in stop
  /\ sender' = "closed"
  /\ UNCHANGED <<mode, wire, base, data, goal, readVars, stop>>

-----------------------------------------------------------------------------
(* read_all is called for n bytes.                                         *)
ReadAll(n) ==
  /\ reader = "idle"
  /\ reader' = "test" /\ want' = Len(stored) + n
  /\ UNCHANGED <<mode, wire, sendVars, stored, errno, stop>>

ReadTest ==
  /\ reader = "test"
  /\ reader' = IF Len(stored) = want THEN "idle"
               ELSE IF "reader" \in stop THEN "failed" ELSE "recv"
  /\ UNCHANGED <<mode, wire, sendVars, stored, want, errno, stop>>

(* recv has delivered r bytes.  With an EAGAIN left from before they are   *)
(* not counted, and the next recv overwrites them.                         *)
ReadBytes ==
  /\ reader = "recv"
  /\ \E r \in 1..Len(wire) :
       /\ r <= want - Len(stored)
       /\ wire' = SubSeq(wire, r + 1, Len(wire))
       /\ stored' = IF errno THEN stored ELSE stored \o SubSeq(wire, 1, r)
  /\ errno' = (errno /\ ~mode.sleepClears)
  /\ reader' = "test"
  /\ UNCHANGED <<mode, sendVars, want, stop>>

ReadAgain ==
  /\ reader = "recv" /\ ~RecvBlocks
  /\ wire = <<>> /\ sender # "closed"
  /\ errno' = ~mode.sleepClears
  /\ reader' = "test"
  /\ UNCHANGED <<mode, wire, sendVars, stored, want, stop>>

(* Mutant: r = 0 is not taken for a failure.                               *)
ReadEndIgnored ==
  /\ reader = "recv"
  /\ wire = <<>> /\ sender = "closed"
  /\ reader' = "test"
  /\ errno' = (errno /\ ~mode.sleepClears)
  /\ UNCHANGED <<mode, wire, sendVars, stored, want, stop>>

(* The end of the stream: r = 0, and errno is not set by the call.         *)
ReadEnd ==
  /\ reader = "recv"
  /\ wire = <<>> /\ sender = "closed"
  /\ reader' = IF errno THEN "test" ELSE "failed"
  /\ errno' = (errno /\ ~mode.sleepClears)
  /\ UNCHANGED <<mode, wire, sendVars, stored, want, stop>>

(* The signal hit the thread that sits in recv (EINTR), or the client's    *)
(* handler has shut the socket down.                                       *)
ReadInterrupted ==
  /\ reader = "recv" /\ wire = <<>> /\ "reader" \in stop
  /\ reader' = "failed"
  /\ UNCHANGED <<mode, wire, sendVars, stored, want, errno, stop>>

-----------------------------------------------------------------------------
Interrupt(side) ==
  /\ stop' = stop \cup {side}
  /\ UNCHANGED <<mode, wire, sendVars, readVars>>

(* The sending program ends.                                               *)
Killed ==
  /\ sender' = "closed"
  /\ UNCHANGED <<mode, wire, base, data, goal, readVars, stop>>

SendLoop == SendTest \/ SendBytes \/ SendAgain \/ SendBroken
ReadLoop == ReadTest \/ ReadBytes \/ ReadAgain \/ ReadEnd

-----------------------------------------------------------------------------
(* Where the two loops do what they are meant to: from the server to a     *)
(* client whose sleep(0) resets errno, and from a client whose send buffer *)
(* never fills up to the server.                                           *)
FaithfulMode == IF SendBlocks THEN mode.sleepClears ELSE ~mode.mayFill

Queue == INSTANCE ByteQueue
  WITH sent <- IF FaithfulMode THEN data ELSE 0,
       received <- IF FaithfulMode THEN stored ELSE <<>>

(* In those connections the bytes passed to send_all reach the callers of  *)
(* read_all once each and in order, however the kernel splits them and     *)
(* wherever a program is stopped (send_all, read_all).                     *)
AsQueue == Queue!Spec
=============================================================================
