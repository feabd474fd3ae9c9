---------------------------- MODULE Session_proof ----------------------------
(***************************************************************************)
(* What WTF guarantees about a push and about an answer, from one request  *)
(* of a session to the next: SessionInv is inductive together with IInv.   *)
(***************************************************************************)
EXTENDS WTF_proof

PushPart ==
  /\ \A k \in Conn : Completes(k) => Ready(k)
  /\ \A c \in Client : PushOf(c)

Pushes == {"push", "sent", "abort", "complete"}

(* The session of k is as before, or knows of more.                        *)
SameSession(k) ==
  /\ toServer'[k] = toServer[k]
  /\ k \in serverEnd' => k \in serverEnd
  /\ Pushing(k) => Pushing(k)'
  /\ client_mutex = k => client_mutex' = k /\ srvBlob \subseteq srvBlob'

LEMMA SessionKept ==
  ASSUME NEW k \in Conn, SameSession(k), Ready(k)
  PROVE  Ready(k)'
  BY DEF SameSession, Ready, Refused, PushFrom

LEMMA CompletesKept ==
  ASSUME NEW k \in Conn, Completes(k) => Ready(k), SameSession(k)
  PROVE  (Completes(k) => Ready(k))'
  BY SessionKept DEF SameSession, Completes

LEMMA PushKept ==
  ASSUME NEW d \in Client, PushOf(d), serverEnd' \subseteq Conn,
         pc'[d] \in Pushes =>
           /\ pc[d] \in Pushes /\ (pc'[d] = "complete" <=> pc[d] = "complete")
           /\ sock'[d] = sock[d] /\ todo'[d] = todo[d] /\ com'[d] = com[d],
         sock[d] \in Conn => SameSession(sock[d])
  PROVE  PushOf(d)'
  <1>1. SUFFICES ASSUME pc'[d] \in Pushes, sock'[d] \in serverEnd'
                 PROVE  PushOf(d)'
    BY DEF PushOf, Pushes
  <1>2. /\ sock'[d] = sock[d] /\ todo'[d] = todo[d] /\ com'[d] = com[d]
        /\ pc[d] \in Pushes /\ (pc'[d] = "complete" <=> pc[d] = "complete")
    BY <1>1
  <1>3. sock[d] \in Conn
    BY <1>1, <1>2
  <1>4. PICK k \in Conn : k = sock[d]
    BY <1>3
  <1>5. SameSession(k) /\ k \in serverEnd
    BY <1>1, <1>2, <1>4 DEF SameSession
  <1>6. Ready(k) => Ready(k)'
    BY <1>5, SessionKept
  <1>7. /\ Completes(k)' = Completes(k) /\ Refused(k)' = Refused(k)
        /\ \A t : Sending(k, t)' = Sending(k, t)
    BY <1>5 DEF SameSession, Completes, Refused, Sending
  <1>8. IF pc'[d] = "complete" THEN todo'[d] = {} /\ (Ready(k)' \/ toServer'[k] = <<>>)
        ELSE Ready(k)' /\ ~Completes(k)'
    BY <1>2, <1>4, <1>5, <1>6, <1>7 DEF PushOf, Pushes, SameSession
  <1>9. ASSUME NEW f \in File, NEW t, t = com[d][f], t # None, ~Refused(k)'
        PROVE  f \in todo[d] \/ Sending(k, t)' \/ (client_mutex' = k /\ t \in srvBlob')
    <2>1. ~Refused(k) /\ pc[d] \in Pushes /\ sock[d] \in serverEnd
      BY <1>2, <1>4, <1>5, <1>7, <1>9
    <2>2. f \in todo[d] \/ Sending(k, t) \/ (client_mutex = k /\ t \in srvBlob)
      BY <1>4, <1>9, <2>1 DEF PushOf, Pushes, Refused, Sending
    <2>3. QED BY <1>5, <2>2 DEF SameSession, Sending
  <1>10. QED
    BY <1>2, <1>4, <1>8, <1>9
       DEF PushOf, Pushes, Ready, Refused, Pushing, PushFrom, Completes, Sending

-----------------------------------------------------------------------------
(* The server.                                                             *)

(* Sequences of requests.                                                  *)
LEMMA TailRequests ==
  ASSUME NEW q \in Seq(Request), q # <<>>
  PROVE  /\ Len(q) \in Nat \ {0} /\ Head(q) = q[1] /\ Len(Tail(q)) = Len(q) - 1
         /\ \A i \in 1..Len(Tail(q)) : Tail(q)[i] = q[i + 1] /\ i + 1 \in 1..Len(q)
  OBVIOUS

(* The requests that follow those of q are those that follow q's first.    *)
LEMMA FromTail ==
  ASSUME NEW q \in Seq(Request), q # <<>>, PushFrom(q, 2)
  PROVE  PushFrom(Tail(q), 1)
  BY TailRequests DEF PushFrom

LEMMA FromAll ==
  ASSUME NEW q \in Seq(Request), q # <<>>, PushFrom(q, 1)
  PROVE  PushFrom(q, 2) /\ (Head(q).op \in {"send", "fail"} \/ (Head(q).op = "cplt" /\ Len(q) = 1))
  <1>1. Len(q) \in Nat \ {0} /\ Head(q) = q[1]
    BY TailRequests
  <1>2. 1 \in 1..Len(q) /\ (1 = Len(q) <=> Len(q) = 1)
    BY <1>1
  <1>3. \A j \in 2..Len(q) : j \in 1..Len(q)
    BY <1>1
  <1>4. QED BY <1>1, <1>2, <1>3 DEF PushFrom

(* A handler: only the session of k changes.                               *)
OnlySession(k) ==
  /\ client_mutex \in {k, None}
  /\ \A j \in Socket \ {k} : toServer'[j] = toServer[j]
  /\ serverEnd' \subseteq serverEnd

LEMMA HandlerPush ==
  ASSUME IInv, PushPart, UNCHANGED clientVars, NEW k \in Conn, OnlySession(k),
         (Completes(k) => Ready(k))',
         \A d \in Client : sock[d] = k => PushOf(d)'
  PROVE  PushPart'
  <1>1. \A j \in Conn \ {k} : SameSession(j)
    BY WireAssumption DEF OnlySession, SameSession, Pushing, Socket
  <1>2. ASSUME NEW j \in Conn PROVE (Completes(j) => Ready(j))'
    BY <1>1, CompletesKept DEF PushPart
  <1>3. ASSUME NEW d \in Client, sock[d] # k PROVE PushOf(d)'
    <2>1. sock[d] \in Conn => SameSession(sock[d])
      <3>1. SUFFICES ASSUME NEW j \in Conn \ {k}, j = sock[d] PROVE SameSession(sock[d])
        BY <1>3
      <3>2. SameSession(j)
        BY <1>1
      <3>3. QED BY <3>1, <3>2
    <2>2. QED
      BY <2>1, Parts, PushKept
         DEF PushPart, OnlySession, WireOK, WireTypeOK, clientVars, folderVars, commandVars
  <1>4. QED BY <1>2, <1>3 DEF PushPart

(* The thread of k reads one request: what a pushing client relies on.     *)
LEMMA ReadPush ==
  ASSUME UNCHANGED clientVars, NEW k \in Conn, NEW d \in Client, sock[d] = k, PushOf(d),
         k \in serverEnd, toServer[k] # <<>>,
         Ready(k) => \/ Ready(k)' /\ (Completes(k)' => Completes(k))
                     \/ Completes(k) /\ toServer'[k] = <<>>,
         ASSUME Ready(k), ~Refused(k)', NEW t,
                Sending(k, t) \/ (client_mutex = k /\ t \in srvBlob)
         PROVE  Sending(k, t)' \/ (client_mutex' = k /\ t \in srvBlob'),
         Ready(k) /\ Refused(k) => Refused(k)'
  PROVE  PushOf(d)'
  <1>1. SUFFICES ASSUME pc[d] \in Pushes PROVE PushOf(d)'
    BY DEF PushOf, Pushes, clientVars, commandVars
  <1>2. /\ Ready(k) /\ (pc[d] # "complete" => ~Completes(k))
        /\ pc[d] = "complete" => todo[d] = {}
    BY <1>1 DEF PushOf, Pushes
  <1>3. IF pc[d] = "complete" THEN todo[d] = {} /\ (Ready(k)' \/ toServer'[k] = <<>>)
        ELSE Ready(k)' /\ ~Completes(k)'
    BY <1>2
  <1>4. ASSUME NEW f \in File, NEW t, t = com[d][f], t # None, ~Refused(k)'
        PROVE  f \in todo[d] \/ Sending(k, t)' \/ (client_mutex' = k /\ t \in srvBlob')
    <2>1. ~Refused(k) /\ pc[d] \in Pushes
      BY <1>1, <1>2, <1>4
    <2>2. f \in todo[d] \/ Sending(k, t) \/ (client_mutex = k /\ t \in srvBlob)
      BY <1>4, <2>1 DEF PushOf, Pushes, Refused, Sending
    <2>3. QED BY <1>2, <1>4, <2>2
  <1>5. pc' = pc /\ sock' = sock /\ todo' = todo /\ com' = com
    BY DEF clientVars, commandVars, folderVars
  <1>6. QED
    BY <1>3, <1>4, <1>5
       DEF PushOf, Pushes, Ready, Refused, Pushing, PushFrom, Completes, Sending

LEMMA ReadRequests ==
  ASSUME IInv, NEW k \in Conn, client_mutex = k, toServer[k] # <<>>
  PROVE  /\ toServer[k] \in Seq(Request) /\ AllAhead(toServer[k]) /\ k \in serverEnd
         /\ Head(toServer[k]) = toServer[k][1]
  BY Parts, TailRequests, WireAssumption DEF WireOK, WireTypeOK, ConnOK, Socket

(* The requests of no push: none of the session is part of one.            *)
LEMMA QuietPush ==
  ASSUME IInv, PushPart, UNCHANGED clientVars, NEW k \in Conn, OnlySession(k),
         client_mutex = k, toServer[k] # <<>>,
         ~Ready(k), ~Completes(k)' \/ toServer'[k] = Tail(toServer[k])
  PROVE  PushPart'
  <1>1. ~Completes(k)
    BY DEF PushPart
  <1>2. toServer[k] \in Seq(Request) /\ k \in serverEnd
    BY ReadRequests
  <1>3. ~Completes(k)'
    <2>1. SUFFICES ASSUME toServer'[k] = Tail(toServer[k]) PROVE ~Completes(k)'
      OBVIOUS
    <2>2. \A i \in 1..Len(Tail(toServer[k])) :
            Tail(toServer[k])[i] = toServer[k][i + 1] /\ i + 1 \in 1..Len(toServer[k])
      BY <1>2, TailRequests
    <2>3. QED BY <1>1, <2>1, <2>2 DEF Completes
  <1>4. \A d \in Client : sock[d] = k => PushOf(d)'
    BY <1>2, ReadPush DEF PushPart
  <1>5. QED BY <1>3, <1>4, HandlerPush

LEMMA RespondSession ==
  ASSUME IInv, NEW k \in Conn, client_mutex = k, NEW rest, NEW replies,
         Respond(k, rest, replies)
  PROVE  OnlySession(k) /\ toServer'[k] = rest /\ serverEnd' = serverEnd
  BY Parts DEF Respond, OnlySession, WireOK, WireTypeOK, Socket

LEMMA QuietHandlers ==
  ASSUME IInv, PushPart, UNCHANGED clientVars, NEW k \in Conn,
         \/ HandleCreate(k) \/ HandleDestroy(k) \/ HandleRollback(k)
         \/ HandleReceiveManifest(k) \/ HandleReceiveFile(k)
         \/ HandleCurrentVersion(k) \/ HandleHistory(k)
  PROVE  PushPart'
  <1>1. PICK o \in {"cret", "dest", "roll", "manifest", "recv", "crvs", "hist"} : Received(k, o)
    BY DEF HandleCreate, HandleDestroy, HandleRollback, HandleReceiveManifest,
           HandleReceiveFile, HandleCurrentVersion, HandleHistory
  <1>2. \E replies : Respond(k, Tail(toServer[k]), replies)
    BY HeapAssumption DEF HandleCreate, HandleDestroy, HandleRollback, HandleReceiveManifest,
           HandleReceiveFile, HandleCurrentVersion, HandleHistory, Answer
  <1>3. client_mutex = k /\ toServer[k] # <<>> /\ Head(toServer[k]).op = o
    BY <1>1 DEF Received
  <1>4. OnlySession(k) /\ toServer'[k] = Tail(toServer[k])
    BY <1>2, <1>3, RespondSession
  <1>5. ~Ready(k)
    BY <1>3, ReadRequests, FromAll DEF Ready, Refused
  <1>6. QED BY <1>3, <1>4, <1>5, QuietPush

(* What the requests after the first still announce.                       *)
LEMMA TailSession ==
  ASSUME NEW k \in Conn, toServer[k] \in Seq(Request), toServer[k] # <<>>,
         toServer'[k] = Tail(toServer[k])
  PROVE  /\ Completes(k)' => Completes(k)
         /\ \A t : Sending(k, t) => \/ Sending(k, t)'
                                   \/ Head(toServer[k]) = [op |-> "send", hash |-> t, content |-> t]
  <1>1. /\ Len(toServer[k]) \in Nat \ {0} /\ Head(toServer[k]) = toServer[k][1]
        /\ Len(Tail(toServer[k])) = Len(toServer[k]) - 1
        /\ \A i \in 1..Len(Tail(toServer[k])) :
             Tail(toServer[k])[i] = toServer[k][i + 1] /\ i + 1 \in 1..Len(toServer[k])
    BY TailRequests
  <1>2. Completes(k)' => Completes(k)
    BY <1>1 DEF Completes
  <1>3. ASSUME NEW t, Sending(k, t),
               Head(toServer[k]) # [op |-> "send", hash |-> t, content |-> t]
        PROVE  Sending(k, t)'
    <2>1. PICK i \in 1..Len(toServer[k]) : toServer[k][i] = [op |-> "send", hash |-> t, content |-> t]
      BY <1>3 DEF Sending
    <2>2. i # 1
      BY <1>1, <1>3, <2>1
    <2>3. i - 1 \in 1..Len(Tail(toServer[k])) /\ Tail(toServer[k])[i - 1] = toServer[k][i]
      BY <1>1, <2>2
    <2>4. QED BY <2>1, <2>3 DEF Sending
  <1>4. QED BY <1>2, <1>3

(* A push is accepted: its session goes on.                                *)
LEMMA AcceptPushPart ==
  ASSUME IInv, PushPart, UNCHANGED clientVars, NEW k \in Conn, AcceptPush(k)
  PROVE  PushPart'
  <1>1. /\ client_mutex = k /\ toServer[k] # <<>> /\ Head(toServer[k]).op = "push"
        /\ srvMani \in Manifest /\ srvMani' = srvMani /\ isPushing' = TRUE
        /\ srvTmp' = (IF Head(toServer[k]).manifest = None THEN Bad ELSE Head(toServer[k]).manifest)
        /\ UNCHANGED <<client_mutex, srvBlob>>
        /\ Respond(k, Tail(toServer[k]), <<[ok |-> TRUE]>>)
    BY DEF AcceptPush, Received, Acceptable, IsProject, Answer
  <1>2. OnlySession(k) /\ toServer'[k] = Tail(toServer[k])
    BY <1>1, RespondSession
  <1>3. toServer[k] \in Seq(Request) /\ k \in serverEnd
    BY <1>1, ReadRequests
  <1>4. Completes(k)' => Completes(k)
    BY <1>1, <1>2, <1>3, TailSession
  <1>5. ASSUME Ready(k) PROVE Ready(k)'
    <2>1. PushFrom(toServer[k], 2) /\ Head(toServer[k]).manifest \in Manifest
      BY <1>1, <1>3, <1>5, FromAll DEF Ready, Refused
    <2>2. PushFrom(Tail(toServer[k]), 1)
      BY <1>1, <1>3, <2>1, FromTail
    <2>3. Pushing(k)'
      BY <1>1, <2>1, NotManifest DEF Pushing
    <2>4. QED BY <1>2, <2>2, <2>3 DEF Ready, PushFrom
  <1>6. ASSUME NEW t, Sending(k, t) PROVE Sending(k, t)'
    <2>1. Head(toServer[k]) # [op |-> "send", hash |-> t, content |-> t]
      BY <1>1
    <2>2. \A u : Sending(k, u) => \/ Sending(k, u)'
                               \/ Head(toServer[k]) = [op |-> "send", hash |-> u, content |-> u]
      BY <1>1, <1>2, <1>3, TailSession
    <2>3. QED BY <1>6, <2>1, <2>2
  <1>7. \A d \in Client : sock[d] = k => PushOf(d)'
    BY <1>1, <1>3, <1>4, <1>5, <1>6, ReadPush DEF PushPart, Refused
  <1>8. (Completes(k) => Ready(k))'
    BY <1>4, <1>5 DEF PushPart
  <1>9. QED BY <1>2, <1>7, <1>8, HandlerPush

(* A push is refused: its .Manifest ends the session.                      *)
LEMMA RejectPushPart ==
  ASSUME IInv, PushPart, UNCHANGED clientVars, NEW k \in Conn, RejectPush(k)
  PROVE  PushPart'
  <1>1. client_mutex = k /\ toServer[k] # <<>> /\ Head(toServer[k]).op = "push"
    BY DEF RejectPush, Received
  <1>2. toServer[k] \in Seq(Request) /\ k \in serverEnd
    BY <1>1, ReadRequests
  <1> DEFINE rest == <<[op |-> "payload"]>> \o Tail(toServer[k])
  <1>3. PICK replies : Respond(k, rest, replies)
    BY DEF RejectPush
  <1>4. OnlySession(k) /\ toServer'[k] = rest
    <2> HIDE DEF rest
    <2>1. QED BY <1>1, <1>3, RespondSession
  <1>5. Refused(k)' /\ Ready(k)'
    <2>1. rest # <<>> /\ Head(rest) = [op |-> "payload"]
      BY <1>1, <1>2
    <2>2. QED BY <1>4, <2>1 DEF Refused, Ready
  <1>6. Completes(k)' => Completes(k)
    <2>1. /\ Len(rest) = Len(toServer[k])
          /\ \A i \in 1..Len(rest) : i # 1 => rest[i] = toServer[k][i]
          /\ rest[1] = [op |-> "payload"]
      BY <1>1, <1>2
    <2> HIDE DEF rest
    <2>2. QED BY <1>4, <2>1 DEF Completes
  <1>7. \A d \in Client : sock[d] = k => PushOf(d)'
    BY <1>1, <1>2, <1>5, <1>6, ReadPush DEF PushPart
  <1>8. QED BY <1>4, <1>5, <1>7, HandlerPush

(* Outside a push nothing of the session is part of one.                   *)
LEMMA RefuseSendPart ==
  ASSUME IInv, PushPart, UNCHANGED clientVars, NEW k \in Conn, RefuseSend(k)
  PROVE  PushPart'
  <1>1. /\ client_mutex = k /\ toServer[k] # <<>> /\ Head(toServer[k]).op = "send"
        /\ ~isPushing
    BY DEF RefuseSend, Received
  <1>2. toServer[k] \in Seq(Request) /\ k \in serverEnd
    BY <1>1, ReadRequests
  <1>3. ~Ready(k) /\ ~Completes(k)
    BY <1>1 DEF Ready, Refused, Pushing, PushPart
  <1>4. PICK unread, replies :
          /\ unread \in {<<>>, <<[op |-> "payload"]>>}
          /\ Respond(k, unread \o Tail(toServer[k]), replies)
    BY DEF RefuseSend
  <1>5. OnlySession(k) /\ toServer'[k] = unread \o Tail(toServer[k])
    BY <1>1, <1>4, RespondSession
  <1>6. CASE unread = <<>>
    <2>1. toServer'[k] = Tail(toServer[k])
      BY <1>1, <1>2, <1>5, <1>6
    <2>2. QED BY <1>1, <1>3, <1>5, <2>1, QuietPush
  <1>7. CASE unread = <<[op |-> "payload"]>>
    <2> DEFINE rest == <<[op |-> "payload"]>> \o Tail(toServer[k])
    <2>1. /\ Len(rest) = Len(toServer[k])
          /\ \A i \in 1..Len(rest) : i # 1 => rest[i] = toServer[k][i]
          /\ rest[1] = [op |-> "payload"]
      BY <1>1, <1>2
    <2>2. toServer'[k] = rest
      BY <1>5, <1>7
    <2> HIDE DEF rest
    <2>3. ~Completes(k)'
      BY <1>3, <2>1, <2>2 DEF Completes
    <2>4. QED BY <1>1, <1>3, <1>5, <2>3, QuietPush
  <1>8. QED BY <1>4, <1>6, <1>7

(* A content arrives: it was announced, and is stored now.                 *)
LEMMA SendFilePart ==
  ASSUME IInv, PushPart, UNCHANGED clientVars, NEW k \in Conn, HandleSendFile(k)
  PROVE  PushPart'
  <1>1. /\ client_mutex = k /\ toServer[k] # <<>> /\ Head(toServer[k]).op = "send"
        /\ srvBlob' = (IF Stores(Head(toServer[k])) THEN srvBlob \cup {Head(toServer[k]).hash}
                       ELSE srvBlob)
        /\ UNCHANGED <<client_mutex, isPushing, srvMani, srvTmp>>
        /\ Respond(k, Tail(toServer[k]), <<[ok |-> Stores(Head(toServer[k]))]>>)
    BY DEF HandleSendFile, Received, Answer
  <1>2. OnlySession(k) /\ toServer'[k] = Tail(toServer[k])
    BY <1>1, RespondSession
  <1>3. toServer[k] \in Seq(Request) /\ k \in serverEnd /\ Head(toServer[k]) = toServer[k][1]
    BY <1>1, ReadRequests
  <1>4. Completes(k)' => Completes(k)
    BY <1>1, <1>2, <1>3, TailSession
  <1>5. ASSUME Ready(k) PROVE Ready(k)' /\ Pushing(k)
    <2>1. PushFrom(toServer[k], 1) /\ Pushing(k)
      BY <1>1, <1>5 DEF Ready, Refused
    <2>2. PushFrom(Tail(toServer[k]), 1)
      BY <1>1, <1>3, <2>1, FromAll, FromTail
    <2>3. Pushing(k)'
      BY <1>1, <2>1 DEF Pushing
    <2>4. QED BY <1>2, <2>1, <2>2, <2>3 DEF Ready, PushFrom
  <1>6. ASSUME Ready(k), NEW t, Sending(k, t) \/ (client_mutex = k /\ t \in srvBlob)
        PROVE  Sending(k, t)' \/ (client_mutex' = k /\ t \in srvBlob')
    <2>1. CASE t \in srvBlob
      BY <1>1, <2>1
    <2>2. CASE Head(toServer[k]) = [op |-> "send", hash |-> t, content |-> t]
      <3>1. Stores(Head(toServer[k])) /\ Head(toServer[k]).hash = t
        BY <1>5, <1>6, <2>2, NotManifest DEF Stores, IsProject, Pushing
      <3>2. QED BY <1>1, <3>1
    <2>3. CASE Sending(k, t) /\ Head(toServer[k]) # [op |-> "send", hash |-> t, content |-> t]
      <3>1. \A u : Sending(k, u) => \/ Sending(k, u)'
                                 \/ Head(toServer[k]) = [op |-> "send", hash |-> u, content |-> u]
        BY <1>1, <1>2, <1>3, TailSession
      <3>2. QED BY <2>3, <3>1
    <2>4. QED BY <1>6, <2>1, <2>2, <2>3
  <1>7. \A d \in Client : sock[d] = k => PushOf(d)'
    BY <1>1, <1>3, <1>4, <1>5, <1>6, ReadPush DEF PushPart, Refused
  <1>8. (Completes(k) => Ready(k))'
    BY <1>4, <1>5 DEF PushPart
  <1>9. QED BY <1>2, <1>7, <1>8, HandlerPush

(* A cplt is read in a session whose push was accepted, and is its last.   *)
LEMMA LastRequest ==
  ASSUME IInv, PushPart, NEW k \in Conn, Received(k, "cplt")
  PROVE  Pushing(k) /\ Len(toServer[k]) = 1 /\ Completes(k)
  <1>1. client_mutex = k /\ toServer[k] # <<>> /\ Head(toServer[k]).op = "cplt"
    BY DEF Received
  <1>2. toServer[k] \in Seq(Request) /\ Head(toServer[k]) = toServer[k][1]
    BY <1>1, ReadRequests
  <1>3. Completes(k)
    BY <1>1, <1>2, TailRequests DEF Completes
  <1>4. Pushing(k) /\ PushFrom(toServer[k], 1)
    BY <1>1, <1>3 DEF PushPart, Ready, Refused
  <1>5. QED BY <1>1, <1>2, <1>3, <1>4, FromAll

LEMMA CompletePart ==
  ASSUME IInv, PushPart, UNCHANGED clientVars, NEW k \in Conn, HandleComplete(k)
  PROVE  PushPart'
  <1>1. /\ Received(k, "cplt") /\ client_mutex = k /\ toServer[k] # <<>>
        /\ Head(toServer[k]).op = "cplt"
        /\ UNCHANGED <<client_mutex, srvBlob>>
        /\ Respond(k, Tail(toServer[k]), <<[ok |-> isPushing]>>)
    BY DEF HandleComplete, Received, Answer, Publish
  <1>2. OnlySession(k) /\ toServer'[k] = Tail(toServer[k])
    BY <1>1, RespondSession
  <1>3. toServer[k] \in Seq(Request) /\ k \in serverEnd /\ Head(toServer[k]) = toServer[k][1]
    BY <1>1, ReadRequests
  <1>4. Completes(k) /\ toServer'[k] = <<>>
    BY <1>1, <1>2, <1>3, LastRequest, LastOne
  <1>5. ASSUME NEW t, Sending(k, t) \/ (client_mutex = k /\ t \in srvBlob)
        PROVE  client_mutex' = k /\ t \in srvBlob'
    <2>1. ~Sending(k, t)
      BY <1>1, <1>3, LastRequest DEF Sending
    <2>2. QED BY <1>1, <1>5, <2>1
  <1>6. \A d \in Client : sock[d] = k => PushOf(d)'
    BY <1>1, <1>3, <1>4, <1>5, ReadPush DEF PushPart, Refused
  <1>7. (Completes(k) => Ready(k))'
    BY <1>4 DEF Completes
  <1>8. QED BY <1>2, <1>6, <1>7, HandlerPush

LEMMA LockPart ==
  ASSUME IInv, PushPart, UNCHANGED clientVars, NEW k \in Conn, Lock(k)
  PROVE  PushPart'
  <1>1. \A j \in Conn : SameSession(j)
    BY WireAssumption DEF Lock, SameSession, Pushing, wireVars, diskVars
  <1>2. OnlySession(k)
    BY DEF Lock, OnlySession, wireVars
  <1>3. (Completes(k) => Ready(k))'
    BY <1>1, CompletesKept DEF PushPart
  <1>4. ASSUME NEW d \in Client, sock[d] = k PROVE PushOf(d)'
    <2>1. sock[d] \in Conn => SameSession(sock[d])
      <3>1. SameSession(k)
        BY <1>1
      <3>2. QED BY <1>4, <3>1
    <2>2. QED
      BY <2>1, <1>2, Parts, PushKept
         DEF PushPart, OnlySession, WireOK, WireTypeOK, clientVars, folderVars, commandVars
  <1>5. QED BY <1>2, <1>3, <1>4, HandlerPush

LEMMA EndSessionPart ==
  ASSUME IInv, PushPart, UNCHANGED clientVars, NEW k \in Conn, EndSession(k)
  PROVE  PushPart'
  <1>1. client_mutex = k /\ \E n : Close(k, n)
    BY DEF EndSession
  <1>2. OnlySession(k) /\ toServer'[k] = <<>> /\ k \notin serverEnd'
    BY <1>1, Parts DEF Close, OnlySession, WireOK, WireTypeOK, Socket
  <1>3. (Completes(k) => Ready(k))'
    BY <1>2 DEF Completes
  <1>4. \A d \in Client : sock[d] = k => PushOf(d)'
    BY <1>2 DEF PushOf, clientVars, commandVars
  <1>5. QED BY <1>2, <1>3, <1>4, HandlerPush

(* When the server stops, every session is over.                           *)
LEMMA StopPart ==
  ASSUME NEW replies, StoppedWith(replies)
  PROVE  PushPart'
  BY DEF StoppedWith, PushPart, PushOf, Completes, Socket

LEMMA ThreadPush ==
  ASSUME IInv, PushPart, UNCHANGED clientVars,
         CrashSomewhere \/ \E k \in Conn : Serve(k) \/ ParseFault(k) \/ CrashInDestroy(k)
  PROVE  PushPart'
  <1>1. ASSUME NEW k \in Conn, Serve(k) PROVE PushPart'
    BY <1>1, LockPart, EndSessionPart, QuietHandlers, AcceptPushPart, RejectPushPart,
       SendFilePart, RefuseSendPart, CompletePart DEF Serve
  <1>2. CASE CrashSomewhere \/ \E k \in Conn : ParseFault(k) \/ CrashInDestroy(k)
    BY <1>2, StopPart DEF CrashSomewhere, Crash, CrashInCreate, CrashInSend, CrashInComplete,
                          CrashInDestroy, ParseFault, Stopped
  <1>3. QED BY <1>1, <1>2

-----------------------------------------------------------------------------
(* The clients.  Their steps leave the server's state alone.               *)

LEMMA TornKeeps ==
  ASSUME NEW m \in Request
  PROVE  Torn(m).op = m.op /\ (m.op = "cplt" => Torn(m) = m)
  <1>1. CASE m.op = "push"
    BY <1>1, PushFields DEF Torn
  <1>2. CASE m.op = "send"
    BY <1>2, SendFields DEF Torn
  <1>3. QED BY <1>1, <1>2 DEF Torn

(* What a client killed while sending leaves of a push that is complete is *)
(* all of it.                                                              *)
LEMMA CutPush ==
  ASSUME NEW q \in Seq(Request), NEW s \in Cuts(q)
  PROVE  /\ s # <<>> => q # <<>> /\ Head(s).op = Head(q).op
         /\ \A i \in 1..Len(s) : s[i].op = "cplt" => i \in 1..Len(q) /\ q[i].op = "cplt"
         /\ \A i \in 1..Len(s) : i = Len(q) /\ q[i].op = "cplt" => s = q
  <1>1. \A m \in Request : Torn(m).op = m.op /\ (m.op = "cplt" => Torn(m) = m)
    BY TornKeeps
  <1>2. CASE \E n \in 0..Len(q) : s = SubSeq(q, 1, n)
    <2>1. PICK n \in 0..Len(q) : s = SubSeq(q, 1, n)
      BY <1>2
    <2>2. s \in Seq(Request) /\ Len(s) = n /\ \A i \in 1..n : s[i] = q[i]
      BY <2>1
    <2>3. n = Len(q) => s = q
      BY <2>1
    <2>4. s # <<>> => q # <<>> /\ Head(s) = s[1] /\ Head(q) = q[1] /\ n # 0
      BY <2>1, <2>2
    <2>5. QED BY <2>2, <2>3, <2>4
  <1>3. CASE \E n \in 1..Len(q) : s = [SubSeq(q, 1, n) EXCEPT ![n] = Torn(q[n])]
    <2>1. PICK n \in 1..Len(q) : s = [SubSeq(q, 1, n) EXCEPT ![n] = Torn(q[n])]
      BY <1>3
    <2> DEFINE p == SubSeq(q, 1, n)
    <2>2. p \in Seq(Request) /\ Len(p) = n /\ \A i \in 1..n : p[i] = q[i]
      OBVIOUS
    <2>3. n = Len(q) => p = q
      OBVIOUS
    <2>4. s = [p EXCEPT ![n] = Torn(q[n])] /\ q[n] \in Request
      BY <2>1
    <2> HIDE DEF p
    <2>5. Torn(q[n]) \in Request
      BY <2>4, TornRequest
    <2>6. s \in Seq(Request) /\ Len(s) = n /\ s # <<>> /\ q # <<>>
      BY <2>2, <2>4, <2>5
    <2>7. \A i \in 1..n : s[i] = IF i = n THEN Torn(q[n]) ELSE q[i]
      BY <2>2, <2>4
    <2>8. Head(s) = s[1] /\ Head(q) = q[1]
      BY <2>6
    <2>9. n = Len(q) /\ q[n].op = "cplt" => s = q
      <3>1. SUFFICES ASSUME n = Len(q), q[n].op = "cplt" PROVE s = q
        OBVIOUS
      <3>2. Torn(q[n]) = q[n]
        BY <1>1, <2>4, <3>1
      <3>3. s = [q EXCEPT ![n] = q[n]]
        BY <2>3, <2>4, <3>1, <3>2
      <3>4. QED BY <3>3
    <2>10. QED BY <1>1, <2>4, <2>6, <2>7, <2>8, <2>9
  <1>4. QED BY <1>2, <1>3 DEF Cuts

(* A step of c on the connection k: the other sessions stay as they are.   *)
LEMMA ClientPush ==
  ASSUME IInv, PushPart, UNCHANGED serverVars, NEW c \in Client, NEW k \in Socket,
         \A j \in Conn \ {k} :
           toServer'[j] = toServer[j] /\ (j \in serverEnd' => j \in serverEnd),
         serverEnd' \subseteq Conn,
         \A d \in Client \ {c} :
           SameCommand(d) /\ com'[d] = com[d] /\ (sock[d] = k => sock[d] = None),
         (Completes(k) => Ready(k))', PushOf(c)'
  PROVE  PushPart'
  <1>1. \A j \in Conn \ {k} : SameSession(j)
    BY DEF SameSession, Pushing, serverVars, diskVars
  <1>2. ASSUME NEW j \in Conn PROVE (Completes(j) => Ready(j))'
    BY <1>1, CompletesKept DEF PushPart
  <1>3. ASSUME NEW d \in Client \ {c} PROVE PushOf(d)'
    <2>1. sock[d] \in Conn => SameSession(sock[d])
      <3>1. SUFFICES ASSUME NEW j \in Conn \ {k}, j = sock[d] PROVE SameSession(sock[d])
        BY WireAssumption
      <3>2. SameSession(j)
        BY <1>1
      <3>3. QED BY <3>1, <3>2
    <2>2. QED BY <2>1, PushKept DEF PushPart, SameCommand
  <1>4. QED BY <1>2, <1>3 DEF PushPart

(* A step of c that sends nothing.                                         *)
LEMMA SilentPush ==
  ASSUME IInv, PushPart, UNCHANGED <<serverVars, toServer, serverEnd>>, NEW c \in Client,
         \A d \in Client \ {c} : SameCommand(d) /\ com'[d] = com[d],
         pc'[c] \in Pushes =>
           /\ pc[c] \in Pushes /\ (pc'[c] = "complete" <=> pc[c] = "complete")
           /\ sock'[c] = sock[c] /\ todo'[c] = todo[c] /\ com'[c] = com[c]
  PROVE  PushPart'
  <1>1. \A j \in Conn : SameSession(j)
    BY DEF SameSession, Pushing, serverVars, diskVars
  <1>2. ASSUME NEW j \in Conn PROVE (Completes(j) => Ready(j))'
    BY <1>1, CompletesKept DEF PushPart
  <1>3. ASSUME NEW d \in Client PROVE PushOf(d)'
    <2>1. sock[d] \in Conn => SameSession(sock[d])
      <3>1. SUFFICES ASSUME NEW j \in Conn, j = sock[d] PROVE SameSession(sock[d])
        OBVIOUS
      <3>2. SameSession(j)
        BY <1>1
      <3>3. QED BY <3>1, <3>2
    <2>2. QED BY <2>1, Parts, PushKept DEF PushPart, WireOK, WireTypeOK, SameCommand
  <1>4. QED BY <1>2, <1>3 DEF PushPart

LEMMA BeginPush ==
  ASSUME IInv, PushPart, UNCHANGED serverVars, NEW c \in Client, NEW k \in Conn,
         NEW m \in Request, m.op # "cplt", NEW requests \in {<<>>, <<m>>}, NEW label,
         Begin(c, k, requests, label), com' = com, \A d \in Client \ {c} : todo'[d] = todo[d],
         label \in Pushes =>
           /\ label = "push" /\ requests = <<m>> /\ m.op = "push" /\ m.manifest \in Manifest
           /\ todo'[c] = {f \in File : com[c][f] # None}
  PROVE  PushPart'
  <1>1. /\ CommandType /\ WireOK /\ k \notin clientEnd /\ k \notin serverEnd
        /\ toServer' = [toServer EXCEPT ![k] = requests] /\ serverEnd' = serverEnd \cup {k}
        /\ pc' = [pc EXCEPT ![c] = label] /\ sock' = [sock EXCEPT ![c] = k]
        /\ UNCHANGED <<cur, at, got>>
    BY Parts DEF Begin, Connect, Free
  <1>2. /\ \A j \in Conn \ {k} :
             toServer'[j] = toServer[j] /\ (j \in serverEnd' => j \in serverEnd)
        /\ toServer'[k] = requests /\ pc'[c] = label /\ sock'[c] = k
        /\ k \in Socket /\ serverEnd' \subseteq Conn
    BY <1>1 DEF WireOK, WireTypeOK, CommandType, Socket
  <1>3. \A d \in Client \ {c} :
          SameCommand(d) /\ com'[d] = com[d] /\ (sock[d] = k => sock[d] = None)
    BY <1>1, WireAssumption DEF CommandType, SameCommand, WireOK, ConnOK
  <1>4. ~Completes(k)'
    BY <1>2 DEF Completes
  <1>5. PushOf(c)'
    <2>1. SUFFICES ASSUME label \in Pushes PROVE PushOf(c)'
      BY <1>2 DEF PushOf, Pushes
    <2>2. /\ Head(<<m>>) = m /\ Len(<<m>>) = 1 /\ <<m>> # <<>>
          /\ m.op = "push" /\ m.manifest \in Manifest
      BY <2>1
    <2>3. toServer'[k] = <<m>>
      BY <1>2, <2>1
    <2>4. Ready(k)'
      BY <2>2, <2>3 DEF Ready, PushFrom
    <2>5. QED BY <1>2, <1>4, <2>1, <2>4
         DEF PushOf, Pushes, Ready, Refused, Pushing, PushFrom, Completes
  <1>6. QED BY <1>2, <1>3, <1>4, <1>5, ClientPush

LEMMA EndPush ==
  ASSUME IInv, PushPart, UNCHANGED serverVars, NEW c \in Client, pc[c] # "idle",
         NEW requests, EndWith(c, requests), \A d \in Client \ {c} : com'[d] = com[d],
         NEW k \in Socket, k = sock[c],
         k \in serverEnd /\ toServer'[k] = requests => (Completes(k) => Ready(k))'
  PROVE  PushPart'
  <1>1. CommandType /\ WireOK
    BY Parts
  <1>2. \A d \in Client \ {c} : sock[d] = k => sock[d] = None
    BY <1>1, OwnConnection DEF WireOK, WireTypeOK
  <1>3. /\ toServer' = [toServer EXCEPT ![k] = IF k \in serverEnd THEN requests ELSE <<>>]
        /\ pc' = [pc EXCEPT ![c] = "idle"] /\ sock' = [sock EXCEPT ![c] = None]
        /\ todo' = [todo EXCEPT ![c] = {}] /\ cur' = [cur EXCEPT ![c] = None]
        /\ at' = [at EXCEPT ![c] = None] /\ got' = [got EXCEPT ![c] = None]
        /\ serverEnd' = serverEnd
    BY <1>2 DEF EndWith, HangUp
  <1>4. /\ \A j \in Conn \ {k} : toServer'[j] = toServer[j]
        /\ toServer'[k] = IF k \in serverEnd THEN requests ELSE <<>>
        /\ serverEnd' \subseteq Conn
    BY <1>1, <1>3 DEF WireOK, WireTypeOK, Socket
  <1>5. pc'[c] = "idle" /\ \A d \in Client \ {c} : SameCommand(d)
    BY <1>1, <1>3 DEF CommandType, SameCommand
  <1>6. (Completes(k) => Ready(k))'
    <2>1. CASE k \in serverEnd
      BY <1>2, <1>4, <2>1
    <2>2. CASE k \notin serverEnd
      BY <1>4, <2>2 DEF Completes
    <2>3. QED BY <2>1, <2>2
  <1>7. PushOf(c)'
    BY <1>5 DEF PushOf
  <1>8. QED BY <1>2, <1>3, <1>4, <1>5, <1>6, <1>7, ClientPush

LEMMA EndingPush ==
  ASSUME IInv, PushPart, UNCHANGED serverVars, NEW c \in Client, pc[c] # "idle",
         EndWith(c, toServer[sock[c]]), \A d \in Client \ {c} : com'[d] = com[d]
  PROVE  PushPart'
  <1>1. PICK k \in Socket : k = sock[c]
    BY Parts DEF CommandType
  <1>2. ASSUME toServer'[k] = toServer[k], k \in serverEnd
        PROVE  (Completes(k) => Ready(k))'
    <2>1. SameSession(k) /\ k \in Conn
      BY <1>2, Parts DEF SameSession, Pushing, serverVars, diskVars, WireOK, WireTypeOK
    <2>2. QED BY <2>1, CompletesKept DEF PushPart
  <1>3. QED BY <1>1, <1>2, EndPush

(* A push is given up before its cplt.                                     *)
LEMMA GiveUpPush ==
  ASSUME IInv, PushPart, UNCHANGED serverVars, NEW c \in Client, pc[c] \in {"sent", "abort"},
         GiveUp(c)
  PROVE  PushPart'
  <1> DEFINE m == [op |-> "fail"]
  <1>1. m \in Request /\ m.op = "fail"
    BY SimpleRequests
  <1>2. EndWith(c, Append(toServer[sock[c]], m)) /\ com' = com
    BY DEF GiveUp, Bump
  <1> HIDE DEF m
  <1> PICK k \in Socket : k = sock[c]
    BY Parts DEF CommandType
  <1>3. ASSUME toServer'[k] = Append(toServer[k], m), k \in serverEnd
        PROVE  ~Completes(k)'
    <2>1. ~Completes(k)
      BY <1>3 DEF PushPart, PushOf
    <2>2. toServer[k] \in Seq(Request)
      BY Parts DEF WireOK, WireTypeOK
    <2>3. \A i \in 1..Len(toServer'[k]) :
            toServer'[k][i] = IF i \in 1..Len(toServer[k]) THEN toServer[k][i] ELSE m
      BY <1>1, <1>3, <2>2
    <2>4. QED BY <1>1, <2>1, <2>3 DEF Completes
  <1>4. QED BY <1>2, <1>3, EndPush

LEMMA CutReady ==
  ASSUME IInv, PushPart, UNCHANGED serverVars, NEW k \in serverEnd, serverEnd' = serverEnd,
         NEW s \in Cuts(toServer[k]), toServer'[k] = s
  PROVE  (Completes(k) => Ready(k))'
  <1> SUFFICES ASSUME Completes(k)' PROVE Ready(k)'
    OBVIOUS
  <1> DEFINE q == toServer[k]
  <1>1. q \in Seq(Request) /\ k \in Conn
    BY Parts DEF WireOK, WireTypeOK, Socket
  <1>2. PICK i \in 1..Len(s) : s[i].op = "cplt"
    BY DEF Completes
  <1>3. s # <<>> /\ i \in 1..Len(q) /\ q[i].op = "cplt" /\ (i = Len(q) => s = q)
        /\ Head(s).op = Head(q).op /\ q # <<>>
    BY <1>1, <1>2, CutPush
  <1>4. Ready(k)
    BY <1>1, <1>3 DEF Completes, PushPart
  <1>5. CASE Refused(k)
    BY <1>3, <1>5 DEF Refused, Ready
  <1>6. CASE ~Refused(k)
    <2>1. PushFrom(q, 2) /\ (Head(q).op = "push" \/ (Pushing(k) /\ PushFrom(q, 1)))
      BY <1>1, <1>3, <1>4, <1>6, FromAll DEF Ready
    <2>2. i = Len(q)
      <3>1. CASE i = 1
        BY <1>1, <1>3, <2>1, <3>1, TailRequests DEF PushFrom
      <3>2. CASE i # 1
        BY <1>3, <2>1, <3>2 DEF PushFrom
      <3>3. QED BY <3>1, <3>2
    <2>3. SameSession(k)
      BY <1>3, <2>2 DEF SameSession, Pushing, serverVars, diskVars
    <2>4. QED BY <1>1, <1>4, <2>3, SessionKept
  <1>7. QED BY <1>5, <1>6

LEMMA KillPush ==
  ASSUME IInv, PushPart, UNCHANGED serverVars, NEW c \in Client, Kill(c)
  PROVE  PushPart'
  <1>1. PICK s \in Cuts(toServer[sock[c]]) : EndWith(c, s)
    BY DEF Kill
  <1>2. pc[c] # "idle" /\ com' = com
    BY DEF Kill, folderVars
  <1> PICK k \in Socket : k = sock[c]
    BY Parts DEF CommandType
  <1>3. ASSUME toServer'[k] = s, k \in serverEnd
        PROVE  (Completes(k) => Ready(k))'
    BY <1>1, <1>3, CutReady DEF EndWith, HangUp
  <1>4. QED BY <1>1, <1>2, <1>3, EndPush

(* An interrupted command has no session any more.                         *)
LEMMA InterruptPush ==
  ASSUME IInv, PushPart, UNCHANGED serverVars, NEW c \in Client, Interrupt(c)
  PROVE  PushPart'
  <1>1. CommandType /\ WireOK
    BY Parts
  <1>2. PICK s \in Cuts(toServer[sock[c]]) : HangUp(sock[c], s)
    BY DEF Interrupt
  <1>3. /\ sock' = [sock EXCEPT ![c] = None]
        /\ UNCHANGED <<com, pc, todo, cur, at, got>>
    BY DEF Interrupt, folderVars
  <1> PICK k \in Socket : k = sock[c]
    BY <1>1 DEF CommandType
  <1>4. /\ toServer' = [toServer EXCEPT ![k] = IF k \in serverEnd THEN s ELSE <<>>]
        /\ serverEnd' = serverEnd
    BY <1>2 DEF HangUp
  <1>5. /\ \A j \in Conn \ {k} : toServer'[j] = toServer[j]
        /\ toServer'[k] = IF k \in serverEnd THEN s ELSE <<>>
        /\ serverEnd' \subseteq Conn
    BY <1>1, <1>4 DEF WireOK, WireTypeOK, Socket
  <1>6. \A d \in Client \ {c} :
          SameCommand(d) /\ com'[d] = com[d] /\ (sock[d] = k => sock[d] = None)
    BY <1>1, <1>3, OwnConnection DEF CommandType, SameCommand, WireOK, WireTypeOK
  <1>7. (Completes(k) => Ready(k))'
    <2>1. CASE k \in serverEnd
      BY <1>2, <1>4, <1>5, <2>1, CutReady
    <2>2. CASE k \notin serverEnd
      BY <1>5, <2>2 DEF Completes
    <2>3. QED BY <2>1, <2>2
  <1>8. PushOf(c)'
    <2>1. sock'[c] = None /\ None \notin serverEnd'
      BY <1>1, <1>3, <1>4, WireAssumption DEF CommandType, WireOK, WireTypeOK
    <2>2. QED BY <2>1 DEF PushOf
  <1>9. QED BY <1>4, <1>5, <1>6, <1>7, <1>8, ClientPush

(* A running command sends m.                                              *)
LEMMA AskPush ==
  ASSUME IInv, PushPart, UNCHANGED serverVars, NEW c \in Client, NEW k \in Socket, k = sock[c],
         NEW m \in Request, NEW label, Ask(c, m, label), pc[c] # "idle",
         \A d \in Client \ {c} : /\ cur'[d] = cur[d] /\ at'[d] = at[d]
                                 /\ todo'[d] = todo[d] /\ com'[d] = com[d],
         (Completes(k) => Ready(k))', PushOf(c)'
  PROVE  PushPart'
  <1>1. CommandType /\ WireOK
    BY Parts
  <1>2. \A d \in Client \ {c} : sock[d] = k => sock[d] = None
    BY <1>1, OwnConnection DEF WireOK, WireTypeOK
  <1>3. /\ \A j \in Conn \ {k} : toServer'[j] = toServer[j]
        /\ UNCHANGED <<serverEnd, sock, got>> /\ pc' = [pc EXCEPT ![c] = label]
        /\ serverEnd' \subseteq Conn
    BY <1>1 DEF Ask, Sent, WireOK, WireTypeOK, Socket
  <1>4. \A d \in Client \ {c} : SameCommand(d)
    BY <1>1, <1>3 DEF SameCommand, CommandType
  <1>5. QED BY <1>2, <1>3, <1>4, ClientPush

(* What Ask adds to the session of k.                                      *)
LEMMA Appended ==
  ASSUME NEW k \in Socket, toServer[k] \in Seq(Request), NEW m \in Request,
         toServer'[k] = Append(toServer[k], m)
  PROVE  /\ Completes(k)' => Completes(k) \/ m.op = "cplt"
         /\ \A t : Sending(k, t) => Sending(k, t)'
         /\ \A t : m = [op |-> "send", hash |-> t, content |-> t] => Sending(k, t)'
         /\ Refused(k) => Refused(k)'
  <1> DEFINE q == toServer[k]
             r == toServer'[k]
  <1>1. Len(r) = Len(q) + 1 /\ Len(q) \in Nat /\ r[Len(q) + 1] = m
        /\ \A i \in 1..Len(q) : r[i] = q[i]
    OBVIOUS
  <1>2. 1..Len(r) = 1..Len(q) \cup {Len(q) + 1}
    BY <1>1
  <1>3. q # <<>> => r # <<>> /\ Head(r) = Head(q)
    OBVIOUS
  <1> HIDE DEF q, r
  <1>4. Completes(k)' => Completes(k) \/ m.op = "cplt"
    BY <1>1, <1>2 DEF Completes, q, r
  <1>5. ASSUME NEW t, Sending(k, t) PROVE Sending(k, t)'
    BY <1>1, <1>2, <1>5 DEF Sending, q, r
  <1>6. ASSUME NEW t, m = [op |-> "send", hash |-> t, content |-> t] PROVE Sending(k, t)'
    BY <1>1, <1>2, <1>6 DEF Sending, q, r
  <1>7. Refused(k) => Refused(k)'
    BY <1>3 DEF Refused, q, r
  <1>8. QED BY <1>4, <1>5, <1>6, <1>7

LEMMA AppendReady ==
  ASSUME NEW k \in Socket, toServer[k] \in Seq(Request), NEW m \in Request,
         toServer'[k] = Append(toServer[k], m), m.op \in {"send", "cplt"},
         UNCHANGED serverVars, Ready(k), ~Completes(k)
  PROVE  Ready(k)'
  <1> DEFINE q == toServer[k]
             r == toServer'[k]
  <1>1. Len(r) = Len(q) + 1 /\ Len(q) \in Nat /\ r[Len(q) + 1] = m
        /\ \A i \in 1..Len(q) : r[i] = q[i]
    OBVIOUS
  <1>2. q # <<>> => r # <<>> /\ Head(r) = Head(q)
    OBVIOUS
  <1>3. \A i \in 1..Len(q) : q[i].op # "cplt"
    BY DEF Completes, q
  <1> HIDE DEF q, r
  <1>4. ASSUME NEW n \in {1, 2}, PushFrom(q, n) PROVE PushFrom(r, n)
    <2>1. SUFFICES ASSUME NEW j \in n..Len(r)
                   PROVE  r[j].op \in {"send", "fail"} \/ (r[j].op = "cplt" /\ j = Len(r))
      BY DEF PushFrom
    <2>2. CASE j = Len(q) + 1
      BY <1>1, <2>2
    <2>3. CASE j # Len(q) + 1
      <3>1. j \in n..Len(q) /\ j \in 1..Len(q)
        BY <1>1, <2>3
      <3>2. QED BY <1>1, <1>3, <1>4, <3>1 DEF PushFrom
    <2>4. QED BY <2>2, <2>3
  <1>5. Pushing(k) => Pushing(k)'
    BY DEF Pushing, serverVars, diskVars
  <1>6. CASE Refused(k)
    BY <1>2, <1>6 DEF Refused, Ready, q, r
  <1>7. CASE q # <<>> /\ PushFrom(q, 2) /\ Head(q).op = "push" /\ Head(q).manifest \in Manifest
    BY <1>2, <1>4, <1>7 DEF Ready, PushFrom, q, r
  <1>8. CASE Pushing(k) /\ PushFrom(q, 1)
    BY <1>4, <1>5, <1>8 DEF Ready, PushFrom, q, r
  <1>9. QED BY <1>6, <1>7, <1>8 DEF Ready, q

(* A file is sent, which com still lists and todo does not any more.       *)
LEMMA PushFilePart ==
  ASSUME IInv, PushPart, UNCHANGED serverVars, NEW c \in Client, NEW f \in File, PushFile(c, f)
  PROVE  PushPart'
  <1>1. CommandType /\ FolderType /\ WireOK /\ PerClient(c)
    BY Parts
  <1>2. /\ pc[c] = "push" /\ f \in todo[c] /\ com' = com /\ cur' = cur /\ at' = at
        /\ todo' = [todo EXCEPT ![c] = @ \ {f}]
    BY DEF PushFile, folderVars
  <1>3. PICK t \in Text : t = com[c][f]
    BY <1>1, <1>2 DEF PerClient, CommandOf, FolderType, CommitFile, Entry
  <1> DEFINE m == [op |-> "send", hash |-> t, content |-> t]
  <1>4. m \in Request /\ m.op = "send"
    BY FileRequests DEF Entry
  <1>5. Ask(c, m, "sent")
    BY <1>3 DEF PushFile
  <1>6. m = [op |-> "send", hash |-> t, content |-> t]
    OBVIOUS
  <1> HIDE DEF m
  <1> PICK k \in Socket : k = sock[c]
    BY <1>1 DEF CommandType
  <1>7. /\ toServer[k] \in Seq(Request) /\ serverEnd' = serverEnd /\ sock' = sock
        /\ toServer'[k] = IF k \in serverEnd THEN Append(toServer[k], m) ELSE toServer[k]
        /\ pc'[c] = "sent" /\ todo'[c] = todo[c] \ {f}
    BY <1>1, <1>2, <1>5 DEF Ask, Sent, WireOK, WireTypeOK, CommandType
  <1>8. CASE k \in serverEnd
    <2>1. Ready(k) /\ ~Completes(k)
      BY <1>2, <1>8 DEF PushPart, PushOf
    <2>2. toServer'[k] = Append(toServer[k], m)
      BY <1>7, <1>8
    <2>3. Ready(k)' /\ ~Completes(k)'
      BY <1>4, <1>7, <2>1, <2>2, AppendReady, Appended
    <2>4. /\ Sending(k, t)' /\ \A u : Sending(k, u) => Sending(k, u)'
          /\ Refused(k) => Refused(k)'
      BY <1>4, <1>6, <1>7, <2>2, Appended
    <2>5. ASSUME NEW g \in File, NEW u, u = com[c][g], u # None, ~Refused(k)'
          PROVE  g \in todo'[c] \/ Sending(k, u)' \/ (client_mutex' = k /\ u \in srvBlob')
      <3>1. ~Refused(k)
        BY <2>4, <2>5
      <3>2. g \in todo[c] \/ Sending(k, u) \/ (client_mutex = k /\ u \in srvBlob)
        BY <1>2, <1>8, <2>5, <3>1 DEF PushPart, PushOf, Refused, Sending
      <3>3. g = f => u = t
        BY <1>3, <2>5
      <3>4. QED BY <1>7, <2>4, <3>2, <3>3 DEF serverVars, diskVars
    <2>6. PushOf(c)'
      BY <1>2, <1>7, <2>3, <2>5
         DEF PushOf, Ready, Refused, Pushing, PushFrom, Completes, Sending
    <2>7. QED BY <1>1, <1>2, <1>4, <1>5, <2>3, <2>6, AskPush DEF CommandType
  <1>9. CASE k \notin serverEnd
    <2>1. PushOf(c)' /\ ~Completes(k)'
      BY <1>1, <1>7, <1>9 DEF PushOf, WireOK, ConnOK, Completes
    <2>2. QED BY <1>1, <1>2, <1>4, <1>5, <2>1, AskPush DEF CommandType
  <1>10. QED BY <1>8, <1>9

LEMMA PushCompletePart ==
  ASSUME IInv, PushPart, UNCHANGED serverVars, NEW c \in Client, PushComplete(c)
  PROVE  PushPart'
  <1>1. CommandType /\ WireOK
    BY Parts
  <1> DEFINE m == [op |-> "cplt"]
  <1>2. m \in Request /\ m.op = "cplt"
    BY SimpleRequests
  <1>3. /\ pc[c] = "push" /\ todo[c] = {} /\ com' = com /\ todo' = todo
        /\ cur' = cur /\ at' = at
        /\ Ask(c, m, "complete")
    BY DEF PushComplete, folderVars
  <1> HIDE DEF m
  <1> PICK k \in Socket : k = sock[c]
    BY <1>1 DEF CommandType
  <1>4. /\ toServer[k] \in Seq(Request) /\ serverEnd' = serverEnd /\ sock' = sock
        /\ toServer'[k] = IF k \in serverEnd THEN Append(toServer[k], m) ELSE toServer[k]
        /\ pc'[c] = "complete"
    BY <1>1, <1>3 DEF Ask, Sent, WireOK, WireTypeOK, CommandType
  <1>5. CASE k \in serverEnd
    <2>1. Ready(k) /\ ~Completes(k)
      BY <1>3, <1>5 DEF PushPart, PushOf
    <2>2. toServer'[k] = Append(toServer[k], m)
      BY <1>4, <1>5
    <2>3. Ready(k)'
      BY <1>2, <1>4, <2>1, <2>2, AppendReady
    <2>4. /\ \A u : Sending(k, u) => Sending(k, u)'
          /\ Refused(k) => Refused(k)'
      BY <1>2, <1>4, <2>2, Appended
    <2>5. ASSUME NEW g \in File, NEW u, u = com[c][g], u # None, ~Refused(k)'
          PROVE  Sending(k, u)' \/ (client_mutex' = k /\ u \in srvBlob')
      <3>1. ~Refused(k)
        BY <2>4, <2>5
      <3>2. Sending(k, u) \/ (client_mutex = k /\ u \in srvBlob)
        BY <1>3, <1>5, <2>5, <3>1 DEF PushPart, PushOf, Refused, Sending
      <3>3. QED BY <2>4, <3>2 DEF serverVars, diskVars
    <2>6. PushOf(c)'
      BY <1>3, <1>4, <2>3, <2>5
         DEF PushOf, Ready, Refused, Pushing, PushFrom, Completes, Sending
    <2>7. QED BY <1>2, <1>3, <2>3, <2>6, AskPush
  <1>6. CASE k \notin serverEnd
    <2>1. PushOf(c)' /\ ~Completes(k)'
      BY <1>1, <1>4, <1>6 DEF PushOf, WireOK, ConnOK, Completes
    <2>2. QED BY <1>2, <1>3, <2>1, AskPush
  <1>7. QED BY <1>5, <1>6

(* upgrade and checkout ask for a file on a connection that sends no more. *)
LEMMA FetchPart ==
  ASSUME IInv, PushPart, UNCHANGED serverVars, NEW c \in Client, NEW f \in File,
         UpgradeFetch(c, f) \/ FetchFile(c, f)
  PROVE  PushPart'
  <1>1. CommandType /\ FolderType /\ WireOK /\ PerClient(c)
    BY Parts
  <1>2. PICK t \in Text, label \in {"blob", "file"} :
          Ask(c, [op |-> "recv", hash |-> t], label) /\ pc[c] \in {"upgrade", "fetch"}
    <2>1. CASE UpgradeFetch(c, f)
      BY <1>1, <2>1, Md5Type DEF UpgradeFetch, FolderType
    <2>2. CASE FetchFile(c, f)
      <3>1. mani[c] \in Manifest /\ f \in Listed(mani[c])
        BY <1>1, <2>2 DEF FetchFile, PerClient, CommandOf
      <3>2. mani[c].hash[f] \in Text
        BY <3>1 DEF Listed, Manifest, Entry
      <3>3. QED BY <2>2, <3>2 DEF FetchFile
    <2>3. QED BY <2>1, <2>2
  <1> DEFINE m == [op |-> "recv", hash |-> t]
  <1>3. m \in Request /\ m.op = "recv" /\ Ask(c, m, label)
    BY <1>2, FileRequests DEF Entry
  <1> HIDE DEF m
  <1> PICK k \in Socket : k = sock[c]
    BY <1>1 DEF CommandType
  <1>4. /\ toServer[k] = <<>> /\ pc'[c] = label
        /\ toServer'[k] = IF k \in serverEnd THEN Append(toServer[k], m) ELSE toServer[k]
    BY <1>1, <1>2, <1>3
       DEF PerClient, StreamOf, Under, Ask, Sent, WireOK, WireTypeOK, CommandType
  <1>5. ~Completes(k)' /\ PushOf(c)'
    BY <1>3, <1>4 DEF Completes, PushOf
  <1>6. /\ cur' = [cur EXCEPT ![c] = f] /\ todo' = [todo EXCEPT ![c] = @ \ {f}] /\ com' = com
        /\ \A d \in Client \ {c} : at'[d] = at[d]
    BY <1>1 DEF UpgradeFetch, FetchFile, folderVars, CommandType
  <1>7. QED BY <1>1, <1>2, <1>3, <1>5, <1>6, AskPush DEF CommandType

LEMMA RunPush ==
  ASSUME IInv, PushPart, NEW c \in Client, Run(c)
  PROVE  PushPart'
  <1>1. UNCHANGED serverVars
    BY DEF Run
  <1>2. CommandType /\ FolderType /\ WireOK
    BY Parts
  <1>3. ASSUME NEW k \in Conn, NEW o \in {"cret", "manifest", "crvs", "hist", "roll", "dest"},
               NEW label \in {"create", "update", "commit", "checkout", "ask", "destroy"},
               Begin(c, k, <<[op |-> o]>>, label), UNCHANGED <<com, todo>>
        PROVE  PushPart'
    <2> DEFINE m == [op |-> o]
    <2>1. m \in Request /\ m.op # "cplt" /\ Begin(c, k, <<m>>, label)
      BY <1>3, SimpleRequests
    <2> HIDE DEF m
    <2>2. QED BY <1>1, <1>3, <2>1, BeginPush DEF Pushes
  <1>4. ASSUME NEW k \in Conn,
               \/ Create(c, k) \/ Update(c, k) \/ Commit(c, k) \/ Checkout(c, k)
               \/ CurrentVersion(c, k) \/ History(c, k) \/ Rollback(c, k)
               \/ UnknownCommand(c, k)
        PROVE  PushPart'
    BY <1>3, <1>4 DEF Create, Update, Commit, Checkout, CurrentVersion, History, Rollback,
                      UnknownCommand, folderVars
  <1>5. ASSUME NEW k \in Conn, NEW t \in Contents, TestSendFile(c, k, t) PROVE PushPart'
    <2> DEFINE m == [op |-> "send", hash |-> t, content |-> t]
    <2>1. m \in Request /\ m.op # "cplt"
      BY ClientAssumption, FileRequests DEF Entry
    <2> HIDE DEF m
    <2>2. Begin(c, k, <<m>>, "ask") /\ UNCHANGED <<com, todo>>
      BY <1>5 DEF TestSendFile, folderVars, m
    <2>3. QED BY <1>1, <2>1, <2>2, BeginPush DEF Pushes
  <1>6. ASSUME NEW k \in Conn, Upgrade(c, k) PROVE PushPart'
    <2>1. Begin(c, k, <<>>, "upgrade") /\ com' = com /\ \A d \in Client \ {c} : todo'[d] = todo[d]
      BY <1>2, <1>6 DEF Upgrade, folderVars, CommandType
    <2>2. PICK m \in Request : m.op # "cplt"
      BY SimpleRequests
    <2>3. QED BY <1>1, <2>1, <2>2, BeginPush DEF Pushes
  <1>7. ASSUME mani[c] \in Manifest
        PROVE  /\ PushRequest(c) \in Request /\ PushRequest(c).op = "push"
               /\ PushRequest(c).manifest \in Manifest
    <2>1. mani[c].version \in Nat
      BY <1>7 DEF Manifest
    <2>2. PushRequest(c) \in Request
      BY <1>7, <2>1, PushRequests DEF PushRequest
    <2>3. QED BY <1>7, <2>2 DEF PushRequest
  <1>8. ASSUME NEW k \in Conn, Push(c, k) PROVE PushPart'
    <2> DEFINE m == PushRequest(c)
    <2>1. m \in Request /\ m.op = "push" /\ m.manifest \in Manifest
      BY <1>7, <1>8 DEF Push
    <2>2. /\ Begin(c, k, <<m>>, "push") /\ com' = com
          /\ \A d \in Client \ {c} : todo'[d] = todo[d]
          /\ todo'[c] = {f \in File : com[c][f] # None}
      BY <1>2, <1>8 DEF Push, folderVars, CommandType
    <2> HIDE DEF m
    <2>3. QED BY <1>1, <2>1, <2>2, BeginPush DEF Pushes
  <1>9. ASSUME NEW k \in Conn, PushFault(c, k) PROVE PushPart'
    <2>1. /\ k \notin clientEnd /\ k \notin serverEnd /\ pc[c] = "idle"
          /\ toServer' = [toServer EXCEPT ![k] = <<PushRequest(c)>>]
          /\ serverEnd' = serverEnd \cup {k} /\ UNCHANGED clientVars
          /\ PushRequest(c).op = "push"
      BY <1>7, <1>9 DEF PushFault, Free
    <2>2. /\ \A j \in Conn \ {k} : toServer'[j] = toServer[j] /\ (j \in serverEnd' => j \in serverEnd)
          /\ ~Completes(k)' /\ k \in Socket /\ serverEnd' \subseteq Conn
      BY <1>2, <2>1 DEF WireOK, WireTypeOK, Completes, Socket
    <2>3. \A d \in Client \ {c} :
            SameCommand(d) /\ com'[d] = com[d] /\ (sock[d] = k => sock[d] = None)
      BY <1>2, <2>1, WireAssumption
         DEF clientVars, folderVars, commandVars, SameCommand, WireOK, ConnOK, CommandType
    <2>4. PushOf(c)'
      BY <2>1 DEF PushOf, clientVars, commandVars
    <2>5. QED BY <1>1, <2>2, <2>3, <2>4, ClientPush
  <1>10. CASE Destroy(c) \/ \E f \in File : Add(c, f) \/ Remove(c, f)
    <2>1. pc'[c] = "idle" /\ UNCHANGED <<com, commandVars, toServer, serverEnd>>
      BY <1>10 DEF Destroy, Add, Remove, clientVars, folderVars, commandVars, wireVars
    <2>2. QED BY <1>1, <2>1, SilentPush DEF SameCommand, commandVars, Pushes
  <1>11. QED
    BY <1>4, <1>5, <1>6, <1>8, <1>9, <1>10 DEF Run, Launch

LEMMA StepPush ==
  ASSUME IInv, PushPart, UNCHANGED serverVars, NEW c \in Client,
         Proceed(c) \/ BrokenPipe(c)
  PROVE  PushPart'
  <1>1. CommandType /\ FolderType /\ WireOK
    BY Parts
  <1>2. ASSUME pc[c] # "idle", End(c), \A d \in Client \ {c} : com'[d] = com[d] PROVE PushPart'
    BY <1>2, EndingPush DEF End
  <1>3. CASE \/ Created(c) \/ UpdateFault(c) \/ Compare(c) \/ UpgradeEnd(c) \/ FetchEnd(c)
             \/ Queried(c) \/ BrokenPipe(c)
    BY <1>2, <1>3 DEF Created, UpdateFault, Compare, UpgradeEnd, FetchEnd, Queried, BrokenPipe,
                      folderVars
  <1>4. CASE Committed(c) \/ Destroyed(c)
    BY <1>1, <1>2, <1>4 DEF Committed, Destroyed, folderVars, FolderType
  <1>5. CASE PushAbort(c) \/ Pushed(c)
    <2>1. CASE PushAbort(c)
      BY <2>1, GiveUpPush DEF PushAbort
    <2>2. CASE Pushed(c)
      BY <2>2, EndingPush DEF Pushed, Bump
    <2>3. QED BY <1>5, <2>1, <2>2
  <1>6. ASSUME NEW label, Take(c, label), com' = com,
               \A d \in Client \ {c} : /\ todo'[d] = todo[d] /\ cur'[d] = cur[d]
                                       /\ at'[d] = at[d] /\ got'[d] = got[d],
               label \in Pushes => pc[c] = "sent" /\ label = "push" /\ todo' = todo
        PROVE  PushPart'
    <2>1. /\ UNCHANGED <<toServer, serverEnd, sock>> /\ pc' = [pc EXCEPT ![c] = label]
          /\ pc'[c] = label
      BY <1>1, <1>6 DEF Take, CommandType
    <2>2. \A d \in Client \ {c} : SameCommand(d)
      BY <1>1, <1>6, <2>1 DEF SameCommand, CommandType
    <2>3. QED BY <1>6, <2>1, <2>2, SilentPush DEF Pushes
  <1>7. CASE Updated(c)
    BY <1>1, <1>6, <1>7 DEF Updated, folderVars, CommandType, Pushes
  <1>8. CASE UpgradeWrite(c) \/ FetchWrite(c)
    BY <1>1, <1>6, <1>8 DEF UpgradeWrite, FetchWrite, CommandType, Pushes
  <1>9. CASE CheckedOut(c)
    <2>1. pc[c] # "idle" /\ com' = com
      BY <1>9 DEF CheckedOut
    <2>2. \/ End(c)
          \/ /\ Take(c, "fetch") /\ UNCHANGED <<cur, at, got>>
             /\ \E new : todo' = [todo EXCEPT ![c] = Listed(new)]
      BY <1>9 DEF CheckedOut
    <2>3. QED BY <1>1, <1>2, <1>6, <2>1, <2>2 DEF CommandType, Pushes
  <1>10. CASE PushReply(c)
    BY <1>6, <1>10, GiveUpPush DEF PushReply, folderVars
  <1>11. ASSUME NEW f \in File, PushMismatch(c, f) PROVE PushPart'
    <2>1. /\ UNCHANGED <<com, sock, todo, cur, at, got, toServer, serverEnd>> /\ pc[c] = "push"
          /\ pc' = [pc EXCEPT ![c] = "abort"]
      BY <1>11 DEF PushMismatch, folderVars, wireVars
    <2>2. pc'[c] = "abort" /\ \A d \in Client \ {c} : SameCommand(d)
      BY <1>1, <2>1 DEF SameCommand, CommandType
    <2>3. QED BY <2>1, <2>2, SilentPush DEF Pushes
  <1>12. ASSUME NEW f \in File, UpgradeDelete(c, f) PROVE PushPart'
    <2>1. pc[c] = "upgrade" /\ com' = com
      BY <1>12 DEF UpgradeDelete
    <2>2. CASE End(c)
      BY <1>2, <2>1, <2>2
    <2>3. CASE UNCHANGED <<pc, sock, cur, at, got, wireVars>> /\ todo' = [todo EXCEPT ![c] = @ \ {f}]
      <3>1. \A d \in Client \ {c} : SameCommand(d)
        BY <1>1, <2>3 DEF SameCommand, CommandType
      <3>2. QED BY <2>1, <2>3, <3>1, SilentPush DEF Pushes, wireVars
    <2>4. QED BY <1>12, <2>2, <2>3 DEF UpgradeDelete
  <1>13. ASSUME NEW f \in File, PushFile(c, f) \/ UpgradeFetch(c, f) \/ FetchFile(c, f)
         PROVE  PushPart'
    BY <1>13, PushFilePart, FetchPart
  <1>14. QED
    BY <1>3, <1>4, <1>5, <1>7, <1>8, <1>9, <1>10, <1>11, <1>12, <1>13, PushCompletePart
       DEF Proceed

LEMMA NextPush ==
  ASSUME IInv, PushPart, [Next]_vars
  PROVE  PushPart'
  <1>1. ASSUME NEW c \in Client, Run(c) \/ Step(c) \/ Broken(c) PROVE PushPart'
    BY <1>1, RunPush, StepPush DEF Step, Broken
  <1>2. ASSUME NEW c \in Client, UserEdit(c) PROVE PushPart'
    <2>1. /\ UNCHANGED <<com, pc, sock, todo, cur, got, toServer, serverEnd, serverVars>>
          /\ \A d \in Client \ {c} : at'[d] = at[d]
      BY <1>2, Parts DEF UserEdit, Edit, wireVars, CommandType
    <2>2. QED BY <2>1, SilentPush DEF SameCommand
  <1>3. ASSUME NEW k \in Conn, Thread(k) PROVE PushPart'
    BY <1>3, ThreadPush DEF Thread
  <1>4. CASE Fault
    BY <1>4, InterruptPush, KillPush, ThreadPush DEF Fault
  <1>5. CASE UNCHANGED vars
    <2>1. UNCHANGED <<com, commandVars, toServer, serverEnd, serverVars>>
      BY <1>5 DEF vars, clientVars, folderVars, wireVars
    <2>2. \A j \in Conn : SameSession(j)
      BY <2>1 DEF SameSession, Pushing, serverVars, diskVars
    <2>3. ASSUME NEW j \in Conn PROVE (Completes(j) => Ready(j))'
      BY <2>2, CompletesKept DEF PushPart
    <2>4. ASSUME NEW d \in Client PROVE PushOf(d)'
      BY <2>1, SilentPush DEF SameCommand, commandVars, PushPart
    <2>5. QED BY <2>3, <2>4 DEF PushPart
  <1>6. QED BY <1>1, <1>2, <1>3, <1>4, <1>5 DEF Next

-----------------------------------------------------------------------------
(* A client that has an answer, or has read one: its session holds the     *)
(* mutex, so the project is the one it was told of.                        *)
SameProject(k) ==
  /\ k \in serverEnd' => k \in serverEnd
  /\ client_mutex = k => client_mutex' = k /\ srvMani' = srvMani

SnapshotPart == \A c \in Client : SnapshotOf(c)

LEMMA SnapshotKept ==
  ASSUME serverEnd \subseteq Conn, NEW d \in Client, SnapshotOf(d), SameCommand(d),
         mani'[d] = mani[d], SameWire(d),
         sock[d] \in Conn => SameProject(sock[d])
  PROVE  SnapshotOf(d)'
  <1>1. SUFFICES ASSUME sock'[d] \in serverEnd' PROVE SnapshotOf(d)'
    BY DEF SnapshotOf
  <1>2. PICK k \in Conn : k = sock[d]
    BY <1>1 DEF SameCommand, SameWire
  <1>3. /\ sock'[d] = k /\ pc'[d] = pc[d] /\ got'[d] = got[d] /\ mani'[d] = mani[d]
        /\ toServer'[k] = toServer[k] /\ toClient'[k] = toClient[k]
        /\ k \in serverEnd /\ k \in serverEnd'
        /\ client_mutex = k => client_mutex' = k /\ srvMani' = srvMani
    BY <1>1, <1>2 DEF SameCommand, SameWire, SameProject
  <1>4. QED BY <1>2, <1>3 DEF SnapshotOf, First, IsProject

(* A step of c, whose own connection is k.                                 *)
LEMMA ClientSnapshot ==
  ASSUME IInv, SnapshotPart, UNCHANGED serverVars, NEW c \in Client,
         \A d \in Client \ {c} : SameCommand(d) /\ mani'[d] = mani[d] /\ SameWire(d),
         SnapshotOf(c)'
  PROVE  SnapshotPart'
  <1>1. SUFFICES ASSUME NEW d \in Client \ {c} PROVE SnapshotOf(d)'
    BY DEF SnapshotPart
  <1>2. sock[d] \in Conn => SameProject(sock[d])
    <2>1. SUFFICES ASSUME NEW k \in Conn, k = sock[d] PROVE SameProject(sock[d])
      OBVIOUS
    <2>2. k \in serverEnd' => k \in serverEnd
      BY <2>1 DEF SameWire
    <2>3. SameProject(k)
      BY <2>2 DEF SameProject, serverVars, diskVars
    <2>4. QED BY <2>1, <2>3
  <1>3. QED BY <1>2, Parts, SnapshotKept DEF SnapshotPart, WireOK, WireTypeOK

LEMMA BeginSnapshot ==
  ASSUME IInv, SnapshotPart, UNCHANGED serverVars, NEW c \in Client, NEW k \in Conn,
         NEW requests, NEW label, label \notin {"compare", "fetch", "file"},
         Begin(c, k, requests, label),
         \A d \in Client \ {c} : mani'[d] = mani[d] /\ todo'[d] = todo[d]
  PROVE  SnapshotPart'
  <1>1. /\ CommandType /\ WireOK /\ k \notin clientEnd /\ k \notin serverEnd
        /\ toServer' = [toServer EXCEPT ![k] = requests] /\ serverEnd' = serverEnd \cup {k}
        /\ pc' = [pc EXCEPT ![c] = label] /\ sock' = [sock EXCEPT ![c] = k]
        /\ UNCHANGED <<cur, at, got, toClient>>
    BY Parts DEF Begin, Connect, Free
  <1>2. \A d \in Client \ {c} : SameCommand(d) /\ SameWire(d)
    BY <1>1, WireAssumption
       DEF CommandType, SameCommand, SameWire, WireOK, WireTypeOK, ConnOK, Socket
  <1>3. toClient'[k] = <<>> /\ pc'[c] = label /\ sock'[c] = k
    BY <1>1 DEF CommandType, WireOK, ConnOK, Socket
  <1>4. SnapshotOf(c)'
    BY <1>3 DEF SnapshotOf
  <1>5. QED BY <1>2, <1>4, ClientSnapshot

LEMMA EndSnapshot ==
  ASSUME IInv, SnapshotPart, UNCHANGED serverVars, NEW c \in Client, pc[c] # "idle",
         NEW requests, EndWith(c, requests), \A d \in Client \ {c} : mani'[d] = mani[d]
  PROVE  SnapshotPart'
  <1>1. CommandType /\ WireOK
    BY Parts
  <1>2. /\ toServer' = [toServer EXCEPT ![sock[c]] = IF sock[c] \in serverEnd THEN requests ELSE <<>>]
        /\ toClient' = [toClient EXCEPT ![sock[c]] = <<>>]
        /\ pc' = [pc EXCEPT ![c] = "idle"] /\ sock' = [sock EXCEPT ![c] = None]
        /\ todo' = [todo EXCEPT ![c] = {}] /\ cur' = [cur EXCEPT ![c] = None]
        /\ at' = [at EXCEPT ![c] = None] /\ got' = [got EXCEPT ![c] = None]
        /\ serverEnd' = serverEnd
    BY DEF EndWith, HangUp
  <1>3. \A d \in Client \ {c} : SameCommand(d) /\ SameWire(d)
    BY <1>1, <1>2, OwnConnection DEF CommandType, SameCommand, SameWire, WireOK, WireTypeOK
  <1>4. pc'[c] = "idle"
    BY <1>1, <1>2 DEF CommandType
  <1>5. SnapshotOf(c)'
    BY <1>4 DEF SnapshotOf
  <1>6. QED BY <1>3, <1>5, ClientSnapshot

(* The streams of every other connection stay as they are.                 *)
OthersSame(k) ==
  \A j \in Socket : j # k \/ j = None =>
    toServer'[j] = toServer[j] /\ toClient'[j] = toClient[j]

(* A running command goes on, and nothing comes of it for the others.      *)
LEMMA GoOnSnapshot ==
  ASSUME IInv, SnapshotPart, UNCHANGED serverVars, NEW c \in Client, pc[c] # "idle",
         UNCHANGED <<serverEnd, sock>>, NEW label, pc' = [pc EXCEPT ![c] = label],
         OthersSame(sock[c]),
         \A d \in Client \ {c} : /\ todo'[d] = todo[d] /\ cur'[d] = cur[d] /\ at'[d] = at[d]
                                 /\ got'[d] = got[d] /\ mani'[d] = mani[d],
         label \in {"update", "checkout", "compare", "fetch", "file"} => SnapshotOf(c)'
  PROVE  SnapshotPart'
  <1>1. CommandType /\ WireOK
    BY Parts
  <1>2. \A d \in Client \ {c} : SameCommand(d) /\ SameWire(d)
    BY <1>1, OwnConnection
       DEF CommandType, SameCommand, SameWire, WireOK, WireTypeOK, OthersSame
  <1>3. pc'[c] = label
    BY <1>1 DEF CommandType
  <1>4. SnapshotOf(c)'
    BY <1>3 DEF SnapshotOf
  <1>5. QED BY <1>2, <1>4, ClientSnapshot

LEMMA OtherStreams ==
  ASSUME IInv, NEW c \in Client, pc[c] # "idle", NEW label,
         Take(c, label) \/ \E m : Ask(c, m, label)
  PROVE  /\ UNCHANGED <<serverEnd, sock>> /\ pc' = [pc EXCEPT ![c] = label]
         /\ OthersSame(sock[c])
  BY Parts, OwnConnection DEF Take, Ask, Sent, WireOK, WireTypeOK, OthersSame

(* The .Manifest update has read is that of the project, ...               *)
LEMMA UpdatedSnapshot ==
  ASSUME IInv, SnapshotPart, UNCHANGED serverVars, NEW c \in Client, Updated(c)
  PROVE  SnapshotPart'
  <1>1. CommandType /\ FolderType /\ WireOK /\ PerClient(c) /\ SnapshotOf(c)
    BY Parts DEF SnapshotPart
  <1>2. PICK m \in ManifestRead(c) :
          m \in Manifest /\ mani[c] \in Manifest /\ got' = [got EXCEPT ![c] = m]
    BY DEF Updated
  <1>3. /\ pc[c] = "update" /\ Take(c, "compare") /\ UNCHANGED <<mani, todo, cur, at>>
    BY DEF Updated, folderVars
  <1>4. /\ UNCHANGED <<serverEnd, sock>> /\ pc' = [pc EXCEPT ![c] = "compare"]
        /\ OthersSame(sock[c])
    BY <1>3, OtherStreams
  <1>5. ASSUME sock[c] \in serverEnd
        PROVE  /\ client_mutex = sock[c] /\ toServer[sock[c]] = <<>> /\ m = srvMani
    <2>1. Arrived(c) /\ m = First(c).manifest
      BY <1>2, <1>5 DEF ManifestRead, Lost
    <2>2. toServer[sock[c]] = <<>>
      BY <1>1, <1>3, <2>1 DEF PerClient, StreamOf, Under, Arrived
    <2>3. QED BY <1>1, <1>2, <1>3, <1>5, <2>1, <2>2, NotManifest DEF SnapshotOf, Arrived
  <1>6. SnapshotOf(c)'
    <2>1. pc'[c] = "compare" /\ got'[c] = m /\ toServer' = toServer
      BY <1>1, <1>2, <1>3, <1>4 DEF CommandType, Take
    <2>2. QED BY <1>4, <1>5, <2>1 DEF SnapshotOf, serverVars, diskVars
  <1>7. QED BY <1>1, <1>2, <1>3, <1>4, <1>6, GoOnSnapshot DEF CommandType

(* ... and so is the one checkout has read, if there is a project.         *)
LEMMA CheckedOutSnapshot ==
  ASSUME IInv, SnapshotPart, UNCHANGED serverVars, NEW c \in Client, CheckedOut(c)
  PROVE  SnapshotPart'
  <1>1. CommandType /\ FolderType /\ WireOK /\ PerClient(c) /\ SnapshotOf(c)
    BY Parts DEF SnapshotPart
  <1>2. PICK m \in ManifestRead(c) :
          LET new == IF m = None THEN mani[c] ELSE m
          IN  /\ mani' = [mani EXCEPT ![c] = new]
              /\ \/ End(c)
                 \/ /\ Take(c, "fetch") /\ UNCHANGED <<cur, at, got>>
                    /\ todo' = [todo EXCEPT ![c] = Listed(new)]
    BY DEF CheckedOut
  <1>3. pc[c] = "checkout" /\ \A d \in Client \ {c} : mani'[d] = mani[d]
    BY <1>1, <1>2 DEF CheckedOut, FolderType
  <1>4. CASE End(c)
    BY <1>3, <1>4, EndSnapshot DEF End
  <1>5. CASE Take(c, "fetch") /\ UNCHANGED <<cur, at, got>>
             /\ \A d \in Client \ {c} : todo'[d] = todo[d]
    <2>1. /\ UNCHANGED <<serverEnd, sock>> /\ pc' = [pc EXCEPT ![c] = "fetch"]
          /\ OthersSame(sock[c])
      BY <1>3, <1>5, OtherStreams
    <2>2. ASSUME sock[c] \in serverEnd
          PROVE  client_mutex = sock[c] /\ (mani'[c] = srvMani \/ ~IsProject \/ FALSE \in Heap)
      <3>1. Arrived(c) /\ m = First(c).manifest
        BY <1>2, <2>2 DEF ManifestRead, Lost
      <3>2. client_mutex = sock[c] /\ (m = srvMani \/ (m = None /\ FALSE \in Heap))
        BY <1>1, <1>3, <2>2, <3>1 DEF SnapshotOf, Arrived
      <3>3. m # None => mani'[c] = m
        BY <1>1, <1>2 DEF FolderType
      <3>4. QED BY <3>2, <3>3 DEF IsProject
    <2>3. SnapshotOf(c)'
      <3>1. pc'[c] = "fetch" /\ sock'[c] = sock[c] /\ serverEnd' = serverEnd
        BY <1>1, <2>1 DEF CommandType
      <3>2. QED BY <2>2, <3>1 DEF SnapshotOf, IsProject, serverVars, diskVars
    <2>4. QED BY <1>3, <1>5, <2>1, <2>3, GoOnSnapshot
  <1>6. QED BY <1>1, <1>2, <1>4, <1>5 DEF CommandType

(* checkout goes from one file to the next.                                *)
LEMMA FetchSnapshot ==
  ASSUME IInv, SnapshotPart, UNCHANGED serverVars, NEW c \in Client,
         FetchWrite(c) \/ \E f \in File : FetchFile(c, f)
  PROVE  SnapshotPart'
  <1>1. CommandType /\ SnapshotOf(c)
    BY Parts DEF SnapshotPart
  <1>2. /\ mani' = mani /\ got' = got /\ at' = at /\ pc[c] \in {"fetch", "file"} /\ pc[c] # "idle"
        /\ \A d \in Client \ {c} : todo'[d] = todo[d] /\ cur'[d] = cur[d]
    BY <1>1 DEF FetchWrite, FetchFile, Ask, folderVars, CommandType
  <1>3. PICK label \in {"fetch", "file"} : Take(c, label) \/ \E m : Ask(c, m, label)
    BY DEF FetchWrite, FetchFile
  <1>4. /\ UNCHANGED <<serverEnd, sock>> /\ pc' = [pc EXCEPT ![c] = label]
        /\ OthersSame(sock[c])
    BY <1>2, <1>3, OtherStreams
  <1>5. SnapshotOf(c)'
    BY <1>1, <1>2, <1>4 DEF SnapshotOf, IsProject, CommandType, serverVars, diskVars
  <1>6. QED BY <1>2, <1>4, <1>5, GoOnSnapshot

LEMMA StepSnapshot ==
  ASSUME IInv, SnapshotPart, UNCHANGED serverVars, NEW c \in Client,
         Proceed(c) \/ BrokenPipe(c) \/ Kill(c)
  PROVE  SnapshotPart'
  <1>1. CommandType /\ FolderType
    BY Parts
  <1>2. ASSUME pc[c] # "idle", NEW requests, EndWith(c, requests),
               \A d \in Client \ {c} : mani'[d] = mani[d]
        PROVE  SnapshotPart'
    BY <1>2, EndSnapshot
  <1>3. CASE \/ UpdateFault(c) \/ Compare(c) \/ Committed(c) \/ UpgradeEnd(c) \/ FetchEnd(c)
             \/ Queried(c) \/ BrokenPipe(c)
    BY <1>2, <1>3 DEF UpdateFault, Compare, Committed, UpgradeEnd, FetchEnd, Queried,
                      BrokenPipe, End, folderVars
  <1>4. CASE Created(c) \/ Destroyed(c)
    BY <1>1, <1>2, <1>4 DEF Created, Destroyed, End, folderVars, FolderType
  <1>5. CASE Kill(c)
    BY <1>2, <1>5 DEF Kill, folderVars
  <1>6. CASE PushAbort(c) \/ Pushed(c) \/ (pc[c] = "sent" /\ GiveUp(c))
    <2>1. PICK requests : Bump(c, requests)
      BY <1>6 DEF PushAbort, Pushed, GiveUp
    <2>2. pc[c] # "idle"
      BY <1>6 DEF PushAbort, Pushed
    <2>3. EndWith(c, requests) /\ \A d \in Client \ {c} : mani'[d] = mani[d]
      BY <1>1, <2>1 DEF Bump, FolderType
    <2>4. QED BY <1>2, <2>2, <2>3
  <1>7. ASSUME pc[c] # "idle", NEW label \in {"upgrade", "push", "blob", "sent", "complete"},
               Take(c, label) \/ \E m : Ask(c, m, label),
               \A d \in Client \ {c} :
                 /\ todo'[d] = todo[d] /\ cur'[d] = cur[d] /\ at'[d] = at[d]
                 /\ got'[d] = got[d] /\ mani'[d] = mani[d]
        PROVE  SnapshotPart'
    <2>1. /\ UNCHANGED <<serverEnd, sock>> /\ pc' = [pc EXCEPT ![c] = label]
          /\ OthersSame(sock[c])
      BY <1>7, OtherStreams
    <2>2. QED BY <1>7, <2>1, GoOnSnapshot
  <1>8. CASE PushReply(c)
    BY <1>6, <1>7, <1>8 DEF PushReply, folderVars
  <1>9. CASE UpgradeWrite(c)
    BY <1>1, <1>7, <1>9 DEF UpgradeWrite, CommandType
  <1>10. CASE PushComplete(c) \/ \E f \in File : UpgradeFetch(c, f) \/ PushFile(c, f)
    <2>1. CASE PushComplete(c)
      BY <1>7, <2>1 DEF PushComplete, Ask, folderVars
    <2>2. ASSUME NEW f \in File, UpgradeFetch(c, f) PROVE SnapshotPart'
      BY <1>1, <1>7, <2>2 DEF UpgradeFetch, Ask, folderVars, CommandType
    <2>3. ASSUME NEW f \in File, PushFile(c, f) PROVE SnapshotPart'
      BY <1>1, <1>7, <2>3 DEF PushFile, Ask, folderVars, CommandType
    <2>4. QED BY <1>10, <2>1, <2>2, <2>3
  <1>11. ASSUME NEW f \in File, PushMismatch(c, f) PROVE SnapshotPart'
    BY <1>11, GoOnSnapshot DEF PushMismatch, folderVars, wireVars, OthersSame
  <1>12. ASSUME NEW f \in File, UpgradeDelete(c, f) PROVE SnapshotPart'
    <2>1. pc[c] = "upgrade" /\ \A d \in Client \ {c} : mani'[d] = mani[d]
      BY <1>1, <1>12 DEF UpgradeDelete, FolderType
    <2>2. CASE End(c)
      BY <1>2, <2>1, <2>2 DEF End
    <2>3. CASE UNCHANGED <<pc, sock, cur, at, got, wireVars>> /\ todo' = [todo EXCEPT ![c] = @ \ {f}]
      <3>1. pc' = [pc EXCEPT ![c] = "upgrade"]
        BY <1>1, <2>1, <2>3 DEF CommandType
      <3>2. QED BY <1>1, <2>1, <2>3, <3>1, GoOnSnapshot DEF CommandType, wireVars, OthersSame
    <2>4. QED BY <1>12, <2>2, <2>3 DEF UpgradeDelete
  <1>13. QED
    BY <1>3, <1>4, <1>5, <1>6, <1>8, <1>9, <1>10, <1>11, <1>12,
       UpdatedSnapshot, CheckedOutSnapshot, FetchSnapshot DEF Proceed

(* An interrupted command has no session any more.                         *)
LEMMA InterruptSnapshot ==
  ASSUME IInv, SnapshotPart, UNCHANGED serverVars, NEW c \in Client, Interrupt(c)
  PROVE  SnapshotPart'
  <1>1. CommandType /\ WireOK
    BY Parts
  <1>2. PICK s : HangUp(sock[c], s)
    BY DEF Interrupt
  <1>3. /\ toServer' = [toServer EXCEPT ![sock[c]] = IF sock[c] \in serverEnd THEN s ELSE <<>>]
        /\ toClient' = [toClient EXCEPT ![sock[c]] = <<>>]
        /\ sock' = [sock EXCEPT ![c] = None] /\ serverEnd' = serverEnd
        /\ UNCHANGED <<mani, pc, todo, cur, at, got>>
    BY <1>2 DEF HangUp, Interrupt, folderVars
  <1>4. \A d \in Client \ {c} : SameCommand(d) /\ mani'[d] = mani[d] /\ SameWire(d)
    BY <1>1, <1>3, OwnConnection DEF CommandType, SameCommand, SameWire, WireOK, WireTypeOK
  <1>5. SnapshotOf(c)'
    <2>1. sock'[c] = None /\ None \notin serverEnd'
      BY <1>1, <1>3, WireAssumption DEF CommandType, WireOK, WireTypeOK
    <2>2. QED BY <2>1 DEF SnapshotOf
  <1>6. QED BY <1>4, <1>5, ClientSnapshot

LEMMA RunSnapshot ==
  ASSUME IInv, SnapshotPart, NEW c \in Client, Run(c)
  PROVE  SnapshotPart'
  <1>1. CommandType /\ FolderType /\ WireOK /\ UNCHANGED serverVars
    BY Parts DEF Run
  <1>2. ASSUME NEW k \in Conn,
               \/ Create(c, k) \/ Update(c, k) \/ Commit(c, k)
               \/ CurrentVersion(c, k) \/ History(c, k) \/ Rollback(c, k)
               \/ UnknownCommand(c, k) \/ \E t \in Contents : TestSendFile(c, k, t)
        PROVE  SnapshotPart'
    <2>1. PICK label \in {"create", "update", "commit", "ask", "destroy"} :
            \E requests : Begin(c, k, requests, label)
      BY <1>2 DEF Create, Update, Commit, CurrentVersion, History, Rollback, UnknownCommand,
                  TestSendFile
    <2>2. mani' = mani /\ todo' = todo
      BY <1>2 DEF Create, Update, Commit, CurrentVersion, History, Rollback, UnknownCommand,
                  TestSendFile, folderVars
    <2>3. QED BY <1>1, <2>1, <2>2, BeginSnapshot
  <1>3. ASSUME NEW k \in Conn, Upgrade(c, k) \/ Push(c, k) PROVE SnapshotPart'
    BY <1>1, <1>3, BeginSnapshot DEF Upgrade, Push, folderVars, CommandType
  <1>4. ASSUME NEW k \in Conn, Checkout(c, k) PROVE SnapshotPart'
    BY <1>1, <1>4, BeginSnapshot DEF Checkout, FolderType
  <1>5. ASSUME NEW k \in Conn, PushFault(c, k) PROVE SnapshotPart'
    <2>1. /\ k \notin clientEnd /\ UNCHANGED clientVars /\ pc[c] = "idle"
          /\ toServer' = [toServer EXCEPT ![k] = <<PushRequest(c)>>]
          /\ serverEnd' = serverEnd \cup {k} /\ UNCHANGED toClient
      BY <1>5 DEF PushFault, Free
    <2>2. \A d \in Client \ {c} : SameCommand(d) /\ mani'[d] = mani[d] /\ SameWire(d)
      BY <1>1, <2>1, WireAssumption
         DEF clientVars, folderVars, commandVars, SameCommand, SameWire, WireOK, WireTypeOK, ConnOK
    <2>3. SnapshotOf(c)'
      BY <2>1 DEF SnapshotOf, clientVars, commandVars
    <2>4. QED BY <1>1, <2>2, <2>3, ClientSnapshot
  <1>6. ASSUME NEW f \in File, Add(c, f) \/ Remove(c, f) PROVE SnapshotPart'
    <2>1. /\ pc[c] = "idle" /\ UNCHANGED <<commandVars, wireVars>>
          /\ \A d \in Client \ {c} : mani'[d] = mani[d]
      BY <1>1, <1>6 DEF Add, Remove, FolderType
    <2>2. SnapshotOf(c)'
      BY <2>1 DEF SnapshotOf, commandVars
    <2>3. QED BY <1>1, <2>1, <2>2, ClientSnapshot DEF SameCommand, SameWire, commandVars, wireVars
  <1>7. CASE Destroy(c)
    <2>1. pc[c] = "idle" /\ UNCHANGED <<mani, commandVars, wireVars>>
      BY <1>7 DEF Destroy, clientVars, folderVars
    <2>2. SnapshotOf(c)'
      BY <2>1 DEF SnapshotOf, commandVars
    <2>3. QED BY <1>1, <2>1, <2>2, ClientSnapshot DEF SameCommand, SameWire, commandVars, wireVars
  <1>8. QED BY <1>2, <1>3, <1>4, <1>5, <1>6, <1>7 DEF Run, Launch

(* When the server stops, every connection is closed.                      *)
StopStep == CrashSomewhere \/ \E k \in Conn : ParseFault(k) \/ CrashInDestroy(k)

LEMMA StoppedServes ==
  ASSUME StopStep
  PROVE  serverEnd' = {}
  BY DEF StopStep, CrashSomewhere, Crash, CrashInCreate, CrashInSend, CrashInComplete,
         CrashInDestroy, ParseFault, Stopped, StoppedWith

(* A handler: the thread of k holds the mutex, or nobody does.             *)
LEMMA HandlerSnapshot ==
  ASSUME IInv, SnapshotPart, UNCHANGED clientVars, NEW k \in Conn, OnlySession(k),
         \A j \in Socket \ {k} : toClient'[j] = toClient[j],
         \A d \in Client : sock[d] = k => SnapshotOf(d)'
  PROVE  SnapshotPart'
  <1>1. SUFFICES ASSUME NEW d \in Client, sock[d] # k PROVE SnapshotOf(d)'
    BY DEF SnapshotPart
  <1>2. SameCommand(d) /\ mani'[d] = mani[d]
    BY DEF SameCommand, clientVars, folderVars, commandVars
  <1>3. SameWire(d)
    BY <1>1, Parts DEF SameWire, OnlySession, CommandType
  <1>4. sock[d] \in Conn => SameProject(sock[d])
    <2>1. SUFFICES ASSUME NEW j \in Conn, j = sock[d] PROVE SameProject(sock[d])
      OBVIOUS
    <2>2. SameProject(j)
      BY <1>1, <2>1, WireAssumption DEF SameProject, OnlySession
    <2>3. QED BY <2>1, <2>2
  <1>5. QED BY <1>2, <1>3, <1>4, Parts, SnapshotKept DEF SnapshotPart, WireOK, WireTypeOK

(* A request is answered: the client that waits gets the .Manifest of now. *)
LEMMA RespondSnapshot ==
  ASSUME IInv, SnapshotPart, UNCHANGED clientVars, NEW k \in Conn,
         client_mutex = k, client_mutex' = k, toServer[k] # <<>>,
         NEW rest, NEW replies, Respond(k, rest, replies),
         Head(toServer[k]).op \in {"manifest", "recv"} => srvMani' = srvMani,
         Head(toServer[k]).op = "manifest" =>
           \E m : replies = <<[manifest |-> m]>> /\ (m = srvMani \/ (m = None /\ FALSE \in Heap))
  PROVE  SnapshotPart'
  <1>1. OnlySession(k) /\ toServer'[k] = rest /\ serverEnd' = serverEnd
    BY RespondSession
  <1>2. CommandType /\ WireOK /\ toServer[k] \in Seq(Request) /\ Head(toServer[k]) = toServer[k][1]
    BY Parts, ReadRequests
  <1>3. /\ \A j \in Socket \ {k} : toClient'[j] = toClient[j]
        /\ k \in clientEnd => toClient'[k] = toClient[k] \o replies
    BY <1>2 DEF Respond, WireOK, WireTypeOK, Socket
  <1>4. ASSUME NEW d \in Client, sock[d] = k PROVE SnapshotOf(d)'
    <2>1. k \in clientEnd /\ PerClient(d) /\ SnapshotOf(d) /\ k \in serverEnd
      BY <1>2, <1>4, Parts, ReadRequests, WireAssumption DEF SnapshotPart, WireOK, ConnOK
    <2>2. pc[d] # "compare" /\ pc[d] # "fetch"
      BY <1>4, <2>1 DEF SnapshotOf, PerClient, StreamOf, Under
    <2>3. ASSUME pc[d] \in {"update", "checkout"}
          PROVE  First(d)'.manifest = srvMani' \/ (First(d)'.manifest = None /\ FALSE \in Heap)
      <3>1. toClient[k] = <<>> /\ Head(toServer[k]).op = "manifest"
        BY <1>2, <1>4, <2>1, <2>3 DEF PerClient, StreamOf, Under
      <3>2. PICK m : replies = <<[manifest |-> m]>> /\ (m = srvMani \/ (m = None /\ FALSE \in Heap))
        BY <3>1
      <3>3. toClient'[k] = <<[manifest |-> m]>>
        BY <1>3, <2>1, <3>1, <3>2
      <3>4. First(d)'.manifest = m
        BY <1>4, <3>3 DEF First, clientVars, commandVars
      <3>5. QED BY <3>1, <3>2, <3>4
    <2>4. pc[d] = "file" => srvMani' = srvMani
      BY <1>2, <1>4, <2>1 DEF PerClient, StreamOf, Under
    <2>5. sock' = sock /\ pc' = pc /\ mani' = mani /\ got' = got
      BY DEF clientVars, commandVars, folderVars
    <2>6. QED BY <1>1, <1>4, <2>1, <2>2, <2>3, <2>4, <2>5 DEF SnapshotOf, IsProject, First
  <1>5. QED BY <1>1, <1>3, <1>4, HandlerSnapshot

LEMMA ServeSnapshot ==
  ASSUME IInv, SnapshotPart, UNCHANGED clientVars, NEW k \in Conn, Serve(k)
  PROVE  SnapshotPart'
  <1> USE DEF Received, Answer
  <1>1. CASE Lock(k)
    <2>1. /\ UNCHANGED wireVars /\ client_mutex = None
      BY <1>1 DEF Lock
    <2>2. ASSUME NEW d \in Client PROVE SnapshotOf(d)'
      <3>1. SameCommand(d) /\ mani'[d] = mani[d] /\ SameWire(d)
        BY <2>1 DEF SameCommand, SameWire, clientVars, folderVars, commandVars, wireVars
      <3>2. sock[d] \in Conn => SameProject(sock[d])
        <4>1. SUFFICES ASSUME NEW j \in Conn, j = sock[d] PROVE SameProject(sock[d])
          OBVIOUS
        <4>2. SameProject(j)
          BY <2>1, WireAssumption DEF SameProject, wireVars
        <4>3. QED BY <4>1, <4>2
      <3>3. QED BY <3>1, <3>2, Parts, SnapshotKept DEF SnapshotPart, WireOK, WireTypeOK
    <2>3. QED BY <2>2 DEF SnapshotPart
  <1>2. CASE EndSession(k)
    <2>1. client_mutex = k /\ \E n : Close(k, n)
      BY <1>2 DEF EndSession
    <2>2. /\ OnlySession(k) /\ k \notin serverEnd'
          /\ \A j \in Socket \ {k} : toClient'[j] = toClient[j]
      BY <2>1, Parts DEF Close, OnlySession, WireOK, WireTypeOK, Socket
    <2>3. \A d \in Client : sock[d] = k => SnapshotOf(d)'
      BY <2>2 DEF SnapshotOf, clientVars, commandVars
    <2>4. QED BY <2>2, <2>3, HandlerSnapshot
  <1>3. CASE HandleReceiveManifest(k)
    <2>1. /\ client_mutex = k /\ toServer[k] # <<>> /\ UNCHANGED serverVars
          /\ \E found \in Heap :
               Respond(k, Tail(toServer[k]), <<[manifest |-> IF found THEN srvMani ELSE None]>>)
      BY <1>3 DEF HandleReceiveManifest
    <2>2. PICK m : /\ Respond(k, Tail(toServer[k]), <<[manifest |-> m]>>)
                   /\ m = srvMani \/ (m = None /\ FALSE \in Heap)
      BY <2>1, HeapAssumption
    <2>3. QED BY <2>1, <2>2, RespondSnapshot DEF serverVars, diskVars
  <1>4. CASE HandleReceiveFile(k)
    <2>1. /\ client_mutex = k /\ toServer[k] # <<>> /\ UNCHANGED serverVars
          /\ Head(toServer[k]).op = "recv"
          /\ \E replies : Respond(k, Tail(toServer[k]), replies)
      BY <1>4 DEF HandleReceiveFile
    <2>2. QED BY <2>1, RespondSnapshot DEF serverVars, diskVars
  <1>5. CASE \/ HandleCreate(k) \/ HandleDestroy(k) \/ HandleRollback(k)
             \/ AcceptPush(k) \/ RejectPush(k)
             \/ HandleSendFile(k) \/ RefuseSend(k) \/ HandleComplete(k)
             \/ HandleCurrentVersion(k) \/ HandleHistory(k)
    <2>1. /\ client_mutex = k /\ toServer[k] # <<>> /\ client_mutex' = client_mutex
          /\ Head(toServer[k]).op \notin {"manifest", "recv"}
      BY <1>5 DEF HandleCreate, HandleDestroy, HandleRollback, AcceptPush, RejectPush,
                  HandleSendFile, RefuseSend, HandleComplete, HandleCurrentVersion,
                  HandleHistory, serverVars
    <2>2. PICK rest, replies : Respond(k, rest, replies)
      BY <1>5, HeapAssumption
         DEF HandleCreate, HandleDestroy, HandleRollback, AcceptPush, RejectPush,
             HandleSendFile, RefuseSend, HandleComplete, HandleCurrentVersion, HandleHistory
    <2>3. QED BY <2>1, <2>2, RespondSnapshot
  <1>6. QED BY <1>1, <1>2, <1>3, <1>4, <1>5 DEF Serve

LEMMA NextSnapshot ==
  ASSUME IInv, SnapshotPart, [Next]_vars
  PROVE  SnapshotPart'
  <1>1. ASSUME NEW c \in Client, Run(c) \/ Step(c) \/ Broken(c) PROVE SnapshotPart'
    BY <1>1, RunSnapshot, StepSnapshot DEF Step, Broken
  <1>2. CASE UNCHANGED <<mani, pc, sock, got, wireVars, serverVars>>
    <2>1. SUFFICES ASSUME NEW d \in Client PROVE SnapshotOf(d)'
      BY DEF SnapshotPart
    <2>2. SnapshotOf(d)
      BY DEF SnapshotPart
    <2>3. QED
      BY <1>2, <2>2
         DEF SnapshotOf, First, IsProject, wireVars, serverVars, diskVars
  <1>3. ASSUME NEW c \in Client, UserEdit(c) PROVE SnapshotPart'
    BY <1>2, <1>3 DEF UserEdit, Edit
  <1>4. ASSUME StopStep PROVE SnapshotPart'
    BY <1>4, StoppedServes DEF SnapshotPart, SnapshotOf
  <1>5. ASSUME NEW k \in Conn, Thread(k) PROVE SnapshotPart'
    BY <1>4, <1>5, ServeSnapshot DEF Thread, StopStep
  <1>6. CASE Fault
    BY <1>4, <1>6, StepSnapshot, InterruptSnapshot DEF Fault, StopStep
  <1>7. CASE UNCHANGED vars
    BY <1>2, <1>7 DEF vars, clientVars, folderVars, commandVars
  <1>8. QED BY <1>1, <1>3, <1>5, <1>6, <1>7 DEF Next

-----------------------------------------------------------------------------
(* Nothing is kept without a project.                                      *)
LEMMA ServeRemains ==
  ASSUME IInv, PushPart, NoRemains, NEW k \in Conn, Serve(k), cutShort' = cutShort
  PROVE  NoRemains'
  <1>1. CASE \/ Lock(k) \/ EndSession(k) \/ HandleReceiveManifest(k) \/ HandleReceiveFile(k)
             \/ RejectPush(k) \/ RefuseSend(k) \/ HandleCurrentVersion(k) \/ HandleHistory(k)
    BY <1>1
       DEF Lock, EndSession, HandleReceiveManifest, HandleReceiveFile, RejectPush, RefuseSend,
           HandleCurrentVersion, HandleHistory, serverVars, diskVars, NoRemains, IsProject
  <1>2. CASE HandleCreate(k)
    BY <1>2, EmptyManifestType, NotManifest DEF HandleCreate, NoRemains, IsProject
  <1>3. CASE HandleDestroy(k)
    BY <1>3 DEF HandleDestroy, diskVars, NoRemains, IsProject
  <1>4. CASE HandleRollback(k)
    BY <1>4, StoreAssumption DEF HandleRollback, NoRemains, IsProject
  <1>5. CASE AcceptPush(k)
    BY <1>5 DEF AcceptPush, Acceptable, NoRemains, IsProject
  <1>6. CASE HandleSendFile(k)
    BY <1>6 DEF HandleSendFile, Stores, NoRemains, IsProject
  <1>7. CASE HandleComplete(k)
    <2>1. Pushing(k)
      BY <1>7, LastRequest DEF HandleComplete
    <2>2. QED BY <1>7, <2>1, NotManifest DEF HandleComplete, Publish, Pushing, NoRemains, IsProject
  <1>8. QED BY <1>1, <1>2, <1>3, <1>4, <1>5, <1>6, <1>7 DEF Serve

LEMMA StopRemains ==
  ASSUME IInv, PushPart, NoRemains, cutShort' = cutShort,
         CrashSomewhere \/ \E k \in Conn : ParseFault(k)
  PROVE  NoRemains'
  <1>1. CASE UNCHANGED diskVars
    BY <1>1 DEF diskVars, NoRemains, IsProject
  <1>2. ASSUME NEW k \in Conn, CrashInCreate(k) PROVE NoRemains'
    BY <1>2, EmptyManifestType, NotManifest, StoreAssumption DEF CrashInCreate, NoRemains, IsProject
  <1>3. ASSUME NEW k \in Conn, CrashInComplete(k) PROVE NoRemains'
    <2>1. Pushing(k)
      BY <1>3, LastRequest DEF CrashInComplete
    <2>2. QED BY <1>3, <2>1, NotManifest DEF CrashInComplete, Publish, Pushing, NoRemains, IsProject
  <1>4. QED
    BY <1>1, <1>2, <1>3 DEF CrashSomewhere, Crash, CrashInSend, ParseFault

LEMMA NextRemains ==
  ASSUME IInv, PushPart, NoRemains, [Next]_vars
  PROVE  NoRemains'
  <1>1. CASE UNCHANGED serverVars /\ cutShort' = cutShort
    BY <1>1 DEF serverVars, diskVars, NoRemains, IsProject
  <1>2. ASSUME NEW k \in Conn, Thread(k) PROVE NoRemains'
    BY <1>2, ServeRemains, StopRemains DEF Thread, bounds
  <1>3. CASE Fault
    <2>1. CASE cutShort' = TRUE
      BY <2>1 DEF NoRemains, IsProject
    <2>2. QED BY <1>1, <1>3, <2>1, StopRemains DEF Fault
  <1>4. QED
    BY <1>1, <1>2, <1>3 DEF Next, Run, Step, Broken, UserEdit, vars, bounds

-----------------------------------------------------------------------------
(* The invariant of sessions.                                              *)
SessionParts == IInv /\ PushPart /\ SnapshotPart /\ NoRemains

LEMMA InitSession ==
  ASSUME Init
  PROVE  SessionParts
  <1>1. IInv
    BY InitInv
  <1>2. /\ \A k \in Conn : toServer[k] = <<>>
        /\ \A c \in Client : pc[c] = "idle"
    BY DEF Init, WireInit, Socket
  <1>3. \A k \in Conn : ~Completes(k)
    BY <1>2 DEF Completes
  <1>4. PushPart /\ SnapshotPart
    BY <1>2, <1>3 DEF PushPart, PushOf, SnapshotPart, SnapshotOf
  <1>5. NoRemains
    <2>1. CASE Start = None
      BY <2>1 DEF Init, NoRemains, IsProject
    <2>2. CASE Start # None
      <3>1. StartManifest \in Manifest
        BY <2>2, WTFAssumption DEF StartManifest, StartProject, Manifest
      <3>2. QED BY <2>2, <3>1, NotManifest DEF Init, NoRemains, IsProject
    <2>3. QED BY <2>1, <2>2
  <1>6. QED BY <1>1, <1>4, <1>5 DEF SessionParts

LEMMA NextSession ==
  ASSUME SessionParts, [Next]_vars
  PROVE  SessionParts'
  BY NextInv, NextPush, NextSnapshot, NextRemains DEF SessionParts

LEMMA SessionReached == Spec => []SessionParts
  <1>1. Init => SessionParts
    BY InitSession
  <1>2. SessionParts /\ [Next]_vars => SessionParts'
    BY NextSession
  <1>3. QED BY <1>1, <1>2, PTL DEF Spec

(* Every reachable state satisfies the invariant of sessions.              *)
THEOREM SessionsInvariance == Spec => []SessionInv
  <1>1. SessionParts => SessionInv
    BY DEF SessionParts, SessionInv, PushPart, SnapshotPart
  <1>2. QED BY <1>1, SessionReached, PTL

(* A cplt is only ever served in a session whose push was accepted and     *)
(* whole: what the cplt branch of handle_customer parses, renames and      *)
(* copies without looking is there, for any clients and connections.       *)
THEOREM CompletesPushes == Spec => []CompleteWhole
  <1>1. SessionParts => CompleteWhole
    BY LastRequest DEF SessionParts, CompleteWhole, Pushing
  <1>2. QED BY <1>1, SessionReached, PTL

(* A destroyed project leaves nothing behind and nothing comes back        *)
(* without a create, whatever the clients that had it still send, as long  *)
(* as the server was never stopped while it destroyed one (handle_destory, *)
(* remove_dir, HandlePushVersion, HandleSendFile).                         *)
THEOREM DestroysAll == Spec => []NoRemains
  <1>1. SessionParts => NoRemains
    BY DEF SessionParts
  <1>2. QED BY <1>1, SessionReached, PTL

(* When a push is published, every content its .Commit names is stored:    *)
(* none is lost between the client and the disk (read_commit,              *)
(* HandleSendFile, HandleComplete).                                        *)
THEOREM PublishesStored == Spec => CommittedStored
  <1> DEFINE Stored == \A c \in Client, k \in Conn :
               pc[c] = "complete" /\ sock[c] = k /\ HandleComplete(k) =>
                 \A f \in File : com[c][f] # None => com[c][f] \in srvBlob
  <1>1. SessionParts => Stored
    <2>1. SUFFICES ASSUME SessionParts, NEW c \in Client, NEW k \in Conn,
                          pc[c] = "complete", sock[c] = k, HandleComplete(k),
                          NEW f \in File, com[c][f] # None
                   PROVE  com[c][f] \in srvBlob
      OBVIOUS
    <2>2. /\ IInv /\ PushPart /\ Received(k, "cplt") /\ PushOf(c)
      BY <2>1 DEF SessionParts, PushPart, HandleComplete
    <2>3. client_mutex = k /\ toServer[k] # <<>> /\ Head(toServer[k]).op = "cplt"
      BY <2>2 DEF Received
    <2>4. k \in serverEnd /\ Len(toServer[k]) = 1 /\ Head(toServer[k]) = toServer[k][1]
      BY <2>2, <2>3, ReadRequests, LastRequest
    <2>5. ~Refused(k) /\ todo[c] = {}
      BY <2>1, <2>2, <2>3, <2>4 DEF PushOf, Refused
    <2>6. Sending(k, com[c][f]) \/ com[c][f] \in srvBlob
      BY <2>1, <2>2, <2>4, <2>5 DEF PushOf, Refused, Sending
    <2>7. ~Sending(k, com[c][f])
      BY <2>3, <2>4 DEF Sending
    <2>8. QED BY <2>6, <2>7
  <1>2. SessionParts /\ [Next]_vars => [Stored]_vars
    BY <1>1
  <1>3. Spec => [][Stored]_vars
    <2> HIDE DEF Stored
    <2>1. QED BY <1>2, SessionReached, PTL DEF Spec
  <1>4. QED BY <1>3 DEF CommittedStored
=============================================================================
