-------------------------- MODULE Repository_proof --------------------------
(***************************************************************************)
(* What the server of WTF keeps, for any number of clients, connections    *)
(* and files: that it implements Repository, and what .History says.       *)
(***************************************************************************)
EXTENDS Session_proof

(* What the project, its contents, its log and its list of contents        *)
(* received are made of.                                                   *)
LEMMA KeptTypes ==
  ASSUME IInv
  PROVE  /\ srvMani \in ManifestFile /\ srvTmp \in ManifestFile
         /\ srvHist \in Seq(HistoryEntry) /\ currentPushHead \in Seq(Text)
         /\ \A k \in Socket : toServer[k] \in Seq(Request)
  BY ServerParts DEF ServerTypeOK, WireOK, WireTypeOK

(* A push is published: it is whole, and so is the .Manifest it replaces.  *)
LEMMA PublishWhole ==
  ASSUME SessionParts, NEW k \in Conn, Received(k, "cplt"), Publish
  PROVE  /\ srvMani \in Manifest /\ srvMani' = srvTmp /\ srvMani' \in Manifest
         /\ srvBlob' = srvBlob
  BY LastRequest, NotManifest DEF SessionParts, Publish, Pushing

(* A content is kept: it is noted down in front of the others.             *)
LEMMA SendNoted ==
  ASSUME IInv, NEW k \in Conn, HandleSendFile(k), Stores(Head(toServer[k]))
  PROVE  \E t \in Text :
           /\ currentPushHead' = <<t>> \o currentPushHead /\ srvBlob' = srvBlob \cup {t}
  <1>1. toServer[k] \in Seq(Request) /\ toServer[k] # <<>> /\ Head(toServer[k]).op = "send"
    BY KeptTypes DEF HandleSendFile, Received, Socket
  <1>2. PICK m : m = Head(toServer[k])
    OBVIOUS
  <1>3. m \in Request
    BY <1>1, <1>2
  <1>4. m.hash \in Text
    BY <1>1, <1>2, <1>3, SendFields
  <1>5. QED BY <1>2, <1>4 DEF HandleSendFile

LEMMA InFront ==
  ASSUME NEW S, NEW q \in Seq(S), NEW t \in S, NEW r, r = <<t>> \o q
  PROVE  /\ r \in Seq(S) /\ r # <<>> /\ Head(r) = t /\ Tail(r) = q /\ Len(r) = Len(q) + 1
         /\ r[1] = t /\ \A i \in 1..Len(q) : r[i + 1] = q[i]
  OBVIOUS

-----------------------------------------------------------------------------
(* A thread only ever reads what a command the users run has sent.         *)
Allowed ==
  {o \in {"crvs", "hist", "roll", "dest", "cplt", "fail", "manifest", "payload", "cret",
          "recv", "push", "send"} :
     /\ o = "roll" => "rollback" \in Used
     /\ o = "dest" => "unknown" \in Used
     /\ o = "cret" => "create" \in Used}

AllAllowed(q) == \A i \in 1..Len(q) : q[i].op \in Allowed

AllowedPart == \A k \in Socket : AllAllowed(toServer[k])

LEMMA AllowedSequences ==
  ASSUME NEW q \in Seq(Request), AllAllowed(q)
  PROVE  /\ AllAllowed(<<>>)
         /\ q # <<>> => AllAllowed(Tail(q)) /\ AllAllowed(<<[op |-> "payload"]>> \o Tail(q))
         /\ \A m : m.op \in Allowed => AllAllowed(Append(q, m)) /\ AllAllowed(<<m>>)
  <1>1. AllAllowed(<<>>)
    BY DEF AllAllowed
  <1>2. ASSUME q # <<>>
        PROVE  AllAllowed(Tail(q)) /\ AllAllowed(<<[op |-> "payload"]>> \o Tail(q))
    <2>1. AllAllowed(Tail(q))
      BY <1>2, TailRequests DEF AllAllowed
    <2> DEFINE m == [op |-> "payload"]
               r == <<m>> \o Tail(q)
    <2>2. m \in Request /\ m.op = "payload"
      BY SimpleRequests
    <2>3. "payload" \in Allowed
      BY DEF Allowed
    <2>4. Tail(q) \in Seq(Request)
      BY <1>2
    <2> HIDE DEF m
    <2>5. /\ Len(r) = Len(Tail(q)) + 1 /\ Len(Tail(q)) \in Nat /\ r[1] = m
          /\ \A i \in 1..Len(r) : i # 1 => i - 1 \in 1..Len(Tail(q)) /\ r[i] = Tail(q)[i - 1]
      BY <2>2, <2>4
    <2> HIDE DEF r
    <2>6. AllAllowed(r)
      BY <2>1, <2>2, <2>3, <2>5 DEF AllAllowed
    <2>7. QED BY <2>1, <2>6 DEF r, m
  <1>3. ASSUME NEW m, m.op \in Allowed
        PROVE  AllAllowed(Append(q, m)) /\ AllAllowed(<<m>>)
    BY <1>3 DEF AllAllowed
  <1>4. QED BY <1>1, <1>2, <1>3

LEMMA AllowedCut ==
  ASSUME NEW q \in Seq(Request), AllAllowed(q), NEW s \in Cuts(q)
  PROVE  AllAllowed(s)
  <1>1. CASE \E n \in 0..Len(q) : s = SubSeq(q, 1, n)
    BY <1>1 DEF AllAllowed
  <1>2. CASE \E n \in 1..Len(q) : s = [SubSeq(q, 1, n) EXCEPT ![n] = Torn(q[n])]
    <2>1. PICK n \in 1..Len(q) : s = [SubSeq(q, 1, n) EXCEPT ![n] = Torn(q[n])]
      BY <1>2
    <2> DEFINE p == SubSeq(q, 1, n)
    <2>2. p \in Seq(Request) /\ Len(p) = n /\ \A i \in 1..n : p[i] = q[i]
      OBVIOUS
    <2>3. q[n] \in Request
      OBVIOUS
    <2>4. Torn(q[n]) \in Request /\ Torn(q[n]).op = q[n].op
      BY <2>3, TornRequest, TornKeeps
    <2>5. s = [p EXCEPT ![n] = Torn(q[n])]
      BY <2>1
    <2> HIDE DEF p
    <2>6. s \in Seq(Request) /\ Len(s) = n
      BY <2>2, <2>4, <2>5
    <2>7. \A i \in 1..n : s[i] = IF i = n THEN Torn(q[n]) ELSE q[i]
      BY <2>2, <2>5
    <2>8. QED BY <2>4, <2>6, <2>7 DEF AllAllowed
  <1>3. QED BY <1>1, <1>2 DEF Cuts

(* The requests of one connection change.                                  *)
LEMMA OneStream ==
  ASSUME IInv, AllowedPart, NEW k, NEW q, AllAllowed(q), toServer' = [toServer EXCEPT ![k] = q]
  PROVE  AllowedPart'
  <1>1. toServer \in [Socket -> Seq(Request)]
    BY Parts DEF WireOK, WireTypeOK
  <1>2. ASSUME NEW j \in Socket PROVE AllAllowed(toServer'[j])
    BY <1>1 DEF AllowedPart
  <1>3. QED BY <1>2 DEF AllowedPart

LEMMA BeginAllowed ==
  ASSUME IInv, AllowedPart, NEW c \in Client, NEW k \in Conn, NEW label, NEW m,
         m.op \in Allowed, Begin(c, k, <<m>>, label) \/ Begin(c, k, <<>>, label)
  PROVE  AllowedPart'
  <1>1. AllAllowed(<<>>) /\ AllAllowed(<<m>>)
    BY EmptySeq, AllowedSequences, Parts DEF AllowedPart, WireOK, WireTypeOK, Socket
  <1>2. QED BY <1>1, OneStream DEF Begin, Connect

LEMMA AskAllowed ==
  ASSUME IInv, AllowedPart, NEW c \in Client, pc[c] # "idle", NEW label, NEW m,
         m.op \in Allowed, Ask(c, m, label)
  PROVE  AllowedPart'
  <1>1. CASE toServer' = toServer
    BY <1>1 DEF AllowedPart
  <1>2. CASE toServer' = [toServer EXCEPT ![sock[c]] = Append(@, m)]
    <2>1. PICK k \in Socket : k = sock[c]
      BY Parts DEF CommandType
    <2>2. AllAllowed(Append(toServer[k], m))
      BY <2>1, AllowedSequences, Parts DEF AllowedPart, WireOK, WireTypeOK
    <2>3. QED BY <1>2, <2>1, <2>2, OneStream
  <1>3. QED BY <1>1, <1>2 DEF Ask, Sent

LEMMA HangUpAllowed ==
  ASSUME IInv, AllowedPart, NEW c \in Client, NEW requests, HangUp(sock[c], requests),
         \/ requests = toServer[sock[c]] \/ requests \in Cuts(toServer[sock[c]])
         \/ requests = Append(toServer[sock[c]], [op |-> "fail"])
  PROVE  AllowedPart'
  <1>1. PICK k \in Socket : k = sock[c]
    BY Parts DEF CommandType
  <1>2. toServer[k] \in Seq(Request) /\ AllAllowed(toServer[k])
    BY Parts DEF AllowedPart, WireOK, WireTypeOK
  <1>3. AllAllowed(Append(toServer[k], [op |-> "fail"])) /\ AllAllowed(<<>>)
    <2>1. [op |-> "fail"].op \in Allowed
      BY DEF Allowed
    <2>2. QED BY <1>2, <2>1, AllowedSequences
  <1>4. AllAllowed(IF k \in serverEnd THEN requests ELSE <<>>)
    BY <1>1, <1>2, <1>3, AllowedCut
  <1>5. toServer' = [toServer EXCEPT ![k] = IF k \in serverEnd THEN requests ELSE <<>>]
    BY <1>1 DEF HangUp
  <1>6. QED BY <1>4, <1>5, OneStream

LEMMA EndAllowed ==
  ASSUME IInv, AllowedPart, NEW c \in Client, NEW requests, EndWith(c, requests),
         \/ requests = toServer[sock[c]] \/ requests \in Cuts(toServer[sock[c]])
         \/ requests = Append(toServer[sock[c]], [op |-> "fail"])
  PROVE  AllowedPart'
  BY HangUpAllowed DEF EndWith

LEMMA RunAllowed ==
  ASSUME IInv, AllowedPart, NEW c \in Client, Run(c)
  PROVE  AllowedPart'
  <1>1. ASSUME NEW k \in Conn, NEW m, NEW label, m.op \in Allowed,
               Begin(c, k, <<m>>, label) \/ Begin(c, k, <<>>, label)
        PROVE  AllowedPart'
    BY <1>1, BeginAllowed
  <1>2. PICK name \in Used : Launch(c, name)
    BY WTFAssumption DEF Run, Used
  <1>3. ASSUME NEW k \in Conn, NEW o \in Allowed, NEW label, Begin(c, k, <<[op |-> o]>>, label)
        PROVE  AllowedPart'
    <2>1. [op |-> o].op = o
      OBVIOUS
    <2>2. QED BY <1>1, <1>3, <2>1
  <1>4. ASSUME NEW k \in Conn,
               \/ name = "create" /\ Create(c, k)
               \/ name = "update" /\ Update(c, k)
               \/ name = "commit" /\ Commit(c, k)
               \/ name = "checkout" /\ Checkout(c, k)
               \/ name = "currentversion" /\ CurrentVersion(c, k)
               \/ name = "history" /\ History(c, k)
               \/ name = "rollback" /\ Rollback(c, k)
               \/ name = "unknown" /\ UnknownCommand(c, k)
        PROVE  AllowedPart'
    <2>1. PICK o, label : o \in Allowed /\ Begin(c, k, <<[op |-> o]>>, label)
      BY <1>2, <1>4 DEF Create, Update, Commit, Checkout, CurrentVersion, History, Rollback, UnknownCommand,
                          Allowed
    <2>2. QED BY <1>3, <2>1
  <1>5. ASSUME NEW k \in Conn, Upgrade(c, k) PROVE AllowedPart'
    <2>1. [op |-> "recv"].op \in Allowed
      BY DEF Allowed
    <2>2. QED BY <1>1, <1>5, <2>1 DEF Upgrade
  <1>6. ASSUME NEW k \in Conn, Push(c, k) \/ PushFault(c, k) PROVE AllowedPart'
    <2>1. PushRequest(c).op = "push" /\ "push" \in Allowed
      BY DEF PushRequest, Allowed
    <2>2. CASE Push(c, k)
      BY <1>1, <2>1, <2>2 DEF Push
    <2>3. CASE PushFault(c, k)
      <3>1. AllAllowed(<<PushRequest(c)>>)
        BY <2>1 DEF AllAllowed
      <3>2. QED BY <2>3, <3>1, OneStream DEF PushFault
    <2>4. QED BY <1>6, <2>2, <2>3
  <1>7. ASSUME NEW k \in Conn, NEW t \in Contents, TestSendFile(c, k, t) PROVE AllowedPart'
    <2>1. [op |-> "send", hash |-> t, content |-> t].op \in Allowed
      BY DEF Allowed
    <2>2. QED BY <1>1, <1>7, <2>1 DEF TestSendFile
  <1>8. CASE Destroy(c) \/ \E f \in File : Add(c, f) \/ Remove(c, f)
    BY <1>8 DEF Destroy, Add, Remove, wireVars, AllowedPart
  <1>9. QED
    BY <1>2, <1>4, <1>5, <1>6, <1>7, <1>8 DEF Launch

LEMMA StepAllowed ==
  ASSUME IInv, AllowedPart, NEW c \in Client,
         Proceed(c) \/ BrokenPipe(c) \/ Interrupt(c) \/ Kill(c)
  PROVE  AllowedPart'
  <1>1. CASE toServer' = toServer
    BY <1>1 DEF AllowedPart
  <1>2. CASE pc[c] # "idle" /\ End(c)
    BY <1>2, EndAllowed DEF End
  <1>3. CASE pc[c] # "idle" /\ GiveUp(c)
    BY <1>3, EndAllowed DEF GiveUp, Bump
  <1>4. ASSUME pc[c] # "idle", NEW label, NEW m, m.op \in Allowed, Ask(c, m, label)
        PROVE  AllowedPart'
    BY <1>4, AskAllowed
  <1>5. CASE \/ Created(c) \/ UpdateFault(c) \/ Compare(c) \/ Committed(c) \/ UpgradeEnd(c)
             \/ FetchEnd(c) \/ Queried(c) \/ Destroyed(c) \/ BrokenPipe(c) \/ Pushed(c)
    BY <1>2, <1>5 DEF Created, UpdateFault, Compare, Committed, UpgradeEnd, FetchEnd, Queried,
                      Destroyed, BrokenPipe, Pushed, Bump, End
  <1>6. CASE Updated(c) \/ UpgradeWrite(c) \/ FetchWrite(c) \/ \E f \in File : PushMismatch(c, f)
    BY <1>1, <1>6 DEF Updated, UpgradeWrite, FetchWrite, PushMismatch, Take, wireVars
  <1>7. CASE PushReply(c) \/ PushAbort(c)
    BY <1>1, <1>3, <1>7 DEF PushReply, PushAbort, Take
  <1>8. CASE CheckedOut(c) \/ \E f \in File : UpgradeDelete(c, f)
    <2>1. pc[c] # "idle" /\ (End(c) \/ toServer' = toServer)
      BY <1>8 DEF CheckedOut, UpgradeDelete, Take, wireVars
    <2>2. QED BY <1>1, <1>2, <2>1
  <1>9. CASE PushComplete(c) \/ \E f \in File : UpgradeFetch(c, f) \/ FetchFile(c, f) \/ PushFile(c, f)
    <2>1. ASSUME NEW f \in File, UpgradeFetch(c, f) \/ FetchFile(c, f) PROVE AllowedPart'
      <3>1. PICK t, label : Ask(c, [op |-> "recv", hash |-> t], label)
        BY <2>1 DEF UpgradeFetch, FetchFile, Ask
      <3>2. [op |-> "recv", hash |-> t].op \in Allowed /\ pc[c] # "idle"
        BY <2>1 DEF Allowed, UpgradeFetch, FetchFile
      <3>3. QED BY <1>4, <3>1, <3>2
    <2>2. ASSUME NEW f \in File, PushFile(c, f) PROVE AllowedPart'
      <3>1. PICK t, label : Ask(c, [op |-> "send", hash |-> t, content |-> t], label)
        BY <2>2 DEF PushFile, Ask
      <3>2. [op |-> "send", hash |-> t, content |-> t].op \in Allowed /\ pc[c] # "idle"
        BY <2>2 DEF Allowed, PushFile
      <3>3. QED BY <1>4, <3>1, <3>2
    <2>3. CASE PushComplete(c)
      <3>1. [op |-> "cplt"].op \in Allowed /\ pc[c] # "idle"
        BY <2>3 DEF Allowed, PushComplete
      <3>2. QED BY <1>4, <2>3, <3>1 DEF PushComplete
    <2>4. QED BY <1>9, <2>1, <2>2, <2>3
  <1>10. CASE Kill(c)
    BY <1>10, EndAllowed DEF Kill
  <1>11. CASE Interrupt(c)
    BY <1>11, HangUpAllowed DEF Interrupt
  <1>12. QED
    BY <1>5, <1>6, <1>7, <1>8, <1>9, <1>10, <1>11 DEF Proceed

LEMMA ServeAllowed ==
  ASSUME IInv, AllowedPart, NEW k \in Conn, Serve(k)
  PROVE  AllowedPart'
  <1>1. toServer[k] \in Seq(Request) /\ AllAllowed(toServer[k])
    BY KeptTypes DEF AllowedPart, Socket
  <1>2. CASE Lock(k)
    BY <1>2 DEF Lock, wireVars, AllowedPart
  <1>3. CASE EndSession(k)
    <2>1. toServer' = [toServer EXCEPT ![k] = <<>>]
      BY <1>3 DEF EndSession, Close
    <2>2. QED BY <1>1, <2>1, AllowedSequences, OneStream
  <1>4. CASE \/ HandleCreate(k) \/ HandleDestroy(k) \/ HandleRollback(k)
             \/ HandleReceiveManifest(k) \/ HandleReceiveFile(k)
             \/ AcceptPush(k) \/ RejectPush(k)
             \/ HandleSendFile(k) \/ RefuseSend(k) \/ HandleComplete(k)
             \/ HandleCurrentVersion(k) \/ HandleHistory(k)
    <2>1. toServer[k] # <<>>
      BY <1>4 DEF HandleCreate, HandleDestroy, HandleRollback, HandleReceiveManifest,
                  HandleReceiveFile, AcceptPush, RejectPush, HandleSendFile, RefuseSend,
                  HandleComplete, HandleCurrentVersion, HandleHistory, Received
    <2>2. PICK replies :
            \/ Respond(k, Tail(toServer[k]), replies)
            \/ \E unread \in {<<>>, <<[op |-> "payload"]>>} :
                 Respond(k, unread \o Tail(toServer[k]), replies)
      BY <1>4, HeapAssumption
         DEF HandleCreate, HandleDestroy, HandleRollback, HandleReceiveManifest,
             HandleReceiveFile, AcceptPush, RejectPush, HandleSendFile, RefuseSend,
             HandleComplete, HandleCurrentVersion, HandleHistory, Answer
    <2>3. Tail(toServer[k]) \in Seq(Request)
      BY <1>1, <2>1
    <2>4. <<>> \o Tail(toServer[k]) = Tail(toServer[k])
      BY <2>3
    <2>5. \/ toServer' = [toServer EXCEPT ![k] = Tail(toServer[k])]
          \/ toServer' = [toServer EXCEPT ![k] = <<[op |-> "payload"]>> \o Tail(toServer[k])]
      BY <2>2, <2>4 DEF Respond
    <2>6. QED BY <1>1, <2>1, <2>5, AllowedSequences, OneStream
  <1>5. QED BY <1>2, <1>3, <1>4 DEF Serve

LEMMA NextAllowed ==
  ASSUME IInv, AllowedPart, [Next]_vars
  PROVE  AllowedPart'
  <1>1. CASE UNCHANGED toServer
    BY <1>1 DEF AllowedPart
  <1>2. CASE StopStep
    <2>1. \A k \in Socket : toServer'[k] = <<>>
      BY <1>2 DEF StopStep, CrashSomewhere, Crash, CrashInCreate, CrashInSend, CrashInComplete,
                  CrashInDestroy, ParseFault, Stopped, StoppedWith
    <2>2. QED BY <2>1 DEF AllowedPart, AllAllowed
  <1>3. ASSUME NEW c \in Client, Run(c) \/ Step(c) \/ Broken(c) \/ UserEdit(c) PROVE AllowedPart'
    BY <1>1, <1>3, RunAllowed, StepAllowed DEF Step, Broken, UserEdit, Edit, wireVars
  <1>4. ASSUME NEW k \in Conn, Thread(k) PROVE AllowedPart'
    BY <1>2, <1>4, ServeAllowed DEF Thread, StopStep
  <1>5. CASE Fault
    BY <1>2, <1>5, StepAllowed DEF Fault, StopStep
  <1>6. QED BY <1>1, <1>3, <1>4, <1>5 DEF Next, vars, wireVars

(* A request the server receives is one the users' commands send.          *)
LEMMA ReceivedAllowed ==
  ASSUME IInv, AllowedPart, NEW k \in Conn, NEW o, Received(k, o)
  PROVE  o \in Allowed
  <1>1. toServer[k] \in Seq(Request) /\ toServer[k] # <<>> /\ AllAllowed(toServer[k])
    BY KeptTypes DEF AllowedPart, Received, Socket
  <1>2. QED BY <1>1, TailRequests DEF Received, AllAllowed

LEMMA AllowedReached == Spec => []AllowedPart
  <1>1. Init => AllowedPart
    BY DEF Init, WireInit, AllowedPart, AllAllowed
  <1>2. IInv /\ AllowedPart /\ [Next]_vars => AllowedPart'
    BY NextAllowed
  <1>3. QED BY <1>1, <1>2, Invariance, PTL DEF Spec

-----------------------------------------------------------------------------
(* The refinement.  Every step of WTF is one of Repository or none, and is *)
(* one that changes what was published only if a user runs the command.    *)
KeptStep ==
  \/ UNCHANGED Kept!repositoryVars
  \/ Kept!Create /\ "create" \in Used
  \/ Kept!Receive
  \/ Kept!Publish
  \/ Kept!Spoil /\ "rollback" \in Used
  \/ Kept!Destroy /\ "unknown" \in Used
  \/ /\ Kept!Stop
     /\ srvMani' \in {srvMani, None} \/ srvMani' \in Manifest
        \/ ("create" \in Used /\ MaxFaults # 0)
     /\ UNCHANGED <<srvBlob, srvHist>> \/ "unknown" \in Used

LEMMA ServeKept ==
  ASSUME SessionParts, AllowedPart, NEW k \in Conn, Serve(k), cutShort' = cutShort
  PROVE  KeptStep
  <1> USE DEF Kept!repositoryVars, KeptStep
  <1>1. CASE \/ Lock(k) \/ EndSession(k) \/ HandleReceiveManifest(k) \/ HandleReceiveFile(k)
             \/ AcceptPush(k) \/ RejectPush(k) \/ RefuseSend(k)
             \/ HandleCurrentVersion(k) \/ HandleHistory(k)
    BY <1>1
       DEF Lock, EndSession, HandleReceiveManifest, HandleReceiveFile, AcceptPush, RejectPush,
           RefuseSend, HandleCurrentVersion, HandleHistory, serverVars, diskVars
  <1>2. CASE HandleCreate(k)
    <2>1. "create" \in Used
      BY <1>2, ReceivedAllowed DEF HandleCreate, Allowed, SessionParts
    <2>2. QED BY <1>2, <2>1 DEF HandleCreate, IsProject, Kept!Create
  <1>3. CASE HandleDestroy(k)
    <2>1. "unknown" \in Used
      BY <1>3, ReceivedAllowed DEF HandleDestroy, Allowed, SessionParts
    <2>2. QED BY <1>3, <2>1 DEF HandleDestroy, IsProject, diskVars, Kept!Destroy
  <1>4. CASE HandleRollback(k)
    <2>1. "rollback" \in Used
      BY <1>4, ReceivedAllowed DEF HandleRollback, Allowed, SessionParts
    <2>2. QED BY <1>4, <2>1 DEF HandleRollback, IsProject, Kept!Spoil
  <1>5. CASE HandleSendFile(k)
    <2>1. CASE Stores(Head(toServer[k]))
      <3>1. PICK t \in Text :
              /\ currentPushHead' = <<t>> \o currentPushHead /\ srvBlob' = srvBlob \cup {t}
        BY <1>5, <2>1, SendNoted DEF SessionParts
      <3>2. /\ currentPushHead' # <<>> /\ Head(currentPushHead') = t
            /\ Tail(currentPushHead') = currentPushHead
        BY <3>1, KeptTypes, InFront DEF SessionParts
      <3>3. srvMani # None /\ UNCHANGED <<srvMani, srvHist>>
        BY <1>5, <2>1 DEF HandleSendFile, Stores, IsProject
      <3>4. Kept!Receive
        BY <3>1, <3>2, <3>3 DEF Kept!Receive
      <3>5. QED BY <3>4
    <2>2. CASE ~Stores(Head(toServer[k]))
      BY <1>5, <2>2 DEF HandleSendFile
    <2>3. QED BY <2>1, <2>2
  <1>6. CASE HandleComplete(k)
    <2>1. /\ Received(k, "cplt") /\ Publish /\ currentPushHead' = currentPushHead
          /\ srvHist' = Append(srvHist, [mani |-> srvMani', sent |-> currentPushHead])
      BY <1>6 DEF HandleComplete
    <2>2. srvMani \in Manifest /\ srvMani' \in Manifest /\ srvBlob' = srvBlob
      BY <2>1, PublishWhole
    <2>3. Kept!Publish
      BY <2>1, <2>2 DEF Kept!Publish
    <2>4. QED BY <2>3
  <1>7. QED BY <1>1, <1>2, <1>3, <1>4, <1>5, <1>6 DEF Serve

(* A stop leaves the project, or a new one half made, or one published, or *)
(* one half destroyed.                                                     *)
LEMMA StopKept ==
  ASSUME SessionParts, AllowedPart,
         \/ CrashSomewhere /\ cutShort' = cutShort
         \/ (\E k \in Conn : CrashInDestroy(k)) /\ cutShort' = TRUE
  PROVE  /\ Kept!Stop
         /\ srvMani' \in {srvMani, None} \/ srvMani' \in Manifest \/ "create" \in Used
         /\ UNCHANGED <<srvBlob, srvHist>> \/ "unknown" \in Used
  <1>1. currentPushHead' = <<>>
    BY DEF CrashSomewhere, Crash, CrashInCreate, CrashInSend, CrashInComplete,
           CrashInDestroy, Stopped, StoppedWith
  <1>2. CASE (\E k \in Conn : CrashInDestroy(k)) /\ cutShort' = TRUE
    <2>1. PICK k \in Conn : CrashInDestroy(k)
      BY <1>2
    <2>2. "unknown" \in Used
      BY <2>1, ReceivedAllowed DEF CrashInDestroy, Allowed, SessionParts
    <2>3. /\ srvMani # None /\ srvMani' \in {srvMani, None}
          /\ srvBlob' \subseteq srvBlob /\ srvHist' \in {srvHist, <<>>} /\ cutShort' = TRUE
      BY <1>2, <2>1 DEF CrashInDestroy, IsProject
    <2>4. QED BY <1>1, <2>2, <2>3 DEF Kept!Stop
  <1>3. CASE cutShort' = cutShort /\ UNCHANGED diskVars
    BY <1>1, <1>3 DEF diskVars, Kept!Stop
  <1>4. CASE cutShort' = cutShort /\ \E k \in Conn : CrashInCreate(k)
    <2>1. "create" \in Used
      BY <1>4, ReceivedAllowed DEF CrashInCreate, Allowed, SessionParts
    <2>2. QED BY <1>1, <1>4, <2>1 DEF CrashInCreate, IsProject, Kept!Stop
  <1>5. CASE cutShort' = cutShort /\ \E k \in Conn : CrashInComplete(k)
    <2>1. PICK k \in Conn : Received(k, "cplt") /\ Publish /\ UNCHANGED srvHist
      BY <1>5 DEF CrashInComplete
    <2>2. srvMani \in Manifest /\ srvMani' \in Manifest /\ srvBlob' = srvBlob
      BY <2>1, PublishWhole
    <2>3. QED BY <1>1, <1>5, <2>1, <2>2 DEF Kept!Stop
  <1>6. QED
    BY <1>2, <1>3, <1>4, <1>5 DEF CrashSomewhere, Crash, CrashInSend

LEMMA NextKept ==
  ASSUME SessionParts, AllowedPart, [Next]_vars
  PROVE  KeptStep
  <1>1. CASE UNCHANGED <<serverVars, cutShort>>
    BY <1>1 DEF serverVars, diskVars, Kept!repositoryVars, KeptStep
  <1>2. ASSUME NEW k \in Conn, Thread(k) PROVE KeptStep
    <2>1. cutShort' = cutShort
      BY <1>2 DEF Thread, bounds
    <2>2. CASE Serve(k)
      BY <2>1, <2>2, ServeKept
    <2>3. CASE ParseFault(k)
      <3>1. UNCHANGED diskVars /\ currentPushHead' = <<>>
        BY <2>3 DEF ParseFault, Stopped, StoppedWith
      <3>2. Kept!Stop
        BY <2>1, <3>1 DEF diskVars, Kept!Stop
      <3>3. QED BY <3>1, <3>2 DEF diskVars, KeptStep
    <2>4. QED BY <1>2, <2>2, <2>3 DEF Thread
  <1>3. CASE Fault
    <2>1. MaxFaults # 0
      BY <1>3, Parts, WTFAssumption DEF Fault, BoundType, SessionParts
    <2>2. CASE UNCHANGED <<serverVars, cutShort>>
      BY <1>1, <2>2
    <2>3. CASE CrashSomewhere /\ cutShort' = cutShort
      BY <2>1, <2>3, StopKept DEF KeptStep
    <2>4. CASE (\E k \in Conn : CrashInDestroy(k)) /\ cutShort' = TRUE
      BY <2>1, <2>4, StopKept DEF KeptStep
    <2>5. QED BY <1>3, <2>2, <2>3, <2>4 DEF Fault
  <1>4. QED
    BY <1>1, <1>2, <1>3 DEF Next, Run, Step, Broken, UserEdit, bounds, vars

(* The entries of Start name contents of Start.                            *)
LEMMA StartStored ==
  ASSUME Init
  PROVE  \A i \in DOMAIN srvHist : \A j \in DOMAIN srvHist[i].sent :
           srvHist[i].sent[j] \in srvBlob
  <1>1. CASE Start = None
    BY <1>1 DEF Init
  <1>2. CASE Start # None
    <2>1. srvHist = <<[mani |-> StartManifest, sent |-> Start.sent]>>
      BY <1>2 DEF Init
    <2>2. \A i \in DOMAIN srvHist : srvHist[i].sent = Start.sent
      BY <2>1
    <2>3. srvBlob = {Start.sent[i] : i \in DOMAIN Start.sent}
      BY <1>2, WTFAssumption DEF Init
    <2>4. QED BY <2>2, <2>3
  <1>3. QED BY <1>1, <1>2

LEMMA InitKept ==
  ASSUME Init
  PROVE  Kept!Init
  <1>1. Start # None => StartManifest \in Manifest
    BY WTFAssumption DEF StartManifest, StartProject, Manifest
  <1>2. /\ currentPushHead = <<>>
        /\ IF srvMani = None THEN srvBlob = {} /\ srvHist = <<>> ELSE srvMani \in Manifest
    BY <1>1, NotManifest DEF Init
  <1>3. cutShort = FALSE
    BY DEF Init
  <1>4. QED BY <1>2, <1>3, StartStored DEF Kept!Init

(* The handlers together keep a repository, for any clients, connections   *)
(* and files: contents are stored before they are recorded, a push is      *)
(* published and recorded in one step, and nothing else changes what is    *)
(* kept but a rollback, a destroy, a create and a stop, which may leave a  *)
(* destroy half done (handle_customer, remove_dir).                        *)
THEOREM KeepsRepository == Spec => AsRepository
  <1>1. Init => Kept!Init
    BY InitKept
  <1>2. SessionParts /\ AllowedPart /\ [Next]_vars => [Kept!Next]_(Kept!repositoryVars)
    BY NextKept DEF KeptStep, Kept!Next
  <1>3. QED BY <1>1, <1>2, SessionReached, AllowedReached, PTL DEF Spec, AsRepository, Kept!Spec


-----------------------------------------------------------------------------
(* What was published.                                                     *)

(* The .Manifest is whole, unless a rollback or a stopped create spoils it.*)
Unspoilt ==
  "rollback" \notin Used /\ ("create" \notin Used \/ MaxFaults = 0)

LEMMA NextWhole ==
  ASSUME KeptStep, Unspoilt, PublishedWhole
  PROVE  PublishedWhole'
  <1>1. CASE UNCHANGED srvMani \/ srvMani' \in Manifest
    BY <1>1, NotManifest DEF PublishedWhole
  <1>2. CASE srvMani' = None \/ Kept!Create \/ Kept!Destroy
    BY <1>2, StoreAssumption, EmptyManifestType, NotManifest DEF Kept!Create, Kept!Destroy, PublishedWhole
  <1>3. QED
    BY <1>1, <1>2
       DEF KeptStep, Unspoilt, Kept!repositoryVars, Kept!Receive, Kept!Publish

LEMMA HeadTail ==
  ASSUME NEW S, NEW r \in Seq(S), r # <<>>
  PROVE  /\ Tail(r) \in Seq(S) /\ Len(r) = Len(Tail(r)) + 1
         /\ \A i \in 1..Len(r) :
              r[i] = IF i = 1 THEN Head(r) ELSE Tail(r)[i - 1]
         /\ \A i \in 1..Len(r) : i # 1 => i - 1 \in 1..Len(Tail(r))
  OBVIOUS

LEMMA NewList ==
  ASSUME IInv'
  PROVE  currentPushHead' \in Seq(Text)
  BY DEF IInv, TypeOK, ServerTypeOK

(* Without a destroy every content named stays stored.                     *)
StoredPart ==
  /\ HistoryStored
  /\ \A i \in 1..Len(currentPushHead) : currentPushHead[i] \in srvBlob

LEMMA NextStored ==
  ASSUME IInv, IInv', KeptStep, "unknown" \notin Used, StoredPart
  PROVE  StoredPart'
  <1>1. CASE UNCHANGED <<srvHist, currentPushHead>> /\ srvBlob' = srvBlob
    BY <1>1 DEF StoredPart, HistoryStored
  <1>2. CASE Kept!Receive
    <2>1. /\ currentPushHead' # <<>> /\ Tail(currentPushHead') = currentPushHead
          /\ srvBlob' = srvBlob \cup {Head(currentPushHead')} /\ srvHist' = srvHist
      BY <1>2 DEF Kept!Receive
    <2>2. \A i \in 1..Len(currentPushHead') : currentPushHead'[i] \in srvBlob'
      BY <2>1, NewList, HeadTail DEF StoredPart
    <2>3. QED BY <2>1, <2>2 DEF StoredPart, HistoryStored
  <1>3. CASE Kept!Publish
    <2>1. PICK e : e = [mani |-> srvMani', sent |-> currentPushHead]
      OBVIOUS
    <2>2. /\ srvHist' = Append(srvHist, e) /\ e.sent = currentPushHead
          /\ UNCHANGED <<srvBlob, currentPushHead>>
      BY <1>3, <2>1 DEF Kept!Publish
    <2>3. \A i \in DOMAIN srvHist' : srvHist'[i] = e \/ (i \in DOMAIN srvHist /\ srvHist'[i] = srvHist[i])
      BY <2>2, KeptTypes
    <2>4. \A j \in DOMAIN currentPushHead : j \in 1..Len(currentPushHead)
      BY KeptTypes
    <2>5. QED BY <2>2, <2>3, <2>4 DEF StoredPart, HistoryStored
  <1>4. CASE Kept!Stop /\ UNCHANGED <<srvBlob, srvHist>>
    BY <1>4 DEF Kept!Stop, StoredPart, HistoryStored
  <1>5. QED
    BY <1>1, <1>2, <1>3, <1>4
       DEF KeptStep, Kept!repositoryVars, Kept!Create, Kept!Spoil

HistoryParts ==
  /\ Unspoilt => PublishedWhole
  /\ "unknown" \notin Used => StoredPart

LEMMA InitHistory ==
  ASSUME Init
  PROVE  HistoryParts
  <1>1. Start # None => StartManifest \in Manifest
    BY WTFAssumption DEF StartManifest, StartProject, Manifest
  <1>2. PublishedWhole
    BY <1>1, StoreAssumption, NotManifest DEF Init, PublishedWhole
  <1>3. currentPushHead = <<>> /\ HistoryStored
    BY StartStored DEF Init, HistoryStored
  <1>4. QED BY <1>2, <1>3 DEF HistoryParts, StoredPart

LEMMA HistoryReached == Spec => []HistoryParts
  <1>1. Init => HistoryParts
    BY InitHistory
  <1>2. SessionParts /\ SessionParts' /\ AllowedPart /\ HistoryParts /\ [Next]_vars => HistoryParts'
    <2>1. SUFFICES ASSUME SessionParts, SessionParts', AllowedPart, HistoryParts, [Next]_vars
                   PROVE  HistoryParts'
      OBVIOUS
    <2>2. KeptStep /\ IInv /\ IInv'
      BY <2>1, NextKept DEF SessionParts
    <2>3. (Unspoilt => PublishedWhole)'
      BY <2>1, <2>2, NextWhole DEF HistoryParts, Unspoilt
    <2>4. ("unknown" \notin Used => StoredPart)'
      BY <2>1, <2>2, NextStored DEF HistoryParts
    <2>5. QED BY <2>3, <2>4 DEF HistoryParts
  <1>3. QED BY <1>1, <1>2, SessionReached, AllowedReached, PTL DEF Spec

(* The .Manifest of a project stays whole whatever clients send and where  *)
(* ever clients and server stop, unless somebody rolls back or the server  *)
(* is stopped while it creates one: a read of HandlePushVersion that fails *)
(* leaves its garbage in ~Manifest, which no cplt can rename.  The project *)
(* has no more files than a .Manifest of one block can list                *)
(* (BlockAssumption): a longer .Manifest is garbled before it is sent.     *)
THEOREM StaysWhole ==
  Spec => [](("rollback" \notin Used /\ ("create" \notin Used \/ MaxFaults = 0))
             => PublishedWhole)
  <1>1. HistoryParts =>
          (("rollback" \notin Used /\ ("create" \notin Used \/ MaxFaults = 0))
           => PublishedWhole)
    BY DEF HistoryParts, Unspoilt
  <1>2. QED BY <1>1, HistoryReached, PTL

(* Every content .History names is stored, also after a restart, although  *)
(* an entry names what sessions before it sent (HandleSendFile).  Nobody   *)
(* destroys: a destroy leaves its names in currentPushHead.                *)
THEOREM HistoryKeepsContents == Spec => []("unknown" \notin Used => HistoryStored)
  <1>1. HistoryParts => ("unknown" \notin Used => HistoryStored)
    BY DEF HistoryParts, StoredPart
  <1>2. QED BY <1>1, HistoryReached, PTL
=============================================================================
