----------------------------- MODULE WTF_proof -----------------------------
(***************************************************************************)
(* What WTF guarantees for any number of clients, connections and files.   *)
(***************************************************************************)
EXTENDS WTF, SequenceTheorems, TLAPS

(* The requests the clients send are requests.                             *)
LEMMA SimpleRequests ==
  ASSUME NEW o \in {"cret", "crvs", "hist", "roll", "dest", "cplt", "fail", "manifest", "payload"}
  PROVE  [op |-> o] \in Request
  BY DEF Request

LEMMA FileRequests ==
  ASSUME NEW t \in Text, NEW e \in Entry
  PROVE  /\ [op |-> "recv", hash |-> t] \in Request
         /\ [op |-> "send", hash |-> t, content |-> e] \in Request
  BY DEF Request

LEMMA PushRequests ==
  ASSUME NEW v \in Nat, NEW m \in Manifest \cup {None}
  PROVE  [op |-> "push", version |-> v, manifest |-> m] \in Request
  BY DEF Request

(* A push request has the fields of one.                                   *)
LEMMA PushFields ==
  ASSUME NEW m \in Request, m.op = "push"
  PROVE  m \in [op : {"push"}, version : Nat, manifest : Manifest \cup {None}]
  BY DEF Request

LEMMA SendFields ==
  ASSUME NEW m \in Request, m.op = "send"
  PROVE  m \in [op : {"send"}, hash : Text, content : Entry]
  BY DEF Request

LEMMA RecvFields ==
  ASSUME NEW m \in Request, m.op = "recv"
  PROVE  m \in [op : {"recv"}, hash : Text]
  BY DEF Request

LEMMA TornRequest ==
  ASSUME NEW m \in Request
  PROVE  Torn(m) \in Request /\ (Ahead(m) => Ahead(Torn(m)))
  <1>1. CASE m.op = "push"
    <2>1. m \in [op : {"push"}, version : Nat, manifest : Manifest \cup {None}]
      BY <1>1, PushFields
    <2>2. Torn(m) = [op |-> "push", version |-> m.version, manifest |-> None]
      BY <1>1, <2>1 DEF Torn
    <2>3. QED BY <2>1, <2>2, PushRequests DEF Ahead
  <1>2. CASE m.op = "send"
    <2>1. m \in [op : {"send"}, hash : Text, content : Entry]
      BY <1>2, SendFields
    <2>2. Torn(m) = [op |-> "send", hash |-> m.hash, content |-> None]
      BY <1>2, <2>1 DEF Torn
    <2>3. m.hash \in Text /\ None \in Entry
      BY <2>1 DEF Entry
    <2>4. Torn(m) \in Request
      BY <2>2, <2>3, FileRequests
    <2>5. Torn(m).op = "send"
      BY <2>2
    <2>6. QED BY <2>4, <2>5 DEF Ahead
  <1>3. CASE m.op \notin {"push", "send"}
    BY <1>3 DEF Torn
  <1>4. QED BY <1>1, <1>2, <1>3

-----------------------------------------------------------------------------
(* Sequences of requests.                                                  *)

LEMMA CutRequests ==
  ASSUME NEW q \in Seq(Request), AllAhead(q), NEW s \in Cuts(q)
  PROVE  s \in Seq(Request) /\ AllAhead(s)
  <1>1. CASE \E n \in 0..Len(q) : s = SubSeq(q, 1, n)
    BY <1>1 DEF AllAhead
  <1>2. CASE \E n \in 1..Len(q) : s = [SubSeq(q, 1, n) EXCEPT ![n] = Torn(q[n])]
    <2>1. PICK n \in 1..Len(q) : s = [SubSeq(q, 1, n) EXCEPT ![n] = Torn(q[n])]
      BY <1>2
    <2> DEFINE p == SubSeq(q, 1, n)
    <2>2. p \in Seq(Request) /\ Len(p) = n /\ \A i \in 1..n : p[i] = q[i]
      OBVIOUS
    <2>3. q[n] \in Request /\ Ahead(q[n])
      BY DEF AllAhead
    <2>4. Torn(q[n]) \in Request /\ Ahead(Torn(q[n]))
      BY <2>3, TornRequest
    <2>5. s = [p EXCEPT ![n] = Torn(q[n])]
      BY <2>1
    <2> HIDE DEF p
    <2>6. s \in Seq(Request) /\ Len(s) = n
      BY <2>2, <2>4, <2>5
    <2>7. \A i \in 1..n : s[i] = IF i = n THEN Torn(q[n]) ELSE q[i]
      BY <2>2, <2>5
    <2>8. QED BY <2>4, <2>6, <2>7 DEF AllAhead
  <1>3. QED BY <1>1, <1>2 DEF Cuts

LEMMA SendRequest ==
  ASSUME NEW q \in Seq(Request), AllAhead(q), NEW m \in Request, Ahead(m)
  PROVE  /\ Append(q, m) \in Seq(Request) /\ AllAhead(Append(q, m))
         /\ Len(Append(q, m)) = Len(q) + 1
  BY DEF AllAhead

LEMMA AppendLen ==
  ASSUME NEW S, NEW q \in Seq(S), NEW m \in S, NEW r, r = Append(q, m)
  PROVE  Len(r) = Len(q) + 1
  OBVIOUS

LEMMA CreditSum ==
  ASSUME NEW a, NEW b, NEW n, a = 1, b = 0, n = 1
  PROVE  a + b >= n
  OBVIOUS

LEMMA AskedCredit ==
  ASSUME NEW S, NEW q \in Seq(S), NEW T, NEW a \in Seq(T), Len(q) + Len(a) >= 1,
         NEW m \in S, NEW r, r = Append(q, m)
  PROVE  Len(r) + Len(a) >= 2
  OBVIOUS

LEMMA TakenCredit ==
  ASSUME NEW S, NEW q \in Seq(S), NEW T, NEW a \in Seq(T), Len(q) + Len(a) >= 2,
         a # <<>>, NEW b, b = Tail(a)
  PROVE  Len(q) + Len(b) >= 1
  OBVIOUS

LEMMA RespondCredit ==
  ASSUME NEW q \in Nat, NEW p \in Nat, NEW a \in Nat, NEW b \in Nat, NEW n \in Nat,
         p + b >= q, q + a >= n
  PROVE  p + (a + b) >= n
  OBVIOUS

LEMMA NoLess ==
  ASSUME NEW a, NEW b \in Nat, NEW q \in Nat, a = q
  PROVE  a + b >= q
  OBVIOUS

LEMMA OneRequest ==
  ASSUME NEW m \in Request, Ahead(m)
  PROVE  <<m>> \in Seq(Request) /\ AllAhead(<<m>>) /\ Len(<<m>>) = 1
  BY DEF AllAhead

LEMMA ReadRequest ==
  ASSUME NEW q \in Seq(Request), AllAhead(q), q # <<>>
  PROVE  /\ Head(q) \in Request /\ Ahead(Head(q))
         /\ Tail(q) \in Seq(Request) /\ AllAhead(Tail(q))
         /\ Len(Tail(q)) = Len(q) - 1
  BY DEF AllAhead

-----------------------------------------------------------------------------
(* The invariant by the parts a step can disturb: the wire, ...            *)
WireOK == WireTypeOK /\ ConnOK /\ \A k \in Socket : AllAhead(toServer[k])

(* ... the running commands, ...                                           *)
CommandType ==
  /\ pc \in [Client -> Waiting \cup Working \cup {"idle"}]
  /\ sock \in [Client -> Socket]
  /\ todo \in [Client -> SUBSET File]
  /\ cur \in [Client -> File \cup {None}]
  /\ at \in [Client -> Nat \cup {None}]
  /\ got \in [Client -> ManifestFile]

FolderType ==
  /\ disk \in [Client -> [File -> Entry]]
  /\ mani \in [Client -> ManifestFile]
  /\ upd \in [Client -> UpdateFile \cup {None}]
  /\ com \in [Client -> CommitFile \cup {None}]

(* ... and what one client relies on.                                      *)
PerClient(d) == StreamOf(d) /\ CommandOf(d) /\ CreditOf(d)

SameCommand(d) ==
  /\ pc'[d] = pc[d] /\ sock'[d] = sock[d] /\ todo'[d] = todo[d]
  /\ cur'[d] = cur[d] /\ at'[d] = at[d] /\ got'[d] = got[d]

SameFolder(d) ==
  /\ disk'[d] = disk[d] /\ mani'[d] = mani[d]
  /\ upd'[d] = upd[d] /\ com'[d] = com[d]

SameWire(d) ==
  /\ toServer'[sock[d]] = toServer[sock[d]]
  /\ toClient'[sock[d]] = toClient[sock[d]]
  /\ sock[d] \in serverEnd' => sock[d] \in serverEnd

LEMMA Unaffected ==
  ASSUME CommandType, ConnOK, NEW d \in Client, PerClient(d),
         SameCommand(d), SameFolder(d), SameWire(d)
  PROVE  PerClient(d)'
  <1>1. StreamOf(d)'
    BY DEF PerClient, StreamOf, Under, SameCommand, SameWire
  <1>2. CommandOf(d)'
    BY DEF PerClient, CommandOf, SameCommand, SameFolder
  <1>3. CreditOf(d)'
    BY DEF PerClient, CreditOf, SameCommand, SameWire
  <1>4. QED BY <1>1, <1>2, <1>3 DEF PerClient

(* Connections of different clients are different, and nothing is under    *)
(* way on a socket that has been shut down.                                *)
LEMMA OwnConnection ==
  ASSUME CommandType, ConnOK, clientEnd \subseteq Conn, serverEnd \subseteq Conn,
         NEW c \in Client
  PROVE  /\ sock[c] \in Socket /\ None \in Socket /\ \A k \in Conn : k \in Socket
         /\ None \notin clientEnd /\ None \notin serverEnd
         /\ toServer[None] = <<>> /\ toClient[None] = <<>>
         /\ \A d \in Client \ {c} : sock[d] = sock[c] => sock[d] = None
  BY WireAssumption DEF CommandType, ConnOK, Socket

(* The steps on the wire.                                                  *)
LEMMA BeginWire ==
  ASSUME CommandType, WireOK, NEW c \in Client, NEW k \in Conn,
         NEW label \in Waiting \cup Working,
         NEW requests \in Seq(Request), AllAhead(requests),
         Begin(c, k, requests, label), UNCHANGED client_mutex
  PROVE  /\ WireOK' /\ \A d \in Client \ {c} : SameWire(d)
         /\ pc' = [pc EXCEPT ![c] = label] /\ sock'[c] = k
         /\ toServer'[k] = requests /\ toClient'[k] = <<>>
  <1> USE DEF Begin, Connect, Free
  <1>1. WireTypeOK'
    BY DEF WireOK, WireTypeOK
  <1>2. k \notin clientEnd /\ k \notin serverEnd /\ toClient[k] = <<>>
    BY DEF WireOK, ConnOK, Socket
  <1>3. label # "idle" /\ k # None
    BY WireAssumption DEF Waiting, Working
  <1>4. \A d \in Client : sock[d] # k
    BY <1>2, <1>3 DEF WireOK, ConnOK, CommandType
  <1>5. ConnOK'
    BY <1>1, <1>2, <1>3, <1>4 DEF WireOK, WireTypeOK, ConnOK, CommandType, Socket
  <1>6. \A j \in Socket : AllAhead(toServer'[j])
    BY DEF WireOK, WireTypeOK
  <1>7. \A d \in Client \ {c} : SameWire(d)
    BY <1>4 DEF SameWire, WireOK, WireTypeOK, CommandType
  <1>8. QED BY <1>1, <1>2, <1>5, <1>6, <1>7 DEF WireOK, WireTypeOK, CommandType, Socket

LEMMA EndWire ==
  ASSUME CommandType, WireOK, NEW c \in Client, pc[c] # "idle",
         NEW requests \in Seq(Request), AllAhead(requests),
         EndWith(c, requests), UNCHANGED client_mutex
  PROVE  /\ WireOK' /\ \A d \in Client \ {c} : SameWire(d)
         /\ pc' = [pc EXCEPT ![c] = "idle"]
  <1> USE DEF EndWith, HangUp
  <1>1. /\ sock[c] \in Socket /\ None \in Socket
        /\ None \notin clientEnd /\ None \notin serverEnd
        /\ toServer[None] = <<>> /\ toClient[None] = <<>>
        /\ \A d \in Client \ {c} : sock[d] = sock[c] => sock[d] = None
    BY OwnConnection DEF WireOK, WireTypeOK
  <1>2. WireTypeOK'
    BY <1>1 DEF WireOK, WireTypeOK
  <1>3. ConnOK'
    BY <1>1 DEF WireOK, WireTypeOK, ConnOK, CommandType
  <1>4. \A j \in Socket : AllAhead(toServer'[j])
    BY <1>1 DEF WireOK, WireTypeOK, AllAhead
  <1>5. \A d \in Client \ {c} : SameWire(d)
    BY <1>1 DEF SameWire, WireOK, WireTypeOK, CommandType
  <1>6. QED BY <1>2, <1>3, <1>4, <1>5 DEF WireOK

LEMMA AskWire ==
  ASSUME CommandType, WireOK, NEW c \in Client, pc[c] # "idle",
         NEW label \in Waiting \cup Working,
         NEW m \in Request, Ahead(m),
         Ask(c, m, label), UNCHANGED client_mutex
  PROVE  /\ WireOK' /\ \A d \in Client \ {c} : SameWire(d)
         /\ pc' = [pc EXCEPT ![c] = label]
         /\ toClient' = toClient /\ serverEnd' = serverEnd
         /\ sock[c] \notin serverEnd => toServer'[sock[c]] = <<>>
         /\ sock[c] \in serverEnd => toServer'[sock[c]] = Append(toServer[sock[c]], m)
  <1> USE DEF Ask, Sent
  <1>1. /\ sock[c] \in Socket /\ None \in Socket
        /\ None \notin clientEnd /\ None \notin serverEnd
        /\ toServer[None] = <<>> /\ toClient[None] = <<>>
        /\ \A d \in Client \ {c} : sock[d] = sock[c] => sock[d] = None
    BY OwnConnection DEF WireOK, WireTypeOK
  <1>2. toServer[sock[c]] \in Seq(Request) /\ AllAhead(toServer[sock[c]])
    BY <1>1 DEF WireOK, WireTypeOK
  <1>3. /\ Append(toServer[sock[c]], m) \in Seq(Request)
        /\ AllAhead(Append(toServer[sock[c]], m))
    BY <1>2, SendRequest
  <1>4. WireTypeOK'
    BY <1>1, <1>3 DEF WireOK, WireTypeOK
  <1>5. label # "idle"
    BY DEF Waiting, Working
  <1>6. ConnOK'
    BY <1>1, <1>5 DEF WireOK, WireTypeOK, ConnOK, CommandType
  <1>7. \A j \in Socket : AllAhead(toServer'[j])
    BY <1>1, <1>3 DEF WireOK, WireTypeOK
  <1>8. \A d \in Client \ {c} : SameWire(d)
    BY <1>1 DEF SameWire, WireOK, WireTypeOK, CommandType
  <1>9. QED BY <1>1, <1>4, <1>6, <1>7, <1>8 DEF WireOK, WireTypeOK, ConnOK

LEMMA TakeWire ==
  ASSUME CommandType, WireOK, NEW c \in Client, pc[c] # "idle",
         NEW label \in Waiting \cup Working,
         Take(c, label), UNCHANGED client_mutex
  PROVE  /\ WireOK' /\ \A d \in Client \ {c} : SameWire(d)
         /\ pc' = [pc EXCEPT ![c] = label]
         /\ toServer' = toServer /\ serverEnd' = serverEnd
         /\ toClient'[sock[c]] = IF toClient[sock[c]] = <<>> THEN <<>>
                                 ELSE Tail(toClient[sock[c]])
  <1> USE DEF Take
  <1>1. /\ sock[c] \in Socket /\ None \in Socket
        /\ None \notin clientEnd /\ None \notin serverEnd
        /\ toServer[None] = <<>> /\ toClient[None] = <<>>
        /\ \A d \in Client \ {c} : sock[d] = sock[c] => sock[d] = None
    BY OwnConnection DEF WireOK, WireTypeOK
  <1>2. WireTypeOK'
    BY <1>1 DEF WireOK, WireTypeOK
  <1>3. label # "idle"
    BY DEF Waiting, Working
  <1>4. ConnOK'
    BY <1>1, <1>3 DEF WireOK, WireTypeOK, ConnOK, CommandType
  <1>5. \A d \in Client \ {c} : SameWire(d)
    BY <1>1 DEF SameWire, WireOK, WireTypeOK, CommandType
  <1>6. QED BY <1>1, <1>2, <1>4, <1>5 DEF WireOK, WireTypeOK

-----------------------------------------------------------------------------
(* Steps of one client.                                                    *)
BoundType ==
  runs \in [Client -> Nat] /\ edits \in Nat /\ faults \in Nat /\ cutShort \in BOOLEAN

LEMMA ClientStep ==
  ASSUME IInv, NEW c \in Client, UNCHANGED serverVars,
         BoundType', FolderType', CommandType', WireOK',
         \A d \in Client \ {c} : SameCommand(d) /\ SameFolder(d) /\ SameWire(d),
         PerClient(c)'
  PROVE  IInv'
  <1>1. \A d \in Client \ {c} : PerClient(d)'
    <2> SUFFICES ASSUME NEW d \in Client \ {c} PROVE PerClient(d)'
      OBVIOUS
    <2>1. CommandType /\ ConnOK /\ PerClient(d)
      BY DEF IInv, TypeOK, ClientTypeOK, CommandType, PerClient
    <2>2. QED BY <2>1, Unaffected
  <1>2. TypeOK'
    BY DEF IInv, TypeOK, ClientTypeOK, FolderType, CommandType, BoundType, WireOK,
           ServerTypeOK, serverVars, diskVars
  <1>3. VersionOK'
    BY DEF IInv, VersionOK, ServerVersionFrozen, WireOK, serverVars, diskVars
  <1>4. QED BY <1>1, <1>2, <1>3 DEF IInv, PerClient, WireOK

(* The parts of the invariant, as hypotheses.                              *)
LEMMA Parts ==
  ASSUME IInv
  PROVE  /\ CommandType /\ FolderType /\ BoundType /\ WireOK
         /\ \A d \in Client : PerClient(d)
  BY DEF IInv, TypeOK, ClientTypeOK, CommandType, FolderType, BoundType, WireOK,
         VersionOK, PerClient

(* A command begins with one request.                                      *)
LEMMA BeginStep ==
  ASSUME IInv, NEW c \in Client, NEW k \in Conn, NEW m \in Request, Ahead(m),
         NEW label \in {"create", "update", "commit", "push", "checkout", "ask", "destroy"},
         Begin(c, k, <<m>>, label),
         label \in {"update", "commit", "checkout"} => m = [op |-> "manifest"],
         label = "push" =>
           /\ mani[c] \in Manifest /\ mani' = mani /\ com[c] # None
           /\ \A f \in todo'[c] : com[c][f] # None,
         todo' \in [Client -> SUBSET File], \A d \in Client \ {c} : todo'[d] = todo[d],
         mani' \in [Client -> ManifestFile], \A d \in Client \ {c} : mani'[d] = mani[d],
         UNCHANGED <<disk, upd, com, serverVars>>, BoundType'
  PROVE  IInv'
  <1>1. CommandType /\ FolderType /\ WireOK /\ client_mutex' = client_mutex
    BY Parts DEF serverVars
  <1>2. <<m>> \in Seq(Request) /\ AllAhead(<<m>>)
    BY OneRequest
  <1>3. label \in Waiting \cup Working
    BY DEF Waiting, Working
  <1>4. /\ WireOK' /\ \A d \in Client \ {c} : SameWire(d)
        /\ pc' = [pc EXCEPT ![c] = label] /\ sock'[c] = k
        /\ toServer'[k] = <<m>> /\ toClient'[k] = <<>>
    BY <1>1, <1>2, <1>3, BeginWire
  <1>5. CommandType' /\ FolderType'
    BY <1>1, <1>3, <1>4 DEF Begin, CommandType, FolderType, Socket
  <1>6. \A d \in Client \ {c} : SameCommand(d) /\ SameFolder(d)
    BY <1>1, <1>4 DEF Begin, CommandType, FolderType, SameCommand, SameFolder
  <1>7. pc'[c] = label
    BY <1>1, <1>4 DEF CommandType
  <1>8. StreamOf(c)'
    BY <1>4, <1>7 DEF StreamOf, Under
  <1>9. CommandOf(c)'
    BY <1>7 DEF CommandOf
  <1>10. CreditOf(c)'
    BY <1>4, <1>7 DEF CreditOf, Need
  <1>11. QED
    BY <1>4, <1>5, <1>6, <1>8, <1>9, <1>10, ClientStep DEF PerClient

(* A command ends.                                                         *)
LEMMA EndStep ==
  ASSUME IInv, NEW c \in Client, pc[c] # "idle",
         NEW requests \in Seq(Request), AllAhead(requests), EndWith(c, requests),
         FolderType', \A d \in Client \ {c} : SameFolder(d),
         UNCHANGED serverVars, BoundType'
  PROVE  IInv'
  <1>1. CommandType /\ WireOK /\ client_mutex' = client_mutex
    BY Parts DEF serverVars
  <1>2. /\ WireOK' /\ \A d \in Client \ {c} : SameWire(d)
        /\ pc' = [pc EXCEPT ![c] = "idle"]
    BY <1>1, EndWire
  <1>3. CommandType'
    BY <1>1, <1>2 DEF EndWith, CommandType, ManifestFile, Socket
  <1>4. \A d \in Client \ {c} : SameCommand(d)
    BY <1>1, <1>2 DEF EndWith, CommandType, SameCommand
  <1>5. pc'[c] = "idle"
    BY <1>1, <1>2 DEF CommandType
  <1>6. PerClient(c)'
    BY <1>5 DEF PerClient, StreamOf, CommandOf, CreditOf, Waiting
  <1>7. QED BY <1>2, <1>3, <1>4, <1>6, ClientStep

-----------------------------------------------------------------------------
(* The step Run of one client.                                             *)
LEMMA RunStep ==
  ASSUME IInv, NEW c \in Client, Run(c)
  PROVE  IInv'
  <1>1. CommandType /\ FolderType /\ BoundType /\ WireOK /\ PerClient(c)
    BY Parts
  <1>2. BoundType' /\ UNCHANGED serverVars
    BY <1>1 DEF Run, BoundType
  <1>3. ASSUME NEW k \in Conn, Create(c, k) PROVE IInv'
    <2>1. [op |-> "cret"] \in Request /\ Ahead([op |-> "cret"])
      BY SimpleRequests DEF Ahead
    <2>2. QED BY <1>1, <1>2, <1>3, <2>1, BeginStep DEF Create, folderVars, CommandType, FolderType
  <1>4. ASSUME NEW k \in Conn, Update(c, k) \/ Commit(c, k) PROVE IInv'
    <2>1. [op |-> "manifest"] \in Request /\ Ahead([op |-> "manifest"])
      BY SimpleRequests DEF Ahead
    <2>2. QED BY <1>1, <1>2, <1>4, <2>1, BeginStep DEF Update, Commit, folderVars, CommandType, FolderType
  <1>5. ASSUME NEW k \in Conn, Checkout(c, k) PROVE IInv'
    <2>1. [op |-> "manifest"] \in Request /\ Ahead([op |-> "manifest"])
      BY SimpleRequests DEF Ahead
    <2>2. /\ mani' \in [Client -> ManifestFile]
          /\ \A d \in Client \ {c} : mani'[d] = mani[d]
      BY <1>1, <1>5 DEF Checkout, FolderType, ManifestFile
    <2>3. QED BY <1>1, <1>2, <1>5, <2>1, <2>2, BeginStep DEF Checkout, CommandType
  <1>6. ASSUME NEW k \in Conn, CurrentVersion(c, k) \/ History(c, k) \/ Rollback(c, k)
        PROVE  IInv'
    <2>1. PICK o \in {"crvs", "hist", "roll"} :
            Begin(c, k, <<[op |-> o]>>, "ask") /\ UNCHANGED <<folderVars, todo>>
      BY <1>6 DEF CurrentVersion, History, Rollback
    <2>2. [op |-> o] \in Request /\ Ahead([op |-> o])
      BY SimpleRequests DEF Ahead
    <2>3. QED BY <1>1, <1>2, <2>1, <2>2, BeginStep DEF folderVars, CommandType, FolderType
  <1>7. ASSUME NEW k \in Conn, UnknownCommand(c, k) PROVE IInv'
    <2>1. [op |-> "dest"] \in Request /\ Ahead([op |-> "dest"])
      BY SimpleRequests DEF Ahead
    <2>2. QED BY <1>1, <1>2, <1>7, <2>1, BeginStep DEF UnknownCommand, folderVars, CommandType, FolderType
  <1>8. ASSUME NEW k \in Conn, NEW t \in Contents, TestSendFile(c, k, t) PROVE IInv'
    <2> DEFINE m == [op |-> "send", hash |-> t, content |-> t]
    <2>1. m \in Request /\ Ahead(m)
      BY ClientAssumption, FileRequests DEF Ahead, Entry
    <2> HIDE DEF m
    <2>2. Begin(c, k, <<m>>, "ask")
      BY <1>8 DEF TestSendFile, m
    <2>3. QED BY <1>1, <1>2, <1>8, <2>1, <2>2, BeginStep DEF TestSendFile, folderVars, CommandType, FolderType
  <1>9. ASSUME mani[c] \in Manifest
        PROVE  PushRequest(c) \in Request /\ Ahead(PushRequest(c))
    <2>1. mani[c].version \in Nat
      BY <1>9 DEF Manifest
    <2>2. QED BY <1>9, <2>1, PushRequests DEF PushRequest, Ahead
  <1>10. ASSUME NEW k \in Conn, Push(c, k) PROVE IInv'
    <2> DEFINE m == PushRequest(c)
    <2>1. m \in Request /\ Ahead(m) /\ mani[c] \in Manifest /\ com[c] # None
      BY <1>9, <1>10 DEF Push
    <2>2. /\ todo' \in [Client -> SUBSET File]
          /\ \A d \in Client \ {c} : todo'[d] = todo[d]
          /\ \A f \in todo'[c] : com[c][f] # None
      BY <1>1, <1>10 DEF Push, CommandType
    <2>3. Begin(c, k, <<m>>, "push") /\ UNCHANGED folderVars
      BY <1>10 DEF Push
    <2> HIDE DEF m
    <2>4. QED BY <1>1, <1>2, <2>1, <2>2, <2>3, BeginStep DEF folderVars, FolderType
  <1>11. ASSUME NEW k \in Conn, PushFault(c, k) PROVE IInv'
    <2> DEFINE m == PushRequest(c)
    <2>1. m \in Request /\ Ahead(m)
      BY <1>9, <1>11 DEF PushFault
    <2>2. <<m>> \in Seq(Request) /\ AllAhead(<<m>>)
      BY <2>1, OneRequest
    <2>3. /\ k \notin clientEnd /\ k \notin serverEnd
          /\ serverEnd' = serverEnd \cup {k}
          /\ toServer' = [toServer EXCEPT ![k] = <<m>>]
          /\ UNCHANGED <<clientEnd, toClient, clientVars>>
      BY <1>11 DEF PushFault, Free
    <2> HIDE DEF m
    <2> USE DEF clientVars, folderVars, commandVars
    <2>4. WireTypeOK' /\ \A j \in Socket : AllAhead(toServer'[j])
      BY <1>1, <2>2, <2>3 DEF WireOK, WireTypeOK
    <2>5. ConnOK'
      BY <1>1, <1>2, <2>3 DEF WireOK, WireTypeOK, ConnOK, serverVars, Socket
    <2>6. \A d \in Client : sock[d] # k
      BY <1>1, <2>3, WireAssumption DEF WireOK, ConnOK
    <2>7. \A d \in Client : SameCommand(d) /\ SameFolder(d) /\ SameWire(d)
      BY <1>1, <2>3, <2>6
         DEF SameCommand, SameFolder, SameWire, WireOK, WireTypeOK, CommandType
    <2>8. PerClient(c)'
      BY <1>1, <2>7, Unaffected DEF WireOK
    <2>9. CommandType' /\ FolderType'
      BY <1>1, <2>3 DEF CommandType, FolderType
    <2>10. QED BY <1>2, <2>4, <2>5, <2>7, <2>8, <2>9, ClientStep DEF WireOK
  <1>12. ASSUME NEW k \in Conn, Upgrade(c, k) PROVE IInv'
    <2>1. <<>> \in Seq(Request) /\ AllAhead(<<>>) /\ "upgrade" \in Waiting \cup Working
      BY DEF AllAhead, Working
    <2>2. /\ WireOK' /\ \A d \in Client \ {c} : SameWire(d)
          /\ pc' = [pc EXCEPT ![c] = "upgrade"] /\ sock'[c] = k
          /\ toServer'[k] = <<>> /\ toClient'[k] = <<>>
      BY <1>1, <1>2, <1>12, <2>1, BeginWire DEF Upgrade, serverVars
    <2>3. /\ CommandType' /\ FolderType' /\ pc'[c] = "upgrade"
          /\ \A d \in Client \ {c} : SameCommand(d) /\ SameFolder(d)
      BY <1>1, <1>12, <2>1, <2>2
         DEF Upgrade, Begin, LinesOf, folderVars, CommandType, FolderType, SameCommand,
             SameFolder, Socket
    <2>4. PerClient(c)'
      BY <1>12, <2>2, <2>3
         DEF PerClient, StreamOf, CommandOf, CreditOf, Under, Waiting, Upgrade, folderVars
    <2>5. QED BY <1>2, <2>2, <2>3, <2>4, ClientStep
  <1>13. ASSUME NEW f \in File, Add(c, f) \/ Remove(c, f) PROVE IInv'
    <2>1. mani[c] \in Manifest /\ mani[c].hash \in [File -> Entry] /\ None \in Entry
      BY <1>13 DEF Add, Remove, Manifest, Entry
    <2>2. Md5(disk[c][f]) \in Entry
      BY <1>1 DEF FolderType, Md5, Entry, Text
    <2>3. PICK e \in Entry : mani' = [mani EXCEPT ![c].hash[f] = e]
      BY <1>13, <2>1, <2>2 DEF Add, Remove
    <2> DEFINE h == [mani[c].hash EXCEPT ![f] = e]
               new == [mani[c] EXCEPT !.hash = h]
    <2>4. h \in [File -> Entry]
      BY <2>1, <2>3
    <2>5. new \in Manifest
      BY <2>1, <2>4 DEF Manifest
    <2>6. mani' = [mani EXCEPT ![c] = new]
      BY <2>3
    <2>7. UNCHANGED <<disk, upd, com, commandVars, wireVars>> /\ pc[c] = "idle"
      BY <1>13 DEF Add, Remove
    <2>8. /\ FolderType' /\ pc[c] = "idle"
          /\ \A d \in Client \ {c} : mani'[d] = mani[d]
          /\ UNCHANGED <<disk, upd, com, commandVars, wireVars>>
      <3> HIDE DEF new
      <3> QED BY <1>1, <2>5, <2>6, <2>7 DEF FolderType, ManifestFile
    <2> USE DEF commandVars, wireVars, serverVars
    <2>9. CommandType' /\ WireOK'
      BY <1>1, <1>2, <2>8 DEF CommandType, WireOK, WireTypeOK, ConnOK
    <2>10. \A d \in Client \ {c} : SameCommand(d) /\ SameFolder(d) /\ SameWire(d)
      BY <2>8 DEF SameCommand, SameFolder, SameWire
    <2>11. PerClient(c)'
      BY <1>1, <2>8 DEF PerClient, StreamOf, CommandOf, CreditOf, Waiting
    <2>12. QED BY <1>2, <2>8, <2>9, <2>10, <2>11, ClientStep
  <1>14. ASSUME Destroy(c) PROVE IInv'
    <2> USE DEF clientVars, folderVars, commandVars, wireVars, serverVars
    <2>1. CommandType' /\ WireOK' /\ FolderType'
      BY <1>1, <1>2, <1>14 DEF Destroy, CommandType, FolderType, WireOK, WireTypeOK, ConnOK
    <2>2. \A d \in Client : SameCommand(d) /\ SameFolder(d) /\ SameWire(d)
      BY <1>14 DEF Destroy, SameCommand, SameFolder, SameWire
    <2>3. PerClient(c)'
      BY <1>1, <2>2, Unaffected DEF WireOK
    <2>4. QED BY <1>2, <2>1, <2>2, <2>3, ClientStep
  <1>15. QED
    BY <1>3, <1>4, <1>5, <1>6, <1>7, <1>8, <1>10, <1>11, <1>12, <1>13, <1>14
       DEF Run, Launch

-----------------------------------------------------------------------------
(* The files commands write have their types.                              *)
LEMMA NoLinesType ==
  NoLines \in UpdateFile /\ NoLines \in CommitFile /\ NoFiles \in [File -> Entry]
  BY DEF NoLines, NoFiles, UpdateFile, CommitFile, Entry

LEMMA EmptyManifestType == EmptyManifest \in Manifest
  BY DEF EmptyManifest, Manifest, Entry

LEMMA EmptyText == <<>> \in Text
  BY DEF Text

LEMMA Md5Type ==
  ASSUME NEW e \in Entry
  PROVE  Md5(e) \in Text /\ Md5(e) \in Entry /\ Md5(e) # None
  BY EmptyText, StoreAssumption DEF Md5, Entry

LEMMA UpdateLinesType ==
  ASSUME NEW client \in Manifest, NEW server \in Manifest,
         NEW folder \in [File -> Entry], NEW answer
  PROVE  UpdateLines(client, server, folder, answer) \in UpdateFile
  <1>1. /\ client.hash \in [File -> Entry] /\ server.hash \in [File -> Entry]
        /\ None \in Entry
    BY DEF Manifest, Entry
  <1>2. \A f \in File : UploadHash(client, server, folder, answer, f) \in Entry
    BY <1>1, Md5Type DEF UploadHash
  <1>3. \A f \in File : UpdateLines(client, server, folder, answer)[f] \in Line \cup {None}
    <2> SUFFICES ASSUME NEW f \in File
                 PROVE  UpdateLines(client, server, folder, answer)[f] \in Line \cup {None}
      OBVIOUS
    <2> DEFINE u == UploadHash(client, server, folder, answer, f)
    <2>1. u \in Entry /\ server.hash[f] \in Entry
      BY <1>1, <1>2
    <2>2. \A mode \in {"U", "M", "D"}, new \in Entry : [mode |-> mode, new |-> new] \in Line
      BY DEF Line
    <2>3. UpdateLines(client, server, folder, answer)[f]
            \in {[mode |-> "D", new |-> None], [mode |-> "M", new |-> server.hash[f]],
                 [mode |-> "U", new |-> u], None}
      BY DEF UpdateLines
    <2> HIDE DEF u
    <2>4. QED BY <1>1, <2>1, <2>2, <2>3
  <1>4. UpdateLines(client, server, folder, answer)
          = [f \in File |-> UpdateLines(client, server, folder, answer)[f]]
    BY DEF UpdateLines
  <1>5. QED BY <1>3, <1>4 DEF UpdateFile

LEMMA CommitLinesType ==
  ASSUME NEW update \in UpdateFile
  PROVE  CommitLines(update) \in CommitFile
  BY DEF CommitLines, CommitFile, UpdateFile, Line, Entry

(* What a write leaves of a content is a content.                          *)
LEMMA OverwriteType ==
  ASSUME NEW old \in Text, NEW new \in Text
  PROVE  Overwrite(old, new) \in Text
  BY DEF Text, Overwrite

LEMMA WriteAtType ==
  ASSUME NEW old \in Text, NEW n \in Nat, NEW new \in Text
  PROVE  WriteAt(old, n, new) \in Text
  <1>1. \A i \in 1..n : UpTo(old, n)[i] \in Byte
    BY StoreAssumption DEF Text, UpTo
  <1>2. UpTo(old, n) \in Text
    BY <1>1 DEF UpTo, Text
  <1>3. SubSeq(old, n + Len(new) + 1, Len(old)) \in Text
    BY DEF Text
  <1>4. QED BY <1>2, <1>3 DEF WriteAt, Text

(* What a command reads from its connection.                               *)
LEMMA LastOne ==
  ASSUME NEW S, NEW q \in Seq(S), Len(q) = 1
  PROVE  Head(q) = q[1] /\ Tail(q) = <<>> /\ q # <<>>
  <1>1. Tail(q) \in Seq(S) /\ Len(Tail(q)) = 0
    OBVIOUS
  <1>2. Tail(q) = <<>>
    BY <1>1, EmptySeq
  <1>3. QED BY <1>2

LEMMA OwnRequests ==
  ASSUME IInv, NEW c \in Client
  PROVE  toServer[sock[c]] \in Seq(Request) /\ AllAhead(toServer[sock[c]])
  BY Parts DEF WireOK, WireTypeOK, CommandType

LEMMA ReadManifest ==
  ASSUME IInv, NEW c \in Client, pc[c] \in {"update", "commit", "checkout"},
         NEW m \in ManifestRead(c)
  PROVE  m \in ManifestFile
  <1>1. Under(sock[c], [op : {"manifest"}], [manifest : ManifestFile])
    BY Parts DEF PerClient, StreamOf
  <1>2. CASE Arrived(c)
    <2>1. Len(toClient[sock[c]]) = 1 /\ toClient[sock[c]][1] \in [manifest : ManifestFile]
      BY <1>1, <1>2 DEF Under, Arrived
    <2>2. QED BY <1>2, <2>1 DEF ManifestRead, First
  <1>3. CASE ~Arrived(c)
    BY <1>3 DEF ManifestRead, ManifestFile
  <1>4. QED BY <1>2, <1>3

LEMMA ReadContent ==
  ASSUME IInv, NEW c \in Client, pc[c] \in {"blob", "file"},
         NEW content \in ContentRead(c)
  PROVE  /\ content \in Text
         /\ toServer[sock[c]] = <<>>
         /\ (IF toClient[sock[c]] = <<>> THEN <<>> ELSE Tail(toClient[sock[c]])) = <<>>
  <1>1. Under(sock[c], [op : {"recv"}, hash : Text], [content : Text])
    BY Parts DEF PerClient, StreamOf
  <1>2. ConnOK /\ sock[c] \in Socket /\ toClient[sock[c]] \in Seq(Reply)
    BY Parts DEF WireOK, WireTypeOK, CommandType
  <1>3. CASE Arrived(c)
    <2>1. /\ toServer[sock[c]] = <<>>
          /\ Len(toClient[sock[c]]) = 1 /\ toClient[sock[c]][1] \in [content : Text]
      BY <1>1, <1>3 DEF Under, Arrived
    <2>2. content = Head(toClient[sock[c]]).content
      BY <1>3 DEF ContentRead, First
    <2>3. /\ Head(toClient[sock[c]]) = toClient[sock[c]][1]
          /\ Tail(toClient[sock[c]]) = <<>> /\ toClient[sock[c]] # <<>>
      BY <1>2, <2>1, LastOne
    <2>4. QED BY <2>1, <2>2, <2>3
  <1>4. CASE ~Arrived(c)
    <2>1. Lost(c) /\ content \in Contents \cup {<<>>}
      BY <1>4 DEF ContentRead
    <2>2. content \in Text
      BY <2>1, EmptyText, ClientAssumption
    <2>3. QED BY <1>2, <2>1, <2>2 DEF Lost, ConnOK
  <1>5. QED BY <1>3, <1>4

-----------------------------------------------------------------------------
(* The last step of a command.                                             *)
LEMMA EndingStep ==
  ASSUME IInv, NEW c \in Client, pc[c] # "idle", End(c),
         FolderType', \A d \in Client \ {c} : SameFolder(d),
         UNCHANGED serverVars, BoundType'
  PROVE  IInv'
  BY OwnRequests, EndStep DEF End


(* However a push went, the local version goes up.                         *)
LEMMA BumpStep ==
  ASSUME IInv, NEW c \in Client, pc[c] \in {"sent", "abort", "complete"},
         NEW requests \in Seq(Request), AllAhead(requests), Bump(c, requests),
         UNCHANGED serverVars, BoundType'
  PROVE  IInv'
  <1>1. FolderType /\ mani[c] \in Manifest
    BY Parts DEF PerClient, CommandOf
  <1>2. [mani[c] EXCEPT !.version = @ + 1] \in Manifest
    BY <1>1 DEF Manifest
  <1>3. mani' = [mani EXCEPT ![c] = [mani[c] EXCEPT !.version = @ + 1]]
    BY DEF Bump
  <1>4. FolderType' /\ \A d \in Client \ {c} : SameFolder(d)
    BY <1>1, <1>2, <1>3 DEF Bump, FolderType, SameFolder, ManifestFile
  <1>5. QED BY <1>4, EndStep DEF Bump

LEMMA GiveUpStep ==
  ASSUME IInv, NEW c \in Client, pc[c] \in {"sent", "abort"}, GiveUp(c),
         UNCHANGED serverVars, BoundType'
  PROVE  IInv'
  <1> DEFINE m == [op |-> "fail"]
  <1>1. m \in Request /\ Ahead(m)
    BY SimpleRequests DEF Ahead
  <1>2. toServer[sock[c]] \in Seq(Request) /\ AllAhead(toServer[sock[c]])
    BY OwnRequests
  <1>3. Bump(c, Append(toServer[sock[c]], m))
    BY DEF GiveUp
  <1> HIDE DEF m
  <1>4. QED BY <1>1, <1>2, <1>3, SendRequest, BumpStep

(* A step of a command that leaves the folder as it was, or sets disk.     *)
LEMMA GoingOn ==
  ASSUME IInv, NEW c \in Client, NEW label \in Waiting \cup Working,
         pc' = [pc EXCEPT ![c] = label], UNCHANGED <<sock, serverVars>>,
         WireOK', \A d \in Client \ {c} : SameWire(d),
         FolderType', \A d \in Client \ {c} : SameFolder(d),
         todo' \in [Client -> SUBSET File], \A d \in Client \ {c} : todo'[d] = todo[d],
         cur' \in [Client -> File \cup {None}], \A d \in Client \ {c} : cur'[d] = cur[d],
         at' \in [Client -> Nat \cup {None}], \A d \in Client \ {c} : at'[d] = at[d],
         got' \in [Client -> ManifestFile], \A d \in Client \ {c} : got'[d] = got[d],
         BoundType', PerClient(c)'
  PROVE  IInv'
  <1>1. CommandType /\ CommandType'
    BY Parts DEF CommandType
  <1>2. \A d \in Client \ {c} : SameCommand(d)
    BY <1>1 DEF CommandType, SameCommand
  <1>3. QED BY <1>1, <1>2, ClientStep

-----------------------------------------------------------------------------
(* The step Step of one client, by command.                                *)
LEMMA SmallSteps ==
  ASSUME IInv, NEW c \in Client, UNCHANGED serverVars, BoundType',
         \/ Created(c) \/ UpdateFault(c) \/ Compare(c) \/ Committed(c)
         \/ UpgradeEnd(c) \/ FetchEnd(c) \/ Queried(c) \/ Destroyed(c)
  PROVE  IInv'
  <1>1. CommandType /\ FolderType /\ PerClient(c)
    BY Parts
  <1>2. pc[c] # "idle" /\ End(c)
    BY DEF Created, UpdateFault, Compare, Committed, UpgradeEnd, FetchEnd, Queried, Destroyed
  <1>3. FolderType' /\ \A d \in Client \ {c} : SameFolder(d)
    <2>1. CASE Created(c)
      BY <1>1, <2>1, EmptyManifestType DEF Created, FolderType, SameFolder, ManifestFile
    <2>2. CASE UpdateFault(c)
      BY <1>1, <2>2, NoLinesType DEF UpdateFault, FolderType, SameFolder
    <2>3. CASE Compare(c)
      <3>1. mani[c] \in Manifest /\ got[c] \in Manifest /\ disk[c] \in [File -> Entry]
        BY <1>1, <2>3 DEF Compare, PerClient, CommandOf, FolderType
      <3>2. PICK u \in UpdateFile : upd' = [upd EXCEPT ![c] = u]
        BY <2>3, <3>1, NoLinesType, UpdateLinesType DEF Compare
      <3>3. UNCHANGED <<disk, mani, com>>
        BY <2>3 DEF Compare
      <3>4. QED BY <1>1, <3>2, <3>3 DEF FolderType, SameFolder
    <2>4. CASE Committed(c)
      <3>1. PICK u \in CommitFile : com' = [com EXCEPT ![c] = u]
        BY <1>1, <2>4, NoLinesType, CommitLinesType DEF Committed, FolderType
      <3>2. UNCHANGED <<disk, mani, upd>>
        BY <2>4 DEF Committed
      <3>3. QED BY <1>1, <3>1, <3>2 DEF FolderType, SameFolder
    <2>5. CASE UpgradeEnd(c) \/ FetchEnd(c) \/ Queried(c)
      BY <1>1, <2>5 DEF UpgradeEnd, FetchEnd, Queried, folderVars, FolderType, SameFolder
    <2>6. CASE Destroyed(c)
      BY <1>1, <2>6, NoLinesType DEF Destroyed, folderVars, FolderType, SameFolder, ManifestFile
    <2>7. QED BY <2>1, <2>2, <2>3, <2>4, <2>5, <2>6
  <1>4. QED BY <1>2, <1>3, EndingStep

LEMMA UpdatedStep ==
  ASSUME IInv, NEW c \in Client, UNCHANGED serverVars, BoundType', Updated(c)
  PROVE  IInv'
  <1>1. CommandType /\ FolderType /\ WireOK /\ PerClient(c)
    BY Parts
  <1>2. pc[c] = "update" /\ Take(c, "compare") /\ "compare" \in Waiting \cup Working
    BY DEF Updated, Working
  <1>3. /\ WireOK' /\ \A d \in Client \ {c} : SameWire(d)
        /\ pc' = [pc EXCEPT ![c] = "compare"]
    BY <1>1, <1>2, TakeWire DEF serverVars
  <1>4. PICK m \in Manifest : mani[c] \in Manifest /\ got' = [got EXCEPT ![c] = m]
    BY DEF Updated
  <1>5. /\ FolderType' /\ \A d \in Client \ {c} : SameFolder(d)
        /\ todo' = todo /\ cur' = cur /\ at' = at /\ sock' = sock /\ mani' = mani
    BY <1>1 DEF Updated, Take, folderVars, FolderType, SameFolder
  <1>6. PerClient(c)'
    BY <1>1, <1>3, <1>4, <1>5
       DEF PerClient, StreamOf, CommandOf, CreditOf, CommandType, Waiting
  <1>7. QED BY <1>1, <1>2, <1>3, <1>4, <1>5, <1>6, GoingOn DEF CommandType, ManifestFile

(* upgrade and checkout: a file is asked for.                              *)
LEMMA FetchSteps ==
  ASSUME IInv, NEW c \in Client, UNCHANGED serverVars, BoundType', NEW f \in File,
         UpgradeFetch(c, f) \/ FetchFile(c, f)
  PROVE  IInv'
  <1>1. CommandType /\ FolderType /\ WireOK /\ PerClient(c)
    BY Parts
  <1>2. PICK t \in Text, label \in {"blob", "file"} :
          /\ Ask(c, [op |-> "recv", hash |-> t], label)
          /\ pc[c] = (IF label = "blob" THEN "upgrade" ELSE "fetch")
    <2>1. CASE UpgradeFetch(c, f)
      BY <1>1, <2>1, Md5Type DEF UpgradeFetch, FolderType
    <2>2. CASE FetchFile(c, f)
      <3>1. mani[c] \in Manifest /\ f \in Listed(mani[c])
        BY <1>1, <2>2 DEF FetchFile, PerClient, CommandOf
      <3>2. mani[c].hash[f] \in Text
        BY <3>1 DEF Listed, Manifest, Entry
      <3>3. QED BY <2>2, <3>2 DEF FetchFile
    <2>3. QED BY <2>1, <2>2
  <1> DEFINE m == [op |-> "recv", hash |-> t]
  <1>3. m \in Request /\ Ahead(m) /\ m \in [op : {"recv"}, hash : Text]
    BY FileRequests DEF Ahead, Entry
  <1>4. Ask(c, m, label)
    BY <1>2
  <1> HIDE DEF m
  <1>5. pc[c] # "idle" /\ label \in Waiting \cup Working
    BY <1>2 DEF Waiting
  <1>6. /\ WireOK' /\ \A d \in Client \ {c} : SameWire(d)
        /\ pc' = [pc EXCEPT ![c] = label]
        /\ toClient' = toClient /\ serverEnd' = serverEnd
        /\ sock[c] \notin serverEnd => toServer'[sock[c]] = <<>>
        /\ sock[c] \in serverEnd => toServer'[sock[c]] = Append(toServer[sock[c]], m)
    BY <1>1, <1>3, <1>4, <1>5, AskWire DEF serverVars
  <1>7. toServer[sock[c]] = <<>> /\ toClient[sock[c]] = <<>>
    BY <1>1, <1>2 DEF PerClient, StreamOf, Under
  <1>8. /\ UNCHANGED <<folderVars, sock, got>>
        /\ cur' = [cur EXCEPT ![c] = f] /\ todo' = [todo EXCEPT ![c] = @ \ {f}]
    BY DEF UpgradeFetch, FetchFile, Ask
  <1>9. /\ FolderType' /\ \A d \in Client \ {c} : SameFolder(d)
        /\ todo' \in [Client -> SUBSET File] /\ cur' \in [Client -> File \cup {None}]
        /\ pc'[c] = label /\ cur'[c] = f /\ todo'[c] \subseteq todo[c]
    BY <1>1, <1>6, <1>8 DEF folderVars, FolderType, SameFolder, CommandType
  <1>15. /\ at' \in [Client -> Nat \cup {None}]
         /\ \A d \in Client \ {c} : at'[d] = at[d]
         /\ label = "blob" /\ at'[c] # None => disk[c][f] # None
    <2>1. CASE UpgradeFetch(c, f)
      <3>1. disk[c][f] # None => Len(disk[c][f]) \in Nat
        BY <1>1 DEF FolderType, Entry, Text
      <3>2. QED BY <1>1, <2>1, <3>1 DEF UpgradeFetch, CommandType
    <2>2. CASE FetchFile(c, f)
      BY <1>1, <1>2, <2>2 DEF FetchFile, CommandType
    <2>3. QED BY <2>1, <2>2
  <1>10. /\ toServer'[sock[c]] = <<>> \/ toServer'[sock[c]] = <<m>>
         /\ sock[c] \in serverEnd => toServer'[sock[c]] = <<m>>
         /\ toClient'[sock[c]] = <<>> /\ sock' = sock
    BY <1>6, <1>7, <1>8
  <1>11. StreamOf(c)'
    <2>1. Len(<<m>>) = 1 /\ <<m>>[1] = m
      OBVIOUS
    <2>2. Under(sock[c], [op : {"recv"}, hash : Text], [content : Text])'
      BY <1>3, <1>10, <2>1 DEF Under
    <2>3. QED BY <1>9, <1>10, <2>2 DEF StreamOf
  <1>12. CommandOf(c)'
    BY <1>1, <1>2, <1>8, <1>9, <1>15 DEF PerClient, CommandOf, folderVars
  <1>13. CreditOf(c)'
    <2>1. toServer[sock[c]] \in Seq(Request)
      BY <1>5, OwnRequests
    <2>2. sock[c] \in serverEnd => Len(toServer'[sock[c]]) = Len(toServer[sock[c]]) + 1
      BY <1>3, <1>6, <2>1, AppendLen
    <2>3. sock[c] \in serverEnd =>
            Len(toServer'[sock[c]]) = 1 /\ Len(toClient'[sock[c]]) = 0
      BY <1>6, <1>7, <2>2
    <2>4. pc'[c] = label /\ sock'[c] = sock[c] /\ serverEnd' = serverEnd
      BY <1>6, <1>9, <1>10
    <2>5. Need(pc'[c]) = 1
      BY <2>4 DEF Need
    <2>6. sock'[c] \in serverEnd' =>
            Len(toServer'[sock'[c]]) = 1 /\ Len(toClient'[sock'[c]]) = 0
      BY <2>3, <2>4
    <2>7. sock'[c] \in serverEnd' =>
            Len(toServer'[sock'[c]]) + Len(toClient'[sock'[c]]) >= Need(pc'[c])
      BY <2>5, <2>6, CreditSum
    <2>8. QED BY <2>7 DEF CreditOf
  <1>14. QED
    BY <1>1, <1>5, <1>6, <1>8, <1>9, <1>11, <1>12, <1>13, <1>15, GoingOn
       DEF PerClient, CommandType

(* upgrade and checkout: the file arrives.                                 *)
LEMMA WriteSteps ==
  ASSUME IInv, NEW c \in Client, UNCHANGED serverVars, BoundType',
         UpgradeWrite(c) \/ FetchWrite(c)
  PROVE  IInv'
  <1>1. CommandType /\ FolderType /\ WireOK /\ PerClient(c)
    BY Parts
  <1>2. PICK label \in {"upgrade", "fetch"} :
          /\ Take(c, label)
          /\ pc[c] = (IF label = "upgrade" THEN "blob" ELSE "file")
    BY DEF UpgradeWrite, FetchWrite
  <1> DEFINE old == disk[c][cur[c]]
  <1>3. PICK content \in ContentRead(c) :
          \E e \in {old, IF old = None THEN None ELSE Overwrite(old, content)}
                    \cup (IF at[c] = None \/ pc[c] # "blob" THEN {}
                          ELSE {WriteAt(old, at[c], content)}) :
            disk' = [disk EXCEPT ![c][cur[c]] = e]
    BY <1>2 DEF UpgradeWrite, FetchWrite, SetDisk
  <1>4. /\ content \in Text /\ toServer[sock[c]] = <<>>
        /\ (IF toClient[sock[c]] = <<>> THEN <<>> ELSE Tail(toClient[sock[c]])) = <<>>
    BY <1>2, <1>3, ReadContent
  <1>5. pc[c] # "idle" /\ label \in Waiting \cup Working
    BY <1>2 DEF Working
  <1>6. /\ WireOK' /\ \A d \in Client \ {c} : SameWire(d)
        /\ pc' = [pc EXCEPT ![c] = label]
        /\ toServer' = toServer /\ serverEnd' = serverEnd /\ toClient'[sock[c]] = <<>>
    BY <1>1, <1>2, <1>4, <1>5, TakeWire DEF serverVars
  <1>7. /\ UNCHANGED <<mani, upd, com, sock, todo, got>>
        /\ cur' = [cur EXCEPT ![c] = None]
        /\ at' \in [Client -> Nat \cup {None}]
        /\ \A d \in Client \ {c} : at'[d] = at[d]
    BY <1>1 DEF UpgradeWrite, FetchWrite, Take, CommandType
  <1>8. disk' \in [Client -> [File -> Entry]] /\ \A d \in Client \ {c} : disk'[d] = disk[d]
    <2>1. cur[c] \in File /\ disk[c] \in [File -> Entry]
      BY <1>1, <1>2 DEF PerClient, CommandOf, FolderType
    <2>2. old \in Entry /\ (pc[c] = "blob" /\ at[c] # None => old # None /\ at[c] \in Nat)
      BY <1>1, <2>1 DEF PerClient, CommandOf, CommandType
    <2>3. old # None => Overwrite(old, content) \in Text
      BY <1>4, <2>2, OverwriteType DEF Entry
    <2>4. pc[c] = "blob" /\ at[c] # None => WriteAt(old, at[c], content) \in Text
      BY <1>4, <2>2, WriteAtType DEF Entry
    <2> HIDE DEF old
    <2>6. PICK e \in Entry : disk' = [disk EXCEPT ![c][cur[c]] = e]
      BY <1>3, <2>2, <2>3, <2>4 DEF Entry
    <2>7. disk' \in [Client -> [File -> Entry]]
      BY <1>1, <2>1, <2>6 DEF FolderType
    <2>8. \A d \in Client \ {c} : disk'[d] = disk[d]
      BY <1>1, <2>6 DEF FolderType
    <2>9. QED BY <2>7, <2>8
  <1>9. /\ FolderType' /\ \A d \in Client \ {c} : SameFolder(d)
        /\ cur' \in [Client -> File \cup {None}] /\ pc'[c] = label
    BY <1>1, <1>6, <1>7, <1>8 DEF FolderType, SameFolder, CommandType
  <1>10. PerClient(c)'
    BY <1>1, <1>2, <1>4, <1>6, <1>7, <1>9
       DEF PerClient, StreamOf, Under, CommandOf, CreditOf, Waiting
  <1>11. QED
    BY <1>1, <1>5, <1>6, <1>7, <1>9, <1>10, GoingOn DEF CommandType

(* push: a request goes out, so the replies to come cover one read more.   *)
LEMMA PushAsks ==
  ASSUME IInv, NEW c \in Client, UNCHANGED serverVars, BoundType',
         \/ \E f \in File : PushFile(c, f)
         \/ PushComplete(c)
  PROVE  IInv'
  <1>1. CommandType /\ FolderType /\ WireOK /\ PerClient(c)
    BY Parts
  <1>2. pc[c] = "push"
    BY DEF PushFile, PushComplete
  <1>3. PICK m \in Request, label \in {"sent", "complete"} :
          Ahead(m) /\ Ask(c, m, label)
    <2>1. ASSUME NEW f \in File, PushFile(c, f)
          PROVE  \E m \in Request, label \in {"sent", "complete"} :
                   Ahead(m) /\ Ask(c, m, label)
      <3> DEFINE m == [op |-> "send", hash |-> com[c][f], content |-> com[c][f]]
      <3>1. com[c] \in CommitFile /\ com[c][f] # None
        BY <1>1, <2>1 DEF PushFile, PerClient, CommandOf, FolderType
      <3>2. com[c][f] \in Text
        BY <3>1 DEF CommitFile, Entry
      <3>3. m \in Request /\ Ahead(m)
        BY <3>2, FileRequests DEF Ahead, Entry
      <3>4. Ask(c, m, "sent")
        BY <2>1 DEF PushFile
      <3> HIDE DEF m
      <3>5. QED BY <3>3, <3>4
    <2>2. CASE PushComplete(c)
      <3> DEFINE m == [op |-> "cplt"]
      <3>1. m \in Request /\ Ahead(m)
        BY SimpleRequests DEF Ahead
      <3>2. Ask(c, m, "complete")
        BY <2>2 DEF PushComplete
      <3> HIDE DEF m
      <3>3. QED BY <3>1, <3>2
    <2>3. QED BY <2>1, <2>2
  <1>4. pc[c] # "idle" /\ label \in Waiting \cup Working
    BY <1>2 DEF Waiting
  <1>5. /\ WireOK' /\ \A d \in Client \ {c} : SameWire(d)
        /\ pc' = [pc EXCEPT ![c] = label]
        /\ toClient' = toClient /\ serverEnd' = serverEnd
        /\ sock[c] \in serverEnd => toServer'[sock[c]] = Append(toServer[sock[c]], m)
    BY <1>1, <1>3, <1>4, AskWire DEF serverVars
  <1>6. /\ UNCHANGED <<folderVars, sock, got, cur, at>>
        /\ todo' \in [Client -> SUBSET File] /\ todo'[c] \subseteq todo[c]
        /\ \A d \in Client \ {c} : todo'[d] = todo[d]
    <2>1. UNCHANGED <<folderVars, sock, got, cur, at>>
      BY DEF PushFile, PushComplete, Ask
    <2>2. PICK s \in SUBSET todo[c] : todo' = [todo EXCEPT ![c] = s]
      <3>1. CASE PushComplete(c)
        <4>1. todo' = [todo EXCEPT ![c] = todo[c]]
          BY <1>1, <3>1 DEF PushComplete, CommandType
        <4>2. QED BY <4>1
      <3>2. ASSUME NEW f \in File, PushFile(c, f)
            PROVE  \E s \in SUBSET todo[c] : todo' = [todo EXCEPT ![c] = s]
        <4>1. todo' = [todo EXCEPT ![c] = todo[c] \ {f}]
          BY <3>2 DEF PushFile
        <4>2. QED BY <4>1
      <3>3. QED BY <3>1, <3>2
    <2>3. QED BY <1>1, <2>1, <2>2 DEF CommandType
  <1>7. /\ FolderType' /\ \A d \in Client \ {c} : SameFolder(d)
        /\ pc'[c] = label
    BY <1>1, <1>5, <1>6 DEF folderVars, FolderType, SameFolder, CommandType
  <1>8. StreamOf(c)' /\ CommandOf(c)'
    BY <1>1, <1>2, <1>6, <1>7 DEF StreamOf, PerClient, CommandOf, folderVars
  <1>9. CreditOf(c)'
    <2>1. toServer[sock[c]] \in Seq(Request) /\ toClient[sock[c]] \in Seq(Reply)
      BY <1>1 DEF WireOK, WireTypeOK, CommandType
    <2>2. sock[c] \in serverEnd => Len(toServer[sock[c]]) + Len(toClient[sock[c]]) >= 1
      BY <1>1, <1>2 DEF PerClient, CreditOf, Need
    <2>3. sock[c] \in serverEnd =>
            Len(toServer'[sock[c]]) + Len(toClient'[sock[c]]) >= 2
      BY <1>3, <1>5, <2>1, <2>2, AskedCredit
    <2>4. Need(pc'[c]) = 2
      BY <1>7 DEF Need
    <2>5. QED BY <1>5, <1>6, <2>3, <2>4 DEF CreditOf
  <1>10. QED
    BY <1>1, <1>4, <1>5, <1>6, <1>7, <1>8, <1>9, GoingOn DEF PerClient, CommandType

LEMMA MismatchStep ==
  ASSUME IInv, NEW c \in Client, UNCHANGED serverVars, BoundType',
         NEW f \in File, PushMismatch(c, f)
  PROVE  IInv'
  <1>1. CommandType /\ FolderType /\ WireOK /\ PerClient(c)
    BY Parts
  <1>2. /\ pc[c] = "push" /\ pc' = [pc EXCEPT ![c] = "abort"] /\ pc'[c] = "abort"
        /\ UNCHANGED <<folderVars, sock, todo, cur, at, got, wireVars, client_mutex>>
    BY <1>1 DEF PushMismatch, CommandType, serverVars
  <1>3. "abort" \in Waiting \cup Working
    BY DEF Waiting
  <1>4. /\ WireOK' /\ FolderType'
        /\ \A d \in Client \ {c} : SameWire(d) /\ SameFolder(d)
    BY <1>1, <1>2 DEF WireOK, WireTypeOK, ConnOK, wireVars, folderVars, FolderType,
                      CommandType, SameWire, SameFolder
  <1>5. StreamOf(c)' /\ CommandOf(c)'
    BY <1>1, <1>2 DEF StreamOf, PerClient, CommandOf, folderVars
  <1>6. CreditOf(c)'
    BY <1>1, <1>2 DEF PerClient, CreditOf, Need, wireVars
  <1>7. QED BY <1>1, <1>2, <1>3, <1>4, <1>5, <1>6, GoingOn DEF PerClient, CommandType

LEMMA ReplyStep ==
  ASSUME IInv, NEW c \in Client, UNCHANGED serverVars, BoundType', PushReply(c)
  PROVE  IInv'
  <1>1. CommandType /\ FolderType /\ WireOK /\ PerClient(c)
    BY Parts
  <1>2. pc[c] = "sent" /\ "push" \in Waiting \cup Working /\ (Arrived(c) \/ Lost(c))
    BY DEF PushReply, StatusRead, Working
  <1>3. CASE GiveUp(c)
    BY <1>2, <1>3, GiveUpStep
  <1>4. CASE Take(c, "push") /\ UNCHANGED <<folderVars, todo, cur, at, got>>
    <2>1. /\ WireOK' /\ \A d \in Client \ {c} : SameWire(d)
          /\ pc' = [pc EXCEPT ![c] = "push"]
          /\ toServer' = toServer /\ serverEnd' = serverEnd
          /\ toClient'[sock[c]] = IF toClient[sock[c]] = <<>> THEN <<>>
                                  ELSE Tail(toClient[sock[c]])
      BY <1>1, <1>2, <1>4, TakeWire DEF serverVars
    <2>2. /\ FolderType' /\ \A d \in Client \ {c} : SameFolder(d)
          /\ pc'[c] = "push" /\ sock' = sock
      BY <1>1, <1>4, <2>1 DEF folderVars, FolderType, SameFolder, CommandType, Take
    <2>3. StreamOf(c)' /\ CommandOf(c)'
      BY <1>1, <1>2, <1>4, <2>2 DEF StreamOf, PerClient, CommandOf, folderVars
    <2>4. CreditOf(c)'
      <3>1. toServer[sock[c]] \in Seq(Request) /\ toClient[sock[c]] \in Seq(Reply)
        BY <1>1 DEF WireOK, WireTypeOK, CommandType
      <3>2. sock[c] \in serverEnd =>
              /\ toClient[sock[c]] # <<>>
              /\ Len(toServer[sock[c]]) + Len(toClient[sock[c]]) >= 2
        BY <1>1, <1>2 DEF PerClient, CreditOf, Need, Waiting, Arrived, Lost
      <3>3. sock[c] \in serverEnd =>
              Len(toServer'[sock[c]]) + Len(toClient'[sock[c]]) >= 1
        BY <2>1, <3>1, <3>2, TakenCredit
      <3>4. Need(pc'[c]) = 1
        BY <2>2 DEF Need
      <3>5. QED BY <2>1, <2>2, <3>3, <3>4 DEF CreditOf
    <2>5. QED
      BY <1>1, <1>2, <1>4, <2>1, <2>2, <2>3, <2>4, GoingOn DEF PerClient, CommandType
  <1>5. QED BY <1>3, <1>4 DEF PushReply

(* upgrade: a D line.                                                      *)
LEMMA DeleteStep ==
  ASSUME IInv, NEW c \in Client, UNCHANGED serverVars, BoundType',
         NEW f \in File, UpgradeDelete(c, f)
  PROVE  IInv'
  <1>1. CommandType /\ FolderType /\ WireOK /\ PerClient(c)
    BY Parts
  <1>2. /\ pc[c] = "upgrade" /\ UNCHANGED <<upd, com>>
        /\ disk' = [disk EXCEPT ![c][f] = None] /\ None \in Entry
    BY DEF UpgradeDelete, SetDisk, Entry
  <1>3. disk' \in [Client -> [File -> Entry]]
    BY <1>1, <1>2 DEF FolderType
  <1>4. PICK m \in ManifestFile : mani' = [mani EXCEPT ![c] = m]
    <2>1. CASE UnlistFaults(mani[c])
      BY <2>1 DEF UpgradeDelete, ManifestFile
    <2>2. CASE ~UnlistFaults(mani[c])
      <3>1. mani[c] \in Manifest /\ mani[c].hash \in [File -> Entry]
        BY <2>2 DEF UnlistFaults, Manifest
      <3> DEFINE h == [mani[c].hash EXCEPT ![f] = None]
      <3>2. h \in [File -> Entry]
        BY <1>2, <3>1
      <3>3. [mani[c] EXCEPT !.hash = h] \in Manifest
        BY <3>1, <3>2 DEF Manifest
      <3>4. Unlist(mani[c], f) \in ManifestFile
        BY <3>3 DEF Unlist, ManifestFile
      <3>5. QED BY <2>2, <3>4 DEF UpgradeDelete
    <2>3. QED BY <2>1, <2>2
  <1>5. FolderType' /\ \A d \in Client \ {c} : SameFolder(d)
    BY <1>1, <1>2, <1>3, <1>4 DEF FolderType, SameFolder
  <1>6. CASE End(c)
    BY <1>2, <1>5, <1>6, EndingStep
  <1>7. CASE UNCHANGED <<pc, sock, cur, at, got, wireVars>> /\ todo' = [todo EXCEPT ![c] = @ \ {f}]
    <2>1. "upgrade" \in Waiting \cup Working /\ pc' = [pc EXCEPT ![c] = "upgrade"]
      BY <1>1, <1>2, <1>7 DEF CommandType, Working
    <2>2. WireOK' /\ \A d \in Client \ {c} : SameWire(d)
      BY <1>1, <1>7 DEF WireOK, WireTypeOK, ConnOK, wireVars, SameWire, serverVars
    <2>3. PerClient(c)'
      BY <1>1, <1>2, <1>7
         DEF PerClient, StreamOf, Under, CommandOf, CreditOf, Waiting, wireVars
    <2>4. QED
      BY <1>1, <1>5, <1>7, <2>1, <2>2, <2>3, GoingOn DEF CommandType
  <1>8. QED BY <1>6, <1>7 DEF UpgradeDelete

LEMMA CheckedOutStep ==
  ASSUME IInv, NEW c \in Client, UNCHANGED serverVars, BoundType', CheckedOut(c)
  PROVE  IInv'
  <1>1. CommandType /\ FolderType /\ WireOK /\ PerClient(c)
    BY Parts
  <1>2. pc[c] = "checkout" /\ UNCHANGED <<upd, com>>
    BY DEF CheckedOut
  <1>3. PICK new \in ManifestFile :
          /\ mani' = [mani EXCEPT ![c] = new]
          /\ IF new \in Manifest
             THEN /\ \E files \in SUBSET Listed(new) :
                       disk' = [disk EXCEPT ![c] = [f \in File |->
                         IF f \in files THEN Md5(disk[c][f]) ELSE disk[c][f]]]
                  /\ todo' = [todo EXCEPT ![c] = Listed(new)]
                  /\ Take(c, "fetch")
                  /\ UNCHANGED <<cur, at, got>>
             ELSE End(c) /\ UNCHANGED disk
    BY <1>1, <1>2, ReadManifest DEF CheckedOut, FolderType
  <1>4. CASE new \notin Manifest
    <2>1. FolderType' /\ \A d \in Client \ {c} : SameFolder(d)
      BY <1>1, <1>2, <1>3, <1>4 DEF FolderType, SameFolder
    <2>2. QED BY <1>2, <1>3, <1>4, <2>1, EndingStep
  <1>5. CASE new \in Manifest
    <2>1. "fetch" \in Waiting \cup Working /\ pc[c] # "idle"
      BY <1>2 DEF Working
    <2>2. /\ WireOK' /\ \A d \in Client \ {c} : SameWire(d)
          /\ pc' = [pc EXCEPT ![c] = "fetch"]
          /\ toServer' = toServer /\ serverEnd' = serverEnd
          /\ toClient'[sock[c]] = IF toClient[sock[c]] = <<>> THEN <<>>
                                  ELSE Tail(toClient[sock[c]])
      BY <1>1, <1>3, <1>5, <2>1, TakeWire DEF serverVars
    <2> PICK files \in SUBSET Listed(new) :
               disk' = [disk EXCEPT ![c] = [f \in File |->
                 IF f \in files THEN Md5(disk[c][f]) ELSE disk[c][f]]]
      BY <1>3, <1>5
    <2> DEFINE d1 == [f \in File |-> IF f \in files THEN Md5(disk[c][f]) ELSE disk[c][f]]
    <2>3. d1 \in [File -> Entry]
      BY <1>1, Md5Type DEF FolderType
    <2>4. disk' = [disk EXCEPT ![c] = d1]
      OBVIOUS
    <2> HIDE DEF d1
    <2>5. FolderType' /\ \A d \in Client \ {c} : SameFolder(d)
      BY <1>1, <1>2, <1>3, <2>3, <2>4 DEF FolderType, SameFolder
    <2>6. /\ pc'[c] = "fetch" /\ sock' = sock /\ mani'[c] = new /\ todo'[c] = Listed(new)
          /\ todo' \in [Client -> SUBSET File] /\ UNCHANGED <<cur, at, got>>
          /\ \A d \in Client \ {c} : todo'[d] = todo[d]
      BY <1>1, <1>3, <1>5, <2>2 DEF CommandType, FolderType, Take, Listed
    <2>7. toServer[sock[c]] = <<>> /\ toClient'[sock[c]] = <<>>
      <3>1. Under(sock[c], [op : {"manifest"}], [manifest : ManifestFile])
        BY <1>1, <1>2 DEF PerClient, StreamOf
      <3>2. ConnOK /\ sock[c] \in Socket /\ toClient[sock[c]] \in Seq(Reply)
        BY <1>1 DEF WireOK, WireTypeOK, CommandType
      <3>3. CASE Arrived(c)
        <4>1. toServer[sock[c]] = <<>> /\ Len(toClient[sock[c]]) = 1
          BY <3>1, <3>3 DEF Under, Arrived
        <4>2. Tail(toClient[sock[c]]) = <<>>
          BY <3>2, <4>1, LastOne
        <4>3. QED BY <2>2, <4>1, <4>2
      <3>4. CASE ~Arrived(c)
        <4>1. Lost(c)
          BY <3>4 DEF CheckedOut, ManifestRead
        <4>2. QED BY <2>2, <3>2, <4>1 DEF Lost, ConnOK
      <3>5. QED BY <3>3, <3>4
    <2>8. PerClient(c)'
      BY <1>5, <2>2, <2>6, <2>7
         DEF PerClient, StreamOf, Under, CommandOf, CreditOf, Waiting
    <2>9. QED
      BY <1>1, <2>1, <2>2, <2>5, <2>6, <2>8, GoingOn DEF CommandType
  <1>6. QED BY <1>4, <1>5

LEMMA PushEnds ==
  ASSUME IInv, NEW c \in Client, UNCHANGED serverVars, BoundType',
         PushAbort(c) \/ Pushed(c)
  PROVE  IInv'
  <1>1. CASE PushAbort(c)
    BY <1>1, GiveUpStep DEF PushAbort
  <1>2. CASE Pushed(c)
    BY <1>2, OwnRequests, BumpStep DEF Pushed
  <1>3. QED BY <1>1, <1>2

LEMMA StepStep ==
  ASSUME IInv, NEW c \in Client, Step(c)
  PROVE  IInv'
  <1>1. UNCHANGED serverVars /\ BoundType'
    BY Parts DEF Step, BoundType, bounds
  <1>2. Proceed(c)
    BY DEF Step
  <1>3. QED
    BY <1>1, <1>2, SmallSteps, UpdatedStep, FetchSteps, WriteSteps, PushAsks,
       MismatchStep, ReplyStep, DeleteStep, CheckedOutStep, PushEnds
       DEF Proceed

(* A client that shuts its connection down goes on without one.            *)
LEMMA InterruptStep ==
  ASSUME IInv, NEW c \in Client, Interrupt(c), UNCHANGED serverVars, BoundType'
  PROVE  IInv'
  <1>1. CommandType /\ FolderType /\ WireOK /\ PerClient(c)
    BY Parts
  <1>2. /\ pc[c] # "idle" /\ sock[c] # None /\ sock' = [sock EXCEPT ![c] = None]
        /\ UNCHANGED <<folderVars, pc, todo, cur, at, got, client_mutex>>
    BY DEF Interrupt, serverVars
  <1>3. PICK left \in Cuts(toServer[sock[c]]) : HangUp(sock[c], left)
    BY DEF Interrupt
  <1>4. left \in Seq(Request) /\ AllAhead(left) /\ <<>> \in Seq(Request) /\ <<>> \in Seq(Reply)
        /\ AllAhead(<<>>)
    BY OwnRequests, CutRequests, EmptySeq DEF AllAhead
  <1>5. /\ sock[c] \in Socket /\ None \in Socket
        /\ None \notin clientEnd /\ None \notin serverEnd
        /\ toServer[None] = <<>> /\ toClient[None] = <<>>
        /\ \A d \in Client \ {c} : sock[d] = sock[c] => sock[d] = None
    BY <1>1, OwnConnection DEF WireOK, WireTypeOK
  <1>6. /\ clientEnd' = clientEnd \ {sock[c]} /\ serverEnd' = serverEnd
        /\ toServer' = [toServer EXCEPT ![sock[c]] =
                          IF sock[c] \in serverEnd THEN left ELSE <<>>]
        /\ toClient' = [toClient EXCEPT ![sock[c]] = <<>>]
    BY <1>3 DEF HangUp
  <1>7. WireOK'
    <2>1. WireTypeOK'
      BY <1>1, <1>4, <1>6 DEF WireOK, WireTypeOK
    <2>2. ConnOK'
      BY <1>1, <1>2, <1>5, <1>6 DEF WireOK, WireTypeOK, ConnOK, CommandType
    <2>3. \A j \in Socket : AllAhead(toServer'[j])
      BY <1>1, <1>4, <1>6 DEF WireOK, WireTypeOK
    <2>4. QED BY <2>1, <2>2, <2>3 DEF WireOK
  <1>8. CommandType' /\ FolderType'
    BY <1>1, <1>2, <1>5 DEF CommandType, FolderType, folderVars
  <1>9. \A d \in Client \ {c} : SameCommand(d) /\ SameFolder(d) /\ SameWire(d)
    BY <1>1, <1>2, <1>5, <1>6
       DEF SameCommand, SameFolder, SameWire, CommandType, folderVars, WireOK, WireTypeOK
  <1>10. PerClient(c)'
    <2>1. sock'[c] = None /\ toServer'[None] = <<>> /\ toClient'[None] = <<>>
      BY <1>1, <1>2, <1>5, <1>6 DEF CommandType, WireOK, WireTypeOK
    <2>2. CommandOf(c)'
      BY <1>1, <1>2 DEF PerClient, CommandOf, folderVars
    <2>3. QED BY <1>5, <1>6, <2>1, <2>2 DEF PerClient, StreamOf, Under, CreditOf
  <1>11. QED BY <1>7, <1>8, <1>9, <1>10, ClientStep

(* A client whose server is gone, a client that is killed, and the user.   *)
LEMMA BreakStep ==
  ASSUME IInv, NEW c \in Client,
         \/ Broken(c)
         \/ (Interrupt(c) \/ Kill(c)) /\ UNCHANGED serverVars /\ BoundType'
  PROVE  IInv'
  <1>1. FolderType /\ BoundType
    BY Parts
  <1>2. CASE Broken(c)
    <2>1. pc[c] # "idle" /\ End(c) /\ UNCHANGED folderVars /\ UNCHANGED serverVars
      BY <1>2 DEF Broken, BrokenPipe
    <2>2. BoundType'
      BY <1>1, <1>2 DEF Broken, BoundType, bounds
    <2>3. FolderType' /\ \A d \in Client \ {c} : SameFolder(d)
      BY <1>1, <2>1 DEF FolderType, SameFolder, folderVars
    <2>4. QED BY <2>1, <2>2, <2>3, EndingStep
  <1>3. CASE Kill(c) /\ UNCHANGED serverVars /\ BoundType'
    <2>1. /\ pc[c] # "idle" /\ UNCHANGED folderVars
          /\ \E left \in Cuts(toServer[sock[c]]) : EndWith(c, left)
      BY <1>3 DEF Kill
    <2>2. FolderType' /\ \A d \in Client \ {c} : SameFolder(d)
      BY <1>1, <2>1 DEF FolderType, SameFolder, folderVars
    <2>3. PICK left \in Cuts(toServer[sock[c]]) : EndWith(c, left)
      BY <2>1
    <2>4. left \in Seq(Request) /\ AllAhead(left)
      BY <2>1, OwnRequests, CutRequests
    <2>5. QED BY <1>3, <2>1, <2>2, <2>3, <2>4, EndStep
  <1>4. CASE Interrupt(c) /\ UNCHANGED serverVars /\ BoundType'
    BY <1>4, InterruptStep
  <1>5. QED BY <1>2, <1>3, <1>4

LEMMA EditStep ==
  ASSUME IInv, NEW c \in Client, UserEdit(c)
  PROVE  IInv'
  <1>1. CommandType /\ FolderType /\ BoundType /\ WireOK
    BY Parts
  <1>2. BoundType' /\ UNCHANGED serverVars
    BY <1>1 DEF UserEdit, BoundType
  <1>3. PICK f \in File, content \in Contents : Edit(c, f, content)
    BY DEF UserEdit
  <1>4. /\ UNCHANGED <<mani, upd, com, pc, sock, todo, cur, got, wireVars>>
        /\ disk' = [disk EXCEPT ![c][f] = content]
        /\ at' \in {at, [at EXCEPT ![c] = None]}
    BY <1>3 DEF Edit, SetDisk
  <1>5. FolderType' /\ \A d \in Client \ {c} : disk'[d] = disk[d]
    <2>1. content \in Entry
      BY ClientAssumption DEF Entry
    <2>2. QED BY <1>1, <1>4, <2>1 DEF FolderType
  <1>6. CommandType' /\ WireOK'
    BY <1>1, <1>2, <1>4
       DEF CommandType, WireOK, WireTypeOK, ConnOK, wireVars, serverVars
  <1>7. \A d \in Client \ {c} : SameCommand(d) /\ SameFolder(d) /\ SameWire(d)
    BY <1>1, <1>4, <1>5 DEF SameCommand, SameFolder, SameWire, CommandType, wireVars
  <1>8. PerClient(c)'
    <2>1. PerClient(c)
      BY Parts
    <2>2. \A g \in File : disk[c][g] # None => disk'[c][g] # None
      BY <1>1, <1>4, ClientAssumption, StoreAssumption DEF FolderType
    <2>3. at'[c] \in {at[c], None}
      BY <1>1, <1>4 DEF CommandType
    <2>4. CommandOf(c)'
      BY <1>4, <2>1, <2>2, <2>3 DEF PerClient, CommandOf
    <2>5. StreamOf(c)' /\ CreditOf(c)'
      BY <1>4, <2>1 DEF PerClient, StreamOf, CreditOf, Under, wireVars
    <2>6. QED BY <2>4, <2>5 DEF PerClient
  <1>9. QED BY <1>2, <1>5, <1>6, <1>7, <1>8, ClientStep

-----------------------------------------------------------------------------
(* Steps of the server: the clients' memory and folders do not change.     *)
ClientUnchanged == UNCHANGED clientVars /\ BoundType'

VersionPart ==
  /\ ServerVersionFrozen
  /\ isPushing /\ srvTmp \in Manifest => srvTmp.version = 0

LEMMA ServerParts ==
  ASSUME IInv
  PROVE  /\ CommandType /\ FolderType /\ BoundType /\ WireOK
         /\ ServerTypeOK /\ VersionPart
         /\ \A d \in Client : PerClient(d)
  BY Parts DEF IInv, TypeOK, VersionOK, VersionPart

LEMMA ServerStep ==
  ASSUME IInv, ClientUnchanged, WireOK', ServerTypeOK', VersionPart',
         \A d \in Client : StreamOf(d)' /\ CreditOf(d)'
  PROVE  IInv'
  <1>1. \A d \in Client : CommandOf(d)'
    BY DEF IInv, ClientUnchanged, CommandOf, clientVars, folderVars, commandVars
  <1>2. TypeOK'
    BY DEF IInv, TypeOK, ClientTypeOK, ClientUnchanged, WireOK, clientVars, folderVars,
           commandVars, BoundType
  <1>3. QED BY <1>1, <1>2 DEF IInv, VersionOK, VersionPart, WireOK

(* Requests and replies of a connection that does not change its streams.  *)
LEMMA SameStreams ==
  ASSUME IInv, ClientUnchanged, NEW d \in Client, SameWire(d)
  PROVE  StreamOf(d)' /\ CreditOf(d)'
  <1>1. CommandType /\ ConnOK /\ PerClient(d)
    BY Parts DEF WireOK
  <1>2. SameCommand(d) /\ SameFolder(d)
    BY DEF ClientUnchanged, clientVars, folderVars, commandVars, SameCommand, SameFolder
  <1>3. QED BY <1>1, <1>2, Unaffected DEF PerClient

(* A request is read and the thread goes on: nobody waits for less.        *)
LEMMA RespondStep ==
  ASSUME IInv, ClientUnchanged, NEW k \in Conn, client_mutex = k, toServer[k] # <<>>,
         NEW rest \in Seq(Request), AllAhead(rest), NEW replies \in Seq(Reply),
         Respond(k, rest, replies), UNCHANGED client_mutex,
         Len(rest) + Len(replies) >= Len(toServer[k]),
         Head(toServer[k]).op = "manifest" =>
           /\ rest = Tail(toServer[k])
           /\ \E r \in [manifest : ManifestFile] : replies = <<r>>,
         Head(toServer[k]).op = "recv" =>
           /\ rest = Tail(toServer[k])
           /\ \E r \in [content : Text] : replies = <<r>>,
         ServerTypeOK', VersionPart'
  PROVE  IInv'
  <1>1. CommandType /\ WireOK /\ \A d \in Client : PerClient(d)
    BY Parts
  <1>2. /\ toServer' = [toServer EXCEPT ![k] = rest]
        /\ toClient' = IF k \in clientEnd THEN [toClient EXCEPT ![k] = @ \o replies]
                       ELSE toClient
        /\ UNCHANGED <<clientEnd, serverEnd, pc, sock>>
    BY DEF Respond, ClientUnchanged, clientVars, commandVars
  <1>3. /\ toServer[k] \in Seq(Request) /\ toClient[k] \in Seq(Reply)
        /\ toClient[k] \o replies \in Seq(Reply)
        /\ Len(toClient[k] \o replies) = Len(toClient[k]) + Len(replies)
    BY <1>1 DEF WireOK, WireTypeOK, Socket
  <1>4. WireOK'
    <2>1. WireTypeOK'
      BY <1>1, <1>2, <1>3 DEF WireOK, WireTypeOK
    <2>2. ConnOK'
      BY <1>1, <1>2 DEF WireOK, WireTypeOK, ConnOK
    <2>3. \A j \in Socket : AllAhead(toServer'[j])
      BY <1>1, <1>2 DEF WireOK, WireTypeOK
    <2>4. QED BY <2>1, <2>2, <2>3 DEF WireOK
  <1>5. ASSUME NEW d \in Client PROVE StreamOf(d)' /\ CreditOf(d)'
    <2>1. CASE sock[d] # k
      <3>1. SameWire(d)
        BY <1>1, <1>2, <2>1 DEF SameWire, WireOK, WireTypeOK, CommandType
      <3>2. QED BY <3>1, SameStreams
    <2>2. CASE sock[d] = k
      <3>1. k \in clientEnd /\ k \in serverEnd
        BY <1>1, <2>2, WireAssumption DEF WireOK, ConnOK
      <3>2. toServer'[k] = rest /\ toClient'[k] = toClient[k] \o replies
        BY <1>1, <1>2, <3>1 DEF WireOK, WireTypeOK, Socket
      <3>3. StreamOf(d)'
        <4>1. ASSUME NEW o \in {"manifest", "recv"}, NEW T,
                     NEW R \in {[op : {"manifest"}], [op : {"recv"}, hash : Text]},
                     \A m \in R : m.op = o,
                     Under(k, R, T),
                     Head(toServer[k]).op = o =>
                       rest = Tail(toServer[k]) /\ \E r \in T : replies = <<r>>
              PROVE  Under(k, R, T)'
          <5>1. /\ toClient[k] = <<>> /\ Len(toServer[k]) = 1 /\ toServer[k][1] \in R
            BY <1>3, <4>1 DEF Under
          <5>2. Head(toServer[k]) = toServer[k][1] /\ Tail(toServer[k]) = <<>>
            BY <1>3, <5>1, LastOne
          <5>3. PICK r \in T : rest = <<>> /\ replies = <<r>>
            BY <4>1, <5>1, <5>2
          <5>4. toServer'[k] = <<>> /\ toClient'[k] = <<r>>
            BY <3>2, <5>1, <5>3
          <5>5. Len(<<r>>) = 1 /\ <<r>>[1] = r
            OBVIOUS
          <5>6. QED BY <5>4, <5>5 DEF Under
        <4>2. ~Under(k, {}, {})
          BY DEF Under
        <4>3. /\ pc[d] \in {"update", "commit", "checkout"} =>
                   Under(k, [op : {"manifest"}], [manifest : ManifestFile])'
              /\ pc[d] \in {"blob", "file"} =>
                   Under(k, [op : {"recv"}, hash : Text], [content : Text])'
          BY <1>1, <2>2, <4>1 DEF PerClient, StreamOf
        <4>4. pc[d] \notin {"upgrade", "fetch"}
          BY <1>1, <2>2, <4>2 DEF PerClient, StreamOf
        <4>5. QED BY <1>2, <2>2, <4>3, <4>4 DEF StreamOf
      <3>4. CreditOf(d)'
        <4>1. ASSUME pc[d] \in Waiting \cup {"push"}
              PROVE  Len(toServer'[k]) + Len(toClient'[k]) >= Need(pc[d])
          <5>1. Len(toServer[k]) + Len(toClient[k]) >= Need(pc[d])
            BY <1>1, <2>2, <3>1, <4>1 DEF PerClient, CreditOf
          <5>2. Need(pc[d]) \in Nat
            BY DEF Need
          <5>3. /\ Len(toServer[k]) \in Nat /\ Len(rest) \in Nat
                /\ Len(toClient[k]) \in Nat /\ Len(replies) \in Nat
            BY <1>3
          <5>4. Len(rest) + (Len(toClient[k]) + Len(replies)) >= Need(pc[d])
            BY <5>1, <5>2, <5>3, RespondCredit
          <5>5. QED BY <1>3, <3>2, <5>4
        <4>2. QED BY <1>2, <2>2, <4>1 DEF CreditOf
      <3>5. QED BY <3>3, <3>4
    <2>3. QED BY <2>1, <2>2
  <1>6. QED BY <1>4, <1>5, ServerStep

LEMMA PayloadRequest ==
  ASSUME NEW q \in Seq(Request), AllAhead(q), q # <<>>,
         NEW r, r = <<[op |-> "payload"]>> \o Tail(q)
  PROVE  r \in Seq(Request) /\ AllAhead(r) /\ Len(r) = Len(q) /\ Len(q) \in Nat
  <1> DEFINE m == [op |-> "payload"]
  <1>1. m \in Request /\ Ahead(m)
    BY SimpleRequests DEF Ahead
  <1>2. r = <<m>> \o Tail(q)
    OBVIOUS
  <1> HIDE DEF m
  <1>3. Tail(q) \in Seq(Request) /\ Len(Tail(q)) = Len(q) - 1 /\ AllAhead(Tail(q))
    BY ReadRequest
  <1>4. r \in Seq(Request) /\ Len(r) = Len(q)
    BY <1>1, <1>2, <1>3
  <1>5. \A i \in 1..Len(r) : r[i] = IF i = 1 THEN m ELSE Tail(q)[i - 1]
    BY <1>2, <1>3, <1>4
  <1>6. QED BY <1>1, <1>3, <1>4, <1>5 DEF AllAhead

(* A request that is answered with one reply.                              *)
LEMMA AnswerStep ==
  ASSUME IInv, ClientUnchanged, NEW k \in Conn, NEW o, Received(k, o),
         NEW r, Answer(k, r), UNCHANGED client_mutex,
         o = "manifest" => r \in [manifest : ManifestFile],
         o = "recv" => r \in [content : Text],
         o \notin {"manifest", "recv"} => r \in [ok : BOOLEAN],
         ServerTypeOK', VersionPart'
  PROVE  IInv'
  <1>1. toServer[k] \in Seq(Request) /\ AllAhead(toServer[k]) /\ toServer[k] # <<>>
    BY Parts DEF WireOK, WireTypeOK, Received, Socket
  <1>2. /\ Tail(toServer[k]) \in Seq(Request) /\ AllAhead(Tail(toServer[k]))
        /\ Len(Tail(toServer[k])) = Len(toServer[k]) - 1 /\ Len(toServer[k]) \in Nat
    BY <1>1, ReadRequest
  <1>3. r \in Reply
    BY DEF Reply
  <1>4. <<r>> \in Seq(Reply) /\ Len(<<r>>) = 1
    BY <1>3
  <1>5. Len(Tail(toServer[k])) + Len(<<r>>) >= Len(toServer[k])
    BY <1>2, <1>4
  <1>6. /\ Head(toServer[k]).op = "manifest" =>
             \E s \in [manifest : ManifestFile] : <<r>> = <<s>>
        /\ Head(toServer[k]).op = "recv" =>
             \E s \in [content : Text] : <<r>> = <<s>>
    BY DEF Received
  <1>7. Respond(k, Tail(toServer[k]), <<r>>) /\ client_mutex = k
    BY DEF Answer, Received
  <1>8. QED BY <1>1, <1>2, <1>4, <1>5, <1>6, <1>7, RespondStep

-----------------------------------------------------------------------------
(* The handlers of the server.                                             *)
LEMMA NotManifest == None \notin Manifest /\ Null \notin Manifest /\ Bad \notin Manifest
  BY StoreAssumption

(* What rename() publishes.                                                *)
LEMMA PublishParts ==
  ASSUME ServerTypeOK, VersionPart, Publish
  PROVE  /\ srvMani' \in ManifestFile /\ srvTmp' \in ManifestFile /\ srvBlob' = srvBlob
         /\ ServerVersionFrozen'
         /\ isPushing => srvTmp' = None
  BY NotManifest DEF ServerTypeOK, VersionPart, Publish, ServerVersionFrozen, ManifestFile

LEMMA QueryHandlers ==
  ASSUME IInv, ClientUnchanged, NEW k \in Conn,
         \/ HandleReceiveManifest(k) \/ HandleReceiveFile(k)
         \/ HandleCurrentVersion(k) \/ HandleHistory(k)
  PROVE  IInv'
  <1>1. ServerTypeOK /\ VersionPart
    BY ServerParts
  <1>2. UNCHANGED serverVars
    BY DEF HandleReceiveManifest, HandleReceiveFile, HandleCurrentVersion, HandleHistory
  <1>3. ServerTypeOK' /\ VersionPart' /\ client_mutex' = client_mutex
    BY <1>1, <1>2 DEF serverVars, diskVars, ServerTypeOK, VersionPart, ServerVersionFrozen
  <1>4. CASE HandleReceiveManifest(k)
    <2>1. PICK m \in ManifestFile : Answer(k, [manifest |-> m])
      BY <1>1, <1>4 DEF HandleReceiveManifest, ServerTypeOK, ManifestFile
    <2>2. Received(k, "manifest")
      BY <1>4 DEF HandleReceiveManifest
    <2>3. QED BY <1>3, <2>1, <2>2, AnswerStep
  <1>5. CASE HandleReceiveFile(k)
    <2>1. Received(k, "recv") /\ Head(toServer[k]) \in Request
      BY <1>5, Parts, ReadRequest DEF HandleReceiveFile, Received, WireOK, WireTypeOK, Socket
    <2>2. Head(toServer[k]).hash \in Text
      BY <2>1, RecvFields DEF Received
    <2>3. PICK t \in Text : Answer(k, [content |-> t])
      BY <1>5, <2>2, EmptyText DEF HandleReceiveFile
    <2>4. QED BY <1>3, <2>1, <2>3, AnswerStep
  <1>6. CASE HandleCurrentVersion(k) \/ HandleHistory(k)
    <2>1. PICK o \in {"crvs", "hist"} : Received(k, o)
      BY <1>6 DEF HandleCurrentVersion, HandleHistory
    <2>2. PICK b \in BOOLEAN : Answer(k, [ok |-> b])
      BY <1>6 DEF HandleCurrentVersion, HandleHistory, IsProject
    <2>3. QED BY <1>3, <2>1, <2>2, AnswerStep
  <1>7. QED BY <1>4, <1>5, <1>6

(* A push is accepted under version 0 + 1 only: what it brings is 0.       *)
LEMMA AcceptStep ==
  ASSUME IInv, ClientUnchanged, NEW k \in Conn, AcceptPush(k)
  PROVE  IInv'
  <1>1. ServerTypeOK /\ VersionPart /\ WireOK
    BY ServerParts
  <1> DEFINE m == Head(toServer[k])
  <1>2. /\ Received(k, "push") /\ Acceptable(m) /\ srvMani \in Manifest \cup {None}
        /\ srvTmp' = (IF m.manifest = None THEN Bad ELSE m.manifest)
        /\ isPushing' = TRUE /\ Answer(k, [ok |-> TRUE])
        /\ UNCHANGED <<client_mutex, srvMani, srvBlob, srvHist, currentPushHead>>
    BY DEF AcceptPush
  <1>3. m \in Request /\ Ahead(m) /\ m.op = "push"
    BY <1>1, <1>2, ReadRequest DEF Received, WireOK, WireTypeOK, Socket
  <1>4. m.version \in Nat /\ m.manifest \in Manifest \cup {None}
    BY <1>3, PushFields
  <1> HIDE DEF m
  <1>5. srvMani \in Manifest /\ srvMani.version = 0
    BY <1>1, <1>2 DEF Acceptable, IsProject, VersionPart, ServerVersionFrozen
  <1>6. m.version = 1
    BY <1>2, <1>4, <1>5 DEF Acceptable
  <1>7. m.manifest # None => m.manifest.version = 0
    <2>1. SUFFICES ASSUME m.manifest # None PROVE m.manifest.version = 0
      OBVIOUS
    <2>2. m.manifest.version \in Nat
      BY <1>4, <2>1 DEF Manifest
    <2>3. m.version = m.manifest.version + 1
      BY <1>3, <2>1 DEF Ahead
    <2>4. QED BY <1>6, <2>2, <2>3
  <1>8. ServerTypeOK' /\ VersionPart'
    BY <1>1, <1>2, <1>4, <1>5, <1>7, NotManifest
       DEF ServerTypeOK, ManifestFile, VersionPart, ServerVersionFrozen
  <1>9. PICK r \in [ok : BOOLEAN] : Answer(k, r)
    BY <1>2
  <1>10. client_mutex' = client_mutex /\ Received(k, "push")
    BY <1>2
  <1>11. QED BY <1>8, <1>9, <1>10, AnswerStep

LEMMA RefusalSteps ==
  ASSUME IInv, ClientUnchanged, NEW k \in Conn, RejectPush(k) \/ RefuseSend(k)
  PROVE  IInv'
  <1>1. ServerTypeOK /\ VersionPart /\ WireOK
    BY ServerParts
  <1> DEFINE no == [ok |-> FALSE]
             unread == <<[op |-> "payload"]>> \o Tail(toServer[k])
             q == Tail(toServer[k])
  <1>2. PICK o \in {"push", "send"}, rest \in {unread, <<>> \o q}, replies \in {<<no>>, <<>>} :
          /\ Received(k, o) /\ Respond(k, rest, replies) /\ UNCHANGED serverVars
          /\ rest = unread \/ replies = <<no>>
    <2>1. CASE RejectPush(k)
      BY <2>1 DEF RejectPush
    <2>2. CASE RefuseSend(k)
      BY <2>2 DEF RefuseSend
    <2>3. QED BY <2>1, <2>2
  <1>3. /\ toServer[k] \in Seq(Request) /\ AllAhead(toServer[k]) /\ toServer[k] # <<>>
        /\ Head(toServer[k]).op \notin {"manifest", "recv"} /\ client_mutex = k
    BY <1>1, <1>2 DEF WireOK, WireTypeOK, Received, Socket
  <1>4. /\ unread \in Seq(Request) /\ AllAhead(unread) /\ Len(unread) = Len(toServer[k])
        /\ Len(toServer[k]) \in Nat
    BY <1>3, PayloadRequest
  <1>5. /\ q \in Seq(Request) /\ AllAhead(q) /\ Len(q) = Len(toServer[k]) - 1
        /\ <<>> \o q = q
    BY <1>3, ReadRequest, ConcatEmptySeq
  <1>6. no \in Reply
    BY DEF Reply
  <1> HIDE DEF unread, q, no
  <1>7. /\ <<no>> \in Seq(Reply) /\ Len(<<no>>) = 1
        /\ <<>> \in Seq(Reply) /\ Len(<<>>) = 0
    BY <1>6, EmptySeq
  <1>8. /\ rest \in Seq(Request) /\ AllAhead(rest) /\ replies \in Seq(Reply)
        /\ Len(rest) + Len(replies) >= Len(toServer[k])
    <2>1. CASE rest = unread
      <3>1. Len(replies) \in Nat
        BY <1>7
      <3>2. Len(rest) + Len(replies) >= Len(toServer[k])
        BY <1>4, <2>1, <3>1, NoLess
      <3>3. QED BY <1>4, <1>7, <2>1, <3>2
    <2>2. CASE rest = q /\ replies = <<no>>
      <3>1. Len(rest) + Len(replies) = Len(toServer[k])
        BY <1>4, <1>5, <1>7, <2>2
      <3>2. QED BY <1>4, <1>5, <1>7, <2>2, <3>1
    <2>3. QED BY <1>2, <1>5, <2>1, <2>2
  <1>9. ServerTypeOK' /\ VersionPart' /\ client_mutex' = client_mutex
    BY <1>1, <1>2 DEF serverVars, diskVars, ServerTypeOK, VersionPart, ServerVersionFrozen
  <1>10. QED BY <1>2, <1>3, <1>8, <1>9, RespondStep

LEMMA SendHandler ==
  ASSUME IInv, ClientUnchanged, NEW k \in Conn, HandleSendFile(k)
  PROVE  IInv'
  <1>1. ServerTypeOK /\ VersionPart /\ WireOK
    BY ServerParts
  <1> DEFINE m == Head(toServer[k])
             stored == Stores(m)
  <1>2. /\ Received(k, "send") /\ Answer(k, [ok |-> stored])
        /\ currentPushHead' = (IF stored THEN <<m.hash>> \o currentPushHead
                               ELSE currentPushHead)
        /\ srvBlob' = (IF stored THEN srvBlob \cup {m.hash} ELSE srvBlob)
        /\ UNCHANGED <<client_mutex, isPushing, srvMani, srvTmp, srvHist>>
    BY DEF HandleSendFile
  <1>3. m \in Request /\ m.op = "send"
    BY <1>1, <1>2, ReadRequest DEF Received, WireOK, WireTypeOK, Socket
  <1>4. m.hash \in Text /\ stored \in BOOLEAN
    BY <1>3, SendFields DEF Stores, IsProject
  <1> HIDE DEF m, stored
  <1>5. <<m.hash>> \o currentPushHead \in Seq(Text)
    BY <1>1, <1>4 DEF ServerTypeOK
  <1>6. ServerTypeOK' /\ VersionPart'
    BY <1>1, <1>2, <1>4, <1>5 DEF ServerTypeOK, VersionPart, ServerVersionFrozen
  <1>7. QED BY <1>2, <1>4, <1>6, AnswerStep

LEMMA CompleteHandler ==
  ASSUME IInv, ClientUnchanged, NEW k \in Conn, HandleComplete(k)
  PROVE  IInv'
  <1>1. ServerTypeOK /\ VersionPart
    BY ServerParts
  <1>2. /\ Received(k, "cplt") /\ Publish /\ isPushing' = FALSE
        /\ srvHist' = Append(srvHist, [mani |-> srvMani', sent |-> currentPushHead])
        /\ Answer(k, [ok |-> isPushing])
        /\ UNCHANGED <<client_mutex, currentPushHead>>
    BY DEF HandleComplete
  <1>3. /\ srvMani' \in ManifestFile /\ srvTmp' \in ManifestFile /\ srvBlob' = srvBlob
        /\ ServerVersionFrozen'
    BY <1>1, <1>2, PublishParts
  <1>4. srvHist' \in Seq(HistoryEntry)
    <2> DEFINE e == [mani |-> srvMani', sent |-> currentPushHead]
    <2>1. e \in HistoryEntry
      BY <1>1, <1>3 DEF HistoryEntry, ServerTypeOK
    <2>2. srvHist' = Append(srvHist, e)
      BY <1>2
    <2> HIDE DEF e
    <2>3. QED BY <1>1, <2>1, <2>2 DEF ServerTypeOK
  <1>5. ServerTypeOK' /\ VersionPart'
    BY <1>1, <1>2, <1>3, <1>4 DEF ServerTypeOK, VersionPart
  <1>6. QED BY <1>1, <1>2, <1>5, AnswerStep DEF ServerTypeOK

LEMMA ProjectHandlers ==
  ASSUME IInv, ClientUnchanged, NEW k \in Conn,
         HandleCreate(k) \/ HandleRollback(k) \/ HandleDestroy(k)
  PROVE  IInv'
  <1>1. ServerTypeOK /\ VersionPart
    BY ServerParts
  <1>2. PICK o \in {"cret", "roll", "dest"}, b \in BOOLEAN :
          Received(k, o) /\ Answer(k, [ok |-> b])
    BY HeapAssumption DEF HandleCreate, HandleRollback, HandleDestroy, IsProject
  <1>3. /\ srvMani' \in {srvMani, EmptyManifest, Null, Bad, None} /\ srvTmp' \in {srvTmp, None}
        /\ srvBlob' \in {srvBlob, {}} /\ srvHist' \in {srvHist, <<>>}
        /\ UNCHANGED <<client_mutex, isPushing, currentPushHead>>
    BY DEF HandleCreate, HandleRollback, HandleDestroy, diskVars
  <1>4. EmptyManifest \in ManifestFile /\ EmptyManifest.version = 0
    BY EmptyManifestType DEF EmptyManifest, ManifestFile
  <1>5. ServerTypeOK'
    <2>1. srvMani' \in ManifestFile /\ srvTmp' \in ManifestFile
      BY <1>1, <1>3, <1>4 DEF ServerTypeOK, ManifestFile
    <2>2. srvHist' \in Seq(HistoryEntry)
      BY <1>1, <1>3, EmptySeq DEF ServerTypeOK
    <2>3. QED BY <1>1, <1>3, <2>1, <2>2 DEF ServerTypeOK
  <1>6. VersionPart'
    BY <1>1, <1>3, <1>4, NotManifest DEF VersionPart, ServerVersionFrozen
  <1>7. QED BY <1>2, <1>3, <1>5, <1>6, AnswerStep

-----------------------------------------------------------------------------
(* The mutex, the end of a connection and the end of the server.           *)
LEMMA LockStep ==
  ASSUME IInv, ClientUnchanged, NEW k \in Conn, Lock(k)
  PROVE  IInv'
  <1>1. ServerTypeOK /\ VersionPart /\ WireOK
    BY ServerParts
  <1>2. /\ k \in serverEnd /\ client_mutex' = k /\ isPushing' = FALSE
        /\ UNCHANGED <<diskVars, currentPushHead, wireVars>>
    BY DEF Lock
  <1>3. UNCHANGED <<pc, sock>>
    BY DEF ClientUnchanged, clientVars, commandVars
  <1>4. WireOK'
    BY <1>1, <1>2, <1>3 DEF WireOK, WireTypeOK, ConnOK, wireVars
  <1>5. ServerTypeOK' /\ VersionPart'
    BY <1>1, <1>2 DEF ServerTypeOK, VersionPart, ServerVersionFrozen, diskVars
  <1>6. \A d \in Client : SameWire(d)
    BY <1>2 DEF SameWire, wireVars
  <1>7. QED BY <1>4, <1>5, <1>6, SameStreams, ServerStep

LEMMA EndSessionStep ==
  ASSUME IInv, ClientUnchanged, NEW k \in Conn, EndSession(k)
  PROVE  IInv'
  <1>1. CommandType /\ WireOK /\ ServerTypeOK /\ VersionPart /\ \A d \in Client : PerClient(d)
    BY ServerParts
  <1>2. PICK n \in Nat : Close(k, n) /\ n <= Len(toClient[k])
    BY <1>1 DEF EndSession, WireOK, WireTypeOK, Socket
  <1>3. /\ client_mutex' = None
        /\ UNCHANGED <<isPushing, diskVars, currentPushHead>>
        /\ \/ toServer[k] = <<>> /\ k \notin clientEnd
           \/ Received(k, "fail") \/ Received(k, "payload")
    BY DEF EndSession
  <1>4. /\ serverEnd' = serverEnd \ {k}
        /\ toServer' = [toServer EXCEPT ![k] = <<>>]
        /\ toClient' = [toClient EXCEPT ![k] = SubSeq(@, 1, n)]
        /\ UNCHANGED <<clientEnd, pc, sock>>
    BY <1>2 DEF Close, ClientUnchanged, clientVars, commandVars
  <1>5. SubSeq(toClient[k], 1, n) \in Seq(Reply) /\ <<>> \in Seq(Request) /\ AllAhead(<<>>)
    BY <1>1, <1>2, EmptySeq DEF WireOK, WireTypeOK, AllAhead, Socket
  <1>6. toClient[k] = <<>> => SubSeq(toClient[k], 1, n) = <<>>
    BY <1>2
  <1>7. WireOK'
    BY <1>1, <1>3, <1>4, <1>5, <1>6 DEF WireOK, WireTypeOK, ConnOK, Socket
  <1>8. ServerTypeOK' /\ VersionPart'
    BY <1>1, <1>3 DEF ServerTypeOK, VersionPart, ServerVersionFrozen, diskVars
  <1>9. ASSUME NEW d \in Client PROVE StreamOf(d)' /\ CreditOf(d)'
    <2>1. CASE sock[d] # k
      <3>1. SameWire(d)
        BY <1>1, <1>4, <2>1 DEF SameWire, WireOK, WireTypeOK, CommandType
      <3>2. QED BY <3>1, SameStreams
    <2>2. CASE sock[d] = k
      <3>1. k \in clientEnd
        BY <1>1, <2>2, WireAssumption DEF WireOK, ConnOK
      <3>2. /\ toServer[k] \in Seq(Request) /\ toServer[k] # <<>>
            /\ Head(toServer[k]).op \in {"fail", "payload"}
        BY <1>1, <1>3, <3>1 DEF WireOK, WireTypeOK, Received, Socket
      <3>3. ASSUME NEW R, NEW T, \A m \in R : m.op \notin {"fail", "payload"}
            PROVE  ~Under(k, R, T)
        BY <3>2, <3>3, LastOne DEF Under
      <3>4. pc[d] \notin {"update", "commit", "checkout", "blob", "file", "upgrade", "fetch"}
        BY <1>1, <2>2, <3>3 DEF PerClient, StreamOf
      <3>5. QED BY <1>4, <2>2, <3>4 DEF StreamOf, CreditOf
    <2>3. QED BY <2>1, <2>2
  <1>10. QED BY <1>7, <1>8, <1>9, ServerStep

(* A connection the server has dropped has nothing more to come.  replies  *)
(* are those it has sent: at most one more, and not to a client that reads *)
(* files.                                                                  *)
LEMMA StoppedStep ==
  ASSUME IInv, ClientUnchanged, NEW replies \in [Socket -> Seq(Reply)], StoppedWith(replies),
         \A k \in Socket :
           \/ replies[k] = toClient[k]
           \/ /\ k \in clientEnd /\ toServer[k] # <<>>
              /\ Head(toServer[k]).op \in {"send", "cplt", "dest"},
         srvMani' \in ManifestFile, srvTmp' \in ManifestFile, ServerVersionFrozen',
         srvBlob' \subseteq Text, srvHist' \in Seq(HistoryEntry)
  PROVE  IInv'
  <1>1. CommandType /\ WireOK /\ ServerTypeOK /\ \A d \in Client : PerClient(d)
    BY ServerParts
  <1>2. /\ client_mutex' = None /\ isPushing' = FALSE /\ currentPushHead' = <<>>
        /\ serverEnd' = {} /\ toServer' = [k \in Socket |-> <<>>]
        /\ UNCHANGED <<clientEnd, pc, sock>>
    BY DEF StoppedWith, ClientUnchanged, clientVars, commandVars
  <1> PICK lost \in SUBSET serverEnd :
           toClient' = [k \in Socket |-> IF k \in lost THEN <<>> ELSE replies[k]]
    BY DEF StoppedWith
  <1>3. <<>> \in Seq(Request) /\ <<>> \in Seq(Text) /\ <<>> \in Seq(Reply) /\ AllAhead(<<>>)
    BY EmptySeq DEF AllAhead
  <1>8. /\ toClient' \in [Socket -> Seq(Reply)]
        /\ \A k \in Socket : toClient'[k] \in {<<>>, replies[k]}
    BY <1>3
  <1>4. WireOK'
    <2>1. \A k \in Socket : k \notin clientEnd => toClient'[k] = <<>>
      BY <1>1, <1>8 DEF WireOK, ConnOK
    <2>2. QED BY <1>1, <1>2, <1>3, <1>8, <2>1 DEF WireOK, WireTypeOK, ConnOK
  <1>5. ServerTypeOK' /\ VersionPart'
    BY <1>1, <1>2, <1>3 DEF ServerTypeOK, VersionPart
  <1>6. ASSUME NEW d \in Client PROVE StreamOf(d)' /\ CreditOf(d)'
    <2>1. CASE pc[d] = "idle"
      BY <1>2, <2>1 DEF StreamOf, CreditOf, Waiting
    <2>2. CASE pc[d] # "idle"
      <3>1. sock[d] \in Socket
        BY <1>1 DEF CommandType
      <3>2. toServer'[sock[d]] = <<>> /\ toClient'[sock[d]] \in {<<>>, replies[sock[d]]}
        BY <1>2, <1>8, <3>1
      <3>3. CASE replies[sock[d]] = toClient[sock[d]]
        <4>1. ASSUME NEW R, NEW T, Under(sock[d], R, T)
              PROVE  \/ toServer'[sock[d]] = <<>> /\ toClient'[sock[d]] = <<>>
                     \/ /\ toServer'[sock[d]] = <<>> /\ Len(toClient'[sock[d]]) = 1
                        /\ toClient'[sock[d]][1] \in T
          BY <3>2, <3>3, <4>1 DEF Under
        <4>2. QED BY <1>1, <1>2, <4>1 DEF PerClient, StreamOf, CreditOf, Under
      <3>4. CASE replies[sock[d]] # toClient[sock[d]]
        <4>1. /\ toServer[sock[d]] \in Seq(Request) /\ toServer[sock[d]] # <<>>
              /\ Head(toServer[sock[d]]).op \in {"send", "cplt", "dest"}
          BY <1>1, <3>1, <3>4 DEF WireOK, WireTypeOK
        <4>2. ASSUME NEW R, NEW T, \A m \in R : m.op \notin {"send", "cplt", "dest"}
              PROVE  ~Under(sock[d], R, T)
          BY <4>1, <4>2, LastOne DEF Under
        <4>3. pc[d] \notin {"update", "commit", "checkout", "blob", "file", "upgrade", "fetch"}
          BY <1>1, <4>2 DEF PerClient, StreamOf
        <4>4. QED BY <1>2, <4>3 DEF StreamOf, CreditOf
      <3>5. QED BY <3>3, <3>4
    <2>3. QED BY <2>1, <2>2
  <1>7. QED BY <1>4, <1>5, <1>6, ServerStep

(* What has been sent when the program stops after an answer.              *)
LEMMA AnsweredReplies ==
  ASSUME WireOK, NEW k \in Conn, NEW b \in BOOLEAN
  PROVE  /\ toClient \in [Socket -> Seq(Reply)]
         /\ Answered(k, b) \in [Socket -> Seq(Reply)]
         /\ \A j \in Socket : Answered(k, b)[j] # toClient[j] => j = k /\ k \in clientEnd
  <1>1. toClient \in [Socket -> Seq(Reply)] /\ [ok |-> b] \in Reply
    BY DEF WireOK, WireTypeOK, Reply
  <1>2. Append(toClient[k], [ok |-> b]) \in Seq(Reply)
    BY <1>1 DEF Socket
  <1>3. QED BY <1>1, <1>2 DEF Answered

LEMMA StopSteps ==
  ASSUME IInv, ClientUnchanged,
         \/ CrashSomewhere
         \/ \E k \in Conn : CrashInDestroy(k)
         \/ \E k \in Conn : ParseFault(k)
  PROVE  IInv'
  <1>1. ServerTypeOK /\ VersionPart /\ WireOK
    BY ServerParts
  <1>2. toClient \in [Socket -> Seq(Reply)]
    BY <1>1 DEF WireOK, WireTypeOK
  <1>3. CASE Stopped /\ UNCHANGED diskVars
    BY <1>1, <1>2, <1>3, StoppedStep
       DEF Stopped, ServerTypeOK, VersionPart, ServerVersionFrozen, diskVars
  <1>4. ASSUME NEW k \in Conn, CrashInCreate(k) PROVE IInv'
    <2>1. srvMani' \in ManifestFile /\ ServerVersionFrozen'
      BY <1>4, EmptyManifestType, NotManifest
         DEF CrashInCreate, ManifestFile, EmptyManifest, ServerVersionFrozen
    <2>2. QED BY <1>1, <1>2, <1>4, <2>1, StoppedStep DEF CrashInCreate, Stopped, ServerTypeOK
  <1>5. ASSUME NEW k \in Conn, CrashInSend(k) PROVE IInv'
    <2>1. Received(k, "send") /\ StoppedWith(Answered(k, TRUE)) /\ UNCHANGED diskVars
      BY <1>5 DEF CrashInSend
    <2>2. \A j \in Socket : Answered(k, TRUE)[j] # toClient[j] =>
            j \in clientEnd /\ toServer[j] # <<>> /\ Head(toServer[j]).op = "send"
      <3>1. \A j \in Socket : Answered(k, TRUE)[j] # toClient[j] => j = k /\ k \in clientEnd
        BY <1>1, AnsweredReplies
      <3>2. toServer[k] # <<>> /\ Head(toServer[k]).op = "send"
        BY <2>1 DEF Received
      <3>3. QED BY <3>1, <3>2
    <2>3. Answered(k, TRUE) \in [Socket -> Seq(Reply)]
      BY <1>1, AnsweredReplies
    <2>4. QED BY <1>1, <2>1, <2>2, <2>3, StoppedStep
         DEF ServerTypeOK, VersionPart, ServerVersionFrozen, diskVars
  <1>6. ASSUME NEW k \in Conn, CrashInComplete(k) PROVE IInv'
    <2>1. Received(k, "cplt") /\ Publish /\ UNCHANGED srvHist
      BY <1>6 DEF CrashInComplete
    <2>2. isPushing \in BOOLEAN
      BY <1>1 DEF ServerTypeOK
    <2>3. \A j \in Socket : Answered(k, isPushing)[j] # toClient[j] =>
            j \in clientEnd /\ toServer[j] # <<>> /\ Head(toServer[j]).op = "cplt"
      <3>1. \A j \in Socket : Answered(k, isPushing)[j] # toClient[j] => j = k /\ k \in clientEnd
        BY <1>1, <2>2, AnsweredReplies
      <3>2. toServer[k] # <<>> /\ Head(toServer[k]).op = "cplt"
        BY <2>1 DEF Received
      <3>3. QED BY <3>1, <3>2
    <2>4. Answered(k, isPushing) \in [Socket -> Seq(Reply)]
      BY <1>1, <2>2, AnsweredReplies
    <2>5. CASE StoppedWith(toClient)
      BY <1>1, <1>2, <2>1, <2>5, PublishParts, StoppedStep DEF ServerTypeOK
    <2>6. CASE StoppedWith(Answered(k, isPushing))
      BY <1>1, <2>1, <2>3, <2>4, <2>6, PublishParts, StoppedStep DEF ServerTypeOK
    <2>7. QED BY <1>6, <2>5, <2>6 DEF CrashInComplete, Stopped
  <1>7. ASSUME NEW k \in Conn, CrashInDestroy(k) PROVE IInv'
    <2>1. /\ Received(k, "dest") /\ StoppedWith(Answered(k, TRUE))
          /\ srvMani' \in {srvMani, None} /\ srvTmp' \in {srvTmp, None}
          /\ srvBlob' \in SUBSET srvBlob /\ srvHist' \in {srvHist, <<>>}
      BY <1>7 DEF CrashInDestroy
    <2>2. \A j \in Socket : Answered(k, TRUE)[j] # toClient[j] =>
            j \in clientEnd /\ toServer[j] # <<>> /\ Head(toServer[j]).op = "dest"
      <3>1. \A j \in Socket : Answered(k, TRUE)[j] # toClient[j] => j = k /\ k \in clientEnd
        BY <1>1, AnsweredReplies
      <3>2. toServer[k] # <<>> /\ Head(toServer[k]).op = "dest"
        BY <2>1 DEF Received
      <3>3. QED BY <3>1, <3>2
    <2>3. Answered(k, TRUE) \in [Socket -> Seq(Reply)]
      BY <1>1, AnsweredReplies
    <2>4. /\ srvMani' \in ManifestFile /\ srvTmp' \in ManifestFile /\ ServerVersionFrozen'
          /\ srvBlob' \subseteq Text
      BY <1>1, <2>1, NotManifest
         DEF ServerTypeOK, VersionPart, ServerVersionFrozen, ManifestFile
    <2>5. srvHist' \in Seq(HistoryEntry)
      BY <1>1, <2>1, EmptySeq DEF ServerTypeOK
    <2>6. QED BY <2>1, <2>2, <2>3, <2>4, <2>5, StoppedStep
  <1>8. QED BY <1>3, <1>4, <1>5, <1>6, <1>7 DEF CrashSomewhere, Crash, ParseFault

-----------------------------------------------------------------------------
(* The invariant.                                                          *)
LEMMA InitInv ==
  ASSUME Init
  PROVE  IInv
  <1>1. Start # None => Start \in StartProject
    BY WTFAssumption
  <1>2. Start # None => StartManifest \in Manifest /\ StartManifest.version = 0
    BY <1>1 DEF StartProject, StartManifest, Manifest
  <1>3. <<>> \in Seq(Request) /\ <<>> \in Seq(Reply) /\ <<>> \in Seq(Text) /\ AllAhead(<<>>)
    BY EmptySeq DEF AllAhead
  <1>4. WireOK
    BY <1>3, WireAssumption DEF Init, WireInit, WireOK, WireTypeOK, ConnOK
  <1>5. srvHist \in Seq(HistoryEntry)
    <2>1. CASE Start = None
      BY <2>1, EmptySeq DEF Init
    <2>2. CASE Start # None
      <3> DEFINE e == [mani |-> StartManifest, sent |-> Start.sent]
      <3>1. e \in HistoryEntry
        BY <1>1, <1>2, <2>2 DEF StartProject, HistoryEntry, ManifestFile
      <3>2. srvHist = <<e>>
        BY <2>2 DEF Init
      <3> HIDE DEF e
      <3>3. QED BY <3>1, <3>2
    <2>3. QED BY <2>1, <2>2
  <1>6. ServerTypeOK
    <2>1. srvBlob \subseteq Text
      BY <1>1 DEF Init, StartProject, Entry
    <2>2. QED BY <1>2, <1>3, <1>5, <2>1 DEF Init, ServerTypeOK, ManifestFile
  <1>7. VersionPart
    BY <1>2, NotManifest DEF Init, VersionPart, ServerVersionFrozen
  <1>8. FolderType /\ CommandType /\ BoundType
    BY <1>1, <1>2, NoLinesType
       DEF Init, FolderType, CommandType, BoundType, ManifestFile, StartProject, Socket
  <1>9. \A d \in Client : pc[d] = "idle"
    BY DEF Init
  <1>10. \A d \in Client : StreamOf(d) /\ CommandOf(d) /\ CreditOf(d)
    BY <1>9 DEF StreamOf, CommandOf, CreditOf, Waiting
  <1>11. TypeOK
    BY <1>4, <1>6, <1>8 DEF TypeOK, ClientTypeOK, FolderType, CommandType, BoundType, WireOK
  <1>12. QED BY <1>4, <1>7, <1>10, <1>11 DEF IInv, VersionOK, VersionPart, WireOK

LEMMA NextInv ==
  ASSUME IInv, [Next]_vars
  PROVE  IInv'
  <1>1. ASSUME NEW c \in Client, Run(c) \/ Step(c) \/ Broken(c) \/ UserEdit(c)
        PROVE  IInv'
    BY <1>1, RunStep, StepStep, BreakStep, EditStep
  <1>2. ASSUME NEW k \in Conn, Thread(k) PROVE IInv'
    <2>1. ClientUnchanged
      BY <1>2, Parts DEF Thread, ClientUnchanged, BoundType, bounds
    <2>2. QED
      BY <1>2, <2>1, LockStep, EndSessionStep, QueryHandlers, AcceptStep, RefusalSteps,
         SendHandler, CompleteHandler, ProjectHandlers, StopSteps DEF Thread, Serve
  <1>3. CASE Fault
    <2>1. BoundType'
      <3>1. cutShort' \in {cutShort, TRUE}
        BY <1>3 DEF Fault
      <3>2. BoundType /\ faults' = faults + 1 /\ UNCHANGED <<runs, edits>>
        BY <1>3, Parts DEF Fault
      <3>3. cutShort' \in BOOLEAN
        BY ONLY <3>1, <3>2, Zenon DEF BoundType
      <3>4. runs' \in [Client -> Nat] /\ edits' \in Nat /\ faults' \in Nat
        BY <3>2 DEF BoundType
      <3>5. QED BY <3>3, <3>4, Zenon DEF BoundType
    <2>2. CASE (\E c \in Client : Interrupt(c) \/ Kill(c)) /\ UNCHANGED serverVars
      BY <2>1, <2>2, BreakStep
    <2>3. CASE CrashSomewhere /\ UNCHANGED clientVars
      BY <2>1, <2>3, StopSteps DEF ClientUnchanged
    <2>4. CASE (\E k \in Conn : CrashInDestroy(k)) /\ UNCHANGED clientVars
      BY <2>1, <2>4, StopSteps DEF ClientUnchanged
    <2>5. QED BY <1>3, <2>2, <2>3, <2>4 DEF Fault
  <1>4. CASE UNCHANGED vars
    <2>1. WireOK' /\ ServerTypeOK' /\ VersionPart' /\ ClientUnchanged
      BY <1>4, ServerParts
         DEF vars, clientVars, commandVars, wireVars, serverVars, diskVars, ClientUnchanged,
             WireOK, WireTypeOK, ConnOK, ServerTypeOK, VersionPart, ServerVersionFrozen,
             BoundType, bounds
    <2>2. \A d \in Client : SameWire(d)
      BY <1>4 DEF vars, wireVars, SameWire
    <2>3. QED BY <2>1, <2>2, SameStreams, ServerStep
  <1>5. QED BY <1>1, <1>2, <1>3, <1>4 DEF Next

-----------------------------------------------------------------------------
(* Every reachable state satisfies the invariant.                          *)
THEOREM Invariance == Spec => []IInv
  <1>1. Init => IInv
    BY InitInv
  <1>2. IInv /\ [Next]_vars => IInv'
    BY NextInv
  <1>3. QED BY <1>1, <1>2, PTL DEF Spec

(* Files, memory and streams of clients and server keep their types, so no *)
(* handler meets a request or a file of a kind it does not expect.         *)
THEOREM TypeCorrect == Spec => []TypeOK
  <1>1. IInv => TypeOK
    BY DEF IInv
  <1>2. QED BY <1>1, Invariance, PTL

(* Whatever is pushed, rolled back, destroyed or killed, the version of a  *)
(* project on the server stays 0 (PushVersion, HandlePushVersion).         *)
THEOREM VersionNeverMoves == Spec => []ServerVersionFrozen
  <1>1. IInv => ServerVersionFrozen
    BY DEF IInv, VersionOK
  <1>2. QED BY <1>1, Invariance, PTL

(* The client whose connection holds client_mutex and its thread never     *)
(* wait for each other, for any number of clients, connections and files.  *)
THEOREM MutexHolderMoves == Spec => []NoMutualWait
  <1>1. IInv => NoMutualWait
    <2>1. SUFFICES ASSUME IInv, NEW c \in Client, pc[c] \in Waiting, sock[c] = client_mutex, client_mutex # None,
                          toServer[sock[c]] = <<>>, toClient[sock[c]] = <<>>
                   PROVE  FALSE
      BY DEF NoMutualWait
    <2>2. CommandType /\ WireOK /\ PerClient(c)
      BY <2>1, Parts
    <2>5. sock[c] \in serverEnd
      BY <2>1, <2>2 DEF WireOK, ConnOK
    <2>6. Len(toServer[sock[c]]) + Len(toClient[sock[c]]) >= Need(pc[c])
      BY <2>1, <2>2, <2>5 DEF PerClient, CreditOf
    <2>7. Len(toServer[sock[c]]) = 0 /\ Len(toClient[sock[c]]) = 0
      BY <2>1
    <2>8. Need(pc[c]) \in {1, 2}
      BY DEF Need
    <2>9. QED BY <2>6, <2>7, <2>8
  <1>2. QED BY <1>1, Invariance, PTL
=============================================================================
