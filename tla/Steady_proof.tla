---------------------------- MODULE Steady_proof ----------------------------
(***************************************************************************)
(* What commands read from the server of WTF: as long as nothing stops it, *)
(* a command that reads keeps its connection, and only a stale line makes  *)
(* the .Manifest it leaves one that does not parse.                        *)
(***************************************************************************)
EXTENDS Repository_proof

(* No program is stopped, and no rollback makes the server stop by itself. *)
Steady == MaxFaults = 0 /\ "rollback" \notin Used

Reads == {"update", "compare", "commit", "upgrade", "blob", "checkout", "fetch", "file"}

Connected(c) == pc[c] \in Reads => sock[c] \in serverEnd

SteadyPart == \A c \in Client : Connected(c)

-----------------------------------------------------------------------------
(* A step of one client leaves what the others rely on as it is.           *)
Undisturbed(d) ==
  /\ SameCommand(d) /\ SameWire(d) /\ mani'[d] = mani[d]
  /\ sock[d] \in serverEnd => sock[d] \in serverEnd'

LEMMA UndisturbedSteady ==
  ASSUME NEW d \in Client, Undisturbed(d), Connected(d)
  PROVE  Connected(d)'
  BY DEF Undisturbed, SameCommand, Connected

LEMMA BeginOthers ==
  ASSUME IInv, NEW c \in Client, NEW k \in Conn, NEW requests, NEW label,
         Begin(c, k, requests, label),
         \A d \in Client \ {c} : mani'[d] = mani[d] /\ todo'[d] = todo[d]
  PROVE  /\ \A d \in Client \ {c} : Undisturbed(d)
         /\ pc'[c] = label /\ sock'[c] \in serverEnd'
  <1>1. /\ CommandType /\ WireOK /\ k \notin clientEnd /\ k \notin serverEnd
        /\ toServer' = [toServer EXCEPT ![k] = requests] /\ serverEnd' = serverEnd \cup {k}
        /\ pc' = [pc EXCEPT ![c] = label] /\ sock' = [sock EXCEPT ![c] = k]
        /\ UNCHANGED <<cur, at, got, toClient>>
    BY Parts DEF Begin, Connect, Free
  <1>2. \A d \in Client \ {c} : SameCommand(d) /\ SameWire(d)
    BY <1>1, WireAssumption
       DEF CommandType, SameCommand, SameWire, WireOK, WireTypeOK, ConnOK, Socket
  <1>3. QED BY <1>1, <1>2 DEF Undisturbed, CommandType

LEMMA EndOthers ==
  ASSUME IInv, NEW c \in Client, pc[c] # "idle", NEW requests, EndWith(c, requests),
         \A d \in Client \ {c} : mani'[d] = mani[d]
  PROVE  (\A d \in Client \ {c} : Undisturbed(d)) /\ pc'[c] = "idle"
  <1>1. CommandType /\ WireOK
    BY Parts
  <1>2. /\ toServer' = [toServer EXCEPT ![sock[c]] = IF sock[c] \in serverEnd THEN requests ELSE <<>>]
        /\ toClient' = [toClient EXCEPT ![sock[c]] = <<>>]
        /\ pc' = [pc EXCEPT ![c] = "idle"] /\ sock' = [sock EXCEPT ![c] = None]
        /\ todo' = [todo EXCEPT ![c] = {}] /\ cur' = [cur EXCEPT ![c] = None]
        /\ at' = [at EXCEPT ![c] = None] /\ got' = [got EXCEPT ![c] = None]
        /\ serverEnd' = serverEnd
    BY DEF EndWith, HangUp
  <1>3. \A d \in Client \ {c} : SameCommand(d) /\ SameWire(d)
    BY <1>1, <1>2, OwnConnection DEF CommandType, SameCommand, SameWire, WireOK, WireTypeOK
  <1>4. QED BY <1>1, <1>2, <1>3 DEF Undisturbed, CommandType

LEMMA GoOnOthers ==
  ASSUME IInv, NEW c \in Client, pc[c] # "idle", NEW label,
         Take(c, label) \/ \E m : Ask(c, m, label),
         \A d \in Client \ {c} : /\ todo'[d] = todo[d] /\ cur'[d] = cur[d] /\ at'[d] = at[d]
                                 /\ got'[d] = got[d] /\ mani'[d] = mani[d]
  PROVE  /\ \A d \in Client \ {c} : Undisturbed(d)
         /\ pc'[c] = label /\ sock' = sock /\ serverEnd' = serverEnd
  <1>1. CommandType /\ WireOK
    BY Parts
  <1>2. /\ UNCHANGED <<serverEnd, sock>> /\ pc' = [pc EXCEPT ![c] = label]
        /\ OthersSame(sock[c])
    BY OtherStreams
  <1>3. \A d \in Client \ {c} : SameCommand(d) /\ SameWire(d)
    BY <1>1, <1>2, OwnConnection
       DEF CommandType, SameCommand, SameWire, WireOK, WireTypeOK, OthersSame
  <1>4. QED BY <1>1, <1>2, <1>3 DEF Undisturbed, CommandType

(* A step of c: the others do not notice, and c's own connection is kept   *)
(* while it reads.                                                         *)
OwnStep(c) ==
  /\ \A d \in Client \ {c} : Undisturbed(d)
  /\ Connected(c) => Connected(c)'

LEMMA RunOthers ==
  ASSUME IInv, NEW c \in Client, Run(c)
  PROVE  OwnStep(c)
  <1>1. CommandType /\ FolderType /\ WireOK
    BY Parts
  <1>2. ASSUME NEW k \in Conn, NEW requests, NEW label, Begin(c, k, requests, label),
               \A d \in Client \ {c} : mani'[d] = mani[d] /\ todo'[d] = todo[d]
        PROVE  OwnStep(c)
    BY <1>2, BeginOthers DEF OwnStep, Connected
  <1>3. ASSUME NEW k \in Conn,
               \/ Create(c, k) \/ Update(c, k) \/ Commit(c, k)
               \/ CurrentVersion(c, k) \/ History(c, k) \/ Rollback(c, k)
               \/ UnknownCommand(c, k) \/ \E t \in Contents : TestSendFile(c, k, t)
        PROVE  OwnStep(c)
    <2>1. PICK label \in {"create", "update", "commit", "ask", "destroy"} :
            \E requests : Begin(c, k, requests, label)
      BY <1>3 DEF Create, Update, Commit, CurrentVersion, History, Rollback, UnknownCommand,
                  TestSendFile
    <2>2. mani' = mani /\ todo' = todo
      BY <1>3 DEF Create, Update, Commit, CurrentVersion, History, Rollback, UnknownCommand,
                  TestSendFile, folderVars
    <2>3. QED BY <1>2, <2>1, <2>2
  <1>4. ASSUME NEW k \in Conn, Upgrade(c, k) \/ Push(c, k) PROVE OwnStep(c)
    BY <1>1, <1>2, <1>4 DEF Upgrade, Push, folderVars, CommandType
  <1>5. ASSUME NEW k \in Conn, Checkout(c, k) PROVE OwnStep(c)
    BY <1>1, <1>2, <1>5 DEF Checkout, FolderType
  <1>6. ASSUME NEW k \in Conn, PushFault(c, k) PROVE OwnStep(c)
    <2>1. /\ k \notin clientEnd /\ UNCHANGED clientVars /\ pc[c] = "idle"
          /\ toServer' = [toServer EXCEPT ![k] = <<PushRequest(c)>>]
          /\ serverEnd' = serverEnd \cup {k} /\ UNCHANGED toClient
      BY <1>6 DEF PushFault, Free
    <2>2. \A d \in Client \ {c} : Undisturbed(d)
      BY <1>1, <2>1, WireAssumption
         DEF clientVars, folderVars, commandVars, SameCommand, SameWire, WireOK, WireTypeOK,
             ConnOK, Undisturbed, Socket
    <2>3. QED BY <2>1, <2>2 DEF OwnStep, Connected, Reads, clientVars, commandVars
  <1>7. CASE Destroy(c) \/ \E f \in File : Add(c, f) \/ Remove(c, f)
    <2>1. /\ pc[c] = "idle" /\ UNCHANGED <<commandVars, wireVars>>
          /\ \A d \in Client \ {c} : mani'[d] = mani[d]
      BY <1>1, <1>7 DEF Destroy, Add, Remove, FolderType, clientVars, folderVars
    <2>2. QED
      BY <2>1 DEF OwnStep, Undisturbed, SameCommand, SameWire, Connected, commandVars, wireVars
  <1>8. QED BY <1>3, <1>4, <1>5, <1>6, <1>7 DEF Run, Launch

LEMMA StepOthers ==
  ASSUME IInv, NEW c \in Client, Proceed(c) \/ BrokenPipe(c)
  PROVE  OwnStep(c)
  <1>1. CommandType /\ FolderType
    BY Parts
  <1>2. ASSUME pc[c] # "idle", NEW requests, EndWith(c, requests),
               \A d \in Client \ {c} : mani'[d] = mani[d]
        PROVE  OwnStep(c)
    BY <1>2, EndOthers DEF OwnStep, Connected, Reads
  <1>3. ASSUME pc[c] # "idle", NEW label, Take(c, label) \/ \E m : Ask(c, m, label),
               label \in Reads => pc[c] \in Reads,
               \A d \in Client \ {c} :
                 /\ todo'[d] = todo[d] /\ cur'[d] = cur[d] /\ at'[d] = at[d]
                 /\ got'[d] = got[d] /\ mani'[d] = mani[d]
        PROVE  OwnStep(c)
    <2>1. /\ \A d \in Client \ {c} : Undisturbed(d)
          /\ pc'[c] = label /\ sock' = sock /\ serverEnd' = serverEnd
      BY <1>3, GoOnOthers
    <2>2. QED BY <1>3, <2>1 DEF OwnStep, Connected
  <1>4. CASE \/ UpdateFault(c) \/ Compare(c) \/ Committed(c) \/ UpgradeEnd(c) \/ FetchEnd(c)
             \/ Queried(c) \/ BrokenPipe(c)
    BY <1>2, <1>4 DEF UpdateFault, Compare, Committed, UpgradeEnd, FetchEnd, Queried,
                      BrokenPipe, End, folderVars
  <1>5. CASE Created(c) \/ Destroyed(c)
    BY <1>1, <1>2, <1>5 DEF Created, Destroyed, End, folderVars, FolderType
  <1>6. CASE PushAbort(c) \/ Pushed(c) \/ (pc[c] = "sent" /\ GiveUp(c))
    <2>1. PICK requests : Bump(c, requests)
      BY <1>6 DEF PushAbort, Pushed, GiveUp
    <2>2. pc[c] # "idle"
      BY <1>6 DEF PushAbort, Pushed
    <2>3. EndWith(c, requests) /\ \A d \in Client \ {c} : mani'[d] = mani[d]
      BY <1>1, <2>1 DEF Bump, FolderType
    <2>4. QED BY <1>2, <2>2, <2>3
  <1>7. CASE PushReply(c)
    BY <1>3, <1>6, <1>7 DEF PushReply, folderVars, Reads
  <1>8. CASE Updated(c)
    BY <1>1, <1>3, <1>8 DEF Updated, folderVars, CommandType, Reads
  <1>9. CASE UpgradeWrite(c) \/ FetchWrite(c)
    <2>1. PICK label \in {"upgrade", "fetch"} : Take(c, label)
      BY <1>9 DEF UpgradeWrite, FetchWrite
    <2>2. /\ pc[c] \in Reads /\ pc[c] # "idle" /\ UNCHANGED <<mani, todo, got>>
          /\ \A d \in Client \ {c} : cur'[d] = cur[d] /\ at'[d] = at[d]
      BY <1>1, <1>9 DEF UpgradeWrite, FetchWrite, CommandType, Reads
    <2>3. label \in Reads
      BY DEF Reads
    <2>4. QED BY <1>3, <2>1, <2>2, <2>3
  <1>10. CASE PushComplete(c)
    <2>1. \E m : Ask(c, m, "complete")
      BY <1>10 DEF PushComplete, Ask
    <2>2. QED BY <1>1, <1>3, <1>10, <2>1 DEF PushComplete, Ask, folderVars, Reads
  <1>11. ASSUME NEW f \in File, UpgradeFetch(c, f) PROVE OwnStep(c)
    BY <1>1, <1>3, <1>11 DEF UpgradeFetch, Ask, folderVars, CommandType, Reads
  <1>12. ASSUME NEW f \in File, FetchFile(c, f) PROVE OwnStep(c)
    <2>1. \E m : Ask(c, m, "file")
      BY <1>12 DEF FetchFile, Ask
    <2>2. QED BY <1>1, <1>3, <1>12, <2>1 DEF FetchFile, Ask, folderVars, CommandType, Reads
  <1>13. ASSUME NEW f \in File, PushFile(c, f) PROVE OwnStep(c)
    <2>1. \E m : Ask(c, m, "sent")
      BY <1>13 DEF PushFile, Ask
    <2>2. /\ pc[c] = "push" /\ UNCHANGED <<mani, cur, at, got>>
          /\ \A d \in Client \ {c} : todo'[d] = todo[d]
      BY <1>1, <1>13 DEF PushFile, Ask, folderVars, CommandType
    <2>3. QED BY <1>3, <2>1, <2>2 DEF Reads
  <1>14. ASSUME NEW f \in File, PushMismatch(c, f) PROVE OwnStep(c)
    BY <1>1, <1>14 DEF PushMismatch, folderVars, wireVars, OwnStep, Undisturbed, SameCommand, SameWire,
                       Connected, CommandType, Reads
  <1>15. CASE CheckedOut(c)
    <2>1. \A d \in Client \ {c} : mani'[d] = mani[d] /\ pc[c] = "checkout"
      BY <1>1, <1>15 DEF CheckedOut, FolderType
    <2>2. pc[c] = "checkout"
      BY <1>15 DEF CheckedOut
    <2>3. \/ End(c)
          \/ /\ Take(c, "fetch") /\ UNCHANGED <<cur, at, got>>
             /\ \E new : todo' = [todo EXCEPT ![c] = Listed(new)]
      BY <1>15 DEF CheckedOut
    <2>4. CASE End(c)
      BY <1>2, <2>1, <2>2, <2>4 DEF End
    <2>5. CASE /\ Take(c, "fetch") /\ UNCHANGED <<cur, at, got>>
               /\ \E new : todo' = [todo EXCEPT ![c] = Listed(new)]
      BY <1>1, <1>3, <2>1, <2>2, <2>5 DEF CommandType, Reads
    <2>6. QED BY <2>3, <2>4, <2>5
  <1>16. ASSUME NEW f \in File, UpgradeDelete(c, f) PROVE OwnStep(c)
    <2>1. pc[c] = "upgrade" /\ \A d \in Client \ {c} : mani'[d] = mani[d]
      BY <1>1, <1>16 DEF UpgradeDelete, SetDisk, FolderType
    <2>2. CASE End(c)
      BY <1>2, <2>1, <2>2 DEF End
    <2>3. CASE UNCHANGED <<pc, sock, cur, at, got, wireVars>> /\ todo' = [todo EXCEPT ![c] = @ \ {f}]
      BY <1>1, <2>1, <2>3 DEF OwnStep, Undisturbed, SameCommand, SameWire, Connected, CommandType, wireVars
    <2>4. QED BY <1>16, <2>2, <2>3 DEF UpgradeDelete
  <1>17. QED
    BY <1>4, <1>5, <1>6, <1>7, <1>8, <1>9, <1>10, <1>11, <1>12, <1>13, <1>14, <1>15, <1>16
       DEF Proceed

-----------------------------------------------------------------------------
LEMMA ClientSteady ==
  ASSUME IInv, SteadyPart, NEW c \in Client, Proceed(c) \/ BrokenPipe(c) \/ Run(c)
  PROVE  SteadyPart'
  <1>1. OwnStep(c)
    BY RunOthers, StepOthers
  <1>2. \A d \in Client \ {c} : Connected(d)'
    BY <1>1, UndisturbedSteady DEF OwnStep, SteadyPart
  <1>3. Connected(c)'
    BY <1>1 DEF OwnStep, SteadyPart
  <1>4. QED BY <1>2, <1>3 DEF SteadyPart

(* A command that reads has nothing on its way but a request to read.      *)
LEMMA ReadingStream ==
  ASSUME SessionParts, NEW d \in Client, pc[d] \in Reads, Connected(d)
  PROVE  toServer[sock[d]] # <<>> =>
           /\ Head(toServer[sock[d]]).op \in {"manifest", "recv"}
           /\ toClient[sock[d]] = <<>> /\ Len(toServer[sock[d]]) = 1
  <1>1. PerClient(d) /\ SnapshotOf(d)
    BY Parts DEF SessionParts, SnapshotPart
  <1>2. CASE pc[d] = "compare"
    BY <1>1, <1>2 DEF SnapshotOf, Connected
  <1>3. CASE pc[d] # "compare"
    BY <1>1, <1>3 DEF PerClient, StreamOf, Under, Reads
  <1>4. QED BY <1>2, <1>3

LEMMA ServeSteady ==
  ASSUME SessionParts, SteadyPart, UNCHANGED clientVars, NEW k \in Conn, Serve(k)
  PROVE  SteadyPart'
  <1>1. pc' = pc /\ sock' = sock
    BY DEF clientVars, commandVars
  <1>2. CASE serverEnd' = serverEnd
    BY <1>1, <1>2 DEF SteadyPart, Connected
  <1>3. CASE EndSession(k)
    <2>1. /\ client_mutex = k /\ serverEnd' = serverEnd \ {k}
          /\ \/ toServer[k] = <<>> /\ k \notin clientEnd
             \/ toServer[k] # <<>> /\ Head(toServer[k]).op \in {"fail", "payload"}
      BY <1>3 DEF EndSession, Close, Received
    <2>2. ASSUME NEW d \in Client, pc[d] \in Reads PROVE sock[d] # k
      <3>1. Connected(d) /\ WireOK /\ k # None
        BY Parts, WireAssumption DEF SessionParts, SteadyPart
      <3>2. sock[d] = k => k \in clientEnd
        BY <3>1 DEF WireOK, ConnOK
      <3>3. QED BY <2>1, <2>2, <3>1, <3>2, ReadingStream
    <2>3. QED BY <1>1, <2>1, <2>2 DEF SteadyPart, Connected
  <1>4. CASE \/ Lock(k) \/ HandleCreate(k) \/ HandleDestroy(k) \/ HandleRollback(k)
             \/ HandleReceiveManifest(k) \/ HandleReceiveFile(k)
             \/ AcceptPush(k) \/ RejectPush(k)
             \/ HandleSendFile(k) \/ RefuseSend(k) \/ HandleComplete(k)
             \/ HandleCurrentVersion(k) \/ HandleHistory(k)
    <2>1. serverEnd' = serverEnd
      BY <1>4, HeapAssumption
         DEF Lock, HandleCreate, HandleDestroy, HandleRollback, HandleReceiveManifest,
             HandleReceiveFile, AcceptPush, RejectPush, HandleSendFile, RefuseSend,
             HandleComplete, HandleCurrentVersion, HandleHistory, Answer, Respond, wireVars
    <2>2. QED BY <1>2, <2>1
  <1>5. QED BY <1>3, <1>4 DEF Serve

(* Nothing stops the server: its .Manifest always parses.                  *)
LEMMA NextSteady ==
  ASSUME Steady, SessionParts, HistoryParts, SteadyPart, [Next]_vars
  PROVE  SteadyPart'
  <1>1. ASSUME NEW c \in Client, Run(c) \/ Step(c) \/ Broken(c) \/ UserEdit(c)
        PROVE  SteadyPart'
    <2>1. CASE Run(c) \/ Proceed(c) \/ BrokenPipe(c)
      BY <2>1, ClientSteady DEF SessionParts
    <2>2. CASE UserEdit(c)
      BY <2>2 DEF UserEdit, Edit, wireVars, SteadyPart, Connected
    <2>3. QED BY <1>1, <2>1, <2>2 DEF Step, Broken
  <1>2. ASSUME NEW k \in Conn, Thread(k) PROVE SteadyPart'
    <2>1. ~ParseFault(k)
      BY DEF Steady, HistoryParts, Unspoilt, PublishedWhole, ParseFault
    <2>2. QED BY <1>2, <2>1, ServeSteady DEF Thread
  <1>3. ~Fault
    BY Parts DEF Steady, SessionParts, Fault, BoundType
  <1>4. CASE UNCHANGED vars
    BY <1>4 DEF vars, clientVars, commandVars, wireVars, SteadyPart, Connected
  <1>5. QED BY <1>1, <1>2, <1>3, <1>4 DEF Next

LEMMA SteadyReached ==
  ASSUME Steady
  PROVE  Spec => []SteadyPart
  <1>1. Init => SteadyPart
    BY DEF Init, SteadyPart, Connected, Reads
  <1>2. SessionParts /\ HistoryParts /\ SteadyPart /\ [Next]_vars => SteadyPart'
    BY NextSteady
  <1>3. QED BY <1>1, <1>2, SessionReached, HistoryReached, PTL DEF Spec

-----------------------------------------------------------------------------
(* What a command has read of the project stays true while it runs,        *)
(* however long the user takes to answer: an update compares with the      *)
(* .Manifest of now and a checkout fetches what it lists, as long as the   *)
(* server finds the name it was sent (client_mutex is held for the whole   *)
(* connection, handle_customer).                                           *)
THEOREM AnswersStay == Spec => [](FALSE \notin Heap => ServerSnapshot)
  <1>1. SnapshotPart => (FALSE \notin Heap => ServerSnapshot)
    BY DEF SnapshotPart, SnapshotOf, ServerSnapshot, IsProject
  <1>2. SessionParts => (FALSE \notin Heap => ServerSnapshot)
    BY <1>1 DEF SessionParts
  <1>3. QED BY <1>2, SessionReached, PTL

-----------------------------------------------------------------------------
(* What makes the .Manifest of a client one that does not parse.           *)
Spoils(c) == mani[c] \in Manifest /\ mani'[c] \in {Null, Bad}

Stale(c) == pc[c] = "upgrade" /\ \E f \in LinesOf(c, "D") : f \notin Listed(mani[c])

LEMMA RunSpoils ==
  ASSUME IInv, NEW c \in Client, Run(c)
  PROVE  ~Spoils(c)
  <1>1. FolderType
    BY Parts
  <1>2. SUFFICES ASSUME mani[c] \in Manifest PROVE mani'[c] \notin {Null, Bad}
    BY DEF Spoils
  <1>3. CASE mani'[c] = mani[c]
    BY <1>2, <1>3, NotManifest
  <1>4. ASSUME NEW f \in File, Add(c, f) \/ Remove(c, f) PROVE mani'[c] \notin {Null, Bad}
    <2>1. PICK e \in Entry : mani' = [mani EXCEPT ![c].hash[f] = e]
      <3>1. Md5(disk[c][f]) \in Entry /\ None \in Entry
        BY <1>1 DEF FolderType, Md5, Entry, Text
      <3>2. QED BY <1>4, <3>1 DEF Add, Remove
    <2>2. mani'[c] = [mani[c] EXCEPT !.hash[f] = e]
      BY <1>1, <2>1 DEF FolderType
    <2>3. mani'[c] \in Manifest
      BY <1>2, <2>2 DEF Manifest
    <2>4. QED BY <2>3, NotManifest
  <1>5. CASE \E k \in Conn :
               \/ Create(c, k) \/ Update(c, k) \/ Commit(c, k) \/ Upgrade(c, k) \/ Push(c, k)
               \/ PushFault(c, k) \/ Checkout(c, k) \/ UnknownCommand(c, k)
               \/ CurrentVersion(c, k) \/ History(c, k) \/ Rollback(c, k)
               \/ \E t \in Contents : TestSendFile(c, k, t)
    <2>1. mani' = mani
      BY <1>2, <1>5, NotManifest
         DEF Create, Update, Commit, Upgrade, Push, PushFault, Checkout, UnknownCommand,
             CurrentVersion, History, Rollback, TestSendFile, folderVars, clientVars
    <2>2. QED BY <1>3, <2>1
  <1>6. CASE Destroy(c)
    BY <1>3, <1>6 DEF Destroy, clientVars, folderVars
  <1>7. QED BY <1>4, <1>5, <1>6 DEF Run, Launch

(* A checkout reads the .Manifest of the server, which is whole.           *)
LEMMA CheckoutSpoils ==
  ASSUME Unspoilt, SessionParts, HistoryParts, NEW c \in Client, Connected(c), CheckedOut(c)
  PROVE  ~Spoils(c)
  <1>1. FolderType /\ SnapshotOf(c) /\ pc[c] = "checkout" /\ sock[c] \in serverEnd
    BY Parts DEF SessionParts, SnapshotPart, CheckedOut, Connected, Reads
  <1>2. PICK m \in ManifestRead(c) : mani' = [mani EXCEPT ![c] = IF m = None THEN mani[c] ELSE m]
    BY DEF CheckedOut
  <1>3. Arrived(c) /\ m = First(c).manifest
    BY <1>1, <1>2 DEF ManifestRead, Lost
  <1>4. m = srvMani \/ m = None
    BY <1>1, <1>3 DEF SnapshotOf, Arrived
  <1>5. srvMani \notin {Null, Bad}
    BY DEF HistoryParts, PublishedWhole
  <1>6. QED BY <1>1, <1>2, <1>4, <1>5, NotManifest, StoreAssumption DEF FolderType, Spoils

LEMMA DeleteSpoils ==
  ASSUME IInv, NEW c \in Client, NEW f \in File, UpgradeDelete(c, f), Spoils(c)
  PROVE  Stale(c)
  <1>1. FolderType /\ pc[c] = "upgrade" /\ f \in LinesOf(c, "D") /\ mani[c] \in Manifest
    BY Parts DEF UpgradeDelete, Spoils
  <1>2. CASE f \notin Listed(mani[c])
    BY <1>1, <1>2 DEF Stale
  <1>3. CASE f \in Listed(mani[c])
    <2>1. ~UnlistFaults(mani[c])
      BY <1>1, <1>3 DEF UnlistFaults
    <2>2. mani'[c] = [mani[c] EXCEPT !.hash[f] = None]
      BY <1>1, <1>3, <2>1 DEF UpgradeDelete, Unlist, FolderType
    <2>3. mani'[c] \in Manifest
      BY <1>1, <2>2 DEF Manifest, Entry
    <2>4. QED BY <2>3, NotManifest DEF Spoils
  <1>4. QED BY <1>2, <1>3

LEMMA StepSpoils ==
  ASSUME Unspoilt, SessionParts, HistoryParts, NEW c \in Client, Connected(c),
         Proceed(c) \/ BrokenPipe(c), Spoils(c)
  PROVE  Stale(c)
  <1>1. FolderType /\ PerClient(c)
    BY Parts DEF SessionParts
  <1>2. mani'[c] # mani[c] /\ mani' # mani
    BY NotManifest DEF Spoils
  <1>3. ~(PushAbort(c) \/ Pushed(c) \/ (pc[c] = "sent" /\ GiveUp(c)))
    <2>1. SUFFICES ASSUME PushAbort(c) \/ Pushed(c) \/ (pc[c] = "sent" /\ GiveUp(c)) PROVE FALSE
      OBVIOUS
    <2>2. mani' = [mani EXCEPT ![c].version = @ + 1] /\ mani[c] \in Manifest
      BY <1>1, <2>1 DEF PushAbort, Pushed, GiveUp, Bump, PerClient, CommandOf
    <2>3. mani'[c] = [mani[c] EXCEPT !.version = mani[c].version + 1]
      BY <1>1, <2>2 DEF FolderType
    <2>4. mani'[c] \in Manifest
      BY <2>2, <2>3 DEF Manifest
    <2>5. QED BY <2>4, NotManifest DEF Spoils
  <1>4. ~Created(c)
    <2>1. Created(c) => mani'[c] \in {EmptyManifest, mani[c]}
      BY <1>1 DEF Created, FolderType
    <2>2. QED BY <1>2, <2>1, EmptyManifestType, NotManifest DEF Spoils
  <1>5. ~Destroyed(c)
    <2>1. Destroyed(c) => mani'[c] \in {None, mani[c]}
      BY <1>1 DEF Destroyed, FolderType, folderVars
    <2>2. QED BY <1>2, <2>1, StoreAssumption DEF Spoils
  <1>6. ~PushReply(c)
    BY <1>2, <1>3 DEF PushReply, folderVars
  <1>7. \E f \in File : UpgradeDelete(c, f)
    BY <1>2, <1>3, <1>4, <1>5, <1>6, CheckoutSpoils
       DEF Proceed, BrokenPipe, Updated, UpdateFault, Compare, Committed, UpgradeWrite, UpgradeEnd,
           UpgradeFetch, PushFile, PushMismatch, PushComplete, FetchWrite, FetchEnd, FetchFile,
           Queried, folderVars
  <1>8. QED BY <1>7, DeleteSpoils DEF SessionParts

(* The .Manifest of a client stops parsing only by an upgrade that deletes *)
(* a file it does not list any more: no other command, and no answer of a  *)
(* server that others push to, does it (read_update,                       *)
(* remove_node_from_root).                                                 *)
THEOREM StaleLinesSpoil ==
  ASSUME Steady
  PROVE  Spec => OnlyStaleLinesSpoil
  <1> DEFINE Only == \A c \in Client :
               mani[c] \in Manifest /\ mani'[c] \in {Null, Bad} =>
                 /\ pc[c] = "upgrade"
                 /\ \E f \in LinesOf(c, "D") : f \notin Listed(mani[c])
  <1>1. SessionParts /\ HistoryParts /\ SteadyPart /\ [Next]_vars => Only
    <2>1. SUFFICES ASSUME SessionParts, HistoryParts, SteadyPart, [Next]_vars,
                          NEW c \in Client, Spoils(c)
                   PROVE  Stale(c)
      BY DEF Spoils, Stale
    <2>2. IInv /\ Unspoilt /\ mani' # mani /\ mani'[c] # mani[c]
      BY <2>1, NotManifest DEF Steady, Unspoilt, SessionParts, Spoils
    <2>3. PICK d \in Client : Run(d) \/ Proceed(d) \/ BrokenPipe(d)
      <3>1. ~Fault
        BY <2>2, Parts DEF Steady, Fault, BoundType
      <3>2. QED
        BY <2>1, <2>2, <3>1 DEF Next, Step, Broken, UserEdit, Edit, Thread, vars, clientVars, folderVars
    <2>4. d = c
      BY <2>2, <2>3, RunOthers, StepOthers DEF OwnStep, Undisturbed
    <2>5. QED BY <2>1, <2>2, <2>3, <2>4, RunSpoils, StepSpoils DEF SteadyPart
  <1>2. Spec => [][Only]_vars
    <2>1. SessionParts /\ HistoryParts /\ SteadyPart /\ [Next]_vars => [Only]_vars
      BY <1>1
    <2> HIDE DEF Only
    <2>2. QED BY <2>1, SessionReached, HistoryReached, SteadyReached, PTL DEF Spec
  <1>3. QED BY <1>2 DEF OnlyStaleLinesSpoil
=============================================================================
