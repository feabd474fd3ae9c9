-------------------------------- MODULE WTF --------------------------------
(***************************************************************************)
(* Several clients and the server over one project: what the commands do   *)
(* together.  Only main's dispatch is modelled here; the handlers are in   *)
(* Client and Server.                                                      *)
(***************************************************************************)
EXTENDS Client, Server

CONSTANTS Commands,   \* per client, the commands its user runs
          Start,      \* the project the system starts with, or None: what it
                      \* lists and the hashes the push that made it sent
          MaxRuns,    \* per client, how many commands are run
          MaxEdits,   \* how often users write a file
          MaxFaults   \* how often a program is interrupted or killed

CommandNames == {"create", "add", "remove", "update", "commit", "upgrade", "push",
                 "checkout", "currentversion", "history", "rollback", "destroy",
                 "unknown", "testsendfile"}

(* What any of the users runs.                                            *)
Used == UNION {Commands[c] : c \in Client}

StartProject == [hash : [File -> Entry], sent : Seq(Text)]

ASSUME WTFAssumption ==
  /\ Commands \in [Client -> SUBSET CommandNames]
  /\ Start \in StartProject \cup {None}
  /\ None \notin StartProject
  /\ Start # None =>
       {Start.sent[i] : i \in DOMAIN Start.sent} = {Start.hash[f] : f \in File} \ {None}
  /\ MaxRuns \in [Client -> Nat] /\ MaxEdits \in Nat /\ MaxFaults \in Nat

VARIABLES runs, edits, faults,  \* how much of each bound is used up
          cutShort              \* the server was stopped in the middle of a destroy

bounds == <<runs, edits, faults, cutShort>>
vars == <<clientVars, wireVars, serverVars, bounds>>

StartManifest == [version |-> 0, hash |-> Start.hash]

(* Either nothing exists, or somebody has pushed the project Start, the    *)
(* server has been started again since, and every client has checked it    *)
(* out.                                                                    *)
Init ==
  /\ WireInit
  /\ client_mutex = None /\ isPushing = FALSE /\ currentPushHead = <<>>
  /\ srvMani = IF Start = None THEN None ELSE StartManifest
  /\ srvTmp = None
  /\ srvBlob = IF Start = None THEN {} ELSE {Start.hash[f] : f \in File} \ {None}
  /\ srvHist = IF Start = None THEN <<>> ELSE <<[mani |-> StartManifest, sent |-> Start.sent]>>
  /\ disk = [c \in Client |-> IF Start = None THEN NoFiles ELSE Start.hash]
  /\ mani = [c \in Client |-> IF Start = None THEN None ELSE StartManifest]
  /\ upd = [c \in Client |-> None]
  /\ com = [c \in Client |-> None]
  /\ pc = [c \in Client |-> "idle"]
  /\ sock = [c \in Client |-> None]
  /\ todo = [c \in Client |-> {}]
  /\ cur = [c \in Client |-> None]
  /\ at = [c \in Client |-> None]
  /\ got = [c \in Client |-> None]
  /\ runs = [c \in Client |-> 0] /\ edits = 0 /\ faults = 0 /\ cutShort = FALSE

Launch(c, name) ==
  \/ name = "create" /\ \E k \in Conn : Create(c, k)
  \/ name = "add" /\ \E f \in File : Add(c, f)
  \/ name = "remove" /\ \E f \in File : Remove(c, f)
  \/ name = "update" /\ \E k \in Conn : Update(c, k)
  \/ name = "commit" /\ \E k \in Conn : Commit(c, k)
  \/ name = "upgrade" /\ \E k \in Conn : Upgrade(c, k)
  \/ name = "push" /\ \E k \in Conn : Push(c, k) \/ PushFault(c, k)
  \/ name = "checkout" /\ \E k \in Conn : Checkout(c, k)
  \/ name = "currentversion" /\ \E k \in Conn : CurrentVersion(c, k)
  \/ name = "history" /\ \E k \in Conn : History(c, k)
  \/ name = "rollback" /\ \E k \in Conn : Rollback(c, k)
  \/ name = "destroy" /\ Destroy(c)
  \/ name = "unknown" /\ \E k \in Conn : UnknownCommand(c, k)
  \/ name = "testsendfile" /\ \E k \in Conn, t \in Contents : TestSendFile(c, k, t)

Run(c) ==
  /\ runs[c] < MaxRuns[c] /\ runs' = [runs EXCEPT ![c] = @ + 1]
  /\ \E name \in Commands[c] : Launch(c, name)
  /\ UNCHANGED <<serverVars, edits, faults, cutShort>>

Step(c) == Proceed(c) /\ UNCHANGED <<serverVars, bounds>>

Broken(c) == BrokenPipe(c) /\ UNCHANGED <<serverVars, bounds>>

UserEdit(c) ==
  /\ edits < MaxEdits /\ edits' = edits + 1
  /\ \E f \in File, content \in Contents : Edit(c, f, content)
  /\ UNCHANGED <<serverVars, runs, faults, cutShort>>

Thread(k) == (Serve(k) \/ ParseFault(k)) /\ UNCHANGED <<clientVars, bounds>>

CrashSomewhere ==
  Crash \/ \E k \in Conn : CrashInCreate(k) \/ CrashInSend(k) \/ CrashInComplete(k)

Fault ==
  /\ faults < MaxFaults /\ faults' = faults + 1
  /\ \/ (\E c \in Client : Interrupt(c) \/ Kill(c)) /\ UNCHANGED <<serverVars, cutShort>>
     \/ CrashSomewhere /\ UNCHANGED <<clientVars, cutShort>>
     \/ (\E k \in Conn : CrashInDestroy(k)) /\ cutShort' = TRUE /\ UNCHANGED clientVars
  /\ UNCHANGED <<runs, edits>>

Next ==
  \/ \E c \in Client : Run(c) \/ Step(c) \/ Broken(c) \/ UserEdit(c)
  \/ \E k \in Conn : Thread(k)
  \/ Fault

Spec == Init /\ [][Next]_vars

(* A running program and a thread that can go on are scheduled, and users  *)
(* answer the prompts of update.                                           *)
Fairness ==
  /\ \A c \in Client : WF_vars(Step(c))
  /\ \A k \in Conn : WF_vars(Thread(k))

FairSpec == Spec /\ Fairness

TypeOK ==
  /\ ClientTypeOK /\ WireTypeOK /\ ServerTypeOK
  /\ runs \in [Client -> Nat] /\ edits \in Nat /\ faults \in Nat /\ cutShort \in BOOLEAN

-----------------------------------------------------------------------------
(* The thread that holds client_mutex and the client of its connection     *)
(* never both wait for the other to send: no command can stall the server. *)
(* push skips the read of one reply and makes it up with a read too many   *)
(* (PushVersion, SendFile).                                                *)
NoMutualWait ==
  \A c \in Client :
    pc[c] \in Waiting /\ sock[c] = client_mutex /\ client_mutex # None =>
      toServer[sock[c]] # <<>> \/ toClient[sock[c]] # <<>>

(* The version of the project on the server never leaves 0: a push is      *)
(* accepted when it is one ahead, but the .Manifest it publishes still     *)
(* carries the version it was made from (PushVersion, HandlePushVersion).  *)
ServerVersionFrozen == srvMani \in Manifest => srvMani.version = 0

(* As long as nobody rolls back or creates, the .Manifest on the server is *)
(* whole, wherever clients and server are stopped: HandlePushVersion       *)
(* ignores a read that failed, but what it wrote then stays in ~Manifest.  *)
PublishedWhole == srvMani \notin {Null, Bad}

(* A cplt is only ever read from a client whose push was accepted and      *)
(* whole, although push reads no reply before it goes on: what the cplt    *)
(* branch of handle_customer parses and copies without looking at          *)
(* isPushing is then there (HandlePushVersion leaves the .Manifest it      *)
(* refuses in the stream, which ends the session).                         *)
CompleteWhole ==
  \A k \in Conn : Received(k, "cplt") => isPushing /\ srvTmp \in Manifest

(* Every content a client has committed is stored on the server when its   *)
(* push is published (read_commit, HandleSendFile, HandleComplete).        *)
CommittedStored ==
  [][\A c \in Client, k \in Conn :
       pc[c] = "complete" /\ sock[c] = k /\ HandleComplete(k) =>
         \A f \in File : com[c][f] # None => com[c][f] \in srvBlob]_vars

(* Every hash .History lists is that of a content the server stores, as    *)
(* long as nobody destroys the project, although the entries also name     *)
(* what earlier connections sent (currentPushHead is never reset) and      *)
(* sends may be cut off.                                                   *)
HistoryStored ==
  \A i \in DOMAIN srvHist : \A j \in DOMAIN srvHist[i].sent :
    srvHist[i].sent[j] \in srvBlob

(* The handlers together keep a repository: contents are stored before     *)
(* they are recorded, a push is published and recorded at once with all    *)
(* that was received, and nothing else changes it, however the sessions    *)
(* of clients that push, destroy, create and break off follow each other   *)
(* (handle_customer and the handlers it calls).                            *)
Kept == INSTANCE Repository
  WITH Spoilt <- {Null, Bad}, Empty <- EmptyManifest,
       project <- srvMani, stored <- srvBlob, log <- srvHist, received <- currentPushHead,
       cut <- cutShort

AsRepository == Kept!Spec

(* Nothing of a destroyed project is left, and nothing comes back without  *)
(* a create, whatever the clients that had it go on sending, unless the    *)
(* server is stopped while it destroys: a project that is created then     *)
(* takes over what was left (handle_destory, HandlePushVersion,            *)
(* HandleSendFile).                                                        *)
NoRemains ==
  ~IsProject /\ ~cutShort => srvTmp = None /\ srvBlob = {} /\ srvHist = <<>>

(* What an update or a checkout has received stays the server's state for  *)
(* as long as the command runs, however long the user takes to answer: no  *)
(* push is published in between (client_mutex is held for the connection). *)
ServerSnapshot ==
  \A c \in Client :
    sock[c] \in serverEnd /\ IsProject =>
      /\ pc[c] = "compare" => got[c] = srvMani
      /\ pc[c] \in {"fetch", "file"} => mani[c] = srvMani

(* Only a line that is out of date spoils the .Manifest of a client: one   *)
(* that deletes a file the .Manifest does not list any more.  update never *)
(* writes such a line; running the same .Update twice does, or a remove in *)
(* between (read_update, remove_node_from_root).                           *)
OnlyStaleLinesSpoil ==
  [][\A c \in Client :
       mani[c] \in Manifest /\ mani'[c] \in {Null, Bad} =>
         /\ pc[c] = "upgrade"
         /\ \E f \in LinesOf(c, "D") : f \notin Listed(mani[c])]_vars

(* Every command ends, whatever the others do.                             *)
CommandsEnd == \A c \in Client : pc[c] # "idle" ~> pc[c] = "idle"

(* Every connection gets its turn and is closed by the server, also when   *)
(* its client is gone (the loop of handle_customer).                       *)
ConnectionsClose == \A k \in Conn : k \in serverEnd ~> k \notin serverEnd

-----------------------------------------------------------------------------
(* What the documentation promises and the code does not do.               *)

(* utility.c: a push puts the client's files on the server, so the files   *)
(* the published .Manifest lists can be checked out.                       *)
PublishedStored ==
  srvMani \in Manifest => \A f \in Listed(srvMani) : srvMani.hash[f] \in srvBlob

(* readme.md: M marks a file that has to be changed from the server.  So   *)
(* where the user has not edited the file, upgrade leaves in it what the   *)
(* line names, if that is stored.                                          *)
LineTaken ==
  [][\A c \in Client :
       /\ UpgradeWrite(c) /\ faults = 0
       /\ mani[c] \in Manifest /\ ~Edited(mani[c], disk[c], cur[c])
       /\ upd[c][cur[c]].new \in srvBlob
       => disk'[c][cur[c]] = upd[c][cur[c]].new]_vars

(* readme.md: a file that was changed on both sides is a conflict, and the *)
(* user is asked which one to preserve.  Here the client lists what an     *)
(* earlier push had published, and its user has edited the file.           *)
ChangedOnBoth(c, f) ==
  /\ f \in OnBoth(mani[c], got[c])
  /\ mani[c].hash[f] # got[c].hash[f]
  /\ \E i \in DOMAIN srvHist : srvHist[i].mani.hash[f] = mani[c].hash[f]
  /\ Edited(mani[c], disk[c], f) /\ Md5(disk[c][f]) # got[c].hash[f]

ConflictAsked ==
  [][\A c \in Client : Compare(c) =>
       \A f \in File : ChangedOnBoth(c, f) => f \in Conflict(mani[c], got[c], disk[c])]_vars

-----------------------------------------------------------------------------
(* The inductive invariant, by parts.                                      *)

(* A connection has one client at most, and a closed end no data.          *)
ConnOK ==
  /\ \A c \in Client : pc[c] = "idle" => sock[c] = None
  /\ \A c \in Client : sock[c] # None => sock[c] \in clientEnd
  /\ \A c, d \in Client : sock[c] = sock[d] /\ sock[c] # None => c = d
  /\ \A k \in Socket : k \notin serverEnd => toServer[k] = <<>>
  /\ \A k \in Socket : k \notin clientEnd => toClient[k] = <<>>
  /\ client_mutex # None => client_mutex \in serverEnd

(* A command that reads files has one request or one reply under way, and  *)
(* the reply is of the kind it waits for.                                  *)
Under(k, requests, replies) ==
  \/ toServer[k] = <<>> /\ toClient[k] = <<>>
  \/ toClient[k] = <<>> /\ Len(toServer[k]) = 1 /\ toServer[k][1] \in requests
  \/ toServer[k] = <<>> /\ Len(toClient[k]) = 1 /\ toClient[k][1] \in replies

StreamOf(c) ==
  /\ pc[c] \in {"update", "commit", "checkout"} =>
       Under(sock[c], [op : {"manifest"}], [manifest : ManifestFile])
  /\ pc[c] \in {"blob", "file"} =>
       Under(sock[c], [op : {"recv"}, hash : Text], [content : Text])
  /\ pc[c] \in {"upgrade", "fetch"} => Under(sock[c], {}, {})

(* What a command has found out stays true while it runs.                  *)
CommandOf(c) ==
  /\ pc[c] = "compare" => mani[c] \in Manifest /\ got[c] \in Manifest
  /\ pc[c] \in {"push", "sent", "abort", "complete"} =>
       /\ mani[c] \in Manifest /\ com[c] # None
       /\ \A f \in todo[c] : com[c][f] # None
  /\ pc[c] \in {"upgrade", "blob"} => upd[c] # None
  /\ pc[c] \in {"fetch", "file"} => mani[c] \in Manifest /\ todo[c] \subseteq Listed(mani[c])
  /\ pc[c] \in {"blob", "file"} => cur[c] \in File
  /\ pc[c] = "blob" /\ at[c] # None => disk[c][cur[c]] # None

(* A request still unread will be answered or will end the connection, so  *)
(* requests and replies together cover the reads the command will do.      *)
Need(label) == IF label \in {"sent", "complete"} THEN 2 ELSE 1

CreditOf(c) ==
  pc[c] \in Waiting \cup {"push"} /\ sock[c] \in serverEnd =>
    Len(toServer[sock[c]]) + Len(toClient[sock[c]]) >= Need(pc[c])

(* Every push announces the version after that of its .Manifest, so what   *)
(* is accepted under version 0 + 1 is a .Manifest of version 0.            *)
Ahead(m) == m.op = "push" /\ m.manifest # None => m.version = m.manifest.version + 1
AllAhead(q) == \A i \in 1..Len(q) : Ahead(q[i])

VersionOK ==
  /\ ServerVersionFrozen
  /\ isPushing /\ srvTmp \in Manifest => srvTmp.version = 0
  /\ \A k \in Socket : AllAhead(toServer[k])

IInv ==
  /\ TypeOK /\ ConnOK /\ VersionOK
  /\ \A c \in Client : StreamOf(c) /\ CommandOf(c) /\ CreditOf(c)

-----------------------------------------------------------------------------
(* What is true of sessions, and is inductive together with IInv.          *)

(* From the i-th on, the requests of q are those that follow a push.       *)
PushFrom(q, i) ==
  \A j \in i..Len(q) : q[j].op \in {"send", "fail"} \/ (q[j].op = "cplt" /\ j = Len(q))

(* The session of k has accepted a whole push.                             *)
Pushing(k) ==
  client_mutex = k /\ isPushing /\ srvMani \in Manifest /\ srvTmp \in Manifest

(* The next thing the thread of k reads ends the session.                  *)
Refused(k) == toServer[k] # <<>> /\ Head(toServer[k]).op = "payload"

(* A push of k was refused, is still to be read, or was accepted.          *)
Ready(k) ==
  \/ Refused(k)
  \/ /\ toServer[k] # <<>> /\ PushFrom(toServer[k], 2)
     /\ Head(toServer[k]).op = "push" /\ Head(toServer[k]).manifest \in Manifest
  \/ Pushing(k) /\ PushFrom(toServer[k], 1)

Completes(k) == \E i \in 1..Len(toServer[k]) : toServer[k][i].op = "cplt"

Sending(k, t) ==
  \E i \in 1..Len(toServer[k]) :
    toServer[k][i] = [op |-> "send", hash |-> t, content |-> t]

(* A committed content is still to be sent, is under way, or is stored.    *)
PushOf(c) ==
  pc[c] \in {"push", "sent", "abort", "complete"} /\ sock[c] \in serverEnd =>
    /\ IF pc[c] = "complete"
       THEN todo[c] = {} /\ (Ready(sock[c]) \/ toServer[sock[c]] = <<>>)
       ELSE Ready(sock[c]) /\ ~Completes(sock[c])
    /\ ~Refused(sock[c]) => \A f \in File : com[c][f] # None =>
         \/ f \in todo[c] \/ Sending(sock[c], com[c][f])
         \/ client_mutex = sock[c] /\ com[c][f] \in srvBlob

(* A command that has an answer, or has read one, has the mutex.           *)
SnapshotOf(c) ==
  sock[c] \in serverEnd =>
    /\ pc[c] \in {"update", "checkout"} /\ toClient[sock[c]] # <<>> =>
         /\ client_mutex = sock[c]
         /\ First(c).manifest = srvMani \/ (First(c).manifest = None /\ FALSE \in Heap)
    /\ pc[c] = "compare" =>
         client_mutex = sock[c] /\ toServer[sock[c]] = <<>> /\ got[c] = srvMani
    /\ pc[c] \in {"fetch", "file"} =>
         /\ client_mutex = sock[c]
         /\ mani[c] = srvMani \/ ~IsProject \/ FALSE \in Heap

SessionInv ==
  /\ \A k \in Conn : Completes(k) => Ready(k)
  /\ \A c \in Client : PushOf(c) /\ SnapshotOf(c)
  /\ NoRemains
=============================================================================
