------------------------------- MODULE Client -------------------------------
(***************************************************************************)
(* The WTF client: the project folder of each client machine and the       *)
(* commands run in it, one at a time.  A command opens one connection      *)
(* (none is modelled for add and remove, which send nothing over theirs),  *)
(* is a sequence of requests and replies, and ends by closing it.          *)
(***************************************************************************)
EXTENDS Wire

CONSTANTS Client,     \* the machines (project folders) commands are run on
          Contents    \* what a user may write into a file

ASSUME ClientAssumption == None \notin Client /\ Contents \subseteq Text

VARIABLES disk,     \* the working files
          mani,     \* .Manifest
          upd,      \* .Update, or None
          com,      \* .Commit, or None
          pc,       \* where the running command is
          sock,     \* its connection
          todo,     \* the files whose lines it has not processed
          cur,      \* the file it is fetching
          at,       \* where upgrade will write into that file, or None
          got       \* the server's .Manifest it compares with

folderVars == <<disk, mani, upd, com>>
commandVars == <<pc, sock, todo, cur, at, got>>
clientVars == <<folderVars, commandVars>>

(* Waiting: the command is in a read_all of the reply it needs next.       *)
Waiting == {"create", "update", "commit", "blob", "sent", "abort", "complete",
            "checkout", "file", "ask", "destroy"}
Working == {"compare", "upgrade", "push", "fetch"}

ClientTypeOK ==
  /\ disk \in [Client -> [File -> Entry]]
  /\ mani \in [Client -> ManifestFile]
  /\ upd \in [Client -> UpdateFile \cup {None}]
  /\ com \in [Client -> CommitFile \cup {None}]
  /\ pc \in [Client -> Waiting \cup Working \cup {"idle"}]
  /\ sock \in [Client -> Socket]
  /\ todo \in [Client -> SUBSET File]
  /\ cur \in [Client -> File \cup {None}]
  /\ at \in [Client -> Nat \cup {None}]
  /\ got \in [Client -> ManifestFile]

NoFiles == [f \in File |-> None]

-----------------------------------------------------------------------------
(* The steps commands are made of.                                         *)

Begin(c, k, requests, label) ==
  /\ pc[c] = "idle"
  /\ Connect(k, requests)
  /\ pc' = [pc EXCEPT ![c] = label]
  /\ sock' = [sock EXCEPT ![c] = k]
  /\ UNCHANGED <<cur, at, got>>

(* exit, or a fault: the connection is closed with requests left in it.    *)
EndWith(c, requests) ==
  /\ HangUp(sock[c], requests)
  /\ pc' = [pc EXCEPT ![c] = "idle"]
  /\ sock' = [sock EXCEPT ![c] = None]
  /\ todo' = [todo EXCEPT ![c] = {}]
  /\ cur' = [cur EXCEPT ![c] = None]
  /\ at' = [at EXCEPT ![c] = None]
  /\ got' = [got EXCEPT ![c] = None]

End(c) == EndWith(c, toServer[sock[c]])

(* The next request goes out and its reply is waited for.                  *)
Ask(c, m, label) ==
  /\ toServer' = Sent(sock[c], m)
  /\ pc' = [pc EXCEPT ![c] = label]
  /\ UNCHANGED <<clientEnd, serverEnd, toClient, sock, got>>

(* A reply has been read, the command goes on.                             *)
Take(c, label) ==
  /\ toClient' = [toClient EXCEPT ![sock[c]] = IF @ = <<>> THEN <<>> ELSE Tail(@)]
  /\ pc' = [pc EXCEPT ![c] = label]
  /\ UNCHANGED <<clientEnd, serverEnd, toServer, sock>>

(* A read ends when a reply is there, or when the server's end is closed:  *)
(* then the variable it failed to fill holds anything.                     *)
Arrived(c) == toClient[sock[c]] # <<>>
Lost(c) == toClient[sock[c]] = <<>> /\ sock[c] \notin serverEnd
First(c) == Head(toClient[sock[c]])

StatusRead(c) == {ok \in BOOLEAN : Lost(c) \/ (Arrived(c) /\ ok = First(c).ok)}
ManifestRead(c) == IF Arrived(c) THEN {First(c).manifest}
                   ELSE IF Lost(c) THEN {None, Bad} ELSE {}
ContentRead(c) == IF Arrived(c) THEN {First(c).content}
                  ELSE IF Lost(c) THEN Contents \cup {<<>>} ELSE {}

SetDisk(c, f, content) == disk' = [disk EXCEPT ![c][f] = content]

-----------------------------------------------------------------------------
(* create *)
Create(c, k) ==
  /\ mani[c] = None
  /\ Begin(c, k, <<[op |-> "cret"]>>, "create")
  /\ UNCHANGED <<folderVars, todo>>

Created(c) ==
  /\ pc[c] = "create"
  /\ \E ok \in StatusRead(c) :
       mani' = IF ok THEN [mani EXCEPT ![c] = EmptyManifest] ELSE mani
  /\ End(c)
  /\ UNCHANGED <<disk, upd, com>>

(* add, remove: the project's .Manifest is rewritten                       *)
Add(c, f) ==
  /\ pc[c] = "idle" /\ mani[c] \in Manifest
  /\ disk[c][f] # None /\ f \notin Listed(mani[c])
  /\ mani' = [mani EXCEPT ![c].hash[f] = Md5(disk[c][f])]
  /\ UNCHANGED <<disk, upd, com, commandVars, wireVars>>

Remove(c, f) ==
  /\ pc[c] = "idle" /\ mani[c] \in Manifest
  /\ f \in Listed(mani[c])
  /\ mani' = [mani EXCEPT ![c].hash[f] = None]
  /\ UNCHANGED <<disk, upd, com, commandVars, wireVars>>

-----------------------------------------------------------------------------
(* update *)
Update(c, k) ==
  /\ mani[c] # None
  /\ Begin(c, k, <<[op |-> "manifest"]>>, "update")
  /\ UNCHANGED <<folderVars, todo>>

Updated(c) ==
  /\ pc[c] = "update"
  /\ \E m \in ManifestRead(c) :
       /\ mani[c] \in Manifest /\ m \in Manifest
       /\ got' = [got EXCEPT ![c] = m]
  /\ Take(c, "compare")
  /\ UNCHANGED <<folderVars, todo, cur, at>>

(* A NULL root is dereferenced once .Update has been truncated; a file     *)
(* that does not parse may stop the program before that.                   *)
UpdateFault(c) ==
  /\ pc[c] = "update"
  /\ \E m \in ManifestRead(c) :
       /\ mani[c] \notin Manifest \/ m \notin Manifest
       /\ \E early \in BOOLEAN :
            /\ early => Bad \in {mani[c], m} \/ m = None
            /\ upd' = IF early THEN upd ELSE [upd EXCEPT ![c] = NoLines]
  /\ End(c)
  /\ UNCHANGED <<disk, mani, com>>

(* The user has answered every prompt.  A file only the server lists makes *)
(* compare_server_client_diff dereference NULL with .Update still empty.   *)
Compare(c) ==
  /\ pc[c] = "compare"
  /\ \E answer \in [Conflict(mani[c], got[c], disk[c]) -> Answers] :
       upd' = [upd EXCEPT ![c] = IF OnlyServer(mani[c], got[c]) # {} THEN NoLines
                                 ELSE UpdateLines(mani[c], got[c], disk[c], answer)]
  /\ End(c)
  /\ UNCHANGED <<disk, mani, com>>

-----------------------------------------------------------------------------
(* commit: the fetched .Manifest is not used.  Without .Update the program *)
(* faults once .Commit has been truncated.                                 *)
Commit(c, k) ==
  /\ mani[c] # None
  /\ Begin(c, k, <<[op |-> "manifest"]>>, "commit")
  /\ UNCHANGED <<folderVars, todo>>

Committed(c) ==
  /\ pc[c] = "commit"
  /\ ManifestRead(c) # {}
  /\ com' = [com EXCEPT ![c] = IF upd[c] = None THEN NoLines ELSE CommitLines(upd[c])]
  /\ End(c)
  /\ UNCHANGED <<disk, mani, upd>>

-----------------------------------------------------------------------------
(* upgrade: the lines of .Update in order; U lines are skipped             *)
LinesOf(c, mode) == {f \in File : upd[c][f] # None /\ upd[c][f].mode = mode}

Upgrade(c, k) ==
  /\ mani[c] # None /\ upd[c] # None
  /\ Begin(c, k, <<>>, "upgrade")
  /\ todo' = [todo EXCEPT ![c] = LinesOf(c, "D") \cup LinesOf(c, "M")]
  /\ UNCHANGED folderVars

(* remove_node_from_root and the rewrite of .Manifest: a file that is not  *)
(* listed yields a NULL root, which is written out as such.                *)
Unlist(m, f) == IF f \in Listed(m) THEN [m EXCEPT !.hash[f] = None] ELSE Null

(* Mutant: the only file of the .Manifest cannot be removed from it.       *)
UnlistFaultsOne(m) ==
  IF m \in Manifest THEN \A f, g \in Listed(m) : f = g ELSE TRUE

(* The .Manifest is truncated before the fault on a NULL or empty root.    *)
UnlistFaults(m) == IF m \in Manifest THEN Listed(m) = {} ELSE TRUE

UpgradeDelete(c, f) ==
  /\ pc[c] = "upgrade" /\ f \in todo[c] \cap LinesOf(c, "D")
  /\ SetDisk(c, f, None)
  /\ IF UnlistFaults(mani[c])
     THEN /\ mani' = [mani EXCEPT ![c] = Bad]
          /\ End(c)
     ELSE /\ mani' = [mani EXCEPT ![c] = Unlist(@, f)]
          /\ todo' = [todo EXCEPT ![c] = @ \ {f}]
          /\ UNCHANGED <<pc, sock, cur, at, got, wireVars>>
  /\ UNCHANGED <<upd, com>>

(* The content asked for is the one with the hash of the local file, which *)
(* stays open (unless there is none), ...                                  *)
UpgradeFetch(c, f) ==
  /\ pc[c] = "upgrade" /\ f \in todo[c] \cap LinesOf(c, "M")
  /\ Ask(c, [op |-> "recv", hash |-> Md5(disk[c][f])], "blob")
  /\ cur' = [cur EXCEPT ![c] = f]
  /\ at' = [at EXCEPT ![c] = IF disk[c][f] = None THEN None ELSE Len(disk[c][f])]
  /\ todo' = [todo EXCEPT ![c] = @ \ {f}]
  /\ UNCHANGED folderVars

(* ... and it is written where the read of the local file ended.           *)
UpgradeWrite(c) ==
  /\ pc[c] = "blob"
  /\ \E content \in ContentRead(c) :
       SetDisk(c, cur[c], IF at[c] = None THEN disk[c][cur[c]]
                          ELSE WriteAt(disk[c][cur[c]], at[c], content))
  /\ Take(c, "upgrade")
  /\ cur' = [cur EXCEPT ![c] = None]
  /\ at' = [at EXCEPT ![c] = None]
  /\ UNCHANGED <<mani, upd, com, todo, got>>

UpgradeEnd(c) ==
  /\ pc[c] = "upgrade" /\ todo[c] = {}
  /\ End(c)
  /\ UNCHANGED folderVars

-----------------------------------------------------------------------------
(* push: PushVersion sends the .Manifest under the next version and does   *)
(* not read the reply, so each later read takes the reply before its own.  *)
(* .Manifest arrives as it is because it fits one block (BlockAssumption). *)
(* Mutant: the .Manifest is sent with its version already raised.          *)
PushRequestRaised(c) ==
  [op |-> "push", version |-> mani[c].version + 1,
   manifest |-> [mani[c] EXCEPT !.version = @ + 1]]

PushRequest(c) ==
  [op |-> "push", version |-> mani[c].version + 1, manifest |-> mani[c]]

Push(c, k) ==
  /\ mani[c] \in Manifest /\ com[c] # None
  /\ Begin(c, k, <<PushRequest(c)>>, "push")
  /\ todo' = [todo EXCEPT ![c] = {f \in File : com[c][f] # None}]
  /\ UNCHANGED folderVars

(* Without .Commit the program faults once the .Manifest is sent.          *)
PushFault(c, k) ==
  /\ pc[c] = "idle" /\ mani[c] \in Manifest /\ com[c] = None
  /\ k \in Free
  /\ serverEnd' = serverEnd \cup {k}
  /\ toServer' = [toServer EXCEPT ![k] = <<PushRequest(c)>>]
  /\ UNCHANGED <<clientEnd, toClient, clientVars>>

(* SendFile: the file still has the committed hash, ...                    *)
PushFile(c, f) ==
  /\ pc[c] = "push" /\ f \in todo[c]
  /\ Md5(disk[c][f]) = com[c][f]
  /\ Ask(c, [op |-> "send", hash |-> com[c][f], content |-> com[c][f]], "sent")
  /\ todo' = [todo EXCEPT ![c] = @ \ {f}]
  /\ UNCHANGED <<folderVars, cur, at>>

(* ... or it has not, and SendFile reads a reply to a request of its own   *)
(* that it did not send.                                                   *)
PushMismatch(c, f) ==
  /\ pc[c] = "push" /\ f \in todo[c]
  /\ Md5(disk[c][f]) # com[c][f]
  /\ pc' = [pc EXCEPT ![c] = "abort"]
  /\ UNCHANGED <<folderVars, sock, todo, cur, at, got, wireVars>>

(* However the push went, the local version goes up and the command ends.  *)
Bump(c, requests) ==
  /\ mani' = [mani EXCEPT ![c].version = @ + 1]
  /\ EndWith(c, requests)
  /\ UNCHANGED <<disk, upd, com>>

GiveUp(c) == Bump(c, Append(toServer[sock[c]], [op |-> "fail"]))

PushReply(c) ==
  /\ pc[c] = "sent"
  /\ \E ok \in StatusRead(c) :
       IF ok THEN Take(c, "push") /\ UNCHANGED <<folderVars, todo, cur, at, got>>
       ELSE GiveUp(c)

PushAbort(c) == pc[c] = "abort" /\ StatusRead(c) # {} /\ GiveUp(c)

(* Mutant: the push is completed with files still to be sent.              *)
PushCompleteEarly(c) ==
  /\ pc[c] = "push"
  /\ Ask(c, [op |-> "cplt"], "complete")
  /\ UNCHANGED <<folderVars, todo, cur, at>>

PushComplete(c) ==
  /\ pc[c] = "push" /\ todo[c] = {}
  /\ Ask(c, [op |-> "cplt"], "complete")
  /\ UNCHANGED <<folderVars, todo, cur, at>>

Pushed(c) ==
  /\ pc[c] = "complete" /\ StatusRead(c) # {}
  /\ Bump(c, toServer[sock[c]])

-----------------------------------------------------------------------------
(* checkout: .Manifest is created empty, filled with the reply, and every  *)
(* file it lists is created when missing, unless its path is taken for a   *)
(* folder's, and then fetched by its hash.                                 *)
Checkout(c, k) ==
  /\ Begin(c, k, <<[op |-> "manifest"]>>, "checkout")
  /\ mani' = IF mani[c] = None THEN [mani EXCEPT ![c] = Bad] ELSE mani
  /\ UNCHANGED <<disk, upd, com, todo>>

CheckedOut(c) ==
  /\ pc[c] = "checkout"
  /\ \E m \in ManifestRead(c) :
       LET new == IF m = None THEN mani[c] ELSE m IN
         /\ mani' = [mani EXCEPT ![c] = new]
         /\ IF new \in Manifest
            THEN /\ \E files \in SUBSET Listed(new) :
                      /\ files = Listed(new) \/ FALSE \in Heap
                      /\ disk' = [disk EXCEPT ![c] = [f \in File |->
                           IF f \in files THEN Md5(disk[c][f]) ELSE disk[c][f]]]
                 /\ todo' = [todo EXCEPT ![c] = Listed(new)]
                 /\ Take(c, "fetch")
                 /\ UNCHANGED <<cur, at, got>>
            ELSE End(c) /\ UNCHANGED disk
  /\ UNCHANGED <<upd, com>>

FetchFile(c, f) ==
  /\ pc[c] = "fetch" /\ f \in todo[c]
  /\ Ask(c, [op |-> "recv", hash |-> mani[c].hash[f]], "file")
  /\ cur' = [cur EXCEPT ![c] = f]
  /\ todo' = [todo EXCEPT ![c] = @ \ {f}]
  /\ UNCHANGED <<folderVars, at>>

FetchWrite(c) ==
  /\ pc[c] = "file"
  /\ \E content \in ContentRead(c) :
       SetDisk(c, cur[c], IF disk[c][cur[c]] = None THEN None
                          ELSE Overwrite(disk[c][cur[c]], content))
  /\ Take(c, "fetch")
  /\ cur' = [cur EXCEPT ![c] = None]
  /\ UNCHANGED <<mani, upd, com, todo, at, got>>

FetchEnd(c) ==
  /\ pc[c] = "fetch" /\ todo[c] = {}
  /\ End(c)
  /\ UNCHANGED folderVars

-----------------------------------------------------------------------------
(* currentversion, history, rollback: one request, one reply.  A rollback  *)
(* is asked for whether or not the project is here.                        *)
CurrentVersion(c, k) ==
  /\ mani[c] # None
  /\ Begin(c, k, <<[op |-> "crvs"]>>, "ask")
  /\ UNCHANGED <<folderVars, todo>>

History(c, k) ==
  /\ mani[c] # None
  /\ Begin(c, k, <<[op |-> "hist"]>>, "ask")
  /\ UNCHANGED <<folderVars, todo>>

Rollback(c, k) ==
  /\ Begin(c, k, <<[op |-> "roll"]>>, "ask")
  /\ UNCHANGED <<folderVars, todo>>

(* testsendfile: a send outside any push                                   *)
TestSendFile(c, k, content) ==
  /\ Begin(c, k, <<[op |-> "send", hash |-> content, content |-> content]>>, "ask")
  /\ UNCHANGED <<folderVars, todo>>

Queried(c) ==
  /\ pc[c] = "ask" /\ StatusRead(c) # {}
  /\ End(c)
  /\ UNCHANGED folderVars

(* main compares argv[1] with "destroy" the wrong way round: every word    *)
(* that is no command runs process_destroy ...                             *)
UnknownCommand(c, k) ==
  /\ mani[c] # None
  /\ Begin(c, k, <<[op |-> "dest"]>>, "destroy")
  /\ UNCHANGED <<folderVars, todo>>

Destroyed(c) ==
  /\ pc[c] = "destroy"
  /\ \E ok \in StatusRead(c) :
       IF ok THEN /\ disk' = [disk EXCEPT ![c] = NoFiles]
                  /\ mani' = [mani EXCEPT ![c] = None]
                  /\ upd' = [upd EXCEPT ![c] = None]
                  /\ com' = [com EXCEPT ![c] = None]
       ELSE UNCHANGED folderVars
  /\ End(c)

(* ... and destroy itself connects and exits.                              *)
Destroy(c) == pc[c] = "idle" /\ UNCHANGED <<clientVars, wireVars>>

-----------------------------------------------------------------------------
(* One more step of the command running on c.                              *)
Proceed(c) ==
  \/ Created(c) \/ Updated(c) \/ UpdateFault(c) \/ Compare(c) \/ Committed(c)
  \/ UpgradeWrite(c) \/ UpgradeEnd(c)
  \/ \E f \in File : UpgradeDelete(c, f) \/ UpgradeFetch(c, f)
  \/ \E f \in File : PushFile(c, f) \/ PushMismatch(c, f)
  \/ PushReply(c) \/ PushAbort(c) \/ PushComplete(c) \/ Pushed(c)
  \/ CheckedOut(c) \/ FetchWrite(c) \/ FetchEnd(c)
  \/ \E f \in File : FetchFile(c, f)
  \/ Queried(c) \/ Destroyed(c)

(* The user writes a file, also during a command.  Some editors replace    *)
(* the file: what upgrade has open is then no longer the file of the       *)
(* project.                                                                *)
Edit(c, f, content) ==
  /\ disk[c][f] # content
  /\ SetDisk(c, f, content)
  /\ \/ UNCHANGED at
     \/ cur[c] = f /\ at' = [at EXCEPT ![c] = None]
  /\ UNCHANGED <<mani, upd, com, pc, sock, todo, cur, got, wireVars>>

(* Once the server's end is closed a second send raises SIGPIPE, and a     *)
(* length that was never read may not be one malloc can serve.             *)
Reading == {"update", "commit", "blob", "checkout", "file"}

BrokenPipe(c) ==
  /\ pc[c] \notin {"idle", "compare"} /\ sock[c] \notin serverEnd
  /\ sock[c] = None => pc[c] \in Reading
  /\ End(c)
  /\ UNCHANGED folderVars

(* SIGINT shuts the connection down, possibly in the middle of a request,  *)
(* and the command goes on: it sends nothing more and no read succeeds.    *)
Interrupt(c) ==
  /\ pc[c] # "idle" /\ sock[c] # None
  /\ \E left \in Cuts(toServer[sock[c]]) : HangUp(sock[c], left)
  /\ sock' = [sock EXCEPT ![c] = None]
  /\ UNCHANGED <<folderVars, pc, todo, cur, at, got>>

(* The program is killed between two of its steps.                         *)
Kill(c) ==
  /\ pc[c] # "idle"
  /\ \E left \in Cuts(toServer[sock[c]]) : EndWith(c, left)
  /\ UNCHANGED folderVars
=============================================================================
