----------------------------- MODULE Repository -----------------------------
(***************************************************************************)
(* What the server promises about the project it keeps, whatever clients   *)
(* send and whenever it stops: a published .Manifest, the contents stored, *)
(* and a log of what was published.  A publication and its record are one  *)
(* step, and so is a destruction, unless the server stops in the middle.   *)
(***************************************************************************)
EXTENDS Naturals, Sequences

CONSTANTS Manifest,   \* the .Manifests that parse
          Spoilt,     \* those that do not
          Empty,      \* the one of a new project
          None        \* no project

VARIABLES project,    \* the published .Manifest
          stored,     \* the contents kept
          log,        \* what was published, with the contents it names
          received,   \* the contents received since the server was started
          cut         \* the server was stopped in the middle of a destruction

repositoryVars == <<project, stored, log, received, cut>>

Init ==
  /\ IF project = None THEN stored = {} /\ log = <<>> ELSE project \in Manifest
  /\ \A i \in DOMAIN log : \A j \in DOMAIN log[i].sent : log[i].sent[j] \in stored
  /\ received = <<>> /\ cut = FALSE

Create ==
  /\ project = None /\ project' = Empty
  /\ UNCHANGED <<stored, log, received, cut>>

Receive ==
  /\ project # None
  /\ received' # <<>> /\ Tail(received') = received
  /\ stored' = stored \cup {Head(received')}
  /\ UNCHANGED <<project, log, cut>>

Publish ==
  /\ project \in Manifest /\ project' \in Manifest
  /\ log' = Append(log, [mani |-> project', sent |-> received])
  /\ UNCHANGED <<stored, received, cut>>

(* A rollback; it loses the project's .Manifest.                           *)
Spoil ==
  /\ project # None /\ project' \in Spoilt
  /\ UNCHANGED <<stored, log, received, cut>>

Destroy ==
  /\ project # None /\ project' = None
  /\ stored' = {} /\ log' = <<>>
  /\ UNCHANGED <<received, cut>>

(* The server stops, at worst with a publication not recorded, a new       *)
(* project half made or an old one half destroyed.                         *)
Stop ==
  /\ received' = <<>>
  /\ \/ /\ \/ project' = project
           \/ project \in Manifest /\ project' \in Manifest
           \/ project = None /\ project' \in {Empty} \cup Spoilt
        /\ UNCHANGED <<stored, log, cut>>
     \/ /\ cut' = TRUE
        /\ project # None /\ project' \in {project, None}
        /\ stored' \subseteq stored
        /\ log' \in {log, <<>>}

Next == Create \/ Receive \/ Publish \/ Spoil \/ Destroy \/ Stop

Spec == Init /\ [][Next]_repositoryVars
=============================================================================
