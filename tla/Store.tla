------------------------------- MODULE Store -------------------------------
(***************************************************************************)
(* What the client and the server of WTF keep on disk: file contents,      *)
(* .Manifest, .Update and .Commit, and the pure functions the programs     *)
(* compute over them.  A project is one flat folder: the folder tree that  *)
(* a real .Manifest serialises is not part of this module.                 *)
(***************************************************************************)
EXTENDS Naturals, Sequences

CONSTANTS File,     \* the file names of the project
          Byte,     \* the units file contents are made of
          Zero,     \* the one a write beyond the end of a file fills up with
          None,     \* a file (or a line of a file) that does not exist
          Null,     \* a .Manifest that holds "0\n": it parses to a NULL root
          Bad       \* a .Manifest that does not parse (empty, torn, garbage)

(* A file's content, shorter than one block of 4096 bytes: longer ones are *)
(* the business of Transfer.  MD5 is taken to be collision free, so a      *)
(* content also stands for its own hash.                                   *)
Text == Seq(Byte)
Entry == Text \cup {None}

(* A parsed .Manifest: the version of the root node and, per listed file,  *)
(* the hash its node carries.                                              *)
Manifest == [version : Nat, hash : [File -> Entry]]
ManifestFile == Manifest \cup {None, Null, Bad}

ASSUME StoreAssumption ==
  /\ None \notin Text /\ None # Null /\ None # Bad /\ Null # Bad
  /\ {None, Null, Bad} \cap Manifest = {}
  /\ Zero \in Byte

Listed(m) == {f \in File : m.hash[f] # None}

EmptyManifest == [version |-> 0, hash |-> [f \in File |-> None]]

(* A line of .Update.  The old hash it also holds is never read again.     *)
Line == [mode : {"U", "M", "D"}, new : Entry]
UpdateFile == [File -> Line \cup {None}]
CommitFile == [File -> Entry]

NoLines == [f \in File |-> None]

(* GetMD5FileInfo of a file that cannot be opened: read() fails at once,   *)
(* which gives the hash of the empty content.                              *)
Md5(content) == IF content = None THEN <<>> ELSE content

(* write() from offset 0 of a file opened without O_TRUNC: the tail of a   *)
(* longer old content stays behind the new one.                            *)
Overwrite(old, new) == new \o SubSeq(old, Len(new) + 1, Len(old))

(* write() from offset n: a file that has become shorter than n is filled  *)
(* up first.                                                               *)
UpTo(old, n) == [i \in 1..n |-> IF i \in DOMAIN old THEN old[i] ELSE Zero]

WriteAt(old, n, new) ==
  IF new = <<>> THEN old
  ELSE UpTo(old, n) \o new \o SubSeq(old, n + Len(new) + 1, Len(old))

-----------------------------------------------------------------------------
(* The comparison of update: client's .Manifest, server's .Manifest and    *)
(* the hashes of the working files decide the line written for each file.  *)

OnBoth(client, server) == Listed(client) \cap Listed(server)
OnlyClient(client, server) == Listed(client) \ Listed(server)
OnlyServer(client, server) == Listed(server) \ Listed(client)

SameVersion(client, server) == client.version = server.version

(* The local file differs from its manifest entry.                         *)
Edited(client, disk, f) == Md5(disk[f]) # client.hash[f]

(* Different versions and different entries: the server's file is newer,   *)
(* and the user is asked when the local file was edited as well.           *)
Outdated(client, server) ==
  {f \in OnBoth(client, server) :
     ~SameVersion(client, server) /\ client.hash[f] # server.hash[f]}

Conflict(client, server, disk) ==
  {f \in Outdated(client, server) : Edited(client, disk, f)}

(* The answers to the conflict prompt: "server", "client", or any other    *)
(* input, which writes no line.                                            *)
Answers == {"server", "client", "other"}

UploadHash(client, server, disk, answer, f) ==
  CASE f \in OnlyClient(client, server) /\ SameVersion(client, server)
         -> client.hash[f]
    [] f \in OnBoth(client, server) \ Outdated(client, server) /\ Edited(client, disk, f)
         -> Md5(disk[f])
    [] f \in Conflict(client, server, disk) /\ answer[f] = "client"
         -> Md5(disk[f])
    [] OTHER -> None

Modified(client, server, disk, answer) ==
  {f \in Outdated(client, server) :
     f \in Conflict(client, server, disk) => answer[f] = "server"}

Deleted(client, server) ==
  IF SameVersion(client, server) THEN {} ELSE OnlyClient(client, server)

UpdateLines(client, server, disk, answer) ==
  [f \in File |->
     CASE f \in Deleted(client, server)
            -> [mode |-> "D", new |-> None]
       [] f \in Modified(client, server, disk, answer)
            -> [mode |-> "M", new |-> server.hash[f]]
       [] UploadHash(client, server, disk, answer, f) # None
            -> [mode |-> "U", new |-> UploadHash(client, server, disk, answer, f)]
       [] OTHER -> None]

(* copy_u_mode: .Commit keeps the U lines of .Update.                      *)
CommitLines(update) ==
  [f \in File |-> IF update[f] # None /\ update[f].mode = "U"
                  THEN update[f].new ELSE None]
=============================================================================
