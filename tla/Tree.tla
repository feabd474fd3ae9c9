-------------------------------- MODULE Tree --------------------------------
(***************************************************************************)
(* One client's project with folders: what add, remove, update, upgrade,   *)
(* push and checkout do to a .Manifest with a folder tree and to the files *)
(* it lists.  Every command reads the text of .Manifest, works on the tree *)
(* and writes the text again.  Commands run one at a time; what goes over  *)
(* the connection, and other clients, is the matter of WTF.                *)
(***************************************************************************)
EXTENDS FdStruct

CONSTANTS Project,    \* the project's name, which its root carries
          Path,       \* the paths users give to commands
          Byte, Zero, Contents,
          Stored,     \* the contents the server has: WTF says how they get there
          Room,       \* how many files a .Manifest of one block can list
          Null, Bad,
          MaxRuns,            \* bound: commands
          MaxEdits            \* bound: writes of users and pushes given up

VARIABLES manifest,   \* the text of the client's .Manifest; Null: "0"; Bad: empty
          server,     \* the text of the server's
          temp,       \* the text of the server's ~Manifest, or None
          disk,       \* the working files
          update,     \* the lines of .Update
          pending,    \* the lines upgrade has not done yet
          runs, edits

texts == <<manifest, server, temp>>
vars == <<texts, disk, update, pending, runs, edits>>

(* Store has the same rules for a project without folders.                 *)
Flat == INSTANCE Store WITH File <- Path

ASSUME TreeAssumption ==
  /\ Project \in Name /\ \A p \in Path : p[1] # Project
  /\ Path \subseteq Seq(Name) \ {<<>>} /\ \A p \in Path : Len(p) < MaxDepth
  /\ Contents \subseteq Seq(Byte) /\ Hash = Contents \cup {<<>>} /\ Stored \subseteq Contents
  /\ \A old, new \in Hash : Flat!Overwrite(old, new) \in Hash
  /\ {Null, Bad, None} \cap AnyText = {}
  /\ None \notin [path : Seq(Name), hash : Hash \cup {None}]
  /\ MaxRuns \in Nat /\ MaxEdits \in Nat

(* No text is longer than one block: GetMD5FileInfo garbles what is read   *)
(* of a longer .Manifest, and an update that faults has written the first  *)
(* blocks of its lines.                                                    *)
ASSUME BlockAssumption == IsFiniteSet(Path) /\ Cardinality(Path) <= Room

FileNode(name, hash, version) ==
  [type |-> 1, version |-> version, hash |-> hash, name |-> name, kids |-> <<>>]
AnyPath == Seq(Name) \ {<<>>}

FolderNode(name, kids, version) ==
  [type |-> 2, version |-> version, hash |-> None, name |-> name, kids |-> kids]

Parses == manifest \notin {Null, Bad}
Root == ConstructStructure(manifest)

(* No path is a file and a folder at once.                                 *)
Possible(files) ==
  \A p, q \in Path : files[p] # None /\ files[q] # None => ~IsStrictPrefix(p, q)

(* create has been run, and the user has written some files.               *)
Init ==
  /\ manifest = SerializeStructure(FolderNode(Project, <<>>, 0)) /\ server = manifest
  /\ temp = None
  /\ disk \in {files \in [Path -> Contents \cup {None}] : Possible(files)}
  /\ update = {} /\ pending = {}
  /\ runs = 0 /\ edits = 0

-----------------------------------------------------------------------------
(* add: the folders of the path are looked up or created, each new node at *)
(* the head of its layer.                                                  *)

(* Mutant: a new folder is not linked to its siblings.                     *)
AddToAlone(layer, path, hash, version) ==
  LET add[p \in AnyPath] == [l \in AnyLayer |->
        LET i == SearchStructNodeLayer(l, Head(p))
        IN IF Len(p) = 1 THEN <<FileNode(p[1], hash, version)>> \o l
           ELSE IF i = 0
           THEN <<FolderNode(p[1], add[Tail(p)][<<>>], version)>>
           ELSE [l EXCEPT ![i].kids = add[Tail(p)][@]]]
  IN add[path][layer]

AddTo(layer, path, hash, version) ==
  LET add[p \in AnyPath] == [l \in AnyLayer |->
        LET i == SearchStructNodeLayer(l, Head(p))
        IN IF Len(p) = 1 THEN <<FileNode(p[1], hash, version)>> \o l
           ELSE IF i = 0
           THEN <<FolderNode(p[1], add[Tail(p)][<<>>], version)>> \o l
           ELSE [l EXCEPT ![i].kids = add[Tail(p)][@]]]
  IN add[path][layer]

IsAdded(layer, path) ==
  LET found[p \in AnyPath] == [l \in AnyLayer |->
        LET i == SearchStructNodeLayer(l, Head(p))
        IN i # 0 /\ (Len(p) = 1 \/ found[Tail(p)][l[i].kids])]
  IN found[path][layer]

(* open succeeds on a folder as well, and reading it fails.                *)
Exists(p) == \E q \in Path : IsPrefix(p, q) /\ disk[q] # None

(* The file is opened without O_TRUNC: bytes of a longer old text stay     *)
(* behind the new one, here as lines, which no one reads.                  *)
OverText(old, text) ==
  IF old \in {Null, Bad, None} THEN text
  ELSE [text EXCEPT !.lines = @ \o SubSeq(old.lines, Len(@) + 1, Len(old.lines))]

Add(p) ==
  /\ Parses /\ Exists(p)
  /\ ~IsAdded(Root.kids, p)
  /\ manifest' = OverText(manifest, SerializeStructure(
       [Root EXCEPT !.kids = AddTo(@, p, Flat!Md5(disk[p]), Root.version + 1)]))
  /\ UNCHANGED <<server, temp, disk, update, pending>>

-----------------------------------------------------------------------------
(* remove                                                                  *)

(* The layer that remove_node_from_root finds for a path, if it gets that  *)
(* far.                                                                    *)
LayersAt(layer, path) ==
  LET at[p \in AnyPath] == [l \in AnyLayer |->
        IF Len(p) = 1 THEN {l}
        ELSE UNION {at[Tail(p)][l[i].kids] : i \in HashMapFind(l, Head(p))}]
  IN at[path][layer]

MapPlace(layer, name) == CHOOSE i \in HashMapFind(layer, name) : TRUE

Without(layer, path) ==
  LET without[p \in AnyPath] == [l \in AnyLayer |->
        IF Len(p) = 1 THEN RemoveAt(l, SearchStructNodeLayer(l, p[1]))
        ELSE [l EXCEPT ![MapPlace(l, Head(p))].kids = without[Tail(p)][@]]]
  IN without[path][layer]

RemoveFinds(p) ==
  \E layer \in LayersAt(Root.kids, p) : SearchStructNodeLayer(layer, Last(p)) # 0

(* An empty layer has no first node to look at.                            *)
RemoveFaults(p) == <<>> \in LayersAt(Root.kids, p)

RemovedText(p) == SerializeStructure([Root EXCEPT !.kids = Without(@, p)])

RemoveNode(p) ==
  /\ Parses /\ RemoveFinds(p)
  /\ manifest' = RemovedText(p)
  /\ UNCHANGED <<server, temp, disk, update, pending>>

-----------------------------------------------------------------------------
(* update: the comparison of the two trees                                 *)

(* Mutant: the case of a file falls through to that of a folder.           *)
ReachedThrough(node, at) ==
  LET reached[n \in AnyNode] == [parent \in Seq(Name) |->
        LET path == Append(parent, n.name)
        IN {[path |-> path, hash |-> n.hash] : file \in {1} \cap {n.type}}
             \cup UNION {reached[n.kids[i]][path] : i \in DOMAIN n.kids}]
  IN reached[node][at]

(* The files that are reached from a node: what is below a file is not.    *)
Reached(node, at) ==
  LET reached[n \in AnyNode] == [parent \in Seq(Name) |->
        LET path == Append(parent, n.name)
        IN IF n.type = 1 THEN {[path |-> path, hash |-> n.hash]}
           ELSE UNION {reached[n.kids[i]][path] : i \in DOMAIN n.kids}]
  IN reached[node][at]

(* Mutant: what is below a folder is compared with the layer above.        *)
MetAbove(layer, others, at) ==
  LET met[l \in AnyLayer] == [o \in AnyLayer |-> [parent \in Seq(Name) |->
        UNION {LET node == l[i]
                   same == {j \in HashMapFind(o, node.name) : o[j].type = node.type}
               IN IF same = {}
                  THEN {[path |-> r.path, mine |-> r.hash, theirs |-> None]
                        : r \in Reached(node, parent)}
                  ELSE UNION {IF node.type = 1
                              THEN {[path |-> Append(parent, node.name), mine |-> node.hash,
                                     theirs |-> o[j].hash]}
                              ELSE met[node.kids][o][Append(parent, node.name)]
                              : j \in same}
               : i \in DOMAIN l}]]
  IN met[layer][others][at]

(* compare_client_server_diff: every file of the client with the hash the  *)
(* server lists in its place, None if it does not.                         *)
Met(layer, others, at) ==
  LET met[l \in AnyLayer] == [o \in AnyLayer |-> [parent \in Seq(Name) |->
        UNION {LET node == l[i]
                   same == {j \in HashMapFind(o, node.name) : o[j].type = node.type}
               IN IF same = {}
                  THEN {[path |-> r.path, mine |-> r.hash, theirs |-> None]
                        : r \in Reached(node, parent)}
                  ELSE UNION {IF node.type = 1
                              THEN {[path |-> Append(parent, node.name), mine |-> node.hash,
                                     theirs |-> o[j].hash]}
                              ELSE met[node.kids][o[j].kids][Append(parent, node.name)]
                              : j \in same}
               : i \in DOMAIN l}]]
  IN met[layer][others][at]

Edited(met) == Flat!Md5(disk[met.path]) # met.mine

(* The user is asked about a file that both sides have changed.            *)
Asked(met, same) ==
  met.theirs # None /\ ~same /\ met.mine # met.theirs /\ Edited(met)

LinesFor(met, same, answer) ==
  LET upload == [mode |-> "U", path |-> met.path, new |-> Flat!Md5(disk[met.path])]
      take == [mode |-> "M", path |-> met.path, new |-> met.theirs]
  IN IF met.theirs = None
     THEN {IF same THEN [upload EXCEPT !.new = met.mine]
           ELSE [mode |-> "D", path |-> met.path, new |-> None]}
     ELSE IF same \/ met.mine = met.theirs THEN {l \in {upload} : Edited(met)}
     ELSE IF ~Edited(met) THEN {take}
     ELSE {l \in {take, upload} : answer = IF l = take THEN "server" ELSE "client"}

(* compare_server_client_diff: a node of the server that the client has    *)
(* none for is a NULL dereference ...                                      *)
CompareFaults(layer, others) ==
  LET faults[l \in AnyLayer] == [o \in AnyLayer |->
        \E j \in DOMAIN o :
          LET found == HashMapFind(l, o[j].name)
          IN \/ found = {}
             \/ \E i \in found : l[i].type = 2 /\ o[j].type = 2 /\ faults[l[i].kids][o[j].kids]]
  IN faults[layer][others]

(* ... and one of another type is to be added, under a path that leaves    *)
(* the folders above out.                                                  *)
Added(layer, others) ==
  LET added[l \in AnyLayer] == [o \in AnyLayer |->
        UNION {UNION {IF l[i].type # o[j].type
                      THEN {[mode |-> "A", path |-> r.path, new |-> None]
                            : r \in Reached(o[j], <<>>)}
                      ELSE IF l[i].type = 2 THEN added[l[i].kids][o[j].kids] ELSE {}
                      : i \in HashMapFind(l, o[j].name)}
               : j \in DOMAIN o}]
  IN added[layer][others]

(* A fault leaves .Update empty: its lines, no more than a block, are      *)
(* still in the stdio buffer.                                              *)
Update ==
  LET mine == Root
      theirs == ConstructStructure(server)
      same == mine.version = theirs.version
      met == Met(mine.kids, theirs.kids, <<>>)
      added == IF same THEN {} ELSE Added(mine.kids, theirs.kids)
  IN /\ Parses
     /\ UNCHANGED <<texts, disk, pending>>
     /\ \E answer \in [{m \in met : Asked(m, same)} -> Flat!Answers] :
          update' = IF CompareFaults(mine.kids, theirs.kids) THEN {}
                    ELSE (UNION {LinesFor(m, same, IF Asked(m, same) THEN answer[m] ELSE "other")
                                 : m \in met}) \cup added

-----------------------------------------------------------------------------
(* upgrade: the lines of .Update one by one                                *)
Upgrade ==
  /\ pending' = update
  /\ UNCHANGED <<texts, disk, update>>

SetDisk(p, content) == disk' = [disk EXCEPT ![p] = content]

(* .Manifest is truncated before the node is looked for: a path that is    *)
(* not listed makes it a NULL tree, a fault leaves it empty.               *)
UpgradeDelete(l) ==
  /\ l.mode = "D"
  /\ SetDisk(l.path, None)
  /\ IF ~Parses \/ RemoveFaults(l.path)
     THEN manifest' = Bad /\ pending' = {}
     ELSE /\ manifest' = IF RemoveFinds(l.path) THEN RemovedText(l.path) ELSE Null
          /\ pending' = pending \ {l}

(* Something is written into the file; Client says what.                   *)
Appended(l) ==
  IF l.path \in Path /\ disk[l.path] # None
  THEN \E content \in Contents \cup {disk[l.path]} : SetDisk(l.path, content)
  ELSE UNCHANGED disk

(* The folders of an A line are looked up from the project's own name on,  *)
(* which no node of the first layer has (TreeAssumption): a NULL           *)
(* dereference.                                                            *)
UpgradeStep ==
  \E l \in pending :
    /\ \/ UpgradeDelete(l)
       \/ l.mode = "M" /\ Appended(l) /\ pending' = pending \ {l} /\ UNCHANGED manifest
       \/ l.mode = "A" /\ Appended(l) /\ pending' = {} /\ UNCHANGED manifest
       \/ l.mode = "U" /\ pending' = pending \ {l} /\ UNCHANGED <<disk, manifest>>
    /\ UNCHANGED <<server, temp, update>>

-----------------------------------------------------------------------------
(* push: the server takes the .Manifest, with what is behind its lines, in *)
(* place of its own when the versions are the same.  The client's version  *)
(* goes up in any case.                                                    *)
SameVersion == Parses /\ Root.version = ConstructStructure(server).version

RaiseVersion == manifest' = SerializeStructure([Root EXCEPT !.version = @ + 1])

Push ==
  /\ Parses /\ RaiseVersion
  /\ IF SameVersion THEN server' = OverText(temp, manifest) /\ temp' = None
                    ELSE UNCHANGED <<server, temp>>
  /\ UNCHANGED <<disk, update, pending>>

(* push, given up at a file that has changed since the commit, or cut off: *)
(* the text stays in ~Manifest, over the one that was there, or has not    *)
(* come that far.                                                          *)
PushGivenUp ==
  /\ SameVersion /\ RaiseVersion
  /\ temp' \in {temp, OverText(temp, manifest)}
  /\ UNCHANGED <<server, disk, update, pending>>

(* Mutant: every child of a folder is fetched.                             *)
FetchedAll(node, at) == Reached(node, at)

(* The files checkout fetches for a node: of a folder, those of the first  *)
(* child (once per child).                                                 *)
Fetched(node, at) ==
  LET fetched[n \in AnyNode] == [parent \in Seq(Name) |->
        LET path == Append(parent, n.name)
        IN IF n.type = 1 THEN {[path |-> path, hash |-> n.hash]}
           ELSE IF n.kids = <<>> THEN {} ELSE fetched[Head(n.kids)][path]]
  IN fetched[node][at]

HashIn(entries, p) ==
  IF \E f \in entries : f.path = p THEN (CHOOSE f \in entries : f.path = p).hash ELSE None

(* A folder or a file stands where the file, or a folder of its path, has  *)
(* to be.                                                                  *)
Blocked(p) == \E q \in Path : disk[q] # None /\ (IsStrictPrefix(p, q) \/ IsStrictPrefix(q, p))

(* checkout, also into a folder that has files.  A listed file is created  *)
(* when missing, but not behind what stands in its way (an empty folder    *)
(* too), nor when the byte behind its path, which is not initialised, is a *)
(* "/" (CreateEmptyFolderStructFromPath).  A content is written over the   *)
(* old one; the server sends none for a hash it has no file for.           *)
Checkout ==
  LET layer == ConstructStructure(server).kids
      listed == UNION {Reached(layer[i], <<>>) : i \in DOMAIN layer}
      fetched == {f \in UNION {Fetched(layer[i], <<>>) : i \in DOMAIN layer} : f.hash \in Stored}
      missing == {p \in Path : HashIn(listed, p) # None /\ disk[p] = None /\ ~Blocked(p)}
  IN /\ UNCHANGED <<server, temp, update, pending>>
     /\ manifest' = OverText(manifest, server)
     /\ \E created \in SUBSET missing :
          disk' = [p \in Path |->
            IF disk[p] = None /\ p \notin created THEN None
            ELSE IF HashIn(fetched, p) = None THEN Flat!Md5(disk[p])
            ELSE Flat!Overwrite(Flat!Md5(disk[p]), HashIn(fetched, p))]

-----------------------------------------------------------------------------
Command ==
  /\ pending = {}
  /\ runs < MaxRuns /\ runs' = runs + 1
  /\ \/ /\ (\E p \in Path : Add(p) \/ RemoveNode(p)) \/ Update \/ Upgrade \/ Push \/ Checkout
        /\ UNCHANGED edits
     \/ /\ PushGivenUp
        /\ edits < MaxEdits /\ edits' = edits + 1

(* The user deletes a file, or writes one in the place of what stands in   *)
(* its way.                                                                *)
Edit ==
  /\ edits < MaxEdits /\ edits' = edits + 1
  /\ \E p \in Path, content \in Contents \cup {None} :
       disk' = [q \in Path |-> IF q = p THEN content
                               ELSE IF IsPrefix(p, q) \/ IsPrefix(q, p) THEN None ELSE disk[q]]
  /\ UNCHANGED <<texts, update, pending, runs>>

Kill ==
  /\ pending # {} /\ pending' = {}
  /\ UNCHANGED <<texts, disk, update, runs, edits>>

Next == Command \/ (UpgradeStep /\ UNCHANGED <<runs, edits>>) \/ Edit \/ Kill

Spec == Init /\ [][Next]_vars

-----------------------------------------------------------------------------
(* The table a text stands for: every file, wherever it hangs.             *)
Entries(layer) ==
  LET entries[l \in AnyLayer] ==
        UNION {(IF l[i].type = 1 THEN {[path |-> <<l[i].name>>, hash |-> l[i].hash]} ELSE {})
                 \cup {[path |-> <<l[i].name>> \o f.path, hash |-> f.hash] : f \in entries[l[i].kids]}
               : i \in DOMAIN l}
  IN entries[layer]

IndexOf(text) == UNION {Entries(tree.kids) : tree \in {ConstructStructure(text)}}

Layers(layer) ==
  LET layers[l \in AnyLayer] == {l} \cup UNION {layers[l[i].kids] : i \in DOMAIN l}
  IN layers[layer]

Texts == {manifest, server, temp} \ {Null, Bad, None}

TypeOK ==
  /\ manifest \in AnyText \cup {Null, Bad} /\ server \in AnyText
  /\ temp \in AnyText \cup {None}
  /\ disk \in [Path -> Contents \cup {None, <<>>}] /\ Possible(disk)
  /\ \A l \in update \cup pending : l.mode \in {"A", "D", "M", "U"} /\ l.path \in Seq(Name)
  /\ runs \in 0..MaxRuns /\ edits \in 0..MaxEdits

(* Reading a .Manifest and writing it again gives the lines it counts,     *)
(* whatever commands it went through and whatever the ones that write over *)
(* an old text (add, checkout, a push after one given up) have left behind *)
(* them (SerializeStructure, ConstructStructureFromFile).                  *)
RoundTrip ==
  \A text \in Texts :
    SerializeStructure(ConstructStructure(text)) = [text EXCEPT !.lines = SubSeq(@, 1, text.count)]

(* The hash map of a layer finds what a search of the layer finds, in      *)
(* every layer commands produce: no layer has a name twice, and the keys   *)
(* of a bucket are told apart (HashMapFind, SearchStructNodeLayer).        *)
LookupsAgree ==
  \A text \in Texts : \A layer \in Layers(ConstructStructure(text).kids), name \in Name :
    HashMapFind(layer, name) = {SearchStructNodeLayer(layer, name)} \ {0}

(* Commands work on .Manifest as on a table of paths: add inserts one,     *)
(* remove and upgrade delete one with all below it, and nothing else is    *)
(* lost or moved, unless upgrade spoils the whole text (process_add,       *)
(* remove_node_from_root, process_push, process_checkout).                 *)
Index == INSTANCE FileIndex
  WITH Lost <- {None},
       index <- IF Parses THEN IndexOf(manifest) ELSE {None}, pushed <- IndexOf(server)

AsIndex == Index!Spec

(* The .Manifest as Store has it.                                          *)
Flattened(text) ==
  LET entries == IndexOf(text)
  IN [version |-> ConstructStructure(text).version,
      hash |-> [p \in Path |-> HashIn(entries, p)]]

(* All nodes, with their types.                                            *)
Nodes(layer, at) ==
  LET nodes[l \in AnyLayer] == [parent \in Seq(Name) |->
        UNION {LET path == Append(parent, l[i].name)
               IN {[path |-> path, type |-> l[i].type]} \cup nodes[l[i].kids][path]
               : i \in DOMAIN l}]
  IN nodes[layer][at]

Covered ==
  Nodes(ConstructStructure(server).kids, <<>>) \subseteq Nodes(Root.kids, <<>>)

(* No file has anything below it.                                          *)
Ordinary(text) ==
  LET entries == IndexOf(text) IN \A f, g \in entries : ~IsStrictPrefix(f.path, g.path)

(* The comparison of two trees gives the lines Store's comparison of two   *)
(* flat folders gives, when every file and folder of the server is one of  *)
(* the client's as well (compare_client_server_diff).                      *)
LinesAsStore(lines) ==
  [p \in Path |-> IF \E l \in lines : l.path = p
                  THEN LET l == CHOOSE l \in lines : l.path = p
                       IN [mode |-> l.mode, new |-> l.new]
                  ELSE None]

UpdateAsFlat ==
  [][Update /\ Ordinary(manifest) /\ Covered =>
       \E mine \in {Flattened(manifest)}, theirs \in {Flattened(server)} :
         \E answer \in [Flat!Conflict(mine, theirs, disk) -> Flat!Answers] :
           LinesAsStore(update') = Flat!UpdateLines(mine, theirs, disk, answer)]_vars

(* A checkout fetches a file exactly when each step of its path below the  *)
(* first is the first child there and the server has it, over the content  *)
(* of a file that was there; the others keep theirs or are created empty   *)
(* (receive_file_from_node, write_stream_into_file).                       *)
IsFirst(text, p) ==
  \A n \in 2..Len(p) : \E layer \in LayersAt(ConstructStructure(text).kids, SubSeq(p, 1, n)) :
    Head(layer).name = p[n]

CheckoutFetches ==
  [][Checkout /\ Ordinary(server) =>
       \A f \in IndexOf(server) : disk'[f.path] # None =>
         LET old == Flat!Md5(disk[f.path])
         IN disk'[f.path] = IF IsFirst(server, f.path) /\ f.hash \in Stored
                            THEN Flat!Overwrite(old, f.hash) ELSE old]_vars
=============================================================================
