# WTF: a verification project

WTF ("Where's The File", the repository's name is tiny_git) is a small version
control system in C: a client program that runs one command per invocation, and
a threaded server that keeps a project and its history. This directory holds
TLA+ modules of the client's commands, the server's request handlers, the
protocol between them, the server's threads, the folder tree of a `.Manifest` and
the transport of files byte by byte; TLC runs over small instances; and TLAPS
proofs of the safety properties those runs check, for every value of the constants.

Contents: the system (1), the modules and the code (2), what is left out (3),
the runs (4), bounds (5), fairness (6), the proofs (7), disagreements between
the code and its documentation (8), the plan (9), how to run it (10).

## 1. The system

### 1.1 Parts, state, operations

| part | code | state | operations |
|---|---|---|---|
| client commands | `WTFclient.c`, `client/*.c`, the request functions of `utility.c` | the project folder: working files, `.Manifest`, `.Update`, `.Commit` | create, add, remove, update, commit, upgrade, push, checkout, currentversion, history, rollback, destroy, configure, test, testfile |
| server handlers | `WTFserver.c` (`handle_customer` and below), the `Handle*` functions of `utility.c` | the server's copy: `.Manifest`, `~Manifest`, `.History`, one file per content, named by its MD5; in memory `currentPushHead`; per connection `isPushing` | cret, recv, push, send, cplt, crvs, hist, roll, dest, fail, test, tesf |
| threads | `WTFserver.c` (`main`, `handle_customer`, `on_sig_intp`) | `globalStop`, the self-pipe, `head_node`'s list, `client_mutex` | accept, lock, serve, unlock, join, stop on SIGINT |
| message protocol | `SendMessage`, `ReceiveMessage`, `send_all`, `read_all` in `utility.c` | two byte streams per connection | a 4-byte command, lengths, payloads; status and file replies |
| `.Manifest` and the folder tree | `fdstruct.c`, `utility.c` | a tree of folders and files, serialised one line per node | add, remove, compare, print, parse |
| hash map | `utility.c` | a table of children per folder | insert, find |
| MD5 and the file reader | `md5.c`, `GetMD5FileInfo` | - | hash a file, a buffer, a name |
| earlier versions, scratch | `oldWTFclient.c`, `oldWTFserver.c`, `test.c` | - | the first two are not built, `test.c` is a small program of its own |

### 1.2 How the parts interact

A command opens one TCP connection, sends requests, reads replies and exits. The
server accepts every connection in a thread of its own, but the thread takes
`client_mutex` before it reads the first request and gives it back after the
last one: connections are served one at a time, in an order the mutex decides.
What a push does is spread over several requests of one connection: `push` with
the whole `.Manifest` (written to `~Manifest`), one `send` per committed file,
then `cplt`, which renames `~Manifest` over `.Manifest` and appends it to
`.History`, or `fail`, or the end of the stream. A checkout is a `recv` of
`.Manifest` followed by one `recv` per listed file. The client's own files decide
what a push contains: `update` compares `.Manifest`, the server's `.Manifest` and
the working files and writes `.Update`; `commit` copies the lines marked U into
`.Commit`; `push` sends what `.Commit` lists; `upgrade` carries out D and M lines.

### 1.3 What is hard about it

- **Replies and reads do not pair up.** `PushVersion` never reads the reply to
  its `push`, so every later read in the command takes the reply *before* its
  own. `SendFile` reads one reply too many when the hash does not match. Since
  the mutex is held for the whole connection, one pairing too few would stop the
  server for everyone.
- **Unread payload.** A refused `push` or `send` leaves its payload in the
  stream, and `ReceiveMessage` takes it for the next header.
- **Old bytes.** add, checkout and upgrade write into files without truncating
  them: a shorter text leaves the tail of a longer one behind.
- **Stale state.** `currentPushHead` is global and never emptied; `update`
  compares with a `.Manifest` while its user is thinking; `checkout` fetches
  files by a list read earlier; a push is checked by a version number the push
  itself does not raise on the server.
- **Partial failure and crashes.** A client may be killed in the middle of a
  request; the server may stop inside a handler, between an answer and the write
  it acknowledges, or with half of a project removed; a client interrupted by
  SIGINT goes on with a socket that is shut down; results of failed reads are used.
- **Bytes.** A send or recv moves as many bytes as the kernel likes; the client's
  socket does not block and the server's does; `errno` outlives the call that set
  it; a file is read block by block into one buffer and taken for a string.
- **Trees.** add, remove, the two comparisons of update, upgrade and checkout walk
  folders in six different ways over a text with indices, and one of them goes to
  the first child only.
- **Shutdown.** SIGINT may hit any thread at any moment, in particular between a
  test of `globalStop` and the blocking call after it.
- **Uninitialised memory.** rollback, destroy and `recv` work on names whose bytes
  or terminator were never written.

`PROJECT.json` lists every such hazard with its line and the property that covers
it.

### 1.4 What makes each part correct

- *Protocol*: client and server never wait for each other (`NoMutualWait`), every
  command ends (`CommandsEnd`), every accepted connection is closed
  (`ConnectionsClose`), a `cplt` is only served after a whole push
  (`CompleteWhole`).
- *Server's copy*: the published `.Manifest` is never a torn one
  (`PublishedWhole`), `.History` names stored contents only (`HistoryStored`), a
  destroyed project leaves nothing behind unless the destroy was cut short
  (`NoRemains`), committed contents are stored when they are published
  (`CommittedStored`), and the one that says what the version check is worth
  (`ServerVersionFrozen`).
- *Server's copy, as a whole*: it implements `Repository` (`AsRepository`).
- *Client's view*: what an update or checkout has received is what the server has
  for as long as the command runs (`ServerSnapshot`); only a stale line of
  `.Update` spoils its `.Manifest` (`OnlyStaleLinesSpoil`).
- *Folder tree*: its text can be read back, with old lines behind it or without (`RoundTrip`), its hash maps find what it
  lists (`LookupsAgree`), commands treat it as a table of paths (`AsIndex`), update
  follows the flat rules where they apply (`UpdateAsFlat`), and a checkout fetches
  what it reaches over what is there (`CheckoutFetches`).
- *Transport*: a queue of bytes (`AsQueue`) whose readers come back (`ReadsEnd`);
  small files arrive as they are (`SmallArrive`).
- *Threads*: one session after the other (`OneAtATime`), an orderly end on SIGINT
  (`ServerStops`, `StopsServing`, `NothingCutOff`), no client left waiting
  (`WaitEnds`).

## 2. The modules

| module | what it is | extends |
|---|---|---|
| `Store` | file contents, `.Manifest`, `.Update`, `.Commit`; update's comparison and commit's copy as pure operators | |
| `Wire` | connections: per connection the unread requests and the unread replies; connecting, closing, resetting, cutting off | `Store` |
| `Server` | one action per request handler, the session under `client_mutex`, crash and restart | `Wire` |
| `Client` | one action per step of a command between two blocking reads, the user's edits, SIGINT, kills | `Wire` |
| `WTF` | the composition, its properties, and the inductive invariant `IInv` | `Client`, `Server` |
| `Repository` | abstract specification: the server's copy as clients may rely on it; `WTF` implements it | |
| `WTF_proof` | types, versions and the mutex of `WTF`, proved | `WTF` |
| `Session_proof` | what a session guarantees, proved | `WTF_proof` |
| `Repository_proof` | `WTF` implements `Repository`; `.Manifest` and `.History`, proved | `Session_proof` |
| `Steady_proof` | what a client may rely on while it runs a command, proved | `Repository_proof` |
| `ByteQueue` | abstract specification: one direction of a connection | |
| `Transport` | `send_all` and `read_all`, one action per test, send and recv; implements `ByteQueue` | |
| `FileBuffer` | `GetMD5FileInfo`, one action per block | |
| `Transfer` | file transfers in both directions over `Transport` | `FileBuffer`, `Transport` |
| `Transfer_proof` | the buffer, the queue and small files, proved | `Transfer` |
| `Layer` | nodes and layers of a tree: the search along a layer's links, and its hash map | |
| `FdStruct` | the text of a tree, written and read | `Layer` |
| `FdStruct_proof` | a text gives back its tree, and the two ways to find a node agree, proved | `FdStruct` |
| `FileIndex` | abstract specification: `.Manifest` as a table of paths | |
| `Tree` | one client's commands over a project with folders; implements `FileIndex`, and uses `Store` for the flat rules | `FdStruct` |
| `Tree_proof` | every property of `Tree`, proved | `Tree`, `FdStruct_proof` |
| `Sessions` | abstract specification: what the threads promise together | |
| `ServerThreads` | `main`'s loop, the self-pipe, the joins, `handle_customer`'s mutex and reads, SIGINT; implements `Sessions` | |
| `ServerThreads_proof` | the theorems about `ServerThreads` | `ServerThreads` |
| `MC_WTF`, `MC_Threads`, `MC_Transfer`, `MC_Tree` | small instances | |

### 2.1 State and code

| variable | in the code |
|---|---|
| `disk[c]`, `mani[c]`, `upd[c]`, `com[c]` | the folder of client `c`: working files, `.Manifest`, `.Update`, `.Commit` |
| `pc[c]`, `sock[c]`, `todo[c]`, `cur[c]`, `at[c]`, `got[c]` | the running command: where it is, its socket (`None` when it has shut it down), the lines of `.Update`/`.Commit`/`.Manifest` it has not processed, the file it fetches, the offset of the descriptor upgrade has open on it, the server's `.Manifest` it compares with |
| `clientEnd`, `serverEnd`, `toServer[k]`, `toClient[k]` | the ends of connection `k` that are open and what was sent over it and not read |
| `client_mutex`, `isPushing` | the mutex (by the connection whose thread holds it), the local of that thread |
| `srvMani`, `srvTmp`, `srvBlob`, `srvHist`, `currentPushHead` | `.Manifest`, `~Manifest`, the files named by hash, `.History`, the global list |
| `runs[c]`, `edits`, `faults` | nothing in the code: how much of a run's bounds is used up |
| `cutShort` | nothing in the code: whether the server has been stopped in the middle of a destroy |
| `globalStop`, `selfpipe`, `backlog`, `list`, `thread[k]` | the flag, the pipe, the kernel's accept queue, the list from `head_node`, the program counter of a thread |
| `client[k]`, `inbox[k]`, `asked[k]`, `signals`, `late` | in `ServerThreads`: the client of a connection seen from the server, what it sent that is unread, and counters |
| `mode`, `wire`, `stop` | in `Transport`: which side sends and what its platform does, the kernel's buffers, `globalStop` on either side |
| `sender`, `base`, `data`, `goal` | where `send_all` is, its buffer, position and end |
| `reader`, `stored`, `want`, `errno` | where `read_all` is, what its calls have delivered, its end, and whether `errno` is EAGAIN |
| `file`, `offset`, `text`, `file_size` | in `FileBuffer`: the locals of `GetMD5FileInfo` and the descriptor's position |
| `sends`, `receives`, `announced`, `copy`, `fds` | in `Transfer`: the functions around the loops, the length sent, what was stored, the descriptors left open |
| `manifest`, `server`, `temp`, `disk`, `update`, `pending` | in `Tree`: the texts of the client's `.Manifest` and of the server's `.Manifest` and `~Manifest`, working files, `.Update`, and the lines a running upgrade has left |

A handler of the server is one action: the thread holds `client_mutex`, so the
only other actors that can see its state are clients at the other end of the
stream, and they see the reply. Where a handler can be interrupted by the end of
the process and the order of its writes matters, the crash has an action of its
own: `CrashInCreate` (`.Manifest` exists and is empty, or is whole and was not
answered), `CrashInSend` (the answer is out, the content is not written),
`CrashInComplete` (renamed, perhaps answered, not recorded), `CrashInDestroy`
(answered, and any part of what `remove_dir` removes one by one is gone). `AcceptPush` is enabled when the handler has read its
payload or the rest of it will not come (`Torn`).

A command is cut into actions at its blocking reads: what happens between two
reads touches only the client's folder and the stream, and nobody else reads the
folder. Edits by the user happen between those actions, at any moment and to any
file, also to the one upgrade has open: `at[c]` keeps where it will write, a file
that has become shorter is filled up with zeros, and an editor that replaces the
file leaves upgrade with one nobody sees (`Edit`, `WriteAt`). SIGINT does not end a
command: `on_sig_intp` shuts the socket down, and the command goes on with reads
that fail (`Interrupt`; push then still raises its version). A kill ends it (`Kill`).

### 2.2 The project the model works on

One project, a flat folder, with no more files than a `.Manifest` of one block
(4096 bytes) can list (`BlockAssumption`, `Room`): `GetMD5FileInfo` reads every
block to the start of its buffer, so a longer `.Manifest` goes over the wire as its
last block over the ones before it, from either side. `Transfer` has that in general
(run `large_files`); in the protocol model it is excluded. A content is its own hash (MD5 is taken to be
collision free), so `srvBlob` is a set of contents. The values `None`, `Null` and
`Bad` are a file that is not there, a `.Manifest` holding a count of 0 (which
parses to a NULL root), and one that does not parse. What the program does on the
last two is modelled: `UpdateFault`, `ParseFault`, `UpgradeDelete`. An entry of
`.History` is the pair of the `.Manifest` copied and the hashes listed before it.

### 2.3 Folders and bytes

`Tree` has what `Store` leaves out, for one client and without the protocol: the
texts of `.Manifest` are sequences of lines with indices, every command parses a
text and writes one, and the comparison of update is the code's two recursions.
Texts are opened without O_TRUNC by add, by checkout and for `~Manifest`: the lines
of a longer old text stay behind the new one (`OverText`), go along with a push, and
are never read. A push may be given up (`PushGivenUp`) and leave its `~Manifest`
(`temp`). Checkout
works over whatever the folder holds, file by file; the contents the server really
has (`Stored`) are a constant, since which ones it has is what `WTF` is about.
`Fetched`, `Met`, `CompareFaults` and `Added` keep the code's shape because its
oddities are in the shape: first children only, folders left out of a path, a
dereference of what was not found. Each recursion of the code is a recursive
function in a `LET`, over `AnyLayer` (a layer of any number of nodes, at most
`MaxDepth` layers one below the other) or `AnyPath`. The program has no such depth;
`MaxDepth` is any number that the users' paths stay below, which is all the trees
ever need, so it bounds nothing. The root is a node with the project's name
(`Project`), as `process_create` writes it.

`Transport` numbers the bytes as they are passed to `send_all`, so that a byte
lost, doubled or sent from before the buffer is seen by its number; `Transfer`
gives the numbers a meaning (length or content). Three facts about a connection
are a `mode` chosen at the start: who sends, whether the kernel's buffers may fill,
and whether `sleep(0)` leaves `errno` at EAGAIN. POSIX allows both; glibc leaves
it. `FaithfulMode` names the connections in which the two loops do what they
are meant to.

### 2.4 Undefined behaviour

Reads of memory nobody wrote are nondeterministic over what they can produce:
`Heap` in `HandleReceiveManifest` (9 bytes of `.Manifest` without a terminator),
`HandleRollback` and `HandleDestroy` (a name never copied) and in `CheckedOut` (the
byte behind a path, `utility.c:623`: if it is a slash, the file is not created, which
in `Tree` is the choice of `created`); in `Client`, a
variable that a failed `read_all` left unset holds any value of its kind
(`StatusRead`, `ManifestRead`, `ContentRead`), and the program may also die on it
(`BrokenPipe`). NULL dereferences end the program after the writes that precede
them.

## 3. What is left out

- **Bytes in the protocol model.** In `Wire` requests and replies are whole, and
  reads deliver what was sent: what `Transport` shows of faithful connections. On a
  platform whose `sleep(0)` keeps `errno` the client hangs at its first EAGAIN
  (run `read_hangs`), and `WTF` says nothing of it. Payload bytes taken for a
  header are assumed never to spell a command of the protocol, which ends the
  session. The layout of headers other than lengths is not modelled.
- **Folders in the protocol model.** `WTF` has one flat folder; `Tree` has folders
  and one client. Their rules agree where `UpdateAsFlat` says so.
- **The connections of add, remove, destroy, configure.** `main` connects before
  it looks at the command, and these send nothing. Only `PushFault`, which sends
  one request and dies, keeps its connection. add and remove are therefore one
  step each and `destroy` (see 8) is a step that changes nothing.
- **Two commands at once in one folder.** A client's commands run one at a time.
- **Restart.** The server's process ends and starts again in one step.
- **Texts of more than one block** (`BlockAssumption` of `Wire` and of `Tree`): a
  longer `.Manifest` is garbled when it is sent, in pushes as in updates and
  checkouts, and an update that faults has already written whole blocks of its
  lines, where the model leaves `.Update` empty.
- **Empty blobs.** A content whose file was created and not written is answered
  exactly as one that is missing, and `srvBlob` does not tell them apart.
- **`~Manifest` opened without O_TRUNC**: a tail of an older, longer text may stay
  behind. The parser reads as many lines as the first line says, so the value is
  that of the new text in `WTF`, where texts are values; `Tree` keeps the tail
  (`OverText`), and its proofs show that no command reads it.
- **A first-layer node with the project's name** (`TreeAssumption`): an A line of
  upgrade would find it and not fault.
- **Names.** A name is one word of printable ASCII: the text format needs the
  first, and a byte above 127 would make `GetHash` negative and the index of the
  bucket with it. Freed memory, and lengths of paths, are left out.
- **MD5** (`md5.c`) is taken to be collision free. What is hashed is in `FileBuffer`.
- **configure, test, testfile's server side when pushing is off** (`RefuseSend`
  answers it), printing, argument checks, `getaddrinfo` and the connect retried
  every three seconds: input and output without state of their own.
- **`oldWTFclient.c`, `oldWTFserver.c`**: earlier versions of the two programs,
  which the Makefile does not build. **`test.c`**: a scratch program it builds into
  a binary `test` of its own; neither program uses it.

`PROJECT.json` gives each part its status.

## 4. The runs

`MC_WTF` unless another module is named. All runs set `CHECK_DEADLOCK FALSE`:
the commands a user runs are bounded, so the system comes to rest, and a server
told to stop does stop. That nothing gets stuck on the way is what
`NoMutualWait`, `CommandsEnd`, `ConnectionsClose`, `ServerStops` and `WaitEnds` say.

| run | question | properties |
|---|---|---|
| `push` | Two clients update, commit and push one shared file in every order, three commands each, with two edits at any moment, and one program is interrupted or killed at any point: does a session stall, does a torn or unrecorded state get published, does a session ever hold what the proofs say it cannot? | `NoMutualWait`, `ServerVersionFrozen`, `PublishedWhole`, `HistoryStored`, `CompleteWhole`, `SessionInv`, `CommittedStored` |
| `admin` | One client runs update, commit and push, so that sends and completes do happen, while the other runs two of create, destroy (an unknown word), rollback, checkout and the single-request commands, with every outcome of the uninitialised reads and one fault: does the invariant of the proofs hold, does destroy leave anything, does the project change as `Repository` says? | `IInv`, `NoRemains`, `AsRepository` |
| `upgrade` | Six commands of one client among add, remove, update, commit, push, upgrade and checkout over two files, and one of the other's: what do D and M lines do to `.Manifest`, fresh or stale, and does what an update or a checkout has received stay valid? | `TypeOK`, `ServerSnapshot`, `OnlyStaleLinesSpoil` |
| `progress` | Does every command end and every connection get served and closed, with pushes that send, find a changed file, are refused or cut off? | `CommandsEnd`, `ConnectionsClose` |
| `threads` (`MC_Threads`) | Two connections and two SIGINTs to any thread at any moment: does the server end, in order, leaving nobody waiting, and does it serve sessions one at a time? | `StopsServing`, `NothingCutOff`, `IInv`, `ServerStops`, `WaitEnds`, `OneAtATime` |
| `transfer` (`MC_Transfer`) | Two files over every kind of connection, split anywhere, with SIGINT and the end of the sender: are the loops a queue, do reads end, do files arrive, does the reader of files stay in its buffer? | `TypeOK`, `NoOverrun`, `SmallArrive`, `AsQueue`, `ReadsEnd` |
| `tree` (`MC_Tree`) | Six commands over nested folders, colliding names and a path that is a file or a folder: is `.Manifest` a table of paths, does its text survive, also over older ones, what do update and checkout do below the first level and over files that are there? | `TypeOK`, `RoundTrip`, `LookupsAgree`, `AsIndex`, `UpdateAsFlat`, `CheckoutFetches` |

Five runs show what section 8 reports: `push_incomplete`, `conflict_missed`,
`read_hangs`, `large_files`, `upgrade_takes`. Each checks one property that states a sentence of the
documentation, and TLC finds it violated.

What the passing runs say about the code:

- `NoMutualWait` holds although push reads one reply fewer than it sends
  requests. When the client waits in `read_all` on the connection that has the
  mutex, there is a request the server has not read or a reply the client has
  not read. With the reply to an accepted push left out (the mutant) it fails.
- `ServerVersionFrozen`: the version of the published `.Manifest` never leaves 0.
  A push is accepted when it is one ahead of the server, but the `.Manifest` it
  publishes was sent before the client raised its own version. A second push of
  the same client is refused, one of a client that has not pushed is accepted.
- `CompleteWhole`: the `cplt` branch does not look at `isPushing` before it parses
  and copies `.Manifest`. It is nevertheless only reached after an accepted, whole
  push, because a refused push leaves its `.Manifest` in the stream, where it
  ends the session. If the payload of a refused push were read, as one would
  expect of a fix, a `cplt` without a push would be served (the mutant).
- `PublishedWhole` and `HistoryStored` hold under kills and crashes although the
  handlers ignore failed reads: a torn `~Manifest` is never renamed, as the client
  that would send `cplt` is gone; a torn content does not have the announced hash.
- `NothingCutOff` and `StopsServing`: after SIGINT one request at most is still
  handled; `send_all` then drops its answer, so a client may see its connection end
  for a request that took effect.
- `AsRepository`: a publication and its record are one step of the server's copy
  unless the process stops between them; contents are kept before anything names
  them; a project comes only from create and goes only by destroy or, spoilt, by a
  rollback; a destroy is one step unless the process stops in it, and what is then
  left is part of what was there. What the abstract log records is *all* that was received since the
  server started (`received`), which is what the code does and not what it means.
- `NoRemains`: sends, pushes and completes that arrive after a destroy bring nothing
  back, since each looks for the project first. A destroy that is cut short leaves
  contents or a `.History` that a project created later inherits (`cutShort`).
- `OnlyStaleLinesSpoil`: an `.Update` is good for one upgrade. Run again, its D lines
  write a NULL tree. What M lines do instead of what they name is the run
  `upgrade_takes`.
- `ServerSnapshot`: since the mutex is held for the connection, nothing is published
  while a user answers update's prompts or a checkout fetches file by file. With the
  mutex given back after the first answer (the mutant) it fails.
- `AsIndex` and `RoundTrip` hold although add, checkout and the push after one given
  up write over an old text without truncating it, and although a path may be added
  below one that is a file: lines past the count are not read. A folder emptied by
  remove stays listed, and another client that does not have it gets an empty
  `.Update` (section 8).
- `UpdateAsFlat`: when each node of the server's tree is the client's as well and no
  file has anything below it, update writes for each path the line the flat rules
  give, whatever the nesting, the order of the nodes and the buckets.
- `CheckoutFetches`: a file below the first level is fetched only if it is the
  first child at each step, that is, the one added last. The others are created
  empty, or keep what the folder had; what is fetched is written over the old
  content, so that the tail of a longer one stays.
- `AsQueue`, `ReadsEnd`, `SmallArrive` hold in `FaithfulMode` and, but for the
  descriptor limit of `SmallArrive`, with every kill, signal and split. Outside it,
  `SendAgain` sends bytes from before its buffer, and a stale `errno` drops bytes.
- `NoOverrun`: sizes that do not fall on blocks never make the buffer too small,
  as reads of a regular file are short only at its end; the price is a content
  that is its own last block.

## 5. Bounds

| bound | values | why it is enough |
|---|---|---|
| `Client` | 2 (1 in `push_incomplete` and `upgrade_takes`) | every hazard between clients is about a pair: one pushes while the other pushes, updates or destroys |
| `Conn` | 2 in every run of `WTF` | a client has one connection; a connection whose client is gone stays in use until its thread closes it, so new commands do meet old sessions in the queue |
| `File` | 1, in `upgrade` 2 | one file gives pushes of no and one send, two give a command that stops between two files |
| `Byte`, `Contents` | contents `<<x>>`, `<<y>>`, one longer | equal, different and appended contents are told apart |
| `MaxRuns`, `Commands` | per client: 3 and 3 in `push`, 3 and 2 in `admin`, 3 and 1 in `progress`, 6 and 1 in `upgrade`, 4 or 6 in the violations | 3 is update, commit, push (with a send, a mismatch after an edit, or a fault in the middle), or commit and two pushes, of which the second is refused; 2 is destroy and create, or create and any other; 6 is an update, its upgrade, and the upgrade once more with commands in between |
| `Room` of `Wire`, `Tree` | 2, 3 | not a bound of the search: the number of files a `.Manifest` of one block can list, which `BlockAssumption` compares with the number of files |
| `MaxEdits` | 0 to 2 in all | a change, two that conflict, and a second change after the commit of the first (which push refuses to send) |
| `MaxFaults` | 0 or 1 | one interrupt, kill or stop at any point, followed by any commands that are left |
| `Block`, `IntSize`, `Room` | 2, 2, 2 | files of 0, 1, 2 and 3 characters lie below, on and above a block; a length can be split; a full buffer stops a send in the middle of a length or a content |
| `MaxBack`, `MaxLength` | 1, 1 | one byte before the buffer is enough to be seen; a garbled length of 0 or 1 differs from the true one |
| `MaxTransfers`, `Limit` | 2 files, 1 or 2 descriptors | the second file meets the position, the `errno` and the descriptors the first has left |
| `Path`, `Name`, `Size` of `Tree` | `d`, `d/a`, `d/b/a`; `a` and `b` share one of 20 buckets | three levels, a name at two levels, a folder beside a file in one bucket, and a path that is a file or a folder |
| `MaxDepth` of `Tree` | 4 | the root's layer and one for each name of the longest path |
| `MaxRuns`, `MaxEdits` of `Tree` | 6 and 1 | two adds, a push, a remove, an update and an upgrade with stale lines; one write of the user or one push given up |
| `MaxRequests`, `MaxSignals` | 2 and 2 | a session that goes on after an answer, a second SIGINT during the joins |

`runs`, `edits` and `faults` are history variables in guards only. The proofs
hold for all values. Symmetry over `Conn` and `Client` is used in the runs
without liveness; none of their properties names a particular member.

## 6. Fairness

`WTF!FairSpec`: weak fairness of `Step(c)` for each client and of `Thread(k)` for
each connection. A program that has something to do is scheduled; a thread that
can go on is scheduled. `Step` includes the answer to update's prompt (`Compare`),
so users are assumed to answer: without that no other client would be served,
since the mutex is held. Weak fairness is enough for the mutex because the number
of commands in a run is bounded: with pthread mutexes nothing promises more, and
no property here depends on more. Nothing is assumed of edits, kills, crashes and
new commands.

`Transfer!FairSpec`: weak fairness of `SenderStep` and of `ReaderStep`: both
programs are scheduled, and the kernel moves what it can. Kills, signals and new
transfers are not assumed.

`ServerThreads!FairSpec`: weak fairness of `Main`, of each `Customer(k)`, and of
`Finish(k)`: a command ends when it has no more to ask or when it sees that the
connection is closed. That commands end is what the run `progress` shows for the
protocol. Each connection is opened once, so weak fairness of the threads implies
the strong fairness of `Sessions!Turn`, which TLC checks as part of
`OneAtATime`.

## 7. What is proved

The theorems hold for every value of the constants: any number of clients,
connections, files and contents, any set of commands, any bounds. They assume
what the modules' `ASSUME`s say: that the marks `None`, `Null`, `Bad` are distinct
from the values they stand beside (`StoreAssumption`, `WireAssumption`,
`ClientAssumption`, `WTFAssumption`, `ThreadsAssumption`), that `Heap` is a
non-empty set of Booleans (`HeapAssumption`), that a `.Manifest` fits one block
(`BlockAssumption`), that users write contents
(`ClientAssumption`), that the starting project is one a push could have made
(`WTFAssumption`), and that the bounds are natural numbers. For files and bytes:
a block, a length and the kernel's buffers are not empty (`FileBufferAssumption`,
`TransferAssumption`, `TransportAssumption`). For trees: a hash map has buckets and
each name a sum of characters (`LayerAssumption`); hashes are those of contents and
of the empty file, a content written over another is one too, users' paths are not
empty, shorter than `MaxDepth` and do not begin with the project's name, a NULL,
empty or missing `.Manifest` is not a text (`TreeAssumption`), and texts fit one
block (`BlockAssumption`).

The conditions in the table come from the code: without them the model has
counterexamples. A rollback puts garbage in the place of
`.Manifest`; a create stopped before its write leaves an empty one; a destroy
deletes contents that `currentPushHead` still names; a name read without a
terminator makes the server answer that the project is not there; and a client
whose connection breaks works with what a failed read left behind. The runs
choose their constants by the same conditions.

| module | theorem | statement |
|---|---|---|
| `WTF_proof` | `Invariance` | `Spec => []IInv` |
| `WTF_proof` | `TypeCorrect` | `Spec => []TypeOK` |
| `WTF_proof` | `VersionNeverMoves` | `Spec => []ServerVersionFrozen` |
| `WTF_proof` | `MutexHolderMoves` | `Spec => []NoMutualWait` |
| `Session_proof` | `SessionsInvariance` | `Spec => []SessionInv` |
| `Session_proof` | `CompletesPushes` | `Spec => []CompleteWhole` |
| `Session_proof` | `DestroysAll` | `Spec => []NoRemains`: unless the server was stopped in the middle of a destroy |
| `Session_proof` | `PublishesStored` | `Spec => CommittedStored` |
| `Repository_proof` | `KeepsRepository` | `Spec => AsRepository` |
| `Repository_proof` | `StaysWhole` | `Spec => []PublishedWhole`, if no command is a rollback, and none is a create or nothing is killed; for a `.Manifest` of one block |
| `Repository_proof` | `HistoryKeepsContents` | `Spec => []HistoryStored`, if no command is an unknown word (which destroys) |
| `Steady_proof` | `AnswersStay` | `Spec => []ServerSnapshot`, if the name a client asks for is read as it was sent (`FALSE \notin Heap`) |
| `Steady_proof` | `StaleLinesSpoil` | `Spec => OnlyStaleLinesSpoil`, if nothing is killed and no command is a rollback |
| `Transfer_proof` | `TransferInvariance` | `Spec => []TransferInv` |
| `Transfer_proof` | `TransferTyped` | `Spec => []TypeOK` |
| `Transfer_proof` | `BufferHolds` | `Spec => []NoOverrun` |
| `Transfer_proof` | `SmallFilesArrive` | `Spec => []SmallArrive` |
| `Transfer_proof` | `LoopsAreQueue` | `Spec => AsQueue` |
| `FdStruct_proof` | `ReadsBack` | the text of a tree, also with lines of an older text behind it, is read back to that tree |
| `FdStruct_proof` | `MapFindsNode` | in a layer without a name twice, `HashMapFind` finds what `SearchStructNodeLayer` finds |
| `Tree_proof` | `TreeAlways` | `Spec => []TreeInv` |
| `Tree_proof` | `TypeAlways` | `Spec => []TypeOK` |
| `Tree_proof` | `RoundTripAlways` | `Spec => []RoundTrip` |
| `Tree_proof` | `LookupsAlwaysAgree` | `Spec => []LookupsAgree` |
| `Tree_proof` | `ManifestIsIndex` | `Spec => AsIndex` |
| `Tree_proof` | `CheckoutAlwaysFetches` | `Spec => CheckoutFetches` |
| `Tree_proof` | `UpdateAlwaysAsFlat` | `Spec => UpdateAsFlat` |
| `ServerThreads_proof` | `ThreadsInvariance` | `Spec => []IInv` |
| `ServerThreads_proof` | `StopServes` | `Spec => []StopsServing` |
| `ServerThreads_proof` | `NoneCutOff` | `Spec => []NothingCutOff` |
| `ServerThreads_proof` | `ServesSessions` | every behaviour is one of `Sessions`, without its fairness |

**The argument for `WTF`.** `NoMutualWait` is not inductive. `CreditOf` strengthens
it: a command in or about to start a read of a connection the server has not
closed finds at least as many requests and replies in the two streams as reads it
will still do before it sends again: two in the middle of a push, one elsewhere.
Sending adds one; a handler turns a request into a reply, or into an unread
payload that will end the session; reading takes one, and the push that reads the
reply before its own is entitled to two. `ConnOK` says whose stream it is: no two
commands share a connection, closed ends hold no data, and the mutex is held for
an open server's end. `StreamOf` says that a command that reads a file has at most
one request or one reply under way, of the kind it waits for, so that what it
takes is of the right type (a `TypeOK` of the client's folder needs it). `CommandOf`
keeps what a command found out when it started. `VersionOK` strengthens
`ServerVersionFrozen`: every push in a stream is one ahead of the `.Manifest` it
carries, so the one accepted against version 0 carries version 0, and
`~Manifest` of a running push has version 0. `NextInv` has one step per action of
`Next`; actions that do the same to the streams share lemmas (`BeginStep`,
`EndStep`, `RunStep`, `RespondStep`, `AnswerStep`). The mutex's safety is in
`ConnOK`; a crash at any point, torn requests and resets are in the theorem.

**The argument for sessions.** What makes `CompleteWhole` true lies in the past of
the session, so `SessionInv` looks at the stream: if there is a cplt in it, then
(`Ready`) either the next thing the thread reads is an unread payload, which ends
the session; or the next request is the push itself, whole, with only sends
behind it up to the cplt; or the push was accepted and `isPushing` and `~Manifest`
say so, and only sends are left. Each request a client adds keeps that shape, and
each that a handler takes moves the stream from one case to the next. `PushOf`
adds the files: a content of a running push is in `todo`, in a `send` under way
with its own hash, or stored; so when the cplt is served, nothing is left but to
be stored, which is `CommittedStored`. `SnapshotOf` says that a command which holds
an answer holds the mutex, so that the project it has seen is the one there is.
Both need `IInv` (who owns a stream, and how many requests and replies are in it).
`NoRemains` is inductive with them: a send after a destroy needs `IsProject`, and
`CrashInDestroy`, which may leave anything, sets `cutShort`.

**The argument for `Repository`.** With `CompleteWhole`, each action of `Next` is a
step of `Repository` or leaves `srvMani`, `srvBlob`, `srvHist` and
`currentPushHead` alone: `HandleSendFile` is `Receive`, `HandleComplete` is
`Publish` with what `~Manifest` holds, the four crashes are `Stop`. The
statements about `.Manifest` and `.History` then need what the abstract
repository does not know: which commands are run. `AllowedPart` says that every
request in a stream belongs to a command in `Commands`; with it `HandleRollback`
and `HandleDestroy` are excluded where the theorem excludes them.
`StoredPart` adds that `currentPushHead` names stored contents only.

**The argument for the client.** Without kills and rollback each answer a command
reads comes from the server's copy (`Connected`): its connection is open at the
other end, and the `.Manifest` that arrives parses. A `.Manifest` then stops parsing
only in `UpgradeDelete`, and there only if the file of the line is not listed
(`DeleteSpoils`); what a checkout writes over a `.Manifest` that parses is the server's,
which parses as well (`CheckoutSpoils`).

**The argument for transfers.** `NoOverrun` is not inductive: the buffer grows when
what was read *equals* its size, and a sum may jump over it. `BufferPart` says why
it does not: the size is a multiple of a block, so is the offset until the last
read, and so one more block fits. `SmallPart` keeps what a file of one block looks
like in the buffer and that a 0 follows it, which is where `strlen` stops.
`OrderPart` gives the refinement of `ByteQueue`: delivered bytes and bytes under
way together are 1, 2, ... up to the last one sent, and `errno` is not EAGAIN when
a recv has delivered. `send_all` cannot step back, since `SendAgain` needs a full
buffer of a client's socket. `PhasePart` counts: the two programs begin a file at
the same byte, and the reader has the length only when the sender has sent it, so
that it is announced when it is read. `SmallFilesArrive` puts the four together.

**The argument for trees.** The first difficulty is that everything here is
recursive. The library's induction theorems have an operator as a parameter, which
the provers cannot instantiate, so `FdStruct_proof` states induction over *sets*:
`LeastOf` (a non-empty set of numbers has a least element) follows from the
library's well-foundedness of `<`, and `FromZero` from it. `RecursionHasSolution`
gives a function over layers that its recursive equation defines; the equations of
all recursive functions follow from it and are the lemmas named `...Def`.
`ByHeadAndTail`, `ByDepth`, `ByNode` and `ByPath` are the induction principles that
the other lemmas use.

*The text.* `ReadsBack` needs to know where a line's links lead. The lines of a
node's children follow the node at once, those of its siblings follow the
children (`LinksDown`), so the reader that goes from index to index builds up again
the layer that was written (`RelinksLayer`). Only lines before the count matter.

*The commands.* `TreeInv` says that each `.Manifest` is NULL, empty, or the text of a
`Proper` tree with other lines behind it: no layer has a name twice (`Tidy`), and no
file is listed under a path users do not have. It is what `RoundTrip` and
`LookupsAgree` need to be inductive: that a hash map finds a node rests on `Tidy`
(`MapFindsNode`: a node with the name of a search lies in the bucket of that name
whatever `GetHash` gives, and with distinct names it is the only one that `strcmp`
accepts), and `Tidy` rests on the lookup that add makes before it inserts. The lines
behind come from add, checkout and push, which write over an older text without
O_TRUNC: `TextOver` shows that the result stands for the tree that was written, since
`ReadsBack` looks only at the lines the count covers, and `TextAgain` that writing it
again gives those.

*As a table.* `AddEntries` and `WithoutEntries` say what add and remove do to
`Entries`, at any depth and for each of the ways a recursion may end; `ReadsBack`
carries that over to the texts, and `ManifestIsIndex` takes `Next` apart action by
action.

*Update and checkout.* `CheckoutAlwaysFetches` needs that a path names at most one file (`Ordinary` and `Tidy` together), so that
what a first child gives cannot be overwritten by another node (`FetchedFirst`,
`LayerFetched`). For `UpdateAlwaysAsFlat`, `CoversKids` takes `Covered` from a layer to
the layers below, `MetIs` then gives the pairs of hashes that the comparison meets,
one per listed path, and `FlatCases` compares the line for each with that of `Store`.

**The argument for `ServerThreads`.** The thread inside the session is the one
with the mutex; once a request was handled after SIGINT, no thread is in a
handler, and none can get there, because each test of `globalStop` on the way leads
out; so `late` does not grow past 1. A connection in the backlog is there once and
has no thread; every thread that lives is on the list, and `main` leaves when the
list is empty. `ServesSessions` shows each step to be one of `Sessions` or a
stutter.

**Model-checked only.** Liveness (`CommandsEnd`, `ConnectionsClose`, `ServerStops`,
`WaitEnds`, `ReadsEnd`) and the fairness part of `OneAtATime`: these, and ENABLED,
are out of reach of the proof system used, and their bounds are those of the
runs. Every other property of a passing run, invariant, action property or
refinement, is a theorem, some under the conditions the table names.

`IInv` of both systems and `SessionInv` are invariants of runs; `TransferInv` was
checked with the constants of `transfer` before it was proved.

## 8. Where code and documentation disagree

| run | the documentation | the code |
|---|---|---|
| `push_incomplete` | `utility.c:181`: push puts the client's files on the server | the whole `.Manifest` is published, but only what `.Commit` lists is sent |
| `conflict_missed` | `readme.md:32`: a conflict is put to the user | versions decide, and the server's is always 0 |
| `read_hangs` | `utility.c:372`: ReceiveFile gets a file's size and content | `utility.c:48` looks at `errno` after a recv that succeeded: a client whose `sleep(0)` keeps EAGAIN drops what it receives and reads for ever |
| `upgrade_takes` | `readme.md:32`: a file marked M is to be changed from the server | `process_upgrade.c:38` asks for the content of the *local* file's hash and writes it behind the local content |
| `large_files` | `utility.c:373`: a reply is the size and the content of a file | `utility.c:718` reads every block to the same place |

More that the model has and no violation run reports:

- `readme.md:13` lists `destroy`; `WTFclient.c:680` has the `strcmp` test inverted, so
  that `destroy` does nothing and any unknown word destroys the project (`Destroy`,
  `UnknownCommand`).
- `utility.c:181` says the history records what a push has pushed; `currentPushHead`
  is never emptied, so that an entry names all that was received since the server
  started (`Publish` in `Repository`).
- `readme.md:32` says a file only the server has is marked; `WTFclient.c:465`
  dereferences NULL, and `.Update` is left empty (`Compare`, `CompareFaults`).
- rollback (`WTFserver.c:161`) never finds the version it looks for and renames a
  file of uninitialised content over `.Manifest` (`Spoil` in `Repository`);
  `PublishedWhole` is checked in a run without rollback for that reason.
- A push of an edited, committed file stores the new content while the `.Manifest`
  it publishes still lists the old hash, since neither update nor commit raises
  the entry.
- add takes a folder's path and lists it as an empty file (`Exists`), and below what
  is listed as a file it adds nodes that no comparison visits (`Ordinary`). An A line
  of update leaves the folders out of its path, and upgrade faults on it (`Added`,
  `UpgradeStep`).

## 9. The plan

1. *(done)* `Store`, `Wire`, `Server`, `Client`, `WTF`: the protocol and the
   repository's files; `ServerThreads` and `Sessions`; the first theorems.
2. *(done)* `Transport`, `ByteQueue`, `FileBuffer`, `Transfer`: bytes and files.
3. *(done)* `FdStruct`, `Tree`, `FileIndex`: folders.
4. *(done)* `Repository`, and the crashes inside create, `send` and cplt.
5. *(done)* Theorems about `WTF`: sessions, the refinement of `Repository`,
   `.Manifest` and `.History`, the client's view.
6. *(done)* Theorems about `Transfer`: `NoOverrun`, the refinement of `ByteQueue`,
   small files; and the hash map of a layer.
7. *(done)* Theorems about `FdStruct` and `Tree`: texts give back their trees, and
   every property of the run `tree`.
8. Still open: what `Begin` and the loops of `Transfer` do outside `FaithfulMode`
   (which bytes can be doubled).

## 10. Running it

```
tlc -workers 4 -config Push.cfg MC_WTF        # 942 thousand states, about a minute
tlc -workers 4 -config Threads.cfg MC_Threads # 63 thousand states
tlc -workers 4 -config Transfer.cfg MC_Transfer
tlc -workers 4 -config Tree.cfg MC_Tree       # 241 thousand states, two minutes
tlapm WTF_proof.tla          # each in a few minutes
tlapm Session_proof.tla
tlapm Repository_proof.tla
tlapm Steady_proof.tla
tlapm Transfer_proof.tla
tlapm FdStruct_proof.tla
tlapm Tree_proof.tla         # fifteen minutes
tlapm ServerThreads_proof.tla
```

`PROJECT.json` is the index: `runs`, `map` (definition to source lines), `mutants`
(for each property, a change of one definition under which TLC finds it
violated), `findings`, `hazards` and `theorems`. The definitions marked "Mutant" in
the modules are those changes; no specification uses them.
