# A verification project for emule-x

emule-x is a download client for the eDonkey network: it logs in to servers,
asks them who has a file, dials those peers, asks each for some blocks, and
writes what arrives until the file's hash is right. This directory holds TLA+
modules translated from its source, the configurations TLC checks them with, and
theorems about them checked by TLAPS. All paths below are relative to the
repository; `PROJECT.json` maps every definition to the lines it models.

## 1. The system

One `boost::asio::io_service` thread runs every network handler and every timer,
and the web server of `src/ws` posts its requests to the same thread, so **a
handler is atomic** with respect to all others, and the order in which handlers
run is free. The process itself may stop anywhere. What survives it is the
SQLite database and the files.

| Component | State | Operations | Modelled by |
|---|---|---|---|
| Range list, `SortedPart` (`src/fs/fs.cpp:105-260`) | a flat vector of closed byte ranges and the file's length | `add`, `exists`, `isdone`, `split`, `parsePartStatus` | `SortedPart`, `PartList`, `ByteSet` |
| File configuration and file, `FileConf_`, `File_` (`:700-985`) | `.xcm` (a header and the range list), `.xdm` (the bytes) | `save`, `read`, `add`, `open`, `write`, `valid`, `done`, `clear` | `FileStore`, at the level of which bytes are on disk and right; `FileConf`, the bytes of `.xcm` |
| Open files, `FileManager_` (`:987-1041`) | a map from file identity to open file | `open`, `findOpenedF`, `done` | `FileStore` |
| File identity, `FUUID_`, `FUUIDComparer` (`:236-330`) | hashes and paths that name a file | ordering of the keys of two maps | one consequence in `Runner`, otherwise not |
| Task table, `EmuleX_` (`:330-698`, `src/fs/sql.cpp`) | rows in SQLite | `addTask`, `updateTask`, `listTask`, `removeTask`, `addSrv`, ... | `FileStore` (the operations the downloader calls) |
| File database, `FData_`, `FDataDb_` (`src/fs/fs.cpp:394-560`) | a table of files with unique hashes: those shared and what searches found | `add`, `find`, `updateFilename`, `remove`, `encode`, `parse`; its caller `OnFoundFile` | `FileDb`; encode and parse in `KadxMessages` |
| Connections, `ED2K_` (`src/ed2k/ed2k.cpp`) | the table of dialled connections and their addresses | `connect`, `OnConn`, `OnClose`, `OnCmd`, one writer per message | `ED2K` |
| Downloader, `Runner_`, `Sending_` (`src/runner/runner.cpp`) | the server book, the files being sent for, how far each was handed out | one handler per event of `ED2K_`, and `addTask` | `Runner` |
| Wire formats (`src/protocol/ed2k_protocol.*`, `src/encoding`) | none | one encoder and one parser per message, tags, lists | `Coding`, `Opcodes`, `FileList`, `Messages`; not what prints them |
| KADX relay (`src/kadx`, `src/protocol/kadx_protocol.*`) | connections to other nodes, its clients, and who asked which search | its calls, and the relay of searches and of their answers | `Relay`; the messages in `KadxMessages` |
| Web interface (`src/ws`) | none | JSON in, `addTask` and `search` out | the request arrives as `AddTask` |
| `src/kad` | empty files | | |
| Tests, proxies, consoles | | | not modelled; read for what they expect of the code |

How they interact: `Runner_` registers itself as the event handler `H` of
`ED2K_`. A message arrives in `ED2K_::OnCmd`, which parses it and calls one
handler of `Runner_`, which calls back into `ED2K_` to write to any connection,
into `FileManager_` and `File_` to open and write files, and into `EmuleX_` to
change rows. `Sending_` objects are shared between `Runner_`'s map by file
identity and its map by connection id.

The behaviours that are hard:

* **Many peers, one file.** Blocks are handed out in two handlers on behalf of
  any peer, by a counter that only grows (`Sending_::sended`); their packets
  interleave in one range list; the packet that completes the file closes it under
  the peers that still name it.
* **Two orders of everything.** A task may come before or after the login of a
  server; a source before or after the task is finished; two servers may name each
  other.
* **The end of the process**, between the row and the file in `addTask`, and
  between the file and the row in `sendDone`; and what a new process makes of the
  rows it finds.
* **Wrong and repeated bytes.** A peer is free to send either.
* **The boundaries of ranges**: closed and half-open pairs meet, and one byte
  decides whether a list coalesces.

What makes each component correct, and which property says so:

* the range list: ascending, never claims what did not arrive, never answers done
  too early, hands out every missing byte (`Ascending`, `ClaimsReceived`,
  `AnswerSound`, `ExistsSound`, `SplitCovers`), and is a set of bytes
  (`ByteSet`);
* the wire formats: what is sent is what the protocol's header documents, what a
  server or a peer writes so is read to the last field, and a packet that was cut
  short is refused (`SentAsDocumented`, `ReadAsDocumented`, `HelloUnderstood`,
  `SizeUnderstood`, `CutIsRefused`); a search result, which has no lengths,
  is read in step and means what it says (`ResultMeansWhatItSays`); what one node of the
  program writes another reads (`NodesUnderstand`); and what is saved beside a download
  is read back, also when it was cut short (`ReadBack`);
* the part status: the bits told to others are the parts that are whole
  (`StatusExact`);
* the login book: one connection per server, counts that match it, no server
  that misses a task (`OneLinkPerServer`, `ConnectedCounts`, `SourcesAsked`);
* the download: a byte is asked of one peer, what is claimed is on disk, a complete
  file is finished, a finished one is right and stays, nothing is forgotten
  (`AskedOnce`, `ClaimsExact`, `CompleteIsFinished`, `DoneMeansWhole`,
  `FinishedStays`, `NothingForgotten`, `NoWriteAfterClose`), a task is done in
  the end (`TasksFinish`), and all of it is a plain `Download` to the user
  (`IsDownload`);
* the file database: one row per file, no name lost, no search that a unique index
  ends, rows that only grow (`OneRowPerHash`, `NoNameLost`, `SearchStored`,
  `RowsOnlyGrow`);
* the relay: its table has one entry for a tid, a question reaches the clients, and what
  becomes of an answer, which is not what a relay is for (`OneEntryPerTid`,
  `QuestionsReachClients`, `AnswersPassedOn`).

The list of everything in this code that is hard to test, each at its line and
with the properties that cover it, is `hazards` in `PROJECT.json`.

## 2. The modules

| Module | Extends | What it is |
|---|---|---|
| `SortedPart` | | the member functions of `SortedPart` as operators on sequences of pairs |
| `ByteSet` | | abstract specification: a set of bytes that grows by what arrives |
| `PartList` | `SortedPart` | one object under any caller; refines `ByteSet`; `add`'s loops written as loops |
| `MCPartList` | `PartList` | instances for TLC |
| `SortedPartProofs` | `SortedPart` | lemmas about one call of `add`, `exists`, `split` and `parsePartStatus`, and about loops |
| `PartListProofs` | `PartList`, `SortedPartProofs` | theorems about any calls |
| `Download` | | abstract specification: files are wanted, put in place, and told to be done |
| `EmuleX` | | the sets of files and addresses |
| `ED2K` | `EmuleX` | connections and what the other ends owe |
| `FileStore` | `EmuleX`, `SortedPart` | open files, bytes on disk, task rows |
| `Runner` | `ED2K`, `FileStore` | the downloader: the composition, its properties |
| `MCRunner` | `Runner` | instances for TLC |
| `HandoutProofs` | `Runner`, `SortedPartProofs` | theorems about task rows and the login book, that `Runner` implements `Download`, and about blocks: asked once, kept, never written late, and claimed exactly when they are on disk |
| `FileDb`, `MCFileDb` | | the table of files under searches, sharing and removal; its instance |
| `FileDbProofs` | `FileDb` | theorems about rows, names and searches |
| `Relay`, `MCRelay` | | one KADX node with any nodes around it; its instance |
| `RelayProofs` | `Relay` | theorems about its table, and where questions and answers go |
| `Coding` | | the byte writer and the cursor: fields, lists, tags |
| `Opcodes` | | the numbers of `ed2k_opcodes.h` the other modules name |
| `FileList` | `Coding`, `Opcodes` | the parse of a search result, its tags and what they set |
| `ResultFormat` | `FileList` | search results as a server may write them, tag by tag, and what they mean |
| `FileConf` | `Coding` | save and read of `.xcm` |
| `Messages` | `FileList` | encode and parse of every message of the ed2k protocol |
| `KadxMessages` | `Messages` | encode and parse of the messages between nodes, and of a file in an answer |
| `Link` | `KadxMessages`, `FileConf`, `ResultFormat` | the documented layouts, a link that carries messages, and the properties |
| `MCMessages` | `Link` | the messages of the run |
| `ReadingProofs` | `Link` | lemmas about reading: fields, records, tags and lists of any length |
| `LinkProofs` | `ReadingProofs` | theorems about what goes over the link |
| `NodeProofs` | `LinkProofs` | the same between nodes, and what the program reads back of its own, `.xcm` files among them |

**SortedPart.** The flat vector `[lo1, hi1, lo2, hi2, ...]` is a sequence of
pairs. `Touched` is where the first loop of `add` stops, `Kept` where its merge
loop stops, `Merged` and `Added` put the list together, `AddReturns` is the
returned flag with its early returns. `PartList` has the two loops once more, as loops
(`AddLoop`, `MergeLoop`), and `LoopsAgree` says that the closed forms are what they compute,
for every list that calls can build. Offsets in
the list are 64-bit in the code and unbounded here; offsets in a `Part`, which
`split` returns, are 32-bit and taken modulo `Width`. `PartStatus` is `parsePartStatus`: the
loop's three counters (the bytes that are full, the bit it stands at, the part that is
next) are a record, one pair of the list is one step of a recursive function, and a shift by a negative
number, which C++ leaves undefined, clears `ok`.

**ED2K.** A connection id counts up, `stage` is its life, `esrv` the address it
was dialled to. The other end is part of the model: `due` are the control messages
it owes because of what was written to it, `asked` what became of a `GetSource`,
`pending` the bytes of the blocks it was asked for. `Connect` dials a set of
addresses in any order, and for those of `Flaky` that are down the socket is not
even opened. Messages of one connection arrive in order; across connections there is
none.

**FileStore.** `.xdm` is described by two sets: the bytes `written` since it was
opened (opening truncates it) and those of them that are `wrong`. The hash check is
`Right`: all bytes there, none wrong. A row is a file and a status.

**Runner.** One action per handler. Each contains everything the handler does:
`TakePacket` for instance writes the bytes, adds the range, and, depending on
what `add` returned and on the hash, finishes the file, leaves it, or asks the
peer for more. `proc` says whether the process is up, was stopped, or ended by
itself: through an exception (`threw`), through a hash that
refuses its length (`badhash`, see below), through the null task of a `Sending_`
(`nulltask`), or through the stream of a closed file (`nullstream`). The last is undefined
behaviour in the code; the model takes it as the end of the process and has a
property that says it is not reached.

| Action | Code |
|---|---|
| `Boot` | the constructor and `Runner_::start` with the configured servers |
| `Kill`, `KillInAddTask`, `KillInSendDone` | the process stops between handlers, or inside the two handlers that change more than one thing on disk |
| `Established` | `ED2K_::OnConn`, with and without an error |
| `OnFail` | `ED2K_::OnClose` and `Runner_::OnFail` |
| `HelloThrows` | the parse of `HELLOANSWER` where `hash.set(16)` throws |
| `OnServerList`, `OnLogined`, `OnFoundSource`, `OnAnswered`, `OnUpAccepted`, `OnSending` | the handlers of those names |
| `AddTask` | a request of the user, through `Runner_::addTask` |

**Coding, FileList, Messages.** A packet is a tuple of bytes, a fixed-width number the
tuple of its bytes, a message a record of such fields; text is a few bytes, because the
code only copies it. A parse is a cursor that goes through a layout: `ok` turns
false where the code throws, `rest` is what is behind the offset, `m` what was
read. `Then` is the sequencing of a function in which any call may throw. The encoders
and parses follow their C++ classes line by line; what a message *should* be is stated
apart from them, in `Link!Documented`, after the comments beside the operations
in `ed2k_opcodes.h`. `Link` sends and gets the messages of two sets, `Sent` and `Came`; which
those may hold is written there kind by kind (`LinkAssumption`): each field as wide as its
type, texts and lists no longer than their counts can tell, and in an incoming message nothing
that section 4 says the code does not read. Loops of a parse are recursive functions
(`Read`, `Times`). zlib is abstract: a packed byte differs from every plain one.
`KadxMessages` is the same for the program's own protocol; nothing documents that one, so its
property is that the two halves of each class agree. `FileConf` is the same for the file
beside a download, whose fields stand behind their numbers.
In the model a packet read into a null hash (`NullHash`) is lost with its handler.
Two things are undefined in C++ and harmless in the builds the tests run on, and are taken
as harmless here: the `putv` functions that end without a `return`, and `put` reading
through a pointer to an argument of its caller.

**FileDb.** A row is what `ex_file` holds of a file; the three unique indexes are the
operator `Refused`, because an insert they refuse throws. `OnFoundFile` is the loop over one
answer, in which what an entry adds is seen by the next. Two things end it in the middle, and `failed`
says which: an exception of a unique index (`search`), and a result without a name (`nameless`).
A result has one only if a text `FILENAME` tag came; where it has none, the code calls `cmp` with a
null name, or binds it into `filename`, a column that is `not null`. The results in front of it
are stored (`Handled`), those behind it are lost. A name is a sequence of words, so that `JoinData`, which puts a name behind
another, may give a name that a server also brings.

**Relay.** The state is what `KADX_` reads again: the life of its connections, the two books
`write` knows (`tcs`, `ucs`), the clients `s2c`, the table `stask` of who asked what, the
counter of its own questions and the holes it asked for. One action per call and per
message; whoever is at the other end may send any message at any time. What the handler
above the node decides is free, since no program of the repository has one. `hung` is the
call that does not come back (see section 4); after it nothing happens.
`Cmp` is `Data_::cmp` of the library. It is true for equals here as everywhere else: `fs.cpp:273`
and `:961`, `runner.cpp:75` and `ed2k_protocol.cpp:289` work with no other, and no file would be
finished. `kadx.cpp` and `kadx_protocol.cpp:87` use it as if it were zero for equals. So `Before`,
the order of `stask`, is no strict weak order: nodes stand by their tids, and two tasks of
one node are neither before nor after each other. `find` may come upon any entry that is
neither before nor after what it looks for (`Entries`), and must come upon one unless the walk through
the tree, which is sorted by tid, can pass all of them by (`PassedBy`).

**The buffers of tags.** `Login::parse`, `ServerIndent::parse` and `Hello::parse` read the name and
the text of a tag into `char nbuf[256], vbuf[256]`, through a `Decoding::get` that copies as many
bytes as the tag says, up to 65535. What a longer text does is undefined; the model ends the parse
there (`InBuffers` in `Coding`). The messages of `Link` have texts in tags that fit
(`TagText`, at most `BufLen` bytes); the run has the longest. Every statement about
logins and greetings is about those.

**`LengthSets`.** `HashType` is an `int`, so the parses' `hash.set(16)` picks
`Hash::set(HashType)`, which throws for 16, and not the overload that takes a length. The
constant says which of the two is meant: with FALSE the modules are the code as it
compiles, where the first `HELLOANSWER` ends the process (`HelloThrows`, run
`RunnerHash`); with TRUE `set(16)` makes a hash of 16 bytes, as its callers expect. The runs
about blocks have TRUE, for otherwise no block is ever received and they would say
nothing; `RunnerServers`, which is about servers only, has FALSE. The theorems hold for
both, but `NodesAlwaysUnderstand`, which assumes TRUE; `IncomingIsRead` and `AlwaysReadBack` name what
throws with FALSE. Between nodes the parse of every question and answer begins with such a call
(`Task` in `KadxMessages`): `Relay`, whose messages are ones the parse accepts, is the node
with TRUE.

## 3. The runs

`tlc -config <run>.cfg <module>`; the module is `MCPartList`, `MCRunner`, `MCMessages`,
`MCRelay` or `MCFileDb`, after the name of the run.

| Run | Instance | Shows |
|---|---|---|
| `PartListAny` | 7 bytes, all 28 ranges, blocks of 2 to 5 | the list's invariants under any calls, and that the model's `add` is the code's |
| `PartListEven` | 12 bytes, ranges that start at even bytes, parts of 1 to 4 bytes | the list implements `ByteSet`, and the part status made of it is exact |
| `PartListInsideChangesNothing` | | **violated**: a range inside a pair moves its start |
| `PartListSplitReachesTheEnd` | | **violated**: a last block of one byte is never handed out |
| `RunnerPeers` | one file of 11 bytes in blocks of 3, two servers, two peers that are each dialled up to twice, packets of 2 or 3 bytes, connections that stay; fairness | each block is asked of one peer, the list says what is on disk, no packet comes late, and the task is done in the end |
| `RunnerFaulty` | two files of 4 blocks, one in a directory that cannot be written; a peer that lies and drops, a peer that repeats, a server that drops; three processes that may stop between any two steps, three rows | nothing wrong is finished, nothing finished is lost, a block is forgotten only with its connection, and every step is one of `Download` |
| `RunnerServers` | two servers that may name any servers, refuse and drop; two rows | the login book, and that no server misses a task |
| `RunnerLogin` | two files, one server, three processes | **violated**: a login ends the process if a running row has no `Sending_`: its `addTask` failed to open the file, or it is of an earlier process |
| `RunnerHash` | as `RunnerServers` | **violated**: the first hello that is answered ends the process |
| `Messages` | every message the client or a node sends or reads, search results of up to two files, and `.xcm` files, with values at the edges of their widths | they are written and read as documented, or refused |
| `Relay` | two connections of any kind, questions of three nodes: two of one, and two, one of them this node's own, with the same tid | one entry for a tid, whom an answer is passed to, and that a question reaches the clients |
| `FileDb` | two files, three names of which one is the other two joined, answers of two entries with and without a name, two sizes | no name in front of a nameless result is lost, no row doubled, no search ended by an index |

Why the bounds are enough. The range list's code compares a range with one pair
and its neighbours; 7 bytes hold four separate pairs and every way a range can lie
between and across them, and the theorems of section 5 take over beyond. A part status
of 12 bits goes from one byte into the next. In
`RunnerPeers` the file has four blocks, one more than a request names (`MaxParts` is 3),
so that the second request of one peer, a short request, a short last block and a
connection left without blocks all occur; a block comes in one packet or two. Two servers
that both know a peer make the client dial it twice, so that the same peer answers over
two connections; and a server may name one peer only, so that a task must also be finished
by one that is asked again and again. `RunnerServers`
has as many ids as the servers and peers can use before `MaxConn` is felt by
`OnFoundSource`. `Messages` is one state per message and per place it is cut at: the values
are those at which a width, a sign, a
borrow or the limit of old clients (`OldMax`) changes what is written, and the results
hold a tag of every form and type the parse reads past, alone and in front of another.
`Relay` has two connections, of which any may be dialled, accepted, of datagrams, or
closed, and ask or be asked; with three questions (`MaxAsked`) one is filed under the entry of
another node, the table gets an entry of each of two tids or three, and two questions of one node,
which the order does not tell apart, have an entry between them. Its `VIEW` leaves out what the last step handled and wrote, which no
later step looks at. In `FileDb` a name of three words (`MaxName`) is the joined one joined
again, and three tids (`MaxTid`) are one more than there are files, so that a row is
removed and added again.

All bounds are named: `MaxConn`, `MaxTask`, `MaxBoot`, `MinPacket`, `MaxAsked`, `MaxFound`,
`MaxTid`, `MaxName`. Deadlock is not checked where the system may stop: in the downloader's
runs, when all is downloaded and the bounds are used up; in `FileDb`, when its bounds are;
and in `Relay`, whose node may hang.

**What the environment is assumed to do.** A server sends one id change per
connection. The packets of one connection arrive in order, in the order of the
blocks asked for, and hold at least one byte. Peers send only what they were
asked for (in `RunnerFaulty` also wrong bytes, and again). No two files share a path, and tasks
are named by an emd4 hash, as the tests and the web page name them. Messages hold at least
one byte. A node's messages are ones its parse accepts.

**Fairness.** `FairSpec` assumes weak fairness of the handlers: asio runs what is
ready, and each handler stays enabled until it runs. That servers and peers answer is an
assumption about them, not about the code: without it no download can finish.
`RunnerPeers`, the run with a liveness property, therefore has no flaky address. With
flaky ones the property
fails by design of the code: a block handed to a peer that drops is never handed out
again (`NothingForgotten` says that this is the only way to lose one).

**Limits on what is stated**, each named in the property: `SourcesAsked` is for tables no
longer than `ListLimit`, and, when several files are open, for files that can be opened;
`NoWriteAfterClose` and `AskedOnce` for peers that send each packet once; `StatusExact` for
lists in which no pair begins at the first part of a byte; `NoNameLost` and `SearchStored` for
the results in front of one without a name; `ReadAsDocumented`, `HelloUnderstood` and `ReadBack` for
texts in tags that fit their buffers; `QuestionsReachClients` for the clients in front of the first
closed one.

Every property of a passing run has a mutant in `PROJECT.json`: a plausible bug in
the code's definition that makes TLC find the property violated. The mutants'
operators stand before the definitions they mutate, marked "Mutant of".

## 4. What was found

The violated runs show four places where the code does not do what a test or a log
line of the repository says; the lines are quoted in `findings` of
`PROJECT.json`.

1. `add(av, bv)` with `av` one above a pair's start gives that start up
   (`src/fs/fs.cpp:122`).
2. `split` leaves out a last block of one byte (`src/fs/fs.cpp:230`).
3. `OnLogined` dereferences the null task of a `Sending_` it had to make itself
   (`src/runner/runner.cpp:62`): for a running row whose own `addTask` failed to open the file,
   which is the shortest way there, and after a restart.
4. `hash.set(16)` throws, and with it the parse of every answer to a hello
   (`src/protocol/ed2k_protocol.cpp:670`).

The first does not surface in `RunnerPeers`: packets of at least two bytes that
arrive in order per block never start one above a pair's start.

Reading the code for the model showed more places where it differs from what its
documents say. The definitions have them as the code has them, and no run is spent on
each; the inputs that reach them are left out of the passing runs, by name:

* a range inserted right before its neighbour is not joined to it, so the add that
  completes a file may answer false (`src/fs/fs.cpp:116`; in `Added`);
* `findOpenedF` throws for a file that is not open, which `OnFoundSource` means to
  ignore (`src/runner/runner.cpp:94`; in `OnFoundSource`, `proc` becomes `threw`);
* float, bool and bool-array tags are not read past (`ed2k_protocol.cpp:240`; in
  `TagValue`, left out of `Tags` in `ResultFormat`);
* `sources` is taken from the one-byte member whatever the tag's width, and a tag
  named `Title` is looked for in its value (`:280`, `:292`; in `Numbered`, `Named`);
* sources behind one that carries a hash of its own are read out of step
  (`:571`; `FoundSourceParse`, left out of `Receivable` in `Link`);
* a server's identification, a file's status and the answers about a file's name and
  hashes are read into a null hash, and `OP_HASHSETANSWER` goes to a parse that demands
  another operation (`:432`, `:826`, `:864`; `NullHash`, left out of `Receivable`);
* `ListServer` sends `OP_SERVERSTATUS`, `ServerList::encode` omits the count, and
  `RequestParts` is not filled up to three blocks (`:349`, `:358`, `:726`; left out of
  `ClientKinds` in `Link`);
* the id a server assigns is parsed into a copy and is used by nobody
  (`src/ed2k/ed2k.cpp:124`), and a server that refused or dropped is never dialled again,
  because `allsrvs` is not cleared (`src/runner/runner.cpp:40`);
* `parsePartStatus` shifts by minus one when a pair begins at the first part of a byte, and
  never reports a last part that is shorter than the rest (`fs.cpp:203`; `ok` in
  `StatusStep`, `PartsOf`);
* sharing a file that a search found before is refused by the unique index, because
  `FDataDb_::add` does not look for it, and the share is lost (`fs.cpp:402`; `Share` in
  `FileDb`); `SearchStored` is about searches only;
* `FileConf_::read`, the only reader of `.xcm`, has no live caller: the file is written with
  every packet and a restart begins anew;
* between nodes, a login's version is written in two bytes and read in four, the bytes of a
  block are looked for in front of where they are written, and a file of an answer is
  written without the mark its parse wants first (`kadx_protocol.cpp:43`, `:421`,
  `fs.cpp:325`; `Uneven` and `Answer` in `Link`);
* `SearchBack_::encode` (`kadx_protocol.cpp:139`) has no exit from its loop: a node that
  finds a file for a search, or passes such an answer on, hangs (`Hangs` in `Relay`); and the
  packets it means to end an answer with carry an operation, `OPX_SEARCH_BC`, that
  `KADX_::OnCmd` has no case for;
* `KADX_::write` knows the connections it dialled and the ends of datagrams, not those it
  accepted: what a node that connected here asked is passed on, and the answer dropped
  (`Write` in `Relay`); a question on the status of a file is answered the same way;
* a client that closes its connection stays in `s2c`, and the loop that passes a question on
  ends there (`kadx.cpp:187`; `Reached`);
* a login is answered by a login, so that two nodes that log in to each other answer without
  end (`OnLogin` in `Relay`);
* `kadx.cpp:200` and `:238` compare the answer of `cmp`, which is true for equals, with zero:
  answers to another node's question go to the handler of this one and no further, and those to
  its own are looked for in the table and sent on to whoever asked something with that tid
  (`AnswersPassedOn`). Nor is the order of the table one (`kadx_protocol.cpp:87`): two nodes that
  ask with one tid share an entry (`OneEntryPerTid`), and two questions of one node may. No comment,
  document or test of the repository says what the relay does, so that no line can be quoted and no
  run is spent on it;
* a search result without a name ends the handler of its answer (`runner.cpp:75`; `nameless` in
  `FileDb`);
* a text of more than 256 bytes in a tag of a login, a greeting or a server's identification is
  written beyond the buffer for it (`ed2k_protocol.cpp:75`, `:437`, `:676`; `InBuffers`).

## 5. What is proved

TLAPS checks the theorems for every value of the constants, from the named
assumptions of the modules only.

**One call of `add`** (`SortedPartProofs`). `AddedShape`: for a sorted list, every
outcome of the two loops is the old list with a run of pairs `i .. k - 1` replaced by
one pair `lo .. hi`, all pairs before end below `lo`, all pairs from `k` on start
above `hi`, and every byte of `lo .. hi` was claimed or added (`NoHole`: the merge
loop bridges no hole). From that shape alone follow `AddedSorted`, `AddedClaims`,
`AddedKeeps`, `AddedStarts`, `AddedSpaced` and `AddReturnsDone`.

**Loops** (`SortedPartProofs`). A loop of the code is a recursive function on `0 .. n`.
`LoopRuns` shows, by the least counterexample (`UpTo`), that a step which stays in a set has
exactly one such function, so that the definition means what it says; a loop's invariant is then
a set of indices that holds 0 and is closed under the step. `LackingRuns` and `LackingCovers` are
that for `split`, `StatusRuns` and `StatusOfParts` for `parsePartStatus` (invariant `Stands`: where
the loop stands, byte and bit, is the part behind the last pair), `MergeRuns` and `AddLoopRuns`
for `add`.

**Any calls of `add`** (`PartListProofs`). The inductive invariant is the conjunction of
`TypeOK`, `Ascending`, `ClaimsReceived` and `AnswerSound`; `Ascending` is what
carries the others. `ExistsSound` follows from it, `LosesAtMostTheStart` is an action
property under it.

* `ListImplementsByteSet`: if no range starts one byte above another, the list implements
  `ByteSet`. The strengthening is `Starts`: a pair starts where some range does.
* `ListSplitCovers`: no missing byte is left out of the blocks `split` hands out. It assumes
  `Total < Width`; beyond, offsets wrap and it is false.
* `ListStatusExact`: the status is exact. It assumes that ranges lie within the file, which the
  strengthening `Within` carries to the list; a pair that reached beyond would count parts
  the file does not have. A part that is claimed lies in one pair (`PartInOnePair`), because
  pairs start where parts do.
* `ListLoopsAgree`: what the runs check for 7 bytes, that the closed forms of `Added`,
  `AddReturns` and `AllBlocks` are the loops of the code, holds for every list and every argument
  (`MergeLoopIs`, `AddAtIs`, `AddLoopIs`, `SplitOfNothing`). The other theorems, which are about
  the closed forms, are thereby about the loops.

**The downloader** (`HandoutProofs`).

* `RowsDoneAreWhole` and `WholeFilesStay`. `DoneMeansWhole` is not
  inductive: `sendDone` marks the row its `Sending_` carries. The
  strengthening `TaskInv` says that this is a row of that file.
* `ServersAreAsked` assumes `BadDir = {}`, every directory can be written: otherwise `OnLogined`,
  whose lookup among several files may miss one that is open, opens it again, fails, and goes on
  without asking for it. The strengthening `SourceInv` says that the `Sending_` of an open file carries a row that is
  still running, so that what a login reads of the table names every open file.
* `ServersDialledOnce` and `LoginsCounted`. The strengthening `BookInv` says that
  ids not in use have no address, that every server with an id is in the book, that a
  connection which is not logged in is not in `logined`, and that only servers
  are. `connected` can be counted because no two ids share a server.

**A download** (`HandoutProofs`). `RunnerIsDownload`: every step of the downloader is a step
of `Download` or changes nothing of it. `wanted` is the files that have a row, `told` those a
row of which says done. `TaskInv` carries the rows; `OpenInv`, that only wanted files are open, is
needed because a file is finished by whichever `Sending_` has it open.

**Blocks** (`HandoutProofs`). The file's blocks are numbered and `sended` is how many were handed
out.

* `HandedOutIsKept` needs no assumption besides the modules' own: peers may lie and repeat,
  connections may drop, the process may stop. The strengthening `Hold` says that `sended`
  never passes the number of blocks, that each connection with a request has a live
  `Sending_` of an open file, and that every byte of the first `sended` blocks is written,
  owed, or was owed by a connection that has dropped.
* `BytesAskedOnce` and `ClosedIsNotWritten` assume `OffsetsFit` (every file's length is below
  `Width`, so that no offset wraps) and `Repeater = {}`; without either they are false. The
  strengthening `Once` says that the bytes owed by two connections are disjoint, none of
  them is written, all that is written was handed out, what a connection owes of a block is
  the end of it, only open files are owed anything, and a file that was closed has no block
  left to hand out. `BlocksApart` is where
  `OffsetsFit` is used: blocks lie one behind the other.
* `RunnerTyped`: with `Hold` the type invariant is inductive; the range lists are pairs of
  numbers by `AddedShape`.

**The list and the disk** (`HandoutProofs`). `ListIsTheDisk`: the range list of an open file
claims exactly the bytes written, with liars, repeaters, drops and restarts. It assumes
`OffsetsFit` and that blocks and packets have two bytes or more, and is false with one-byte ones:
`add` gives up the first byte of a pair when a range starts one byte above it
(`LosesAtMostTheStart`). The strengthening says that no range does: every pair starts where a block
does (`Begins`), and a block is received from its start on, the first two bytes together
(`InOrder`). `AddedJoins`, about one call, then says that a packet is joined to the pair that ends
before it.

`CompleteIsClosed`: the packet that completes a right file finishes it. The code learns that a
file is complete only from the write that answers TRUE, and `add` answers TRUE only for a list of one
pair (`AddReturnsDone`, `OnePair`). The strengthening `Apart` says that no two pairs
stand side by side (`Spaced`), which is so because a byte behind a packet is never on disk before
the packet is (`Flanked`). It assumes, besides, that no peer is in both `Repeater` and `Liar`. That
one is needed: TLC finds a run of 22 states in which such a peer completes the list with a wrong
packet and then sends the right one; the bytes are right now, the range was there already, `write`
answers FALSE, and the file stays open.

**The relay** (`RelayProofs`). The inductive invariant is `Booked`: the table has one entry for
a tid, and each entry is a connection that did ask something. That there is one entry for a tid
(`TidsHaveOneEntry`) is not plain, because the order is none: a new entry is made only where the walk
can pass by all that are the same, and then there is none of its tid, for nothing lies between two
of one tid (`OneTidIsOne`). `OnlyOwnPassedOn` follows from the other half. `ClientsAreAsked` needs
neither. `RelayTyped` is inductive once the books are known to hold the node's own connections
(`Inside`).

**The file database** (`FileDbProofs`). `FileDbTyped`, `FilesStayApart`, `NamesAreKept`,
`SearchIsStored` and `RowsGrow`, for any hashes and names, entries and limits. The inductive
invariant `DbInv` says that the rows are typed and below the last tid given, that each hash of any
kind is in one row, and that each name a search brought is a part of the name of its row. One
handler is a loop in which each entry sees what the ones before it did: `OnEntryGood` is about one
pass (the lookup decides between `AddGood` and `UpdateGood`), `AfterAllGood` about the loop, and
`GrownTrans` lets the growth of single passes add up to the growth of the step. `SearchStored` is
part of the loop's invariant: an insert is made only for a hash that no row has, so that the loop
reaches the end of an answer, or its first result without a name.

**The wire formats** (`ReadingProofs`, `LinkProofs`, `NodeProofs`). For messages of any length and content,
plain and packed, from `LinkAssumption` and `MessagesAssumption` (the largest size of old
clients is below 32 bits). The inductive invariant is `OnTheWire` (`WireAlways`): what was
read is the parse of just the bytes that were written. The rest is about parses.

* *Reading no further.* `Carries` relates a parse of some bytes to the same parse with bytes behind
  them: if the first does not throw, the second ends in the same fields, with those bytes left over.
  Every parse does (`TakeCarries`, `ReadCarries`, `ListLoopCarries`, `ReadTagsCarries`,
  `FTagParseCarries`, up to `ParsedCarries`). A message is read to its last byte; were it cut and read
  without a throw, bytes would be left over. That is `CutAlwaysRefused`, the whole of it for
  the messages that throw because of `LengthSets` as well (`UnsetThrows`).
* *Reading what was put.* `GetReads` is about one field, `NumLe2` and `NumLe4` about the number
  a count was written with, `ListReads`, `TagPassReadsAll`, `EntryTagReadsAll` and `FileReadsAll`
  about loops: if each pass takes its piece of the bytes, the loop takes them all (`Pieces`: what
  `FlattenSeq` writes is the first piece with the rest behind it). `IncomingWell` puts them
  together for each kind, and gives `IncomingIsRead`. Without `LengthSets` a hello's answer and
  a block throw (`UnsetRefused`); the theorem says so of them, and of all the others that they
  are read (`UnsetCame`). The length of a block is the difference of two 32-bit
  offsets that the code takes in halves; `SpanOfPlus` shows that it is the length also where they
  borrow and wrap.
* *Search results.* `TagEffects` says of one tag what it sets and that it leaves alone what
  other tags set, `LastTells` that after any tags the last one of a name stands: `ResultAlwaysMeans`.
* *What is sent.* `SentAlwaysDocumented` compares the bytes of each encoder with the documented ones.
  In `SizeAlwaysUnderstood` the two cases of the reader, a zero word or not, are decided by `LowHalf`
  (the low word of a size of 32 bits is not zero) and `NotLarger` (a size up to `OldMax` has
  no high word). `HelloAlwaysUnderstood` has two cases as well, with and without the tag of the
  port that is never set.
* *Between nodes.* `NodesAlwaysUnderstand` takes the messages kind by kind (`SearchUnderstood` to
  `PartsUnderstood`), and answers apart. Each row of an answer is a loop over fields behind numbers,
  of which one pass reads one field and leaves the others alone; an empty field is not written,
  and whatever the row has, its passes end at the end mark. The parse of an answer looks at no
  more than it reads either: were a cut answer read, what was cut off would be left over from the
  whole one, of which nothing is (`AnswerCut`). It assumes `LengthSets`.
* *Read back.* `AlwaysReadBack` takes the program's own messages kind by kind (`OwnKindsRestored`,
  `LoginRestored`, `CallbackRestored`). An `.xcm` file is seven pieces, some of them empty
  (`XcmRow`), read by a loop that stops where the bytes stop. `StandsAt` is the invariant of the loop: behind the
  first `k` pieces each field up to there is told and no field is told wrong; `ConfStep` is one
  pass, and since a pass takes a byte at least, the passes suffice (`RunsOut`). A file that was cut
  is read as the whole one is up to the cut (`CutRun`): a field that reaches over it throws, so
  what was read is what some pass of the whole read had, and no field of it is wrong (`XcmCut`).
  Without `LengthSets` a block is not read back (`UnsetBlock`, `UnsetSent`), and all else is.

**Only model-checked**: `TasksFinish`, because liveness under fairness is out of the prover's reach, and
what the violated runs show.

## 6. Not modelled, and the plan

One step is left: `FUUIDMap`, the comparison of file identities against the laws of a strict weak
order, and the lookups of a sorted container under it. Today the one lookup in which it matters,
in `OnLogined`, may miss what is there whenever several files are open.

Not modelled: the add of an empty range and blocks beyond 4 GiB, about which nothing useful
holds; the server table (`addSrv`, `listSrv`, `updateSrv`), `removeTask`, `File_::clear` and
`File_::read`, which no live code calls; `FDataDb_::list`, whose queries change nothing; and
`KADX_::listen` and `monitor`, which end without a `return` where they succeed, so that
what follows is up to the compiler.

Left out for good: logging, JSON, HTTP and static files (pure input and output), `src/kad`
(empty), the hash functions themselves (their outcome is abstract: right or
not), and the messages `ED2K_` can write that the downloader never
asks for (`callback`, `rfid`, `rfilestatus`, `hashset`).
