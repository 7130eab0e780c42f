# A verification project for ZobDB

ZobDB (`src/README.rst`) is a small key-value database in C: a daemon `zobd`
that keeps its entries in a Berkeley DB file, and a command `zob` that sends one
line to it over the UNIX socket `./con` and prints the answer. This directory
holds TLA+ modules of the program, the TLC configurations that check them on
small instances, and theorems about them with proofs for TLAPS.

`PROJECT.json` holds what is best read by a tool: the lines each definition
models, the runs, the mutants that show each property can be violated by a
plausible bug, the findings, the hazards and the theorems.

## The system

| component | state | operations | met by |
|---|---|---|---|
| request builder, `request-builder.c` | the text, the verb once found, the positions `first`, `last`, `current`, the request, four flags | `parse` (a loop over find_verb and one handler per verb), `is_bad_request`, `get_request` | the server, once per session |
| store, `store.c` | a Berkeley DB handle: a cache and a file | `connect`, `write` (put, then sync), `read`, `delete`, `clean` (close) | the server |
| server, `server.c` | `is_running`, the listening socket, one session socket | `run`: listen, then accept, read, parse, process, answer, close, until stopped | the clients over the socket, the kernel |
| client, `client.c` | one socket, one buffer | connect, send the standard input, receive | the server over the socket |
| buffer and string, `buffer.c`, `string.c` | memory, its end, a size, a chunk size, automatic or not | write, ensure (grow), slice, find, compare, fill | everything |
| message, `message.c` | verb, key, payload | getters and setters that copy | parser and server |
| application and configuration, `app.c`, `config.c` | the singleton, the name of the socket, of the file and of the log | setup, run, getters | everything |
| log and errors, `log.c`, `error.c` | the log file | write; error, which exits | everything |
| allocator and macros, `allocator.c`, `object.h`, `pod-vector.h` | three callbacks | create, clone, copy, dispose of every kind of object | everything |
| observable, `observable.c` | ten slots of listeners | listen, notify | its unit test only; not linked |

The server is one thread. It makes a builder, accepts a connection, reads once,
parses what it read, performs the request on the store, writes one answer and
closes the connection. Concurrency is between that thread, any number of client
processes, and the library, which writes pages of the cache to the file when it
wants to. Nothing is logged ahead: the handle is opened without an environment.

What is hard:

- **Durability.** A write is put, synced, acknowledged: three steps a crash can
  fall between. A delete is put and acknowledged, never synced. The result of
  the sync is not looked at.
- **Parsing what a stream holds.** The verb ends at the first space of the whole
  text, and `parse_new` looks for its space and its line feed separately.
  What a request means must not depend on what follows its line; a cut or odd
  text must be refused, and some end the process by an assertion or an error.
- **Ends of the process.** Assertion, error exit, SIGPIPE, kill and stop each end
  it at a different point, with clients connected, waiting or in the queue.
- **Chunk boundaries.** Growing a buffer under-reports its end; a text one longer
  than whole chunks loses its last byte, and the room left is computed from the size
  and not from the block.
- **Errors nobody sees.** `CHECK_BDB_INT` looks at negative codes only; an error of the
  system is positive, and the call that failed goes on as "not ok", or as if nothing
  had happened.
- **Who disposes of what.** Objects lend each other strings, the log disposes of one it
  was lent, dispose releases what the first field of an object points to, and an error
  may end the process at any point of a session.
- **Callbacks.** A callback may register another, or report an error that ends the
  process, in the middle of the notification that calls it.

## Modules

| module | what it is |
|---|---|
| `RequestBuilder` | the parser as operators: the builder's record, the searches and slices of its buffer, the handlers, one pass of the loop; renderings of commands |
| `Parsing` | one call of `zob_request_builder_parse`: Init writes a text in a new builder, `Iterate` is one pass |
| `Store` | the Berkeley DB handle: `cache`, `disk`, `open`, and the operations on them as fragments of actions |
| `ZobSystem` | server, clients, socket; extends `RequestBuilder` and `Store` |
| `KVService` | the abstract service: a map, what of it is lasting, and one call per client |
| `ZobRefinement` | how a state of `ZobSystem` reads as one of `KVService`, and `Implements` |
| `Buffer` | `buffer.c` and `string.c` on their memory as operators on a record: block, end, size, chunk, automatic or not |
| `Searching` | the loops of the searches and of the comparison as recursive functions over a block, with the furthest byte they read |
| `Strings` | strings as the program uses them, a machine over `Buffer` and `Searching` |
| `Texts` | what strings promise: named texts, in the terms of the parser's model; `Strings` implements it |
| `Buffers` | buffers under every order of the calls of `buffer.h`, with the bytes their callers rely on |
| `Objects` | create, clone, dispose of `object.h` over the allocator, as operators on a heap |
| `Application` | a process from `main` to its end, and the objects it and its sessions are made of; instantiates `Objects` |
| `Observable`, `ErrorReport` | the observer and the reporting of errors, one action per function or turn of a loop |
| `Library` | both in one process: callbacks report errors, and these may end it |
| `MCParsing`, `MCZob`, `MCStrings`, `MCBuffers`, `MCApplication`, `MCLibrary` | values of the constants for TLC |
| `RequestBuilder_proofs` | facts about the operators of the parser: searches, slices, handlers, a pass |
| `Parsing_proofs` | theorems about a call of the parser |
| `ZobSystem_proofs` | the types and the durability of the whole system |
| `ZobRefinement_proofs` | the system implements the service; what ends the server |
| `Strings_proofs`, `Buffers_proofs` | strings implement texts, and their searches find what is first; both stay in their blocks |
| `Application_proofs` | the objects of a process, for any number of sessions |
| `Library_proofs` | theorems about the observable and the reporting |

### How the parser's model reads

A text is a sequence of tokens, words, `SP` and `LF`, of which each counts one in
lengths; words that follow each other make a longer word. `VerbOf` says which
verb a word starts with, since the program compares prefixes ("newest" is read as
`new`). A model value cannot be a substring of another, so a verb that a space
splits is out of reach, and rightly: the first space ends the verb. Positions are
those of the C code, from 0, and `At` past the text is the final NUL.

`fault` is how a call ends the process: `"abort"` is a failed `assert` (the build
keeps them), `"exit"` is `zob_app_error`, here always the "Empty write" of
`zob_buffer_write`, met on an empty text, an empty slice or a reversed one.
`Kept` is what the buffer holds after the first write of a text (see chunk
boundaries above); `Chunk` is 1024 in the program.

### How the system's model reads

`pc` is where `zob_server_run` is: `listen`, `accept`, `read`, `parse`, `process`,
`sync`, `answer`, `end`, `close`, or `down` when no process runs. A command is one
step of `process` except a write, whose sync is a step of its own, so that a crash
may fall between. `Die` is every end of the process but the orderly one: the
kernel closes the sockets and drops what was not read, the cache is lost, the name
of the socket stays. `Close` is the orderly one and flushes the cache. `Launch`
opens the store; `Listen` ends the new process if the name is still there.

A client slot runs one command after another. `connect` waits while one
connection is queued (`Backlog`, from `listen(fd, 0)`) and fails if nobody
listens; `Send` writes any text of `Inputs`, and nothing for an empty input;
`Receive` gets the answer or learns that the connection is closed. `HangUp` kills
a client. Connections and their data are modelled as one UNIX stream each: what is
written in one write is read by one read, which is what the kernel does for texts
no longer than the buffer of the program (4096 bytes, on both sides).

`Store` has two readings of one map. `WriteBack` makes the file agree with the
cache on one key at any time; `StoreSync` and `StoreClose` on all. That a sync is
atomic is an assumption: without a log a crash inside one can damage the file, of
which nothing could be promised.

With `IoMayFail` the system may refuse the library its file, at any call. A positive
error changes nothing and is not noticed (`StoreRefuses`): a write goes on to its sync
and is answered Ko, a delete is answered Ko, the read fails on the empty text it then
copies and ends the process, a sync or a close leaves the file as it was, and a
file that cannot be opened leaves a server that listens over a handle which refuses
everything. `KVService` allows for it with `MayRefuse`.

### How the model of the memory reads

A buffer is a record of its block (`mem`, one entry a byte), the end it believes in,
its size, whether it is automatic, and `fault`, by which a call has ended the process
or left the block. `Ensure` is `zob_buffer_ensure` with its two computations that
differ from the block: the room, which follows the size, and the new end, which
follows the chunks added. What `malloc` returns is `Junk`, a byte nobody has written;
the program's growth clears what it adds (`Cleared`).

`Strings` is what the program does with strings. `MayTake` is its use of them: one text
of any length goes into a new string, those that are written again (verbs, answers)
stay below one chunk of 1024. `HoldTexts` says that under this use the memory
implements `Texts`, whose `Kept` and `Slice` are the operators the parser's
model is built from: this is what that model assumes of strings, and here it is shown.

`Buffers` knows nothing of strings. A block may be replaced any number of times, and
`p_end` then leaves out some of the last bytes in use: at most as many as were in use
when the block was last replaced (the ghost `carried`), and none of the first chunk.
These are the bytes in doubt (`Doubt`). What callers rely on (`said`) no longer counts
them once the block has been replaced. `MayAsk` is how callers ask for room: rounding
up to chunks makes up for the bytes in doubt (`HasOrGetsRoom`), a fixed buffer is not asked
for more than it has, nobody leaves a gap. It is a restriction, and a narrower one than
the guards of the code; the strings of the program keep to it when they are written
to, where `zob_string_write` replaces the block for the text (`buffer.c:138`) and again for the
NUL (`buffer.c:215`): `StringWritesMayAsk` proves it. The constant `Beyond` lifts it,
one part at a time, with `regrow`, `resize` or `gap`; `nothing` lets in a buffer made of no
bytes.

### How the model of a process reads

An object is `none`, `live` or `hollow`: disposed of, with its structure left over,
since `APP_DISPOSE` hands the allocator the object and not its address, and what is
released is what its first field points to, by then NULL. `Objects` faults on the use of
what is not live and on a second release; `lost` counts what is live when
its place is taken by another object. `Application` runs `main`: name, configuration,
log, module, then the sessions of a server (at most `MaxSessions`) with the objects of
each, then the disposal. `Error` may happen at every step that checks a result, and
ends the process by way of the name and the log as they are at that point.

`Observable` has the ten places as `Slots`; a turn of the notification's loop is one
step, in which the callback may register another. A new observable is looked at
before anyone has cleared it and may turn out `wild`; disposing of one releases its
places twice, upon which the C library ends the process (`aborted`): nothing is
said of what follows either. `ErrorReport` follows lengths: the line, the block, what was
printed. `Library` lets the callback whose turn it is report any number of errors.

## What is checked

Bounds: `parsing` takes every text of up to 3 tokens out of 10, and those of up to
7 tokens that start with a word and go on with one word and the separators, with a
chunk of 6; the longest handler (`new`) looks at six tokens and the boundary falls
on the seventh. Off that boundary no text of these bounds goes on after the line of a `new` or
an `update`, which takes six tokens: that what follows changes nothing is shown for the
shorter commands here, and by the theorem `ParserFirstLineDecides` for all. The runs of `MCZob` have two clients, which is one in its session
and one in the queue, and all the server can tell apart, as it keeps nothing of a
session that has ended (`Backlog` is 1); values are shorter than the answer,
longer than it, as long as the buffer of a read, and longer (`AnswerRoom` 2 for 95,
`ReadRoom` 3 for 1024). Their state spaces are finite as they are. `strings` has two
strings, a chunk of 2 and texts of up to `MaxLen` 5 bytes, so that a text is shorter than
a chunk, fills one or two, and is one longer; two letters tell the bytes of an older text
from those of the last. `buffers` has two buffers that reach 4 bytes with a chunk
of 2 and share `MaxMemory` 6, so that a block with bytes in doubt is replaced again and
one of them is lost; `buffers_regrow` lets them reach 5, for a third chunk.
`app` follows `MaxSessions` 3: what one session leaves is met by the next, and what that
one loses by the third. `library` has three places and up to four registrations (`Asks`),
one more than there are places, lines of up to 3 bytes and a block of 2, so that a line
is shorter, fits just not for its NUL, and is longer. Clients, strings and buffers are
symmetric in the runs of safety; `zob_served` and `library`, which check liveness, use
no symmetry.

| run | shows |
|---|---|
| `parsing` | `FirstLineDecides`: a text that starts with the line of a README command is parsed as that command, whatever follows. `WritesAreNameable`: an accepted `new` or `update` has a key without a space and a value of one line. `SearchesAreBounded`: no search starts behind its last position. `CutTextsDoNothing`: a command cut before its line feed is not performed in part. `NeverAsksForMore`, `CleanLinesAreSafe`, and `SeparatedTextsReturn` under fairness. |
| `parsing_undecided` | violation: a text without separator is parsed for ever |
| `zob` | one key, three values, broken texts, crashes, hang-ups: `DiskLagsOnlyByDeletes`, `AckedWritesAreOnDisk`, `Implements` |
| `zob_faults` | `Implements` on two keys with crashes, when the system may refuse any call on the file, its opening included, and no verb is durable: a refused command changes nothing, and a restart falls back on an older state of each key |
| `zob_served` | `OnlyStopEndsServing`: with complete commands, values that fit and clients that stay, no order of commands ends the server, but a stop or a kill does. `EveryClientEnds`, `StopEnds`, with crashes of the server |
| `zob_deletes` | violation: an acknowledged delete is still in the file |
| `zob_syncfails` | violation: an acknowledged write is not in the file when its sync failed |
| `strings` | `HoldTexts`: strings implement named texts. `StaysInBounds`, `EndsInNul`. `FindsTheLeast`, `ReadsInside`: over whatever a block has gone through, the searches find what the parser's model says and do not leave the text |
| `buffers` | `StaysInBounds`, `KeepsBytes`: for callers who keep to `MayAsk` no block is left however often it is replaced, and what was written is there but for the bytes in doubt |
| `buffers_regrow` | violation: when rounding does not make up for the bytes in doubt, the new block is smaller than what is in use, and the next call leaves it |
| `app` | `NothingIsMisused`, `ErrorsAreTold`, `SessionsAreDisposedOf` (two objects a session are lost, and no more), `LastNameDecides` |
| `library` | `EveryoneIsCalled`, `NotificationsEnd`, `PrintedWhole`, `ReportsEnd` |

`Implements` is the specification `KVService` with the map read as the cache, or
as the file while no server runs, what is lasting as the file, and a call read off
the text in flight, the session, and the answer. A request is what `Meaning` makes
of the text by *rendering* commands, not by the parser, so that the refinement
also says the parser hands the server the command that was sent. It is a safety
property: it would not mind a server that never comes back after its socket's name is
taken (`server.c:259`), nor a client and a server that wait for each other (`client.c:75`). It holds with
`Durable = {"new", "update"}`; with `"delete"` in it, it would fail as `zob_deletes`
does.

Some disagreements met on the way have no run of their own, as the program does not get
there; constants bring them out. In the configuration of `buffers_regrow`, `Beyond = {"gap"}` violates
`FailsBeforeItOverruns` too: a write of two bytes at position 1 of an empty automatic
buffer gets a block of two, as the count of chunks leaves the position out, and a position
behind the size gives a negative room, which passes for a huge one (`buffer.c:94`). So does
`Beyond = {"resize"}`: the guard of a fixed buffer compares the position and not the room
(`buffer.c:86`), and a buffer made of two bytes and filled to three has its end moved
without a new block. `Beyond = {"nothing"}` violates `StaysInBounds` in `Buffers`:
a buffer made of no bytes ends the process, and
`tests/test_buffer.c:93` expects one of size 0. `EarlyErrors = TRUE` violates
`ErrorsAreTold`: the first malloc is checked through an application that is not there
(`allocator.c:22`). A program launched as `/zobd` is no module, as the first byte of the
name is not looked at (`app.c:94`): `LastNameDecides` leaves it out.

`parsing`, `app` and `library` check no deadlock, as a call that has returned or a
process that has ended has nothing left to do.
In the runs of `MCZob` deadlock is checked: a client or an operator can always do
something.

### Fairness

`FairSpec` of `Parsing` has weak fairness of the pass: straight-line code runs on.
`FairSpec` of `ZobSystem` has weak fairness of the server's steps, as one thread
that is scheduled, and of each client's send and receive. There is none of `Launch`,
`Connect`, `Crash`, `RemoveSocket`, `Evict` or of starting commands: nobody has to
do these. `EveryClientEnds` is asked of clients that have sent a complete command:
an empty standard input blocks client and server, and a text without separator
occupies the server for ever, as `parsing_undecided` shows.

`FairSpec` of `Library` has weak fairness of a report's steps, which are straight-line
code, and strong fairness of the turns of a notification: a callback that is called
returns, however many errors it reports before, and the reports in between disable the
turn again and again. Nobody has to register, notify, report or dispose.

## What is proved

For all values of the constants that satisfy the assumptions of their modules; TLC
evaluates these on its instances. `RbAssumption`: the separators and the NUL are told
from each other and are no words, and a chunk has a byte at least. `ParsingAssumption`,
`SystemAssumption`, `StringsAssumption`: what is read or written is text, what is called a
command is one, the mark for no client is no client. `RefinementAssumption` is what the
refinement is about: texts off the chunk boundary, of which those that start with no
command are not performed as one (broken texts are among them, a text such as `delete a b`,
whose rest the parser takes for a key, is not), and no verb durable but those that
are synced, nor these if a sync may fail. `BufferAssumption`, `BuffersAssumption`: what
`malloc` leaves is told from what is written. `ApplicationAssumption`: what is
between two slashes of a path is one element, and the path of a program does not end in a
slash. `StoreAssumption`, `LibraryAssumption`: sizes are numbers, and there is a place at least.
Where a theorem needs more, its statement says so.

**The parser** (`Parsing_proofs`). `ParseInv` says that a call is its first pass: while the
loop goes on the builder is still `Entry(text)`, for a pass that does not end the loop has
changed nothing (`PassEnds`), and when it has ended the builder is `Pass(Entry(text))`.
Each theorem is then about one pass.

- `ParserTypes`, `ParserNeverAsksForMore`, `ParserSearchesAreBounded`.
- `ParserWritesAreNameable`: the two searches are first hits, so no space comes before
  the first and no line feed before the second, and the NUL cannot be met before a line
  feed that is there.
- `ParserFirstLineDecides` computes where each token of a rendering stands (`NamedLine`,
  `WrittenLine`), shows that the searches find those positions, and that the slices
  between them are the key and the payload (`SliceIs`): parsing inverts rendering, for
  keys and values of any length off the chunk boundary, and any text after the line.
- `ParserCleanLinesAreSafe`: in a line of separated words every slice a handler takes
  has a word in it. `ParserCutTextsDoNothing`: a request needs a line feed behind its
  verb, and a command that is cut has none.

**The system** (`ZobSystem_proofs`).

- `SystemTypes`. `TypeInv` adds to `TypeOK` that a session has a client wherever the
  server is in one, and that a builder with a verb has one of the six: without the
  first a read has no inbox, without the second a pass has no handler.
- `DiskLags` and `AckedWritesLast`, if `~IoMayFail`. `DiskLagsOnlyByDeletes` is not
  inductive: that a sync brings the file level says nothing of the write it is for, and
  the acknowledgement is sent one step later. `DurInv` adds that the handle is open
  exactly while a process runs, and that the cache shows the write from its put to its
  answer. The assumption is needed: `zob_syncfails` shows the property false without it.

**The refinement** (`ZobRefinement_proofs`). `ZobImplements` is `Spec => Implements`, with
refusals of the system, crashes and hang-ups. `RefInv` is what the mapping needs: a closed
handle has an empty cache, and only the system closes one under a process (`HandleInv`);
the client in the queue is neither idle nor served nor answered (`QueueInv`); a text is
on its way only until it is read, and an answer only after the session (`BoxInv`); and
the builder is what the parser makes of the text the client has sent (`TextInv`). The last
one lets `Process` be the service's step: by `ParserFirstLineDecides`' lemmas a rendering is
parsed as its command, and by the assumption what is no rendering is not performed. Then
each action is a step of `KVService` or a stutter; a put whose sync is refused is the
service's refusal with what is lasting left behind.

`OnlyStopEnds` is `Served => (Spec => OnlyStopEndsServing)`. `Served` is what the property
is about and what the run `zob_served` sets: the system refuses nothing, clients do not
hang up before they are answered, what they write are renderings of commands, and values
fit the buffer of a read. `ServeInv` says that whoever waits is there, that
the values of the store fit, and that a server closes only when it has been told to.

**The application** (`Application_proofs`). `AppInv` lists what is live before each step
(`LiveAt`) and shows it kept by each function, whatever the number of sessions: the
standing objects, those of the module, those of the session under way. It adds that the
name the log has disposed of is hollow from then on, which is why the configuration can
dispose of it again; that two objects are lost each session, those of the session under
way only as it is parsed (`LostInv`); that the kind is the one of the last name (`KindInv`);
and who is told the error that ends the process (`EndInv`). `ApplicationTypes`,
`ObjectsAreSafe` and `SessionsLeaveNothing` hold as they stand; `ErrorsHaveATeller` and
`LastNameRules` if `~EarlyErrors`, which are the two allocations nothing can report.

**The memory.** In `Buffers_proofs` the invariant adds to the bounds that `p_end` counts a
chunk at least and leaves out no more than what was in use when the block was last
replaced (`Counts`). `DoubtCovers` turns that into a bound on what the next replacement
drops; by `HasOrGetsRoom` the rounding makes up for it, so that the new block holds all that is
in use (`EnsureHolds`). `BufferTypes`, `BuffersStayInBounds` and `BuffersKeepBytes` hold if
`Beyond = {}`, for any sizes, any chunk, any number of buffers and of replacements.
`StringWritesMayAsk` is why the restriction is no empty one: both requests of a
`zob_string_write` are within it, for anything written into a new string, and within the
first chunk of any other; it says `Chunk > 1` and is about one step, not a property of
runs. In `Strings_proofs` a
block may have been replaced any number of times: `StringsInv` says that `p_end` is a chunk
at least and lies in the block, that the NUL is where the size says, and that a string
nothing has been written to has a chunk and one byte. `StringTypes`,
`StringsStayInBounds`, `StringsEndInNul` and `StringsHoldTexts` follow, the last one by a
lemma for each operation. What is lost on a chunk boundary is computed there: `p_end`
after a write is the least number of whole chunks that hold all but the first byte
(`EndOfWrite`), one less than the text exactly if `OnBoundary`, and the growth for the NUL
that follows clears what is behind it (`SealHolds`). All six theorems say `Chunk > 1`. It is needed:
with chunks of one byte `p_end` is one short after every write of more than a byte, the
growth by one behind it only makes up for that, and the NUL falls outside of the block;
`StaysInBounds` fails with `Chunk = 1`. The program's chunk is 1024.

`StringsFindTheLeast` and `StringsReadInside` are about the loops over such blocks, which
`Searching` writes as recursive functions. The induction theorems of the library cannot
be used for them, so `LoopExists` gives a function that satisfies the recursion,
`ReachExists` takes the shortest stretch that has none, and `LoopStops` and `ReachStops` the
position nearest to the stop whose value is wrong. What each loop returns is then read off
the first position where it stops, which is never behind the NUL: no needle has one.

**The library** (`Library_proofs`). `LibraryTypes`, `LinesAreWhole`,
`NotificationsCallEveryone`. `LibInv` adds to the types that the places hold what was asked
for first, in that order, and then nothing (`PlacesFollow`: the first free place is the next
one, `PlacedFollows`), that a notification has called what the places before its cursor
hold (`CalledFollow`), and that a line that is about to be printed fits. The action
property is the last turn of `VisitFollows`.

Each of these invariants is inductive, and each holds in every state that the runs of its
module reach.

**Only model-checked.** All liveness (`SeparatedTextsReturn`, `EveryClientEnds`,
`StopEnds`, `NotificationsEnd`, `ReportsEnd`), which is out of the prover's reach.

## What is not modelled

Functions nothing in the program calls: `zob_buffer_clone` (`tests/test_buffer.c:326` does; the
macro of `object.h:50-59` allocates a buffer and initialises it without clearing it, and
`zob_buffer_init`, `buffer.c:37-41`, leaves its bounds and size as `malloc` left them, so that
what the copy does with them is not determined), `zob_buffer_get_data`, `zob_allocator_do_reallocate`, the copy of
a builder, of a log and of a store (the last one reports that it is not implemented), the
clone and copy of vectors. What a comparison says beyond equal or not, as nobody asks.
What is logged, and the levels of the log. A text longer than the program's buffer or
split over several reads is read in its first part only, and the parser's runs cover such
a part (`CutTextsDoNothing`). Damage of the file by a crash inside a sync or by a put
that fails half-way, of which nothing could be promised without a log. What `strlen` reads behind a value
that fills the buffer of a read (`store.c:113`). A callback that
notifies the observable it is called from. The unit tests and `test-behaviour.sh` are
read for what they expect.

## Plan

The modules planned are written, and every safety property of the runs is proved. What may
still be done is to weaken what theorems ask for: `OnlyStopEnds` has no client hang up at
all, where one that does so before the server has taken its connection may end it only
through the answer it does not get; and `ZobImplements` leaves the texts to
`RefinementAssumption`, of which a text that only begins with a command could be made one
more refusal of the service.
