# A TLA+ development for CSE344-SYSTEM-PROGRAMMING

The repository holds seven independent C programs in five directories: a file
appender (HW1), a shell (HW2), a threaded file server with its client (HW4), a
parallel directory copier (HW 5), a forking file server with its client
(MIDTERM PROJECT) and a directory synchroniser, server and client (FINAL
PROJECT). This directory holds TLA+ modules for the concurrent core of these
programs, TLC configurations that check them on small instances, and proofs for
TLAPS.

Contents

1. [Inventory](#1-inventory)
2. [Modules](#2-modules)
3. [What the runs show](#3-what-the-runs-show)
4. [What is proved](#4-what-is-proved)
5. [Fairness](#5-fairness)
6. [Bounds](#6-bounds)
7. [Where code and documentation disagree](#7-where-code-and-documentation-disagree)
8. [Not modelled](#8-not-modelled)
9. [Plan](#9-plan)

To run a check: `tlc -config PCpSafety.cfg MCPCp.tla`; to check the proofs of a
module: `tlapm PCpProof.tla`.

## 1. Inventory

### pCp — parallel directory copier (`HW 5/pCp.c`)

* **State.** `Buffer buf`: a ring of `BUFFER_SIZE` pairs of descriptors with
  `in`, `out`, `count`, `done`, one mutex, the conditions `not_full` and
  `not_empty`. Besides: open descriptors, the files, and an unused global `done`.
* **Operations.** `producer_thread` reads the directory and calls
  `produce_file_descriptor_pair` for each entry; `consumer_thread` calls
  `consume_file_descriptor_pair`, which waits, copies, closes and advances while
  it holds the mutex; `main` starts and joins everybody and destroys the buffer.
* **Interaction.** Shared memory under `buf.mutex`, condition variables, join.
* **Hard.** Wakeups (one `signal` per pair, one `broadcast` at the end, spurious
  wakeups), the exit condition tested in a critical section of its own, error
  paths that must close and unlock, blocking `open` with the mutex held.
* **Correct when.** Mutual exclusion; no wakeup lost; no descriptor lost; pairs
  are copied once, in order, completely; nothing is left behind; all threads end.

### appendMeMore (`HW1/appendMeMore.c`)

* **State.** A file, and in each instance a counter and an open file description.
* **Operations.** `write` on a description opened with `O_APPEND`, or `lseek` to
  the end followed by `write`.
* **Interaction.** Several instances share the file.
* **Hard.** The race between one instance's `lseek` and another's `write`.
* **Correct when.** With `O_APPEND` nothing is lost; without it, what is lost is
  bounded and the old contents are safe.

### biboServer/biboClient, threads and sockets (`HW4`)

* **State.** A directory of text files; one global mutex; per connection a thread
  with a receive buffer and a response buffer that is never cleared; the client's
  prompt loop.
* **Operations.** `help`, `list`, `readF`, `writeT`, `upload`, `download`, `quit`,
  `killServer`; `accept_clients`; `signal_handler`; the client sends `server_pid`
  and then one command after the other.
* **Interaction.** A TCP stream per client, files shared by all threads, `exit()`
  by any thread.
* **Hard.** Only `writeT` takes the mutex; what is printed to a `FILE` reaches the
  file at `fclose` or `exit`; a stream has no message boundaries; signals.
* **Correct when.** Each `writeT` is atomic; answers arrive in order and belong to
  the commands; nobody waits for ever; data survives `killServer`.

### biboServer/biboClient, processes and signals (`MIDTERM PROJECT`)

* **State.** A shared memory segment with the queue of waiting clients and the
  table of files (`readers`, `writers`, descriptors); the offset of each open file,
  which all children share; children that each serve one request over the FIFO
  `/tmp/<pid>`; the client's `connected` flag.
* **Operations.** Main loop (`dequeue`, `fork`), `handle_signal` for SIGUSR1
  (`enqueue`), SIGCHLD and SIGINT, `handle_client` and its file operations; the
  client's `connect_server`, `send_request`, `receive_response`.
* **Interaction.** Signals (which are not queued), shared memory without an
  effective lock, FIFOs, `fork`/`waitpid`.
* **Hard.** Handlers interrupt the main loop at any instruction; several processes
  run the handler; `kill` with a pid of 0 or -1; the table is shifted by
  `download_file` under other processes' indices; counters are tested and changed
  without a lock; a child may die with a counter raised; the segment outlives a crash.
* **Correct when.** The queue is consistent and holds clients; rejection spares
  the server; children are reaped; a connected client is known to the server;
  appended text is kept, the table is true to the directory, a file goes away only
  on request, and nobody waits for ever.

### Shell (`HW2/ersoy_burak_1901042703.c`)

* **State.** Token array, redirection descriptors, arrays of child pids (a global
  one and one of `main` that shadows it).
* **Operations.** Parse a line, run each command with `fork`/`execvp`/`waitpid`,
  `:q`.
* **Hard.** Signals during `waitpid`, the never-reset index `num_children`,
  descriptors that are never closed in the parent, the old line read again at the
  end of the input.
* **Correct when.** A command runs with its own words and redirections, and every
  child is waited for.

### BibakBOX server and client (`FINAL PROJECT`)

* **State.** Per connection a thread and a buffer; a log mutex; the client's
  synchronising thread and its main thread, both on one socket.
* **Operations.** The client sends its directory and its names, then `check:`,
  `timestamp:`, `upload:`, `delete:`, `update:`; the server sends its names and
  knows the last three. `exit` cancels and joins the synchronising thread.
* **Interaction.** A TCP stream in each direction, the files of the client's
  directory on the server, signals.
* **Hard.** No framing: an upload runs until end of file; two threads send on one
  socket; SIGINT handlers that lock or leave.
* **Correct when.** A request that is received by itself removes only files the user
  named, however the stream before it was cut; what waits for an answer can be ended;
  both programs end.

## 2. Modules

| Module | Models | How |
| --- | --- | --- |
| `CopyQueue` | what pCp promises | a bounded first-in first-out queue of directory entries that is closed once |
| `PCp` | `HW 5/pCp.c` | one action per critical section or blocking call of each thread |
| `PCpProperties` | | properties, refinement mapping, inductive invariants |
| `PCpProof`, `PCpRefinement` | | TLAPS proofs |
| `AppendMeMore` | `HW1/appendMeMore.c` | one action per system call of each instance; properties |
| `AppendProof` | | TLAPS proofs |
| `TextLines` | `fgets` and line replacement in HW4's `writeT` | operators on sequences of pieces and newlines |
| `TextStore` | what the mutex of HW4 is for | every `writeT` happens at once |
| `BiboThreads` | `HW4/biboServer.c`, `HW4/biboClient.c` | one action per blocking call, file operation and send; client and server composed by the two byte streams |
| `BiboThreadsProperties` | | properties and the mapping to `TextStore` |
| `BiboThreadsProof` | | TLAPS proofs |
| `BiboQueue` | main loop, handlers, queue of `MIDTERM PROJECT/biboServer.c`; connecting in `biboClient.c` | one action per load and store of `rear` and `count` |
| `BiboQueueProperties` | | properties |
| `BiboQueueProof` | | TLAPS proofs |
| `BiboFiles` | `list_files`, `handle_client` and the file operations of `MIDTERM PROJECT/biboServer.c` | one action per access of a counter or of the table and per file operation of each child |
| `BiboFilesProperties` | | properties, and for which requests the table has room (`Capacity`) |
| `BiboFilesProof` | | TLAPS proofs |
| `BibakSocket` | a BibakBOX connection and what `strtok` makes of it | two sequences of pieces, one per `send` |
| `BibakClient`, `BibakServer` | `FINAL PROJECT/BibakBOXClient.c`, `BibakBOXServer.c` | one action per `send`, `recv`, directory scan, lock and signal of each thread |
| `Bibak` | | client and server composed on one socket; properties |
| `Shell` | `HW2/ersoy_burak_1901042703.c` | one action per line, token, `fork`, `waitpid` and signal |
| `ShellProperties` | | what a line says should run; properties |
| `BibakProof`, `ShellProof` | | TLAPS proofs |
| `MC*` | | values of the constants for TLC |

**Naming.** Variables and actions keep the names of the code where they can:
`buf.in` is `in`, `shm->count` is `count`, `is_empty()` is `is_empty`. `pc[t]` is
where a thread is; a label names the next step. Definitions that carry the remark
`mutant` are not part of the specification: each is a plausible bug, and
substituting it for the definition that follows makes the run named in
`PROJECT.json` fail.

**PCp.** Every access of `buf` is made with the mutex held, so a critical section
that calls nothing else (`Put`, `Recheck`, `Finish`) is one step, taken when the
mutex is free or held by the thread. A critical section that calls `open` or the
copy loop is several steps during which `mutex` names its holder. A thread in
`pthread_cond_wait` is at `"wait"`; a signal or a spurious wakeup puts it back to
`"enter"`, where it competes for the mutex and tests the loop condition again. A
pair of descriptors is the directory entry it was opened for; a file is a number
of blocks. `open`, `read`, `write` and `opendir` fail as the constants say, and
`open` fails as well when the process has no descriptor left.

**AppendMeMore.** A byte is the instance that wrote it, which makes visible whose
byte overwrote whose.

**BiboThreads.** `inbox` and `outbox` are the two directions of a connection; a
`recv` takes any number of the messages there are. When a server thread receives
several commands at once it parses the first, and the others become the tail of
its last argument (`Garbled`): a file name or text that is none of the intended
ones, represented by `Junk`. A response is the index of the command it answers and
the kind of text in the response buffer. `writeT` is `Lock`, `FOpen` (the `fopen`
calls up to line 119, and reading the lines), `Rewrite` (`fopen "w"`, which truncates),
`FClose` (what was printed reaches the file) and `Unlock`. An `fopen` for writing may
fail: `upload` says so, `writeT` does not look and is killed by the null pointer
(`Crash`), with the mutex held. The server ends by `killServer` (`Raise`), or by its
operator's Ctrl-C at any time (`Interrupt`, if `OperatorStops`); the `exit()` of either,
in `SignalHandler`, flushes any prefix of what another thread has printed. It also ends
by SIGPIPE (`Exit`).

**BiboQueue.** Processes are the server, 0, and its children. `handler[p]` is
where a process is in `handle_signal(SIGUSR1)`; the server's main loop stands
still while its handler is active. `count--` and `count++` are a load and a store,
as in the unoptimised build of the makefile. `semop` is the identity: `semid` is
never assigned, and set 0 is not the program's. `kill` with 0 reaches the caller's
process group, with -1 every process of the user but the caller. A client's
process group is its own unless it was started from the same job as the server
(`ServersGroup`). `Knock` is the `kill(server_pid, SIGUSR1)` of a client that was
rejected before, or of any program that was told the pid the server prints. A client
that was connected by its own signal writes a request nobody reads and stays
`"waiting"`. `Restart` is a new server after the last one: SIGINT has removed the
segment, SIGUSR2 has not, and then the new server finds queue and indices as they
were, but for the slots over which `sem_init` writes.

**BiboFiles.** Composed with `BiboQueue` by the fork: a child here is one that `BiboQueue`
calls `"serving"`, from the `read` of its FIFO on; neither module reads the other's
variables. Each `++` and `--` is a load and a store. The children inherit the open files of
the server, and with them one `offset` per file; the number that `open` gives a child that
uploads is unknown in the others (`Foreign`): there `read`, `lseek` and `write` fail, so
that what is appended to such a file is lost, and `fdopen` gives a null pointer, on which
`fgets` crashes. The `open` of an upload may fail; the entry then has the descriptor -1
(`NoFd`) and is counted all the same. `Listed` are the files that are there at the start and
their descriptors. A request is an operation, a name and a line, and a file a sequence of
pieces, one per `write`. `disturbed` is a history variable: whether a change of the table
met another use of it, or the store of a counter overwrote somebody else's. `AppendsKept`
and `NothingIsRead`, which are about the listed files, hold regardless; `TableTruthful`,
`DeletesRequested` and the part of `EverybodyEnds` about writers say what the code
guarantees as long as that has not happened.

**Bibak.** Each `send` is a piece; `recv` takes any number of pieces, and what
`strtok` makes of them is `Readings`. An operation and a name that are received by
themselves (`Alone`) are read as what they are. Of an operation that is received alone the
name is a null pointer. Behind an operation, a name and what follows it are joined up to
the next colon, and an operation that follows directly becomes a name: the text may be
that of any file that is there, or of none. A file's contents are the piece `Data`; in a
text that begins with them the first colon may be anywhere, so it may be read as any
operation with any name, or as no operation, and then `strcmp` of a null pointer ends the
server. The server compares names with the client's directory below its own
(`home`), but opens uploads in its working directory, so that an upload never adds to
`store`; `created` records it. Two history variables: `mixed`, whether one thread of the
client sent while the other was between two pieces of a message, and `misread`, what was
removed on a text that was not one request. In `SyncAnswer` the client's answer to
`exists` is `timestamp:`, and after the next text it sends the file or does not, as
`strtol` of that text and the file's time say.

**Shell.** `line` is the buffer, `rest` what `strtok` has yet to return. The local
`num_children` and `child_pids` of `main` are not modelled where nothing reads them:
`:q` waits for pids that are all 0, that is, for any child, and there is none.
The makefile compiles with `-std=c99`, which selects the System V `signal()`: a handler runs
once, and the system call it interrupts is not restarted.

## 3. What the runs show

### Runs that pass

| Run | Properties | Question |
| --- | --- | --- |
| `pcp_safety` | `TypeOK`, `MutualExclusion`, `DescriptorsAccounted`, `SleepersHaveReason`, `TruncatedIsOwned`, `ReportedIsComplete`, `CleanupIsSafe`, `NothingLeftBehind`, `ImplementsCopyQueue` | is the copier safe with three consumers, a ring of two and entries that cannot be opened? |
| `pcp_faults` | `IInv`, `NothingLeftBehind`, `Termination`, `BufferedGetsCopied` | and when descriptors run out, `opendir`, `read` and `write` fail? Does every thread end, is every buffered pair dealt with? Is the invariant of the proofs true? |
| `append` | `GrowsByTheLongest`, `OnlySeekersOverwrite`, `IInv` | how much does the race of `lseek` and `write` lose, and to whom? |
| `bibo_store` | `TypeOK`, `BehindByOne`, `WritesAreAtomic` | is `writeT` atomic, and how far behind is the client? |
| `bibo_answers` | `NothingUndefinedIsSent`, `AnswersInOrder`, `EndsOnRequest`, `WaitingEnds` | all commands and the empty line, Ctrl-C on both sides, files that cannot be opened, coalesced messages: what is sent, in which order, what ends the server, and does a client that has sent a line always get an answer or the end of the connection? |
| `queue` | `TypeOK`, `ServesWrittenSlots`, `QueueIsDrained` | does an interrupted main loop keep the queue in range, and does it take out what `count` counts, after a restart too? |
| `files` | `TypeOK`, `NothingIsRead`, `TableTruthful`, `AppendsKept`, `DeletesRequested`, `EverybodyEnds` | what do children that work on one table without a lock do to each other's files, and who waits for ever? |
| `bibak` | `TypeOK`, `OneFilePerConnection`, `NamesBeforeUploads`, `DeletesAskedFor`, `Termination` | what does a stream without message boundaries make of the requests of two threads, what can go wrong with a request that arrives by itself, and do both programs end? |
| `shell` | `TypeOK`, `RunsItsSegment`, `NoOrphans` | does a command get what its part of the line says, and does the shell wait for it? |

Each property is stated, with the code behaviour it is about, in the comment above
its definition. Each was seen to fail for at least one mutant of the code.

Some of these say more than they seem to:

* `SleepersHaveReason` is the property that one `signal` per pair is enough: as
  long as any consumer sleeps there are at least as many awake consumers as
  buffered pairs. A `signal` instead of the final `broadcast` breaks it.
* `DescriptorsAccounted` is an equation, so it excludes both a leak and a
  premature close. With `FdLimit` of 3 and a ring of 2 the second `open` of a pair
  does fail while the ring is in use.
* `BehindByOne` is what remains true although every answer the client prints is
  that to an earlier message (section 7): messages received together do not
  push it further behind, because the server then answers them once.
* `EndsOnRequest`: a client that leaves because it was answered, or because its
  thread has ended, never costs the server its life, although up to two answers may
  still be under way: the first `send` to a closed socket only breaks the connection.
  Only a client whose user pressed Ctrl-C does, a `killServer`, and a `writeT` whose
  file cannot be opened; and the operator, whom the property does not speak of.
* `WaitingEnds` is about a line that was sent. An empty one is in the run as well: its
  client waits for ever (section 7), and the other client's answers come all the same.
* `ServesWrittenSlots` holds although `count` is wrong after a lost update: an
  increment is lost, never a decrement, so `count` only lags behind. This needs
  that the server alone handles SIGUSR1; with children as well
  (section 7) it may also run ahead.
* `NothingIsRead`: `list_files` finds a file's size by moving the offset that all
  children share to the end, and every operation leaves it there or beyond. So
  `readF` and `download` never read a byte, whatever the interleaving.
* `AppendsKept`: two writers do get past the test of `writers` together, and yet no
  text is overwritten, because they share the offset. It is about the files that are there
  at the start. Text for a file that another child has uploaded never gets there (section 7).
* `TableTruthful` compares the directory with the entries that have a descriptor: the entry
  of an upload that could not create its file is in the table and stands for nothing. Two
  changes of the table that meet can leave it wrong; the property then says nothing, nor
  does `DeletesRequested` (`disturbed`; section 7).
* `EverybodyEnds` names the two ways in which a writer waits for ever, and says that there
  is no third; that these two are real is in section 7.
* `NamesBeforeUploads`: the client takes a name that the server sent at the start for
  the answer to `check:`; it uploads at most as many files as that.
* `DeletesAskedFor`: a request that one `recv` gives by itself is the user's own, however
  the stream before it was cut and whatever the server took that for, unless the
  other thread sent in the middle of a message (run `bibak_wrong_delete`). Nothing can be
  said of several pieces that one `recv` gives together: they may name any file (section 7).
* `Termination` (of `Bibak`) excepts the thread that waits in its own handler for the
  mutex it holds, and `NoOrphans` the two ways in which a command does outlive its line:
  a signal during `waitpid`, and the overflow of `child_pids`.
* `RunsItsSegment` compares what a child was given with a definition of what its part
  of the line says, which does not mention the shell's variables for it. It is about lines
  in which a redirection is followed by a name or by nothing: of `ls > | wc` the shell takes
  the pipe for a file name.

### Runs that are violated

They state what the code's comments, usage line or documents say, and TLC finds a
behaviour of the program that does otherwise: section 7.

## 4. What is proved

For every value of the constants that satisfies the named assumptions:

**`PCpProof`** (from `SizeAssumption`, `ConsumersAssumption`, `FilesAssumption`,
`BlocksAssumption`, `EnvironmentAssumption`):
`Invariance` (`Spec => []IInv`), and from it `TypeCorrect`, `Exclusion`, `NoLeak`,
`NoStrayTruncation`, `CompleteCopies`, `SafeCleanup`, `NoLostWakeup` and `NothingIsLeft`.

*The invariant.* `IInv` is `ControlInv` (who is where) and `DataInv` (what the
ring, the descriptors and the files hold). None of the properties is inductive by
itself. `DescriptorsAccounted` needs that `in` is `count` slots after `out`
(`RingInv`) and that occupied slots hold different entries (`SlotsInv`), or else
`Put` could overwrite a pair and `FinishCopy` close one that is still buffered.
These need that whoever is in the critical section holds the mutex and that the
loop condition it tested still holds (`RoomInv`). `ReportedIsComplete` needs that
blocks written follow blocks read, and that an entry is in one place only: unread,
in hand, buffered or copied (`EntryInv`, `SlotsInv`, `BlocksInv`). `CleanupIsSafe`
needs `MainInv`: what `main` has joined has exited.

*The ring.* The arithmetic of `% BUFFER_SIZE` is avoided in the invariant:
`Occupied` is defined by a comparison, and two lemmas say how `Put` and
`FinishCopy` change it.

*Wakeups.* `NoLostWakeup` needs cardinalities: a signalled consumer leaves the set
of sleepers and joins the awake ones, and the consumer that takes a pair stays
awake. The facts come from `FiniteSetTheorems`.

*Nothing left behind.* `NothingIsLeft` states `NothingLeftBehind` under the hypothesis
`NumConsumers > 0`; without a consumer `main` ends with the pairs still in the ring, so
the hypothesis is a condition on the command line and no weakness of the proof.
`CompleteInv` says that whatever can be opened is unread, in hand, buffered or copied.
An entry leaves that set only when `open` finds no descriptor. The open descriptors are
two per occupied slot and at most one in hand (`DescriptorsAccounted`), and the producer
opens only while a slot is free: `QueuedIsSmall` counts the occupied slots, and
`DescriptorLeft` concludes that with `FdLimit >= 2 * BUFFER_SIZE` there is always one.

**`PCpRefinement`**: `Refinement`, `Spec => ImplementsCopyQueue`. The mapping
reads the queue off the ring, oldest first, counts the entry in the producer's
hands as unseen, and `printed` as copied. `Put` is `Admit`, `FinishCopy` is
`Deliver`, `Finish` is `Close`, an entry given up is `Refuse`; every other step is
a stutter. It uses `IInv` as an invariant of the steps.

**`AppendProof`** (from `InstancesAssumption`, `BytesAssumption`,
`ContentsAssumption`): `Invariance`, `LowerBound` (`GrowsByTheLongest`),
`Overwriting` (`OnlySeekersOverwrite`), `AppendersLoseNothing` (`NothingLost`).
The invariant adds to the lower bound that an instance about to write at its
offset is past everything it wrote itself, and that the old contents are intact.

**`BibakProof`** (from `KeptAssumption` and `LocalAssumption`: directories are finite;
`GarbledAssumption`: what is no operation is not one of the server's): `TypeCorrect`,
`OneFile` (`OneFilePerConnection`), `UploadsFollowNames` (`NamesBeforeUploads`) and
`DeletesRequested` (`DeletesAskedFor`), for every set of files and any number of commands
and signals. *The invariant.* A file can be
opened only at the head of the server's loop, so `OneFileInv` says that after the
first one the thread never comes back there with anything left to receive: it is in
the upload loop, or ended, or the stream is empty and the client is gone, which stays
so because nothing is sent on a closed connection. `AnswersInv` counts: uploads begun
and names under way are together no more than names sent, since `recv` takes at least
one piece. *Deletes.* `OrderInv` follows a request from the prompt to the server. In what the
main thread has yet to send, and, while `mixed` is false, in the stream, `delete:` and
`update:` are followed by a name the user asked for (`NamesFollow`); the synchronising
thread sends neither. The stream may end in an operation whose name has not been sent:
then that name is the main thread's next piece (`OpenInv`), and the other thread cannot
send first without setting `mixed`. `recv` takes a piece or more from the front, and what
it leaves is in order too (`RestInOrder`). What the server removes on a text that is
exactly an operation and a name is then asked for; what it removes on any other is in
`misread`.

**`ShellProof`** (from `LinesFit`, `SizesAssumption`): `TypeCorrect`,
`NoneLeftRunning` (`NoOrphans`) and `RunsSegments` (`RunsItsSegment`), for every set of
lines. `IInv` adds that the words of the command and the tokens still to come are together
no more than the tokens of the line. *What runs.* `LineInv` says that `rest` is the end of
the line, and that the command and the descriptors put together so far are what the line
says up to there (`SoFarInv`). `Says` gives each word its place in the line, in
increasing order; a token extends it by one place (`NewWord`) or changes one file
(`NewRedirection`), and behind a pipe it starts again (`NewCommand`).

**`BiboThreadsProof`** (from `ClientsAssumption`, `JunkAssumption`,
`InitialAssumption`, `CommandsAssumption`): `Invariance` (`Spec => []IInv`), and from
it `TypeCorrect`, `Exclusion`, `NothingUndefined`, `Ordered`, `NeverFurtherBehind`,
`NoSilentDeath` (`EndsOnRequest`) and `Atomicity` (`WritesAreAtomic`, the refinement of
`TextStore`), for every number of clients and commands and any contents of the files. No run
checks `MutualExclusion` (`Exclusion`) by itself: the mutant that drops the mutex
breaks `WritesAreAtomic` in `bibo_store`.

*The invariant.* `AnswersInOrder` and `BehindByOne` follow the index of a command on
its way: in `inbox`, in the thread's hand, in `outbox`, on the screen. `OrderInv` says
that these four come after each other and that each is increasing; `BehindInv` that
whatever is under way while the client waits is the last command or the one before.
The proofs rest on what `recv` leaves of a sequence: a suffix, whose first index is
larger than the last one taken. `NothingUndefinedIsSent` needs that the first command
of a connection is the greeting (`ResponseInv`): its answer fills the buffer before
anything is sent. `EndsOnRequest` needs to count (`LeaveInv`): a connection that is
closed has at most one command left whose answer can be sent, and one that is broken
none. `WriterInv` ties `mutex` to the thread in `writeT` and a file about to be
written to one that exists.

*The refinement.* The mapping counts a `writeT` as done when it has opened its file for
writing for the last time: while it is at `fclose`, `Committed` shows the file as `FClose`
will leave it. So `FOpen` is the atomic write of a new file or of an append, `Rewrite` that
of a replaced line, which has emptied the file, and every other step stutters. Between
`FOpen` and `Rewrite` the file is what the thread has read: that only one thread is there
at a time comes from `WriterInv`. A `writeT` that crashes has written nothing. `Atomicity`
has the hypothesis `OnlyWriteTWrites`: no `upload` and no `killServer` among the commands,
and no operator that stops the server. Each breaks the refinement, not only its proof:
`upload` writes without the mutex, and the other two lose a text that is being rewritten
(section 7). The run `bibo_store` has the same restriction. A server that SIGPIPE or a
crash has ended in the middle of another thread's write stays where it is; the mapping
counts that write as done, although the file may have lost its text: `Committed` speaks of
a server that lives to close the file.

*Line numbers.* That `EndOfLine` is within the file is proved for every sequence
(`LinesEnd`): counting the line ends up to each of them is one-to-one, hence onto.

**`BiboQueueProof`** (from `SizeAssumption`, `GroupAssumption`,
`UnwrittenAssumption`): `Invariance`, `TypeCorrect` and `NoPhantomClient`
(`ServesWrittenSlots`), for every queue size and number of signals, children and
restarts, with the hypothesis `ServersGroup = {}`. Without it children handle SIGUSR1
as well and the statements are false (section 7). *The invariant.* `CountInv`: what
the handler has tested stays true while it runs, because the main loop stands still,
and what the main loop has tested stays true because the handler only adds. `RingInv`:
as long as `rear` has not been once around, `count`, corrected by the entry that is
written and not yet counted and by the one that is taken and still counted, is at most
the distance from `front` to `rear`, and everything before `rear` is written; after
that every slot is.

**`BiboFilesProof`** (from `ListedAssumption`, `RequestsAssumption`): `Invariance`,
`TypeCorrect`, `NoByteIsRead` (`NothingIsRead`), `TrueTable` (`TableTruthful`),
`NoTextIsLost` (`AppendsKept`) and `OnlyNamedDeleted` (`DeletesRequested`), for every
directory, every number of children and every set of requests, with the hypothesis
`Capacity`: there is an entry for every upload and a file for every download. The run checks
that its constants satisfy it. The code has no such test, and without it the index of an
upload leaves the table at either end (section 7), which is undefined. *The invariant.*
`CountInv`: `num_files`, and each value of it that a child has loaded, leaves room for the
uploads and the downloads that have not ended; a lost update does not matter, because a
child that stores is one less to come. `TableInv` speaks of the states in which no change of
the table has met another use of it. `KnowsInv` is what a child may rely on then: while it
scans, nothing before its index is what it looks for; a download's entry has the name it was
asked for; a claimed index is the first free one; a loaded counter is still the counter.
`Truth` compares the directory with the entries that stand for a file (`Standing`, and of
these the ones that have a descriptor): the table without the entry whose file has just been
deleted, and with the one whose file has just been made. It is inductive only while one
child at most changes the table (`OneChanges`). Two that do never both come to an end
without `disturbed`, and so `Truth` is back when nobody changes it any more.

**Only model-checked.** Liveness (`Termination`, `BufferedGetsCopied`,
`WaitingEnds`, `QueueIsDrained`, `EverybodyEnds`): TLAPS does not handle liveness under fairness.
Every invariant and every refinement a passing run checks is also proved.

## 5. Fairness

* `PCp`: weak fairness of the producer, of each consumer and of main. The kernel
  keeps running every runnable thread. A thread waiting for the mutex is enabled
  only while the mutex is free, and nothing promises it the mutex: the default
  mutex is not fair. Weak fairness of the whole thread suffices because the
  number of entries is finite.
* `BiboThreads`: weak fairness of each server thread and of the client's `recv`.
  None of typing: a user may stop. None of connecting or Ctrl-C.
* `BiboQueue`: weak fairness of the main loop, of the server's handler and of the
  SIGCHLD handler. None of children, clients or SIGINT. The number of SIGUSR1 sent
  to the server is bounded; a storm of signals could starve the main loop.

* `BiboFiles`: weak fairness of each child once it has read its request. None of
  the request itself, nor of `Fill`: what an upload reads from is an uninitialised
  descriptor and may block.
* `Bibak`: weak fairness of the client's threads together and of the server's
  threads together; each ends or makes progress by itself. None of the user's
  commands, of `exit`, or of SIGINT.
* `Shell`: no fairness, its properties are safety properties.

`CHECK_DEADLOCK FALSE` is used where the programs may stop without having ended: in
`pcp_faults`, whose consumers sleep for ever after `opendir` failed, and in the runs
of `Bibak`, where a client waits for an answer that does not come and a server whose
handler waits for a mutex its own thread holds. `Termination` says there when they do
end. All others check deadlock; the ends of the programs are explicit (`Terminated`,
`AtRest`, `Rest`).

## 6. Bounds

* **pCp.** A ring of two slots fills, empties and wraps twice with six entries, four of
  which can be copied: one more than there are consumers, so that a consumer that leaves too
  early is missed. Three consumers make a signal choose and let one consumer finish while
  another sleeps; one spurious wakeup at any point. Files of 0, 1 and 2 blocks exercise the
  copy loop. In `pcp_faults` two consumers are enough to leave one asleep while the other
  drains the ring. `BUFFER_SIZE` is 10 in the code: the theorems cover every size.
* **appendMeMore.** Three instances with up to three bytes each, a non-empty file.
* **BiboThreads.** Two clients with two commands each: the command behind `server_pid`, and
  the one behind that. In `bibo_answers` one of them appends, sends empty lines and may
  press Ctrl-C; the other gives every other command; any `fopen` for writing may fail, and
  the operator may stop the server. A file of two lines, or none. A third client adds no new
  pair of conflicting operations: conflicts are between two threads on one file.
* **BiboQueue.** A queue of two slots (ten in the code) that fills and wraps twice
  with four signals, and one child at a time, so that the next `fork` fails unless
  it has been reaped. One restart: it may find any segment the first server can leave.
* **BiboFiles.** Three children with one request each, of three or four, two files in
  the directory and one name that is not: two changes of the table can meet, with a
  third child in the middle of its own operation; two writers meet on one file; a
  reader meets an uploaded file.
* **Bibak.** One local file, whose name is the answer the client compares with
  (`exists`), so that both branches of the comparison are taken; one command, which is
  enough to meet the other thread; two SIGINT to the server, because the first
  reaches its main thread and the second the client's thread. The local and the user's
  names differ, and either may be in the directory on the server.
* **Shell.** Three lines out of six, with redirections without a file name, a pipe, also in
  place of one, words before and behind it, `:q` alone and in a pipe; three children (20 in
  the code), so that a fourth one overflows the table; two signals.

The bounds that limit counters are `MaxSpurious` (PCp), `MaxCommands`
(BiboThreads), `MaxKnocks`, `MaxRestarts` and `NumChildren` (BiboQueue; a `fork`
beyond it fails, as it may at any time), `MaxCommands` and `MaxInterrupts` (Bibak),
`MaxLines` and `MAX_FILES` (Shell), `MAX_FILES` (BiboFiles, where `Claim` waits instead of
overrunning the table).

## 7. Where code and documentation disagree

Three disagreements have a run that shows them:

| Run | Property | What happens |
| --- | --- | --- |
| `bibo_torn_read` | `ReadsText` | `readF` finds a file empty that has text: it has been truncated and not yet rewritten |
| `queue_lost_update` | `CountIsDistance` | the handler interrupts `count--`, and an entry stays behind |
| `bibak_wrong_delete` | `DeletesEntered` | a name of the client's other thread gets behind `delete:`, and the server removes it on a request that it receives by itself |

The models have the following behaviours as well; the formula in the last column is
false of them, and TLC finds a counterexample when it is checked with the
constants named.

| Code | What happens | Formula |
| --- | --- | --- |
| `pCp.c:132` | `opendir` fails, `done` is never set, consumers and `main` wait for ever | `<>(main = "done")`, in `PCpFaults.cfg` |
| `pCp.c:61` | `open` of a FIFO without writer blocks with the mutex held | `BufferedGetsCopied`, with an entry in `Fifos` |
| `pCp.c:117` | "Copied file" after a `write` that failed | `\A f \in printed : dst[f] = Blocks[f]`, with an entry in `WriteFails` |
| `pCp.c:190` | the buffer size of the command line is not used | `argv[1]` has no counterpart in `PCp`: nothing reads it |
| `HW4/biboServer.c:143` | `response` is never cleared: a successful `writeT` is answered with the previous response | `WriteIsConfirmed`, in `BiboTornRead.cfg` with `Clients = {c1}`, `Commands <- Appends`, `MaxCommands = 2` |
| `HW4/biboServer.c:230` | `killServer`, or the operator's Ctrl-C, during a rewrite loses the file's text | `ShutdownKeepsText`, in `BiboTornRead.cfg` with `Commands <- KillWrite` |
| `HW4/biboServer.c:112-113,117-120,131` | `writeT` does not look whether its `fopen` for writing succeeded: the null pointer ends the server for everybody | `EndsOnRequest` without `"crashed"`, in `BiboAnswers.cfg` |
| `HW4/biboClient.c:50` | the first command is answered with the answer to `server_pid` | `user[c] = "prompt" /\ typed[c] > 0 => shown[c] = {typed[c]}` |
| `HW4/biboServer.c:191` | answering twice a client that is gone ends the server | `EndsOnRequest` without `link[c] = "broken"`, in `BiboAnswers.cfg` |
| `HW4/biboClient.c:60` | an empty line makes client and server wait for each other | `WaitingEnds` without `asked[c].op # "empty"`, in `BiboAnswers.cfg` |
| `biboServer.c:165` (MIDTERM) | a rejection signals the server's own process group: `pid` is what `waitpid` returned, and it is 0 | `RejectionSparesServer`, in `BiboQueue.cfg` |
| `biboServer.c:155` (MIDTERM) | server and child enqueue at once: `count` above `MAX_CLIENTS` | `count <= MAX_CLIENTS`, with clients in `ServersGroup` |
| `biboServer.c:138` (MIDTERM) | entries of the queue are results of `waitpid`, not clients | `child[k] = "serving" => served[k] \in Clients` |
| `biboServer.c:83,142` (MIDTERM) | a child that ended is never waited for | `child[k] = "zombie" ~> (child[k] # "zombie" \/ server # "up")` |
| `biboClient.c:38-50` (MIDTERM) | a client is "connected" because it signalled itself | `connected[c] => \E s \in Slots : queue[s] # Unwritten` |
| `biboClient.c:175` (MIDTERM) | a connected client waits for ever for its answer | `client[c] = "waiting" ~> client[c] = "gone"` |
| `biboServer.c:506-519` (MIDTERM) | `download` deletes a file of which it has sent nothing | `SentBeforeDeleted`, in `BiboFiles.cfg` |
| `biboServer.c:375-379` (MIDTERM) | two writers at a file, or a reader and a writer | `\A i \in Indices : files[i].users["writers"] <= 1`, in `BiboFiles.cfg` |
| `biboServer.c:375-410` (MIDTERM) | a lost update of `writers` makes the next writer wait for ever | `EverybodyEnds` without `disturbed`, in `BiboFiles.cfg` |
| `biboServer.c:312-316` (MIDTERM) | a child that reads a line of a file another child uploaded dies with `readers` raised, and a writer waits for ever | `EverybodyEnds` without `"crashed"` in `LeftBehind`, with one child each that uploads, reads a line of and writes to `n` |
| `biboServer.c:407` (MIDTERM) | what is appended to a file another child uploaded is lost: the descriptor in the table is that child's | `At(c, "append") => Fd(c) \in Listed`, with the same requests |
| `biboServer.c:450,466` (MIDTERM) | an upload whose file cannot be created is counted in the table and reported as successful | `TableTruthful` with all names in `InTable` for `Present`, in `BiboFiles.cfg` |
| `biboServer.c:526,448` (MIDTERM) | several downloads of one file make `num_files` negative, and an upload writes in front of the table | `num_files >= 0`, in `BiboFiles.cfg` with one file, two downloads of it and an upload |
| `biboServer.c:290` (MIDTERM) | `unlink(buffer)` removes the file an unknown one-word request names | `DeletesRequested` without `"other"`, in `BiboFiles.cfg` |
| `biboServer.c:521` (MIDTERM) | a `download` overtaken by another deletes a file nobody named | `DeletesRequested` without `disturbed`, in `BiboFiles.cfg` |
| `BibakBOXServer.c:118-178` (FINAL) | `check:` is no request of the server: the client waits for ever | `syncPc = "answer" ~> syncPc # "answer"`, in `Bibak.cfg` |
| `BibakBOXServer.c:115,139,153` (FINAL) | pieces received together are joined, and contents of a file may be read as a request: a file is removed that nobody named | `DeletesAskedFor` without `misread`, in `Bibak.cfg` |
| `BibakBOXServer.c:115-118` (FINAL) | contents of a file that are no request, such as a null byte, give no operation: `strcmp` of a null pointer ends the server | `thread = "loop" => server # "killed"`, in `Bibak.cfg` |
| `BibakBOXServer.c:199` (FINAL) | a second SIGINT may find the thread with `logMutex` and wait for it for ever | `thread # "stuck"`, in `Bibak.cfg` |
| `BibakBOXClient.c:163,334` (FINAL) | the argument of the thread is freed twice when `opendir` failed | `mainPc # "aborted"`, in `Bibak.cfg` |
| `HW2:152` | a signal while a command runs ends the shell, and the command goes on | `NoOrphans` without `armed # Signals`, in `Shell.cfg` |
| `HW2:149` | the 21st child's pid is written behind `child_pids` | `NoOrphans` without `Overflows`, in `Shell.cfg` |

## 8. Not modelled

* pCp: subdirectories (the code does not recurse; `read` of one fails, which is
  modelled), names longer than the buffers, failure of `pthread_create`,
  `handle_signal` (never installed).
* HW4: negative line numbers, files of more than 1000 lines, missing arguments and names
  longer than the buffers (undefined behaviour), the text of listings, `max_clients` and
  `pool_size` (not used to limit threads). `fopen` for reading (`"r"`) is taken to succeed
  for a file that exists; for one that does not, `"w"` may succeed or fail.
* MIDTERM: the answers to the clients (they go to a FIFO named by an uninitialised
  pid), sizes and the listing, a table of more than `MAX_FILES` files, children that
  outlive the server's SIGKILL, `upload` after the end of `send_request`'s FIFO. What an
  upload may read from its uninitialised descriptor, when that is a terminal or a FIFO, is
  not written to the file: a file created by an upload has no contents in the model, and a
  listed file that is created anew becomes empty.
* FINAL: pieces that arrive in part (`send` and `recv` of a few bytes are not cut), names
  that are empty or have a colon, a file called `(null)`, the byte behind a buffer that
  `recv` filled, more than one connection, the reuse of `threadPool`'s slots (nothing
  reads it), the text of the log.
* HW2: more tokens than `MAX_COMMANDS`, exit status messages, the contents of the log
  file, what exactly the overflow of `child_pids` overwrites (the shell goes on or ends).
* Makefiles, assignment texts and reports have no behaviour of their own.

## 9. Plan

In this order:

1. `BiboThreads`: negative line numbers and missing arguments.
2. `Bibak` with two connections, which share `logMutex`.
