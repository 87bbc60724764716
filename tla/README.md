# Verification of the file transfer (system_call)

TLA+ modules, TLC configurations and TLAPS proofs for the application under
`src/src/sistemi_operativi/system_call`: a program `client_0` that looks for
files called `sendme_*`, forks one child per file, and lets the children send
each file in four parts over four IPC channels to a program `server`, which
puts the parts together again and writes an output file beside each input.
File names below without a path are in that directory.

The repository also holds the teacher's solutions of the course on which the
application is built (`src/soluzioni`). Its concurrent programs use the same
primitives (FIFOs, pipes, shared memory, message queues, semaphores, signals)
in a purer form, and are modelled too, as eight small modules.

Contents: 1 the system; 2 the plan; 3 the modules; 4 the runs; 5 bounds;
6 fairness; 7 assumptions; 8 proofs; 9 disagreements with docs and comments;
10 what is not modelled.

## 1. The system

### Parts, their state and their operations

| part | code | state | operations |
|---|---|---|---|
| Client_0 | `client_0.c` 54-275 | `filePaths`, `filePathsCounter`, signal mask | the handlers of SIGINT (one *round*) and SIGUSR1 (end) |
| children | `client_0.c` 168-252 | four messages, `filemandati[4]`, index `i` | load, wait at the gate, poll and send on each medium, exit |
| server | `server.c` 40-210 | `filesCounter`, `messagesReceived`, `messages`, a copy of the semaphores | read the count, poll the media, sort, write the outputs, send `FINITO` |
| channels | `fifo.c`, `shared_memory.c`, `defines.c`, `semaphore.c` | FIFO1, FIFO2, MsgQueue, 50 slots of ShdMem; one semaphore per guarded channel; `CLIENTSemId[0..1]`; `serverOk` | `semOp`, `getSemValues`, `initSemaphores`, read, write, `msgsnd`, `msgrcv` |
| message codec | `fs.c` 96-191 | `struct ApplicationMsg`, the serialised text | `buildMessages`, `serializeMessage`, `deserializeMessage` |
| sorting | `defines.c` 24-57 | the server's array | `sortMessages`, the loop of `server.c` 185 |
| file store | `fs.c` 30-112, 193-233 | the directory, `filePaths` | `loadFilePaths`, `buildMessages`, `writeOutFile` |
| signals | `client_0.c` 54-71, 295-318 | mask, pending signals, nested handlers | `blockAllSignals`, `blockSomeSignals`, entry and return |
| error exit | `err_exit.c` | none | `perror` and `exit(1)` |

The course solutions, below `src/soluzioni`:

| part | code | state | operations |
|---|---|---|---|
| fifo request server | `solutions_fifo/ese_3` | the name `/tmp/fifo_server` and the pipe behind it, an alarm, the clients' FIFOs | start, serve, `quit()` by SIGALRM and SIGINT; a client asks, waits, or dies |
| shared memory copy | `solutions_shared_memory/solutions/ese_4`, `ese_5` | the client's segment, three semaphores | create and initialise, ask, copy at once or by chunks, remove |
| message queue orders | `solutions_message_queue/solutions/ese_1` to `ese_3` | the queue, its identifier | `msgget`, `msgsnd`, `msgrcv` in three ways, the SIGTERM handler |
| pipe producers | `solutions_pipe/ese_1`, `ese_2` | one pipe, who has its write end | fork, read a file and write items, read size and value, end of the pipe |
| ping pong | `solutions_pipe/ese_3` | two pipes, four ends per process | fork, close the unused ends, write and read in turn |
| semaphore order | `solutions_semaphores/solutions/ese_1`, `ese_2` | three or four semaphores | fork, wait, print, unlock the next, meet |
| signal relay | `solutions_signals/solutions/signal/ese_3` | masks, handlers, pending signals | fork, block, install, unblock, pause, `kill` |
| stop and resume | `solutions_signals/solutions/signal/ese_4` | what `waitpid` has reported | SIGSTOP, SIGCONT, `waitpid`, the SIGINT handler |

### A round

1. SIGINT runs the whole round in the handler. Client_0 scans the directory,
   sets every semaphore (`SETALL`), and writes the number of files on FIFO1 as
   four bytes, the same pipe that will carry messages as text ending in `'\0'`.
2. The server reads the count, allocates `filesCounter * 4` messages and sets
   `serverOk` in shared memory; Client_0 polls it and clears it.
3. Client_0 forks one child per file. A child loads its file, takes one unit of
   `CLIENTSemId[0]`, which started at the number of files, and waits on
   `CLIENTSemId[1]`. Client_0 polls the first until it is 0 and adds as many
   units to the second.
4. Each child goes round the four media until it has sent part *m* on medium
   *m*. A guarded channel is 2 when free; `semOp(-2)` takes it, `+1` marks it
   full, and the server's `+1` frees it. The test for 2 and the `semOp` are two
   system calls. Files 0 and 50 share a slot.
5. The server goes round the same media until it has all parts, sorts them,
   writes one output for every four, and puts `FINITO` on MsgQueue.
6. Client_0 waits for its children, calls `msgrcv` with its last two arguments
   swapped, which fails at once (section 9), and returns from the handler.

### What is hard

* Client_0, up to 100 children and the server interleave at every system call,
  with tests and locks in different calls.
* One pipe carries two kinds of message with nothing between them.
* The server's work on a round overlaps with the next round's scan and reset.
* The server works through a snapshot of 50 semaphores that change under it.
* A child whose fork fails is still counted, at the gate and by the server.
* The message queue is full after very few messages.
* Everybody polls; nobody is woken. Nothing queues for a channel.
* Sorting is not stable and the second pass ignores the PID.
* The text of a message has delimiters that its content may contain, and a
  buffer exactly as long as the longest part.
* Signals arrive inside handlers, with masks that the return undoes.
* The outputs of a round are found by the next scan.

In the course solutions:

* The alarm of the FIFO server is off exactly where it blocks on one client,
  and its two signals share a `quit()` that is not safe against itself. The
  name of the FIFO and the pipe behind it have different lives.
* A semaphore set exists before it is initialised, and is removed by the client
  while the server may still use it. One buffer carries every chunk.
* SIGTERM may come before `msqid` is stored. A type of -2 lets later orders
  overtake earlier ones. A full queue blocks its senders, over restarts.
* Items of several writers share a pipe and are read in two parts. An end kept
  open by mistake, in any process, hides the end of the pipe.
* A unit goes round the semaphores of children that may not all exist.
* Signals go from process to process and must not arrive before a handler; a
  stop is reported once, and SIGTERM does not end a process that is stopped.

`PROJECT.json` lists these hazards line by line with the properties that
concern each.

### What makes each part correct

* Round protocol: one process at a time uses a guarded channel
  (`ChannelOwnership`); a pipe never shows a reader the wrong kind of message
  (`Framing`); every part that was sent is in exactly one place
  (`EachPartOnce`); the server never counts past its array (`NoOverrun`); no
  child sends before all have loaded (`BarrierHolds`); a round starts from
  channels at rest (`RoundsStartAtRest`); it ends, with its outputs
  (`RoundEnds`, `OutputsWritten`, `ChildEnds`).
* Codec: the split keeps every character, a part without delimiters arrives as it
  was sent.
* Sorting: every output holds the four parts of one file in order.
* Signals: a round is never interrupted, every signal is answered.
* File store: a name tells what is in the file, a round writes what it read.
* Client and server of the course: nothing accepted is lost, doubled or served
  out of order (`RequestsServedOnce`, `ChunksShownOnce`, `OrdersServedInOrder`);
  nobody waits for ever (`NobodyWaitsForEver`) and nothing stays behind
  (`RemovedAtEnd`), but for the exact cases those properties name.
* Parent and children of the course: a pipe keeps items whole and in order
  (`PipesKeepOrder`), messages come out in turn (`InOrder`), no signal is lost
  (`SignalsArrive`), and everybody ends (`EverybodyEnds`).

## 2. The plan

Done, in this order:

1. `Transfer`, the round protocol, with its MC module and `TransferProofs`;
2. `Delivery` and `TransferDelivery`, the abstract promise and the mapping;
3. `SortMessages` and `SortMessagesProofs`;
4. `Messages`, the codec;
5. `ClientSignals` and `ClientSignalsProofs`;
6. `Store`, the directory over several rounds;
7. the concurrent course solutions: `FifoServer`, `SharedCopy`, `Orders`,
   composed in `ClientServer`; `PipeItems`, `PingPong`, `SemaphoreOrder`,
   `SignalRelay`, `StopResume`, composed in `Families`;
8. the inductive invariant of `Transfer` and, in `TransferTheorems`, all its
   safety properties and the refinement; `StoreProofs` and `MessagesProofs`;
9. `ClientServerProofs` and `FamiliesProofs`, with an inductive invariant for
   each of the eight programs.

Every invariant and every action property that a passing run checks is now also
a theorem. What could follow: the inductive facts about `Strstr` and `Atoi` as
lemmas for parts that are not clean (section 8, last paragraph).

## 3. The modules

Each definition's lines are in `PROJECT.json` under `map`.

**Transfer** has a control point per process (`pc0`, `pc[i]`, `spc`) and one
action per system call on a shared object, with the local code up to the next
one. `sem`, `mqsem`, `clientSem`, `fifo`, `shm`, `msgq`, `serverOk` are the
kernel's objects. A message is the pair of file and medium, `Count(k)`,
`Finito` or `NoMsg`; a pipe is a sequence of whole messages, because a message
is written in one `write` and read to its end before anything else is. `torn`
is a history variable: the channels that a reset has declared free while a
part was in them.

| actions | code |
|---|---|
| `SigInt`, `ResetGuards`, `ResetCounters`, `SendCount`, `SeeServerOk`, `ClearServerOk` | `client_0.c` 103-150, `semaphore.c` 59-88 |
| `Fork`, `ForkFails`, `ForksDone`, `SeeAllReady`, `ReleaseChildren`, `Reap`, `CloseRound` | `client_0.c` 156-275 |
| `Load`, `Ready`, `Go`, `Poll`, `Lock`, `LockQueue`, `WriteFifo`, `WriteShm`, `WriteQueue`, `Unlock` | `client_0.c` 170-251 |
| `SrvStart`, `ReadCount`, `SetServerOk`, `LoopTest` | `server.c` 43-79 |
| `SrvPollFifo`, `SrvReadFifo`, `SrvPostFifo`, `SrvReceive`, `SrvPostQueue`, `SrvSnapshot`, `SrvReadShm`, `SrvPostShm` | `server.c` 88-178 |
| `WriteOutputs`, `SendFinito` | `server.c` 181-208 |

**Delivery** says what a round promises: it is announced, taken up, its parts
arrive once each in any order, the outputs are written from all of them, and it
is closed. **TransferDelivery** gives the refinement mapping. A round counts as
announced from the scan on, and as taken up when the server reads the count;
the next one may be announced while the server is still at work.

**SortMessages** is the server's array: `Receive` puts the parts of the files
in any order, `SelectFirst` and `Swap` are the two nested loops of
`sortMessages` step by step, first over the whole array by PID, then over each
group of four by medium; `WriteOutFile` takes four elements at a time. PIDs are
distinct, since Client_0 forks all its children before it waits for any.

**Messages** is the codec on sequences of characters. Here the conversion is
the subject, so it is modelled by what it does: `strncat` to the first
terminator, `strstr` for the first delimiter, negative lengths copied as the
huge `size_t` they become, `payload` and `path` adjacent in the struct, the
array of `malloc` with what the round before left in it. The name of the
output comes from `msgs[0].path`: when the text of the first part has displaced
that path, `OutputFails` ends the server without an output (phase `failed`), as
the write through `strstr`'s NULL or `ErrExit` do; `WriteOutFile` needs a path
that names the output, or a text that happens to spell another name.

**ClientSignals** has the mask, the pending signals and a stack of running
handlers with the mask each will restore. `SIGTERM` stands for every signal
left at its default.

**Store** is the directory over rounds. A name is a sequence of pieces, a
content is an input and the number of times it has been written out. `Scan`,
`Serve`, `OpenOut`, `NameFails`, `OpenFails`, `CloseOut` are the program,
`Overflow` and `SendUnread` its undefined behaviours, `Remove` the user.

The modules of the course solutions have one variable per control point and one
action per blocking call, signal handler or kernel object touched.

**FifoServer**: `pipe` numbers the pipe that the name stands for, `fd` the one
a client holds, so that a client of a former server is told from one of this.
`Start`, `SetHandlers`, `Listen`, `ReadRequest`, `RemoveAlarm`,
`OpenClientFifo`, `Respond` are `main` and `sendResponse` in order; `QuitFrom`,
`QuitUnopened`, `Unlink` are `quit`, cut where the second signal can come;
`BrokenPipe` and `Die` are the ends the code does not write down. `taken` is a
history variable: the signals that the last server has taken.

**SharedCopy** has both exercises, by `exercise`. A chunk is what one `read`
returns, and what the client prints of it: an element of `Texts`, each with its
identity, or one of the two on which the client's loop ends, by their first
byte. The set may be there from an earlier run with any values (`left`), and
the segment with any chunk (`buffer`): `semget` keeps the values, `SetAll`
erases them and what was posted before it, and `RemoveSet` may come before the
server's last `Acknowledged`.

**Orders** has the three servers. `SignTermHandler` may run at every control
point, `MaxStarts` servers follow one another, and a client keeps the
identifier of the queue it has found. Histories: `rank` is the place of an
order among all that `msgsnd` has accepted (`sent`), `before` what had been
received when it was.

**PipeItems** has both exercises: an item is two units in the pipe, written in
one step and read in two; `writers` is who holds the write end.

**PingPong** has both processes with all four ends each; `Kill` takes one away
at any moment.

**SemaphoreOrder** has both exercises; `Turn(k)` is whose message comes after k.

**SignalRelay** and **StopResume** have masks, handlers and pending signals per
process; delivery is an action. The handler of child2 takes two,
`SigHandlerChild2` for its `kill` and `ExitChild2`: the parent and child1 may
run, and child1 end, between them.

**ClientServer** and **Families** put the programs side by side, choose one in
`Init`, and run it alone: they have nothing in common, so that their product
would add nothing. Each wrapper property is the conjunction of the parts it
names, one per program. All parameters of the programs are constants of these
modules; `MCClientServer` and `MCFamilies` only give them values for TLC.

Each module with proofs (`TransferProofs`, `TransferTheorems`,
`SortMessagesProofs`, `ClientSignalsProofs`, `MessagesProofs`, `StoreProofs`,
`ClientServerProofs`, `FamiliesProofs`) extends the module it is about and
leaves it alone; section 8 says what is in them.

Operators called "Mutant" in a comment are slips the code could have had
(a test without its guard, an off-by-one, a missing post). Nothing uses them:
substituted for the definition next to them, each makes the property it is
listed with in `PROJECT.json` fail, so that no property holds by default.

## 4. The runs

| run | shows |
|---|---|
| `rounds` | two rounds of up to two files that share both pipes, the queue's last unit and one slot, failing forks and a SIGINT at any moment: the invariants of `Transfer` that concern several children (1.8 million states) |
| `later_rounds` | four rounds of at most one file, a queue of two messages: closing messages pile up, a reset under a part has the effects `TornChannels` names, every round starts at rest, one that is in time and has room ends; the rounds, overlapping as they do, implement `Delivery` |
| `liveness` | two children, a queue of one message, so that `msgsnd` blocks with the semaphore open: the round ends, the outputs are written, no child polls for ever; the parts of two files reach the outputs as `Delivery` says |
| `closes_early` | violation: Client_0 waits for signals again before the outputs exist |
| `sort` | all orders of arrival of the parts of two files |
| `text` | all texts of up to six delimiter characters, and of two kinds of them up to ten, whose parts fill the payload: clean parts arrive, full ones with their path behind them, and only a `", "` in the first part ends the server |
| `delimiters` | violation: a part other than the first that contains `", "` is cut there |
| `signals` | five signals at any moments |
| `store` | three rounds over four files whose output names collide |
| `read_only_output` | violation: the second round cannot open the outputs of the first, and the server exits |
| `client_server` | the three client-server exercises: two clients and two starts of the FIFO server, files of up to two chunks of each kind and two of three in which a chunk comes again, sets and segments left with every value, three clients and two starts of the order servers with a queue of two (270 000 states) |
| `families` | the five parent-and-children exercises: three producers, one of whose files does not open; -1, 0, 1 and 3 rounds of ping pong with kills; up to three rounds of four semaphores with every set of failed forks; the relay and the stopped child in every order (1 800 states) |

`TornChannels` deserves a word: it does not say that a reset under a part is
harmless but exactly what it does. If the server had not yet seen the part,
it never will, stays one part short, and Client_0 waits for `serverOk` for
ever; if it had, its `+1` takes the semaphore to 3 and no child of the new
round sends on that channel. `FinitosPileUp` likewise describes the queue that
nobody empties.

### Further configurations

Not among the runs, kept because each shows one more disagreement (section 9).
Each ends in a violation of the one property it names.

| configuration | property | shows |
|---|---|---|
| `MCTransferQueueFull.cfg` | `TimelyRoundEnds` | the queue is full of closing messages and a child waits in `msgsnd` for ever |
| `MCTransferEarlySigInt.cfg` | `EveryRoundEnds` | a SIGINT while the server receives hides a part from it for ever |
| `MCTransferForkFails.cfg` | `GateOpens` | after a failed fork the gate never opens |
| `MCClientSignalsOther.cfg` | `OthersBlocked` | after a round, another signal still kills Client_0 |
| `MCMessagesFull.cfg` | `FileWhole` | a part as long as `payload[]` runs on into the path |
| `MCMessagesReused.cfg` | `FileWhole` | the second round's text is appended to the first's |
| `MCStoreNoExtension.cfg` | `OutNameExists` | a name without `.txt` ends the server |
| `MCStorePaths.cfg` | `PathsFit` | the outputs overfill `filePaths` in the next round |
| `MCStoreSize.cfg` | `SizeTested` | an output that was being written at the scan is too long when read |
| `MCStoreRemoved.cfg` | `OnlyLoadedSent` | a file removed after the scan: four unfilled messages are sent |

## 5. Bounds

* `MaxFiles = 2`, `Slots = 1`: two children race for both pipes and for one
  slot, as files 0 and 50 do. A third child adds a second loser of the same
  race. In `liveness` they have two slots, so that only the queue blocks them.
* `MsgQueueInit = 1` in `rounds`: fewer units than children, as the code's 50
  with more than 50 files, so that two children see the last unit and one of
  them blocks in `semOp`. In `liveness` it is 2, so that `msgsnd` is what blocks.
* `MsgQueueCap`: the kernel's limit of 16384 bytes holds three messages of
  5000. One and two are used so that it is reached in few rounds.
* `MaxRounds`: a second round starts from what the first leaves; four rounds
  fill the queue, tear a channel and repair it.
* `SortMessages`: two PIDs give all 8! arrivals and both kinds of disorder.
* `Messages`: `PayloadSize` is 2 or 3 instead of 1000. What matters is whether
  a part is shorter than, or as long as, the array, and the remainder by four.
  Six characters put a whole delimiter in the first two parts, seven to ten in
  any, and nine and ten fill one or two payloads of three, next to shorter ones.
* `ClientSignals`: five signals nest up to five handlers and leave signals
  pending at every depth.
* `Store`: three rounds are enough for an output of an output; `Room` bounds
  how often a file is written out and still found.

* `client_server`: two clients are enough for one behind another in the FIFO;
  a second start finds the name, the set or the queue of the first. Three
  orders are one more than the queue holds, and are the least for one to
  overtake while another waits, and for two of one kind to be told apart.
  Two texts tell a chunk from the one before; files of three have the same chunk
  twice, in a row and not, and the others a wrong end at every place. A left-over
  semaphore of one is enough to let a wait pass.
* `families`: two producers race and a third fails; a pipe of four units is
  full with two items. Three rounds show the unit come back twice.

## 6. Fairness

`Transfer`: weak fairness of Client_0, of every child and of the server, each
as a whole: the kernel runs a process that can take a step. No strong fairness
is assumed of `semop`: a child that loses a race blocks in it and stays
enabled whenever the channel is 2, and its only rivals send one part each.
Signals are never owed. `ClientSignals`: weak fairness of Client_0, whose steps
include the delivery of a signal that is pending and not blocked, which the
kernel owes; none of sending. That a round ends is taken from `Transfer`. `SortMessages`, `Messages` and `Store` have only
safety properties.

The course solutions have weak fairness of every process as a whole, again
because the kernel runs what can run. An alarm is owed, since it is a clock; a
SIGINT, SIGTERM or kill from outside, the death of a client and a further start
of a server are not. In `StopResume` the sibling's SIGSTOP is owed because it
comes after a sleep. `semop` and `msgsnd` are weakly fair: a process that waits
in them is enabled again and again only while others are served, of whom there
are finitely many.

`CHECK_DEADLOCK FALSE` is used only where the program really stops: in runs in
which the queue is full or a part is hidden. A server listening and a Client_0
asleep are the stuttering action `Quiescent`.

## 7. Assumptions

* Linux: `msgrcv` with flags -2, that is with `MSG_COPY | MSG_EXCEPT`, fails
  with EINVAL. The compiled program behaves so: the call returns at once, the
  closing messages stay on the queue, and with one file the fourth round stops.
* System calls other than `fork` and the open of an output succeed.
* A `write` of a message fits the pipe and is atomic for the reader, since the
  semaphore is posted only after it.
* A fresh System V semaphore is 0, as on Linux.
* `PID[10]` and `path[4000]` are long enough (`pid_max` has at most 7 digits).
* No directory has `.txt` in its name (`Store`).
* Course solutions: `signal()` restarts the call it interrupts, as the C
  library does in the default dialect; a write of at most `PIPE_BUF` bytes is
  atomic; with job control the kernel ends or resumes an orphaned group
  that has a stopped member. `quit()` closes its descriptors in one step. A
  client whose user gives a wrong answer ends without effect and is left out.
* `Messages`: no directory is named by delimiters and PIDs alone, so that a path
  such as `7, /home` cannot be opened; the input is called `.txt` and its output
  may be opened again. What happens otherwise is the subject of `Store`.

## 8. Proofs

Constants are arbitrary, under the assumptions that each module names
(`ConstantsAssumption` and so on: natural numbers, at least one slot).

### The round protocol

* `TransferProofs.TypeCorrect`: `Spec => []TypeOK`. One lemma per process; the
  typing itself is inductive.
* `TransferProofs.Barrier`: `Spec => []BarrierHolds`. `BarrierHolds` is not
  inductive: the step that opens the gate looks only at a counter. `GateInv`
  adds that, from `initClientSemaphore` on, `CLIENTSemId[0]` is the number of
  files whose child has not taken its unit (`GateCount`, a cardinality over
  `Loading`), that the second semaphore has units, and children past it, only
  once that number is zero (`GateOpened`), and which children exist at each
  point of the forking loop (`Forked`). A file whose fork failed stays in
  `Loading`, so the gate then stays shut: safe, and stuck.
* `TransferProofs.Invariance`: `Spec => []Inv`. None of the other properties is
  inductive either, and each needs the same facts, so that there is one
  invariant for all. Before the proof TLC checked its conjuncts on one file
  over four rounds and on two files with one slot, two rounds and failing forks.

| conjunct | says | needed because |
|---|---|---|
| `GateInv`, `PhaseInv`, `ChildInv` | which children exist at each point of Client_0, who is past the gate, and that a child marks a medium once and after its use | a reset must meet no child between two `semOp` |
| `RoundInv` | while a round is announced and its count unread (`Pending`) no child exists and the server is at work on, or done with, the round before; from then on both agree on the number of files | two rounds overlap: the next scan, reset and count come while the server is in its loop |
| `CountInv` | the messages counted are parts handed over in the round in service, each once, and all of them once the loop is left | the loop tests a number, the outputs need the parts |
| `ServerInv` | where the server's snapshot, its slot and the message in its hand can be | it acts on values it has read several system calls ago |
| `SemInv`, `LoadedInv`, `DueInv`, `FreeInv` (for each channel) | at most one child is inside, and then the semaphore is 0; a channel is loaded exactly when a part is *due* on it (sent, not yet counted), and holds that part and behind it at most the next round's count; an unloaded channel is empty and the server is not in it | children lock after a test, the server never locks, and a reset turns 1 into 2 |
| `TornInv` | no child of a round uses a channel that its SIGINT tore | a torn channel is loaded though its semaphore says free |
| `QueueInv`, `UnitsInv` | the queue holds each due part of its medium once, and closing messages; a unit is out only for a child inside or a part that is due | `AtRest` says how many units are there |
| `FinitosInv` | the closing messages are as many as rounds announced, less the one pending and the one in service | `msgrcv` fails, so nobody takes them |
| `OutInv` | the outputs are those of the round served last | the refinement shows them |

* `TransferTheorems`: `OwnershipHolds`, `FramingHolds`, `TornHolds`,
  `NoOverrunHolds`, `FinitosHold` and `EachPartOnceHolds` state the invariants
  of the runs, `RestHolds` the action property `RoundsStartAtRest`. Each
  follows from `Inv` without another look at the steps. `EachPartOnce` counts
  the places of a part: the invariant gives a place, and that any two are one.
* `TransferTheorems.Refinement`: `Spec => ImplementsDelivery`. Under `Inv` the
  mapped variables say the same as the program's: the count is unread
  (`CountUnread`) exactly in a pending round, and `Finitos` is a function of
  the rounds and of the two control points. `SigInt` announces, `ReadCount`
  takes up, counting a message is an arrival, `WriteOutputs` writes and
  `SendFinito` closes; every other step leaves the mapped variables alone.

### Codec, sorting, signals and store

* `MessagesProofs.TypeCorrect`: `Spec => []TypeOK`, for every alphabet, length of
  text and size of payload; with it, no payload outgrows its array.
* `MessagesProofs.Splits`: `Spec => []SplitWhole`. The four lengths of
  `buildMessages` sum up to that of the text whatever its remainder by four
  (`PartLens`), each part starts where the one before ends (`Starts`), and
  every position of the text falls in one part (`Split`).
* `MessagesProofs.CleanArrives`: `Spec => []CleanPartsArrive`. The lemmas follow
  the code: `BuffTable` says what stands at each position of the serialised
  text; `Found` and `FoundClean` where the first delimiters are, the latter
  that for a clean part they are those that `serializeMessage` has put there;
  `DeserializeClean` that the fields between them are the ones sent, a part that
  fills `payload[]` with its path behind it. The invariant adds what a message in
  a slot was made from (`TakenInv`). That only a first part with `", "` ends the
  server follows from where the delimiters of a part with brackets only are.
* `SortMessagesProofs.Rearranges`: `Spec => []NothingLost`. Arrivals and both
  passes keep the array a list of distinct parts that were sent.
* `SortMessagesProofs.Sorted`: `Spec => []SortedByPidAfterPass`, for the first
  pass, from `PidPrefix` (the sorted prefix is below the rest).
* `SortMessagesProofs.Outputs`: `Spec => []OutputsWhole`, for any number of
  files, any PIDs and order of arrival. After the first pass the array is
  ordered by PID. Four parts have each PID, so the number of parts with a smaller PID is a multiple of
  four (`FourEach`, `Groups`) and every group of four belongs to one PID
  (`OneChildPerGroup`). The second pass permutes within a group
  (`MediumPrefix`), and four distinct parts of one PID ordered by medium are
  parts 0 to 3.
* `ClientSignalsProofs.Undisturbed`: `Spec => []RoundUndisturbed`, for any
  number of signals and any depth of nesting: a handler past its
  `blockAllSignals` blocks everything, so that it is on top of the stack; the
  invariant carries the types of the stack.
* `SortMessagesProofs.TypeCorrect` and `ClientSignalsProofs.TypeCorrect`:
  `Spec => []TypeOK` of both. For the second, that there are at most as many
  rounds as signals is not inductive; `CountInv` counts together the rounds
  run, a pending SIGINT and a handler that is still to start its round, which
  never exceed the signals sent.
* `StoreProofs.NamesTell`: `Spec => []NameTellsContent`, for any number of rounds and any
  names of the inputs, several `.txt` and `_out` in them included. `OutNameFacts` shows that
  the name of an output is cut where `writeOutFile` has put `.txt`, so that its
  stem is that of the file with one more `_out`. A file loaded in a round has
  at most as many `_out` as rounds were taken up before (`DirInv`, `Served`).
* `StoreProofs.RoundsWritten`: `Spec => []RoundWritten`. `WrittenInv` says in the
  middle of the round which of its files are through: `todo` are not, and the
  output name of any other holds what was loaded for some file of that name,
  also if a later output of the round was written over it.
* `StoreProofs.TypeCorrect`: `Spec => []TypeOK`; `PartialInv` says that the file
  opened last is the only partial one.

### The course solutions

`ClientServerProofs` and `FamiliesProofs` have one inductive invariant per
program, whose step lemma is about that program alone, and put them together:
a step of one program leaves the variables of the others. The theorems hold for
any number of clients, starts, orders, producers, chunks, rounds of ping pong
and of the semaphores, any capacity of queues and pipes, any file contents and
any set of failing forks.

`ClientServerProofs.TypeCorrect`, `EveryRequestOnce`, `EveryChunkOnce`,
`OrdersInOrder`: `Spec => []P` for `TypeOK`, `RequestsServedOnce`,
`ChunksShownOnce` and `OrdersServedInOrder`; `NothingLeftBehind`:
`Spec => []RemovedAtEnd`, which says how a server that has ended came to leave
its FIFO's name (`FifoTaken`: at every control point of `quit()` and after it,
which signals it has taken), and that a queue is not found again once an order
was taken from it (`QueueRemoved` itself, with the control points of `QueueInv`).

* `FifoInv`. That a waiting client's request is kept says nothing of how it got
  there. `FifoFresh` says that no client is past its `open` at a pipe that the
  server has not opened, so that nobody waits at it already when reading
  begins (a new pipe has a number that no descriptor has); `FifoRequests`, that
  the pipe holds requests of different clients that wait or have died, none
  answered, none in hand; `FifoHand`, that the client in hand reads its own
  FIFO exactly from the server's `open` on, which is why its response cannot be
  taken for the end of another's.
* `CopyInv`. Most of it holds from the moment the server has taken the request
  (`Taken`): `CopyHandshake` says whose turn it is, by the two semaphores and the
  two control points, and that the buffer holds the chunk after the last shown
  whenever one is on offer; `CopySems` bounds the semaphores also where the
  client has gone on to remove the set; `CopyShown` and `CopyShownOnce` say what
  the client has shown. Before that, `CopyWaiting` says that a request still in
  the set after `SETALL` is of a client that has gone by nothing stale, and
  `CopyStale` that every chunk shown has used up a left-over `DATA_READY`.
  `CopyAsleep` says that nothing moves before the request, and `CopySetThere`
  that the set stays while it is needed and that only its removal ends the
  server.
* `QueueInv`. `ServiceOrder` is about the orders received; `QueueService` adds
  what it will say of each order still in the queue, and `QueueMembers` that the
  queue is ordered by `rank`, so that the order `IsNext` takes comes before all
  of its kind that stay. Orders of former queues do not count: every start
  makes one queue at most (`QueueControl`), and a client keeps its identifier.

`FamiliesProofs.TypeCorrect`, `OrderKeptInPipes`, `PrintedInOrder`,
`SignalsHandled`: `Spec => []P` for `TypeOK`, `PipesKeepOrder`, `InOrder` and
`SignalsArrive`.

* `ItemsInv`: what the parent has printed, holds and will find in the pipe is one
  sequence, in which sizes and values come in pairs (`InPairs`) and the chunks of
  every producer are 1, 2, ... up to what it has read (`Ordered`).
* `PingInv`: `PingEnds` says that a process that has ended holds no end, and one
  past its `close` calls no read end of its own output; `PingForked`, that both
  pipes are empty until the fork; `PingRounds` ties both counters to the
  control points.
* `OrderInv`: `InOrder` speaks of the past only; the invariant adds where the
  unit may be: on the semaphore of the child whose turn it is after
  `Len(printed)` messages, or in its hands before it prints, or in those of the
  one before, which has printed (`OrderUnitInTurn`, `OrderHolderInTurn`), and
  nowhere twice (`OrderOneHolder`). It does not say that there is a unit, which
  a failed fork may strand.
* `RelayInv`: the relay is on one of four legs or has not begun (`RelayLegs`); on
  each, where the signal is, who has unblocked what (`RelayMasks`) and who exists
  (`RelayForked`). On the legs after child2's, child2 is past its `kill`, ended or
  not.
* `StopInv`: `EndsBoth` and `NoStopMissed` need where the handler is
  (`StopPhases`) and that a `SIGTERM` is pending only from there on (`StopDying`).

### Only model-checked

* Liveness, here and in the course solutions (`RoundEnds`, `OutputsWritten`,
  `ChildEnds`, `SigIntAnswered` and the others of section 6): fairness and
  ENABLED are out of the prover's reach.
* What `Strstr`, `Atoi` and the parts that are not clean give is proved only as
  far as the types; runs check the rest on all texts up to a bound.

## 9. Disagreements with docs and comments

`PDF` is `src/Progetto_SO_2021-2022v4.pdf`, the requirements.

| where | what | shown by |
|---|---|---|
| `client_0.c`:271 | type and flags of `msgrcv` are swapped: Client_0 never receives the closing message it should wait for (PDF p. 2), and the `-1` counts as true | `closes_early` |
| `server.c`:202 | so the messages pile up and a later round blocks | `FinitosPileUp`, `MCTransferQueueFull.cfg` |
| `semaphore.c`:59 | and the next SIGINT resets channels in use | `TornChannels`, `MCTransferEarlySigInt.cfg` |
| `client_0.c`:164 | a failed fork is printed and then waited for | `MCTransferForkFails.cfg` |
| `fs.c`:170 | the payload may contain the delimiter of `fs.h`:18: the part is cut, or, in the first part, the server ends at the `open` of `fs.c`:207 | `delimiters`, `OutputFails` |
| `fs.c`:131 | files of 3997 to 3999 characters fill `payload[]` with no terminator | `MCMessagesFull.cfg` |
| `fs.c`:180 | `strncat` into memory that was never cleared | `MCMessagesReused.cfg` |
| `client_0.c`:65 | the mask set in the handler is undone by its return; the comment at 64 and PDF p. 1 want only SIGINT and SIGUSR1 received | `MCClientSignalsOther.cfg` |
| `fs.c`:207 | `S_IRUSR \| S_IRUSR`: outputs cannot be written a second time | `read_only_output` |
| `fs.c`:201 | a name without `.txt`, allowed by `fs.c`:75, is a NULL pointer | `MCStoreNoExtension.cfg` |
| `fs.c`:86 | no test of `MAX_FILES`, and outputs are found as inputs | `MCStorePaths.cfg` |
| `fs.c`:111 | size tested at the scan, file read later to its end | `MCStoreSize.cfg` |
| `client_0.c`:177 | the -1 of `buildMessages` is ignored | `MCStoreRemoved.cfg` |

The PDF also asks (p. 2) that the server removes the IPC objects at SIGINT;
`server.c` has no handler, so that SIGINT simply ends it.

## 10. Not modelled

* `ErrExit` in `Transfer`: a failing system call ends one process and leaves
  the others waiting, with no code that handles it.
* Restart of the server or of Client_0: neither program removes or recovers
  the IPC objects of a former run, so that there is no behaviour to be right.
* `chdir` with a relative argument in later rounds, which fails untested, and
  the recursion over directories: `Store` has one directory.
* Output to the terminal, welcome message, `printSemValues`.
* Course solutions without shared state: `soluzioni_processi` (single calls of
  `getcwd`, `fork`, `wait`, `exec`, `dup`), `solutions_fs` (sequential programs
  on files), `solutions_signals/.../ese_1` and `ese_2` (one process and its
  clock). `solutions_fifo/ese_2` is `ese_3` without answers; the client of
  `solutions_fifo/ese_1` does not compile (an undeclared variable at
  `client.c`:31).
* `src/template_progetto`: an empty template.
