------------------------------ MODULE Transfer ------------------------------
(***************************************************************************)
(* One Client_0, the children it forks and the server, exchanging files    *)
(* over four IPC channels:                                                 *)
(*                                                                         *)
(*   FIFO1, FIFO2   named pipes, each guarded by one System V semaphore    *)
(*   MsgQueue       a System V queue, throttled by a counting semaphore    *)
(*   ShdMem         slots of a shared segment, one semaphore per slot      *)
(*                                                                         *)
(* A round starts when Client_0 receives SIGINT.  Client_0 announces the   *)
(* number of files on FIFO1, waits for serverOk in shared memory, forks a  *)
(* child per file, opens a gate for all of them together, reaps them and   *)
(* sleeps again.  Each child sends part m of its file on medium m.  The    *)
(* server polls the four media until it has four parts per announced file, *)
(* writes the outputs and puts a closing message on MsgQueue.  Client_0    *)
(* does not receive that message: see CloseRound.                          *)
(*                                                                         *)
(* A guarded channel goes round the cycle 2 (free), 0 (a child writes),    *)
(* 1 (full), 2: semOp(-2) by the child, +1 by the child, +1 by the server. *)
(*                                                                         *)
(* A step is one system call on a shared object, with the local code up to *)
(* the next one.  A message is the pair of the file it belongs to and the  *)
(* medium it is sent on: its text is the subject of other modules.         *)
(***************************************************************************)
EXTENDS Integers, Sequences, FiniteSets

CONSTANTS
  MaxFiles,      \* bound on the files a directory scan returns
  Slots,         \* slots of the shared segment (50 in the code)
  MsgQueueInit,  \* initial value of the MsgQueue semaphore (50 in the code)
  MsgQueueCap,   \* messages the kernel queue holds before msgsnd blocks
  MaxRounds,     \* bound on the SIGINTs delivered to Client_0
  ForkMayFail    \* whether fork may return -1

ASSUME ConstantsAssumption ==
  /\ MaxFiles \in Nat
  /\ Slots \in Nat \ {0}
  /\ MsgQueueInit \in Nat \ {0}
  /\ MsgQueueCap \in Nat \ {0}
  /\ MaxRounds \in Nat
  /\ ForkMayFail \in BOOLEAN

-----------------------------------------------------------------------------
(* Media, channels and messages.                                           *)

MEDIA_FIFO1 == 0
MEDIA_FIFO2 == 1
MEDIA_MSGQUEUE == 2
MEDIA_SHM == 3
Media == 0..3

Files == 0..(MaxFiles - 1)     \* index i of filePaths, and of its child
Slot == 0..(Slots - 1)

\* A guarded channel is a semaphore: <<semaphore set, number in the set>>.
Fifo1 == <<MEDIA_FIFO1, 0>>
Fifo2 == <<MEDIA_FIFO2, 0>>
Shm(k) == <<MEDIA_SHM, k>>
Fifo == {Fifo1, Fifo2}
Chan == Fifo \cup {Shm(k) : k \in Slot}

\* The channel on which child i sends its part for medium m # MsgQueue.
ChanOf(i, m) ==
  IF m = MEDIA_FIFO1 THEN Fifo1
  ELSE IF m = MEDIA_FIFO2 THEN Fifo2
  ELSE Shm(i % Slots)

Part(i, m) == [kind |-> "part", file |-> i, medium |-> m]
Count(k) == [kind |-> "count", n |-> k]
Finito == [kind |-> "finito"]
NoMsg == [kind |-> "none"]

Parts == {Part(i, m) : i \in Files, m \in Media}
Counts == {Count(k) : k \in 0..MaxFiles}

-----------------------------------------------------------------------------
VARIABLES
  \* System V and file-system objects, shared by all the processes
  sem,         \* the semaphores of FIFO1, FIFO2 and ShdMem
  mqsem,       \* MsgQueueSemId[0]
  clientSem,   \* CLIENTSemId[0..1]: children still loading, children let go
  fifo,        \* bytes in the two pipes, as a sequence of messages
  shm,         \* shmDisposition->messages
  msgq,        \* the message queue
  serverOk,    \* shmDisposition->serverOk
  \* Client_0
  pc0,         \* control point
  n,           \* filePathsCounter
  forked,      \* loop index of the forks
  rounds,      \* SIGINTs handled so far
  torn,        \* history: channels whose semaphore the last reset has
               \* overwritten with a part in them
  \* child i
  pc,          \* control point
  med,         \* medium its sending loop looks at
  sent,        \* media m with filemandati[m] = 1
  \* server
  spc,         \* control point
  at,          \* channel its receiving loop looks at
  hand,        \* message taken off a channel and not yet counted
  full,        \* slots of ShmSemValues still to visit
  filesCounter,
  messagesReceived,
  messages,    \* messages[0 .. messagesReceived-1], as a set
  out          \* per file, the parts in the output written this round

ipc == <<sem, mqsem, clientSem, fifo, shm, msgq, serverOk>>
client == <<pc0, n, forked, rounds, torn>>
children == <<pc, med, sent>>
server == <<spc, at, hand, full, filesCounter, messagesReceived, messages, out>>
vars == <<ipc, client, children, server>>

ResetPC == {"init_fifo1", "init_fifo2", "init_shm", "init_mq", "init_client"}
ClientPC == ResetPC \cup
            {"sleep", "send", "wait_ok", "clear_ok", "fork", "gate",
             "release", "reap", "recv", "exited"}
ChildPC == {"none", "load", "ready", "held", "poll", "lock", "write",
            "unlock", "exited"}
ServerPC == {"start", "count", "ack", "poll", "read", "post", "msgrcv",
             "mqpost", "snap", "sort", "write", "finito"}

Alive(i) == pc[i] \notin {"none", "exited"}
Sending(i) == pc[i] \in {"poll", "lock", "write", "unlock", "exited"}

\* The semaphores exist with value 0 until the first initSemaphores.
Init ==
  /\ sem = [c \in Chan |-> 0]
  /\ mqsem = 0
  /\ clientSem = [k \in 0..1 |-> 0]
  /\ fifo = [c \in Fifo |-> <<>>]
  /\ shm = [k \in Slot |-> NoMsg]
  /\ msgq = <<>>
  /\ serverOk = 0
  /\ pc0 = "sleep" /\ n = 0 /\ forked = 0 /\ rounds = 0
  /\ torn = {}
  /\ pc = [i \in Files |-> "none"]
  /\ med = [i \in Files |-> MEDIA_FIFO1]
  /\ sent = [i \in Files |-> {}]
  /\ spc = "start" /\ at = Fifo1 /\ hand = NoMsg /\ full = {}
  /\ filesCounter = 0 /\ messagesReceived = 0 /\ messages = {}
  /\ out = [i \in Files |-> {}]

-----------------------------------------------------------------------------
(* Client_0.                                                               *)

\* SIGINT: loadFilePaths finds k files.
SigInt(k) ==
  /\ pc0 = "sleep" /\ rounds < MaxRounds
  /\ rounds' = rounds + 1
  /\ n' = k
  /\ pc' = [i \in Files |-> "none"]
  /\ pc0' = "init_fifo1"
  /\ UNCHANGED <<ipc, forked, torn, med, sent, server>>

\* initSemaphores and initClientSemaphore: one SETALL per semaphore set,
\* whatever the server is doing.
Reset(from, to) ==
  /\ pc0 = from
  /\ pc0' = to
  /\ UNCHANGED <<fifo, shm, msgq, serverOk, n, forked, rounds, children, server>>

\* The semaphores of the channels in C become 2.
SetFree(C) ==
  /\ sem' = [c \in Chan |-> IF c \in C THEN 2 ELSE sem[c]]
  /\ torn' = (torn \ C) \cup {c \in C : sem[c] = 1}
  /\ UNCHANGED <<mqsem, clientSem>>

ResetGuards ==
  \/ Reset("init_fifo1", "init_fifo2") /\ SetFree({Fifo1})
  \/ Reset("init_fifo2", "init_shm") /\ SetFree({Fifo2})
  \/ Reset("init_shm", "init_mq") /\ SetFree(Chan \ Fifo)

ResetCounters ==
  \/ /\ Reset("init_mq", "init_client")
     /\ mqsem' = MsgQueueInit
     /\ UNCHANGED <<sem, clientSem, torn>>
  \/ /\ Reset("init_client", "send")
     /\ clientSem' = [clientSem EXCEPT ![0] = n, ![1] = 0]
     /\ UNCHANGED <<sem, mqsem, torn>>

SigUsr1 ==
  /\ pc0 = "sleep"
  /\ pc0' = "exited"
  /\ UNCHANGED <<ipc, n, forked, rounds, torn, children, server>>

SendCount ==
  /\ pc0 = "send"
  /\ fifo' = [fifo EXCEPT ![Fifo1] = Append(@, Count(n))]
  /\ pc0' = "wait_ok"
  /\ UNCHANGED <<sem, mqsem, clientSem, shm, msgq, serverOk,
                 n, forked, rounds, torn, children, server>>

SeeServerOk ==
  /\ pc0 = "wait_ok" /\ serverOk # 0
  /\ pc0' = "clear_ok"
  /\ UNCHANGED <<ipc, n, forked, rounds, torn, children, server>>

ClearServerOk ==
  /\ pc0 = "clear_ok"
  /\ serverOk' = 0
  /\ forked' = 0
  /\ pc0' = "fork"
  /\ UNCHANGED <<sem, mqsem, clientSem, fifo, shm, msgq,
                 n, rounds, torn, children, server>>

\* fork() of child i = forked, whose filemandati are all 0.
Fork ==
  /\ pc0 = "fork" /\ forked < n
  /\ pc' = [pc EXCEPT ![forked] = "load"]
  /\ med' = [med EXCEPT ![forked] = MEDIA_FIFO1]
  /\ sent' = [sent EXCEPT ![forked] = {}]
  /\ forked' = forked + 1
  /\ UNCHANGED <<ipc, pc0, n, rounds, torn, server>>

\* fork() returns -1: a line is printed and the loop goes on.
ForkFails ==
  /\ ForkMayFail
  /\ pc0 = "fork" /\ forked < n
  /\ forked' = forked + 1
  /\ UNCHANGED <<ipc, pc0, n, rounds, torn, children, server>>

ForksDone ==
  /\ pc0 = "fork" /\ forked = n
  /\ pc0' = "gate"
  /\ UNCHANGED <<ipc, n, forked, rounds, torn, children, server>>

\* Mutant: the gate opens with one child still loading.
AllLoadedButOne == clientSem[0] <= 1

\* Mutant: the loop goes on while values[0] >= 0.
AllLoadedAndMore == clientSem[0] < 0

\* The polling loop over CLIENTSemId[0] ends.
AllLoaded == clientSem[0] <= 0

SeeAllReady ==
  /\ pc0 = "gate" /\ AllLoaded
  /\ pc0' = "release"
  /\ UNCHANGED <<ipc, n, forked, rounds, torn, children, server>>

\* semOp(CLIENTSemId, 1, n): adds n, or waits for zero when n = 0.
ReleaseChildren ==
  /\ pc0 = "release"
  /\ n = 0 => clientSem[1] = 0
  /\ clientSem' = [clientSem EXCEPT ![1] = @ + n]
  /\ pc0' = "reap"
  /\ UNCHANGED <<sem, mqsem, fifo, shm, msgq, serverOk,
                 n, forked, rounds, torn, children, server>>

\* wait() returns -1: every child has exited.
Reap ==
  /\ pc0 = "reap"
  /\ \A i \in Files : ~Alive(i)
  /\ pc0' = "recv"
  /\ UNCHANGED <<ipc, n, forked, rounds, torn, children, server>>

\* msgrcv(MsgQueueId, .., 0, -2): -2 is the argument of the flags, and sets
\* MSG_COPY together with MSG_EXCEPT.  Linux refuses that with EINVAL, and the
\* -1 is taken for a message: nothing is waited for and nothing is received.
CloseRound ==
  /\ pc0 = "recv"
  /\ pc0' = "sleep"
  /\ UNCHANGED <<ipc, n, forked, rounds, torn, children, server>>

Client0 ==
  \/ ResetGuards \/ ResetCounters
  \/ SendCount \/ SeeServerOk \/ ClearServerOk \/ Fork \/ ForkFails
  \/ ForksDone \/ SeeAllReady \/ ReleaseChildren \/ Reap \/ CloseRound

-----------------------------------------------------------------------------
(* Child i.                                                                *)

\* buildMessages and serializeMessage, then semOp(CLIENTSemId, 0, -1).
Load(i) ==
  /\ pc[i] = "load"
  /\ pc' = [pc EXCEPT ![i] = "ready"]
  /\ UNCHANGED <<ipc, client, med, sent, server>>

Ready(i) ==
  /\ pc[i] = "ready" /\ clientSem[0] >= 1
  /\ clientSem' = [clientSem EXCEPT ![0] = @ - 1]
  /\ pc' = [pc EXCEPT ![i] = "held"]
  /\ UNCHANGED <<sem, mqsem, fifo, shm, msgq, serverOk,
                 client, med, sent, server>>

Go(i) ==
  /\ pc[i] = "held" /\ clientSem[1] >= 1
  /\ clientSem' = [clientSem EXCEPT ![1] = @ - 1]
  /\ pc' = [pc EXCEPT ![i] = "poll"]
  /\ UNCHANGED <<sem, mqsem, fifo, shm, msgq, serverOk,
                 client, med, sent, server>>

\* Child i leaves medium med[i] with the media in s sent: the next medium of
\* the loop body, or after the last one the loop test.
Advance(i, s) ==
  /\ sent' = [sent EXCEPT ![i] = s]
  /\ med' = [med EXCEPT ![i] = (@ + 1) % 4]
  /\ pc' = [pc EXCEPT ![i] =
              IF med[i] = MEDIA_SHM /\ s = Media THEN "exited" ELSE "poll"]

\* Mutant: filemandati[0] = 1 in the block of FIFO2.
MarkedFirst(i) == sent[i] \cup {IF med[i] = MEDIA_FIFO2 THEN 0 ELSE med[i]}

\* filemandati once the current medium is marked.
Marked(i) == sent[i] \cup {med[i]}

\* Mutant: >= where the code has ==.
SeenFreeOrMore(i) ==
  IF med[i] = MEDIA_MSGQUEUE THEN mqsem # 0 ELSE sem[ChanOf(i, med[i])] >= 2

SeenFree(i) ==
  IF med[i] = MEDIA_MSGQUEUE THEN mqsem # 0 ELSE sem[ChanOf(i, med[i])] = 2

\* getSemValues and the test on the value it returned.
Poll(i) ==
  /\ pc[i] = "poll"
  /\ IF med[i] \notin sent[i] /\ SeenFree(i)
       THEN /\ pc' = [pc EXCEPT ![i] = "lock"]
            /\ UNCHANGED <<med, sent>>
       ELSE Advance(i, sent[i])
  /\ UNCHANGED <<ipc, client, server>>

\* Mutant: the child takes one unit, as of an ordinary mutex.
TakeOneUnit(c) == sem[c] >= 1 /\ sem' = [sem EXCEPT ![c] = @ - 1]

\* semOp(-2) on a guarded channel: blocks until the value is at least 2.
Take(c) == sem[c] >= 2 /\ sem' = [sem EXCEPT ![c] = @ - 2]

Lock(i) ==
  LET c == ChanOf(i, med[i])
  IN  /\ pc[i] = "lock" /\ med[i] # MEDIA_MSGQUEUE
      /\ Take(c)
      /\ pc' = [pc EXCEPT ![i] = "write"]
      /\ UNCHANGED <<mqsem, clientSem, fifo, shm, msgq, serverOk,
                     client, med, sent, server>>

LockQueue(i) ==
  /\ pc[i] = "lock" /\ med[i] = MEDIA_MSGQUEUE
  /\ mqsem >= 1
  /\ mqsem' = mqsem - 1
  /\ pc' = [pc EXCEPT ![i] = "write"]
  /\ UNCHANGED <<sem, clientSem, fifo, shm, msgq, serverOk,
                 client, med, sent, server>>

WriteFifo(i) ==
  LET c == ChanOf(i, med[i])
  IN  /\ pc[i] = "write" /\ c \in Fifo /\ med[i] # MEDIA_MSGQUEUE
      /\ fifo' = [fifo EXCEPT ![c] = Append(@, Part(i, med[i]))]
      /\ pc' = [pc EXCEPT ![i] = "unlock"]
      /\ UNCHANGED <<sem, mqsem, clientSem, shm, msgq, serverOk,
                     client, med, sent, server>>

WriteShm(i) ==
  /\ pc[i] = "write" /\ med[i] = MEDIA_SHM
  /\ shm' = [shm EXCEPT ![i % Slots] = Part(i, MEDIA_SHM)]
  /\ pc' = [pc EXCEPT ![i] = "unlock"]
  /\ UNCHANGED <<sem, mqsem, clientSem, fifo, msgq, serverOk,
                 client, med, sent, server>>

\* Mutant: one message more than the kernel holds.
QueueHasRoomForOneMore == Len(msgq) <= MsgQueueCap

\* msgsnd blocks while the kernel queue is full.
QueueHasRoom == Len(msgq) < MsgQueueCap

WriteQueue(i) ==
  /\ pc[i] = "write" /\ med[i] = MEDIA_MSGQUEUE
  /\ QueueHasRoom
  /\ msgq' = Append(msgq, Part(i, MEDIA_MSGQUEUE))
  /\ Advance(i, Marked(i))
  /\ UNCHANGED <<sem, mqsem, clientSem, fifo, shm, serverOk, client, server>>

\* Mutant: the semOp is missing.
PostNot(c) == UNCHANGED sem

\* semOp(+1), by the child: the channel is full; by the server: it is free.
Post(c) == sem' = [sem EXCEPT ![c] = @ + 1]

Unlock(i) ==
  LET c == ChanOf(i, med[i])
  IN  /\ pc[i] = "unlock"
      /\ Post(c)
      /\ Advance(i, Marked(i))
      /\ UNCHANGED <<mqsem, clientSem, fifo, shm, msgq, serverOk,
                     client, server>>

Child(i) ==
  \/ Load(i) \/ Ready(i) \/ Go(i) \/ Poll(i) \/ Lock(i) \/ LockQueue(i)
  \/ WriteFifo(i) \/ WriteShm(i) \/ WriteQueue(i) \/ Unlock(i)

-----------------------------------------------------------------------------
(* The server.                                                             *)

SrvStart ==
  /\ spc = "start"
  /\ serverOk' = 0
  /\ spc' = "count"
  /\ UNCHANGED <<sem, mqsem, clientSem, fifo, shm, msgq, client, children,
                 at, hand, full, filesCounter, messagesReceived, messages, out>>

\* read(FIFO1, &filesCounter, sizeof(int)), then malloc.
ReadCount ==
  /\ spc = "count" /\ fifo[Fifo1] # <<>>
  /\ Head(fifo[Fifo1]).kind = "count"
  /\ filesCounter' = Head(fifo[Fifo1]).n
  /\ fifo' = [fifo EXCEPT ![Fifo1] = Tail(@)]
  /\ messagesReceived' = 0
  /\ messages' = {}
  /\ out' = [i \in Files |-> {}]
  /\ spc' = "ack"
  /\ UNCHANGED <<sem, mqsem, clientSem, shm, msgq, serverOk, client, children,
                 at, hand, full>>

\* Mutants: the loop ends one message early, or waits for one more.
ExpectedOneLess == filesCounter * 4 - 1
ExpectedOneMore == filesCounter * 4 + 1

\* The test of while (messagesReceived != filesCounter * 4).
Expected == filesCounter * 4

LoopTest(received) ==
  /\ spc' = IF received = Expected THEN "write" ELSE "poll"
  /\ at' = Fifo1

SetServerOk ==
  /\ spc = "ack"
  /\ serverOk' = 1
  /\ LoopTest(messagesReceived)
  /\ UNCHANGED <<sem, mqsem, clientSem, fifo, shm, msgq, client, children,
                 hand, full, filesCounter, messagesReceived, messages, out>>

\* Mutant: the block of FIFO2 is never reached.
AfterFifoSkips(c) == spc' = "msgrcv" /\ UNCHANGED at

\* Where the loop body goes after the block of pipe c.
AfterFifo(c) ==
  IF c = Fifo1 THEN /\ spc' = "poll" /\ at' = Fifo2
               ELSE /\ spc' = "msgrcv" /\ UNCHANGED at

SrvPollFifo ==
  /\ spc = "poll"
  /\ IF sem[at] = 1 THEN spc' = "read" /\ UNCHANGED at ELSE AfterFifo(at)
  /\ UNCHANGED <<ipc, client, children,
                 hand, full, filesCounter, messagesReceived, messages, out>>

\* read until '\0' blocks on an empty pipe.
SrvReadFifo ==
  /\ spc = "read" /\ at \in Fifo
  /\ fifo[at] # <<>>
  /\ hand' = Head(fifo[at])
  /\ fifo' = [fifo EXCEPT ![at] = Tail(@)]
  /\ spc' = "post"
  /\ UNCHANGED <<sem, mqsem, clientSem, shm, msgq, serverOk, client, children,
                 at, full, filesCounter, messagesReceived, messages, out>>

\* Mutant: MEDIA_FIFO1_ID in the block of FIFO2.
AcceptWrongMedium ==
  /\ messages' = messages \cup
       {IF hand.medium = MEDIA_FIFO2 THEN Part(hand.file, MEDIA_FIFO1) ELSE hand}
  /\ messagesReceived' = messagesReceived + 1
  /\ hand' = NoMsg

\* The message in hand becomes messages[messagesReceived++].
Accept ==
  /\ messages' = messages \cup {hand}
  /\ messagesReceived' = messagesReceived + 1
  /\ hand' = NoMsg

SrvPostFifo ==
  /\ spc = "post" /\ at \in Fifo
  /\ Post(at)
  /\ Accept
  /\ AfterFifo(at)
  /\ UNCHANGED <<mqsem, clientSem, fifo, shm, msgq, serverOk, client, children,
                 full, filesCounter, out>>

\* j is the oldest of the messages of a kind: a part has type 1, the server's
\* FINITO has type 2.
Oldest(q, kind, j) ==
  /\ j \in DOMAIN q /\ q[j].kind = kind
  /\ \A k \in 1..(j - 1) : q[k].kind # kind

NoneOf(q, kind) == \A j \in DOMAIN q : q[j].kind # kind

Without(q, j) == SubSeq(q, 1, j - 1) \o SubSeq(q, j + 1, Len(q))

\* msgrcv(MsgQueueId, .., 1, IPC_NOWAIT): the oldest of type 1, or an error.
SrvReceive ==
  /\ spc = "msgrcv"
  /\ \/ /\ NoneOf(msgq, "part")
        /\ spc' = "snap"
        /\ UNCHANGED <<msgq, hand>>
     \/ \E j \in DOMAIN msgq :
          /\ Oldest(msgq, "part", j)
          /\ hand' = msgq[j]
          /\ msgq' = Without(msgq, j)
          /\ spc' = "mqpost"
  /\ UNCHANGED <<sem, mqsem, clientSem, fifo, shm, serverOk, client, children,
                 at, full, filesCounter, messagesReceived, messages, out>>

\* Mutant: the unit of MsgQueueSemId is not given back.
PostQueueSemNot == UNCHANGED mqsem

PostQueueSem == mqsem' = mqsem + 1

SrvPostQueue ==
  /\ spc = "mqpost"
  /\ PostQueueSem
  /\ Accept
  /\ spc' = "snap"
  /\ UNCHANGED <<sem, clientSem, fifo, shm, msgq, serverOk, client, children,
                 at, full, filesCounter, out>>

\* The next full slot of the snapshot in ascending order, or the loop test.
NextSlot(remaining, received) ==
  /\ full' = remaining
  /\ \/ remaining = {} /\ LoopTest(received)
     \/ \E k \in remaining :
          /\ \A l \in remaining : k <= l
          /\ spc' = "read"
          /\ at' = Shm(k)

\* Mutants: every slot nobody is writing counts as full; slots from 1.
FullSlotsNotWritten == {k \in Slot : sem[Shm(k)] >= 1}
FullSlotsFromOne == {k + 1 : k \in {j \in Slot : sem[Shm(j)] = 1}}

\* getSemValues(ShmSemId, ShmSemValues): one snapshot of all the slots.
FullSlots == {k \in Slot : sem[Shm(k)] = 1}

SrvSnapshot ==
  /\ spc = "snap"
  /\ NextSlot(FullSlots, messagesReceived)
  /\ UNCHANGED <<ipc, client, children,
                 hand, filesCounter, messagesReceived, messages, out>>

\* strcpy leaves the slot as it is.
SrvReadShm ==
  /\ spc = "read" /\ at \notin Fifo
  /\ hand' = shm[at[2]]
  /\ spc' = "post"
  /\ UNCHANGED <<ipc, client, children,
                 at, full, filesCounter, messagesReceived, messages, out>>

SrvPostShm ==
  /\ spc = "post" /\ at \notin Fifo
  /\ Post(at)
  /\ Accept
  /\ NextSlot(full \ {at[2]}, messagesReceived + 1)
  /\ UNCHANGED <<mqsem, clientSem, fifo, shm, msgq, serverOk, client, children,
                 filesCounter, out>>

\* sortMessages, then writeOutFile on every group of four messages.
WriteOutputs ==
  /\ spc = "write"
  /\ out' = [i \in Files |-> {m \in Media : Part(i, m) \in messages}]
  /\ spc' = "finito"
  /\ UNCHANGED <<ipc, client, children,
                 at, hand, full, filesCounter, messagesReceived, messages>>

SendFinito ==
  /\ spc = "finito"
  /\ QueueHasRoom
  /\ msgq' = Append(msgq, Finito)
  /\ spc' = "count"
  /\ UNCHANGED <<sem, mqsem, clientSem, fifo, shm, serverOk, client, children,
                 at, hand, full, filesCounter, messagesReceived, messages, out>>

Server ==
  \/ SrvStart \/ ReadCount \/ SetServerOk \/ SrvPollFifo \/ SrvReadFifo
  \/ SrvPostFifo \/ SrvReceive \/ SrvPostQueue \/ SrvSnapshot \/ SrvReadShm
  \/ SrvPostShm \/ WriteOutputs \/ SendFinito

-----------------------------------------------------------------------------
\* Nobody sends another signal: Client_0 sleeps (or has exited) and the
\* server waits in read() on an empty FIFO1.
Quiescent ==
  /\ pc0 \in {"sleep", "exited"}
  /\ pc0 = "sleep" => rounds = MaxRounds
  /\ spc = "count" /\ fifo[Fifo1] = <<>>
  /\ UNCHANGED vars

Next ==
  \/ \E k \in 0..MaxFiles : SigInt(k)
  \/ SigUsr1
  \/ Client0
  \/ \E i \in Files : Child(i)
  \/ Server
  \/ Quiescent

Spec == Init /\ [][Next]_vars

\* The kernel keeps running every process that can take a step.  Signals come
\* from a user and are never owed.
Fairness ==
  /\ WF_vars(Client0)
  /\ \A i \in Files : WF_vars(Child(i))
  /\ WF_vars(Server)

FairSpec == Spec /\ Fairness

-----------------------------------------------------------------------------
(* Properties.                                                             *)

\* Every variable has its type.  The semaphore of a torn channel can reach 3,
\* and mqsem can go over MsgQueueInit.
TypeOK ==
  /\ sem \in [Chan -> Nat] /\ mqsem \in Nat /\ clientSem \in [0..1 -> Nat]
  /\ fifo \in [Fifo -> Seq(Parts \cup Counts)]
  /\ shm \in [Slot -> Parts \cup {NoMsg}]
  /\ msgq \in Seq(Parts \cup {Finito})
  /\ serverOk \in 0..1
  /\ pc0 \in ClientPC /\ n \in 0..MaxFiles /\ forked \in 0..MaxFiles
  /\ rounds \in 0..MaxRounds /\ torn \subseteq Chan
  /\ pc \in [Files -> ChildPC] /\ med \in [Files -> Media]
  /\ sent \in [Files -> SUBSET Media]
  /\ spc \in ServerPC /\ at \in Chan /\ full \subseteq Slot
  /\ hand \in Parts \cup Counts \cup {NoMsg}
  /\ filesCounter \in 0..MaxFiles
  /\ messagesReceived \in Nat
  /\ messages \subseteq Parts \cup Counts \cup {NoMsg}
  /\ out \in [Files -> SUBSET Media]

\* The processes between the two semOp that bracket their use of channel c.
Writers(c) == {i \in Files : /\ pc[i] \in {"write", "unlock"}
                             /\ med[i] # MEDIA_MSGQUEUE
                             /\ ChanOf(i, med[i]) = c}
ServerHolds(c) == spc \in {"read", "post"} /\ at = c

\* A guarded channel is used by one process at a time, and while children run
\* the value of its semaphore says by whom: 0 a child is writing, 1 the
\* message is for the server, 2 nobody.  The children lock it after a test
\* made in an earlier system call, the server never locks it, and a SIGINT may
\* reset it while the server is still receiving.
ChannelOwnership ==
  \A c \in Chan :
    /\ Cardinality(Writers(c)) + (IF ServerHolds(c) THEN 1 ELSE 0) <= 1
    /\ Writers(c) # {} <=> (sem[c] = 0 /\ pc0 = "reap")
    /\ pc0 = "reap" /\ ServerHolds(c) => sem[c] = 1

\* FIFO1 carries binary counts and text messages with nothing between them.
\* A server waiting for a count finds the announced count alone, and a server
\* reading a message finds one whole message of that pipe's medium: its read
\* until '\0' neither blocks nor takes in a count.
Framing ==
  /\ spc = "count" /\ fifo[Fifo1] # <<>> => fifo[Fifo1] = <<Count(n)>>
  /\ spc = "read" /\ at \in Fifo =>
       /\ fifo[at] # <<>>
       /\ Head(fifo[at]) \in {Part(i, at[1]) : i \in Files}

\* Everywhere a copy of part p can be.  The server copies a slot before it
\* posts its semaphore, so that slot holds no second copy.
Places(p) ==
  LET In(q) == {j \in DOMAIN q : q[j] = p}
  IN  (UNION {{<<"pipe", c, j>> : j \in In(fifo[c])} : c \in Fifo})
      \cup {<<"queue", j>> : j \in In(msgq)}
      \cup {<<"slot", k>> : k \in {l \in Slot : sem[Shm(l)] = 1 /\ shm[l] = p
                                               /\ hand # p}}
      \cup (IF hand = p THEN {<<"hand">>} ELSE {})
      \cup (IF p \in messages THEN {<<"counted">>} ELSE {})

\* A part that its child has marked in filemandati is in exactly one place
\* until the next SIGINT: no medium drops it, overwrites it or delivers it
\* twice.
EachPartOnce ==
  \A i \in Files, m \in Media :
    pc[i] # "none" /\ m \in sent[i] => Cardinality(Places(Part(i, m))) = 1

\* The server counts distinct messages and never more than the malloc of
\* filesCounter * 4 has room for; its loop tests the count with !=, so it
\* would not end after an overrun.
NoOverrun ==
  /\ spc \notin {"start", "count"} => messagesReceived = Cardinality(messages)
  /\ messagesReceived <= filesCounter * 4

\* No child sends before every child of the round has loaded its file.
BarrierHolds ==
  (\E i \in Files : Sending(i)) =>
     \A j \in 0..(n - 1) : pc[j] \notin {"none", "load", "ready"}

\* What becomes of a channel that a SIGINT has reset under a part.  Either the
\* server had not looked at the channel yet: it never will, so it stays in its
\* receiving loop one part short, and Client_0 waits for serverOk for ever.  Or
\* it had, and its semOp takes the semaphore to 3: no child of the new round
\* ever sends on that channel.
TornChannels ==
  \A c \in torn :
    \/ /\ sem[c] = 2
       /\ messagesReceived < filesCounter * 4
       /\ pc0 \in ResetPC \cup {"send", "wait_ok"}
    \/ /\ sem[c] = 3
       /\ \A i \in Files, m \in Media \ {MEDIA_MSGQUEUE} :
            pc[i] # "none" /\ ChanOf(i, m) = c => m \notin sent[i]

\* The server waits for the next round.
Listening == spc \in {"start", "count"}

\* Closing messages on the queue.
Finitos == Cardinality({j \in DOMAIN msgq : msgq[j] = Finito})

\* Nobody takes the closing messages: each round leaves one on the queue, and
\* when they fill it no round with files gets as far as its outputs.
FinitosPileUp ==
  /\ Finitos \in (rounds - 2)..rounds
  /\ Listening => Finitos \in (rounds - 1)..rounds
  /\ spc = "write" /\ filesCounter > 0 => Finitos < MsgQueueCap

\* A SIGINT that finds the server listening finds every channel at rest, so
\* that initSemaphores resets no semaphore somebody holds and discards no
\* message: the round before has given back every unit and emptied every
\* medium, except for the closing messages and for torn channels.
AtRest ==
  /\ \A c \in Chan :
       sem[c] = IF rounds = 0 THEN 0 ELSE IF c \in torn THEN 3 ELSE 2
  /\ mqsem >= IF rounds = 0 THEN 0 ELSE MsgQueueInit
  /\ clientSem = [k \in 0..1 |-> 0]
  /\ \A c \in Fifo : fifo[c] = <<>>
  /\ \A j \in DOMAIN msgq : msgq[j] = Finito
  /\ serverOk = 0
  /\ \A i \in Files : ~Alive(i)
RoundsStartAtRest == [][rounds' # rounds /\ Listening => AtRest]_vars

\* A round can do its work: the server listens at its SIGINT and the queue has
\* room for a part.
Timely == pc0 = "init_fifo1" /\ Listening
RoomForParts == Finitos < MsgQueueCap

\* Such a round ends with Client_0 waiting for the next signal, and with the
\* outputs written unless the next SIGINT tears a channel of it.
RoundEnds == (Timely /\ RoomForParts) ~> (pc0 = "sleep")
OutputsWritten == (Timely /\ RoomForParts) ~> (spc = "finito" \/ torn # {})

\* A child that has passed the gate sends its four parts and exits: neither
\* the other children nor the server can keep it polling for ever.
ChildEnds ==
  \A i \in Files :
    (pc[i] = "poll" /\ RoomForParts /\ torn = {}) ~> (pc[i] = "exited")

\* Client_0 is back to waiting for signals only when the outputs of the round
\* have been written.
ClosesAfterOutputs ==
  [][pc0 = "recv" /\ pc0' = "sleep" =>
       \A i \in 0..(n - 1) : out[i] = Media]_vars

\* Every SIGINT handled while the server listens leads to the end of its round.
TimelyRoundEnds == Timely ~> (pc0 = "sleep")

\* Every SIGINT handled while the queue has room leads to the end of its round.
EveryRoundEnds == (pc0 = "init_fifo1" /\ RoomForParts) ~> (pc0 = "sleep")

\* Client_0's wait for the children to load their files ends.
GateOpens == (pc0 = "gate") ~> (pc0 = "reap")
=============================================================================
