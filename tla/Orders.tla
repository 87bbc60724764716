------------------------------- MODULE Orders -------------------------------
(***************************************************************************)
(* Orders on a System V message queue                                      *)
(* (soluzioni/solutions_message_queue/solutions).  The three exercises     *)
(* differ in how the server takes an order: any (ese_1), prime users'      *)
(* first (ese_2), prime users' first and without waiting (ese_3).          *)
(***************************************************************************)
EXTENDS Naturals, Sequences, SequencesExt, FiniteSets

CONSTANTS Clients, NoClient,
          Capacity,  \* the orders the queue has room for (msg_qbytes)
          MaxStarts  \* the times a server is started

VARIABLES exercise,
          zeroId,   \* the kernel gives the queue the identifier 0
          server,   \* control point of the server
          starts,
          queues,   \* the queues created so far; the last may still exist
          exists,
          queue,    \* the clients whose orders are in it
          inHand,   \* the order the server has received and not yet printed
          received, \* history: the orders received from the last queue
          printed,
          client,   \* control point of every client
          prime,    \* the clients that are prime users
          msqid,    \* the queue every client has found
          before,   \* history: what had been received when an order was sent
          sent,     \* history: the orders that msgsnd has accepted
          rank      \* history: the place of every order among them

serverVars == <<server, starts, inHand, printed>>
queueVars == <<queues, exists, queue, received>>
clientVars == <<client, prime, msqid, before, sent, rank>>
params == <<exercise, zeroId>>
vars == <<params, serverVars, queueVars, clientVars>>

ServerPC == {"off", "masked", "created", "sleep", "loop", "print"}
ClientPC == {"start", "fill", "send", "sent", "failed"}

Init ==
    /\ exercise \in 1..3 /\ zeroId \in BOOLEAN
    /\ server = "off" /\ starts = 0 /\ inHand = NoClient /\ printed = {}
    /\ queues = 0 /\ exists = FALSE /\ queue = <<>> /\ received = <<>>
    /\ client = [c \in Clients |-> "start"] /\ prime = {}
    /\ msqid = [c \in Clients |-> 0] /\ before = [c \in Clients |-> 0]
    /\ sent = 0 /\ rank = [c \in Clients |-> 0]

-----------------------------------------------------------------------------
(* The server *)

\* All signals but SIGTERM are blocked, and SIGTERM has its handler.
Start ==
    /\ server = "off" /\ starts < MaxStarts
    /\ server' = "masked" /\ starts' = starts + 1
    /\ UNCHANGED <<params, inHand, printed, queueVars, clientVars>>

\* msgget has returned, msqid is not yet written.
Msgget ==
    /\ server = "masked" /\ server' = "created"
    /\ exists' = TRUE
    /\ \/ exists /\ UNCHANGED <<queues, queue, received>>
       \/ ~exists /\ queues' = queues + 1 /\ queue' = <<>> /\ received' = <<>>
    /\ UNCHANGED <<params, starts, inHand, printed, clientVars>>

\* ese_2 gives the users a minute to fill the queue.
StoreMsqid ==
    /\ server = "created"
    /\ server' = IF exercise = 2 THEN "sleep" ELSE "loop"
    /\ UNCHANGED <<params, starts, inHand, printed, queueVars, clientVars>>

\* Mutant: the server sleeps for ever.
WakeUpNever == FALSE /\ UNCHANGED vars

WakeUp ==
    /\ server = "sleep" /\ server' = "loop"
    /\ UNCHANGED <<params, starts, inHand, printed, queueVars, clientVars>>

\* Mutant: msgrcv copies the order and leaves it in the queue.
TakeCopy(i) ==
    /\ server' = "print" /\ inHand' = queue[i]
    /\ received' = Append(received, queue[i])
    /\ UNCHANGED <<params, starts, queue, printed, queues, exists, clientVars>>

Take(i) ==
    /\ server' = "print"
    /\ inHand' = queue[i] /\ queue' = RemoveAt(queue, i)
    /\ received' = Append(received, queue[i])
    /\ UNCHANGED <<params, starts, printed, queues, exists, clientVars>>

\* Mutant: msgrcv with the type 2 first.
IsNextNormal(i) ==
    /\ queue[i] \notin prime \/ \A j \in 1..Len(queue) : queue[j] \in prime
    /\ \A j \in 1..i - 1 : queue[j] \in prime /\ queue[i] \notin prime

\* Mutant: the last order of the lowest type is taken.
IsNextNewest(i) ==
    IF \E j \in 1..Len(queue) : queue[j] \in prime
    THEN queue[i] \in prime /\ \A j \in i + 1..Len(queue) : queue[j] \notin prime
    ELSE i = Len(queue)

\* msgrcv with the type -2: the first order of the lowest type.
IsNext(i) ==
    IF \E j \in 1..Len(queue) : queue[j] \in prime
    THEN queue[i] \in prime /\ \A j \in 1..i - 1 : queue[j] \notin prime
    ELSE i = 1

ReceiveAny == exercise = 1 /\ server = "loop" /\ queue # <<>> /\ Take(1)

ReceiveByType ==
    /\ exercise = 2 /\ server = "loop"
    /\ \E i \in 1..Len(queue) : IsNext(i) /\ Take(i)

ReceiveNoWait ==
    /\ exercise = 3 /\ server = "loop"
    /\ \/ \E i \in 1..Len(queue) : IsNext(i) /\ Take(i)
       \/ /\ queue = <<>> /\ server' = "sleep"
          /\ UNCHANGED <<params, starts, inHand, printed, queueVars, clientVars>>

PrintOrder ==
    /\ server = "print" /\ server' = "loop"
    /\ printed' = printed \union {inHand} /\ inHand' = NoClient
    /\ UNCHANGED <<params, starts, queueVars, clientVars>>

\* Mutant: the handler does not remove the queue while it prints.
SignTermHandlerKeeps ==
    /\ server # "off" /\ server' = "off" /\ inHand' = NoClient
    /\ IF server \in {"masked", "created", "print"} \/ zeroId
       THEN UNCHANGED <<exists, queue>>
       ELSE exists' = FALSE /\ queue' = <<>>
    /\ UNCHANGED <<params, starts, printed, queues, received, clientVars>>

\* The handler removes the queue if msqid > 0; what is in it goes with it.
SignTermHandler ==
    /\ server # "off" /\ server' = "off" /\ inHand' = NoClient
    /\ IF server \in {"masked", "created"} \/ zeroId
       THEN UNCHANGED <<exists, queue>>
       ELSE exists' = FALSE /\ queue' = <<>>
    /\ UNCHANGED <<params, starts, printed, queues, received, clientVars>>

-----------------------------------------------------------------------------
(* The clients *)

GetQueue(c) ==
    /\ client[c] = "start"
    /\ client' = [client EXCEPT ![c] = IF exists THEN "fill" ELSE "failed"]
    /\ msqid' = [msqid EXCEPT ![c] = IF exists THEN queues ELSE 0]
    /\ UNCHANGED <<params, serverVars, queueVars, prime, before, sent, rank>>

\* The questions; in ese_1 every order has type 1.  A client that gives a
\* wrong answer ends without an order and is left out.
FillOrder(c) ==
    /\ client[c] = "fill"
    /\ client' = [client EXCEPT ![c] = "send"]
    /\ \/ prime' = prime \union {c}
       \/ exercise # 1 /\ UNCHANGED prime
    /\ UNCHANGED <<params, serverVars, queueVars, msqid, before, sent, rank>>

\* msgsnd waits while the queue is full.
SendOrder(c) ==
    /\ client[c] = "send"
    /\ exists /\ msqid[c] = queues /\ Len(queue) < Capacity
    /\ queue' = Append(queue, c)
    /\ client' = [client EXCEPT ![c] = "sent"]
    /\ before' = [before EXCEPT ![c] = Len(received)]
    /\ sent' = sent + 1 /\ rank' = [rank EXCEPT ![c] = sent']
    /\ UNCHANGED <<params, serverVars, queues, exists, received, prime, msqid>>

\* Mutant: a removed queue does not wake its senders.
SendFailsOnlyIfGone(c) ==
    /\ client[c] = "send" /\ ~exists
    /\ client' = [client EXCEPT ![c] = "failed"]
    /\ UNCHANGED <<params, serverVars, queueVars, prime, msqid, before, sent, rank>>

\* The queue was removed before msgsnd, or while it waited.
SendFails(c) ==
    /\ client[c] = "send" /\ (~exists \/ msqid[c] # queues)
    /\ client' = [client EXCEPT ![c] = "failed"]
    /\ UNCHANGED <<params, serverVars, queueVars, prime, msqid, before, sent, rank>>

-----------------------------------------------------------------------------
Server == Msgget \/ StoreMsqid \/ WakeUp \/ ReceiveAny \/ ReceiveByType
          \/ ReceiveNoWait \/ PrintOrder
Client(c) == GetQueue(c) \/ FillOrder(c) \/ SendOrder(c) \/ SendFails(c)

Next == Start \/ Server \/ SignTermHandler \/ \E c \in Clients : Client(c)

Spec == Init /\ [][Next]_vars /\ WF_vars(Server) /\ \A c \in Clients : WF_vars(Client(c))

-----------------------------------------------------------------------------
(* Every variable has its type; an order is in hand exactly while it is
   about to be printed, and no queue holds more than it has room for. *)
TypeOK ==
    /\ exercise \in 1..3 /\ zeroId \in BOOLEAN
    /\ server \in ServerPC /\ starts \in 0..MaxStarts
    /\ queues \in 0..starts /\ exists \in BOOLEAN
    /\ queue \in Seq(Clients) /\ Len(queue) <= Capacity
    /\ received \in Seq(Clients) /\ printed \subseteq Clients
    /\ inHand \in Clients \union {NoClient} /\ (inHand # NoClient <=> server = "print")
    /\ client \in [Clients -> ClientPC] /\ prime \subseteq Clients
    /\ msqid \in [Clients -> 0..MaxStarts] /\ before \in [Clients -> Nat]
    /\ sent \in Nat /\ rank \in [Clients -> Nat]
    /\ server \notin {"off", "masked"} => exists

SentTo(c) == client[c] = "sent" /\ msqid[c] = queues

(* Every order msgsnd has accepted was received once or is in its queue once,
   as long as the queue is not removed, over restarts of the server. *)
OrderAccounted ==
    \A c \in Clients : SentTo(c) /\ exists =>
        Cardinality({i \in 1..Len(received) : received[i] = c})
            + Cardinality({i \in 1..Len(queue) : queue[i] = c}) = 1

(* A normal user's order is taken before a prime user's only if it was taken
   before that was sent, and orders of one type are taken in the order in
   which msgsnd has accepted them: nothing else overtakes. *)
ServiceOrder ==
    \A j \in 1..Len(received) : \A i \in 1..j - 1 :
        LET a == received[i] b == received[j] IN
          /\ exercise # 1 /\ b \in prime /\ a \notin prime => before[b] >= i
          /\ (a \in prime <=> b \in prime) => rank[a] < rank[b]

(* An accepted order is printed, unless SIGTERM ends the server first: no
   order waits for ever behind prime ones or behind the sleep of ese_3. *)
OrderPrinted ==
    \A c \in Clients :
        (Contains(queue, c) \/ inHand = c) /\ server # "off"
            ~> (c \in printed \/ server = "off")

(* A client that waits in msgsnd for room gets it while a server is there,
   and is woken with an error when the queue goes. *)
ClientUnblocked ==
    \A c \in Clients : client[c] = "send" ~> (client[c] # "send" \/ server = "off")

(* A queue does not outlive the server that has taken an order from it, and no
   later server or client finds it, unless its identifier is 0, which the
   handler takes for "none". *)
QueueRemoved ==
    exists /\ received # <<>> => zeroId \/ server \in {"sleep", "loop", "print"}

=============================================================================
