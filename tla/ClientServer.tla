---------------------------- MODULE ClientServer ----------------------------
(***************************************************************************)
(* The client-server exercises of the course, one program in a behaviour.  *)
(***************************************************************************)
EXTENDS Integers, Sequences, FiniteSets

CONSTANTS FifoClients, FifoStarts,               \* of FifoServer
          Texts, Contents, LeftValues,           \* of SharedCopy
          OrderClients, OrderStarts, Capacity,   \* of Orders
          NoClient

ASSUME ClientServerAssumption ==
    /\ NoClient \notin FifoClients \union OrderClients
    /\ FifoStarts \in Nat /\ OrderStarts \in Nat /\ Capacity \in Nat
    /\ Texts \intersect {"nul", "ff"} = {}
    /\ Contents \subseteq Seq(Texts \union {"nul", "ff"})
    /\ LeftValues \subseteq Nat

VARIABLES program,
          server, pipe, starts, armed, fifo, request, client, fd, answered, taken,
          exercise, kind, file, zeroId, left, copyServer, copyClient,
          set, sem, segment, buffer, next, shown,
          variant, noId, orderServer, boots, queues, exists, queue, inHand,
          received, printed, orderClient, prime, msqid, before, sent, rank

fifoVars == <<server, pipe, starts, armed, fifo, request, client, fd, answered,
              taken>>
copyVars == <<exercise, kind, file, zeroId, left, copyServer, copyClient,
              set, sem, segment, buffer, next, shown>>
queueVars == <<variant, noId, orderServer, boots, queues, exists, queue, inHand,
               received, printed, orderClient, prime, msqid, before,
               sent, rank>>
vars == <<program, fifoVars, copyVars, queueVars>>

Fifo == INSTANCE FifoServer WITH Clients <- FifoClients, MaxStarts <- FifoStarts

Copy == INSTANCE SharedCopy WITH
          Files <- Contents, server <- copyServer, client <- copyClient, printed <- shown

Queue == INSTANCE Orders WITH
           Clients <- OrderClients, MaxStarts <- OrderStarts,
           exercise <- variant, zeroId <- noId, server <- orderServer, starts <- boots,
           client <- orderClient

Programs == {"fifo", "copy", "queue"}

\* The parameters of the programs that do not run have one value.
Init ==
    /\ program \in Programs
    /\ Fifo!Init /\ Copy!Init /\ Queue!Init
    /\ program # "copy" =>
          exercise = 4 /\ kind = "missing" /\ ~zeroId /\ ~set /\ buffer = "nul"
    /\ program # "queue" => variant = 1 /\ ~noId

Next ==
    \/ program = "fifo" /\ Fifo!Next /\ UNCHANGED <<program, copyVars, queueVars>>
    \/ program = "copy" /\ Copy!Next /\ UNCHANGED <<program, fifoVars, queueVars>>
    \/ program = "queue" /\ Queue!Next /\ UNCHANGED <<program, fifoVars, copyVars>>

Fairness ==
    /\ WF_(fifoVars)(program = "fifo" /\ Fifo!Server)
    /\ WF_(fifoVars)(program = "fifo" /\ Fifo!Alarm)
    /\ \A k \in FifoClients : WF_(fifoVars)(program = "fifo" /\ Fifo!Client(k))
    /\ WF_(copyVars)(program = "copy" /\ Copy!Server)
    /\ WF_(copyVars)(program = "copy" /\ Copy!Client)
    /\ WF_(queueVars)(program = "queue" /\ Queue!Server)
    /\ \A k \in OrderClients : WF_(queueVars)(program = "queue" /\ Queue!Client(k))

Spec == Init /\ [][Next]_vars /\ Fairness

-----------------------------------------------------------------------------
(* Every variable of the three programs has its type, and with it go the
   facts that tie control points together: an alarm runs except while a server
   answers, no handshake has data and an acknowledgement ready at once, an
   order is in hand exactly while it is about to be printed. *)
TypeOK == program \in Programs /\ Fifo!TypeOK /\ Copy!TypeOK /\ Queue!TypeOK

(* A request to a live server of FifoServer is in its FIFO once or in its
   hands, never both or neither, and it is answered at most once. *)
RequestsServedOnce == Fifo!RequestAccounted /\ Fifo!AnsweredOnce

(* The client of SharedCopy shows the chunks of the file once each, in order,
   up to the first it takes for the end, whatever an earlier run has left; and
   a server that is ended by the removal of the semaphore set has nothing left
   to deliver. *)
ChunksShownOnce == Copy!ShownInOrder /\ Copy!RaceLosesNoData

(* In Orders an accepted order is in its queue once or was received once, over
   restarts of the server; prime orders are taken first, and orders of one kind
   in the order in which they were accepted. *)
OrdersServedInOrder == Queue!OrderAccounted /\ Queue!ServiceOrder

(* Nobody waits for ever, but for the cases the parts name: the server of
   FifoServer that opens a dead client's FIFO, with all behind it; a request
   that SETALL erases or a file that is not announced in SharedCopy; in Orders
   a stop of the server.  Servers with an alarm end. *)
NobodyWaitsForEver ==
    /\ Fifo!ClientServed /\ (program = "fifo" => Fifo!ServerEnds)
    /\ program = "copy" => Copy!ClientEnds /\ Copy!ServerEnds
    /\ Queue!OrderPrinted /\ Queue!ClientUnblocked

(* What a server has created is there after its end only where the parts say:
   the FIFO's name after SIGPIPE, an early SIGINT or a second signal inside
   quit(); the queue when no order was taken from it, for SIGTERM may come
   before msqid is stored, or when its identifier is 0. *)
RemovedAtEnd == Fifo!NameLeftBehind /\ Queue!QueueRemoved
=============================================================================
