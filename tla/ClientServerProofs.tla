------------------------- MODULE ClientServerProofs -------------------------
(***************************************************************************)
(* Proofs about ClientServer.  Each of the three programs has an inductive *)
(* invariant of its own, and a step of one leaves the others alone.        *)
(***************************************************************************)
EXTENDS ClientServer, SequenceTheorems, FiniteSetTheorems, TLAPS

-----------------------------------------------------------------------------
(* FifoServer                                                              *)

FifoTypes ==
    /\ server \in Fifo!ServerPC /\ starts \in 0..FifoStarts /\ pipe \in 0..starts
    /\ armed \in BOOLEAN /\ fifo \in Seq(FifoClients)
    /\ request \in FifoClients \union {NoClient}
    /\ client \in [FifoClients -> Fifo!ClientPC] /\ fd \in [FifoClients -> 0..starts]
    /\ answered \subseteq FifoClients

\* What goes with the control points of the server.
FifoControl ==
    /\ server # "off" => pipe # 0
    /\ server \in {"got", "respond", "write"} => request \in FifoClients
    /\ server \in {"handlers", "open", "read", "got"} => armed = TRUE
    /\ server \in {"off", "made", "respond", "write", "quitAlarm"} => armed = FALSE
    /\ server \notin Fifo!Reading => fifo = <<>>

\* Before the server has opened its pipe no client is past its own open, and
\* while it waits for a writer there is none.
FifoFresh ==
    \A c \in FifoClients : fd[c] = pipe =>
        /\ server \in {"made", "handlers"} => client[c] \in {"opening", "dead"}
        /\ server = "open" => client[c] = "dead"

FifoInHand(c) == request = c /\ server \in {"got", "respond", "write"}

\* The requests in the pipe are of clients that wait (or have died since),
\* each there once.
FifoRequests ==
    /\ \A i \in 1..Len(fifo) : /\ client[fifo[i]] \in {"waiting", "dead"}
                               /\ fd[fifo[i]] = pipe
                               /\ fifo[i] \notin answered /\ ~FifoInHand(fifo[i])
    /\ \A i, j \in 1..Len(fifo) : i # j => fifo[i] # fifo[j]

\* The client whose request is in hand has not been answered, and reads its
\* own FIFO exactly from the moment the server has it open.
FifoHand ==
    \A c \in FifoClients :
        /\ FifoInHand(c) => /\ c \notin answered /\ fd[c] = pipe
                            /\ client[c] \in {"waiting", "reading", "dead"}
                            /\ client[c] = "waiting" => server # "write"
                            /\ client[c] = "reading" => server = "write"
        /\ c \in answered => client[c] \in {"reading", "done", "dead"}

\* Nobody waits at a pipe that is read but those whose request is kept.
FifoKept ==
    \A c \in FifoClients :
        client[c] = "waiting" /\ fd[c] = pipe /\ server \in Fifo!Reading =>
            \/ \E i \in 1..Len(fifo) : fifo[i] = c
            \/ FifoInHand(c)

FifoInv == FifoTypes /\ FifoControl /\ FifoFresh /\ FifoRequests /\ FifoHand /\ FifoKept

Signals == {"SIGINT", "SIGALRM", "SIGPIPE", "early SIGINT"}

\* What the signals that the server has taken say of its end.
FifoTaken ==
    /\ taken \subseteq Signals
    /\ server = "quitInt" => "SIGINT" \in taken
    /\ server = "quitAlarm" => "SIGALRM" \in taken
    /\ "SIGPIPE" \in taken =>
          server = "off" /\ request \in FifoClients /\ client[request] = "dead"
    /\ server = "off" /\ pipe # 0 =>
          \/ "early SIGINT" \in taken
          \/ "SIGPIPE" \in taken
          \/ {"SIGINT", "SIGALRM"} \subseteq taken

LEMMA FifoCardinality == \A S : Fifo!Cardinality(S) = Cardinality(S)
BY Zenon DEF Fifo!Cardinality, Cardinality

LEMMA FifoInit ==
  ASSUME Fifo!Init
  PROVE  FifoInv
<1> USE DEF Fifo!Init
<1>1. FifoTypes
  <2>1. fifo \in Seq(FifoClients)
    BY EmptySeq
  <2>2. client \in [FifoClients -> Fifo!ClientPC] /\ fd \in [FifoClients -> 0..starts]
    BY DEF Fifo!ClientPC
  <2>3. armed \in BOOLEAN
    BY Zenon
  <2>4. starts \in 0..FifoStarts /\ pipe \in 0..starts
    BY ClientServerAssumption
  <2> QED
    BY <2>1, <2>2, <2>3, <2>4, Zenon DEF FifoTypes, Fifo!ServerPC
<1>3. FifoControl
  BY DEF FifoControl, Fifo!Reading
<1>2. FifoFresh /\ FifoRequests /\ FifoHand /\ FifoKept
  BY EmptySeq DEF FifoFresh, FifoRequests, FifoHand, FifoKept, FifoInHand, Fifo!Reading
<1> QED
  BY <1>1, <1>2, <1>3 DEF FifoInv

\* What no step of the server's control disturbs: the clients and the pipe.
LEMMA FifoStartNext ==
  ASSUME FifoInv, Fifo!Start
  PROVE  FifoInv'
<1> USE DEF FifoInv, Fifo!Start
<1>1. FifoTypes' /\ FifoControl'
  BY ClientServerAssumption DEF FifoTypes, FifoControl, Fifo!ServerPC, Fifo!Reading
<1>2. FifoFresh'
  BY DEF FifoTypes, FifoFresh
<1>3. fifo = <<>> /\ fifo' = <<>> /\ Len(fifo') = 0
  BY EmptySeq DEF FifoControl, Fifo!Reading
<1>4. FifoRequests' /\ FifoHand' /\ FifoKept'
  BY <1>3 DEF FifoRequests, FifoHand, FifoKept, FifoInHand, Fifo!Reading
<1> QED
  BY <1>1, <1>2, <1>4

LEMMA FifoListenNext ==
  ASSUME FifoInv, Fifo!SetHandlers \/ Fifo!Listen
  PROVE  FifoInv'
<1> USE DEF FifoInv, Fifo!SetHandlers, Fifo!Listen, Fifo!Opening
<1>1. FifoTypes'
  BY DEF FifoTypes, Fifo!ServerPC, Fifo!ClientPC, Fifo!Reading
<1>2. FifoControl'
  BY DEF FifoTypes, FifoControl, Fifo!Reading
<1>3. FifoFresh'
  BY DEF FifoTypes, FifoFresh
<1>4. fifo = <<>> /\ fifo' = <<>> /\ Len(fifo') = 0
  BY EmptySeq DEF FifoControl, Fifo!Reading
<1>5. FifoRequests' /\ FifoHand'
  BY <1>4 DEF FifoTypes, FifoRequests, FifoHand, FifoInHand
<1>6. FifoKept'
  BY <1>4 DEF FifoTypes, FifoFresh, FifoKept, FifoInHand, Fifo!Reading
<1> QED
  BY <1>1, <1>2, <1>3, <1>5, <1>6

LEMMA FifoReadNext ==
  ASSUME FifoInv, Fifo!ReadRequest
  PROVE  FifoInv'
<1> USE DEF FifoInv, Fifo!ReadRequest
<1>1. PICK k \in Nat : k = Len(fifo)
  BY LenProperties DEF FifoTypes
<1>2. PICK c : c = Head(fifo)
  OBVIOUS
<1>3. /\ k >= 1 /\ c = fifo[1] /\ c \in FifoClients
      /\ fifo' \in Seq(FifoClients) /\ Len(fifo') = k - 1
      /\ \A i \in 1..(k - 1) : fifo'[i] = fifo[i + 1]
  <2>1. /\ k > 0 /\ c = fifo[1]
        /\ fifo' \in Seq(FifoClients) /\ Len(fifo') = k - 1
        /\ \A i \in 1..(k - 1) : fifo'[i] = fifo[i + 1]
    BY <1>1, <1>2, EmptySeq, HeadTailProperties DEF FifoTypes
  <2> QED
    BY <1>1, <2>1, ElementOfSeq DEF FifoTypes
<1>4. FifoTypes' /\ FifoControl' /\ FifoFresh'
  BY <1>2, <1>3 DEF FifoTypes, FifoControl, FifoFresh, Fifo!ServerPC, Fifo!Reading
<1>5. /\ \A i \in 1..k : /\ client[fifo[i]] \in {"waiting", "dead"} /\ fd[fifo[i]] = pipe
                         /\ fifo[i] \notin answered
      /\ \A i, j \in 1..k : i # j => fifo[i] # fifo[j]
  BY <1>1 DEF FifoRequests
<1>6. FifoRequests'
  <2>1. ASSUME NEW i \in 1..(k - 1)
        PROVE  /\ client[fifo'[i]] \in {"waiting", "dead"} /\ fd[fifo'[i]] = pipe
               /\ fifo'[i] \notin answered /\ fifo'[i] # c
    <3>1. i + 1 \in 1..k /\ 1 \in 1..k /\ i + 1 # 1
      BY <1>3
    <3> QED
      BY <1>3, <1>5, <3>1
  <2>2. ASSUME NEW i \in 1..(k - 1), NEW j \in 1..(k - 1), i # j PROVE fifo'[i] # fifo'[j]
    <3>1. i + 1 \in 1..k /\ j + 1 \in 1..k /\ i + 1 # j + 1
      BY <1>3, <2>2
    <3> QED
      BY <1>3, <1>5, <3>1
  <2> QED
    BY <1>2, <1>3, <2>1, <2>2 DEF FifoRequests, FifoInHand
<1>7. FifoHand'
  <2>1. c \notin answered /\ fd[c] = pipe /\ client[c] \in {"waiting", "dead"}
    <3>1. 1 \in 1..k
      BY <1>3
    <3> QED
      BY <1>3, <1>5, <3>1
  <2> QED
    BY <1>2, <2>1 DEF FifoHand, FifoInHand
<1>8. FifoKept'
  <2>1. ASSUME NEW d \in FifoClients, client[d] = "waiting", fd[d] = pipe, d # c
        PROVE  \E i \in 1..(k - 1) : fifo'[i] = d
    <3>1. PICK i \in 1..k : fifo[i] = d
      BY <1>1, <2>1 DEF FifoKept, FifoInHand, Fifo!Reading
    <3>2. i # 1 /\ i - 1 \in 1..(k - 1) /\ (i - 1) + 1 = i
      BY <1>3, <2>1, <3>1
    <3> QED
      BY <1>3, <3>1, <3>2
  <2> QED
    BY <1>2, <1>3, <2>1 DEF FifoKept, FifoInHand
<1> QED
  BY <1>4, <1>6, <1>7, <1>8

LEMMA FifoRespondNext ==
  ASSUME FifoInv, Fifo!RemoveAlarm \/ Fifo!OpenClientFifo \/ Fifo!Respond
  PROVE  FifoInv'
<1> USE DEF FifoInv, Fifo!RemoveAlarm, Fifo!OpenClientFifo, Fifo!Respond
<1>1. request \in FifoClients
  BY DEF FifoControl
<1>2. FifoTypes' /\ FifoControl'
  BY <1>1 DEF FifoTypes, FifoControl, Fifo!ServerPC, Fifo!ClientPC, Fifo!Reading
<1>3. FifoFresh'
  BY DEF FifoTypes, FifoFresh
<1>4. FifoHand'
  BY <1>1 DEF FifoTypes, FifoHand, FifoInHand
<1>5. \A i \in 1..Len(fifo) : fifo[i] \in FifoClients /\ fifo[i] # request
  BY ElementOfSeq DEF FifoTypes, FifoRequests, FifoInHand
<1>6. FifoRequests'
  <2>1. \A i \in 1..Len(fifo) : client'[fifo[i]] = client[fifo[i]] /\ ~FifoInHand(fifo[i])'
    BY <1>1, <1>5 DEF FifoTypes, FifoInHand
  <2>2. UNCHANGED <<fifo, fd, pipe, request>> /\ answered' \subseteq answered \union {request}
    OBVIOUS
  <2> QED
    BY <1>5, <2>1, <2>2 DEF FifoRequests
<1>7. FifoKept'
  BY <1>1 DEF FifoTypes, FifoKept, FifoHand, FifoInHand, Fifo!Reading
<1> QED
  BY <1>2, <1>3, <1>4, <1>6, <1>7

\* A server that ends or quits drops what is in its pipe.
LEMMA FifoStopNext ==
  ASSUME FifoInv, Fifo!BrokenPipe \/ Fifo!Unlink \/ Fifo!Alarm \/ Fifo!SigInt
  PROVE  FifoInv'
<1> USE DEF FifoInv
<1>1. /\ server # "off" /\ server' \in {"off", "quitInt", "quitAlarm"}
      /\ server' # "off" => server \in Fifo!Reading /\ pipe' = pipe
      /\ server' \in {"off", "quitAlarm"} => armed' = FALSE
      /\ pipe' \in {0, pipe} /\ armed' \in {FALSE, armed} /\ fifo' = <<>>
      /\ UNCHANGED <<starts, request, client, fd, answered>>
  <2>1. CASE Fifo!BrokenPipe
    BY <2>1 DEF Fifo!BrokenPipe, Fifo!Killed
  <2>2. CASE Fifo!Unlink
    BY <2>2 DEF Fifo!Unlink, Fifo!Quitting, FifoControl, Fifo!Reading
  <2>3. CASE Fifo!Alarm
    BY <2>3 DEF Fifo!Alarm, Fifo!QuitFrom, Fifo!QuitUnopened, Fifo!Killed, FifoControl, Fifo!Reading
  <2>4. CASE Fifo!SigInt
    BY <2>4 DEF Fifo!SigInt, Fifo!QuitFrom, Fifo!QuitUnopened, Fifo!Killed, FifoControl, Fifo!Reading
  <2> QED
    BY <2>1, <2>2, <2>3, <2>4
<1>2. FifoTypes'
  <2>1. fifo' \in Seq(FifoClients)
    BY <1>1, EmptySeq
  <2>2. armed' \in BOOLEAN
    BY <1>1, Zenon DEF FifoTypes
  <2>3. starts' = starts /\ pipe' \in 0..starts
    BY <1>1 DEF FifoTypes
  <2>4. server' \in Fifo!ServerPC
    BY <1>1 DEF Fifo!ServerPC, Fifo!Quitting
  <2> QED
    BY <1>1, <2>1, <2>2, <2>3, <2>4, Zenon DEF FifoTypes
<1>5. FifoControl'
  BY <1>1 DEF FifoControl, Fifo!Reading
<1>3. FifoFresh' /\ FifoHand' /\ FifoKept'
  BY <1>1 DEF FifoFresh, FifoHand, FifoKept, FifoInHand, Fifo!Reading
<1>4. FifoRequests'
  BY <1>1, EmptySeq DEF FifoRequests
<1> QED
  BY <1>2, <1>3, <1>4, <1>5

LEMMA FifoOpenNext ==
  ASSUME FifoInv, NEW c \in FifoClients, Fifo!OpenServerFifo(c)
  PROVE  FifoInv'
<1> USE DEF FifoInv, Fifo!OpenServerFifo
<1>1. FifoTypes' /\ FifoControl'
  BY DEF FifoTypes, FifoControl, Fifo!ServerPC, Fifo!ClientPC, Fifo!Reading
<1>2. FifoFresh'
  BY DEF FifoTypes, FifoFresh, Fifo!Reading
<1>3. \A i \in 1..Len(fifo) : fifo[i] \in FifoClients /\ fifo[i] # c
  BY ElementOfSeq DEF FifoTypes, FifoRequests
<1>4. FifoRequests'
  BY <1>3 DEF FifoTypes, FifoRequests, FifoInHand, Fifo!Reading
<1>5. FifoHand'
  BY DEF FifoTypes, FifoHand, FifoInHand, Fifo!Reading
<1>6. FifoKept'
  BY DEF FifoTypes, FifoKept, FifoInHand, FifoFresh, Fifo!Reading
<1> QED
  BY <1>1, <1>2, <1>4, <1>5, <1>6

LEMMA FifoSendNext ==
  ASSUME FifoInv, NEW c \in FifoClients, Fifo!SendRequest(c)
  PROVE  FifoInv'
<1> USE DEF FifoInv, Fifo!SendRequest
<1>1. PICK k \in Nat : k = Len(fifo)
  BY LenProperties DEF FifoTypes
<1>2. \A i \in 1..k : fifo[i] \in FifoClients /\ fifo[i] # c
  BY <1>1, ElementOfSeq DEF FifoTypes, FifoRequests
<1>3. CASE fifo' = fifo
  <2>1. client' = [client EXCEPT ![c] = "dead"]
    <3>1. ~(fifo' = Append(fifo, c))
      BY <1>3, AppendProperties, LenProperties DEF FifoTypes
    <3> QED
      BY <3>1
  <2>2. FifoTypes' /\ FifoControl' /\ FifoFresh' /\ FifoHand' /\ FifoKept'
    BY <1>3, <2>1
       DEF FifoTypes, FifoControl, FifoFresh, FifoHand, FifoKept, FifoInHand, Fifo!ClientPC
  <2>3. FifoRequests'
    BY <1>1, <1>2, <1>3, <2>1 DEF FifoTypes, FifoRequests, FifoInHand
  <2> QED
    BY <2>2, <2>3
<1>4. CASE /\ server \in Fifo!Reading /\ fd[c] = pipe /\ fifo' = Append(fifo, c)
           /\ client' = [client EXCEPT ![c] = "waiting"]
  <2>1. /\ fifo' \in Seq(FifoClients) /\ Len(fifo') = k + 1
        /\ \A i \in 1..k : fifo'[i] = fifo[i]
        /\ fifo'[k + 1] = c
    BY <1>1, <1>4, AppendProperties DEF FifoTypes
  <2>2. FifoTypes' /\ FifoControl' /\ FifoFresh' /\ FifoHand'
    BY <1>4, <2>1
       DEF FifoTypes, FifoControl, FifoFresh, FifoHand, FifoInHand, Fifo!ClientPC, Fifo!Reading
  <2>3. c \notin answered /\ ~FifoInHand(c)
    BY DEF FifoHand
  <2>4. \A i \in 1..k : /\ client[fifo[i]] \in {"waiting", "dead"} /\ fd[fifo[i]] = pipe
                        /\ fifo[i] \notin answered /\ ~FifoInHand(fifo[i])
    BY <1>1 DEF FifoRequests
  <2>5. ASSUME NEW i \in 1..(k + 1)
        PROVE  /\ client'[fifo'[i]] \in {"waiting", "dead"} /\ fd[fifo'[i]] = pipe
               /\ fifo'[i] \notin answered /\ ~FifoInHand(fifo'[i])
    <3>1. CASE i = k + 1
      BY <1>4, <2>1, <2>3, <3>1 DEF FifoTypes
    <3>2. CASE i \in 1..k
      BY <1>2, <1>4, <2>1, <2>4, <3>2 DEF FifoTypes
    <3> QED
      BY <3>1, <3>2
  <2>6. ASSUME NEW i \in 1..(k + 1), NEW j \in 1..(k + 1), i # j
        PROVE  fifo'[i] # fifo'[j]
    BY <1>1, <1>2, <2>1, <2>6 DEF FifoRequests
  <2>7. FifoRequests'
    BY <2>1, <2>5, <2>6 DEF FifoRequests, FifoInHand
  <2>8. ASSUME NEW d \in FifoClients, client'[d] = "waiting", fd[d] = pipe, ~FifoInHand(d)
        PROVE  \E i \in 1..(k + 1) : fifo'[i] = d
    <3>1. CASE d = c
      BY <2>1, <3>1
    <3>2. CASE d # c
      <4>1. PICK i \in 1..k : fifo[i] = d
        BY <1>1, <1>4, <2>8, <3>2 DEF FifoTypes, FifoKept
      <4> QED
        BY <2>1, <4>1
    <3> QED
      BY <3>1, <3>2
  <2>9. FifoKept'
    BY <2>1, <2>8 DEF FifoKept, FifoInHand
  <2> QED
    BY <2>2, <2>7, <2>9
<1> QED
  BY <1>3, <1>4

LEMMA FifoEndNext ==
  ASSUME FifoInv, NEW c \in FifoClients, Fifo!ReadResponse(c) \/ Fifo!Die(c)
  PROVE  FifoInv'
<1> USE DEF FifoInv
<1>1. PICK e \in {"done", "failed", "dead"} :
        /\ client' = [client EXCEPT ![c] = e]
        /\ e = "done" => client[c] = "reading" /\ c \in answered
        /\ e = "failed" => client[c] = "reading" /\ c \notin answered
                           /\ (server # "write" \/ request # c)
  BY DEF Fifo!ReadResponse, Fifo!Die
<1>2. UNCHANGED <<server, pipe, starts, armed, fifo, request, fd, answered>>
  BY DEF Fifo!ReadResponse, Fifo!Die
<1>3. FifoTypes' /\ FifoControl'
  BY <1>1, <1>2 DEF FifoTypes, FifoControl, Fifo!ClientPC
<1>4. FifoFresh' /\ FifoHand' /\ FifoKept'
  BY <1>1, <1>2 DEF FifoTypes, FifoFresh, FifoHand, FifoKept, FifoInHand
<1>5. FifoRequests'
  <2>1. \A i \in 1..Len(fifo) : fifo[i] \in FifoClients
    BY ElementOfSeq DEF FifoTypes
  <2> QED
    BY <1>1, <1>2, <2>1 DEF FifoTypes, FifoRequests, FifoInHand
<1> QED
  BY <1>3, <1>4, <1>5

LEMMA FifoNext == FifoInv /\ [Fifo!Next]_fifoVars => FifoInv'
<1> SUFFICES ASSUME FifoInv, [Fifo!Next]_fifoVars PROVE FifoInv'
  OBVIOUS
<1>1. CASE UNCHANGED fifoVars
  BY <1>1 DEF fifoVars, FifoInv, FifoTypes, FifoControl, FifoFresh, FifoRequests, FifoHand,
              FifoKept, FifoInHand
<1>2. CASE Fifo!Start \/ Fifo!Server \/ Fifo!Alarm \/ Fifo!SigInt
  BY <1>2, FifoStartNext, FifoListenNext, FifoReadNext, FifoRespondNext, FifoStopNext
     DEF Fifo!Server
<1>3. ASSUME NEW c \in FifoClients, Fifo!Client(c) \/ Fifo!Die(c) PROVE FifoInv'
  BY <1>3, FifoOpenNext, FifoSendNext, FifoEndNext DEF Fifo!Client
<1> QED
  BY <1>1, <1>2, <1>3 DEF Fifo!Next

LEMMA FifoTakenInit ==
  ASSUME Fifo!Init
  PROVE  FifoTaken
BY DEF Fifo!Init, FifoTaken

LEMMA FifoTakenNext ==
  ASSUME FifoInv, FifoTaken, [Fifo!Next]_fifoVars
  PROVE  FifoTaken'
<1> USE DEF FifoInv, FifoTypes, FifoControl, FifoTaken, Signals, Fifo!Took
<1>1. CASE UNCHANGED fifoVars
  BY <1>1 DEF fifoVars
<1>2. CASE Fifo!Start
  BY <1>2 DEF Fifo!Start
<1>3. CASE Fifo!SetHandlers \/ Fifo!Listen \/ Fifo!ReadRequest \/ Fifo!RemoveAlarm
           \/ Fifo!OpenClientFifo \/ Fifo!Respond
  BY <1>3 DEF Fifo!SetHandlers, Fifo!Listen, Fifo!ReadRequest, Fifo!RemoveAlarm,
              Fifo!OpenClientFifo, Fifo!Respond
<1>4. CASE Fifo!BrokenPipe
  BY <1>4 DEF Fifo!BrokenPipe, Fifo!Killed
<1>5. CASE Fifo!Unlink
  BY <1>5 DEF Fifo!Unlink, Fifo!Quitting
<1>6. CASE Fifo!Alarm
  BY <1>6 DEF Fifo!Alarm, Fifo!QuitFrom, Fifo!QuitUnopened, Fifo!Killed, Fifo!Reading
<1>7. CASE Fifo!SigInt
  BY <1>7 DEF Fifo!SigInt, Fifo!QuitFrom, Fifo!QuitUnopened, Fifo!Killed, Fifo!Reading
<1>8. ASSUME NEW c \in FifoClients, Fifo!Client(c) \/ Fifo!Die(c) PROVE FifoTaken'
  <2>1. /\ UNCHANGED <<pipe, request, taken>>
        /\ server' = server \/ (server = "open" /\ server' = "read")
        /\ \A d \in FifoClients : client[d] = "dead" => client'[d] = "dead"
    BY <1>8 DEF Fifo!Client, Fifo!OpenServerFifo, Fifo!SendRequest, Fifo!ReadResponse, Fifo!Die,
                Fifo!Ended
  <2> QED
    BY <2>1
<1> QED
  BY <1>1, <1>2, <1>3, <1>4, <1>5, <1>6, <1>7, <1>8 DEF Fifo!Next, Fifo!Server

LEMMA FifoHolds ==
  ASSUME FifoInv, FifoTaken
  PROVE  Fifo!TypeOK /\ Fifo!RequestAccounted /\ Fifo!AnsweredOnce /\ Fifo!NameLeftBehind
<1> USE DEF FifoInv
<1>1. Fifo!TypeOK
  <2>1. fd \in [FifoClients -> 0..FifoStarts]
    BY ClientServerAssumption DEF FifoTypes
  <2> QED
    BY <2>1 DEF FifoTypes, FifoControl, FifoTaken, Signals, Fifo!TypeOK
<1>2. ASSUME NEW c \in FifoClients, client[c] = "waiting", Fifo!Served(c)
      PROVE  IF request = c /\ server \in {"got", "respond"}
             THEN Fifo!Queued(c) = {} ELSE Fifo!Cardinality(Fifo!Queued(c)) = 1
  <2>1. CASE request = c /\ server \in {"got", "respond"}
    BY <2>1 DEF FifoRequests, FifoInHand, Fifo!Queued
  <2>2. CASE ~(request = c /\ server \in {"got", "respond"})
    <3>1. PICK i \in 1..Len(fifo) : fifo[i] = c
      BY <1>2, <2>2 DEF Fifo!Served, FifoKept, FifoHand, FifoInHand
    <3>2. Fifo!Queued(c) = {i}
      BY <3>1 DEF FifoRequests, Fifo!Queued
    <3> QED
      BY <2>2, <3>2, FifoCardinality, FS_Singleton
  <2> QED
    BY <2>1, <2>2
<1>3. Fifo!RequestAccounted
  BY <1>2 DEF Fifo!RequestAccounted
<1>4. Fifo!AnsweredOnce
  BY DEF FifoTypes, FifoRequests, FifoHand, FifoInHand, Fifo!Queued, Fifo!AnsweredOnce
<1>5. Fifo!NameLeftBehind
  BY DEF FifoTaken, Fifo!NameLeftBehind
<1> QED
  BY <1>1, <1>3, <1>4, <1>5

-----------------------------------------------------------------------------
(* SharedCopy                                                              *)

CopyTypes ==
    /\ file \in Contents \union {<<>>} /\ exercise \in {4, 5} /\ kind \in Copy!Kinds
    /\ kind # "file" => file = <<>>
    /\ zeroId \in BOOLEAN /\ set \in BOOLEAN /\ segment \in BOOLEAN
    /\ left \in [0..2 -> Nat]
    /\ copyServer \in Copy!ServerPC /\ copyClient \in Copy!ClientPC
    /\ sem \in [0..2 -> Nat] /\ buffer \in Copy!Chunks /\ next \in Nat
    /\ shown \in Seq(Copy!Chunks)

\* The set is there for a client that has found it, until it removes it, and
\* the segment while the server lives.
CopySetThere ==
    /\ copyClient \in {"post", "data", "show", "remove"} => set
    /\ copyServer = "failed" => copyClient = "done"
    /\ copyServer # "start" /\ ~set => copyClient = "done"
    /\ copyServer \notin {"start", "done"} => segment

\* The client has not asked, and never will if it has failed or passed on.
CopyNotAsked == copyClient \in {"start", "key", "post", "failed"} \/ zeroId
CopyAsleep ==
    CopyNotAsked =>
        /\ zeroId => copyClient \notin {"post", "data", "show"}
        /\ shown = <<>> /\ ~Copy!Taken

\* The server reads to the end once.
CopyCount ==
    /\ copyServer \in {"start", "init", "wait", "open"} => next = 0
    /\ copyServer = "read" => next <= Len(file)
    /\ exercise = 5 /\ copyServer \in {"notify", "ack"} => next > 0
    /\ next <= Len(file) + 1

\* After SETALL a request in the set is that of a client that came after it;
\* one that came before may still post one acknowledgement.
CopyWaiting ==
    copyServer = "wait" =>
        /\ sem[0] \in 0..1 /\ sem[1] = 0 /\ sem[2] \in 0..1
        /\ CopyNotAsked => sem[0] = 0 /\ sem[2] = 0
        /\ copyClient = "show" => sem[2] = 0
        /\ sem[0] = 1 => copyClient = "data" /\ shown = <<>> /\ sem[2] = 0

\* Before its request is taken the client has nothing to go by but what an
\* earlier run has left.
CopyStale ==
    ~Copy!Taken =>
        /\ Len(shown) + sem[1] + (IF copyClient = "show" THEN 1 ELSE 0) <= left[1]
        /\ copyClient \in {"show", "remove", "done"} => zeroId \/ left[1] > 0

\* DATA_READY and CLIENT_READY alternate, the removal of the set included; in
\* ese_4 the data is announced once and the client goes on after that.
CopySems ==
    Copy!Taken =>
        /\ sem[0] = 0 /\ sem[1] \in 0..1 /\ sem[2] \in 0..1 /\ sem[1] + sem[2] <= 1
        /\ exercise = 5 /\ copyServer \notin {"ack", "failed"} => sem[1] = 0 /\ sem[2] = 0
        /\ exercise = 4 =>
              /\ sem[2] = 0 /\ copyServer # "ack"
              /\ sem[1] = 1 => copyServer \in {"detach", "done"}
              /\ copyClient \in {"show", "remove", "done"} =>
                    copyServer \in {"detach", "done"}

\* A chunk is in the buffer and has not been shown.
CopyOffered == copyServer = "notify" \/ (copyServer = "ack" /\ sem[2] = 0)

\* While the client of ese_5 waits for chunks, server and client take turns.
CopyHandshake ==
    Copy!Taken /\ exercise = 5 /\ copyClient \in {"data", "show"} =>
        /\ copyClient = "show" => copyServer = "ack"
        /\ sem[1] = IF copyServer = "ack" /\ copyClient = "data" /\ sem[2] = 0 THEN 1 ELSE 0
        /\ sem[2] = 1 => copyServer = "ack" /\ copyClient = "data"
        /\ next = Len(shown) + IF CopyOffered THEN 1 ELSE 0
        /\ CopyOffered => buffer = IF next <= Len(file) THEN file[next] ELSE "nul"

CopyShown ==
    Copy!Taken /\ exercise = 5 =>
        /\ \A i \in 1..Len(shown) : ~Copy!IsEnd(i) /\ shown[i] = file[i]
        /\ copyClient \in {"remove", "done"} => Copy!IsEnd(Len(shown) + 1)

\* The one chunk of ese_4 stays in the buffer.
CopyShownOnce ==
    Copy!Taken /\ exercise = 4 /\ file # <<>> =>
        /\ copyServer \in {"notify", "detach", "done"} => buffer = Head(file)
        /\ copyClient \in {"data", "show"} => shown = <<>>
        /\ shown \in {<<>>, <<Head(file)>>}

CopyInv == /\ CopyTypes /\ CopySetThere /\ CopyAsleep /\ CopyCount /\ CopyWaiting
           /\ CopyStale /\ CopySems /\ CopyHandshake /\ CopyShown /\ CopyShownOnce

LEMMA CopyFileSeq ==
  ASSUME CopyTypes
  PROVE  file \in Seq(Copy!Chunks) /\ Len(file) \in Nat
<1>1. file \in Seq(Copy!Chunks)
  BY ClientServerAssumption, EmptySeq DEF CopyTypes, Copy!Chunks, Copy!Ends
<1> QED
  BY <1>1, LenProperties

LEMMA CopyInit ==
  ASSUME Copy!Init
  PROVE  CopyInv
<1>1. CopyTypes
  <2>1. file \in Contents \union {<<>>} /\ (kind # "file" => file = <<>>)
    BY DEF Copy!Init
  <2>2. shown \in Seq(Copy!Chunks)
    BY EmptySeq DEF Copy!Init
  <2>3. left \in [0..2 -> Nat] /\ sem = left
    BY ClientServerAssumption DEF Copy!Init, Copy!Zeros
  <2> QED
    BY <2>1, <2>2, <2>3 DEF Copy!Init, CopyTypes, Copy!ServerPC, Copy!ClientPC
<1>2. Len(shown) = 0 /\ shown = <<>>
  BY EmptySeq DEF Copy!Init
<1>3. ~Copy!Taken /\ copyServer = "start" /\ copyClient = "start" /\ next = 0 /\ sem = left
  BY DEF Copy!Init, Copy!Taken
<1>4. CopySetThere /\ CopyAsleep /\ CopyWaiting /\ CopySems /\ CopyHandshake
      /\ CopyShown /\ CopyShownOnce
  BY <1>2, <1>3 DEF CopySetThere, CopyAsleep, CopyWaiting, CopySems, CopyHandshake, CopyShown,
                    CopyShownOnce
<1>5. CopyCount
  BY <1>1, <1>3, CopyFileSeq DEF CopyCount
<1>6. CopyStale
  BY <1>1, <1>2, <1>3 DEF CopyStale, CopyTypes
<1> QED
  BY <1>1, <1>4, <1>5, <1>6 DEF CopyInv

LEMMA CopySemOp ==
  ASSUME NEW s \in 0..2, NEW d \in Int, sem \in [0..2 -> Nat], Copy!SemOp(s, d)
  PROVE  /\ sem' \in [0..2 -> Nat] /\ sem'[s] = sem[s] + d /\ sem'[s] >= 0
         /\ \A t \in 0..2 : t # s => sem'[t] = sem[t]
         /\ set
BY DEF Copy!SemOp

\* What the server writes into the segment and to its read position.
LEMMA CopyReads ==
  ASSUME CopyTypes, Copy!CopyFile \/ Copy!CopyOnce
  PROVE  /\ copyServer \in {"open", "read"} /\ copyServer' \in {"read", "notify", "detach"}
         /\ UNCHANGED <<file, exercise, kind, zeroId, left, copyClient, shown, set, sem, segment>>
         /\ next' \in Nat /\ buffer' \in Copy!Chunks
<1>1. /\ copyServer \in {"open", "read"} /\ copyServer' \in {"read", "notify", "detach"}
      /\ UNCHANGED <<file, exercise, kind, zeroId, left, copyClient, shown, set, sem, segment>>
      /\ next' \in Nat
  <2>1. CASE Copy!CopyOnce
    BY <2>1 DEF Copy!CopyOnce, Copy!Missing, Copy!Opened, Copy!Go, Copy!params, CopyTypes
  <2>2. CASE Copy!CopyFile
    <3>1. /\ copyServer \in {"open", "read"} /\ copyServer' \in {"read", "notify", "detach"}
          /\ UNCHANGED <<file, exercise, kind, zeroId, left, copyClient, shown, set, sem, segment>>
      BY <2>2 DEF Copy!CopyFile, Copy!Missing, Copy!Opened, Copy!Go, Copy!params
    <3>2. next' \in {next, next + 1}
      BY <2>2 DEF Copy!CopyFile, Copy!Missing, Copy!Opened
    <3> QED
      BY <3>1, <3>2 DEF CopyTypes
  <2> QED
    BY <2>1, <2>2
<1>2. buffer' \in Copy!Chunks
  <2>1. CASE file # <<>> /\ buffer' = Head(file)
    BY <2>1, CopyFileSeq, HeadTailProperties
  <2>2. CASE next' \in 1..Len(file) /\ buffer' = file[next']
    BY <2>2, CopyFileSeq, ElementOfSeq
  <2>3. CASE buffer' \in {buffer, "nul", "ff"}
    BY <2>3 DEF CopyTypes, Copy!Chunks, Copy!Ends
  <2>4. \/ file # <<>> /\ buffer' = Head(file)
        \/ next' \in 1..Len(file) /\ buffer' = file[next']
        \/ buffer' \in {buffer, "nul", "ff"}
    <3>1. CASE Copy!CopyOnce
      BY <3>1 DEF Copy!CopyOnce, Copy!Missing, Copy!Opened
    <3>2. CASE Copy!CopyFile
      BY <3>2, CopyFileSeq DEF Copy!CopyFile, Copy!Missing, Copy!Opened, CopyTypes
    <3> QED
      BY <3>1, <3>2
  <2> QED
    BY <2>1, <2>2, <2>3, <2>4
<1> QED
  BY <1>1, <1>2

LEMMA CopyNotifies ==
  ASSUME CopyTypes, Copy!NotifyChunk \/ Copy!NotifyOnce
  PROVE  /\ copyServer = "notify" /\ sem'[0] = sem[0] /\ sem'[1] = sem[1] + 1 /\ sem'[2] = sem[2]
         /\ copyServer' = IF exercise = 5 THEN "ack" ELSE "detach"
         /\ UNCHANGED <<file, exercise, kind, zeroId, left, copyClient, shown, next, buffer>>
BY CopySemOp DEF Copy!NotifyChunk, Copy!NotifyOnce, Copy!DATA_READY, Copy!Go, Copy!params, CopyTypes

LEMMA CopyServerTypes ==
  ASSUME CopyTypes, CopySetThere, Copy!Server
  PROVE  CopyTypes' /\ CopySetThere'
<1> USE DEF CopyTypes, CopySetThere, Copy!Go
<1>1. CASE Copy!CreateSet
  BY <1>1 DEF Copy!CreateSet, Copy!Zeros, Copy!params, Copy!ServerPC
<1>2. CASE Copy!SetAll
  BY <1>2 DEF Copy!SetAll, Copy!Zeros, Copy!params, Copy!ServerPC
<1>3. CASE Copy!WaitRequest
  BY <1>3, CopySemOp DEF Copy!WaitRequest, Copy!REQUEST, Copy!params, Copy!ServerPC
<1>4. CASE Copy!SetRemoved
  BY <1>4 DEF Copy!SetRemoved, Copy!params, Copy!ServerPC
<1>5. CASE Copy!CopyFile \/ Copy!CopyOnce
  BY <1>5, CopyReads DEF Copy!ServerPC
<1>6. CASE Copy!NotifyChunk \/ Copy!NotifyOnce
  BY <1>6, CopySemOp
     DEF Copy!NotifyChunk, Copy!NotifyOnce, Copy!DATA_READY, Copy!params, Copy!ServerPC
<1>7. CASE Copy!Acknowledged
  BY <1>7, CopySemOp DEF Copy!Acknowledged, Copy!CLIENT_READY, Copy!params, Copy!ServerPC
<1>8. CASE Copy!Detach
  BY <1>8 DEF Copy!Detach, Copy!params, Copy!ServerPC
<1> QED
  BY <1>1, <1>2, <1>3, <1>4, <1>5, <1>6, <1>7, <1>8 DEF Copy!Server

LEMMA CopyClientTypes ==
  ASSUME CopyTypes, CopySetThere, Copy!Client
  PROVE  CopyTypes' /\ CopySetThere'
<1> USE DEF CopyTypes, CopySetThere, Copy!Move
<1>1. CASE Copy!Attach
  BY <1>1 DEF Copy!Attach, Copy!params, Copy!ClientPC, Copy!Chunks
<1>2. CASE Copy!GetSet
  BY <1>2 DEF Copy!GetSet, Copy!params, Copy!ClientPC
<1>3. CASE Copy!PostRequest
  BY <1>3, CopySemOp DEF Copy!PostRequest, Copy!REQUEST, Copy!params, Copy!ClientPC
<1>4. CASE Copy!AwaitData
  BY <1>4, CopySemOp DEF Copy!AwaitData, Copy!DATA_READY, Copy!params, Copy!ClientPC
<1>5. CASE Copy!ShowChunk
  <2>1. sem' \in [0..2 -> Nat] /\ set
    BY <1>5, CopySemOp DEF Copy!ShowChunk, Copy!CLIENT_READY
  <2>2. shown' \in Seq(Copy!Chunks)
    BY <1>5, AppendProperties DEF Copy!ShowChunk
  <2> QED
    BY <1>5, <2>1, <2>2 DEF Copy!ShowChunk, Copy!params, Copy!ClientPC
<1>6. CASE Copy!ShowOnce
  <2>1. shown' \in Seq(Copy!Chunks)
    BY <1>6 DEF Copy!ShowOnce
  <2> QED
    BY <1>6, <2>1 DEF Copy!ShowOnce, Copy!params, Copy!ClientPC
<1>7. CASE Copy!RemoveSet
  BY <1>7 DEF Copy!RemoveSet, Copy!params, Copy!ClientPC
<1> QED
  BY <1>1, <1>2, <1>3, <1>4, <1>5, <1>6, <1>7 DEF Copy!Client

\* What the steps of the server do before it has taken a request.
LEMMA CopyServerWaits ==
  ASSUME CopyInv, Copy!CreateSet \/ Copy!SetAll \/ Copy!SetRemoved
  PROVE  /\ CopyAsleep' /\ CopyCount' /\ CopyWaiting' /\ CopyStale' /\ CopySems'
         /\ CopyHandshake' /\ CopyShown' /\ CopyShownOnce'
<1> USE DEF CopyInv, CopyTypes, Copy!Go, Copy!params
<1>1. CASE Copy!CreateSet \/ Copy!SetAll
  <2>1. /\ copyServer \in {"start", "init"} /\ copyServer' \in {"init", "wait"} /\ next = 0
        /\ UNCHANGED <<exercise, kind, file, zeroId, left, copyClient, shown, next>>
        /\ sem' = sem \/ sem' = Copy!Zeros
        /\ copyServer' = "wait" => sem' = Copy!Zeros
    BY <1>1 DEF Copy!CreateSet, Copy!SetAll, CopyCount
  <2>2. ~Copy!Taken /\ ~Copy!Taken'
    BY <2>1 DEF Copy!Taken
  <2>3. CopyAsleep' /\ CopyCount' /\ CopyWaiting'
    BY <2>1, <2>2 DEF CopyAsleep, CopyNotAsked, CopyCount, CopyWaiting, Copy!Zeros
  <2>4. CopyStale'
    <3>1. sem'[1] \in Nat /\ sem'[1] <= sem[1] /\ sem[1] \in Nat /\ Len(shown) \in Nat
          /\ left[1] \in Nat
      BY <2>1, LenProperties DEF Copy!Zeros
    <3> QED
      BY <2>1, <2>2, <3>1 DEF CopyStale
  <2>5. CopySems' /\ CopyHandshake' /\ CopyShown' /\ CopyShownOnce'
    BY <2>2 DEF CopySems, CopyHandshake, CopyShown, CopyShownOnce
  <2> QED
    BY <2>3, <2>4, <2>5
<1>2. CASE Copy!SetRemoved
  <2>1. /\ copyServer \in {"init", "wait", "notify", "ack"} /\ copyServer' = "failed"
        /\ copyClient = "done"
        /\ UNCHANGED <<exercise, kind, file, zeroId, left, copyClient, shown, next, sem, buffer>>
    BY <1>2 DEF Copy!SetRemoved, CopySetThere
  <2>2. CASE Copy!Taken
    <3>1. exercise = 5 /\ next > 0 /\ copyServer \in {"notify", "ack"} /\ ~CopyNotAsked
      BY <2>1, <2>2 DEF CopySems, CopyAsleep, CopyCount, Copy!Taken
    <3> QED
      BY <2>1, <2>2, <3>1 DEF CopyAsleep, CopyNotAsked, CopyCount, CopyWaiting, CopyStale,
         CopySems, CopyHandshake, CopyShown, CopyShownOnce, Copy!Taken, Copy!IsEnd
  <2>3. CASE ~Copy!Taken
    <3>1. ~Copy!Taken'
      BY <2>1, <2>3 DEF Copy!Taken
    <3> QED
      BY <2>1, <2>3, <3>1 DEF CopyAsleep, CopyNotAsked, CopyCount, CopyWaiting, CopyStale,
         CopySems, CopyHandshake, CopyShown, CopyShownOnce
  <2> QED
    BY <2>2, <2>3
<1> QED
  BY <1>1, <1>2

\* The request that the server takes is that of a client which waits for it.
LEMMA CopyTakes ==
  ASSUME CopyInv, Copy!WaitRequest
  PROVE  /\ CopyAsleep' /\ CopyCount' /\ CopyWaiting' /\ CopyStale' /\ CopySems'
         /\ CopyHandshake' /\ CopyShown' /\ CopyShownOnce'
<1> USE DEF CopyInv, CopyTypes, Copy!Go, Copy!params
<1>1. /\ copyServer = "wait" /\ copyServer' = "open" /\ set
      /\ sem[0] >= 1 /\ sem'[0] = sem[0] - 1 /\ sem'[1] = sem[1] /\ sem'[2] = sem[2]
      /\ UNCHANGED <<exercise, kind, file, zeroId, left, copyClient, shown, next, buffer>>
  BY CopySemOp DEF Copy!WaitRequest, Copy!REQUEST
<1>2. /\ copyClient = "data" /\ shown = <<>> /\ ~zeroId /\ next = 0
      /\ sem'[0] = 0 /\ sem'[1] = 0 /\ sem'[2] = 0
  BY <1>1 DEF CopyWaiting, CopyNotAsked, CopyCount
<1>3. Len(shown) = 0
  BY <1>2, EmptySeq
<1>4. CopyAsleep' /\ CopyWaiting' /\ CopyStale' /\ CopySems' /\ CopyShownOnce'
  BY <1>1, <1>2 DEF CopyAsleep, CopyNotAsked, CopyWaiting, CopyStale, CopySems, CopyShownOnce,
                    Copy!Taken
<1>5. CopyCount'
  BY <1>1, <1>2, CopyFileSeq DEF CopyCount
<1>6. CopyHandshake' /\ CopyShown'
  BY <1>1, <1>2, <1>3 DEF CopyHandshake, CopyOffered, CopyShown
<1> QED
  BY <1>4, <1>5, <1>6

\* The steps of a server that has taken the request.
CopyServes == Copy!CopyFile \/ Copy!CopyOnce \/ Copy!NotifyChunk \/ Copy!NotifyOnce
              \/ Copy!Acknowledged \/ Copy!Detach

LEMMA CopyServesTaken ==
  ASSUME CopyInv, CopyServes
  PROVE  /\ Copy!Taken /\ Copy!Taken' /\ ~CopyNotAsked
         /\ copyServer' \in {"read", "notify", "ack", "detach", "done"}
         /\ UNCHANGED <<exercise, kind, file, zeroId, left, copyClient, shown>>
         /\ CopyAsleep' /\ CopyWaiting' /\ CopyStale'
<1>1. /\ copyServer \in {"open", "read", "notify", "ack", "detach"}
      /\ copyServer' \in {"read", "notify", "ack", "detach", "done"}
      /\ UNCHANGED <<exercise, kind, file, zeroId, left, copyClient, shown>>
  BY DEF CopyServes, Copy!CopyFile, Copy!CopyOnce, Copy!Missing, Copy!Opened, Copy!NotifyChunk,
         Copy!NotifyOnce, Copy!Acknowledged, Copy!Detach, Copy!Go, Copy!params
<1>2. Copy!Taken /\ Copy!Taken' /\ copyServer' # "wait"
  BY <1>1 DEF Copy!Taken
<1>3. ~CopyNotAsked
  BY <1>2 DEF CopyInv, CopyAsleep
<1> QED
  BY <1>1, <1>2, <1>3 DEF CopyAsleep, CopyNotAsked, CopyWaiting, CopyStale

LEMMA CopyServesSems ==
  ASSUME CopyInv, CopyServes
  PROVE  CopyCount' /\ CopySems'
<1> USE DEF CopyInv, CopyTypes, Copy!Go, Copy!CLIENT_READY
<1>0. Len(file) \in Nat /\ Copy!Taken
  BY CopyFileSeq, CopyServesTaken
<1>1. CASE Copy!CopyFile
  <2>1. CopySems'
    <3>1. exercise = 5 /\ copyServer \in {"open", "read"}
          /\ copyServer' \in {"read", "notify", "detach"}
          /\ UNCHANGED <<exercise, copyClient, sem>>
      BY <1>1, CopyReads DEF Copy!CopyFile
    <3> QED
      BY <1>0, <3>1 DEF CopySems
  <2>2. CopyCount'
    <3>1. /\ exercise = 5 /\ file' = file /\ next <= Len(file)
          /\ \/ copyServer' \in {"detach", "read"} /\ next' = next
             \/ copyServer' = "notify" /\ next' = next + 1
      BY <1>0, <1>1 DEF Copy!CopyFile, Copy!params, Copy!Missing, Copy!Opened, CopyCount
    <3>2. next \in Nat /\ copyServer' \notin {"start", "init", "wait", "open", "ack"}
      BY <3>1
    <3> QED
      BY <1>0, <3>1, <3>2 DEF CopyCount
  <2> QED
    BY <2>1, <2>2
<1>2. CASE Copy!CopyOnce
  <2>1. CopySems'
    <3>1. exercise = 4 /\ copyServer \in {"open", "read"} /\ copyServer' \in {"read", "notify"}
          /\ UNCHANGED <<exercise, copyClient, sem>>
      BY <1>2, CopyReads DEF Copy!CopyOnce, Copy!Missing, Copy!Opened
    <3> QED
      BY <1>0, <3>1 DEF CopySems
  <2>2. CopyCount'
    <3>1. /\ exercise = 4 /\ file' = file /\ next <= Len(file)
          /\ \/ copyServer = "open" /\ copyServer' \in {"notify", "read"} /\ next' = next
             \/ copyServer' = "notify" /\ next' = 1
          /\ exercise' = exercise
      BY <1>0, <1>2 DEF Copy!CopyOnce, Copy!params, Copy!Missing, Copy!Opened, CopyCount
    <3>2. next \in Nat
      OBVIOUS
    <3> QED
      BY <1>0, <3>1, <3>2 DEF CopyCount
  <2> QED
    BY <2>1, <2>2
<1>3. CASE Copy!NotifyChunk \/ Copy!NotifyOnce
  <2>1. CopyCount'
    BY <1>0, <1>3, CopyNotifies DEF CopyCount
  <2>2. CopySems'
    BY <1>0, <1>3, CopyNotifies DEF CopySems
  <2> QED
    BY <2>1, <2>2
<1>4. CASE Copy!Acknowledged
  BY <1>0, <1>4, CopySemOp DEF Copy!Acknowledged, Copy!params, CopyCount, CopySems
<1>5. CASE Copy!Detach
  <2>1. /\ copyServer = "detach" /\ copyServer' = "done"
        /\ UNCHANGED <<exercise, file, copyClient, sem, next>>
    BY <1>5 DEF Copy!Detach, Copy!params
  <2>2. CopyCount'
    BY <2>1 DEF CopyCount
  <2>3. CopySems'
    BY <1>0, <2>1 DEF CopySems, Copy!Taken
  <2> QED
    BY <2>2, <2>3
<1> QED
  BY <1>1, <1>2, <1>3, <1>4, <1>5 DEF CopyServes

LEMMA CopyServesKeeps ==
  ASSUME CopyInv, CopyServes
  PROVE  CopyHandshake' /\ CopyShown' /\ CopyShownOnce'
<1> USE DEF CopyInv, CopyTypes, Copy!Go, Copy!CLIENT_READY
<1>0. /\ Copy!Taken /\ copyServer' \in {"read", "notify", "ack", "detach", "done"}
      /\ UNCHANGED <<exercise, kind, file, zeroId, left, copyClient, shown>>
  BY CopyServesTaken
<1>1. CopyShown'
  BY <1>0 DEF CopyShown, Copy!IsEnd
<1>2. CASE Copy!CopyFile
  <2>1. exercise = 5
    BY <1>2 DEF Copy!CopyFile
  <2>2. CopyHandshake'
    BY <1>0, <1>2
       DEF Copy!CopyFile, Copy!Missing, Copy!Opened, Copy!params, CopyHandshake, CopyOffered
  <2> QED
    BY <1>0, <1>1, <2>1, <2>2 DEF CopyShownOnce
<1>3. CASE Copy!CopyOnce
  <2>1. exercise = 4
    BY <1>3 DEF Copy!CopyOnce
  <2>2. CopyShownOnce'
    <3>1. ASSUME file # <<>> PROVE copyServer' \in {"notify", "detach", "done"} => buffer' = Head(file)
      BY <1>3, <3>1 DEF Copy!CopyOnce, Copy!Missing, Copy!Opened
    <3> QED
      BY <1>0, <3>1 DEF CopyShownOnce
  <2> QED
    BY <1>0, <1>1, <2>1, <2>2 DEF CopyHandshake
<1>4. CASE Copy!NotifyChunk \/ Copy!NotifyOnce
  <2>1. /\ copyServer = "notify" /\ copyServer' = IF exercise = 5 THEN "ack" ELSE "detach"
        /\ sem'[1] = sem[1] + 1 /\ sem'[2] = sem[2]
        /\ UNCHANGED <<file, exercise, copyClient, shown, next, buffer>>
    BY <1>4, CopyNotifies
  <2>2. exercise = 5 => sem[1] = 0 /\ sem[2] = 0
    BY <1>0, <2>1 DEF CopySems
  <2>3. CopyHandshake'
    BY <1>0, <2>1, <2>2 DEF CopyHandshake, CopyOffered
  <2>4. CopyShownOnce'
    BY <1>0, <2>1 DEF CopyShownOnce
  <2> QED
    BY <1>1, <2>3, <2>4
<1>5. CASE Copy!Acknowledged
  <2>1. /\ copyServer = "ack" /\ copyServer' \in {"read", "detach"}
        /\ sem[2] >= 1 /\ sem'[1] = sem[1] /\ sem'[2] = sem[2] - 1
        /\ UNCHANGED <<file, exercise, copyClient, shown, next, buffer>>
    BY <1>5, CopySemOp DEF Copy!Acknowledged, Copy!params
  <2>2. sem[2] = 1 /\ sem[1] = 0 /\ exercise = 5
    BY <1>0, <2>1 DEF CopySems
  <2>3. CopyHandshake'
    BY <1>0, <2>1, <2>2 DEF CopyHandshake, CopyOffered
  <2> QED
    BY <1>0, <1>1, <2>2, <2>3 DEF CopyShownOnce
<1>6. CASE Copy!Detach
  <2>1. copyServer = "detach" /\ copyServer' = "done" /\ UNCHANGED <<sem, next, buffer>>
    BY <1>6 DEF Copy!Detach
  <2> QED
    BY <1>0, <1>1, <2>1 DEF CopyHandshake, CopyOffered, CopyShownOnce
<1> QED
  BY <1>2, <1>3, <1>4, <1>5, <1>6 DEF CopyServes

LEMMA CopyServerKeeps ==
  ASSUME CopyInv, Copy!Server
  PROVE  /\ CopyAsleep' /\ CopyCount' /\ CopyWaiting' /\ CopyStale' /\ CopySems'
         /\ CopyHandshake' /\ CopyShown' /\ CopyShownOnce'
BY CopyServerWaits, CopyTakes, CopyServesTaken, CopyServesSems, CopyServesKeeps
   DEF Copy!Server, CopyServes

\* The client before its request is taken.
LEMMA CopyClientEarly ==
  ASSUME CopyInv, Copy!Client, ~Copy!Taken
  PROVE  /\ CopyAsleep' /\ CopyCount' /\ CopyWaiting' /\ CopyStale' /\ CopySems'
         /\ CopyHandshake' /\ CopyShown' /\ CopyShownOnce'
<1> USE DEF CopyInv, CopyTypes, Copy!Move, Copy!params, Copy!REQUEST, Copy!DATA_READY,
            Copy!CLIENT_READY
<1>1. UNCHANGED <<exercise, kind, file, zeroId, left, copyServer, next>>
  BY DEF Copy!Client, Copy!Attach, Copy!GetSet, Copy!PostRequest, Copy!AwaitData,
         Copy!ShowChunk, Copy!ShowOnce, Copy!RemoveSet
<1>2. ~Copy!Taken' /\ CopyCount'
  BY <1>1 DEF Copy!Taken, CopyCount
<1>3. CopySems' /\ CopyHandshake' /\ CopyShown' /\ CopyShownOnce'
  BY <1>2 DEF CopySems, CopyHandshake, CopyShown, CopyShownOnce
<1>4. Len(shown) \in Nat /\ left[1] \in Nat /\ sem[0] \in Nat /\ sem[1] \in Nat /\ sem[2] \in Nat
  BY LenProperties
<1>5. CASE Copy!Attach \/ Copy!GetSet
  BY <1>1, <1>2, <1>3, <1>4, <1>5
     DEF Copy!Attach, Copy!GetSet, CopyAsleep, CopyNotAsked, CopyWaiting, CopyStale
<1>6. CASE Copy!PostRequest
  <2>1. /\ copyClient = "post" /\ copyClient' = "data" /\ shown' = shown
        /\ sem'[0] = sem[0] + 1 /\ sem'[1] = sem[1] /\ sem'[2] = sem[2]
    BY <1>6, CopySemOp DEF Copy!PostRequest
  <2>2. ~zeroId /\ shown = <<>>
    BY <2>1 DEF CopyAsleep, CopyNotAsked
  <2> QED
    BY <1>1, <1>2, <1>3, <1>4, <2>1, <2>2 DEF CopyAsleep, CopyNotAsked, CopyWaiting, CopyStale
<1>7. CASE Copy!AwaitData
  <2>1. /\ copyClient = "data" /\ copyClient' = "show" /\ shown' = shown /\ sem[1] >= 1
        /\ sem'[0] = sem[0] /\ sem'[1] = sem[1] - 1 /\ sem'[2] = sem[2]
    BY <1>7, CopySemOp DEF Copy!AwaitData
  <2>2. ~zeroId /\ copyServer # "wait"
    BY <2>1 DEF CopyAsleep, CopyNotAsked, CopyWaiting
  <2> QED
    BY <1>1, <1>2, <1>3, <1>4, <2>1, <2>2 DEF CopyAsleep, CopyNotAsked, CopyWaiting, CopyStale
<1>8. CASE Copy!ShowChunk \/ Copy!ShowOnce
  <2>1. /\ copyClient = "show" /\ copyClient' \in {"data", "remove"}
        /\ sem'[0] = sem[0] /\ sem'[1] = sem[1] /\ sem'[2] \in {sem[2], sem[2] + 1}
    BY <1>8, CopySemOp DEF Copy!ShowChunk, Copy!ShowOnce
  <2>2. Len(shown') \in Nat /\ Len(shown') <= Len(shown) + 1
    <3>1. shown' = shown \/ shown' = Append(shown, buffer) \/ shown' = <<buffer>>
      BY <1>8 DEF Copy!ShowChunk, Copy!ShowOnce
    <3>2. CASE shown' = shown
      BY <1>4, <3>2
    <3>3. CASE shown' = Append(shown, buffer)
      BY <1>4, <3>3, AppendProperties
    <3>4. CASE shown' = <<buffer>>
      <4>1. Len(shown') = 1
        BY <3>4
      <4> QED
        BY <1>4, <4>1
    <3> QED
      BY <3>1, <3>2, <3>3, <3>4
  <2>3. ~zeroId /\ (copyServer = "wait" => sem[2] = 0 /\ sem[0] = 0 /\ sem[1] = 0)
    BY <2>1 DEF CopyAsleep, CopyNotAsked, CopyWaiting
  <2> QED
    BY <1>1, <1>2, <1>3, <1>4, <2>1, <2>2, <2>3
       DEF CopyAsleep, CopyNotAsked, CopyWaiting, CopyStale
<1>9. CASE Copy!RemoveSet
  BY <1>1, <1>2, <1>3, <1>4, <1>9
     DEF Copy!RemoveSet, CopyAsleep, CopyNotAsked, CopyWaiting, CopyStale
<1> QED
  BY <1>5, <1>6, <1>7, <1>8, <1>9 DEF Copy!Client

\* The chunk in the buffer is the next of the file, or the end.
LEMMA CopyShowChunk ==
  ASSUME CopyInv, Copy!Taken, Copy!ShowChunk
  PROVE  CopySems' /\ CopyHandshake' /\ CopyShown' /\ CopyShownOnce'
<1> USE DEF CopyInv, CopyTypes, Copy!Move, Copy!CLIENT_READY
<1>1. PICK k \in Nat : k = Len(shown)
  BY LenProperties
<1>2. PICK m \in Nat : m = Len(file)
  BY CopyFileSeq
<1>3. /\ exercise = 5 /\ copyClient = "show" /\ copyServer = "ack"
      /\ sem[0] = 0 /\ sem[1] = 0 /\ sem[2] = 0
      /\ next = k + 1 /\ buffer = IF next <= m THEN file[next] ELSE "nul"
  BY <1>1, <1>2 DEF Copy!ShowChunk, CopyHandshake, CopyOffered, CopySems
<1>4. /\ sem'[0] = sem[0] /\ sem'[1] = 0 /\ sem'[2] = 1
      /\ UNCHANGED <<exercise, file, copyServer, next, buffer>>
      /\ copyClient' \in {"data", "remove"}
  BY <1>3, CopySemOp DEF Copy!ShowChunk, Copy!params
<1>5. CopySems' /\ CopyShownOnce'
  BY <1>3, <1>4 DEF CopySems, CopyShownOnce
<1>6. CASE buffer \in Copy!Ends
  <2>1. shown' = shown /\ copyClient' = "remove"
    BY <1>6 DEF Copy!ShowChunk
  <2>2. Copy!IsEnd(k + 1)
    BY <1>2, <1>3, <1>6 DEF Copy!IsEnd
  <2> QED
    BY <1>1, <1>4, <1>5, <2>1, <2>2 DEF CopyHandshake, CopyShown, Copy!IsEnd
<1>7. CASE buffer \notin Copy!Ends
  <2>1. shown' = Append(shown, buffer) /\ copyClient' = "data"
    BY <1>7 DEF Copy!ShowChunk
  <2>2. /\ Len(shown') = k + 1 /\ shown'[k + 1] = buffer
        /\ \A i \in 1..k : shown'[i] = shown[i]
    BY <1>1, <2>1, AppendProperties
  <2>3. ~Copy!IsEnd(k + 1) /\ buffer = file[k + 1]
    BY <1>2, <1>3, <1>7 DEF Copy!IsEnd, Copy!Ends
  <2>4. CopyShown'
    <3>1. ASSUME NEW i \in 1..(k + 1) PROVE ~Copy!IsEnd(i) /\ shown'[i] = file[i]
      BY <1>1, <1>3, <2>2, <2>3 DEF CopyShown
    <3> QED
      BY <1>4, <2>1, <2>2, <3>1 DEF CopyShown, Copy!IsEnd
  <2>5. CopyHandshake'
    BY <1>3, <1>4, <2>1, <2>2 DEF CopyHandshake, CopyOffered
  <2> QED
    BY <1>5, <2>4, <2>5
<1> QED
  BY <1>6, <1>7

\* The client once its request is taken.
LEMMA CopyClientServed ==
  ASSUME CopyInv, Copy!Client, Copy!Taken
  PROVE  /\ CopyAsleep' /\ CopyCount' /\ CopyWaiting' /\ CopyStale' /\ CopySems'
         /\ CopyHandshake' /\ CopyShown' /\ CopyShownOnce'
<1> USE DEF CopyInv, CopyTypes, Copy!Move, Copy!params, Copy!DATA_READY
<1>1. UNCHANGED <<exercise, kind, file, zeroId, left, copyServer, next>>
  BY DEF Copy!Client, Copy!Attach, Copy!GetSet, Copy!PostRequest, Copy!AwaitData,
         Copy!ShowChunk, Copy!ShowOnce, Copy!RemoveSet
<1>2. Copy!Taken' /\ CopyCount' /\ ~CopyNotAsked /\ copyServer # "wait"
  BY <1>1 DEF Copy!Taken, CopyCount, CopyAsleep
<1>3. copyClient \in {"data", "show", "remove"}
      /\ copyClient' \in {"data", "show", "remove", "done"}
  BY <1>2 DEF Copy!Client, Copy!Attach, Copy!GetSet, Copy!PostRequest, Copy!AwaitData,
              Copy!ShowChunk, Copy!ShowOnce, Copy!RemoveSet, CopyNotAsked
<1>4. CopyAsleep' /\ CopyWaiting' /\ CopyStale'
  BY <1>1, <1>2, <1>3 DEF CopyAsleep, CopyNotAsked, CopyWaiting, CopyStale
<1>5. CASE Copy!AwaitData
  <2>1. /\ copyClient = "data" /\ copyClient' = "show" /\ sem[1] = 1
        /\ sem'[0] = sem[0] /\ sem'[1] = 0 /\ sem'[2] = sem[2]
        /\ UNCHANGED <<buffer, shown>>
    BY <1>5, CopySemOp DEF Copy!AwaitData, CopySems
  <2>2. exercise = 5 => copyServer = "ack" /\ sem[2] = 0
    BY <2>1 DEF CopyHandshake
  <2>3. CopySems'
    BY <1>1, <2>1, <2>2 DEF CopySems
  <2>4. CopyHandshake' /\ CopyShown' /\ CopyShownOnce'
    BY <1>1, <2>1, <2>2 DEF CopyHandshake, CopyOffered, CopyShown, CopyShownOnce, Copy!IsEnd
  <2> QED
    BY <1>2, <1>4, <2>3, <2>4
<1>6. CASE Copy!ShowChunk
  BY <1>2, <1>4, <1>6, CopyShowChunk
<1>7. CASE Copy!ShowOnce
  <2>1. /\ exercise = 4 /\ copyClient = "show" /\ copyClient' = "remove"
        /\ shown' = IF buffer = "ff" THEN shown ELSE <<buffer>>
        /\ UNCHANGED <<sem, buffer>>
    BY <1>7 DEF Copy!ShowOnce
  <2>2. copyServer \in {"detach", "done"}
    BY <2>1 DEF CopySems
  <2>3. CopySems' /\ CopyHandshake' /\ CopyShown'
    BY <1>1, <2>1, <2>2 DEF CopySems, CopyHandshake, CopyShown
  <2>4. CopyShownOnce'
    BY <1>1, <2>1, <2>2 DEF CopyShownOnce
  <2> QED
    BY <1>2, <1>4, <2>3, <2>4
<1>8. CASE Copy!RemoveSet
  <2>1. copyClient = "remove" /\ copyClient' = "done" /\ UNCHANGED <<sem, buffer, shown>>
    BY <1>8 DEF Copy!RemoveSet
  <2>2. CopySems' /\ CopyHandshake' /\ CopyShown' /\ CopyShownOnce'
    BY <1>1, <2>1 DEF CopySems, CopyHandshake, CopyShown, CopyShownOnce, Copy!IsEnd
  <2> QED
    BY <1>2, <1>4, <2>2
<1> QED
  BY <1>3, <1>5, <1>6, <1>7, <1>8 DEF Copy!Client, Copy!Attach, Copy!GetSet, Copy!PostRequest

LEMMA CopyNext == CopyInv /\ [Copy!Next]_copyVars => CopyInv'
<1> SUFFICES ASSUME CopyInv, [Copy!Next]_copyVars PROVE CopyInv'
  OBVIOUS
<1>1. CASE UNCHANGED copyVars
  BY <1>1 DEF copyVars, CopyInv, CopyTypes, CopySetThere, CopyAsleep, CopyNotAsked, CopyCount,
              CopyWaiting, CopyStale, CopySems, CopyHandshake, CopyOffered, CopyShown,
              CopyShownOnce, Copy!Taken, Copy!IsEnd
<1>2. CASE Copy!Server
  BY <1>2, CopyServerTypes, CopyServerKeeps DEF CopyInv
<1>3. CASE Copy!Client
  BY <1>3, CopyClientTypes, CopyClientEarly, CopyClientServed DEF CopyInv
<1> QED
  BY <1>1, <1>2, <1>3 DEF Copy!Next

LEMMA CopyHolds ==
  ASSUME CopyInv
  PROVE  Copy!TypeOK /\ Copy!ShownInOrder /\ Copy!RaceLosesNoData
<1> USE DEF CopyInv, CopyTypes
<1>0. Len(file) \in Nat /\ Len(shown) \in Nat
  BY CopyFileSeq, LenProperties
<1>1. Copy!TypeOK
  <2>1. ASSUME copyServer \notin {"start", "init", "failed"}
        PROVE  (\A s \in 0..2 : sem[s] <= 1) /\ sem[1] + sem[2] <= 1
    <3>1. CASE copyServer = "wait"
      BY <3>1 DEF CopyWaiting
    <3>2. CASE copyServer # "wait"
      <4>1. Copy!Taken
        BY <2>1, <3>2 DEF Copy!Taken, Copy!ServerPC
      <4> QED
        BY <4>1 DEF CopySems
    <3> QED
      BY <3>1, <3>2
  <2>2. next \in 0..Len(file) + 1
    BY <1>0 DEF CopyCount
  <2> QED
    BY <2>1, <2>2 DEF Copy!TypeOK, Copy!DATA_READY, Copy!CLIENT_READY
<1>2. Copy!ShownInOrder
  <2>1. CASE Copy!Taken /\ exercise = 5
    <3>1. Len(shown) <= Len(file)
      <4>1. CASE Len(shown) = 0
        BY <1>0, <4>1
      <4>2. CASE Len(shown) # 0
        <5>1. Len(shown) \in 1..Len(shown)
          BY <1>0, <4>2
        <5>2. ~Copy!IsEnd(Len(shown))
          BY <2>1, <5>1 DEF CopyShown
        <5> QED
          BY <1>0, <5>2 DEF Copy!IsEnd
      <4> QED
        BY <4>1, <4>2
    <3> QED
      BY <2>1, <3>1 DEF CopyShown, Copy!ShownInOrder
  <2>2. CASE Copy!Taken /\ exercise = 4
    BY <2>2 DEF CopyShownOnce, Copy!ShownInOrder
  <2>3. CASE ~Copy!Taken
    <3>1. Len(shown) <= left[1]
      BY <1>0, <2>3 DEF CopyStale
    <3> QED
      BY <2>3, <3>1 DEF Copy!ShownInOrder, Copy!DATA_READY
  <2> QED
    BY <2>1, <2>2, <2>3
<1>3. Copy!RaceLosesNoData
  <2>1. ASSUME copyServer = "failed" PROVE copyClient = "done" /\ segment
    BY <2>1 DEF CopySetThere
  <2>2. ASSUME copyServer = "failed", Copy!Taken PROVE exercise = 5
    BY <2>1, <2>2 DEF CopySems
  <2> QED
    BY <2>1, <2>2 DEF CopyShown, CopyStale, Copy!RaceLosesNoData, Copy!DATA_READY
<1> QED
  BY <1>1, <1>2, <1>3

-----------------------------------------------------------------------------
(* Orders                                                                  *)

QueueTypes ==
    /\ variant \in 1..3 /\ noId \in BOOLEAN
    /\ orderServer \in Queue!ServerPC /\ boots \in 0..OrderStarts
    /\ queues \in 0..boots /\ exists \in BOOLEAN
    /\ queue \in Seq(OrderClients) /\ received \in Seq(OrderClients)
    /\ printed \subseteq OrderClients /\ inHand \in OrderClients \union {NoClient}
    /\ orderClient \in [OrderClients -> Queue!ClientPC] /\ prime \subseteq OrderClients
    /\ msqid \in [OrderClients -> 0..queues] /\ before \in [OrderClients -> Nat]
    /\ sent \in Nat /\ rank \in [OrderClients -> Nat]

\* What goes with the control points of the server; every start makes one
\* queue at most.
QueueControl ==
    /\ Len(queue) <= Capacity
    /\ inHand # NoClient <=> orderServer = "print"
    /\ orderServer \notin {"off", "masked"} => exists = TRUE
    /\ orderServer = "masked" => queues < boots
    /\ exists # TRUE => queue = <<>>

\* An order in the queue or received from it was sent to this queue, has its
\* place among all that were sent, and is there once.
QueueMembers ==
    /\ \A i \in 1..Len(queue) :
          /\ orderClient[queue[i]] = "sent" /\ msqid[queue[i]] = queues
          /\ rank[queue[i]] <= sent
    /\ \A i \in 1..Len(received) :
          /\ orderClient[received[i]] = "sent" /\ msqid[received[i]] = queues
          /\ rank[received[i]] <= sent
    /\ \A i, j \in 1..Len(queue) :
          i < j => queue[i] # queue[j] /\ rank[queue[i]] < rank[queue[j]]
    /\ \A i, j \in 1..Len(received) : i # j => received[i] # received[j]
    /\ \A i \in 1..Len(received), j \in 1..Len(queue) : received[i] # queue[j]

\* The order b comes after a, the i-th that was received, rightly.
QueueAfter(bef, ran, i, a, b) ==
    /\ variant # 1 /\ b \in prime /\ a \notin prime => bef[b] >= i
    /\ (a \in prime <=> b \in prime) => ran[a] < ran[b]

\* ServiceOrder, and what it needs of the orders that are still to be received.
QueueService ==
    /\ \A i \in 1..Len(received), j \in 1..Len(queue) : QueueAfter(before, rank, i, received[i], queue[j])
    /\ \A i, j \in 1..Len(received) : i < j => QueueAfter(before, rank, i, received[i], received[j])

QueueKept ==
    \A c \in OrderClients : Queue!SentTo(c) /\ exists = TRUE =>
        \/ \E i \in 1..Len(queue) : queue[i] = c
        \/ \E i \in 1..Len(received) : received[i] = c

QueueInv == QueueTypes /\ QueueControl /\ QueueMembers /\ QueueService /\ QueueKept

LEMMA QueueCounts ==
  /\ \A x : Queue!Cardinality({x}) = 1
  /\ Queue!Cardinality({}) = 0
<1>1. \A S : Queue!Cardinality(S) = Cardinality(S)
  BY Zenon DEF Queue!Cardinality, Cardinality
<1>2. \A x : Cardinality({x}) = 1
  BY FS_Singleton
<1>3. Cardinality({}) = 0
  BY FS_EmptySet
<1> QED
  BY <1>1, <1>2, <1>3, Zenon

LEMMA QueueRemoveAt ==
  ASSUME NEW S, NEW s \in Seq(S), NEW n \in Nat, n = Len(s), NEW i \in 1..n
  PROVE  /\ Queue!RemoveAt(s, i) \in Seq(S)
         /\ Len(Queue!RemoveAt(s, i)) = n - 1
         /\ \A j \in 1..(n - 1) : Queue!RemoveAt(s, i)[j] = IF j < i THEN s[j] ELSE s[j + 1]
<1>1. PICK a : a = SubSeq(s, 1, i - 1)
  OBVIOUS
<1>2. PICK b : b = SubSeq(s, i + 1, n)
  OBVIOUS
<1>3. a \in Seq(S) /\ Len(a) = i - 1 /\ \A j \in 1..(i - 1) : a[j] = s[j]
  <2>1. \A j \in 1..(i - 1) : s[j] \in S
    BY ElementOfSeq
  <2>2. /\ a \in Seq(S) /\ Len(a) = IF 1 <= i - 1 THEN (i - 1) - 1 + 1 ELSE 0
        /\ \A j \in 1..((i - 1) - 1 + 1) : a[j] = s[1 + j - 1]
    BY <1>1, <2>1, SubSeqProperties
  <2> QED
    BY <2>2
<1>4. b \in Seq(S) /\ Len(b) = n - i /\ \A j \in 1..(n - i) : b[j] = s[i + j]
  <2>1. \A j \in (i + 1)..n : s[j] \in S
    BY ElementOfSeq
  <2>2. /\ b \in Seq(S) /\ Len(b) = IF i + 1 <= n THEN n - (i + 1) + 1 ELSE 0
        /\ \A j \in 1..(n - (i + 1) + 1) : b[j] = s[(i + 1) + j - 1]
    BY <1>2, <2>1, SubSeqProperties
  <2> QED
    BY <2>2
<1>5. PICK r : r = a \o b
  OBVIOUS
<1>6. /\ r \in Seq(S) /\ Len(r) = (i - 1) + (n - i)
      /\ \A j \in 1..((i - 1) + (n - i)) : r[j] = IF j <= i - 1 THEN a[j] ELSE b[j - (i - 1)]
  <2>0. i - 1 \in Nat /\ n - i \in Nat
    OBVIOUS
  <2>1. PICK l \in Nat : l = i - 1
    BY <2>0
  <2>2. PICK m \in Nat : m = n - i
    BY <2>0
  <2>3. a \in Seq(S) /\ Len(a) = l /\ b \in Seq(S) /\ Len(b) = m
    BY <1>3, <1>4, <2>1, <2>2
  <2>4. /\ r \in Seq(S) /\ Len(r) = l + m
        /\ \A j \in 1..(l + m) : r[j] = IF j <= l THEN a[j] ELSE b[j - l]
    BY <1>5, <2>3, ConcatProperties
  <2> QED
    BY <2>1, <2>2, <2>4
<1>7. ASSUME NEW j \in 1..(n - 1) PROVE r[j] = IF j < i THEN s[j] ELSE s[j + 1]
  <2>1. CASE j < i
    <3>1. r[j] = a[j] /\ j \in 1..(i - 1)
      BY <1>6, <2>1
    <3> QED
      BY <1>3, <2>1, <3>1
  <2>2. CASE ~(j < i)
    <3>1. r[j] = b[j - (i - 1)] /\ j - (i - 1) \in 1..(n - i)
      BY <1>6, <2>2
    <3>2. b[j - (i - 1)] = s[i + (j - (i - 1))]
      BY <1>4, <3>1
    <3> QED
      BY <2>2, <3>1, <3>2
  <2> QED
    BY <2>1, <2>2
<1>8. Queue!RemoveAt(s, i) = r
  BY <1>1, <1>2, <1>5 DEF Queue!RemoveAt
<1> QED
  BY <1>6, <1>7, <1>8

LEMMA QueueInit ==
  ASSUME Queue!Init
  PROVE  QueueInv
<1> USE DEF Queue!Init
<1>1. Len(queue) = 0 /\ Len(received) = 0 /\ queue \in Seq(OrderClients) /\ received \in Seq(OrderClients)
  BY EmptySeq
<1>2. QueueTypes
  <2>1. /\ orderClient \in [OrderClients -> Queue!ClientPC]
        /\ msqid \in [OrderClients -> 0..queues] /\ before \in [OrderClients -> Nat]
        /\ sent \in Nat /\ rank \in [OrderClients -> Nat]
    BY DEF Queue!ClientPC
  <2>2. exists \in BOOLEAN
    BY Zenon
  <2>3. boots \in 0..OrderStarts /\ queues \in 0..boots
    BY ClientServerAssumption
  <2> QED
    BY <1>1, <2>1, <2>2, <2>3, Zenon DEF QueueTypes, Queue!ServerPC
<1>3. QueueControl
  BY <1>1, ClientServerAssumption DEF QueueControl
<1>4. QueueMembers /\ QueueService /\ QueueKept
  BY <1>1 DEF QueueMembers, QueueService, QueueKept
<1> QED
  BY <1>2, <1>3, <1>4 DEF QueueInv

\* Steps that leave the queue, its history and the clients alone.
LEMMA QueueAlone ==
  ASSUME QueueInv,
         UNCHANGED <<variant, queues, exists, queue, received, orderClient, prime, msqid, before,
                     sent, rank>>
  PROVE  QueueMembers' /\ QueueService' /\ QueueKept'
BY DEF QueueInv, QueueMembers, QueueService, QueueAfter, QueueKept, Queue!SentTo

LEMMA QueueServerNext ==
  ASSUME QueueInv,
         \/ Queue!Start \/ Queue!StoreMsqid \/ Queue!WakeUp \/ Queue!PrintOrder
         \/ Queue!ReceiveNoWait /\ UNCHANGED Queue!queueVars
  PROVE  QueueInv'
<1> USE DEF QueueInv, Queue!Start, Queue!StoreMsqid, Queue!WakeUp, Queue!PrintOrder
<1> USE DEF Queue!params, Queue!queueVars, Queue!clientVars
<1>1. CASE Queue!Start \/ Queue!StoreMsqid \/ Queue!WakeUp \/ Queue!PrintOrder
  <2>1. QueueTypes'
    <3>1. /\ UNCHANGED <<variant, noId, queues, exists, queue, received, orderClient, prime,
                         msqid, before, sent, rank>>
          /\ orderServer' \in {"masked", "sleep", "loop"}
          /\ inHand' \in {inHand, NoClient}
      BY <1>1
    <3>2. boots' = boots \/ (boots < OrderStarts /\ boots' = boots + 1)
      BY <1>1
    <3>3. printed' \subseteq OrderClients
      BY <1>1 DEF QueueTypes, QueueControl
    <3>4. boots' \in 0..OrderStarts /\ queues \in 0..boots'
      BY <3>2, ClientServerAssumption DEF QueueTypes
    <3> QED
      BY <3>1, <3>3, <3>4 DEF QueueTypes, Queue!ServerPC
  <2>2. QueueControl'
    <3>1. /\ UNCHANGED <<exists, queue, queues>> /\ orderServer' \in {"masked", "sleep", "loop"}
          /\ inHand' = NoClient
          /\ orderServer' = "masked" => boots' = boots + 1
          /\ orderServer' # "masked" => exists = TRUE
      BY <1>1 DEF QueueControl
    <3>2. orderServer' = "masked" => queues' < boots'
      BY <3>1 DEF QueueTypes
    <3>3. exists' # TRUE => queue' = <<>>
      BY <3>1 DEF QueueControl
    <3>4. Len(queue') <= Capacity
      BY <3>1 DEF QueueControl
    <3> QED
      BY <3>1, <3>2, <3>3, <3>4 DEF QueueControl
  <2>3. QueueMembers' /\ QueueService' /\ QueueKept'
    BY <1>1, QueueAlone
  <2> QED
    BY <2>1, <2>2, <2>3
<1>2. CASE Queue!ReceiveNoWait /\ UNCHANGED Queue!queueVars
  <2>1. /\ orderServer = "loop" /\ orderServer' = "sleep"
        /\ UNCHANGED <<variant, noId, boots, inHand, printed, queues, exists, queue, received,
                       orderClient, prime, msqid, before, sent, rank>>
    <3>1. ASSUME NEW i \in 1..Len(queue), Queue!Take(i) PROVE FALSE
      <4>1. received \in Seq(OrderClients) /\ queue[i] \in OrderClients
        BY ElementOfSeq DEF QueueTypes
      <4>2. received' = Append(received, queue[i]) /\ received' = received
        BY <1>2, <3>1 DEF Queue!Take
      <4>3. Len(received') = Len(received) + 1 /\ Len(received) \in Nat
        <5>1. PICK e \in OrderClients : e = queue[i]
          BY <4>1
        <5>2. received' = Append(received, e)
          BY <4>2, <5>1
        <5> QED
          BY <4>1, <5>2, AppendProperties, LenProperties
      <4> QED
        BY <4>2, <4>3
    <3> QED
      BY <1>2, <3>1 DEF Queue!ReceiveNoWait
  <2>2. QueueTypes' /\ QueueControl'
    BY <2>1 DEF QueueTypes, QueueControl, Queue!ServerPC
  <2> QED
    BY <2>1, <2>2, QueueAlone
<1> QED
  BY <1>1, <1>2

LEMMA QueueMsggetNext ==
  ASSUME QueueInv, Queue!Msgget
  PROVE  QueueInv'
<1> USE DEF QueueInv, Queue!Msgget, Queue!params, Queue!clientVars
<1>1. CASE exists = TRUE /\ UNCHANGED <<queues, queue, received>>
  <2>1. QueueTypes' /\ QueueControl'
    BY <1>1 DEF QueueTypes, QueueControl, Queue!ServerPC
  <2> QED
    BY <1>1, <2>1, QueueAlone
<1>2. CASE queues' = queues + 1 /\ queue' = <<>> /\ received' = <<>>
  <2>1. Len(queue') = 0 /\ Len(received') = 0
        /\ queue' \in Seq(OrderClients) /\ received' \in Seq(OrderClients)
    BY <1>2, EmptySeq
  <2>2. QueueTypes'
    BY <1>2, <2>1 DEF QueueTypes, QueueControl, Queue!ServerPC
  <2>3. QueueControl'
    BY <1>2, <2>1, ClientServerAssumption DEF QueueTypes, QueueControl
  <2>4. QueueMembers' /\ QueueService'
    BY <2>1 DEF QueueMembers, QueueService
  <2>5. QueueKept'
    BY <1>2 DEF QueueTypes, QueueKept, Queue!SentTo
  <2> QED
    BY <2>2, <2>3, <2>4, <2>5
<1> QED
  BY <1>1, <1>2 DEF QueueTypes

LEMMA QueueStopNext ==
  ASSUME QueueInv, Queue!SignTermHandler
  PROVE  QueueInv'
<1> USE DEF QueueInv, Queue!SignTermHandler, Queue!params, Queue!clientVars
<1>1. CASE UNCHANGED <<exists, queue>>
  <2>1. QueueTypes' /\ QueueControl'
    BY <1>1 DEF QueueTypes, QueueControl, Queue!ServerPC
  <2> QED
    BY <1>1, <2>1, QueueAlone
<1>2. CASE exists' = FALSE /\ queue' = <<>>
  <2>1. Len(queue') = 0 /\ queue' \in Seq(OrderClients)
    BY <1>2, EmptySeq
  <2>2. QueueTypes'
    <3>1. exists' \in BOOLEAN
      BY <1>2, Zenon
    <3> QED
      BY <1>2, <2>1, <3>1, Zenon DEF QueueTypes, Queue!ServerPC
  <2>4. QueueControl'
    BY <1>2, <2>1, ClientServerAssumption DEF QueueControl
  <2>3. QueueMembers' /\ QueueService' /\ QueueKept'
    BY <1>2, <2>1 DEF QueueMembers, QueueService, QueueAfter, QueueKept, Queue!SentTo
  <2> QED
    BY <2>2, <2>3, <2>4
<1> QED
  BY <1>1, <1>2

-----------------------------------------------------------------------------
\* One order goes from the queue to those received: the first of all, or the
\* first of the prime users' orders.
LEMMA QueueTakeNext ==
  ASSUME QueueInv, orderServer = "loop", NEW i \in 1..Len(queue), Queue!Take(i),
         \/ variant = 1 /\ i = 1
         \/ Queue!IsNext(i)
  PROVE  QueueInv'
<1> USE DEF QueueInv
<1>1. PICK n \in Nat : n = Len(queue)
  BY LenProperties DEF QueueTypes
<1>2. PICK k \in Nat : k = Len(received)
  BY LenProperties DEF QueueTypes
<1>3. PICK a \in OrderClients : a = queue[i]
  BY ElementOfSeq DEF QueueTypes
<1>4. /\ orderServer' = "print" /\ inHand' = a
      /\ UNCHANGED <<variant, noId, boots, printed, queues, exists, orderClient, prime, msqid, before,
                     sent, rank>>
  BY <1>3 DEF Queue!Take, Queue!params, Queue!clientVars
<1>5. /\ queue' \in Seq(OrderClients) /\ Len(queue') = n - 1
      /\ \A j \in 1..(n - 1) : queue'[j] = IF j < i THEN queue[j] ELSE queue[j + 1]
  <2>1. PICK q \in Seq(OrderClients) : q = queue
    BY DEF QueueTypes
  <2>2. PICK r : r = Queue!RemoveAt(q, i)
    OBVIOUS
  <2>3. n = Len(q) /\ i \in 1..n
    BY <1>1, <2>1
  <2>4. r \in Seq(OrderClients) /\ Len(r) = n - 1
    <3> HIDE DEF QueueInv
    <3>1. Queue!RemoveAt(q, i) \in Seq(OrderClients)
      BY <2>3, QueueRemoveAt
    <3>2. Len(Queue!RemoveAt(q, i)) = n - 1
      BY <2>3, QueueRemoveAt
    <3> QED
      BY <2>2, <3>1, <3>2
  <2>6. \A j \in 1..(n - 1) : r[j] = IF j < i THEN q[j] ELSE q[j + 1]
    BY <2>2, <2>3, QueueRemoveAt
  <2>5. queue' = r
    BY <2>1, <2>2 DEF Queue!Take
  <2> QED
    BY <2>1, <2>4, <2>5, <2>6
<1>6. /\ received' \in Seq(OrderClients) /\ Len(received') = k + 1
      /\ \A j \in 1..k : received'[j] = received[j]
      /\ received'[k + 1] = a
  BY <1>2, <1>3, AppendProperties DEF Queue!Take, QueueTypes
<1>7. QueueTypes'
  BY <1>4, <1>5, <1>6 DEF QueueTypes, Queue!ServerPC
<1>8. QueueControl'
  <2>1. exists = TRUE /\ a # NoClient /\ n <= Capacity /\ Capacity \in Nat
    BY <1>1, <1>3, ClientServerAssumption DEF QueueControl
  <2> QED
    BY <1>4, <1>5, <2>1 DEF QueueControl
\* Where an order of the queue was before.
<1>9. ASSUME NEW j \in 1..(n - 1)
      PROVE  \E m \in 1..n : /\ m # i /\ queue'[j] = queue[m]
                             /\ m = IF j < i THEN j ELSE j + 1
  BY <1>1, <1>5
<1>10. /\ \A j \in 1..n : /\ orderClient[queue[j]] = "sent" /\ msqid[queue[j]] = queues /\ rank[queue[j]] <= sent
                          /\ queue[j] \in OrderClients /\ rank[queue[j]] \in Nat
       /\ \A j \in 1..k : /\ orderClient[received[j]] = "sent" /\ msqid[received[j]] = queues /\ rank[received[j]] <= sent
                          /\ received[j] \in OrderClients /\ rank[received[j]] \in Nat
       /\ \A j, m \in 1..n :
            j < m => queue[j] # queue[m] /\ rank[queue[j]] < rank[queue[m]]
       /\ \A j, m \in 1..k : j # m => received[j] # received[m]
       /\ \A j \in 1..k, m \in 1..n : received[j] # queue[m]
  BY <1>1, <1>2, ElementOfSeq DEF QueueMembers, QueueTypes
<1>11. i \in 1..n
  BY <1>1
<1>12. QueueMembers'
  <2>1. ASSUME NEW j \in 1..(n - 1)
        PROVE  orderClient[queue'[j]] = "sent" /\ msqid[queue'[j]] = queues /\ rank[queue'[j]] <= sent
    <3>1. PICK q \in 1..n : queue'[j] = queue[q]
      BY <1>9
    <3> QED
      BY <1>10, <3>1
  <2>2. ASSUME NEW j \in 1..(k + 1)
        PROVE  orderClient[received'[j]] = "sent" /\ msqid[received'[j]] = queues /\ rank[received'[j]] <= sent
    <3>1. CASE j = k + 1
      BY <1>3, <1>6, <1>10, <1>11, <3>1
    <3>2. CASE j \in 1..k
      BY <1>6, <1>10, <3>2
    <3> QED
      BY <3>1, <3>2
  <2>3. ASSUME NEW j \in 1..(n - 1), NEW m \in 1..(n - 1), j < m
        PROVE  queue'[j] # queue'[m] /\ rank[queue'[j]] < rank[queue'[m]]
    <3>1. PICK p \in 1..n : queue'[j] = queue[p] /\ p = IF j < i THEN j ELSE j + 1
      BY <1>9
    <3>2. PICK q \in 1..n : queue'[m] = queue[q] /\ q = IF m < i THEN m ELSE m + 1
      BY <1>9
    <3>3. p < q
      BY <2>3, <3>1, <3>2
    <3>4. queue[p] # queue[q] /\ rank[queue[p]] < rank[queue[q]]
      BY <1>10, <3>3
    <3> QED
      BY <3>1, <3>2, <3>4
  <2>4. ASSUME NEW j \in 1..(k + 1), NEW m \in 1..(k + 1), j # m
        PROVE  received'[j] # received'[m]
    BY <1>3, <1>6, <1>10, <1>11, <2>4
  <2>5. ASSUME NEW j \in 1..(k + 1), NEW m \in 1..(n - 1)
        PROVE  received'[j] # queue'[m]
    <3>1. PICK q \in 1..n : q # i /\ queue'[m] = queue[q]
      BY <1>9
    <3>2. CASE j = k + 1
      <4>1. q < i \/ i < q
        BY <1>11, <3>1
      <4> QED
        BY <1>3, <1>6, <1>10, <1>11, <3>1, <3>2, <4>1
    <3>3. CASE j \in 1..k
      BY <1>6, <1>10, <3>1, <3>3
    <3> QED
      BY <3>2, <3>3
  <2>6. /\ \A j \in 1..Len(queue') :
              /\ orderClient'[queue'[j]] = "sent" /\ msqid'[queue'[j]] = queues'
              /\ rank'[queue'[j]] <= sent'
        /\ \A j \in 1..Len(received') :
              /\ orderClient'[received'[j]] = "sent" /\ msqid'[received'[j]] = queues'
              /\ rank'[received'[j]] <= sent'
    BY <1>4, <1>5, <1>6, <2>1, <2>2
  <2>7. /\ \A j, m \in 1..Len(queue') :
              j < m => queue'[j] # queue'[m] /\ rank'[queue'[j]] < rank'[queue'[m]]
        /\ \A j, m \in 1..Len(received') : j # m => received'[j] # received'[m]
        /\ \A j \in 1..Len(received'), m \in 1..Len(queue') : received'[j] # queue'[m]
    BY <1>4, <1>5, <1>6, <2>3, <2>4, <2>5
  <2> QED
    BY <2>6, <2>7, Zenon DEF QueueMembers
<1>13. QueueService'
  <2>1. /\ \A j \in 1..k, m \in 1..n : QueueAfter(before, rank, j, received[j], queue[m])
        /\ \A j, m \in 1..k : j < m => QueueAfter(before, rank, j, received[j], received[m])
    BY <1>1, <1>2 DEF QueueService
  <2>2. ASSUME NEW q \in 1..n, q # i PROVE QueueAfter(before, rank, k + 1, a, queue[q])
    <3>1. CASE variant = 1 /\ i = 1
      <4>1. i < q
        BY <2>2, <3>1
      <4> QED
        BY <1>3, <1>10, <1>11, <3>1, <4>1 DEF QueueAfter
    <3>2. CASE Queue!IsNext(i) /\ \E m \in 1..n : queue[m] \in prime
      <4>1. a \in prime /\ \A m \in 1..(i - 1) : queue[m] \notin prime
        BY <1>1, <1>3, <3>2 DEF Queue!IsNext
      <4>2. queue[q] \in prime => i < q
        BY <2>2, <4>1, <1>11
      <4> QED
        BY <1>3, <1>10, <1>11, <4>1, <4>2 DEF QueueAfter
    <3>3. CASE Queue!IsNext(i) /\ ~\E m \in 1..n : queue[m] \in prime
      <4>1. i = 1 /\ queue[q] \notin prime
        BY <1>1, <3>3 DEF Queue!IsNext
      <4>2. i < q
        BY <2>2, <4>1
      <4> QED
        BY <1>3, <1>10, <1>11, <4>1, <4>2 DEF QueueAfter
    <3> QED
      BY <3>1, <3>2, <3>3
  <2>3. ASSUME NEW j \in 1..(k + 1), NEW m \in 1..(n - 1)
        PROVE  QueueAfter(before, rank, j, received'[j], queue'[m])
    <3>1. PICK q \in 1..n : q # i /\ queue'[m] = queue[q]
      BY <1>9
    <3>2. CASE j = k + 1
      BY <1>6, <2>2, <3>1, <3>2
    <3>3. CASE j \in 1..k
      BY <1>6, <2>1, <3>1, <3>3
    <3> QED
      BY <3>2, <3>3
  <2>4. ASSUME NEW j \in 1..(k + 1), NEW m \in 1..(k + 1), j < m
        PROVE  QueueAfter(before, rank, j, received'[j], received'[m])
    <3>1. j \in 1..k
      BY <2>4
    <3>2. CASE m = k + 1
      BY <1>3, <1>6, <1>11, <2>1, <3>1, <3>2
    <3>3. CASE m \in 1..k
      BY <1>6, <2>1, <2>4, <3>1, <3>3
    <3> QED
      BY <3>2, <3>3
  <2> QED
    BY <1>4, <1>5, <1>6, <2>3, <2>4 DEF QueueService, QueueAfter
<1>14. QueueKept'
  <2>1. ASSUME NEW c \in OrderClients, Queue!SentTo(c), exists = TRUE
        PROVE  \/ \E j \in 1..(n - 1) : queue'[j] = c
               \/ \E j \in 1..(k + 1) : received'[j] = c
    <3>1. CASE \E j \in 1..k : received[j] = c
      BY <1>6, <3>1
    <3>2. CASE c = a
      BY <1>6, <3>2
    <3>3. CASE c # a /\ \E j \in 1..n : queue[j] = c
      <4>1. PICK q \in 1..n : queue[q] = c /\ q # i
        BY <1>3, <3>3
      <4>2. CASE q < i
        <5>1. q \in 1..(n - 1)
          BY <1>11, <4>2
        <5> QED
          BY <1>5, <4>1, <4>2, <5>1
      <4>3. CASE q > i
        <5>1. q - 1 \in 1..(n - 1) /\ ~(q - 1 < i) /\ (q - 1) + 1 = q
          BY <1>11, <4>3
        <5> QED
          BY <1>5, <4>1, <5>1
      <4> QED
        BY <1>11, <4>1, <4>2, <4>3
    <3> QED
      BY <1>1, <1>2, <2>1, <3>1, <3>2, <3>3 DEF QueueKept
  <2> QED
    BY <1>4, <1>5, <1>6, <2>1 DEF QueueKept, Queue!SentTo
<1> QED
  BY <1>7, <1>8, <1>12, <1>13, <1>14

\* A step of a client that is not yet among those that have sent.
LEMMA QueueClientNext ==
  ASSUME QueueInv, NEW c \in OrderClients,
         Queue!GetQueue(c) \/ Queue!FillOrder(c) \/ Queue!SendFails(c)
  PROVE  QueueInv'
<1> USE DEF QueueInv, Queue!params, Queue!serverVars, Queue!queueVars
<1>1. /\ orderClient[c] # "sent"
      /\ UNCHANGED <<variant, noId, orderServer, boots, inHand, printed, queues, exists, queue,
                     received, before, sent, rank>>
      /\ orderClient' \in [OrderClients -> Queue!ClientPC] /\ orderClient'[c] # "sent"
      /\ prime' \subseteq OrderClients /\ msqid' \in [OrderClients -> 0..queues]
      /\ \A d \in OrderClients \ {c} : /\ orderClient'[d] = orderClient[d]
                                       /\ msqid'[d] = msqid[d] /\ (d \in prime' <=> d \in prime)
  <2>1. CASE Queue!GetQueue(c)
    BY <2>1 DEF Queue!GetQueue, QueueTypes, Queue!ClientPC
  <2>2. CASE Queue!FillOrder(c)
    BY <2>2 DEF Queue!FillOrder, QueueTypes, Queue!ClientPC
  <2>3. CASE Queue!SendFails(c)
    BY <2>3 DEF Queue!SendFails, QueueTypes, Queue!ClientPC
  <2> QED
    BY <2>1, <2>2, <2>3
<1>2. /\ \A i \in 1..Len(queue) : queue[i] \in OrderClients \ {c}
      /\ \A i \in 1..Len(received) : received[i] \in OrderClients \ {c}
  <2>1. /\ \A i \in 1..Len(queue) : queue[i] \in OrderClients
        /\ \A i \in 1..Len(received) : received[i] \in OrderClients
    BY ElementOfSeq DEF QueueTypes
  <2> QED
    BY <1>1, <2>1 DEF QueueMembers
<1>3. QueueTypes' /\ QueueControl'
  BY <1>1 DEF QueueTypes, QueueControl
<1>4. QueueMembers'
  <2>1. /\ \A i \in 1..Len(queue) :
              orderClient'[queue[i]] = orderClient[queue[i]] /\ msqid'[queue[i]] = msqid[queue[i]]
        /\ \A i \in 1..Len(received) :
              /\ orderClient'[received[i]] = orderClient[received[i]]
              /\ msqid'[received[i]] = msqid[received[i]]
    BY <1>1, <1>2
  <2>2. UNCHANGED <<queues, queue, received, sent, rank>>
    BY <1>1
  <2> QED
    BY <2>1, <2>2 DEF QueueMembers
<1>5. QueueService'
  <2>1. /\ \A i \in 1..Len(queue) : queue[i] \in prime' <=> queue[i] \in prime
        /\ \A i \in 1..Len(received) : received[i] \in prime' <=> received[i] \in prime
    BY <1>1, <1>2
  <2>2. UNCHANGED <<variant, queue, received, before, rank>>
    BY <1>1
  <2> QED
    BY <2>1, <2>2 DEF QueueService, QueueAfter
<1>6. QueueKept'
  BY <1>1 DEF QueueKept, Queue!SentTo
<1> QED
  BY <1>3, <1>4, <1>5, <1>6

LEMMA QueueSendNext ==
  ASSUME QueueInv, NEW c \in OrderClients, Queue!SendOrder(c)
  PROVE  QueueInv'
<1> USE DEF QueueInv
<1>1. PICK n \in Nat : n = Len(queue)
  BY LenProperties DEF QueueTypes
<1>2. PICK k \in Nat : k = Len(received)
  BY LenProperties DEF QueueTypes
<1>3. /\ orderClient[c] = "send" /\ exists = TRUE /\ msqid[c] = queues /\ n < Capacity
      /\ UNCHANGED <<variant, noId, orderServer, boots, inHand, printed, queues, exists, received,
                     prime, msqid>>
      /\ orderClient' = [orderClient EXCEPT ![c] = "sent"]
      /\ before' = [before EXCEPT ![c] = k]
      /\ sent' = sent + 1 /\ rank' = [rank EXCEPT ![c] = sent']
  <2>1. /\ orderClient[c] = "send" /\ exists = TRUE /\ msqid[c] = queues /\ n < Capacity
        /\ UNCHANGED <<variant, noId, orderServer, boots, inHand, printed, queues, exists, received,
                       prime, msqid>>
    BY <1>1 DEF Queue!SendOrder, Queue!params, Queue!serverVars, QueueTypes
  <2>2. /\ orderClient' = [orderClient EXCEPT ![c] = "sent"]
        /\ before' = [before EXCEPT ![c] = k]
        /\ sent' = sent + 1 /\ rank' = [rank EXCEPT ![c] = sent']
    BY <1>2 DEF Queue!SendOrder
  <2> QED
    BY <2>1, <2>2
<1>4. /\ queue' \in Seq(OrderClients) /\ Len(queue') = n + 1
      /\ \A i \in 1..n : queue'[i] = queue[i]
      /\ queue'[n + 1] = c
  BY <1>1, AppendProperties DEF Queue!SendOrder, QueueTypes
<1>5. QueueTypes'
  <2>1. sent' \in Nat /\ rank' \in [OrderClients -> Nat] /\ before' \in [OrderClients -> Nat]
    BY <1>3 DEF QueueTypes
  <2>2. orderClient' \in [OrderClients -> Queue!ClientPC]
    BY <1>3 DEF QueueTypes, Queue!ClientPC
  <2> QED
    BY <1>3, <1>4, <2>1, <2>2 DEF QueueTypes
<1>6. QueueControl'
  BY <1>1, <1>3, <1>4, ClientServerAssumption DEF QueueTypes, QueueControl
<1>7. /\ \A i \in 1..n : /\ queue[i] \in OrderClients \ {c} /\ orderClient[queue[i]] = "sent" /\ msqid[queue[i]] = queues
                         /\ rank[queue[i]] <= sent
      /\ \A i \in 1..k : /\ received[i] \in OrderClients \ {c} /\ orderClient[received[i]] = "sent" /\ msqid[received[i]] = queues
                         /\ rank[received[i]] <= sent
      /\ \A i, j \in 1..n :
            i < j => queue[i] # queue[j] /\ rank[queue[i]] < rank[queue[j]]
      /\ \A i, j \in 1..k : i # j => received[i] # received[j]
      /\ \A i \in 1..k, j \in 1..n : received[i] # queue[j]
  BY <1>1, <1>2, <1>3, ElementOfSeq DEF QueueTypes, QueueMembers, Queue!SentTo
<1>8. /\ orderClient'[c] = "sent" /\ msqid[c] = queues /\ before'[c] = k
      /\ sent \in Nat /\ sent' = sent + 1 /\ rank'[c] = sent'
      /\ \A d \in OrderClients \ {c} : /\ orderClient'[d] = orderClient[d]
                                       /\ before'[d] = before[d] /\ rank'[d] = rank[d]
                                       /\ rank[d] \in Nat
  BY <1>3 DEF QueueTypes, Queue!SentTo
<1>9. QueueMembers'
  <2>1. ASSUME NEW i \in 1..(n + 1)
        PROVE  orderClient'[queue'[i]] = "sent" /\ msqid[queue'[i]] = queues /\ rank'[queue'[i]] <= sent'
    <3>1. CASE i = n + 1
      BY <1>4, <1>8, <3>1
    <3>2. CASE i \in 1..n
      BY <1>4, <1>7, <1>8, <3>2
    <3> QED
      BY <3>1, <3>2
  <2>2. ASSUME NEW i \in 1..k
        PROVE  orderClient'[received[i]] = "sent" /\ msqid[received[i]] = queues /\ rank'[received[i]] <= sent'
    BY <1>7, <1>8
  <2>3. ASSUME NEW i \in 1..(n + 1), NEW j \in 1..(n + 1), i < j
        PROVE  queue'[i] # queue'[j] /\ rank'[queue'[i]] < rank'[queue'[j]]
    <3>1. i \in 1..n
      BY <2>3
    <3>4. /\ queue'[i] = queue[i] /\ queue[i] \in OrderClients \ {c}
          /\ rank'[queue[i]] = rank[queue[i]] /\ rank[queue[i]] \in Nat /\ rank[queue[i]] <= sent
      BY <1>4, <1>7, <1>8, <3>1
    <3>2. CASE j = n + 1
      <4>1. queue'[j] = c /\ rank'[c] = sent + 1
        BY <1>4, <1>8, <3>2
      <4> QED
        BY <1>8, <3>4, <4>1
    <3>3. CASE j \in 1..n
      <4>1. /\ queue'[j] = queue[j] /\ rank'[queue[j]] = rank[queue[j]]
            /\ queue[i] # queue[j] /\ rank[queue[i]] < rank[queue[j]]
        BY <1>4, <1>7, <1>8, <2>3, <3>1, <3>3
      <4> QED
        BY <3>4, <4>1
    <3> QED
      BY <3>2, <3>3
  <2>4. ASSUME NEW i \in 1..k, NEW j \in 1..(n + 1)
        PROVE  received[i] # queue'[j]
    <3>1. CASE j = n + 1
      BY <1>4, <1>7, <3>1
    <3>2. CASE j \in 1..n
      BY <1>4, <1>7, <3>2
    <3> QED
      BY <3>1, <3>2
  <2>5. received' = received /\ Len(received') = k /\ \A i, j \in 1..k : i # j => received[i] # received[j]
    BY <1>2, <1>3, <1>7
  <2> QED
    BY <1>3, <1>4, <2>1, <2>2, <2>3, <2>4, <2>5 DEF QueueMembers
<1>10. QueueService'
  <2>1. /\ \A i \in 1..k, j \in 1..n : QueueAfter(before, rank, i, received[i], queue[j])
        /\ \A i, j \in 1..k : i < j => QueueAfter(before, rank, i, received[i], received[j])
    BY <1>1, <1>2 DEF QueueService
  <2>2. ASSUME NEW i \in 1..k, NEW j \in 1..(n + 1)
        PROVE  QueueAfter(before', rank', i, received[i], queue'[j])
    <3>1. CASE j = n + 1
      BY <1>3, <1>4, <1>7, <1>8, <3>1 DEF QueueAfter
    <3>2. CASE j \in 1..n
      <4>1. /\ QueueAfter(before, rank, i, received[i], queue[j]) /\ queue'[j] = queue[j]
            /\ queue[j] \in OrderClients \ {c} /\ received[i] \in OrderClients \ {c}
        BY <1>4, <1>7, <2>1, <3>2
      <4>2. /\ before'[queue[j]] = before[queue[j]]
            /\ rank'[received[i]] = rank[received[i]] /\ rank'[queue[j]] = rank[queue[j]]
        BY <1>8, <4>1
      <4> QED
        BY <1>3, <4>1, <4>2 DEF QueueAfter
    <3> QED
      BY <3>1, <3>2
  <2>3. ASSUME NEW i \in 1..k, NEW j \in 1..k, i < j
        PROVE  QueueAfter(before', rank', i, received[i], received[j])
    BY <1>3, <1>7, <1>8, <2>1, <2>3 DEF QueueAfter
  <2>4. received' = received /\ Len(received') = k
    BY <1>2, <1>3
  <2> QED
    BY <1>3, <1>4, <2>2, <2>3, <2>4 DEF QueueService, QueueAfter
<1>11. QueueKept'
  <2>1. ASSUME NEW d \in OrderClients, Queue!SentTo(d)'
        PROVE  (\E i \in 1..(n + 1) : queue'[i] = d) \/ (\E i \in 1..k : received[i] = d)
    <3>1. CASE d = c
      BY <1>4, <3>1
    <3>2. CASE d # c
      <4>1. \/ \E i \in 1..n : queue[i] = d
            \/ \E i \in 1..k : received[i] = d
        BY <1>1, <1>2, <1>3, <1>8, <2>1, <3>2 DEF QueueKept, Queue!SentTo
      <4> QED
        BY <1>4, <4>1
    <3> QED
      BY <3>1, <3>2
  <2>2. received' = received /\ Len(received') = k
    BY <1>2, <1>3
  <2> QED
    BY <1>4, <2>1, <2>2 DEF QueueKept
<1> QED
  BY <1>5, <1>6, <1>9, <1>10, <1>11

LEMMA QueueNext == QueueInv /\ [Queue!Next]_queueVars => QueueInv'
<1> SUFFICES ASSUME QueueInv, [Queue!Next]_queueVars PROVE QueueInv'
  OBVIOUS
<1>1. CASE UNCHANGED queueVars
  <2>1. QueueMembers' /\ QueueService' /\ QueueKept'
    BY <1>1, QueueAlone DEF queueVars
  <2> QED
    BY <1>1, <2>1 DEF queueVars, QueueInv, QueueTypes, QueueControl
<1>2. CASE Queue!ReceiveAny \/ Queue!ReceiveByType \/ Queue!ReceiveNoWait
  <2>1. ASSUME NEW i \in 1..Len(queue), orderServer = "loop", Queue!Take(i),
               (variant = 1 /\ i = 1) \/ Queue!IsNext(i)
        PROVE  QueueInv'
    BY <2>1, QueueTakeNext
  <2>2. CASE Queue!ReceiveAny
    <3>1. 1 \in 1..Len(queue)
      BY <2>2, EmptySeq, LenProperties DEF Queue!ReceiveAny, QueueInv, QueueTypes
    <3> QED
      BY <2>1, <2>2, <3>1 DEF Queue!ReceiveAny
  <2>3. CASE Queue!ReceiveByType
    BY <2>1, <2>3 DEF Queue!ReceiveByType
  <2>4. CASE Queue!ReceiveNoWait
    <3>1. CASE UNCHANGED Queue!queueVars
      BY <2>4, <3>1, QueueServerNext
    <3>2. CASE ~UNCHANGED Queue!queueVars
      BY <2>1, <2>4, <3>2 DEF Queue!ReceiveNoWait
    <3> QED
      BY <3>1, <3>2
  <2> QED
    BY <1>2, <2>2, <2>3, <2>4
<1>3. CASE Queue!Start \/ Queue!StoreMsqid \/ Queue!WakeUp \/ Queue!PrintOrder
  BY <1>3, QueueServerNext
<1>4. CASE Queue!Msgget \/ Queue!SignTermHandler
  BY <1>4, QueueMsggetNext, QueueStopNext
<1>5. ASSUME NEW c \in OrderClients, Queue!Client(c) PROVE QueueInv'
  BY <1>5, QueueClientNext, QueueSendNext DEF Queue!Client
<1> QED
  BY <1>1, <1>2, <1>3, <1>4, <1>5 DEF Queue!Next, Queue!Server

LEMMA QueueRemovedNext ==
  ASSUME QueueInv, Queue!QueueRemoved, [Queue!Next]_queueVars
  PROVE  Queue!QueueRemoved'
<1> USE DEF Queue!QueueRemoved, Queue!params, Queue!serverVars, Queue!queueVars
<1>1. CASE UNCHANGED queueVars
  BY <1>1 DEF queueVars
<1>2. CASE Queue!Start \/ Queue!StoreMsqid \/ Queue!WakeUp \/ Queue!PrintOrder
  BY <1>2 DEF Queue!Start, Queue!StoreMsqid, Queue!WakeUp, Queue!PrintOrder
<1>3. CASE Queue!Msgget
  BY <1>3 DEF Queue!Msgget
<1>4. CASE Queue!ReceiveAny \/ Queue!ReceiveByType \/ Queue!ReceiveNoWait
  BY <1>4 DEF Queue!ReceiveAny, Queue!ReceiveByType, Queue!ReceiveNoWait, Queue!Take
<1>5. CASE Queue!SignTermHandler
  BY <1>5 DEF Queue!SignTermHandler, QueueInv, QueueTypes, Queue!ServerPC
<1>6. ASSUME NEW c \in OrderClients, Queue!Client(c) PROVE Queue!QueueRemoved'
  BY <1>6 DEF Queue!Client, Queue!GetQueue, Queue!FillOrder, Queue!SendOrder, Queue!SendFails
<1> QED
  BY <1>1, <1>2, <1>3, <1>4, <1>5, <1>6 DEF Queue!Next, Queue!Server

LEMMA QueueHolds ==
  ASSUME QueueInv
  PROVE  Queue!TypeOK /\ Queue!OrderAccounted /\ Queue!ServiceOrder
<1> USE DEF QueueInv
<1>1. Queue!TypeOK
  <2>1. msqid \in [OrderClients -> 0..OrderStarts]
    BY ClientServerAssumption DEF QueueTypes
  <2> QED
    BY <2>1 DEF QueueTypes, QueueControl, Queue!TypeOK
<1>2. ASSUME NEW c \in OrderClients, Queue!SentTo(c), exists = TRUE
      PROVE  Queue!Cardinality({i \in 1..Len(received) : received[i] = c})
                 + Queue!Cardinality({i \in 1..Len(queue) : queue[i] = c}) = 1
  <2>1. CASE \E i \in 1..Len(queue) : queue[i] = c
    <3>1. PICK i \in 1..Len(queue) : queue[i] = c
      BY <2>1
    <3>2. Len(queue) \in Nat
      BY LenProperties DEF QueueTypes
    <3>3. {j \in 1..Len(queue) : queue[j] = c} = {i}
      BY <3>1, <3>2 DEF QueueMembers
    <3>4. {j \in 1..Len(received) : received[j] = c} = {}
      BY <3>1 DEF QueueMembers
    <3>5. Queue!Cardinality({j \in 1..Len(queue) : queue[j] = c}) = 1
      BY <3>3, QueueCounts, Zenon
    <3>6. Queue!Cardinality({j \in 1..Len(received) : received[j] = c}) = 0
      BY <3>4, QueueCounts, Zenon
    <3> QED
      BY <3>5, <3>6
  <2>2. CASE \E i \in 1..Len(received) : received[i] = c
    <3>1. PICK i \in 1..Len(received) : received[i] = c
      BY <2>2
    <3>2. {j \in 1..Len(received) : received[j] = c} = {i}
      BY <3>1 DEF QueueMembers
    <3>3. {j \in 1..Len(queue) : queue[j] = c} = {}
      BY <3>1 DEF QueueMembers
    <3>4. Queue!Cardinality({j \in 1..Len(received) : received[j] = c}) = 1
      BY <3>2, QueueCounts, Zenon
    <3>5. Queue!Cardinality({j \in 1..Len(queue) : queue[j] = c}) = 0
      BY <3>3, QueueCounts, Zenon
    <3> QED
      BY <3>4, <3>5
  <2> QED
    BY <1>2, <2>1, <2>2 DEF QueueKept
<1>3. Queue!OrderAccounted
  BY <1>2 DEF Queue!OrderAccounted, QueueTypes
<1>4. Queue!ServiceOrder
  <2>1. ASSUME NEW j \in 1..Len(received), NEW i \in 1..j - 1
        PROVE  QueueAfter(before, rank, i, received[i], received[j])
    <3>1. i \in 1..Len(received) /\ i < j
      BY LenProperties DEF QueueTypes
    <3> QED
      BY <3>1 DEF QueueService
  <2> QED
    BY <2>1 DEF QueueAfter, Queue!ServiceOrder
<1> QED
  BY <1>1, <1>3, <1>4

-----------------------------------------------------------------------------
(* One program in a behaviour                                              *)

Inv == /\ program \in Programs /\ FifoInv /\ FifoTaken /\ CopyInv
       /\ QueueInv /\ Queue!QueueRemoved

LEMMA InvInit == Init => Inv
<1>1. ASSUME Queue!Init PROVE Queue!QueueRemoved
  BY <1>1 DEF Queue!Init, Queue!QueueRemoved
<1> QED
  BY <1>1, FifoInit, FifoTakenInit, CopyInit, QueueInit DEF Init, Inv

LEMMA InvNext == Inv /\ [Next]_vars => Inv'
<1> SUFFICES ASSUME Inv, [Next]_vars PROVE Inv'
  OBVIOUS
<1>1. [Fifo!Next]_fifoVars /\ [Copy!Next]_copyVars /\ [Queue!Next]_queueVars
  BY DEF Next, vars
<1>2. program' \in Programs
  BY DEF Inv, Next, vars
<1> QED
  BY <1>1, <1>2, FifoNext, FifoTakenNext, CopyNext, QueueNext, QueueRemovedNext DEF Inv

LEMMA Invariance == Spec => []Inv
BY InvInit, InvNext, PTL DEF Spec

(* Every variable of the three programs keeps its type: in particular an
   alarm runs except while the server of FifoServer answers, no semaphore of
   SharedCopy passes one once SETALL has run, and no queue of Orders holds
   more than its capacity. *)
THEOREM TypeCorrect == Spec => []TypeOK
<1>1. Inv => TypeOK
  BY FifoHolds, CopyHolds, QueueHolds DEF Inv, TypeOK
<1> QED
  BY <1>1, Invariance, PTL

(* While its server lives, the request of a waiting client of FifoServer is in
   the pipe once or in the server's hands, for any number of clients, deaths
   and restarts, and nobody who has been answered is answered again. *)
THEOREM EveryRequestOnce == Spec => []RequestsServedOnce
<1>1. Inv => RequestsServedOnce
  BY FifoHolds DEF Inv, RequestsServedOnce
<1> QED
  BY <1>1, Invariance, PTL

(* Whatever values of the semaphores and whatever chunk an earlier run has
   left, the client of SharedCopy shows the very chunks of every file, each
   once and in order, up to exactly the first that it takes for the end; it
   shows something else only if it went by a DATA_READY of the earlier run
   and its request was not taken; and no chunk is lost when the removal of
   the semaphore set ends the server. *)
THEOREM EveryChunkOnce == Spec => []ChunksShownOnce
<1>1. Inv => ChunksShownOnce
  BY CopyHolds DEF Inv, ChunksShownOnce
<1> QED
  BY <1>1, Invariance, PTL

(* Whatever the number of clients, stops and restarts, an order that msgsnd
   has accepted in Orders is in its queue once or was received once; orders
   of one kind are received in the order in which msgsnd accepted them, and
   a normal user's before a prime user's only if it was received before that
   was sent. *)
THEOREM OrdersInOrder == Spec => []OrdersServedInOrder
<1>1. Inv => OrdersServedInOrder
  BY QueueHolds DEF Inv, OrdersServedInOrder
<1> QED
  BY <1>1, Invariance, PTL

(* A server of FifoServer that has ended with its FIFO's name left behind was
   killed by SIGPIPE at a dead client, by a SIGINT before its handlers were
   there, or by the second of two different signals inside quit(); and a queue
   of Orders from which an order was taken is there only while the server that
   can take it is past msgget, unless its identifier is 0. *)
THEOREM NothingLeftBehind == Spec => []RemovedAtEnd
<1>1. Inv => RemovedAtEnd
  BY FifoHolds DEF Inv, RemovedAtEnd
<1> QED
  BY <1>1, Invariance, PTL
=============================================================================
