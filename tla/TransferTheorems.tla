--------------------------- MODULE TransferTheorems ---------------------------
(***************************************************************************)
(* What the invariant of Transfer gives: the safety properties of the      *)
(* protocol, and that it implements the Delivery promise.                  *)
(***************************************************************************)
EXTENDS TransferDelivery, TransferProofs

(* The channels.                                                           *)

LEMMA Ownership == Inv => ChannelOwnership
<1> SUFFICES ASSUME Inv, NEW c \in Chan
             PROVE  /\ Cardinality(Writers(c)) + (IF ServerHolds(c) THEN 1 ELSE 0) <= 1
                    /\ Writers(c) # {} <=> (sem[c] = 0 /\ pc0 = "reap")
                    /\ pc0 = "reap" /\ ServerHolds(c) => sem[c] = 1
  BY DEF ChannelOwnership
<1> USE DEF Inv, Base
<1>1. OneChannelInv(c)
  BY DEF ChannelInv
<1>2. Writers(c) # {} => sem[c] = 0 /\ ~Loaded(c)
  BY <1>1 DEF OneChannelInv, SemInv, Loaded
<1>3. ServerHolds(c) => Loaded(c)
  BY <1>1 DEF OneChannelInv, FreeInv
<1>4. Writers(c) # {} => pc0 = "reap"
  BY DEF Writers, PhaseInv, Alive, Sending
<1>5. sem[c] = 0 /\ pc0 = "reap" => Writers(c) # {}
  BY <1>1 DEF OneChannelInv, SemInv, NotReset, RoundInv
<1>6. pc0 = "reap" /\ Loaded(c) => sem[c] = 1
  BY <1>1 DEF OneChannelInv, SemInv, Loaded, Pending, ResetPC
<1>7. Cardinality(Writers(c)) + (IF ServerHolds(c) THEN 1 ELSE 0) <= 1
  <2>1. CASE Writers(c) = {}
    <3>1. Cardinality(Writers(c)) = 0
      BY <2>1, FS_EmptySet
    <3> QED
      BY <3>1
  <2>2. CASE Writers(c) # {}
    <3>1. PICK i : i \in Writers(c)
      BY <2>2
    <3>2. Writers(c) = {i}
      BY <1>1, <3>1 DEF OneChannelInv, SemInv
    <3>3. Cardinality(Writers(c)) = 1 /\ ~ServerHolds(c)
      BY <1>2, <1>3, <2>2, <3>2, FS_Singleton
    <3> QED
      BY <3>3
  <2> QED
    BY <2>1, <2>2
<1> QED
  BY <1>2, <1>3, <1>4, <1>5, <1>6, <1>7

\* However many children share a pipe or a slot, and although they lock it
\* after a test made in an earlier system call and the server never locks it,
\* at most one process uses it, and the semaphore says which.
THEOREM OwnershipHolds == Spec => []ChannelOwnership
BY Invariance, Ownership, PTL

LEMMA FramesWhole == Inv => Framing
<1> SUFFICES ASSUME Inv PROVE Framing
  OBVIOUS
<1>1. ASSUME spc = "count", fifo[Fifo1] # <<>> PROVE fifo[Fifo1] = <<Count(n)>>
  BY <1>1, ServerListens DEF Listening, Rest, Fifo
<1>2. ASSUME spc = "read", at \in Fifo
      PROVE  fifo[at] # <<>> /\ Head(fifo[at]) \in {Part(i, at[1]) : i \in Files}
  <2>1. PICK i \in Files, m \in Guards : ChanOf(i, m) = at /\ Holds(at, Part(i, m))
    BY <1>2, ServerHas
  <2>2. PICK r : r = Rest(at)
    OBVIOUS
  <2>3. fifo[at] = <<Part(i, m)>> \o r
    BY <1>2, <2>1, <2>2 DEF Holds, Taken
  <2>4. PICK S : S = Parts \cup {Count(n)}
    OBVIOUS
  <2>5. r = <<>> \/ \E x \in S : r = <<x>>
    BY <2>2, <2>4 DEF Rest
  <2>6. PICK p \in S : p = Part(i, m)
    BY <2>4, MessageKinds, GuardFacts
  <2>7. <<p>> \o r # <<>> /\ Head(<<p>> \o r) = p
    BY <2>5, PipeFacts
  <2>8. at[1] = m
    BY <2>1, GuardFacts
  <2> QED
    BY <2>3, <2>6, <2>7, <2>8
<1> QED
  BY <1>1, <1>2 DEF Framing

\* The server never takes a count for a message, nor a message for a count, and
\* never blocks in the middle of one, in any interleaving of Client_0 and the
\* children of any number of rounds.
THEOREM FramingHolds == Spec => []Framing
BY Invariance, FramesWhole, PTL

LEMMA TornAccounted == Inv => TornChannels
<1> SUFFICES ASSUME Inv, NEW c \in torn
             PROVE  \/ /\ sem[c] = 2
                       /\ messagesReceived < filesCounter * 4
                       /\ pc0 \in ResetPC \cup {"send", "wait_ok"}
                    \/ /\ sem[c] = 3
                       /\ \A i \in Files, m \in Media \ {MEDIA_MSGQUEUE} :
                            pc[i] # "none" /\ ChanOf(i, m) = c => m \notin sent[i]
  BY DEF TornChannels
<1> USE DEF Inv, Base
<1>1. c \in Chan /\ OneChannelInv(c)
  BY DEF ChannelInv, GateInv, TypeOK
<1>2. sem[c] \in {2, 3}
  BY <1>1 DEF OneChannelInv, SemInv
<1>3. CASE sem[c] = 2
  <2>1. Pending /\ Loaded(c)
    BY <1>1, <1>3 DEF OneChannelInv, SemInv, Loaded
  <2>2. PICK i \in Files, m \in Guards : Due(i, m)
    BY <1>1, <2>1 DEF OneChannelInv, LoadedInv
  <2>3. messages # Served
    BY <2>2, AllCounted, GuardFacts
  <2>4. messagesReceived < filesCounter * 4
    BY <2>3, CountFacts
  <2> QED
    BY <1>3, <2>1, <2>4 DEF Pending
<1>4. CASE sem[c] = 3
  BY <1>4 DEF TornInv, Guards
<1> QED
  BY <1>2, <1>3, <1>4

\* There is no third way for a channel that a SIGINT has reset under a part:
\* either the round stays one part short or the channel is never used again.
THEOREM TornHolds == Spec => []TornChannels
BY Invariance, TornAccounted, PTL

-----------------------------------------------------------------------------
(* The counts.                                                             *)

LEMMA CountsFit == Inv => NoOverrun
BY CountFacts DEF NoOverrun

\* messages[messagesReceived++] stays inside the array malloc'd for the round,
\* for every number of files, and the loop test with != is met.
THEOREM NoOverrunHolds == Spec => []NoOverrun
BY Invariance, CountsFit, PTL

LEMMA FinitosCounted == Inv => FinitosPileUp
<1> SUFFICES ASSUME Inv PROVE FinitosPileUp
  OBVIOUS
<1> USE DEF Inv, Base
<1>1. rounds \in Nat /\ filesCounter \in Nat /\ filesCounter <= MaxFiles
  BY ConstantsAssumption DEF GateInv, TypeOK
<1>2. \/ Finitos = rounds
      \/ Finitos = rounds - 1
      \/ Finitos = rounds - 2 /\ ~Listening
  <2>1. CASE Listening
    BY <1>1, <2>1 DEF FinitosInv
  <2>2. CASE ~Listening
    BY <1>1, <2>2 DEF FinitosInv
  <2> QED
    BY <2>1, <2>2
<1>3. ASSUME spc = "write", filesCounter > 0 PROVE Finitos < MsgQueueCap
  <2>1. 0 \in Files
    BY <1>1, <1>3, ConstantsAssumption DEF Files
  <2>2. messages = Served /\ ~Listening
    BY <1>3 DEF CountInv, Listening
  <2>3. Handed(0, MEDIA_MSGQUEUE)
    BY <1>1, <1>3, <2>1, <2>2, AllCounted, GuardFacts
  <2> QED
    BY <2>1, <2>2, <2>3 DEF FinitosInv
<1> QED
  BY <1>1, <1>2, <1>3 DEF FinitosPileUp

\* Each round leaves exactly one closing message behind for ever, and a full
\* queue stops every round with files before its outputs, whatever the
\* capacity of the kernel's queue.
THEOREM FinitosHold == Spec => []FinitosPileUp
BY Invariance, FinitosCounted, PTL

-----------------------------------------------------------------------------
(* The rounds.                                                             *)

LEMMA RestBetweenRounds ==
  ASSUME Inv, pc0 = "sleep", Listening
  PROVE  AtRest
<1> USE DEF Inv, Base
<1>1. ~Pending
  BY DEF Pending, ResetPC
<1>2. ASSUME NEW c \in Chan
      PROVE  sem[c] = IF rounds = 0 THEN 0 ELSE IF c \in torn THEN 3 ELSE 2
  <2>1. SemInv(c) /\ ~Loaded(c) /\ Writers(c) = {}
    BY ServerListens DEF ChannelInv, OneChannelInv
  <2>2. ~NotReset(c)
    BY DEF NotReset
  <2> QED
    BY <2>1, <2>2 DEF SemInv, Loaded
<1>3. mqsem >= IF rounds = 0 THEN 0 ELSE MsgQueueInit
  <2>1. Units = {}
    BY ServerListens, GuardFacts DEF Units
  <2>2. Cardinality(Units) = 0
    BY <2>1, FS_EmptySet
  <2>3. mqsem \in Nat /\ MsgQueueInit \in Nat
    BY ConstantsAssumption DEF GateInv, TypeOK
  <2> QED
    BY <2>2, <2>3 DEF UnitsInv, ResetPC
<1>4. clientSem = [k \in 0..1 |-> 0]
  <2>1. Loading = {}
    BY DEF PhaseInv
  <2>2. clientSem[0] = 0
    BY <2>1, FS_EmptySet DEF GateInv, GateCount, ResetPC
  <2>3. clientSem[1] = 0
    BY DEF PhaseInv
  <2> QED
    BY <2>2, <2>3 DEF GateInv, TypeOK
<1>5. \A c \in Fifo : fifo[c] = <<>>
  BY ServerListens DEF Rest
<1>6. \A j \in DOMAIN msgq : msgq[j] = Finito
  <2> SUFFICES ASSUME NEW j \in DOMAIN msgq, msgq[j] # Finito PROVE FALSE
    OBVIOUS
  <2>1. PICK i \in Files : msgq[j] = Part(i, MEDIA_MSGQUEUE)
    BY DEF QueueInv
  <2>2. Due(i, MEDIA_MSGQUEUE)
    BY <2>1 DEF QueueInv, InQueue
  <2> QED
    BY <2>2, ServerListens, GuardFacts
<1>7. serverOk = 0
  BY DEF RoundInv, GateInv, TypeOK
<1>8. \A i \in Files : ~Alive(i)
  BY DEF PhaseInv
<1> QED
  BY <1>2, <1>3, <1>4, <1>5, <1>6, <1>7, <1>8 DEF AtRest

\* A SIGINT that finds the server listening finds all the shared objects as the
\* resets that follow it assume them: it loses nothing.
THEOREM RestHolds == Spec => RoundsStartAtRest
<1>1. ASSUME Inv, [Next]_vars
      PROVE  [rounds' # rounds /\ Listening => AtRest]_vars
  <2> SUFFICES ASSUME rounds' # rounds, Listening PROVE AtRest
    OBVIOUS
  <2>1. PICK k \in 0..MaxFiles : SigInt(k)
    <3>1. ~Server /\ ~UNCHANGED vars
      BY DEF vars, client, Server, SrvStart, ReadCount, SetServerOk, SrvPollFifo,
         SrvReadFifo, SrvPostFifo, SrvReceive, SrvPostQueue, SrvSnapshot,
         SrvReadShm, SrvPostShm, WriteOutputs, SendFinito
    <3>2. \A i \in Files : ~Child(i)
      BY <1>1, ChildFrame
    <3>3. ~SigUsr1 /\ ~Client0
      BY DEF SigUsr1, Client0, ResetGuards, ResetCounters, Reset, SendCount,
         SeeServerOk, ClearServerOk, Fork, ForkFails, ForksDone, SeeAllReady,
         ReleaseChildren, Reap, CloseRound
    <3> QED
      BY <1>1, <3>1, <3>2, <3>3 DEF Next, Quiescent
  <2> QED
    BY <1>1, <2>1, RestBetweenRounds DEF SigInt
<1> QED
  BY <1>1, Invariance, PTL DEF Spec, RoundsStartAtRest

-----------------------------------------------------------------------------
(* Where a part is.                                                        *)

LEMMA ShortPipe ==
  ASSUME NEW S, NEW p \in S, NEW c \in S
  PROVE  /\ DOMAIN (<<p>> \o <<>>) = {1} /\ (<<p>> \o <<>>)[1] = p
         /\ DOMAIN (<<p>> \o <<c>>) = {1, 2}
         /\ (<<p>> \o <<c>>)[1] = p /\ (<<p>> \o <<c>>)[2] = c
         /\ DOMAIN <<c>> = {1} /\ <<c>>[1] = c
         /\ \A j : j \notin DOMAIN <<>>
<1>1. /\ <<p>> \in Seq(S) /\ <<c>> \in Seq(S) /\ <<>> \in Seq(S)
      /\ Len(<<p>>) = 1 /\ Len(<<c>>) = 1 /\ <<p>>[1] = p /\ <<c>>[1] = c
  OBVIOUS
<1>2. DOMAIN <<p>> = {1} /\ DOMAIN <<c>> = {1}
  OBVIOUS
<1>3. <<p>> \o <<>> = <<p>>
  BY <1>1, ConcatEmptySeq
<1>4. PICK s : s = <<p>> \o <<c>>
  OBVIOUS
<1>5. /\ s \in Seq(S) /\ Len(s) = 2 /\ s[1] = p /\ s[2] = c
  <2>1. /\ s \in Seq(S) /\ Len(s) = Len(<<p>>) + Len(<<c>>)
        /\ \A i \in 1..(Len(<<p>>) + Len(<<c>>)) :
             s[i] = IF i <= Len(<<p>>) THEN <<p>>[i] ELSE <<c>>[i - Len(<<p>>)]
    BY <1>1, <1>4, ConcatProperties
  <2> QED
    BY <1>1, <2>1
<1>6. DOMAIN s = {1, 2}
  <2>1. DOMAIN s = 1..2
    BY <1>5, LenProperties
  <2> QED
    BY <2>1
<1>7. \A j : j \notin DOMAIN <<>>
  <2>1. DOMAIN <<>> = 1..Len(<<>>) /\ Len(<<>>) = 0
    BY <1>1, LenProperties, EmptySeq
  <2> QED
    BY <2>1
<1> QED
  BY <1>1, <1>2, <1>3, <1>4, <1>5, <1>6, <1>7

\* A pipe with part p at its head holds no other part.
LEMMA HoldsOne ==
  ASSUME Inv, NEW c \in Fifo, ~Taken(c), NEW p \in Parts, Holds(c, p)
  PROVE  /\ 1 \in DOMAIN fifo[c] /\ fifo[c][1] = p
         /\ \A j \in DOMAIN fifo[c] : fifo[c][j] \in Parts => j = 1
<1>1. PICK S : S = Parts \cup {Count(n)}
  OBVIOUS
<1>2. p \in S /\ Count(n) \in S /\ Count(n) \notin Parts
  BY <1>1, MessageKinds DEF Count
<1>3. fifo[c] = <<p>> \o <<>> \/ fifo[c] = <<p>> \o <<Count(n)>>
  BY DEF Holds, Rest
<1>4. CASE fifo[c] = <<p>> \o <<>>
  BY <1>2, <1>4, ShortPipe
<1>5. CASE fifo[c] = <<p>> \o <<Count(n)>>
  <2>1. PICK q \in S : q = Count(n)
    BY <1>2
  <2>2. /\ DOMAIN (<<p>> \o <<q>>) = {1, 2}
        /\ (<<p>> \o <<q>>)[1] = p /\ (<<p>> \o <<q>>)[2] = q
    BY <1>2, ShortPipe
  <2> QED
    BY <1>2, <1>5, <2>1, <2>2
<1> QED
  BY <1>3, <1>4, <1>5

LEMMA RestHasNoPart ==
  ASSUME Inv, NEW c \in Fifo, fifo[c] = Rest(c)
  PROVE  \A j \in DOMAIN fifo[c] : fifo[c][j] \notin Parts
<1>1. Count(n) \notin Parts
  BY MessageKinds DEF Count
<1>2. fifo[c] = <<>> \/ fifo[c] = <<Count(n)>>
  BY DEF Rest
<1>3. CASE fifo[c] = <<>>
  BY <1>3, ShortPipe
<1>4. CASE fifo[c] = <<Count(n)>>
  BY <1>1, <1>4
<1> QED
  BY <1>2, <1>3, <1>4

\* A part that its child has marked is in a pipe only at the head of its own,
\* and only while it is due.
LEMMA InPipe ==
  ASSUME Inv, NEW c \in Fifo, NEW j \in DOMAIN fifo[c],
         NEW i \in Files, NEW m \in Media, m \in sent[i], fifo[c][j] = Part(i, m)
  PROVE  j = 1 /\ m \in Guards /\ ChanOf(i, m) = c /\ Due(i, m) /\ ~Taken(c)
<1> USE DEF Inv, Base
<1>1. c \in Chan /\ OneChannelInv(c) /\ Part(i, m) \in Parts
  BY MessageKinds DEF ChannelInv, Chan
<1>2. CASE Loaded(c)
  <2>1. PICK k \in Files, l \in Guards : /\ ChanOf(k, l) = c /\ Due(k, l)
                                         /\ Holds(c, Part(k, l))
    BY <1>1, <1>2 DEF OneChannelInv, LoadedInv, DueInv
  <2>2. ~Taken(c)
    BY <1>1, <2>1, RestHasNoPart DEF Holds
  <2>3. j = 1 /\ Part(i, m) = Part(k, l)
    BY <1>1, <2>1, <2>2, MessageKinds, GuardFacts, HoldsOne
  <2> QED
    BY <2>1, <2>2, <2>3, PartFacts
<1>3. CASE ~Loaded(c)
  <2>1. ~Taken(c)
    BY <1>1, <1>3 DEF OneChannelInv, FreeInv, ServerHolds, Taken
  <2>2. PICK k \in Writers(c) : pc[k] = "unlock"
    <3>1. fifo[c] # Rest(c)
      BY <1>1, RestHasNoPart
    <3>2. PICK k \in Writers(c) : pc[k] # "write"
      BY <1>1, <1>3, <3>1 DEF OneChannelInv, FreeInv
    <3> QED
      BY <3>2 DEF Writers
  <2>3. Holds(c, Part(k, med[k])) /\ k \in Files /\ med[k] \in Media
    BY <1>1, <1>3, <2>2 DEF OneChannelInv, FreeInv, Writers, GateInv, TypeOK
  <2>4. Part(i, m) = Part(k, med[k])
    BY <1>1, <2>1, <2>3, MessageKinds, HoldsOne
  <2> QED
    BY <2>2, <2>3, <2>4, PartFacts DEF ChildInv
<1> QED
  BY <1>2, <1>3

\* What is in the server's hand is due, and nowhere else.
LEMMA InHand ==
  ASSUME Inv, NEW i \in Files, NEW m \in Media, hand = Part(i, m)
  PROVE  /\ Due(i, m) /\ ~InQueue(hand)
         /\ m # MEDIA_MSGQUEUE => Taken(ChanOf(i, m))
<1> USE DEF Inv, Base
<1>1. spc \in {"post", "mqpost"}
  BY PartFacts DEF ServerInv
<1>2. CASE spc = "post"
  <2>1. PICK k \in Files, l \in Guards : /\ ChanOf(k, l) = at /\ Due(k, l)
                                         /\ hand = Part(k, l)
    BY <1>2, ServerHas
  <2>2. k = i /\ l = m
    <3>1. Part(k, l) = Part(i, m)
      BY <2>1
    <3> QED
      BY <3>1, PartFacts
  <2>3. ~InQueue(hand)
    <3> SUFFICES ASSUME NEW j \in DOMAIN msgq, msgq[j] = hand PROVE FALSE
      BY DEF InQueue
    <3>1. PICK e \in Files : msgq[j] = Part(e, MEDIA_MSGQUEUE)
      BY PartFacts DEF QueueInv
    <3>2. Part(e, MEDIA_MSGQUEUE) = Part(k, l)
      BY <2>1, <3>1
    <3> QED
      BY <3>2, PartFacts DEF Guards
  <2> QED
    BY <1>2, <2>1, <2>2, <2>3 DEF Taken
<1>3. CASE spc = "mqpost"
  <2>1. PICK k \in Files : hand = Part(k, MEDIA_MSGQUEUE)
    BY <1>3 DEF QueueInv
  <2>2. k = i /\ m = MEDIA_MSGQUEUE
    <3>1. Part(k, MEDIA_MSGQUEUE) = Part(i, m)
      BY <2>1
    <3> QED
      BY <3>1, PartFacts
  <2> QED
    BY <1>3, <2>1, <2>2 DEF QueueInv
<1> QED
  BY <1>1, <1>2, <1>3

\* A full slot holds the part that is due on it.
LEMMA InSlot ==
  ASSUME Inv, NEW k \in Slot, sem[Shm(k)] = 1,
         NEW i \in Files, NEW m \in Media, shm[k] = Part(i, m)
  PROVE  m \in Guards /\ ChanOf(i, m) = Shm(k) /\ Due(i, m)
<1> USE DEF Inv, Base
<1>1. PICK c \in Chan \ Fifo : c = Shm(k) /\ c[2] = k
  BY ChanFacts
<1>2. OneChannelInv(c) /\ Loaded(c)
  BY <1>1 DEF ChannelInv, Loaded
<1>3. PICK j \in Files, l \in Guards : ChanOf(j, l) = c /\ Due(j, l) /\ Holds(c, Part(j, l))
  BY <1>2 DEF OneChannelInv, LoadedInv, DueInv
<1>4. j = i /\ l = m
  BY <1>1, <1>3, PartFacts DEF Holds
<1> QED
  BY <1>1, <1>3, <1>4

LEMMA OnePlace ==
  ASSUME Inv, NEW i \in Files, NEW m \in Media, pc[i] # "none", m \in sent[i]
  PROVE  \E x : Places(Part(i, m)) = {x}
<1> USE DEF Inv, Base
<1> DEFINE p == Part(i, m)
           pipes == UNION {{<<"pipe", c, j>> : j \in {k \in DOMAIN fifo[c] : fifo[c][k] = p}}
                             : c \in Fifo}
           queue == {<<"queue", j>> : j \in {k \in DOMAIN msgq : msgq[k] = p}}
           slots == {<<"slot", k>> : k \in {l \in Slot : sem[Shm(l)] = 1 /\ shm[l] = p
                                                        /\ hand # p}}
           inHand == IF hand = p THEN {<<"hand">>} ELSE {}
           counted == IF p \in messages THEN {<<"counted">>} ELSE {}
<1>1. Places(p) = pipes \cup queue \cup slots \cup inHand \cup counted
  BY DEF Places
<1>2. ~Pending /\ p # Finito /\ p \in Parts
  BY PartFacts, MessageKinds DEF RoundInv
<1>3. Due(i, m) <=> p \notin messages
  <2>1. i < n /\ filesCounter = n
    BY <1>2 DEF RoundInv, GateInv, Forked
  <2> QED
    BY <2>1 DEF Due, Handed
<1>4. \A c \in Fifo : \A j \in DOMAIN fifo[c] :
        fifo[c][j] = p => j = 1 /\ m \in Guards /\ ChanOf(i, m) = c /\ Due(i, m) /\ ~Taken(c)
  BY InPipe
<1>5. \A j \in DOMAIN msgq : msgq[j] = p => m = MEDIA_MSGQUEUE /\ Due(i, m)
  <2> SUFFICES ASSUME NEW j \in DOMAIN msgq, msgq[j] = p
               PROVE  m = MEDIA_MSGQUEUE /\ Due(i, m)
    OBVIOUS
  <2>1. PICK k \in Files : p = Part(k, MEDIA_MSGQUEUE)
    BY <1>2 DEF QueueInv
  <2>2. k = i /\ m = MEDIA_MSGQUEUE
    BY <2>1, PartFacts
  <2> QED
    BY <2>2 DEF QueueInv, InQueue
<1>6. \A k \in Slot : sem[Shm(k)] = 1 /\ shm[k] = p =>
        m \in Guards /\ ChanOf(i, m) = Shm(k) /\ Due(i, m)
  BY InSlot
<1>7. hand = p => /\ Due(i, m) /\ ~InQueue(p)
                  /\ m # MEDIA_MSGQUEUE => Taken(ChanOf(i, m))
  BY InHand
<1> HIDE DEF p
<1>8. CASE p \in messages
  <2>1. pipes = {} /\ queue = {} /\ slots = {} /\ inHand = {} /\ counted = {<<"counted">>}
    BY <1>3, <1>4, <1>5, <1>6, <1>7, <1>8
  <2> HIDE DEF pipes, queue, slots, inHand, counted
  <2> QED
    BY <1>1, <2>1 DEF p
<1>9. CASE p \notin messages /\ hand = p
  <2>1. pipes = {}
    BY <1>4, <1>7, <1>9 DEF Guards
  <2>2. queue = {} /\ slots = {} /\ inHand = {<<"hand">>} /\ counted = {}
    BY <1>7, <1>9 DEF InQueue
  <2> HIDE DEF pipes, queue, slots, inHand, counted
  <2> QED
    BY <1>1, <2>1, <2>2 DEF p
<1>10. CASE p \notin messages /\ hand # p /\ m = MEDIA_MSGQUEUE
  <2>1. PICK j \in DOMAIN msgq : msgq[j] = p
    BY <1>3, <1>10 DEF p, QueueInv, InQueue
  <2>2. queue = {<<"queue", j>>}
    BY <1>2, <2>1 DEF QueueInv
  <2>3. pipes = {} /\ slots = {} /\ inHand = {} /\ counted = {}
    BY <1>4, <1>6, <1>10 DEF Guards
  <2> HIDE DEF pipes, queue, slots, inHand, counted
  <2> QED
    BY <1>1, <2>2, <2>3 DEF p
<1>11. ASSUME p \notin messages, hand # p, m \in Guards PROVE \E x : Places(p) = {x}
  <2>1. PICK c \in Chan : c = ChanOf(i, m)
    BY <1>11, GuardFacts
  <2>2. OneChannelInv(c) /\ Due(i, m)
    BY <1>3, <1>11 DEF ChannelInv
  <2>3. Loaded(c) /\ Holds(c, p) /\ ~Taken(c)
    BY <1>11, <2>1, <2>2 DEF p, OneChannelInv, DueInv
  <2>4. queue = {} /\ inHand = {} /\ counted = {}
    BY <1>5, <1>11 DEF Guards
  <2>5. CASE c \in Fifo
    <3>1. 1 \in DOMAIN fifo[c] /\ fifo[c][1] = p
      BY <1>2, <2>3, <2>5, HoldsOne
    <3>2. \A d \in Fifo : {k \in DOMAIN fifo[d] : fifo[d][k] = p} = IF d = c THEN {1} ELSE {}
      BY <1>4, <2>1, <3>1
    <3>3. pipes = {<<"pipe", c, 1>>}
      BY <2>5, <3>2
    <3>4. slots = {}
      BY <1>6, <2>1, <2>5, ChanFacts
    <3> HIDE DEF pipes, queue, slots, inHand, counted
    <3> QED
      BY <1>1, <2>4, <3>3, <3>4 DEF p
  <2>6. CASE c \notin Fifo
    <3>1. PICK k \in Slot : c = Shm(k) /\ c[2] = k
      BY <2>6, ChanFacts
    <3>2. sem[Shm(k)] = 1 /\ shm[k] = p
      BY <1>2, <2>2, <2>3, <2>6, <3>1 DEF OneChannelInv, SemInv, Loaded, Holds
    <3>3. slots = {<<"slot", k>>}
      BY <1>6, <1>11, <2>1, <3>1, <3>2, ChanFacts
    <3>4. pipes = {}
      BY <1>4, <2>1, <2>6
    <3> HIDE DEF pipes, queue, slots, inHand, counted
    <3> QED
      BY <1>1, <2>4, <3>3, <3>4 DEF p
  <2> QED
    BY <2>5, <2>6
<1> QED
  BY <1>8, <1>9, <1>10, <1>11 DEF p, Guards

LEMMA PartsKept == Inv => EachPartOnce
<1> SUFFICES ASSUME Inv, NEW i \in Files, NEW m \in Media, pc[i] # "none", m \in sent[i]
             PROVE  Cardinality(Places(Part(i, m))) = 1
  BY DEF EachPartOnce
<1>1. PICK x : Places(Part(i, m)) = {x}
  BY OnePlace
<1> QED
  BY <1>1, FS_Singleton

\* No medium drops, overwrites or duplicates a part between the moment its
\* child marks it as sent and the end of its round, however the children of the
\* round share the pipes, the slots and the queue.
THEOREM EachPartOnceHolds == Spec => []EachPartOnce
BY Invariance, PartsKept, PTL

-----------------------------------------------------------------------------
(* The refinement.                                                         *)

\* A count is in FIFO1 exactly while its round is pending.
LEMMA CountOfPending == Inv => (CountUnread <=> Pending)
<1> SUFFICES ASSUME Inv PROVE CountUnread <=> Pending
  OBVIOUS
<1> USE DEF Inv, Base
<1>1. PICK c \in Fifo : c = Fifo1
  BY DEF Fifo
<1>2. c \in Chan /\ OneChannelInv(c)
  BY <1>1 DEF Chan, ChannelInv
<1>3. ASSUME pc0 = "wait_ok", Pending PROVE CountUnread
  <2>1. Rest(c) = <<Count(n)>> /\ Writers(c) = {} /\ Count(n).kind = "count"
    BY <1>1, <1>3 DEF Rest, Writers, RoundInv, Count
  <2>2. \/ fifo[c] = <<Count(n)>>
        \/ \E p \in Parts : fifo[c] = <<p>> \o <<Count(n)>>
    <3>1. CASE Loaded(c)
      <4>1. PICK i \in Files, m \in Guards : Holds(c, Part(i, m))
        BY <1>2, <3>1 DEF OneChannelInv, LoadedInv, DueInv
      <4> QED
        BY <1>1, <2>1, <4>1, MessageKinds, GuardFacts DEF Holds
    <3>2. CASE ~Loaded(c)
      BY <1>1, <1>2, <2>1, <3>2 DEF OneChannelInv, FreeInv
    <3> QED
      BY <3>1, <3>2
  <2>3. CASE fifo[c] = <<Count(n)>>
    <3>1. 1 \in DOMAIN fifo[c] /\ fifo[c][1] = Count(n)
      BY <2>3
    <3> QED
      BY <1>1, <2>1, <3>1 DEF CountUnread
  <2>4. ASSUME NEW p \in Parts, fifo[c] = <<p>> \o <<Count(n)>> PROVE CountUnread
    <3>1. PICK S : S = Parts \cup {Count(n)}
      OBVIOUS
    <3>2. PICK q \in S : q = Count(n)
      BY <3>1
    <3>3. DOMAIN (<<p>> \o <<q>>) = {1, 2} /\ (<<p>> \o <<q>>)[2] = q
      BY <3>1, ShortPipe
    <3>4. 2 \in DOMAIN fifo[c] /\ fifo[c][2] = Count(n)
      BY <2>4, <3>2, <3>3
    <3> QED
      BY <1>1, <2>1, <3>4 DEF CountUnread
  <2> QED
    BY <2>2, <2>3, <2>4
<1>4. ASSUME ~Pending PROVE \A j \in DOMAIN fifo[c] : fifo[c][j].kind # "count"
  <2>1. Rest(c) = <<>>
    BY <1>4 DEF Rest
  <2>2. fifo[c] = <<>> \/ \E p \in Parts : fifo[c] = <<p>> \o <<>>
    <3>1. CASE Loaded(c)
      <4>1. PICK i \in Files, m \in Guards : Holds(c, Part(i, m))
        BY <1>2, <3>1 DEF OneChannelInv, LoadedInv, DueInv
      <4> QED
        BY <1>1, <2>1, <4>1, MessageKinds, GuardFacts DEF Holds
    <3>2. CASE ~Loaded(c) /\ \A i \in Writers(c) : pc[i] = "write"
      BY <1>1, <1>2, <2>1, <3>2 DEF OneChannelInv, FreeInv
    <3>3. ASSUME ~Loaded(c), NEW i \in Writers(c), pc[i] # "write"
          PROVE  \E p \in Parts : fifo[c] = <<p>> \o <<>>
      <4>1. Holds(c, Part(i, med[i])) /\ ~Taken(c)
        BY <1>2, <3>3 DEF OneChannelInv, FreeInv, Writers, Taken, ServerHolds
      <4>2. Part(i, med[i]) \in Parts
        BY MessageKinds DEF Writers, GateInv, TypeOK
      <4> QED
        BY <1>1, <2>1, <4>1, <4>2 DEF Holds
    <3> QED
      BY <3>1, <3>2, <3>3
  <2>3. CASE fifo[c] = <<>>
    BY <2>3, ShortPipe
  <2>4. ASSUME NEW p \in Parts, fifo[c] = <<p>> \o <<>>
        PROVE  \A j \in DOMAIN fifo[c] : fifo[c][j].kind # "count"
    <3>1. DOMAIN fifo[c] = {1} /\ fifo[c][1] = p
      BY <2>4, ShortPipe
    <3> QED
      BY <3>1, MessageKinds
  <2> QED
    BY <2>2, <2>3, <2>4
<1>5. pc0 \in ResetPC \cup {"send"} => CountUnread /\ Pending
  BY DEF CountUnread, Pending
<1>6. Pending /\ pc0 \notin ResetPC \cup {"send"} => pc0 = "wait_ok"
  BY DEF Pending
<1>7. CountUnread /\ pc0 \notin ResetPC \cup {"send"} =>
        \E j \in DOMAIN fifo[c] : fifo[c][j].kind = "count"
  BY <1>1 DEF CountUnread
<1> QED
  BY <1>3, <1>4, <1>5, <1>6, <1>7

\* The variables of Delivery, as far as a step changes them.
Arrived == {<<p.file, p.medium>> : p \in messages}
Written == {p \in Files \X Media : p[2] \in out[p[1]]}
Phase == IF Listening THEN "idle" ELSE IF spc = "finito" THEN "written" ELSE "serving"
Asked == IF Pending THEN n ELSE -1

LEMMA DeliveryVars ==
  ASSUME Inv, Inv'
  PROVE  /\ D!vars = <<Asked, filesCounter, Phase, Arrived, Written, Finitos>>
         /\ D!vars' = <<Asked', filesCounter', Phase', Arrived', Written', Finitos'>>
<1>1. (CountUnread <=> Pending) /\ (CountUnread' <=> Pending')
  BY CountOfPending, PTL
<1>2. (IF CountUnread THEN n ELSE -1) = Asked /\ (IF CountUnread THEN n ELSE -1)' = Asked'
  BY <1>1 DEF Asked
<1> QED
  BY <1>2 DEF D!vars, Phase, Arrived, Written

\* Steps of Client_0 other than a SIGINT, and steps of the children, are none
\* of the abstract round.
LEMMA QuietSteps ==
  ASSUME Inv, Inv', SigUsr1 \/ Client0 \/ \E i \in Files : Child(i)
  PROVE  UNCHANGED <<Asked, filesCounter, Phase, Arrived, Written, Finitos>>
<1> USE DEF Inv
<1>1. UNCHANGED <<n, rounds, server>> /\ (Pending' <=> Pending)
  <2>1. CASE \E i \in Files : Child(i)
    BY <2>1, ChildFrame
  <2>2. CASE SigUsr1 \/ Client0
    <3>1. UNCHANGED <<n, rounds, server>>
      BY <2>2 DEF SigUsr1, Client0, ResetGuards, ResetCounters, Reset, SendCount,
         SeeServerOk, ClearServerOk, Fork, ForkFails, ForksDone, SeeAllReady,
         ReleaseChildren, Reap, CloseRound
    <3>2. CASE ResetGuards \/ ResetCounters \/ SendCount
      <4>1. /\ pc0 \in ResetPC \cup {"send"} /\ serverOk' = serverOk
            /\ pc0' \in ResetPC \cup {"send"} \/ pc0' = "wait_ok"
        BY <3>2 DEF ResetGuards, ResetCounters, Reset, SendCount, ResetPC
      <4>2. Pending
        BY <4>1 DEF Pending
      <4>3. serverOk' = 0 /\ spc' # "ack"
        BY <3>1, <4>1, <4>2 DEF RoundInv, server
      <4> QED
        BY <3>1, <4>1, <4>2, <4>3 DEF Pending
    <3>3. CASE SigUsr1 \/ SeeServerOk \/ ClearServerOk \/ Fork \/ ForkFails \/ ForksDone
                 \/ SeeAllReady \/ ReleaseChildren \/ Reap \/ CloseRound
      <4>1. /\ pc0 \notin ResetPC \cup {"send"} /\ (pc0 = "wait_ok" => serverOk # 0)
            /\ pc0' \notin ResetPC \cup {"send", "wait_ok"}
        BY <3>3 DEF SigUsr1, SeeServerOk, ClearServerOk, Fork, ForkFails, ForksDone,
           SeeAllReady, ReleaseChildren, Reap, CloseRound, ResetPC
      <4> QED
        BY <3>1, <4>1 DEF Pending
    <3> QED
      BY <2>2, <3>1, <3>2, <3>3 DEF Client0
  <2> QED
    BY <2>1, <2>2
<1>2. Asked' = Asked
  BY <1>1 DEF Asked
<1>3. UNCHANGED <<filesCounter, Arrived, Written, Phase>> /\ (Listening' <=> Listening)
  BY <1>1 DEF Arrived, Written, Phase, Listening, server
<1>4. Finitos' = Finitos
  BY <1>1, <1>3 DEF FinitosInv
<1> QED
  BY <1>2, <1>3, <1>4

\* A step of the server that takes up, counts, writes and closes nothing.
LEMMA ServerQuiet ==
  ASSUME Inv, Inv', Server, ~ReadCount, UNCHANGED <<messages, out>>,
         (Listening' <=> Listening), spc # "finito", spc' # "finito"
  PROVE  UNCHANGED <<Asked, filesCounter, Phase, Arrived, Written, Finitos>>
<1>1. UNCHANGED <<n, rounds, filesCounter>> /\ (Pending' <=> Pending)
  BY ServerFrame
<1>2. Finitos' = Finitos
  BY <1>1 DEF Inv, FinitosInv
<1> QED
  BY <1>1, <1>2 DEF Asked, Phase, Arrived, Written

LEMMA StutterRefined ==
  ASSUME Inv, Inv', UNCHANGED <<Asked, filesCounter, Phase, Arrived, Written, Finitos>>
  PROVE  UNCHANGED D!vars
BY DeliveryVars

\* The variables of Delivery by their names here.
LEMMA DeliveryNames ==
  ASSUME Inv, Inv'
  PROVE  /\ \A k : D!Announce(k) <=>
              /\ Asked = -1 /\ Asked' = k
              /\ UNCHANGED <<filesCounter, Phase, Arrived, Written, Finitos>>
         /\ D!TakeUp <=>
              /\ Phase = "idle" /\ Asked # -1
              /\ filesCounter' = Asked /\ Asked' = -1 /\ Phase' = "serving"
              /\ Arrived' = {} /\ Written' = {} /\ Finitos' = Finitos
         /\ \A p : D!Arrive(p) <=>
              /\ Phase = "serving" /\ p \in D!PartsOf(filesCounter) \ Arrived
              /\ Arrived' = Arrived \cup {p}
              /\ UNCHANGED <<Asked, filesCounter, Phase, Written, Finitos>>
         /\ D!Write <=>
              /\ Phase = "serving" /\ Arrived = D!PartsOf(filesCounter)
              /\ Written' = D!PartsOf(filesCounter) /\ Phase' = "written"
              /\ UNCHANGED <<Asked, filesCounter, Arrived, Finitos>>
         /\ D!Close <=>
              /\ Phase = "written" /\ Phase' = "idle" /\ Finitos' = Finitos + 1
              /\ UNCHANGED <<Asked, filesCounter, Arrived, Written>>
<1>1. (CountUnread <=> Pending) /\ (CountUnread' <=> Pending')
  BY CountOfPending, PTL
<1>2. (IF CountUnread THEN n ELSE -1) = Asked /\ (IF CountUnread THEN n ELSE -1)' = Asked'
  BY <1>1 DEF Asked
<1> QED
  BY <1>2 DEF D!Announce, D!TakeUp, D!Arrive, D!Write, D!Close, Phase, Arrived, Written

LEMMA SigIntRefined ==
  ASSUME Inv, Inv', NEW k \in 0..MaxFiles, SigInt(k)
  PROVE  D!Announce(k)
<1>1. /\ pc0 = "sleep" /\ pc0' = "init_fifo1" /\ n' = k /\ UNCHANGED <<server, msgq>>
  BY DEF SigInt, ipc
<1>2. ~Pending /\ Pending'
  BY <1>1 DEF Pending, ResetPC
<1>3. Asked = -1 /\ Asked' = k
  BY <1>1, <1>2 DEF Asked
<1>4. UNCHANGED <<filesCounter, Phase, Arrived, Written, Finitos>>
  BY <1>1 DEF Phase, Arrived, Written, Finitos, Listening, server
<1> QED
  BY <1>3, <1>4, DeliveryNames

LEMMA TakeUpRefined ==
  ASSUME Inv, Inv', ReadCount
  PROVE  D!TakeUp
<1> USE DEF Inv
<1>1. /\ spc = "count" /\ spc' = "ack" /\ fifo[Fifo1] # <<>> /\ messages' = {}
      /\ out' = [i \in Files |-> {}] /\ UNCHANGED <<pc0, n, rounds>>
  BY DEF ReadCount, client
<1>2. Listening /\ ~Listening'
  BY <1>1 DEF Listening
<1>3. Pending /\ pc0 = "wait_ok"
  BY <1>1, <1>2, ServerListens DEF Rest, Fifo
<1>4. ~Pending'
  BY <1>1, <1>3 DEF Pending, ResetPC
<1>5. Phase = "idle" /\ Phase' = "serving"
  BY <1>1, <1>2 DEF Phase
<1>6. Asked = n /\ Asked # -1 /\ Asked' = -1 /\ filesCounter' = n
  BY <1>1, <1>3, <1>4, ConstantsAssumption DEF Asked, RoundInv, Base, GateInv, TypeOK
<1>7. Arrived' = {} /\ Written' = {}
  BY <1>1 DEF Arrived, Written
<1>8. Finitos' = Finitos
  <2>1. rounds \in Nat
    BY DEF Base, GateInv, TypeOK
  <2>2. Finitos = rounds - 1 /\ Finitos' = rounds' - 1
    BY <1>1, <1>2, <1>3, <1>4, <2>1 DEF FinitosInv
  <2> QED
    BY <1>1, <2>2
<1> QED
  BY <1>5, <1>6, <1>7, <1>8, DeliveryNames

\* A part that the server counts is one of the round's, and new.
LEMMA ArriveRefined ==
  ASSUME Inv, Inv', Server, ~ReadCount, Accept, UNCHANGED out,
         NEW i \in Files, NEW m \in Media, hand = Part(i, m), Due(i, m),
         spc \in {"post", "mqpost"}, spc' \in {"poll", "msgrcv", "snap", "read", "write"}
  PROVE  \E p \in D!PartsOf(filesCounter) : D!Arrive(p)
<1> USE DEF Inv
<1>1. UNCHANGED <<n, rounds, filesCounter>> /\ (Pending' <=> Pending)
  BY ServerFrame
<1>2. ~Listening /\ ~Listening' /\ Phase = "serving" /\ Phase' = "serving"
  BY DEF Listening, Phase
<1>3. Finitos' = Finitos /\ Asked' = Asked /\ Written' = Written
  BY <1>1, <1>2 DEF FinitosInv, Asked, Written
<1>4. PICK p : p = <<i, m>>
  OBVIOUS
<1>5. p \in D!PartsOf(filesCounter)
  BY <1>4, CountFacts DEF D!PartsOf, Due, Handed, Files, Media
<1>6. p \notin Arrived
  <2> SUFFICES ASSUME NEW x \in messages, <<x.file, x.medium>> = p PROVE FALSE
    BY DEF Arrived
  <2>1. PICK j \in Files, l \in Media : x = Part(j, l)
    BY DEF CountInv
  <2>2. j = i /\ l = m
    BY <1>4, <2>1, PartFacts
  <2> QED
    BY <2>1, <2>2 DEF Due
<1>7. Arrived' = Arrived \cup {p}
  BY <1>4, PartFacts DEF Accept, Arrived
<1>8. D!Arrive(p)
  BY <1>1, <1>2, <1>3, <1>5, <1>6, <1>7, DeliveryNames
<1> QED
  BY <1>5, <1>8

LEMMA WriteRefined ==
  ASSUME Inv, Inv', WriteOutputs
  PROVE  D!Write
<1> USE DEF Inv
<1>1. /\ spc = "write" /\ spc' = "finito" /\ messages = Served
      /\ UNCHANGED <<filesCounter, messages, msgq>>
      /\ filesCounter \in Nat /\ filesCounter <= MaxFiles /\ MaxFiles \in Nat
  BY ConstantsAssumption DEF WriteOutputs, CountInv, ipc, Base, GateInv, TypeOK
<1>2. Server /\ ~ReadCount
  BY <1>1 DEF Server, ReadCount
<1>3. Asked' = Asked
  BY <1>2, ServerFrame DEF Asked
<1>4. Phase = "serving" /\ Phase' = "written"
  BY <1>1 DEF Phase, Listening
<1>5. Arrived = D!PartsOf(filesCounter) /\ Arrived' = Arrived
  <2>1. \A i \in 0..(filesCounter - 1), m \in Media : <<i, m>> \in Arrived
    <3> SUFFICES ASSUME NEW i \in 0..(filesCounter - 1), NEW m \in Media
                 PROVE  <<i, m>> \in Arrived
      OBVIOUS
    <3>1. Part(i, m) \in messages /\ Part(i, m).file = i /\ Part(i, m).medium = m
      BY <1>1, PartFacts DEF Served
    <3> QED
      BY <3>1 DEF Arrived
  <2>2. \A x \in Arrived : \E i \in 0..(filesCounter - 1), m \in Media : x = <<i, m>>
    BY <1>1, PartFacts DEF Arrived, Served
  <2>3. D!PartsOf(filesCounter) = (0..(filesCounter - 1)) \X Media
    BY DEF D!PartsOf, Media
  <2>4. Arrived = (0..(filesCounter - 1)) \X Media
    BY <2>1, <2>2
  <2> QED
    BY <1>1, <2>3, <2>4 DEF Arrived
<1>6. Written' = D!PartsOf(filesCounter)
  <2>1. out' = [i \in Files |-> IF i < filesCounter THEN Media ELSE {}]
    BY <1>1 DEF OutInv
  <2>2. Written' = {p \in Files \X Media : p[1] < filesCounter}
    BY <2>1 DEF Written
  <2> QED
    BY <1>1, <2>2 DEF D!PartsOf, Media, Files
<1>7. Finitos' = Finitos
  BY <1>1 DEF Finitos
<1> QED
  BY <1>1, <1>3, <1>4, <1>5, <1>6, <1>7, DeliveryNames

LEMMA CloseRefined ==
  ASSUME Inv, Inv', SendFinito
  PROVE  D!Close
<1> USE DEF Inv
<1>1. spc = "finito" /\ spc' = "count" /\ UNCHANGED <<messages, out>>
  BY DEF SendFinito
<1>2. Server /\ ~ReadCount
  BY <1>1 DEF Server, ReadCount
<1>3. UNCHANGED <<n, rounds, filesCounter>> /\ (Pending' <=> Pending)
  BY <1>2, ServerFrame
<1>4. Phase = "written" /\ Phase' = "idle" /\ ~Listening /\ Listening'
  BY <1>1 DEF Phase, Listening
<1>5. UNCHANGED <<Asked, Arrived, Written>>
  BY <1>1, <1>3 DEF Asked, Arrived, Written
<1>6. Finitos' = Finitos + 1
  <2>1. rounds \in Nat
    BY DEF Base, GateInv, TypeOK
  <2> QED
    BY <1>3, <1>4, <2>1 DEF FinitosInv
<1> QED
  BY <1>3, <1>4, <1>5, <1>6, DeliveryNames

LEMMA ServerRefined ==
  ASSUME Inv, Inv', Server
  PROVE  D!Next \/ UNCHANGED D!vars
<1>1. CASE ReadCount
  BY <1>1, TakeUpRefined DEF D!Next
<1>2. CASE WriteOutputs
  BY <1>2, WriteRefined DEF D!Next
<1>3. CASE SendFinito
  BY <1>3, CloseRefined DEF D!Next
<1>4. CASE SrvPostFifo \/ SrvPostShm
  <2>1. Server /\ ~ReadCount
    BY <1>4, ServerPosts DEF ReadCount
  <2>2. PICK i \in Files, m \in Guards : hand = Part(i, m) /\ Due(i, m)
    BY <1>4, ServerPosts, ServerHas
  <2>3. m \in Media
    BY GuardFacts
  <2> QED
    BY <1>4, <2>1, <2>2, <2>3, ServerPosts, ArriveRefined DEF D!Next
<1>5. CASE SrvPostQueue
  <2>1. /\ spc = "mqpost" /\ spc' = "snap" /\ Accept /\ UNCHANGED out /\ ~ReadCount
    BY <1>5 DEF SrvPostQueue, ReadCount
  <2>2. PICK i \in Files : hand = Part(i, MEDIA_MSGQUEUE) /\ Due(i, MEDIA_MSGQUEUE)
    BY <2>1 DEF Inv, QueueInv
  <2> QED
    BY <2>1, <2>2, GuardFacts, ArriveRefined DEF D!Next
<1>6. CASE SrvStart \/ SetServerOk \/ SrvPollFifo \/ SrvReadFifo \/ SrvReceive
             \/ SrvSnapshot \/ SrvReadShm
  <2>1. /\ UNCHANGED <<messages, out>> /\ (Listening' <=> Listening)
        /\ spc # "finito" /\ spc' # "finito" /\ ~ReadCount
    BY <1>6 DEF SrvStart, SetServerOk, SrvPollFifo, SrvReadFifo, SrvReceive,
       SrvSnapshot, SrvReadShm, ReadCount, LoopTest, NextSlot, AfterFifo, Listening
  <2> QED
    BY <2>1, ServerQuiet, StutterRefined
<1> QED
  BY <1>1, <1>2, <1>3, <1>4, <1>5, <1>6 DEF Server

LEMMA InitRefined == Init => D!Init
<1> SUFFICES ASSUME Init PROVE D!Init
  OBVIOUS
<1>1. Inv
  BY InvInit
<1>2. ~Pending /\ Listening /\ rounds = 0
  BY DEF Init, Pending, ResetPC, Listening
<1>3. ~CountUnread
  BY <1>1, <1>2, CountOfPending
<1>4. Finitos = 0
  <2>1. Finitos = rounds - (IF Pending THEN 1 ELSE 0) - (IF Listening THEN 0 ELSE 1)
    BY <1>1 DEF Inv, FinitosInv
  <2>2. (IF Pending THEN 1 ELSE 0) = 0 /\ (IF Listening THEN 0 ELSE 1) = 0
    BY <1>2
  <2>3. 0 = 0 - 0 - 0
    OBVIOUS
  <2> QED
    BY <1>2, <2>1, <2>2, <2>3, Zenon
<1> QED
  BY <1>2, <1>3, <1>4 DEF Init, D!Init

\* The server works on the announced number of files, every part arrives once
\* and while its own round is served, and the outputs are written from all of
\* them: the protocol implements Delivery for every number of files and rounds.
THEOREM Refinement == Spec => ImplementsDelivery
<1>1. ASSUME Inv, Inv', [Next]_vars PROVE [D!Next]_(D!vars)
  <2>1. CASE UNCHANGED vars
    <3>1. UNCHANGED <<n, pc0, spc, serverOk, filesCounter, messages, out, msgq>>
      BY <2>1 DEF vars, ipc, client, server
    <3>2. UNCHANGED <<Asked, filesCounter, Phase, Arrived, Written, Finitos>>
      BY <3>1 DEF Asked, Pending, Phase, Listening, Arrived, Written, Finitos
    <3> QED
      BY <1>1, <3>2, StutterRefined
  <2>2. ASSUME NEW k \in 0..MaxFiles, SigInt(k) PROVE D!Next
    BY <1>1, <2>2, SigIntRefined DEF D!Next
  <2>3. CASE SigUsr1 \/ Client0 \/ \E i \in Files : Child(i)
    BY <1>1, <2>3, QuietSteps, StutterRefined
  <2>4. CASE Server
    BY <1>1, <2>4, ServerRefined
  <2> QED
    BY <1>1, <2>1, <2>2, <2>3, <2>4 DEF Next, Quiescent
<1> QED
  BY <1>1, InitRefined, Invariance, PTL DEF Spec, ImplementsDelivery, D!Spec
=============================================================================
