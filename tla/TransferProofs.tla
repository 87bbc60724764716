--------------------------- MODULE TransferProofs ---------------------------
(***************************************************************************)
(* Proofs about Transfer for every number of files, slots, queue units and *)
(* rounds, with and without failing forks: types, the gate, and then the   *)
(* inductive invariant: who owns a channel, where every part is and which  *)
(* round the server works on, in every reachable state.                    *)
(***************************************************************************)
EXTENDS Transfer, SequenceTheorems, FiniteSetTheorems, TLAPS

(* Messages and channels.                                                  *)

LEMMA ChanFacts ==
  /\ Fifo1 \in Chan /\ Fifo2 \in Chan /\ Fifo1 # Fifo2
  /\ \A k \in Slot : Shm(k) \in Chan \ Fifo /\ Shm(k)[2] = k
  /\ \A c \in Chan \ Fifo : c[2] \in Slot /\ c = Shm(c[2])
  /\ \A i \in Files : i % Slots \in Slot
  /\ \A i \in Files, m \in Media : ChanOf(i, m) \in Chan
BY ConstantsAssumption
   DEF Chan, Fifo, Fifo1, Fifo2, Shm, MEDIA_FIFO1, MEDIA_FIFO2, MEDIA_SHM,
       Slot, Files, Media, ChanOf

LEMMA MessageKinds ==
  /\ \A p \in Parts : p.kind = "part"
  /\ \A c \in Counts : c.kind = "count" /\ c.n \in 0..MaxFiles
  /\ Finito.kind = "finito" /\ NoMsg.kind = "none"
  /\ \A i \in Files, m \in Media : Part(i, m) \in Parts
BY DEF Parts, Counts, Part, Count, Finito, NoMsg

\* Without keeps a sequence over the same set.
LEMMA WithoutType ==
  ASSUME NEW S, NEW q \in Seq(S), NEW j \in DOMAIN q
  PROVE  Without(q, j) \in Seq(S)
<1>1. DOMAIN q = 1..Len(q) /\ Len(q) \in Nat /\ \A k \in 1..Len(q) : q[k] \in S
  BY LenProperties, ElementOfSeq
<1>2. SubSeq(q, 1, j - 1) \in Seq(S)
  BY <1>1, SubSeqProperties
<1>3. SubSeq(q, j + 1, Len(q)) \in Seq(S)
  BY <1>1, SubSeqProperties
<1> QED
  BY <1>2, <1>3, ConcatProperties DEF Without

-----------------------------------------------------------------------------
(* Types.                                                                  *)

LEMMA InitTypeOK == Init => TypeOK
<1> SUFFICES ASSUME Init PROVE TypeOK
  OBVIOUS
<1>1. MaxFiles \in Nat /\ MaxRounds \in Nat
  BY ConstantsAssumption
<1> QED
  BY <1>1, ChanFacts, EmptySeq
     DEF Init, TypeOK, ClientPC, ChildPC, ServerPC, Media, MEDIA_FIFO1

\* Client_0 keeps the types.
LEMMA ClientTypeOK ==
  ASSUME TypeOK, (\E k \in 0..MaxFiles : SigInt(k)) \/ SigUsr1 \/ Client0
  PROVE  TypeOK'
<1> USE ConstantsAssumption DEF TypeOK, ClientPC, ResetPC
<1>1. ASSUME NEW k \in 0..MaxFiles, SigInt(k) PROVE TypeOK'
  BY <1>1 DEF SigInt, ipc, server, ChildPC
<1>2. CASE SigUsr1
  BY <1>2 DEF SigUsr1, ipc, children, server
<1>3. CASE ResetGuards
  <2>1. \E from, to \in ClientPC : Reset(from, to)
    BY <1>3 DEF ResetGuards
  <2>2. PICK C \in {{Fifo1}, {Fifo2}, Chan \ Fifo} : SetFree(C)
    BY <1>3 DEF ResetGuards
  <2>3. /\ sem' \in [Chan -> Nat] /\ mqsem' \in Nat /\ clientSem' \in [0..1 -> Nat]
        /\ torn' \subseteq Chan
    BY <2>2, ChanFacts DEF SetFree
  <2> QED
    BY <2>1, <2>3 DEF Reset, children, server
<1>4. CASE ResetCounters
  <2>1. \E from, to \in ClientPC : Reset(from, to)
    BY <1>4 DEF ResetCounters
  <2>2. /\ sem' \in [Chan -> Nat] /\ mqsem' \in Nat /\ clientSem' \in [0..1 -> Nat]
        /\ torn' \subseteq Chan
    BY <1>4 DEF ResetCounters
  <2> QED
    BY <2>1, <2>2 DEF Reset, children, server
<1>5. CASE SendCount
  <2>1. Count(n) \in Counts
    BY DEF Counts
  <2>2. fifo' \in [Fifo -> Seq(Parts \cup Counts)]
    BY <1>5, <2>1, AppendProperties DEF SendCount, Fifo
  <2> QED
    BY <1>5, <2>2 DEF SendCount, children, server
<1>6. CASE SeeServerOk
  BY <1>6 DEF SeeServerOk, ipc, children, server
<1>7. CASE ClearServerOk
  BY <1>7 DEF ClearServerOk, children, server
<1>8. CASE Fork
  BY <1>8 DEF Fork, ipc, server, Files, ChildPC, Media, MEDIA_FIFO1
<1>9. CASE ForkFails
  BY <1>9 DEF ForkFails, ipc, children, server
<1>10. CASE ForksDone
  BY <1>10 DEF ForksDone, ipc, children, server
<1>11. CASE SeeAllReady
  BY <1>11 DEF SeeAllReady, ipc, children, server
<1>12. CASE ReleaseChildren
  BY <1>12 DEF ReleaseChildren, children, server
<1>13. CASE Reap
  BY <1>13 DEF Reap, ipc, children, server
<1>14. CASE CloseRound
  BY <1>14 DEF CloseRound, ipc, children, server
<1> QED
  BY <1>1, <1>2, <1>3, <1>4, <1>5, <1>6, <1>7, <1>8, <1>9, <1>10, <1>11,
     <1>12, <1>13, <1>14 DEF Client0

LEMMA AdvanceType ==
  ASSUME NEW i \in Files, NEW s \in SUBSET Media, Advance(i, s),
         pc \in [Files -> ChildPC], med \in [Files -> Media],
         sent \in [Files -> SUBSET Media]
  PROVE  /\ pc' \in [Files -> ChildPC] /\ med' \in [Files -> Media]
         /\ sent' \in [Files -> SUBSET Media]
<1>1. med[i] \in 0..3
  BY DEF Media
<1>2. (med[i] + 1) % 4 \in Media
  BY <1>1 DEF Media
<1> QED
  BY <1>2 DEF Advance, ChildPC

\* Child i keeps the types.
LEMMA ChildTypeOK ==
  ASSUME TypeOK, NEW i \in Files, Child(i)
  PROVE  TypeOK'
<1> USE ConstantsAssumption DEF TypeOK, ChildPC
<1>1. CASE Load(i)
  BY <1>1 DEF Load, ipc, client, server
<1>2. CASE Ready(i)
  BY <1>2 DEF Ready, client, server
<1>3. CASE Go(i)
  BY <1>3 DEF Go, client, server
<1>4. ASSUME NEW s \in SUBSET Media, Advance(i, s)
      PROVE  /\ pc' \in [Files -> ChildPC] /\ med' \in [Files -> Media]
             /\ sent' \in [Files -> SUBSET Media]
  BY <1>4, AdvanceType
<1>5. Marked(i) \in SUBSET Media
  BY DEF Marked
<1>6. CASE Poll(i)
  <2>1. CASE pc' = [pc EXCEPT ![i] = "lock"] /\ UNCHANGED <<med, sent>>
    BY <1>6, <2>1 DEF Poll, ipc, client, server
  <2>2. CASE Advance(i, sent[i])
    BY <1>6, <2>2, <1>4 DEF Poll, ipc, client, server
  <2> QED
    BY <1>6, <2>1, <2>2 DEF Poll
<1>7. CASE Lock(i)
  BY <1>7, ChanFacts DEF Lock, Take, client, server
<1>8. CASE LockQueue(i)
  BY <1>8 DEF LockQueue, client, server
<1>9. CASE WriteFifo(i)
  BY <1>9, MessageKinds, AppendProperties DEF WriteFifo, client, server
<1>10. CASE WriteShm(i)
  BY <1>10, MessageKinds, ChanFacts DEF WriteShm, client, server, Media, MEDIA_SHM
<1>11. CASE WriteQueue(i)
  BY <1>11, <1>4, <1>5, MessageKinds, AppendProperties
     DEF WriteQueue, client, server, Media, MEDIA_MSGQUEUE
<1>12. CASE Unlock(i)
  BY <1>12, <1>4, <1>5, ChanFacts DEF Unlock, Post, client, server
<1> QED
  BY <1>1, <1>2, <1>3, <1>6, <1>7, <1>8, <1>9, <1>10, <1>11, <1>12 DEF Child

\* The server keeps the types.
LEMMA ServerTypeOK ==
  ASSUME TypeOK, Server
  PROVE  TypeOK'
<1> USE ConstantsAssumption DEF TypeOK, ServerPC
<1>1. ASSUME NEW received, LoopTest(received)
      PROVE  spc' \in ServerPC /\ at' \in Chan
  BY <1>1, ChanFacts DEF LoopTest
<1>2. ASSUME AfterFifo(at)
      PROVE  spc' \in ServerPC /\ at' \in Chan
  BY <1>2, ChanFacts DEF AfterFifo
<1>3. ASSUME NEW s \in SUBSET Slot, NEW received, NextSlot(s, received)
      PROVE  spc' \in ServerPC /\ at' \in Chan /\ full' \in SUBSET Slot
  BY <1>1, <1>3, ChanFacts DEF NextSlot
<1>4. ASSUME Accept
      PROVE  /\ messages' \subseteq Parts \cup Counts \cup {NoMsg}
             /\ messagesReceived' \in Nat
             /\ hand' \in Parts \cup Counts \cup {NoMsg}
  BY <1>4 DEF Accept
<1>5. CASE SrvStart
  BY <1>5 DEF SrvStart, client, children
<1>6. CASE ReadCount
  BY <1>6, MessageKinds, ChanFacts, HeadTailProperties, SMTT(60)
     DEF ReadCount, client, children, Fifo
<1>7. CASE SetServerOk
  BY <1>7, <1>1 DEF SetServerOk, client, children
<1>8. CASE SrvPollFifo
  <2>1. CASE spc' = "read" /\ UNCHANGED at
    BY <1>8, <2>1 DEF SrvPollFifo, ipc, client, children
  <2>2. CASE AfterFifo(at)
    BY <1>8, <1>2, <2>2 DEF SrvPollFifo, ipc, client, children
  <2> QED
    BY <1>8, <2>1, <2>2 DEF SrvPollFifo
<1>9. CASE SrvReadFifo
  BY <1>9, HeadTailProperties DEF SrvReadFifo, client, children
<1>10. CASE SrvPostFifo
  BY <1>10, <1>2, <1>4 DEF SrvPostFifo, Post, client, children
<1>11. CASE SrvReceive
  <2>1. CASE spc' = "snap" /\ UNCHANGED <<msgq, hand>>
    BY <1>11, <2>1 DEF SrvReceive, client, children
  <2>2. ASSUME NEW j \in DOMAIN msgq,
               Oldest(msgq, "part", j), hand' = msgq[j],
               msgq' = Without(msgq, j), spc' = "mqpost"
        PROVE  TypeOK'
    <3>1. msgq[j] \in Parts
      BY <2>2, ElementOfSeq, LenProperties, MessageKinds DEF Oldest
    <3> QED
      BY <1>11, <2>2, <3>1, WithoutType DEF SrvReceive, client, children
  <2> QED
    BY <1>11, <2>1, <2>2 DEF SrvReceive
<1>12. CASE SrvPostQueue
  BY <1>12, <1>4 DEF SrvPostQueue, PostQueueSem, client, children
<1>13. CASE SrvSnapshot
  BY <1>13, <1>3 DEF SrvSnapshot, FullSlots, ipc, client, children
<1>14. CASE SrvReadShm
  BY <1>14, ChanFacts DEF SrvReadShm, ipc, client, children
<1>15. CASE SrvPostShm
  BY <1>15, <1>3, <1>4 DEF SrvPostShm, Post, client, children
<1>16. CASE WriteOutputs
  BY <1>16 DEF WriteOutputs, ipc, client, children
<1>17. CASE SendFinito
  BY <1>17, AppendProperties DEF SendFinito, client, children
<1> QED
  BY <1>5, <1>6, <1>7, <1>8, <1>9, <1>10, <1>11, <1>12, <1>13, <1>14, <1>15,
     <1>16, <1>17 DEF Server

\* Every variable keeps its type, whatever the order of the steps.
THEOREM TypeCorrect == Spec => []TypeOK
<1>1. Init => TypeOK
  BY InitTypeOK
<1>2. TypeOK /\ [Next]_vars => TypeOK'
  <2> SUFFICES ASSUME TypeOK, [Next]_vars PROVE TypeOK'
    OBVIOUS
  <2>1. CASE UNCHANGED vars
    BY <2>1 DEF TypeOK, vars, ipc, client, children, server
  <2> QED
    BY <2>1, ClientTypeOK, ChildTypeOK, ServerTypeOK DEF Next, Quiescent
<1> QED
  BY <1>1, <1>2, PTL DEF Spec

-----------------------------------------------------------------------------
(* The gate.  CLIENTSemId[0] counts the files of the round whose child has *)
(* not yet loaded its file, the ones without a child included.  Once the   *)
(* count is zero it stays so until the next SIGINT, and only then does     *)
(* Client_0 raise CLIENTSemId[1].                                          *)

Loading == {i \in 0..(n - 1) : pc[i] \in {"none", "load", "ready"}}

GateCount == pc0 \notin ResetPC => clientSem[0] = Cardinality(Loading)
GateOpened ==
  /\ pc0 \notin ResetPC /\ clientSem[1] > 0 => Loading = {}
  /\ pc0 = "release" => Loading = {}
Forked ==
  \A i \in Files :
    pc[i] # "none" =>
      /\ i < n
      /\ pc0 \notin ResetPC \cup {"send", "wait_ok", "clear_ok"}
      /\ pc0 = "fork" => i < forked

GateInv ==
  TypeOK /\ GateCount /\ GateOpened /\ Forked /\ BarrierHolds

LEMMA LoadingFinite ==
  ASSUME TypeOK
  PROVE  /\ IsFiniteSet(Loading) /\ Cardinality(Loading) \in Nat
         /\ Loading \subseteq Files
<1>1. n \in Nat /\ n <= MaxFiles
  BY ConstantsAssumption DEF TypeOK
<1>2. IsFiniteSet(0..(n - 1))
  BY <1>1, FS_Interval
<1>3. Loading \subseteq 0..(n - 1)
  BY DEF Loading
<1>4. 0..(n - 1) \subseteq Files
  BY <1>1, ConstantsAssumption DEF Files
<1>5. IsFiniteSet(Loading)
  BY <1>2, <1>3, FS_Subset
<1> QED
  BY <1>3, <1>4, <1>5, FS_CardinalityType

\* A step that changes none of what the gate is about.
LEMMA GateStutter ==
  ASSUME GateInv, TypeOK', UNCHANGED <<n, forked, clientSem, pc>>,
         UNCHANGED pc0 \/ (pc0 \notin ResetPC
                            /\ pc0' \notin ResetPC \cup
                                  {"send", "wait_ok", "clear_ok", "fork", "release"})
  PROVE  GateInv'
BY DEF GateInv, GateCount, GateOpened, Forked, BarrierHolds, Loading, Sending

\* A child that stays on one side of the gate.
LEMMA GateSameSide ==
  ASSUME GateInv, TypeOK', UNCHANGED <<n, forked, clientSem, pc0>>,
         NEW i \in Files, NEW p \in ChildPC, pc' = [pc EXCEPT ![i] = p],
         \/ pc[i] = "load" /\ p = "ready"
         \/ Sending(i) /\ p \in {"poll", "lock", "write", "unlock", "exited"}
  PROVE  GateInv'
<1>1. Loading' = Loading
  <2>1. \A j \in Files : pc'[j] \in {"none", "load", "ready"}
                          <=> pc[j] \in {"none", "load", "ready"}
    BY DEF GateInv, TypeOK, Sending
  <2>2. 0..(n - 1) \subseteq Files
    BY ConstantsAssumption DEF GateInv, TypeOK, Files
  <2> QED
    BY <2>1, <2>2 DEF Loading
<1>2. (\E j \in Files : Sending(j))' => \E j \in Files : Sending(j)
  BY DEF GateInv, TypeOK, Sending
<1>3. Forked'
  <2>1. pc[i] # "none"
    BY DEF Sending
  <2>2. \A j \in Files : pc'[j] # "none" => pc[j] # "none"
    BY <2>1 DEF GateInv, TypeOK
  <2> QED
    BY <2>2 DEF GateInv, Forked
<1>4. GateCount' /\ GateOpened'
  BY <1>1 DEF GateInv, GateCount, GateOpened
<1>5. BarrierHolds'
  BY <1>1, <1>2 DEF GateInv, BarrierHolds, Loading
<1> QED
  BY <1>3, <1>4, <1>5 DEF GateInv

LEMMA GateInit == Init => GateInv
<1> SUFFICES ASSUME Init PROVE GateInv
  OBVIOUS
<1>1. TypeOK
  BY InitTypeOK
<1>2. Loading = {}
  BY DEF Init, Loading
<1>3. Cardinality(Loading) = 0
  BY <1>2, FS_EmptySet
<1>4. GateCount /\ GateOpened /\ Forked
  BY <1>2, <1>3 DEF Init, GateCount, GateOpened, Forked
<1>5. BarrierHolds
  BY DEF Init, BarrierHolds, Sending
<1> QED
  BY <1>1, <1>4, <1>5 DEF GateInv

LEMMA GateClient ==
  ASSUME GateInv, TypeOK',
         (\E k \in 0..MaxFiles : SigInt(k)) \/ SigUsr1 \/ Client0
  PROVE  GateInv'
<1> USE DEF ResetPC
<1>1. ASSUME NEW k \in 0..MaxFiles, SigInt(k) PROVE GateInv'
  BY <1>1 DEF SigInt, ipc, GateInv, GateCount, GateOpened, Forked,
              BarrierHolds, Sending
<1>2. CASE SigUsr1
  BY <1>2, GateStutter DEF SigUsr1, ipc, children
<1>3. CASE ResetGuards
  BY <1>3 DEF ResetGuards, Reset, SetFree, children, GateInv, GateCount, GateOpened,
              Forked, BarrierHolds, Sending
<1>4. CASE ResetCounters
  <2>1. \A i \in Files : pc'[i] = "none"
    BY <1>4 DEF ResetCounters, Reset, children, GateInv, Forked
  <2>2. Forked' /\ BarrierHolds'
    BY <2>1 DEF Forked, BarrierHolds, Sending
  <2>3. CASE pc0' = "init_client"
    BY <1>4, <2>2, <2>3 DEF GateInv, GateCount, GateOpened
  <2>4. CASE pc0' = "send"
    <3>1. clientSem'[0] = n /\ clientSem'[1] = 0 /\ n' = n
      BY <1>4, <2>4 DEF ResetCounters, Reset, GateInv, TypeOK
    <3>2. n \in Nat /\ 0..(n - 1) \subseteq Files
      BY ConstantsAssumption DEF GateInv, TypeOK, Files
    <3>3. Loading' = 0..(n - 1)
      BY <2>1, <3>1, <3>2 DEF Loading
    <3>4. Cardinality(0..(n - 1)) = n
      BY <3>2, FS_Interval
    <3> QED
      BY <2>2, <2>4, <3>1, <3>3, <3>4 DEF GateInv, GateCount, GateOpened
  <2> QED
    BY <1>4, <2>3, <2>4 DEF ResetCounters, Reset
<1>5. CASE SendCount
  BY <1>5 DEF SendCount, children, server, GateInv, GateCount, GateOpened,
              Forked, BarrierHolds, Sending, Loading
<1>6. CASE SeeServerOk
  BY <1>6 DEF SeeServerOk, ipc, children, GateInv, GateCount, GateOpened,
              Forked, BarrierHolds, Sending, Loading
<1>7. CASE ClearServerOk
  BY <1>7 DEF ClearServerOk, children, GateInv, GateCount, GateOpened,
              Forked, BarrierHolds, Sending, Loading
<1>8. CASE Fork
  <2>1. forked \in Files /\ forked < n /\ pc[forked] = "none"
    BY <1>8, ConstantsAssumption DEF Fork, GateInv, TypeOK, Forked, Files
  <2>2. pc' = [pc EXCEPT ![forked] = "load"] /\ forked' = forked + 1
        /\ UNCHANGED <<n, clientSem, pc0>> /\ pc0 = "fork"
    BY <1>8 DEF Fork, ipc
  <2>3. Loading' = Loading
    <3>1. \A i \in Files : pc'[i] \in {"none", "load", "ready"}
                            <=> pc[i] \in {"none", "load", "ready"}
      BY <2>1, <2>2 DEF GateInv, TypeOK
    <3>2. 0..(n - 1) \subseteq Files
      BY ConstantsAssumption DEF GateInv, TypeOK, Files
    <3> QED
      BY <2>2, <3>1, <3>2 DEF Loading
  <2>4. GateCount' /\ GateOpened'
    BY <2>2, <2>3 DEF GateInv, GateCount, GateOpened
  <2>5. Forked'
    <3>1. \A i \in Files : pc'[i] # "none" => i = forked \/ pc[i] # "none"
      BY <2>1, <2>2 DEF GateInv, TypeOK
    <3>2. forked \in Int /\ Files \subseteq Int
      BY <2>1 DEF Files
    <3>3. \A i \in Files : pc[i] # "none" => i < n /\ i < forked
      BY <2>2 DEF GateInv, Forked
    <3>4. \A i \in Files : pc'[i] # "none" => i < n' /\ i < forked'
      BY <2>1, <2>2, <3>1, <3>2, <3>3
    <3> QED
      BY <2>2, <3>4 DEF Forked, ResetPC
  <2>6. \A i \in Files : Sending(i)' => Sending(i)
    BY <2>1, <2>2 DEF GateInv, TypeOK, Sending
  <2>7. BarrierHolds'
    BY <2>2, <2>3, <2>6 DEF GateInv, BarrierHolds, Loading
  <2> QED
    BY <2>4, <2>5, <2>7 DEF GateInv
<1>9. CASE ForkFails
  <2>1. UNCHANGED <<n, clientSem, pc, pc0>> /\ forked' = forked + 1
    BY <1>9 DEF ForkFails, ipc, children
  <2>2. GateCount' /\ GateOpened'
    BY <2>1 DEF GateInv, GateCount, GateOpened, Loading
  <2>3. Forked'
    <3>1. forked \in Int /\ Files \subseteq Int
      BY ConstantsAssumption DEF GateInv, TypeOK, Files
    <3>2. \A i \in Files : i < forked => i < forked'
      BY <2>1, <3>1
    <3> QED
      BY <2>1, <3>2 DEF GateInv, Forked
  <2>4. BarrierHolds'
    BY <2>1 DEF GateInv, BarrierHolds, Sending
  <2> QED
    BY <2>2, <2>3, <2>4 DEF GateInv
<1>10. CASE ForksDone
  BY <1>10, GateStutter DEF ForksDone, ipc, children
<1>11. CASE SeeAllReady
  <2>1. Loading = {}
    BY <1>11, LoadingFinite, FS_EmptySet
       DEF SeeAllReady, AllLoaded, GateInv, GateCount
  <2>2. Loading' = {}
    BY <1>11, <2>1 DEF SeeAllReady, children, Loading
  <2> QED
    BY <1>11, <2>1, <2>2 DEF SeeAllReady, ipc, children, GateInv, GateCount,
         GateOpened, Forked, BarrierHolds, Sending, Loading
<1>12. CASE ReleaseChildren
  <2>1. Loading = {} /\ Loading' = {}
    BY <1>12 DEF ReleaseChildren, children, GateInv, GateOpened, Loading
  <2>2. clientSem'[0] = clientSem[0]
    BY <1>12 DEF ReleaseChildren, GateInv, TypeOK
  <2> QED
    BY <1>12, <2>1, <2>2 DEF ReleaseChildren, children, GateInv, GateCount,
         GateOpened, Forked, BarrierHolds, Sending, Loading
<1>13. CASE Reap
  BY <1>13, GateStutter DEF Reap, ipc, children
<1>14. CASE CloseRound
  BY <1>14, GateStutter DEF CloseRound, ipc, children
<1> QED
  BY <1>1, <1>2, <1>3, <1>4, <1>5, <1>6, <1>7, <1>8, <1>9, <1>10, <1>11,
     <1>12, <1>13, <1>14 DEF Client0

LEMMA GateChild ==
  ASSUME GateInv, TypeOK', NEW i \in Files, Child(i)
  PROVE  GateInv'
<1>1. CASE Load(i)
  BY <1>1, GateSameSide DEF Load, ipc, client, ChildPC
<1>2. CASE Ready(i)
  <2>1. /\ pc[i] = "ready" /\ clientSem[0] >= 1
        /\ clientSem' = [clientSem EXCEPT ![0] = @ - 1]
        /\ pc' = [pc EXCEPT ![i] = "held"]
        /\ UNCHANGED <<n, forked, pc0>>
    BY <1>2 DEF Ready, client
  <2>2. i \in Loading /\ pc0 \notin ResetPC
    <3>1. i < n /\ pc0 \notin ResetPC
      BY <2>1 DEF GateInv, Forked
    <3>2. i \in Nat /\ n \in Nat
      BY ConstantsAssumption DEF GateInv, TypeOK, Files
    <3> QED
      BY <2>1, <3>1, <3>2 DEF Loading
  <2>3. Loading' = Loading \ {i}
    <3>1. \A j \in Files \ {i} : pc'[j] = pc[j]
      BY <2>1 DEF GateInv, TypeOK
    <3>2. pc'[i] = "held"
      BY <2>1 DEF GateInv, TypeOK
    <3>3. 0..(n - 1) \subseteq Files
      BY ConstantsAssumption DEF GateInv, TypeOK, Files
    <3> QED
      BY <2>1, <3>1, <3>2, <3>3 DEF Loading
  <2>4. Cardinality(Loading') = Cardinality(Loading) - 1
    BY <2>2, <2>3, LoadingFinite, FS_RemoveElement DEF GateInv
  <2>5. clientSem'[0] = clientSem[0] - 1 /\ clientSem'[1] = clientSem[1]
    BY <2>1 DEF GateInv, TypeOK
  <2>6. GateCount'
    BY <2>1, <2>2, <2>4, <2>5 DEF GateInv, GateCount
  <2>7. GateOpened'
    BY <2>1, <2>3, <2>5 DEF GateInv, GateOpened
  <2>8. Forked'
    BY <2>1 DEF GateInv, TypeOK, Forked
  <2>9. \A j \in Files : Sending(j)' => Sending(j)
    BY <2>1 DEF GateInv, TypeOK, Sending
  <2>10. BarrierHolds'
    BY <2>2, <2>9 DEF GateInv, BarrierHolds, Loading
  <2> QED
    BY <2>6, <2>7, <2>8, <2>10 DEF GateInv
<1>3. CASE Go(i)
  <2>1. /\ pc[i] = "held" /\ clientSem[1] >= 1
        /\ clientSem' = [clientSem EXCEPT ![1] = @ - 1]
        /\ pc' = [pc EXCEPT ![i] = "poll"]
        /\ UNCHANGED <<n, forked, pc0>>
    BY <1>3 DEF Go, client
  <2>2. pc0 \notin ResetPC /\ Loading = {}
    <3>1. clientSem[1] \in Nat /\ clientSem[1] > 0
      BY <2>1 DEF GateInv, TypeOK
    <3>2. pc0 \notin ResetPC
      BY <2>1 DEF GateInv, Forked
    <3> QED
      BY <3>1, <3>2 DEF GateInv, GateOpened
  <2>3. Loading' = {}
    <3>1. \A j \in Files : pc'[j] \in {"none", "load", "ready"}
                            => pc[j] \in {"none", "load", "ready"}
      BY <2>1 DEF GateInv, TypeOK
    <3>2. 0..(n - 1) \subseteq Files
      BY ConstantsAssumption DEF GateInv, TypeOK, Files
    <3> QED
      BY <2>1, <2>2, <3>1, <3>2 DEF Loading
  <2>4. clientSem'[0] = clientSem[0]
    BY <2>1 DEF GateInv, TypeOK
  <2>5. GateCount' /\ GateOpened'
    BY <2>1, <2>2, <2>3, <2>4 DEF GateInv, GateCount, GateOpened
  <2>6. Forked'
    BY <2>1 DEF GateInv, TypeOK, Forked
  <2>7. BarrierHolds'
    BY <2>3 DEF BarrierHolds, Loading
  <2> QED
    BY <2>5, <2>6, <2>7 DEF GateInv
<1>4. ASSUME NEW s, Advance(i, s), Sending(i),
             UNCHANGED <<n, forked, clientSem, pc0>>
      PROVE  GateInv'
  <2>1. PICK p \in {"exited", "poll"} : pc' = [pc EXCEPT ![i] = p]
    BY <1>4 DEF Advance
  <2> QED
    BY <1>4, <2>1, GateSameSide DEF ChildPC
<1>5. CASE Poll(i)
  <2>1. Sending(i) /\ UNCHANGED <<n, forked, clientSem, pc0>>
    BY <1>5 DEF Poll, Sending, ipc, client
  <2>2. CASE pc' = [pc EXCEPT ![i] = "lock"]
    BY <2>1, <2>2, GateSameSide DEF ChildPC
  <2>3. CASE Advance(i, sent[i])
    BY <1>4, <2>1, <2>3
  <2> QED
    BY <1>5, <2>2, <2>3 DEF Poll
<1>6. CASE Lock(i)
  BY <1>6, GateSameSide DEF Lock, client, Sending, ChildPC
<1>7. CASE LockQueue(i)
  BY <1>7, GateSameSide DEF LockQueue, client, Sending, ChildPC
<1>8. CASE WriteFifo(i)
  BY <1>8, GateSameSide DEF WriteFifo, client, Sending, ChildPC
<1>9. CASE WriteShm(i)
  BY <1>9, GateSameSide DEF WriteShm, client, Sending, ChildPC
<1>10. CASE WriteQueue(i)
  BY <1>10, <1>4 DEF WriteQueue, client, Sending
<1>11. CASE Unlock(i)
  BY <1>11, <1>4 DEF Unlock, client, Sending
<1> QED
  BY <1>1, <1>2, <1>3, <1>5, <1>6, <1>7, <1>8, <1>9, <1>10, <1>11 DEF Child

LEMMA GateServer ==
  ASSUME GateInv, TypeOK', Server
  PROVE  GateInv'
<1>1. UNCHANGED <<n, forked, clientSem, pc, pc0>>
  BY DEF Server, SrvStart, ReadCount, SetServerOk, SrvPollFifo, SrvReadFifo,
         SrvPostFifo, SrvReceive, SrvPostQueue, SrvSnapshot, SrvReadShm,
         SrvPostShm, WriteOutputs, SendFinito, ipc, client, children
<1> QED
  BY <1>1, GateStutter

\* No child of a round sends a part before every child of the round has loaded
\* its file, for every number of files, over every sequence of rounds, and
\* also when forks fail.
THEOREM Barrier == Spec => []BarrierHolds
<1>1. Init => GateInv
  BY GateInit
<1>2. GateInv /\ TypeOK' /\ [Next]_vars => GateInv'
  <2> SUFFICES ASSUME GateInv, TypeOK', [Next]_vars PROVE GateInv'
    OBVIOUS
  <2>1. CASE UNCHANGED vars
    BY <2>1, GateStutter DEF vars, ipc, client, children
  <2> QED
    BY <2>1, GateClient, GateChild, GateServer DEF Next, Quiescent
<1>3. GateInv => BarrierHolds
  BY DEF GateInv
<1> QED
  BY <1>1, <1>2, <1>3, TypeCorrect, PTL DEF Spec

-----------------------------------------------------------------------------
(* The round.                                                              *)

\* A round is announced and the server has not read its count.
Pending ==
  \/ pc0 \in ResetPC \cup {"send"}
  \/ pc0 = "wait_ok" /\ spc # "ack" /\ serverOk = 0

Held == {i \in Files : pc[i] = "held"}

\* What Client_0's control point says of its children and of the gate.
PhaseInv ==
  /\ pc0 \in {"release", "reap", "recv", "sleep", "exited"} => Loading = {}
  /\ clientSem[1] = IF pc0 = "reap" THEN Cardinality(Held) ELSE 0
  /\ \A i \in Files :
       /\ Alive(i) => pc0 \in {"fork", "gate", "release", "reap"}
       /\ Sending(i) => pc0 \in {"reap", "recv", "sleep", "exited"}

\* A child marks a medium once, after it has used it.
ChildInv ==
  \A i \in Files :
    /\ pc[i] \in {"load", "ready", "held"} => sent[i] = {}
    /\ pc[i] \in {"lock", "write", "unlock"} => med[i] \notin sent[i]
    /\ pc[i] = "unlock" => med[i] # MEDIA_MSGQUEUE
    /\ pc[i] = "exited" => sent[i] = Media

\* The server and Client_0 agree on the round.
RoundInv ==
  /\ Pending =>
       /\ serverOk = 0 /\ spc # "ack"
       /\ \A i \in Files : pc[i] = "none"
       /\ \A i \in Files : i < filesCounter => sent[i] = Media
  /\ ~Pending => filesCounter = n
  /\ spc = "ack" => pc0 = "wait_ok" /\ serverOk = 0 /\ messages = {}
  /\ spc = "start" => serverOk = 0
  /\ serverOk = 1 => pc0 \in {"wait_ok", "clear_ok"}
  /\ rounds = 0 => pc0 \in {"sleep", "exited"}

-----------------------------------------------------------------------------
(* The parts.                                                              *)

\* Part m of file i of the round in service is marked as sent.
Handed(i, m) ==
  i < filesCounter /\ (Pending \/ pc[i] # "none") /\ m \in sent[i]

\* A part the server has still to count.
Due(i, m) == Handed(i, m) /\ Part(i, m) \notin messages

Served == {Part(i, m) : i \in 0..(filesCounter - 1), m \in Media}

CountInv ==
  /\ \A p \in messages : \E i \in Files, m \in Media : p = Part(i, m) /\ Handed(i, m)
  /\ messagesReceived = Cardinality(messages)
  /\ spc \in {"start", "count", "write", "finito"} => messages = Served

ServerInv ==
  /\ at \notin Fifo => spc \in {"read", "post"} /\ at[2] \in full
  /\ full # {} => at \notin Fifo
  /\ hand # NoMsg <=> spc \in {"post", "mqpost"}

-----------------------------------------------------------------------------
(* The guarded channels.                                                   *)

\* The resets of the round have not reached channel c.
NotReset(c) ==
  \/ pc0 = "init_fifo1"
  \/ pc0 = "init_fifo2" /\ c # Fifo1
  \/ pc0 = "init_shm" /\ c \notin Fifo

\* A part is in channel c for the server.
Loaded(c) == sem[c] = 1 \/ (sem[c] = 2 /\ c \in torn)
\* The server has taken it and not yet posted.
Taken(c) == spc = "post" /\ at = c

\* What follows the parts in a pipe: the count of a pending round.
Rest(c) == IF c = Fifo1 /\ pc0 = "wait_ok" /\ Pending THEN <<Count(n)>> ELSE <<>>

Holds(c, p) ==
  IF c \in Fifo THEN fifo[c] = (IF Taken(c) THEN Rest(c) ELSE <<p>> \o Rest(c))
                ELSE shm[c[2]] = p

Guards == Media \ {MEDIA_MSGQUEUE}

SemInv(c) ==
  /\ sem[c] \in 0..3
  /\ \A i, j \in Writers(c) : i = j
  /\ Writers(c) # {} => sem[c] = 0
  /\ sem[c] = 0 => \/ Writers(c) # {}
                   \/ rounds = 0
                   \/ rounds = 1 /\ NotReset(c)
  /\ rounds = 0 => sem[c] = 0
  /\ sem[c] = 3 => c \in torn
  /\ c \in torn => sem[c] \in {2, 3}
  /\ c \in torn /\ sem[c] = 2 => Pending /\ ~NotReset(c)

\* A loaded channel holds a part that is due.
LoadedInv(c) ==
  Loaded(c) => \E i \in Files, m \in Guards : ChanOf(i, m) = c /\ Due(i, m)

\* A part that is due on the channel is in it, or in the server's hand.
DueInv(c) ==
  \A i \in Files, m \in Guards :
    ChanOf(i, m) = c /\ Due(i, m) =>
      Loaded(c) /\ Holds(c, Part(i, m)) /\ (Taken(c) => hand = Part(i, m))

\* The server leaves any other channel alone, and the channel is empty unless
\* a child has written its part and not yet posted.
FreeInv(c) ==
  ~Loaded(c) =>
    /\ ~ServerHolds(c) /\ (c \notin Fifo => c[2] \notin full)
    /\ \A i \in Writers(c) : pc[i] = "unlock" => Holds(c, Part(i, med[i]))
    /\ c \in Fifo /\ (\A i \in Writers(c) : pc[i] = "write") => fifo[c] = Rest(c)

OneChannelInv(c) == SemInv(c) /\ LoadedInv(c) /\ DueInv(c) /\ FreeInv(c)
ChannelInv == \A c \in Chan : OneChannelInv(c)

\* No child of a round uses a channel that its SIGINT has torn.
TornInv ==
  \A i \in Files, m \in Guards :
    /\ pc[i] # "none" /\ m \in sent[i] => ChanOf(i, m) \notin torn
    /\ pc[i] \in {"lock", "write", "unlock"} /\ m = med[i] => ChanOf(i, m) \notin torn

-----------------------------------------------------------------------------
(* The queue.                                                              *)

InQueue(p) == \E j \in DOMAIN msgq : msgq[j] = p

QueueInv ==
  /\ \A i \in Files :
       Due(i, MEDIA_MSGQUEUE) <=>
         \/ InQueue(Part(i, MEDIA_MSGQUEUE))
         \/ spc = "mqpost" /\ hand = Part(i, MEDIA_MSGQUEUE)
  /\ \A j \in DOMAIN msgq :
       msgq[j] # Finito => msgq[j] \in {Part(i, MEDIA_MSGQUEUE) : i \in Files}
  /\ \A j, k \in DOMAIN msgq : msgq[j] = msgq[k] /\ msgq[j] # Finito => j = k
  /\ spc = "mqpost" =>
       /\ hand \in {Part(i, MEDIA_MSGQUEUE) : i \in Files}
       /\ ~InQueue(hand)

\* Units of the queue's semaphore that are out.
Units == {i \in Files : \/ pc[i] = "write" /\ med[i] = MEDIA_MSGQUEUE
                        \/ Due(i, MEDIA_MSGQUEUE)}
UnitsInv ==
  \/ rounds = 0
  \/ pc0 \in ResetPC \ {"init_client"}
  \/ mqsem + Cardinality(Units) >= MsgQueueInit

\* Closing messages.
FinitosInv ==
  /\ Finitos = rounds - (IF Pending THEN 1 ELSE 0) - (IF Listening THEN 0 ELSE 1)
  /\ \A i \in Files : ~Listening /\ Handed(i, MEDIA_MSGQUEUE) => Finitos < MsgQueueCap

OutInv ==
  out = [i \in Files |->
          IF spc \in {"finito", "start", "count"} /\ i < filesCounter
          THEN Media ELSE {}]

\* What the children and Client_0 keep by themselves, and the rest.
Base == GateInv /\ PhaseInv /\ ChildInv
Inv ==
  /\ Base /\ RoundInv /\ CountInv /\ ServerInv /\ ChannelInv /\ TornInv
  /\ QueueInv /\ UnitsInv /\ FinitosInv /\ OutInv

-----------------------------------------------------------------------------
(* The phases of Client_0 and of its children.                             *)

\* Client_0 keeps the phases.
LEMMA PhaseClient ==
  ASSUME GateInv, GateInv', PhaseInv,
         (\E k \in 0..MaxFiles : SigInt(k)) \/ SigUsr1 \/ Client0
  PROVE  PhaseInv'
<1> USE DEF PhaseInv, ResetPC
<1>1. ASSUME UNCHANGED <<n, pc, clientSem>>,
             \/ pc0 \in ResetPC \cup {"send", "wait_ok", "clear_ok"}
                 /\ pc0' \in ResetPC \cup {"send", "wait_ok", "clear_ok", "fork"}
             \/ pc0 = "fork" /\ pc0' = "gate"
             \/ pc0 = "gate" /\ pc0' = "release" /\ Loading = {}
             \/ pc0 \in {"recv", "sleep"} /\ pc0' \in {"recv", "sleep", "exited"}
      PROVE  PhaseInv'
  BY <1>1 DEF Alive, Sending, Loading
<1>2. ASSUME NEW k \in 0..MaxFiles, SigInt(k) PROVE PhaseInv'
  BY <1>2 DEF SigInt, ipc, Alive, Sending
<1>3. CASE SigUsr1
  BY <1>1, <1>3 DEF SigUsr1, ipc, children
<1>4. CASE ResetGuards
  BY <1>1, <1>4 DEF ResetGuards, Reset, SetFree, children
<1>5. CASE ResetCounters
  <2>1. CASE pc0' = "init_client"
    BY <1>1, <1>5, <2>1 DEF ResetCounters, Reset, children
  <2>2. CASE pc0' = "send"
    <3>1. clientSem'[1] = 0
      BY <1>5, <2>2 DEF ResetCounters, Reset, GateInv, TypeOK
    <3> QED
      BY <1>5, <2>2, <3>1 DEF ResetCounters, Reset, children, Alive, Sending
  <2> QED
    BY <1>5, <2>1, <2>2 DEF ResetCounters, Reset
<1>6. CASE SendCount
  BY <1>1, <1>6 DEF SendCount, children
<1>7. CASE SeeServerOk
  BY <1>1, <1>7 DEF SeeServerOk, ipc, children
<1>8. CASE ClearServerOk
  BY <1>1, <1>8 DEF ClearServerOk, children
<1>9. CASE Fork
  <2>1. forked \in Files
    BY <1>9, ConstantsAssumption DEF Fork, GateInv, TypeOK, Files
  <2>2. \A i \in Files : pc'[i] = pc[i] \/ pc'[i] = "load"
    BY <1>9, <2>1 DEF Fork, GateInv, TypeOK
  <2> QED
    BY <1>9, <2>2 DEF Fork, ipc, Alive, Sending
<1>10. CASE ForkFails
  BY <1>10 DEF ForkFails, ipc, children, Alive, Sending
<1>11. CASE ForksDone
  BY <1>1, <1>11 DEF ForksDone, ipc, children
<1>12. CASE SeeAllReady
  <2>1. Loading = {}
    BY <1>12, LoadingFinite, FS_EmptySet
       DEF SeeAllReady, AllLoaded, GateInv, GateCount
  <2> QED
    BY <1>1, <1>12, <2>1 DEF SeeAllReady, ipc, children
<1>13. CASE ReleaseChildren
  <2>1. Loading = {} /\ clientSem[1] = 0 /\ n \in Nat
    BY <1>13, ConstantsAssumption DEF ReleaseChildren, GateInv, TypeOK
  <2>2. clientSem'[1] = n
    BY <1>13, <2>1 DEF ReleaseChildren, GateInv, TypeOK
  <2>3. Held' = 0..(n - 1)
    <3>1. 0..(n - 1) \subseteq Files
      BY ConstantsAssumption DEF GateInv, TypeOK, Files
    <3>2. \A i \in Files : pc[i] = "held" => i \in 0..(n - 1)
      BY <2>1 DEF GateInv, Forked, Files
    <3>3. \A i \in 0..(n - 1) : pc[i] = "held"
      BY <1>13, <2>1, <3>1
         DEF ReleaseChildren, Loading, GateInv, TypeOK, ChildPC, Sending
    <3> QED
      BY <1>13, <3>1, <3>2, <3>3 DEF ReleaseChildren, children, Held
  <2>4. Cardinality(Held') = n
    BY <2>1, <2>3, FS_Interval
  <2>5. Loading' = {}
    BY <1>13, <2>1 DEF ReleaseChildren, children, Loading
  <2> QED
    BY <1>13, <2>2, <2>4, <2>5 DEF ReleaseChildren, children, Alive, Sending
<1>14. CASE Reap
  <2>1. Held = {}
    BY <1>14 DEF Reap, Held, Alive
  <2>2. clientSem[1] = 0
    BY <1>14, <2>1, FS_EmptySet DEF Reap
  <2> QED
    BY <1>14, <2>2 DEF Reap, ipc, children, Alive, Sending, Loading
<1>15. CASE CloseRound
  BY <1>1, <1>15 DEF CloseRound, ipc, children
<1> QED
  BY <1>2, <1>3, <1>4, <1>5, <1>6, <1>7, <1>8, <1>9, <1>10, <1>11, <1>12,
     <1>13, <1>14, <1>15 DEF Client0

LEMMA HeldFinite == IsFiniteSet(Held) /\ Cardinality(Held) \in Nat
<1>1. IsFiniteSet(Files)
  BY ConstantsAssumption, FS_Interval DEF Files
<1>2. Held \subseteq Files
  BY DEF Held
<1> QED
  BY <1>1, <1>2, FS_Subset, FS_CardinalityType

\* What a step of child i changes of pc, and where Client_0 then is.
LEMMA ChildPhase ==
  ASSUME GateInv, PhaseInv, NEW i \in Files, Child(i)
  PROVE  /\ UNCHANGED <<pc0, n, forked, rounds, torn, server>>
         /\ \A j \in Files \ {i} : pc'[j] = pc[j] /\ med'[j] = med[j] /\ sent'[j] = sent[j]
         /\ Alive(i) /\ i < n /\ pc'[i] # "none"
         /\ Sending(i) => pc0 = "reap"
<1>1. UNCHANGED <<pc0, n, forked, rounds, torn, server>>
  BY DEF Child, Load, Ready, Go, Poll, Lock, LockQueue, WriteFifo, WriteShm,
         WriteQueue, Unlock, Advance, client
<1>2. Alive(i)
  BY DEF Child, Load, Ready, Go, Poll, Lock, LockQueue, WriteFifo, WriteShm,
         WriteQueue, Unlock, Alive
<1>3. \A j \in Files \ {i} : pc'[j] = pc[j] /\ med'[j] = med[j] /\ sent'[j] = sent[j]
  BY DEF Child, Load, Ready, Go, Poll, Lock, LockQueue, WriteFifo, WriteShm,
         WriteQueue, Unlock, Advance, GateInv, TypeOK
<1>4. pc'[i] # "none"
  BY DEF Child, Load, Ready, Go, Poll, Lock, LockQueue, WriteFifo, WriteShm,
         WriteQueue, Unlock, Advance, GateInv, TypeOK
<1> QED
  BY <1>1, <1>2, <1>3, <1>4 DEF Alive, GateInv, Forked, PhaseInv

\* Child i keeps the phases.
LEMMA PhaseChild ==
  ASSUME GateInv, GateInv', PhaseInv, NEW i \in Files, Child(i)
  PROVE  PhaseInv'
<1>1. /\ UNCHANGED <<pc0, n>>
      /\ \A j \in Files \ {i} : pc'[j] = pc[j]
      /\ Alive(i) /\ i < n /\ pc'[i] # "none"
      /\ Sending(i) => pc0 = "reap"
  BY ChildPhase
<1>2. pc'[i] \in {"load", "ready"} => pc[i] = "load"
  BY DEF Child, Load, Ready, Go, Poll, Lock, LockQueue, WriteFifo, WriteShm,
         WriteQueue, Unlock, Advance, GateInv, TypeOK
<1>3. pc0 \in {"release", "reap", "recv", "sleep", "exited"} => Loading' = {}
  <2>1. 0..(n - 1) \subseteq Files
    BY ConstantsAssumption DEF GateInv, TypeOK, Files
  <2> QED
    BY <1>1, <1>2, <2>1 DEF PhaseInv, Loading
<1>4. Alive(i)' => pc0 \in {"fork", "gate", "release", "reap"}
  BY <1>1 DEF PhaseInv
<1>5. CASE Go(i)
  <2>1. pc[i] = "held" /\ clientSem[1] >= 1 /\ pc'[i] = "poll"
        /\ clientSem'[1] = clientSem[1] - 1
    BY <1>5 DEF Go, GateInv, TypeOK
  <2>2. pc0 = "reap" /\ clientSem[1] = Cardinality(Held)
    BY <2>1 DEF PhaseInv
  <2>3. Held' = Held \ {i} /\ i \in Held
    BY <1>1, <2>1 DEF Held
  <2>4. Cardinality(Held') = Cardinality(Held) - 1
    BY <2>3, HeldFinite, FS_RemoveElement
  <2> QED
    BY <1>1, <1>3, <1>4, <2>1, <2>2, <2>4 DEF PhaseInv, Alive, Sending
<1>6. CASE ~Go(i)
  <2>1. clientSem'[1] = clientSem[1]
    <3>1. CASE Ready(i)
      BY <3>1 DEF Ready, GateInv, TypeOK
    <3>2. CASE ~Ready(i)
      BY <1>6, <3>2 DEF Child, Load, Poll, Lock, LockQueue, WriteFifo, WriteShm,
           WriteQueue, Unlock, ipc
    <3> QED
      BY <3>1, <3>2
  <2>2. Sending(i)' => Sending(i)
    BY <1>6 DEF Child, Load, Ready, Poll, Lock, LockQueue, WriteFifo, WriteShm,
         WriteQueue, Unlock, Advance, GateInv, TypeOK, Sending
  <2>3. CASE Ready(i)
    <3>1. i \in 0..(n - 1)
      BY <1>1, ConstantsAssumption DEF Files, GateInv, TypeOK
    <3>2. pc0 # "reap"
      BY <2>3, <3>1 DEF PhaseInv, Loading, Ready
    <3> QED
      BY <1>1, <1>3, <1>4, <2>1, <2>2, <3>2 DEF PhaseInv, Alive, Sending
  <2>4. CASE ~Ready(i)
    <3>1. pc'[i] = "held" <=> pc[i] = "held"
      BY <1>6, <2>4 DEF Child, Load, Poll, Lock, LockQueue, WriteFifo, WriteShm,
           WriteQueue, Unlock, Advance, GateInv, TypeOK
    <3>2. Held' = Held
      BY <1>1, <3>1 DEF Held
    <3> QED
      BY <1>1, <1>3, <1>4, <2>1, <2>2, <3>2 DEF PhaseInv, Alive, Sending
  <2> QED
    BY <2>3, <2>4
<1> QED
  BY <1>5, <1>6

\* Client_0 and the server keep what the children say of themselves.
LEMMA ChildInvOthers ==
  ASSUME GateInv, ChildInv,
         (\E k \in 0..MaxFiles : SigInt(k)) \/ SigUsr1 \/ Client0 \/ Server
  PROVE  ChildInv'
<1>1. ASSUME UNCHANGED <<pc, med, sent>> PROVE ChildInv'
  BY <1>1 DEF ChildInv
<1>2. ASSUME NEW k \in 0..MaxFiles, SigInt(k) PROVE ChildInv'
  BY <1>2 DEF SigInt, ChildInv
<1>3. CASE Fork
  <2>1. forked \in Files
    BY <1>3, ConstantsAssumption DEF Fork, GateInv, TypeOK, Files
  <2> QED
    BY <1>3, <2>1 DEF Fork, ChildInv, GateInv, TypeOK
<1>4. CASE SigUsr1 \/ (Client0 /\ ~Fork)
  BY <1>1, <1>4 DEF SigUsr1, Client0, ResetGuards, ResetCounters, Reset, SendCount,
       SeeServerOk, ClearServerOk, ForkFails, ForksDone, SeeAllReady,
       ReleaseChildren, Reap, CloseRound, children
<1>5. CASE Server
  BY <1>1, <1>5 DEF Server, SrvStart, ReadCount, SetServerOk, SrvPollFifo,
       SrvReadFifo, SrvPostFifo, SrvReceive, SrvPostQueue, SrvSnapshot,
       SrvReadShm, SrvPostShm, WriteOutputs, SendFinito, children
<1> QED
  BY <1>2, <1>3, <1>4, <1>5

LEMMA ChildInvChild ==
  ASSUME GateInv, ChildInv, NEW i \in Files, Child(i)
  PROVE  ChildInv'
<1> USE DEF ChildInv, GateInv, TypeOK
<1>1. ASSUME NEW s \in SUBSET Media, Advance(i, s), sent[i] \subseteq s, med[i] \in s \/ s # Media
      PROVE  ChildInv'
  BY <1>1 DEF Advance
<1>2. CASE Load(i) \/ Ready(i) \/ Go(i)
  BY <1>2 DEF Load, Ready, Go
<1>3. CASE Poll(i)
  <2>1. CASE pc' = [pc EXCEPT ![i] = "lock"] /\ UNCHANGED <<med, sent>>
    BY <1>3, <2>1 DEF Poll, Advance, SeenFree
  <2>2. CASE Advance(i, sent[i])
    BY <2>2 DEF Advance
  <2> QED
    BY <1>3, <2>1, <2>2 DEF Poll
<1>4. CASE Lock(i) \/ LockQueue(i) \/ WriteFifo(i) \/ WriteShm(i)
  BY <1>4 DEF Lock, LockQueue, WriteFifo, WriteShm, MEDIA_SHM, MEDIA_MSGQUEUE
<1>5. CASE WriteQueue(i) \/ Unlock(i)
  <2>1. Advance(i, Marked(i)) /\ Marked(i) \in SUBSET Media
    BY <1>5 DEF WriteQueue, Unlock, Marked
  <2> QED
    BY <2>1 DEF Advance, Marked
<1> QED
  BY <1>2, <1>3, <1>4, <1>5 DEF Child

LEMMA BaseInit == Init => Base
<1> SUFFICES ASSUME Init PROVE Base
  OBVIOUS
<1>1. GateInv
  BY GateInit
<1>2. Loading = {} /\ Held = {}
  BY DEF Init, Loading, Held
<1>3. PhaseInv /\ ChildInv
  BY <1>2, FS_EmptySet DEF Init, PhaseInv, ChildInv, Alive, Sending
<1> QED
  BY <1>1, <1>3 DEF Base

LEMMA BaseStep == Base /\ [Next]_vars => Base'
<1> SUFFICES ASSUME Base, [Next]_vars PROVE Base'
  OBVIOUS
<1> USE DEF Base
<1>1. TypeOK
  BY DEF GateInv
<1>2. CASE UNCHANGED vars
  BY <1>2 DEF vars, ipc, client, children, server, GateInv, GateCount,
     GateOpened, Forked, BarrierHolds, TypeOK, PhaseInv, ChildInv, Loading, Held,
     Alive, Sending
<1>3. CASE (\E k \in 0..MaxFiles : SigInt(k)) \/ SigUsr1 \/ Client0
  BY <1>1, <1>3, ClientTypeOK, GateClient, PhaseClient, ChildInvOthers
<1>4. ASSUME NEW i \in Files, Child(i) PROVE Base'
  BY <1>1, <1>4, ChildTypeOK, GateChild, PhaseChild, ChildInvChild
<1>5. CASE Server
  <2>1. GateInv' /\ ChildInv'
    BY <1>1, <1>5, ServerTypeOK, GateServer, ChildInvOthers
  <2>2. UNCHANGED <<n, clientSem, pc, pc0>>
    BY <1>5 DEF Server, SrvStart, ReadCount, SetServerOk, SrvPollFifo,
       SrvReadFifo, SrvPostFifo, SrvReceive, SrvPostQueue, SrvSnapshot,
       SrvReadShm, SrvPostShm, WriteOutputs, SendFinito, ipc, client, children
  <2>3. PhaseInv'
    BY <2>2 DEF PhaseInv, Loading, Held, Alive, Sending
  <2> QED
    BY <2>1, <2>3
<1> QED
  BY <1>2, <1>3, <1>4, <1>5 DEF Next, Quiescent

-----------------------------------------------------------------------------
(* Facts about parts, channels and short sequences.                        *)

LEMMA PartFacts ==
  /\ \A i, j, m, l : Part(i, m) = Part(j, l) <=> i = j /\ m = l
  /\ \A i, m : /\ Part(i, m) # NoMsg /\ Part(i, m) # Finito
               /\ Part(i, m).file = i /\ Part(i, m).medium = m
               /\ \A k : Part(i, m) # Count(k)
  /\ NoMsg \notin Parts /\ Finito \notin Parts /\ Finito # NoMsg
<1>1. \A i, m : Part(i, m).file = i /\ Part(i, m).medium = m
  BY DEF Part
<1>2. \A i, m : Part(i, m).kind = "part"
  BY DEF Part
<1>3. NoMsg.kind = "none" /\ Finito.kind = "finito" /\ \A k : Count(k).kind = "count"
  BY DEF NoMsg, Finito, Count
<1>4. \A p \in Parts : p.kind = "part"
  BY MessageKinds
<1>5. \A i, j, m, l : Part(i, m) = Part(j, l) => i = j /\ m = l
  BY <1>1
<1> QED
  BY <1>1, <1>2, <1>3, <1>4, <1>5

LEMMA GuardFacts ==
  /\ Guards = {MEDIA_FIFO1, MEDIA_FIFO2, MEDIA_SHM} /\ Guards \subseteq Media
  /\ MEDIA_MSGQUEUE \in Media
  /\ \A i, j \in Files, m, l \in Guards : ChanOf(i, m) = ChanOf(j, l) => m = l
  /\ \A i \in Files, m \in Guards :
       /\ ChanOf(i, m) \in Chan
       /\ ChanOf(i, m) \in Fifo <=> m # MEDIA_SHM
       /\ ChanOf(i, m)[1] = m
  /\ \A i \in Files : /\ ChanOf(i, MEDIA_SHM) = Shm(i % Slots)
                       /\ ChanOf(i, MEDIA_SHM)[2] = i % Slots
                       /\ i % Slots \in Slot
BY ChanFacts
   DEF Guards, Media, MEDIA_FIFO1, MEDIA_FIFO2, MEDIA_MSGQUEUE, MEDIA_SHM,
       ChanOf, Fifo, Fifo1, Fifo2, Shm

\* A pipe holds at most one part and the count of the next round.
LEMMA PipeFacts ==
  ASSUME NEW S, NEW p \in S, NEW r, r = <<>> \/ \E c \in S : r = <<c>>
  PROVE  /\ <<p>> \o r # <<>> /\ Head(<<p>> \o r) = p /\ Tail(<<p>> \o r) = r
         /\ Append(<<>>, p) = <<p>> \o <<>> /\ Append(<<>>, p) = <<p>>
         /\ \A c \in S : Append(<<p>> \o <<>>, c) = <<p>> \o <<c>>
         /\ Head(<<p>>) = p /\ Tail(<<p>>) = <<>> /\ <<p>> # <<>>
<1>1. <<p>> \in Seq(S) /\ <<>> \in Seq(S) /\ <<p>> # <<>>
  OBVIOUS
<1>2. Head(<<p>>) = p /\ Tail(<<p>>) = <<>>
  OBVIOUS
<1>3. <<p>> \o <<>> = <<p>>
  BY <1>1, ConcatEmptySeq
<1>4. Append(<<>>, p) = <<p>>
  OBVIOUS
<1>5. \A c \in S : Append(<<p>>, c) = <<p>> \o <<c>>
  BY <1>1, AppendIsConcat
<1>6. ASSUME NEW c \in S
      PROVE  /\ <<p>> \o <<c>> # <<>>
             /\ Head(<<p>> \o <<c>>) = p /\ Tail(<<p>> \o <<c>>) = <<c>>
  <2>1. Append(<<>>, c) = <<c>>
    OBVIOUS
  <2>2. \A s \in Seq(S) :
          /\ Append(s, c) # <<>>
          /\ s # <<>> => Head(Append(s, c)) = Head(s) /\ Tail(Append(s, c)) = Append(Tail(s), c)
    BY HeadTailAppend, AppendProperties
  <2>3. /\ Head(Append(<<p>>, c)) = p /\ Tail(Append(<<p>>, c)) = <<c>>
        /\ Append(<<p>>, c) # <<>>
    BY <1>1, <1>2, <2>1, <2>2, Zenon
  <2> QED
    BY <1>5, <2>3
<1> QED
  BY <1>1, <1>2, <1>3, <1>4, <1>5, <1>6

\* What a step must keep for channel c to stay as it is.
LEMMA ChannelKeep ==
  ASSUME NEW c \in Chan, OneChannelInv(c),
         sem'[c] = sem[c], c \in torn' <=> c \in torn, rounds' = rounds,
         NotReset(c)' <=> NotReset(c), Pending' <=> Pending,
         Writers(c)' = Writers(c),
         \A i \in Writers(c) : pc'[i] = pc[i] /\ med'[i] = med[i],
         IF c \in Fifo THEN fifo'[c] = fifo[c] ELSE shm'[c[2]] = shm[c[2]],
         Rest(c)' = Rest(c),
         Taken(c)' <=> Taken(c), Taken(c) => hand' = hand,
         ServerHolds(c)' => ServerHolds(c) \/ Loaded(c),
         c \notin Fifo /\ c[2] \in full' => c[2] \in full \/ Loaded(c),
         \A i \in Files, m \in Guards :
           ChanOf(i, m) = c => (Due(i, m)' <=> Due(i, m))
  PROVE  OneChannelInv(c)'
<1>1. Loaded(c)' <=> Loaded(c)
  BY DEF Loaded
<1>2. \A p : Holds(c, p)' <=> Holds(c, p)
  BY DEF Holds
<1>3. SemInv(c)'
  BY DEF OneChannelInv, SemInv
<1>4. LoadedInv(c)' /\ DueInv(c)'
  BY <1>1, <1>2 DEF OneChannelInv, LoadedInv, DueInv
<1>5. FreeInv(c)'
  BY <1>1, <1>2 DEF OneChannelInv, FreeInv
<1> QED
  BY <1>3, <1>4, <1>5 DEF OneChannelInv

-----------------------------------------------------------------------------
(* The steps of a child.                                                   *)

\* What no step of child i changes.
LEMMA ChildFrame ==
  ASSUME Inv, NEW i \in Files, Child(i)
  PROVE  /\ ~Pending /\ ~Pending' /\ filesCounter = n /\ i < filesCounter
         /\ UNCHANGED <<pc0, n, forked, rounds, torn, serverOk, server>>
         /\ pc[i] # "none" /\ pc'[i] # "none" /\ rounds # 0
         /\ \A j \in Files \ {i} :
              /\ pc'[j] = pc[j] /\ med'[j] = med[j] /\ sent'[j] = sent[j]
              /\ \A m : (Handed(j, m)' <=> Handed(j, m)) /\ (Due(j, m)' <=> Due(j, m))
         /\ \A m : /\ Handed(i, m) <=> m \in sent[i]
                   /\ Handed(i, m)' <=> m \in sent'[i]
                   /\ Due(i, m) <=> m \in sent[i] /\ Part(i, m) \notin messages
                   /\ Due(i, m)' <=> m \in sent'[i] /\ Part(i, m) \notin messages
         /\ \A c \in Chan :
              /\ ~NotReset(c) /\ ~NotReset(c)'
              /\ Rest(c) = <<>> /\ Rest(c)' = <<>>
              /\ Taken(c)' <=> Taken(c)
              /\ ServerHolds(c)' <=> ServerHolds(c)
<1> USE DEF Inv, Base
<1>1. /\ UNCHANGED <<pc0, n, forked, rounds, torn, server>>
      /\ \A j \in Files \ {i} : pc'[j] = pc[j] /\ med'[j] = med[j] /\ sent'[j] = sent[j]
      /\ Alive(i) /\ i < n /\ pc'[i] # "none" /\ pc[i] # "none"
  BY ChildPhase DEF Alive
<1>2. serverOk' = serverOk
  BY DEF Child, Load, Ready, Go, Poll, Lock, LockQueue, WriteFifo, WriteShm,
         WriteQueue, Unlock, ipc
<1>3. pc0 \in {"fork", "gate", "release", "reap"}
  BY <1>1 DEF PhaseInv
<1>4. ~Pending /\ ~Pending'
  BY <1>1, <1>3 DEF Pending, ResetPC
<1>5. filesCounter = n
  BY <1>4 DEF RoundInv
<1>6. UNCHANGED <<spc, at, filesCounter, messages>>
  BY <1>1 DEF server
<1>7. \A j \in Files \ {i} : \A m : Handed(j, m)' <=> Handed(j, m)
  BY <1>1, <1>4, <1>6 DEF Handed
<1>8. \A c \in Chan : /\ ~NotReset(c) /\ ~NotReset(c)'
                      /\ Rest(c) = <<>> /\ Rest(c)' = <<>>
                      /\ Taken(c)' <=> Taken(c)
                      /\ ServerHolds(c)' <=> ServerHolds(c)
  BY <1>1, <1>3, <1>6 DEF NotReset, Rest, Taken, ServerHolds
<1>9. \A j \in Files \ {i} : \A m : Due(j, m)' <=> Due(j, m)
  BY <1>6, <1>7 DEF Due
<1>10. UNCHANGED <<pc0, n, forked, rounds, torn, serverOk, server>>
  BY <1>1, <1>2
<1>11. \A j \in Files \ {i} :
         /\ pc'[j] = pc[j] /\ med'[j] = med[j] /\ sent'[j] = sent[j]
         /\ \A m : (Handed(j, m)' <=> Handed(j, m)) /\ (Due(j, m)' <=> Due(j, m))
  BY <1>1, <1>7, <1>9
<1>12. \A m : /\ Handed(i, m) <=> m \in sent[i]
              /\ Handed(i, m)' <=> m \in sent'[i]
              /\ Due(i, m) <=> m \in sent[i] /\ Part(i, m) \notin messages
              /\ Due(i, m)' <=> m \in sent'[i] /\ Part(i, m) \notin messages
  BY <1>1, <1>5, <1>6 DEF Due, Handed
<1>13. pc[i] # "none" /\ pc'[i] # "none" /\ i < filesCounter /\ rounds # 0
  BY <1>1, <1>3, <1>5 DEF RoundInv
<1> QED
  BY <1>4, <1>5, <1>8, <1>10, <1>11, <1>12, <1>13

LEMMA ChildSent ==
  ASSUME Inv, NEW i \in Files, Child(i)
  PROVE  /\ sent[i] \subseteq sent'[i]
         /\ \A m \in Media : m \in sent'[i] /\ m \notin sent[i] =>
              m = med[i] /\ (Unlock(i) \/ WriteQueue(i))
BY DEF Child, Load, Ready, Go, Poll, Lock, LockQueue, WriteFifo, WriteShm,
       WriteQueue, Unlock, Advance, Marked, Inv, Base, GateInv, TypeOK

\* A child keeps everything that is about the round and the server.
LEMMA ChildRound ==
  ASSUME Inv, NEW i \in Files, Child(i)
  PROVE  RoundInv' /\ CountInv' /\ ServerInv' /\ OutInv'
<1> USE DEF Inv
<1>1. RoundInv'
  BY ChildFrame DEF RoundInv, server
<1>2. CountInv'
  <2>1. \A j \in Files, m \in Media : Handed(j, m) => Handed(j, m)'
    BY ChildFrame, ChildSent
  <2>2. Served' = Served
    BY ChildFrame DEF Served, server
  <2> QED
    BY <2>1, <2>2, ChildFrame DEF CountInv, server
<1>3. ServerInv' /\ OutInv'
  BY ChildFrame DEF ServerInv, OutInv, server
<1> QED
  BY <1>1, <1>2, <1>3

\* A channel that child i neither uses nor marks.
LEMMA ChildChannel ==
  ASSUME Inv, NEW i \in Files, Child(i), NEW c \in Chan,
         sem'[c] = sem[c], IF c \in Fifo THEN fifo'[c] = fifo[c] ELSE shm'[c[2]] = shm[c[2]],
         i \notin Writers(c), i \notin Writers(c)',
         \A m \in Guards : ChanOf(i, m) = c => (m \in sent'[i] <=> m \in sent[i])
  PROVE  OneChannelInv(c)'
<1>1. Writers(c)' = Writers(c)
  BY ChildFrame DEF Writers
<1>2. \A j \in Writers(c) : pc'[j] = pc[j] /\ med'[j] = med[j]
  BY ChildFrame DEF Writers
<1>3. \A j \in Files, m \in Guards : ChanOf(j, m) = c => (Due(j, m)' <=> Due(j, m))
  BY ChildFrame
<1> QED
  BY <1>1, <1>2, <1>3, ChildFrame, ChannelKeep DEF Inv, ChannelInv, server

\* The channel of a child that is about to use it, or is using it.
LEMMA ChildGuard ==
  ASSUME Inv, NEW i \in Files, Child(i), med[i] # MEDIA_MSGQUEUE,
         NEW c, c = ChanOf(i, med[i])
  PROVE  /\ c \in Chan /\ med[i] \in Guards /\ OneChannelInv(c)
         /\ pc[i] \in {"lock", "write", "unlock"} =>
              c \notin torn /\ med[i] \notin sent[i] /\ ~Due(i, med[i])
         /\ pc[i] \in {"write", "unlock"} =>
              /\ i \in Writers(c) /\ sem[c] = 0 /\ ~Loaded(c)
              /\ ~ServerHolds(c) /\ (c \notin Fifo => c[2] \notin full)
              /\ \A j \in Writers(c) : j = i
<1>1. med[i] \in Guards
  BY DEF Inv, Base, GateInv, TypeOK, Guards
<1>2. c \in Chan /\ OneChannelInv(c)
  BY <1>1, GuardFacts DEF Inv, ChannelInv
<1>3. ASSUME pc[i] \in {"lock", "write", "unlock"}
      PROVE  c \notin torn /\ med[i] \notin sent[i] /\ ~Due(i, med[i])
  <2>1. med[i] \notin sent[i]
    BY <1>3 DEF Inv, Base, ChildInv
  <2>2. c \notin torn
    BY <1>1, <1>3 DEF Inv, TornInv
  <2> QED
    BY <2>1, <2>2, ChildFrame
<1>4. ASSUME pc[i] \in {"write", "unlock"}
      PROVE  /\ i \in Writers(c) /\ sem[c] = 0 /\ ~Loaded(c)
             /\ ~ServerHolds(c) /\ (c \notin Fifo => c[2] \notin full)
             /\ \A j \in Writers(c) : j = i
  <2>1. i \in Writers(c)
    BY <1>4 DEF Writers
  <2>2. sem[c] = 0 /\ \A j \in Writers(c) : j = i
    BY <1>2, <2>1 DEF OneChannelInv, SemInv
  <2>3. ~Loaded(c)
    BY <2>2 DEF Loaded
  <2> QED
    BY <1>2, <2>1, <2>2, <2>3 DEF OneChannelInv, FreeInv
<1> QED
  BY <1>1, <1>2, <1>3, <1>4

\* No part is due on a channel that is not loaded.
LEMMA NotLoaded ==
  ASSUME NEW c \in Chan, OneChannelInv(c), ~Loaded(c)
  PROVE  \A j \in Files, m \in Guards : ChanOf(j, m) = c => ~Due(j, m)
BY DEF OneChannelInv, DueInv

LEMMA ChildLock ==
  ASSUME Inv, NEW i \in Files, Child(i), Lock(i)
  PROVE  ChannelInv'
<1> USE DEF Inv, Base
<1>0. PICK c \in Chan : c = ChanOf(i, med[i])
  BY ChildGuard DEF Lock
<1>1. /\ pc[i] = "lock" /\ med[i] # MEDIA_MSGQUEUE /\ sem[c] >= 2
      /\ sem' = [sem EXCEPT ![c] = @ - 2] /\ pc' = [pc EXCEPT ![i] = "write"]
      /\ UNCHANGED <<fifo, shm, med, sent>>
  BY <1>0 DEF Lock, Take
<1>2. c \in Chan /\ med[i] \in Guards /\ OneChannelInv(c) /\ c \notin torn
  BY <1>0, <1>1, ChildGuard
<1>3. sem[c] = 2 /\ sem'[c] = 0 /\ pc'[i] = "write" /\ \A d \in Chan \ {c} : sem'[d] = sem[d]
  BY <1>1, <1>2 DEF OneChannelInv, SemInv, GateInv, TypeOK
<1>4. Writers(c) = {} /\ ~Loaded(c) /\ ~Loaded(c)'
  BY <1>2, <1>3, ChildFrame DEF OneChannelInv, SemInv, Loaded
<1>5. Writers(c)' = {i}
  <2>1. i \in Writers(c)'
    BY <1>0, <1>1, <1>3 DEF Writers
  <2>2. \A j \in Files \ {i} : j \notin Writers(c)'
    BY <1>1, <1>4, ChildFrame DEF Writers
  <2> QED
    BY <2>1, <2>2 DEF Writers
<1>6. \A d \in Chan \ {c} : OneChannelInv(d)'
  <2> SUFFICES ASSUME NEW d \in Chan \ {c} PROVE OneChannelInv(d)'
    OBVIOUS
  <2>1. i \notin Writers(d) /\ i \notin Writers(d)'
    BY <1>0, <1>1 DEF Writers
  <2> QED
    BY <1>1, <1>3, <2>1, ChildChannel
<1>7. SemInv(c)'
  BY <1>3, <1>5, ChildFrame, <1>2 DEF SemInv, OneChannelInv
<1>8. LoadedInv(c)'
  BY <1>4 DEF LoadedInv
<1>9. \A j \in Files, m \in Guards : Due(j, m)' <=> Due(j, m)
  BY <1>1, ChildFrame
<1>10. DueInv(c)'
  BY <1>2, <1>4, <1>9, NotLoaded DEF DueInv
<1>11. FreeInv(c)'
  <2>1. ~ServerHolds(c)' /\ (c \notin Fifo => c[2] \notin full')
    BY <1>2, <1>4, ChildFrame DEF OneChannelInv, FreeInv, server
  <2>2. c \in Fifo => fifo'[c] = Rest(c)'
    BY <1>1, <1>2, <1>4, ChildFrame DEF OneChannelInv, FreeInv
  <2> QED
    BY <1>3, <1>5, <2>1, <2>2 DEF FreeInv
<1>12. OneChannelInv(c)'
  BY <1>7, <1>8, <1>10, <1>11 DEF OneChannelInv
<1> QED
  BY <1>6, <1>12 DEF ChannelInv

LEMMA ChildWrite ==
  ASSUME Inv, NEW i \in Files, Child(i), WriteFifo(i) \/ WriteShm(i)
  PROVE  ChannelInv'
<1> USE DEF Inv, Base
<1>1. /\ pc[i] = "write" /\ med[i] # MEDIA_MSGQUEUE
      /\ pc' = [pc EXCEPT ![i] = "unlock"]
      /\ UNCHANGED <<sem, med, sent>>
  BY DEF WriteFifo, WriteShm, MEDIA_SHM, MEDIA_MSGQUEUE
<1>2. PICK c \in Chan : c = ChanOf(i, med[i])
  BY <1>1, ChildGuard
<1>3. /\ med[i] \in Guards /\ OneChannelInv(c) /\ ~Due(i, med[i]) /\ c \notin torn
      /\ i \in Writers(c) /\ sem[c] = 0 /\ ~Loaded(c)
      /\ ~ServerHolds(c) /\ (c \notin Fifo => c[2] \notin full)
      /\ \A j \in Writers(c) : j = i
  BY <1>1, <1>2, ChildGuard
<1>4. pc'[i] = "unlock" /\ ~Loaded(c)' /\ med'[i] = med[i]
  BY <1>1, <1>3 DEF GateInv, TypeOK, Loaded
<1>5. Writers(c)' = {i}
  <2>1. i \in Writers(c)'
    BY <1>1, <1>2, <1>4 DEF Writers
  <2>2. \A j \in Files \ {i} : j \notin Writers(c)'
    BY <1>1, <1>3, ChildFrame DEF Writers
  <2> QED
    BY <2>1, <2>2 DEF Writers
<1>6. /\ IF c \in Fifo THEN fifo' = [fifo EXCEPT ![c] = Append(@, Part(i, med[i]))] /\ shm' = shm
                       ELSE shm' = [shm EXCEPT ![c[2]] = Part(i, med[i])] /\ fifo' = fifo
  <2>1. CASE WriteFifo(i)
    BY <1>2, <2>1 DEF WriteFifo
  <2>2. CASE WriteShm(i)
    BY <1>2, <2>2, GuardFacts, ChanFacts DEF WriteShm
  <2> QED
    BY <2>1, <2>2
<1>7. Holds(c, Part(i, med[i]))'
  <2>1. Part(i, med[i])' = Part(i, med[i])
    BY <1>4
  <2>2. CASE c \in Fifo
    <3>1. fifo[c] = <<>>
      BY <1>1, <1>3, <2>2, ChildFrame DEF OneChannelInv, FreeInv
    <3>2. fifo'[c] = <<Part(i, med[i])>> \o <<>>
      <4>1. Part(i, med[i]) \in Parts
        BY MessageKinds DEF GateInv, TypeOK
      <4>2. Append(<<>>, Part(i, med[i])) = <<Part(i, med[i])>> \o <<>>
        BY <4>1, PipeFacts
      <4> QED
        BY <1>6, <2>2, <3>1, <4>2 DEF GateInv, TypeOK
    <3>3. ~Taken(c)'
      BY <1>3, ChildFrame DEF Taken, ServerHolds
    <3> QED
      BY <2>1, <2>2, <3>2, <3>3, ChildFrame DEF Holds
  <2>3. CASE c \notin Fifo
    BY <1>6, <2>1, <2>3, ChanFacts DEF Holds, GateInv, TypeOK
  <2> QED
    BY <2>2, <2>3
<1>8. \A d \in Chan \ {c} : OneChannelInv(d)'
  <2> SUFFICES ASSUME NEW d \in Chan \ {c} PROVE OneChannelInv(d)'
    OBVIOUS
  <2>1. i \notin Writers(d) /\ i \notin Writers(d)'
    BY <1>1, <1>2 DEF Writers
  <2>2. d \notin Fifo => d[2] \in Slot /\ (c \notin Fifo => d[2] # c[2])
    BY ChanFacts
  <2>3. IF d \in Fifo THEN fifo'[d] = fifo[d] ELSE shm'[d[2]] = shm[d[2]]
    <3>1. CASE c \in Fifo
      BY <1>6, <3>1 DEF GateInv, TypeOK
    <3>2. CASE c \notin Fifo
      BY <1>6, <2>2, <3>2 DEF GateInv, TypeOK
    <3> QED
      BY <3>1, <3>2
  <2> QED
    BY <1>1, <2>1, <2>3, ChildChannel
<1>9. SemInv(c)'
  BY <1>1, <1>3, <1>5, ChildFrame DEF SemInv, OneChannelInv
<1>10. LoadedInv(c)'
  BY <1>4 DEF LoadedInv
<1>11. DueInv(c)'
  <2>1. \A j \in Files, m \in Guards : Due(j, m)' <=> Due(j, m)
    BY <1>1, ChildFrame
  <2> QED
    BY <1>3, <2>1, NotLoaded DEF DueInv
<1>12. FreeInv(c)'
  <2>1. ~ServerHolds(c)' /\ (c \notin Fifo => c[2] \notin full')
    BY <1>3, ChildFrame DEF server
  <2>2. \A j \in Writers(c)' : Holds(c, Part(j, med[j]))' /\ pc'[j] = "unlock"
    BY <1>4, <1>5, <1>7
  <2> QED
    BY <1>5, <2>1, <2>2 DEF FreeInv
<1>13. OneChannelInv(c)'
  BY <1>9, <1>10, <1>11, <1>12 DEF OneChannelInv
<1> QED
  BY <1>8, <1>13 DEF ChannelInv

LEMMA ChildUnlock ==
  ASSUME Inv, NEW i \in Files, Child(i), Unlock(i)
  PROVE  ChannelInv'
<1> USE DEF Inv, Base
<1>1. /\ pc[i] = "unlock" /\ med[i] # MEDIA_MSGQUEUE
      /\ sem' = [sem EXCEPT ![ChanOf(i, med[i])] = @ + 1]
      /\ sent' = [sent EXCEPT ![i] = @ \cup {med[i]}]
      /\ UNCHANGED <<fifo, shm>>
  BY DEF Unlock, Post, ChildInv, Advance, Marked
<1>2. PICK c \in Chan : c = ChanOf(i, med[i])
  BY <1>1, ChildGuard
<1>3. /\ med[i] \in Guards /\ OneChannelInv(c) /\ ~Due(i, med[i]) /\ c \notin torn
      /\ i \in Writers(c) /\ sem[c] = 0 /\ ~Loaded(c)
      /\ ~ServerHolds(c) /\ (c \notin Fifo => c[2] \notin full)
      /\ \A j \in Writers(c) : j = i
  BY <1>1, <1>2, ChildGuard
<1>4. /\ sem'[c] = 1 /\ \A d \in Chan \ {c} : sem'[d] = sem[d]
      /\ sent'[i] = sent[i] \cup {med[i]}
  BY <1>1, <1>2, <1>3 DEF GateInv, TypeOK
<1>5. pc'[i] \in {"poll", "exited"}
  BY DEF Unlock, Advance, GateInv, TypeOK
<1>6. Writers(c)' = {}
  <2>1. i \notin Writers(c)'
    BY <1>5 DEF Writers
  <2>2. \A j \in Files \ {i} : j \notin Writers(c)'
    BY <1>3, ChildFrame DEF Writers
  <2> QED
    BY <2>1, <2>2 DEF Writers
<1>7. PICK m \in Guards : m = med[i] /\ ChanOf(i, m) = c
  BY <1>2, <1>3
<1>8. Due(i, m)' /\ \A l \in Guards \ {m} : Due(i, l)' <=> Due(i, l)
  <2>1. Part(i, m) \notin messages
    <3>1. \A l \in Media : Part(i, l) \in messages => Handed(i, l)
      BY PartFacts DEF CountInv
    <3>2. m \in Media /\ m \notin sent[i]
      BY <1>1, <1>7 DEF ChildInv, GateInv, TypeOK
    <3> QED
      BY <3>1, <3>2, ChildFrame
  <2> QED
    BY <1>4, <1>7, <2>1, ChildFrame
<1>9. \A p : Holds(c, p)' <=> Holds(c, p)
  BY <1>1, ChildFrame DEF Holds
<1>10. Holds(c, Part(i, m)) /\ ~Taken(c)'
  BY <1>1, <1>3, <1>7, ChildFrame DEF OneChannelInv, FreeInv, Taken, ServerHolds
<1>11. \A d \in Chan \ {c} : OneChannelInv(d)'
  <2> SUFFICES ASSUME NEW d \in Chan \ {c} PROVE OneChannelInv(d)'
    OBVIOUS
  <2>1. i \notin Writers(d) /\ i \notin Writers(d)'
    BY <1>2, <1>5 DEF Writers
  <2>2. \A l \in Guards : ChanOf(i, l) = d => (l \in sent'[i] <=> l \in sent[i])
    BY <1>4, <1>7
  <2> QED
    BY <1>1, <1>4, <2>1, <2>2, ChildChannel
<1>12. SemInv(c)'
  BY <1>3, <1>4, <1>6, ChildFrame DEF SemInv, OneChannelInv
<1>13. LoadedInv(c)'
  BY <1>7, <1>8 DEF LoadedInv
<1>14. DueInv(c)'
  <2> SUFFICES ASSUME NEW j \in Files, NEW l \in Guards, ChanOf(j, l) = c, Due(j, l)'
               PROVE  j = i /\ l = m
    BY <1>4, <1>9, <1>10 DEF DueInv, Loaded
  <2>1. l = m
    BY <1>7, GuardFacts
  <2>2. ~Due(j, l)
    BY <1>3, NotLoaded
  <2> QED
    BY <2>1, <2>2, ChildFrame
<1>15. FreeInv(c)'
  BY <1>4 DEF FreeInv, Loaded
<1>16. OneChannelInv(c)'
  BY <1>12, <1>13, <1>14, <1>15 DEF OneChannelInv
<1> QED
  BY <1>11, <1>16 DEF ChannelInv

\* Child i keeps what is said of every guarded channel.
LEMMA ChildChannels ==
  ASSUME Inv, NEW i \in Files, Child(i)
  PROVE  ChannelInv'
<1>1. CASE Lock(i) \/ WriteFifo(i) \/ WriteShm(i) \/ Unlock(i)
  BY <1>1, ChildLock, ChildWrite, ChildUnlock
<1>2. CASE Load(i) \/ Ready(i) \/ Go(i) \/ Poll(i) \/ LockQueue(i) \/ WriteQueue(i)
  <2>1. UNCHANGED <<sem, fifo, shm>>
    BY <1>2 DEF Load, Ready, Go, Poll, LockQueue, WriteQueue, ipc
  <2>2. \A c \in Chan : i \notin Writers(c)
    BY <1>2 DEF Load, Ready, Go, Poll, LockQueue, WriteQueue, Writers
  <2>3. \A c \in Chan : i \notin Writers(c)'
    BY <1>2 DEF Load, Ready, Go, Poll, LockQueue, WriteQueue, Writers, Advance,
       Inv, Base, GateInv, TypeOK
  <2>4. \A m \in Guards : m \in sent'[i] <=> m \in sent[i]
    BY <1>2, GuardFacts DEF Load, Ready, Go, Poll, LockQueue, WriteQueue, Advance,
       Marked, Guards, Inv, Base, GateInv, TypeOK
  <2> QED
    BY <2>1, <2>2, <2>3, <2>4, ChildChannel DEF ChannelInv
<1> QED
  BY <1>1, <1>2 DEF Child

\* The children of a round keep off its torn channels.
LEMMA ChildTorn ==
  ASSUME Inv, NEW i \in Files, Child(i)
  PROVE  TornInv'
<1> USE DEF Inv, Base
<1> SUFFICES ASSUME NEW j \in Files, NEW m \in Guards
             PROVE  /\ pc'[j] # "none" /\ m \in sent'[j] => ChanOf(j, m) \notin torn
                    /\ pc'[j] \in {"lock", "write", "unlock"} /\ m = med'[j] =>
                         ChanOf(j, m) \notin torn
  BY ChildFrame DEF TornInv
<1>1. CASE j # i
  BY <1>1, ChildFrame DEF TornInv
<1>2. m \in sent'[i] => ChanOf(i, m) \notin torn
  <2>1. CASE m \in sent[i]
    BY <2>1, ChildFrame DEF TornInv
  <2>2. CASE m \in sent'[i] /\ m \notin sent[i]
    <3>1. m = med[i] /\ pc[i] = "unlock"
      BY <2>2, ChildSent, GuardFacts DEF Unlock, WriteQueue, Guards
    <3> QED
      BY <3>1, ChildFrame DEF TornInv
  <2> QED
    BY <2>1, <2>2
<1>3. ASSUME pc'[i] \in {"lock", "write", "unlock"}, m = med'[i]
      PROVE  ChanOf(i, m) \notin torn
  <2>1. CASE pc[i] \in {"lock", "write", "unlock"} /\ med'[i] = med[i]
    BY <1>3, <2>1 DEF TornInv
  <2>2. CASE Poll(i)
    <3>1. med'[i] = med[i] /\ SeenFree(i)
      BY <1>3, <2>2 DEF Poll, Advance, GateInv, TypeOK
    <3>2. sem[ChanOf(i, m)] = 2
      BY <1>3, <3>1 DEF SeenFree, Guards
    <3> QED
      BY <3>2, ChildFrame, GuardFacts DEF ChannelInv, OneChannelInv, SemInv
  <2> QED
    BY <1>3, <2>1, <2>2 DEF Child, Load, Ready, Go, Lock, LockQueue, WriteFifo,
       WriteShm, WriteQueue, Unlock, Advance, GateInv, TypeOK
<1> QED
  BY <1>1, <1>2, <1>3

-----------------------------------------------------------------------------
(* Sequences of messages on the queue.                                     *)

FinitosOf(q) == {j \in DOMAIN q : q[j] = Finito}

LEMMA AppendFacts ==
  ASSUME NEW S, NEW q \in Seq(S), NEW x \in S
  PROVE  /\ DOMAIN Append(q, x) = DOMAIN q \cup {Len(q) + 1}
         /\ Len(q) + 1 \notin DOMAIN q
         /\ \A j \in DOMAIN q : Append(q, x)[j] = q[j]
         /\ Append(q, x)[Len(q) + 1] = x
         /\ Append(q, x) \in Seq(S)
<1>1. Append(q, x) \in Seq(S) /\ Len(Append(q, x)) = Len(q) + 1 /\ Len(q) \in Nat
  BY AppendProperties, LenProperties
<1>2. DOMAIN q = 1..Len(q) /\ DOMAIN Append(q, x) = 1..(Len(q) + 1)
  BY <1>1, LenProperties
<1> QED
  BY <1>1, <1>2, AppendProperties

LEMMA FinitosFinite ==
  ASSUME NEW S, NEW q \in Seq(S)
  PROVE  /\ IsFiniteSet(FinitosOf(q)) /\ Cardinality(FinitosOf(q)) \in Nat
         /\ Cardinality(FinitosOf(q)) <= Len(q)
<1>1. DOMAIN q = 1..Len(q) /\ Len(q) \in Nat
  BY LenProperties
<1>2. IsFiniteSet(1..Len(q)) /\ Cardinality(1..Len(q)) = Len(q)
  BY <1>1, FS_Interval
<1>3. FinitosOf(q) \in SUBSET (1..Len(q))
  BY <1>1 DEF FinitosOf
<1> QED
  BY <1>2, <1>3, FS_Subset, FS_CardinalityType

LEMMA FinitosAppend ==
  ASSUME NEW S, NEW q \in Seq(S), NEW x \in S
  PROVE  Cardinality(FinitosOf(Append(q, x))) =
           Cardinality(FinitosOf(q)) + (IF x = Finito THEN 1 ELSE 0)
<1>1. CASE x = Finito
  <2>1. /\ FinitosOf(Append(q, x)) = FinitosOf(q) \cup {Len(q) + 1}
        /\ Len(q) + 1 \notin FinitosOf(q)
    BY <1>1, AppendFacts DEF FinitosOf
  <2> QED
    BY <1>1, <2>1, FinitosFinite, FS_AddElement
<1>2. CASE x # Finito
  <2>1. FinitosOf(Append(q, x)) = FinitosOf(q)
    BY <1>2, AppendFacts DEF FinitosOf
  <2> QED
    BY <1>2, <2>1, FinitosFinite
<1> QED
  BY <1>1, <1>2

-----------------------------------------------------------------------------
(* The queue, when a child moves.                                          *)

\* A part that is put on the queue was not there.
LEMMA ChildWriteQueue ==
  ASSUME Inv, NEW i \in Files, Child(i), WriteQueue(i)
  PROVE  QueueInv' /\ UnitsInv' /\ FinitosInv'
<1> USE DEF Inv, Base
<1> DEFINE q == MEDIA_MSGQUEUE
           p == Part(i, q)
<1>1. /\ pc[i] = "write" /\ med[i] = q /\ Len(msgq) < MsgQueueCap
      /\ msgq' = Append(msgq, p) /\ sent' = [sent EXCEPT ![i] = @ \cup {q}]
      /\ mqsem' = mqsem /\ pc'[i] \in {"poll", "exited"}
  BY DEF WriteQueue, QueueHasRoom, Advance, Marked, GateInv, TypeOK
<1>2. p \in Parts /\ p # Finito /\ msgq \in Seq(Parts \cup {Finito}) /\ q \in Media
  BY MessageKinds, PartFacts, GuardFacts DEF GateInv, TypeOK
<1>3. q \notin sent[i] /\ sent'[i] = sent[i] \cup {q}
  BY <1>1 DEF ChildInv, GateInv, TypeOK
<1>4. p \notin messages
  <2>1. p \in messages => Handed(i, q)
    BY <1>2, PartFacts DEF CountInv
  <2> QED
    BY <1>3, <2>1, ChildFrame
<1>5. ~Due(i, q) /\ Due(i, q)' /\ \A j \in Files \ {i} : Due(j, q)' <=> Due(j, q)
  BY <1>3, <1>4, ChildFrame
<1>6. ~InQueue(p) /\ ~(spc = "mqpost" /\ hand = p)
  BY <1>5 DEF QueueInv
<1>7. \A x : InQueue(x)' <=> InQueue(x) \/ x = p
  BY <1>1, <1>2, AppendFacts DEF InQueue
<1>8. UNCHANGED <<spc, hand, rounds, filesCounter, pc0, serverOk>>
  BY ChildFrame DEF server
<1>9. QueueInv'
  <2>1. \A j \in Files : Part(j, q) = p => j = i
    BY PartFacts
  <2>2. \A j \in Files :
          Due(j, q)' <=> InQueue(Part(j, q))' \/ (spc' = "mqpost" /\ hand' = Part(j, q))
    <3> SUFFICES ASSUME NEW j \in Files
                 PROVE  Due(j, q)' <=> \/ InQueue(Part(j, q))'
                                       \/ spc' = "mqpost" /\ hand' = Part(j, q)
      OBVIOUS
    <3>1. CASE j = i
      BY <1>5, <1>7, <3>1
    <3>2. CASE j # i
      BY <1>5, <1>7, <1>8, <2>1, <3>2 DEF QueueInv
    <3> QED
      BY <3>1, <3>2
  <2>3. \A j \in DOMAIN msgq' :
          msgq'[j] # Finito => msgq'[j] \in {Part(k, q) : k \in Files}
    BY <1>1, <1>2, AppendFacts DEF QueueInv
  <2>4. \A j, k \in DOMAIN msgq' : msgq'[j] = msgq'[k] /\ msgq'[j] # Finito => j = k
    BY <1>1, <1>2, <1>6, AppendFacts DEF QueueInv, InQueue
  <2>5. spc' = "mqpost" =>
          hand' \in {Part(k, q) : k \in Files} /\ ~InQueue(hand)'
    BY <1>6, <1>7, <1>8 DEF QueueInv
  <2> QED
    BY <2>2, <2>3, <2>4, <2>5 DEF QueueInv
<1>10. Units' = Units
  BY <1>1, <1>5, ChildFrame DEF Units
<1>11. UnitsInv'
  BY <1>1, <1>8, <1>10 DEF UnitsInv
<1>12. Finitos' = Finitos /\ Finitos < MsgQueueCap
  <2>1. Finitos' = Cardinality(FinitosOf(Append(msgq, p)))
    BY <1>1 DEF Finitos, FinitosOf
  <2>2. Finitos = Cardinality(FinitosOf(msgq))
    BY DEF Finitos, FinitosOf
  <2>3. Len(msgq) \in Nat /\ MsgQueueCap \in Nat
    BY <1>2, LenProperties, ConstantsAssumption
  <2> QED
    BY <1>1, <1>2, <2>1, <2>2, <2>3, FinitosAppend, FinitosFinite
<1>13. FinitosInv'
  BY <1>8, <1>12, ChildFrame DEF FinitosInv, Listening
<1> QED
  BY <1>9, <1>11, <1>13

LEMMA UnitsFinite ==
  IsFiniteSet(Units) /\ Cardinality(Units) \in Nat
<1>1. IsFiniteSet(Files)
  BY ConstantsAssumption, FS_Interval DEF Files
<1>2. Units \subseteq Files
  BY DEF Units
<1> QED
  BY <1>1, <1>2, FS_Subset, FS_CardinalityType

\* No other step of a child changes the queue, and its units are counted.
LEMMA ChildQueue ==
  ASSUME Inv, NEW i \in Files, Child(i)
  PROVE  QueueInv' /\ UnitsInv' /\ FinitosInv'
<1> USE DEF Inv, Base
<1> SUFFICES ASSUME ~WriteQueue(i) PROVE QueueInv' /\ UnitsInv' /\ FinitosInv'
  BY ChildWriteQueue
<1>1. msgq' = msgq
  BY DEF Child, Load, Ready, Go, Poll, Lock, LockQueue, WriteFifo, WriteShm, Unlock, ipc
<1>2. MEDIA_MSGQUEUE \in sent'[i] <=> MEDIA_MSGQUEUE \in sent[i]
  BY ChildSent, GuardFacts DEF Unlock, ChildInv
<1>3. \A j \in Files : /\ Due(j, MEDIA_MSGQUEUE)' <=> Due(j, MEDIA_MSGQUEUE)
                       /\ Handed(j, MEDIA_MSGQUEUE)' <=> Handed(j, MEDIA_MSGQUEUE)
  BY <1>2, ChildFrame
<1>4. UNCHANGED <<spc, hand, rounds, pc0, serverOk>>
  BY ChildFrame DEF server
<1>5. QueueInv'
  BY <1>1, <1>3, <1>4 DEF QueueInv, InQueue
<1>6. FinitosInv'
  BY <1>1, <1>3, <1>4, ChildFrame DEF FinitosInv, Finitos, Listening
<1>7. UnitsInv'
  <2>1. CASE LockQueue(i)
    <3>1. /\ pc[i] = "lock" /\ med[i] = MEDIA_MSGQUEUE /\ mqsem >= 1
          /\ mqsem' = mqsem - 1 /\ pc'[i] = "write" /\ med'[i] = med[i]
      BY <2>1 DEF LockQueue, GateInv, TypeOK
    <3>2. i \notin Units
      BY <3>1, ChildFrame DEF Units, ChildInv
    <3>3. Units' = Units \cup {i}
      BY <1>3, <3>1, ChildFrame DEF Units
    <3>4. Cardinality(Units') = Cardinality(Units) + 1
      BY <3>2, <3>3, UnitsFinite, FS_AddElement
    <3>5. mqsem \in Nat /\ MsgQueueInit \in Nat
      BY ConstantsAssumption DEF GateInv, TypeOK
    <3> QED
      BY <1>4, <3>1, <3>4, <3>5, UnitsFinite DEF UnitsInv
  <2>2. CASE ~LockQueue(i)
    <3>1. mqsem' = mqsem
      BY <2>2 DEF Child, Load, Ready, Go, Poll, Lock, WriteFifo, WriteShm, Unlock, ipc
    <3>2. pc'[i] = "write" /\ med'[i] = MEDIA_MSGQUEUE
            <=> pc[i] = "write" /\ med[i] = MEDIA_MSGQUEUE
      BY <2>2 DEF Child, Load, Ready, Go, Poll, Lock, WriteFifo, WriteShm, Unlock,
         Advance, GateInv, TypeOK, MEDIA_SHM, MEDIA_MSGQUEUE
    <3>3. Units' = Units
      BY <1>3, <3>2, ChildFrame DEF Units
    <3> QED
      BY <1>4, <3>1, <3>3 DEF UnitsInv
  <2> QED
    BY <2>1, <2>2
<1> QED
  BY <1>5, <1>6, <1>7

LEMMA ChildStep ==
  ASSUME Inv, Base', NEW i \in Files, Child(i)
  PROVE  Inv'
BY ChildRound, ChildChannels, ChildTorn, ChildQueue DEF Inv

-----------------------------------------------------------------------------
(* The steps of Client_0.                                                  *)

\* What a step must keep for the parts and the channels to stay as they are.
LEMMA ClientFrame ==
  ASSUME Inv, UNCHANGED <<rounds, server>>, Pending' <=> Pending,
         UNCHANGED <<sem, fifo, shm, torn, msgq, pc, med, sent>>,
         \A c \in Chan : (NotReset(c)' <=> NotReset(c)) /\ Rest(c)' = Rest(c)
  PROVE  /\ CountInv' /\ ServerInv' /\ ChannelInv' /\ TornInv' /\ QueueInv'
         /\ FinitosInv' /\ OutInv' /\ Units' = Units
<1> USE DEF Inv
<1>1. \A j \in Files : \A m : (Handed(j, m)' <=> Handed(j, m)) /\ (Due(j, m)' <=> Due(j, m))
  BY DEF Handed, Due, server
<1>2. CountInv' /\ ServerInv' /\ OutInv'
  <2>1. Served' = Served
    BY DEF Served, server
  <2> QED
    BY <1>1, <2>1 DEF CountInv, ServerInv, OutInv, server
<1>3. ChannelInv'
  <2> SUFFICES ASSUME NEW c \in Chan PROVE OneChannelInv(c)'
    BY DEF ChannelInv
  <2>1. Writers(c)' = Writers(c)
    BY DEF Writers
  <2>2. (Taken(c)' <=> Taken(c)) /\ (ServerHolds(c)' <=> ServerHolds(c))
    BY DEF Taken, ServerHolds, server
  <2> QED
    BY <1>1, <2>1, <2>2, ChannelKeep DEF ChannelInv, server
<1>4. TornInv'
  BY DEF TornInv
<1>5. QueueInv' /\ FinitosInv' /\ Units' = Units
  BY <1>1 DEF QueueInv, InQueue, FinitosInv, Finitos, Listening, Units, server
<1> QED
  BY <1>2, <1>3, <1>4, <1>5

LEMMA ClientQuiet ==
  ASSUME Inv, Base',
         SigUsr1 \/ SeeServerOk \/ ClearServerOk \/ ForkFails \/ ForksDone
           \/ SeeAllReady \/ ReleaseChildren \/ Reap \/ CloseRound
  PROVE  Inv'
<1>1. /\ UNCHANGED <<n, rounds, server, mqsem, sem, fifo, shm, torn, msgq, pc, med, sent>>
      /\ pc0 \notin ResetPC \cup {"send"} /\ pc0' \notin ResetPC \cup {"send", "wait_ok"}
      /\ serverOk' = serverOk \/ serverOk' = 0
  BY DEF SigUsr1, SeeServerOk, ClearServerOk, ForkFails, ForksDone, SeeAllReady,
         ReleaseChildren, Reap, CloseRound, ipc, children, ResetPC
<1>2. ~Pending /\ ~Pending'
  <2>1. pc0 = "wait_ok" => serverOk # 0
    BY DEF SigUsr1, SeeServerOk, ClearServerOk, ForkFails, ForksDone, SeeAllReady,
         ReleaseChildren, Reap, CloseRound
  <2> QED
    BY <1>1, <2>1 DEF Pending, ResetPC
<1>3. \A c \in Chan : /\ ~NotReset(c) /\ ~NotReset(c)'
                      /\ Rest(c) = <<>> /\ Rest(c)' = <<>>
  BY <1>1, <1>2 DEF NotReset, Rest, ResetPC
<1>4. RoundInv'
  <2>1. \/ serverOk' = 0
        \/ UNCHANGED serverOk /\ (serverOk = 1 => pc0' \in {"wait_ok", "clear_ok"})
    BY DEF Inv, RoundInv, SigUsr1, SeeServerOk, ClearServerOk, ForkFails, ForksDone,
         SeeAllReady, ReleaseChildren, Reap, CloseRound, ipc
  <2>2. spc # "ack"
    BY DEF Inv, RoundInv, SigUsr1, SeeServerOk, ClearServerOk, ForkFails, ForksDone,
         SeeAllReady, ReleaseChildren, Reap, CloseRound
  <2>3. rounds = 0 => pc0' = "exited"
    BY DEF Inv, RoundInv, SigUsr1, SeeServerOk, ClearServerOk, ForkFails, ForksDone,
         SeeAllReady, ReleaseChildren, Reap, CloseRound
  <2> QED
    BY <1>1, <1>2, <2>1, <2>2, <2>3 DEF Inv, RoundInv, server
<1>5. /\ CountInv' /\ ServerInv' /\ ChannelInv' /\ TornInv' /\ QueueInv'
      /\ FinitosInv' /\ OutInv' /\ Units' = Units
  BY <1>1, <1>2, <1>3, ClientFrame
<1>6. UnitsInv'
  BY <1>1, <1>2, <1>5 DEF Inv, UnitsInv, Pending
<1> QED
  BY <1>4, <1>5, <1>6 DEF Inv

LEMMA ClientCounters ==
  ASSUME Inv, Base', ResetCounters
  PROVE  Inv'
<1>1. /\ UNCHANGED <<n, rounds, server, serverOk, sem, fifo, shm, torn, msgq, pc, med, sent>>
      /\ pc0 \in {"init_mq", "init_client"} /\ pc0' \in {"init_client", "send"}
      /\ pc0 = "init_mq" => mqsem' = MsgQueueInit
      /\ pc0 = "init_client" => mqsem' = mqsem
      /\ pc0 = "init_mq" => pc0' = "init_client"
  BY DEF ResetCounters, Reset, children
<1>2. Pending /\ Pending'
  BY <1>1 DEF Pending, ResetPC
<1>3. \A c \in Chan : (NotReset(c)' <=> NotReset(c)) /\ Rest(c)' = Rest(c)
  BY <1>1 DEF NotReset, Rest
<1>4. RoundInv'
  BY <1>1, <1>2 DEF Inv, RoundInv, server
<1>5. /\ CountInv' /\ ServerInv' /\ ChannelInv' /\ TornInv' /\ QueueInv'
      /\ FinitosInv' /\ OutInv' /\ Units' = Units
  BY <1>1, <1>2, <1>3, ClientFrame
<1>6. UnitsInv'
  <2>1. CASE pc0 = "init_mq"
    BY <1>1, <1>5, <2>1, UnitsFinite, ConstantsAssumption DEF UnitsInv
  <2>2. CASE pc0 = "init_client"
    BY <1>1, <1>5, <2>2 DEF Inv, UnitsInv
  <2> QED
    BY <1>1, <2>1, <2>2
<1> QED
  BY <1>4, <1>5, <1>6 DEF Inv

\* The reset of a semaphore leaves its channel as it is: it only forgets, in
\* the semaphore, that there is a part in it.
LEMMA ClientGuards ==
  ASSUME Inv, Base', ResetGuards
  PROVE  Inv'
<1> USE DEF Inv, Base
<1>1. PICK C \in SUBSET Chan :
        /\ SetFree(C) /\ pc0 \in ResetPC /\ pc0' \in ResetPC \ {"init_client"}
        /\ pc0 # "wait_ok" /\ pc0' # "wait_ok"
        /\ \A c \in C : NotReset(c) /\ ~NotReset(c)'
        /\ \A c \in Chan \ C : NotReset(c)' <=> NotReset(c)
        /\ UNCHANGED <<fifo, shm, msgq, serverOk, n, rounds, pc, med, sent, server>>
  <2>1. CASE Reset("init_fifo1", "init_fifo2") /\ SetFree({Fifo1})
    BY <2>1, ChanFacts DEF Reset, ResetPC, NotReset, children, Fifo
  <2>2. CASE Reset("init_fifo2", "init_shm") /\ SetFree({Fifo2})
    BY <2>2, ChanFacts DEF Reset, ResetPC, NotReset, children, Fifo
  <2>3. CASE Reset("init_shm", "init_mq") /\ SetFree(Chan \ Fifo)
    BY <2>3, ChanFacts DEF Reset, ResetPC, NotReset, children, Fifo
  <2> QED
    BY <2>1, <2>2, <2>3 DEF ResetGuards
<1>2. Pending /\ Pending' /\ rounds # 0 /\ \A i \in Files : pc[i] = "none"
  BY <1>1 DEF Pending, RoundInv, ResetPC
<1>3. \A c \in Chan : Rest(c) = <<>> /\ Rest(c)' = <<>>
  BY <1>1 DEF Rest
<1>4. \A j \in Files : \A m : (Handed(j, m)' <=> Handed(j, m)) /\ (Due(j, m)' <=> Due(j, m))
  BY <1>1, <1>2 DEF Handed, Due, server
<1>5. /\ \A c \in C : sem'[c] = 2 /\ (c \in torn' <=> sem[c] = 1)
      /\ \A c \in Chan \ C : sem'[c] = sem[c] /\ (c \in torn' <=> c \in torn)
      /\ mqsem' = mqsem
  BY <1>1 DEF SetFree
<1>6. \A c \in Chan : Writers(c) = {} /\ Writers(c)' = {}
  BY <1>1, <1>2 DEF Writers
<1>7. \A c \in Chan : (Taken(c)' <=> Taken(c)) /\ (ServerHolds(c)' <=> ServerHolds(c))
  BY <1>1 DEF Taken, ServerHolds, server
<1>8. ASSUME NEW c \in C PROVE OneChannelInv(c)'
  <2>1. OneChannelInv(c)
    BY DEF ChannelInv
  <2>2. Loaded(c)' <=> Loaded(c)
    BY <1>1, <1>5, <2>1 DEF OneChannelInv, SemInv, Loaded
  <2>3. \A p : Holds(c, p)' <=> Holds(c, p)
    BY <1>1, <1>3, <1>7 DEF Holds
  <2>4. SemInv(c)'
    BY <1>1, <1>2, <1>5, <1>6 DEF SemInv
  <2>5. LoadedInv(c)'
    BY <1>4, <2>1, <2>2 DEF OneChannelInv, LoadedInv
  <2>6. DueInv(c)'
    BY <1>1, <1>4, <1>7, <2>1, <2>2, <2>3 DEF OneChannelInv, DueInv, server
  <2>7. FreeInv(c)'
    BY <1>1, <1>3, <1>6, <1>7, <2>1, <2>2 DEF OneChannelInv, FreeInv, server
  <2> QED
    BY <2>4, <2>5, <2>6, <2>7 DEF OneChannelInv
<1>9. ASSUME NEW c \in Chan \ C PROVE OneChannelInv(c)'
  BY <1>1, <1>2, <1>3, <1>4, <1>5, <1>6, <1>7, ChannelKeep DEF ChannelInv, server
<1>10. ChannelInv'
  BY <1>8, <1>9 DEF ChannelInv
<1>11. RoundInv'
  BY <1>1, <1>2 DEF RoundInv, server
<1>12. CountInv' /\ ServerInv' /\ OutInv'
  <2>1. Served' = Served
    BY <1>1 DEF Served, server
  <2> QED
    BY <1>1, <1>4, <2>1 DEF CountInv, ServerInv, OutInv, server
<1>13. TornInv'
  BY <1>1, <1>2 DEF TornInv
<1>14. QueueInv' /\ FinitosInv' /\ UnitsInv'
  BY <1>1, <1>2, <1>4 DEF QueueInv, InQueue, FinitosInv, Finitos, Listening, UnitsInv, server
<1> QED
  BY <1>10, <1>11, <1>12, <1>13, <1>14

\* The count goes behind whatever the last round has left in FIFO1.
LEMMA ClientSendCount ==
  ASSUME Inv, Base', SendCount
  PROVE  Inv'
<1> USE DEF Inv, Base
<1>1. /\ pc0 = "send" /\ pc0' = "wait_ok"
      /\ fifo' = [fifo EXCEPT ![Fifo1] = Append(@, Count(n))]
      /\ UNCHANGED <<sem, mqsem, shm, msgq, serverOk, n, rounds, torn, pc, med, sent, server>>
  BY DEF SendCount, children
<1>2. Pending /\ Pending' /\ rounds # 0 /\ \A i \in Files : pc[i] = "none"
  BY <1>1 DEF Pending, RoundInv, server
<1>3. \A j \in Files : \A m : (Handed(j, m)' <=> Handed(j, m)) /\ (Due(j, m)' <=> Due(j, m))
  BY <1>1, <1>2 DEF Handed, Due, server
<1>4. /\ \A c \in Chan : ~NotReset(c) /\ ~NotReset(c)' /\ Rest(c) = <<>>
      /\ \A c \in Chan \ {Fifo1} : Rest(c)' = <<>>
      /\ Rest(Fifo1)' = <<Count(n)>>
  BY <1>1, <1>2 DEF NotReset, Rest
<1>5. \A c \in Chan : Writers(c) = {} /\ Writers(c)' = {}
  BY <1>1, <1>2 DEF Writers
<1>6. \A c \in Chan : (Taken(c)' <=> Taken(c)) /\ (ServerHolds(c)' <=> ServerHolds(c))
  BY <1>1 DEF Taken, ServerHolds, server
<1>7. ASSUME NEW c \in Chan \ {Fifo1} PROVE OneChannelInv(c)'
  <2>1. IF c \in Fifo THEN fifo'[c] = fifo[c] ELSE shm'[c[2]] = shm[c[2]]
    BY <1>1 DEF GateInv, TypeOK
  <2> QED
    BY <1>1, <1>2, <1>3, <1>4, <1>5, <1>6, <2>1, ChannelKeep DEF ChannelInv, server
<1>8. OneChannelInv(Fifo1)'
  <2> DEFINE c == Fifo1
  <2>1. c \in Chan /\ c \in Fifo /\ OneChannelInv(c)
    BY ChanFacts DEF ChannelInv, Fifo
  <2>2. Loaded(c)' <=> Loaded(c)
    BY <1>1 DEF Loaded
  <2>3. fifo'[c] = Append(fifo[c], Count(n)) /\ Count(n) \in Counts
    BY <1>1, <2>1 DEF GateInv, TypeOK, Counts
  <2>4. ASSUME NEW p \in Parts, Holds(c, p) PROVE Holds(c, p)'
    <3>1. fifo[c] = IF Taken(c) THEN <<>> ELSE <<p>> \o <<>>
      BY <1>4, <2>1, <2>4 DEF Holds
    <3>2. fifo'[c] = IF Taken(c) THEN <<Count(n)>> ELSE <<p>> \o <<Count(n)>>
      <4>1. Append(<<>>, Count(n)) = <<Count(n)>>
        BY PipeFacts
      <4>2. \A S : p \in S /\ Count(n) \in S =>
              Append(<<p>> \o <<>>, Count(n)) = <<p>> \o <<Count(n)>>
        BY PipeFacts
      <4>3. Append(<<p>> \o <<>>, Count(n)) = <<p>> \o <<Count(n)>>
        BY <2>3, <4>2
      <4> QED
        BY <2>3, <3>1, <4>1, <4>3
    <3> QED
      BY <1>4, <1>6, <2>1, <3>2 DEF Holds
  <2>5. SemInv(c)'
    BY <1>1, <1>2, <1>4, <1>5, <2>1 DEF OneChannelInv, SemInv
  <2>6. LoadedInv(c)'
    BY <1>3, <2>1, <2>2 DEF OneChannelInv, LoadedInv
  <2>7. DueInv(c)'
    <3>1. \A i \in Files, m \in Guards : Part(i, m) \in Parts
      BY MessageKinds, GuardFacts
    <3> QED
      BY <1>1, <1>3, <1>6, <2>1, <2>2, <2>4, <3>1 DEF OneChannelInv, DueInv, server
  <2>8. FreeInv(c)'
    <3>1. ASSUME ~Loaded(c) PROVE fifo'[c] = Rest(c)'
      <4>1. fifo[c] = <<>>
        BY <1>4, <1>5, <2>1, <3>1 DEF OneChannelInv, FreeInv
      <4> QED
        BY <1>4, <2>3, <4>1, PipeFacts
    <3> QED
      BY <1>5, <1>6, <2>1, <2>2, <3>1 DEF OneChannelInv, FreeInv
  <2> QED
    BY <2>5, <2>6, <2>7, <2>8 DEF OneChannelInv
<1>9. ChannelInv'
  BY <1>7, <1>8 DEF ChannelInv
<1>10. RoundInv'
  BY <1>1, <1>2 DEF RoundInv, server
<1>11. CountInv' /\ ServerInv' /\ OutInv'
  <2>1. Served' = Served
    BY <1>1 DEF Served, server
  <2> QED
    BY <1>1, <1>3, <2>1 DEF CountInv, ServerInv, OutInv, server
<1>12. TornInv'
  BY <1>1, <1>2 DEF TornInv
<1>13. QueueInv' /\ FinitosInv' /\ UnitsInv'
  BY <1>1, <1>2, <1>3
     DEF QueueInv, InQueue, FinitosInv, Finitos, Listening, UnitsInv, Units, server, ResetPC
<1> QED
  BY <1>9, <1>10, <1>11, <1>12, <1>13

LEMMA ClientFork ==
  ASSUME Inv, Base', Fork
  PROVE  Inv'
<1> USE DEF Inv, Base
<1>1. /\ pc0 = "fork" /\ pc0' = "fork" /\ forked \in Files /\ pc[forked] = "none"
      /\ UNCHANGED <<sem, mqsem, fifo, shm, msgq, serverOk, n, rounds, torn, server>>
  BY ConstantsAssumption DEF Fork, GateInv, TypeOK, Forked, Files, ipc
<1>2. PICK k \in Files :
        /\ k = forked /\ pc[k] = "none" /\ pc'[k] = "load" /\ sent'[k] = {}
        /\ \A j \in Files \ {k} : pc'[j] = pc[j] /\ med'[j] = med[j] /\ sent'[j] = sent[j]
  BY <1>1 DEF Fork, GateInv, TypeOK
<1>3. ~Pending /\ ~Pending'
  BY <1>1 DEF Pending, ResetPC
<1>4. \A j \in Files : \A m : (Handed(j, m)' <=> Handed(j, m)) /\ (Due(j, m)' <=> Due(j, m))
  BY <1>1, <1>2, <1>3 DEF Handed, Due, server
<1>5. \A c \in Chan : /\ ~NotReset(c) /\ ~NotReset(c)'
                      /\ Rest(c) = <<>> /\ Rest(c)' = <<>>
  BY <1>1 DEF NotReset, Rest
<1>6. \A c \in Chan : /\ Writers(c)' = Writers(c)
                      /\ \A i \in Writers(c) : pc'[i] = pc[i] /\ med'[i] = med[i]
  BY <1>2 DEF Writers
<1>7. \A c \in Chan : (Taken(c)' <=> Taken(c)) /\ (ServerHolds(c)' <=> ServerHolds(c))
  BY <1>1 DEF Taken, ServerHolds, server
<1>8. ChannelInv'
  <2> SUFFICES ASSUME NEW c \in Chan PROVE OneChannelInv(c)'
    BY DEF ChannelInv
  <2> QED
    BY <1>1, <1>3, <1>4, <1>5, <1>6, <1>7, ChannelKeep DEF ChannelInv, server
<1>9. RoundInv'
  BY <1>1, <1>3 DEF RoundInv, server
<1>10. CountInv' /\ ServerInv' /\ OutInv'
  <2>1. Served' = Served
    BY <1>1 DEF Served, server
  <2> QED
    BY <1>1, <1>4, <2>1 DEF CountInv, ServerInv, OutInv, server
<1>11. TornInv'
  BY <1>1, <1>2 DEF TornInv
<1>12. Units' = Units
  BY <1>2, <1>4 DEF Units
<1>13. QueueInv' /\ FinitosInv' /\ UnitsInv'
  BY <1>1, <1>3, <1>4, <1>12
     DEF QueueInv, InQueue, FinitosInv, Finitos, Listening, UnitsInv, server
<1> QED
  BY <1>8, <1>9, <1>10, <1>11, <1>13

\* A SIGINT: the parts of the last round that are still on their way stay where
\* they are.
LEMMA ClientSigInt ==
  ASSUME Inv, Base', NEW k \in 0..MaxFiles, SigInt(k)
  PROVE  Inv'
<1> USE DEF Inv, Base
<1>1. /\ pc0 = "sleep" /\ pc0' = "init_fifo1" /\ rounds' = rounds + 1
      /\ \A i \in Files : pc'[i] = "none"
      /\ UNCHANGED <<sem, mqsem, fifo, shm, msgq, serverOk, torn, med, sent, server>>
  BY DEF SigInt, ipc
<1>2. ~Pending /\ Pending' /\ filesCounter = n
  BY <1>1 DEF Pending, ResetPC, RoundInv
<1>3. \A i \in Files : /\ ~Alive(i)
                       /\ i < filesCounter => pc[i] = "exited" /\ sent[i] = Media
  <2>1. \A i \in Files : ~Alive(i)
    BY <1>1 DEF PhaseInv
  <2>2. Loading = {} /\ n \in Nat
    BY <1>1, ConstantsAssumption DEF PhaseInv, GateInv, TypeOK
  <2>3. \A i \in Files : i < n => pc[i] # "none"
    BY <2>2 DEF Loading, Files
  <2> QED
    BY <1>2, <2>1, <2>3 DEF Alive, ChildInv
<1>4. \A j \in Files : \A m : (Handed(j, m)' <=> Handed(j, m)) /\ (Due(j, m)' <=> Due(j, m))
  BY <1>1, <1>2, <1>3 DEF Handed, Due, server
<1>5. \A c \in Chan : Writers(c) = {} /\ Writers(c)' = {}
  BY <1>1, <1>3 DEF Writers, Alive
<1>6. \A c \in Chan : (Taken(c)' <=> Taken(c)) /\ (ServerHolds(c)' <=> ServerHolds(c))
  BY <1>1 DEF Taken, ServerHolds, server
<1>7. \A c \in Chan : Rest(c) = <<>> /\ Rest(c)' = <<>> /\ NotReset(c)' /\ ~NotReset(c)
  BY <1>1 DEF Rest, NotReset
<1>8. ASSUME NEW c \in Chan PROVE OneChannelInv(c)'
  <2>1. OneChannelInv(c)
    BY DEF ChannelInv
  <2>2. Loaded(c)' <=> Loaded(c)
    BY <1>1 DEF Loaded
  <2>3. \A p : Holds(c, p)' <=> Holds(c, p)
    BY <1>1, <1>6, <1>7 DEF Holds
  <2>4. SemInv(c)'
    <3>1. rounds' # 0 /\ (rounds = 0 => rounds' = 1)
      BY <1>1 DEF GateInv, TypeOK
    <3> QED
      BY <1>1, <1>2, <1>5, <1>7, <2>1, <3>1 DEF OneChannelInv, SemInv
  <2>5. LoadedInv(c)' /\ DueInv(c)'
    BY <1>1, <1>4, <1>6, <2>1, <2>2, <2>3 DEF OneChannelInv, LoadedInv, DueInv, server
  <2>6. FreeInv(c)'
    BY <1>1, <1>5, <1>6, <1>7, <2>1, <2>2 DEF OneChannelInv, FreeInv, server
  <2> QED
    BY <2>4, <2>5, <2>6 DEF OneChannelInv
<1>9. ChannelInv'
  BY <1>8 DEF ChannelInv
<1>10. RoundInv'
  <2>1. serverOk' = 0 /\ spc' # "ack"
    BY <1>1 DEF RoundInv, GateInv, TypeOK, server
  <2>2. rounds' # 0
    BY <1>1 DEF GateInv, TypeOK
  <2> QED
    BY <1>1, <1>2, <1>3, <2>1, <2>2 DEF RoundInv, server
<1>11. CountInv' /\ ServerInv' /\ OutInv'
  <2>1. Served' = Served
    BY <1>1 DEF Served, server
  <2> QED
    BY <1>1, <1>4, <2>1 DEF CountInv, ServerInv, OutInv, server
<1>12. TornInv' /\ UnitsInv'
  BY <1>1 DEF TornInv, UnitsInv, ResetPC
<1>13. QueueInv'
  BY <1>1, <1>4 DEF QueueInv, InQueue, server
<1>14. FinitosInv'
  <2>1. Finitos' = Finitos /\ (Listening' <=> Listening)
    BY <1>1 DEF Finitos, Listening, server
  <2>2. rounds \in Nat
    BY DEF GateInv, TypeOK
  <2>3. Finitos' = rounds' - 1 - (IF Listening' THEN 0 ELSE 1)
    BY <1>1, <1>2, <2>1, <2>2 DEF FinitosInv
  <2> QED
    BY <1>2, <1>4, <2>1, <2>3 DEF FinitosInv
<1> QED
  BY <1>9, <1>10, <1>11, <1>12, <1>13, <1>14

LEMMA ClientStep ==
  ASSUME Inv, Base', (\E k \in 0..MaxFiles : SigInt(k)) \/ SigUsr1 \/ Client0
  PROVE  Inv'
BY ClientSigInt, ClientQuiet, ClientCounters, ClientGuards, ClientSendCount, ClientFork
   DEF Client0

-----------------------------------------------------------------------------
(* How many parts a round has.                                             *)

LEMMA ServedFacts ==
  ASSUME filesCounter \in Nat
  PROVE  IsFiniteSet(Served) /\ Cardinality(Served) = filesCounter * 4
<1> DEFINE S == (0..(filesCounter - 1)) \X Media
           f == [x \in S |-> Part(x[1], x[2])]
<1>1. IsFiniteSet(S) /\ Cardinality(S) = filesCounter * 4
  <2>1. IsFiniteSet(0..(filesCounter - 1)) /\ Cardinality(0..(filesCounter - 1)) = filesCounter
    BY FS_Interval
  <2>2. IsFiniteSet(Media) /\ Cardinality(Media) = 4
    <3>1. ASSUME NEW b \in Nat
          PROVE  IsFiniteSet(0..b) /\ Cardinality(0..b) = b + 1
      BY FS_Interval
    <3>2. 3 \in Nat /\ 3 + 1 = 4
      OBVIOUS
    <3>3. IsFiniteSet(0..3) /\ Cardinality(0..3) = 3 + 1
      BY <3>1, <3>2, Zenon
    <3> QED
      BY <3>2, <3>3 DEF Media
  <2> QED
    BY <2>1, <2>2, FS_Product, SMTT(60)
<1>2. f \in [S -> Served] /\ \A x \in S : f[x] = Part(x[1], x[2])
  BY DEF Served
<1>3. \A x, y \in S : f[x] = f[y] => x = y
  BY <1>2, PartFacts
<1>4. \A p \in Served : \E x \in S : f[x] = p
  <2> SUFFICES ASSUME NEW p \in Served PROVE \E x \in S : f[x] = p
    OBVIOUS
  <2>1. PICK i \in 0..(filesCounter - 1), m \in Media : p = Part(i, m)
    BY DEF Served
  <2>2. <<i, m>> \in S /\ f[<<i, m>>] = p
    BY <1>2, <2>1
  <2> QED
    BY <2>2
<1> HIDE DEF S, f
<1>5. f \in Bijection(S, Served)
  BY <1>2, <1>3, <1>4 DEF Bijection, Injection, Surjection, IsInjective
<1>6. ExistsBijection(S, Served)
  BY <1>5 DEF ExistsBijection
<1> QED
  BY <1>1, <1>6, FS_Bijection

LEMMA CountFacts ==
  ASSUME Inv
  PROVE  /\ filesCounter \in Nat /\ messages \subseteq Served
         /\ IsFiniteSet(messages) /\ messagesReceived = Cardinality(messages)
         /\ messagesReceived \in Nat /\ messagesReceived <= filesCounter * 4
         /\ messagesReceived = filesCounter * 4 => messages = Served
<1> USE DEF Inv, Base
<1>1. filesCounter \in Nat
  BY ConstantsAssumption DEF GateInv, TypeOK
<1>2. messages \subseteq Served
  BY <1>1 DEF CountInv, Served, Handed, Files
<1>3. /\ IsFiniteSet(messages) /\ Cardinality(messages) \in Nat
      /\ Cardinality(messages) <= filesCounter * 4
      /\ Cardinality(messages) = filesCounter * 4 => messages = Served
  BY <1>1, <1>2, ServedFacts, FS_Subset, FS_CardinalityType
<1> QED
  BY <1>1, <1>2, <1>3 DEF CountInv

\* When every part of the round is counted, none is due, and every file of the
\* round has been sent.
LEMMA AllCounted ==
  ASSUME Inv, messages = Served
  PROVE  /\ \A i \in Files, m \in Media : ~Due(i, m)
         /\ \A c \in Chan : ~Loaded(c)
         /\ \A i \in Files : i < filesCounter =>
              sent[i] = Media /\ \A m \in Media : Handed(i, m)
<1> USE DEF Inv, Base
<1>1. filesCounter \in Nat
  BY CountFacts
<1>2. \A i \in Files, m \in Media : i < filesCounter => Part(i, m) \in messages
  BY <1>1 DEF Served, Files
<1>3. \A i \in Files, m \in Media : ~Due(i, m)
  BY <1>2 DEF Due, Handed
<1>4. \A c \in Chan : ~Loaded(c)
  BY <1>3, GuardFacts DEF ChannelInv, OneChannelInv, LoadedInv
<1>5. \A i \in Files, m \in Media : i < filesCounter => Handed(i, m)
  BY <1>2, PartFacts DEF CountInv
<1>6. \A i \in Files : i < filesCounter => sent[i] = Media
  BY <1>5 DEF Handed, GateInv, TypeOK
<1> QED
  BY <1>3, <1>4, <1>5, <1>6

-----------------------------------------------------------------------------
(* The steps of the server.                                                *)

\* What no step of the server changes, except for taking up a round.
LEMMA ServerFrame ==
  ASSUME Inv, Server, ~ReadCount
  PROVE  /\ UNCHANGED <<pc0, n, rounds, torn, pc, med, sent, filesCounter>>
         /\ Pending' <=> Pending
         /\ \A c \in Chan : /\ NotReset(c)' <=> NotReset(c)
                            /\ Rest(c)' = Rest(c)
                            /\ Writers(c)' = Writers(c)
         /\ \A j \in Files : \A m :
              /\ Handed(j, m)' <=> Handed(j, m)
              /\ Due(j, m)' <=> Handed(j, m) /\ Part(j, m) \notin messages'
         /\ Served' = Served
         /\ RoundInv' /\ TornInv'
<1> USE DEF Inv, Base
<1>1. UNCHANGED <<pc0, n, rounds, torn, pc, med, sent, filesCounter>>
  BY DEF Server, SrvStart, SetServerOk, SrvPollFifo, SrvReadFifo,
         SrvPostFifo, SrvReceive, SrvPostQueue, SrvSnapshot, SrvReadShm,
         SrvPostShm, WriteOutputs, SendFinito, client, children
<1>2. \/ UNCHANGED serverOk /\ spc # "ack"
      \/ spc = "start" /\ serverOk' = 0
      \/ spc = "ack" /\ serverOk' = 1
  BY DEF Server, SrvStart, SetServerOk, SrvPollFifo, SrvReadFifo,
         SrvPostFifo, SrvReceive, SrvPostQueue, SrvSnapshot, SrvReadShm,
         SrvPostShm, WriteOutputs, SendFinito, ipc
<1>3. spc' \notin {"start", "ack"}
  BY DEF Server, SrvStart, SetServerOk, SrvPollFifo, SrvReadFifo,
         SrvPostFifo, SrvReceive, SrvPostQueue, SrvSnapshot, SrvReadShm,
         SrvPostShm, WriteOutputs, SendFinito, LoopTest, AfterFifo, NextSlot
<1>4. Pending' <=> Pending
  BY <1>1, <1>2, <1>3 DEF Pending, RoundInv
<1>5. \A c \in Chan : /\ NotReset(c)' <=> NotReset(c)
                      /\ Rest(c)' = Rest(c)
                      /\ Writers(c)' = Writers(c)
  BY <1>1, <1>4 DEF NotReset, Rest, Writers
<1>6. \A j \in Files : \A m :
        /\ Handed(j, m)' <=> Handed(j, m)
        /\ Due(j, m)' <=> Handed(j, m) /\ Part(j, m) \notin messages'
  BY <1>1, <1>4 DEF Handed, Due
<1>7. Served' = Served
  BY <1>1 DEF Served
<1>8. RoundInv'
  BY <1>1, <1>2, <1>3, <1>4 DEF RoundInv
<1>9. TornInv'
  BY <1>1 DEF TornInv
<1> QED
  BY <1>1, <1>4, <1>5, <1>6, <1>7, <1>8, <1>9

\* A step of the server that takes nothing and posts nothing: it may only turn
\* to a channel that is loaded.
LEMMA ServerLooks ==
  ASSUME Inv, Server, ~ReadCount,
         UNCHANGED <<sem, fifo, shm, messages, hand>>,
         spc # "post", spc' # "post",
         \A c \in Chan : ServerHolds(c)' => ServerHolds(c) \/ Loaded(c),
         \A k \in full' : k \in full \/ Loaded(Shm(k))
  PROVE  /\ ChannelInv' /\ Units' = Units
         /\ \A j \in Files : \A m : Due(j, m)' <=> Due(j, m)
<1>1. \A j \in Files : \A m : Due(j, m)' <=> Due(j, m)
  BY ServerFrame DEF Due
<1>2. Units' = Units
  BY <1>1, ServerFrame DEF Units
<1>3. ASSUME NEW c \in Chan PROVE OneChannelInv(c)'
  <2>1. ~Taken(c) /\ ~Taken(c)'
    BY DEF Taken
  <2>2. c \notin Fifo /\ c[2] \in full' => c[2] \in full \/ Loaded(c)
    BY ChanFacts
  <2> QED
    BY <1>1, <2>1, <2>2, ServerFrame, ChannelKeep DEF Inv, ChannelInv
<1> QED
  BY <1>1, <1>2, <1>3 DEF ChannelInv

LEMMA SrvStartStep ==
  ASSUME Inv, Base', SrvStart
  PROVE  Inv'
<1> USE DEF Inv, Base
<1>1. /\ spc = "start" /\ spc' = "count"
      /\ UNCHANGED <<sem, mqsem, fifo, shm, msgq, at, hand, full, filesCounter,
                     messagesReceived, messages, out>>
  BY DEF SrvStart
<1>2. Server /\ ~ReadCount
  BY <1>1 DEF Server, ReadCount
<1>3. ChannelInv' /\ Units' = Units /\ \A j \in Files : \A m : Due(j, m)' <=> Due(j, m)
  BY <1>1, <1>2, ServerLooks DEF ServerHolds
<1>4. CountInv' /\ ServerInv' /\ OutInv'
  BY <1>1, <1>2, ServerFrame DEF CountInv, ServerInv, OutInv
<1>5. QueueInv' /\ UnitsInv' /\ FinitosInv'
  BY <1>1, <1>2, <1>3, ServerFrame
     DEF QueueInv, InQueue, UnitsInv, FinitosInv, Finitos, Listening
<1> QED
  BY <1>2, <1>3, <1>4, <1>5, ServerFrame

LEMMA SetServerOkStep ==
  ASSUME Inv, Base', SetServerOk
  PROVE  Inv'
<1> USE DEF Inv, Base
<1>1. /\ spc = "ack" /\ spc' = (IF messagesReceived = filesCounter * 4 THEN "write" ELSE "poll")
      /\ at' = Fifo1
      /\ UNCHANGED <<sem, mqsem, fifo, shm, msgq, hand, full, filesCounter,
                     messagesReceived, messages, out>>
  BY DEF SetServerOk, LoopTest, Expected
<1>2. Server /\ ~ReadCount
  BY <1>1 DEF Server, ReadCount
<1>3. ChannelInv' /\ Units' = Units /\ \A j \in Files : \A m : Due(j, m)' <=> Due(j, m)
  BY <1>1, <1>2, ServerLooks DEF ServerHolds
<1>4. CountInv'
  BY <1>1, <1>2, ServerFrame, CountFacts DEF CountInv
<1>5. ServerInv' /\ OutInv'
  BY <1>1, <1>2, ServerFrame DEF ServerInv, OutInv, Fifo
<1>6. QueueInv' /\ UnitsInv' /\ FinitosInv'
  BY <1>1, <1>2, <1>3, ServerFrame
     DEF QueueInv, InQueue, UnitsInv, FinitosInv, Finitos, Listening
<1> QED
  BY <1>2, <1>3, <1>4, <1>5, <1>6, ServerFrame

LEMMA SrvPollFifoStep ==
  ASSUME Inv, Base', SrvPollFifo
  PROVE  Inv'
<1> USE DEF Inv, Base
<1>1. /\ spc = "poll" /\ at \in Fifo /\ full = {}
      /\ \/ sem[at] = 1 /\ spc' = "read" /\ at' = at
         \/ spc' = "poll" /\ at' = Fifo2
         \/ spc' = "msgrcv" /\ at' = at
      /\ UNCHANGED <<sem, mqsem, fifo, shm, msgq, hand, full, filesCounter,
                     messagesReceived, messages, out>>
  BY DEF SrvPollFifo, AfterFifo, ServerInv, ipc
<1>2. Server /\ ~ReadCount
  BY <1>1 DEF Server, ReadCount
<1>3. ChannelInv' /\ Units' = Units /\ \A j \in Files : \A m : Due(j, m)' <=> Due(j, m)
  BY <1>1, <1>2, ServerLooks DEF ServerHolds, Loaded
<1>4. CountInv' /\ ServerInv' /\ OutInv'
  BY <1>1, <1>2, ServerFrame DEF CountInv, ServerInv, OutInv, Fifo
<1>5. QueueInv' /\ UnitsInv' /\ FinitosInv'
  BY <1>1, <1>2, <1>3, ServerFrame
     DEF QueueInv, InQueue, UnitsInv, FinitosInv, Finitos, Listening
<1> QED
  BY <1>2, <1>3, <1>4, <1>5, ServerFrame

\* A server that listens has counted every part of the last round, and nobody
\* is using a channel.
LEMMA ServerListens ==
  ASSUME Inv, Listening
  PROVE  /\ \A i \in Files, m \in Media : ~Due(i, m)
         /\ \A i \in Files : pc[i] \notin {"write", "unlock"}
         /\ \A c \in Chan : ~Loaded(c) /\ Writers(c) = {}
         /\ \A c \in Fifo : fifo[c] = Rest(c)
<1> USE DEF Inv, Base
<1>1. /\ \A i \in Files, m \in Media : ~Due(i, m)
      /\ \A c \in Chan : ~Loaded(c)
      /\ \A i \in Files : i < filesCounter => sent[i] = Media
  <2>1. messages = Served
    BY DEF CountInv, Listening
  <2> QED
    BY <2>1, AllCounted
<1>2. \A i \in Files : pc[i] \notin {"write", "unlock"}
  <2> SUFFICES ASSUME NEW i \in Files, pc[i] \in {"write", "unlock"} PROVE FALSE
    OBVIOUS
  <2>1. pc0 = "reap" /\ i < n
    BY DEF PhaseInv, Alive, Sending, GateInv, Forked
  <2>2. filesCounter = n
    BY <2>1 DEF RoundInv, Pending, ResetPC
  <2> QED
    BY <1>1, <2>1, <2>2 DEF ChildInv, GateInv, TypeOK
<1>3. \A c \in Chan : Writers(c) = {}
  BY <1>2 DEF Writers
<1>4. \A c \in Fifo : fifo[c] = Rest(c)
  BY <1>1, <1>3 DEF ChannelInv, OneChannelInv, FreeInv, Chan
<1> QED
  BY <1>1, <1>2, <1>3, <1>4

\* The server takes up a round: nothing of the round before is left.
LEMMA ReadCountStep ==
  ASSUME Inv, Base', ReadCount
  PROVE  Inv'
<1> USE DEF Inv, Base
<1>1. /\ spc = "count" /\ spc' = "ack" /\ fifo[Fifo1] # <<>>
      /\ filesCounter' = Head(fifo[Fifo1]).n
      /\ fifo' = [fifo EXCEPT ![Fifo1] = Tail(@)]
      /\ messagesReceived' = 0 /\ messages' = {} /\ out' = [i \in Files |-> {}]
      /\ UNCHANGED <<pc0, n, rounds, torn, pc, med, sent, sem, mqsem, shm, msgq,
                     serverOk, at, hand, full>>
  BY DEF ReadCount, client, children
<1>2. Listening
  BY <1>1 DEF Listening
<1>3. \A i \in Files, m \in Media : ~Due(i, m)
  BY <1>2, ServerListens
<1>4. \A c \in Chan : ~Loaded(c) /\ Writers(c) = {} /\ Writers(c)' = {}
  BY <1>1, <1>2, ServerListens DEF Writers
<1>5. \A c \in Fifo : fifo[c] = Rest(c)
  BY <1>2, ServerListens
<1>6. pc0 = "wait_ok" /\ Pending /\ fifo[Fifo1] = <<Count(n)>>
  BY <1>1, <1>5 DEF Rest, Fifo
<1>7. ~Pending' /\ filesCounter' = n /\ fifo'[Fifo1] = <<>>
  <2>1. Count(n).n = n /\ Head(<<Count(n)>>) = Count(n) /\ Tail(<<Count(n)>>) = <<>>
    BY DEF Count
  <2>2. fifo'[Fifo1] = Tail(fifo[Fifo1])
    BY <1>1 DEF GateInv, TypeOK, Fifo
  <2> QED
    BY <1>1, <1>6, <2>1, <2>2 DEF Pending, ResetPC
<1>8. /\ \A i \in Files : pc[i] = "none"
      /\ serverOk = 0 /\ rounds # 0
  BY <1>6 DEF RoundInv
<1>9. \A i \in Files, m \in Media : ~Handed(i, m)' /\ ~Due(i, m)'
  BY <1>1, <1>7, <1>8 DEF Handed, Due
<1>10. RoundInv'
  BY <1>1, <1>6, <1>7, <1>8 DEF RoundInv
<1>11. CountInv' /\ OutInv'
  BY <1>1, FS_EmptySet DEF CountInv, OutInv
<1>12. ServerInv'
  BY <1>1 DEF ServerInv
<1>13. ASSUME NEW c \in Chan PROVE OneChannelInv(c)'
  <2>1. ~Loaded(c) /\ ~Loaded(c)' /\ OneChannelInv(c)
    BY <1>1, <1>4 DEF Loaded, ChannelInv
  <2>2. ~NotReset(c) /\ ~NotReset(c)'
    BY <1>1, <1>6 DEF NotReset
  <2>3. SemInv(c)'
    BY <1>1, <1>4, <2>1, <2>2 DEF OneChannelInv, SemInv, Loaded
  <2>4. LoadedInv(c)' /\ DueInv(c)'
    BY <1>9, <2>1, GuardFacts DEF LoadedInv, DueInv
  <2>5. c \in Fifo => fifo'[c] = Rest(c)'
    BY <1>1, <1>5, <1>7 DEF Rest, GateInv, TypeOK
  <2>6. FreeInv(c)'
    BY <1>1, <1>4, <2>1, <2>5 DEF OneChannelInv, FreeInv, ServerHolds
  <2> QED
    BY <2>3, <2>4, <2>6 DEF OneChannelInv
<1>14. ChannelInv'
  BY <1>13 DEF ChannelInv
<1>15. TornInv'
  BY <1>1 DEF TornInv
<1>16. QueueInv'
  BY <1>1, <1>3, <1>9, GuardFacts DEF QueueInv, InQueue
<1>17. UnitsInv'
  <2>1. Units = {} /\ Units' = {}
    BY <1>1, <1>3, <1>8, <1>9, GuardFacts DEF Units
  <2> QED
    BY <1>1, <2>1 DEF UnitsInv
<1>18. FinitosInv'
  <2>1. Finitos' = Finitos /\ rounds \in Nat
    BY <1>1 DEF Finitos, GateInv, TypeOK
  <2> QED
    BY <1>1, <1>6, <1>7, <1>9, <2>1, GuardFacts DEF FinitosInv, Listening
<1> QED
  BY <1>10, <1>11, <1>12, <1>14, <1>15, <1>16, <1>17, <1>18

\* The channel that the server reads, or has read, holds the one part that is
\* due on it.
LEMMA ServerHas ==
  ASSUME Inv, spc \in {"read", "post"}
  PROVE  \E i \in Files, m \in Guards :
           /\ ChanOf(i, m) = at /\ Due(i, m) /\ Loaded(at) /\ Holds(at, Part(i, m))
           /\ spc = "post" => hand = Part(i, m)
           /\ \A j \in Files, l \in Guards : ChanOf(j, l) = at /\ Due(j, l) => j = i /\ l = m
<1> USE DEF Inv, Base
<1>1. PICK c \in Chan : c = at
  BY DEF GateInv, TypeOK
<1>2. OneChannelInv(c) /\ ServerHolds(c)
  BY <1>1 DEF ChannelInv, ServerHolds
<1>3. Loaded(c)
  BY <1>2 DEF OneChannelInv, FreeInv
<1>4. PICK i \in Files, m \in Guards : ChanOf(i, m) = c /\ Due(i, m)
  BY <1>2, <1>3 DEF OneChannelInv, LoadedInv
<1>5. Holds(c, Part(i, m)) /\ (Taken(c) => hand = Part(i, m))
  BY <1>2, <1>4 DEF OneChannelInv, DueInv
<1>6. ASSUME NEW j \in Files, NEW l \in Guards, ChanOf(j, l) = c, Due(j, l)
      PROVE  j = i /\ l = m
  <2>1. Holds(c, Part(j, l)) /\ (Taken(c) => hand = Part(j, l))
    BY <1>2, <1>6 DEF OneChannelInv, DueInv
  <2>2. CASE Taken(c) \/ c \notin Fifo
    BY <1>5, <2>1, <2>2, PartFacts DEF Holds
  <2>3. CASE ~Taken(c) /\ c \in Fifo
    <3>1. PICK r : r = Rest(c)
      OBVIOUS
    <3>2. fifo[c] = <<Part(i, m)>> \o r /\ fifo[c] = <<Part(j, l)>> \o r
      BY <1>5, <2>1, <2>3, <3>1 DEF Holds
    <3>3. r = <<>> \/ \E x \in Parts \cup {Count(n)} : r = <<x>>
      BY <3>1 DEF Rest
    <3>4. \A p \in Parts : Head(<<p>> \o r) = p
      <4> SUFFICES ASSUME NEW p \in Parts PROVE Head(<<p>> \o r) = p
        OBVIOUS
      <4>1. p \in Parts \cup {Count(n)}
        OBVIOUS
      <4> QED
        BY <3>3, <4>1, PipeFacts
    <3>5. Part(i, m) \in Parts /\ Part(j, l) \in Parts
      BY MessageKinds, GuardFacts
    <3> QED
      BY <3>2, <3>4, <3>5, PartFacts
  <2> QED
    BY <2>2, <2>3
<1> QED
  BY <1>1, <1>3, <1>4, <1>5, <1>6 DEF Taken

\* A channel that a step of the server leaves alone.
LEMMA ServerKeeps ==
  ASSUME Inv, Server, ~ReadCount, NEW c \in Chan,
         sem'[c] = sem[c], IF c \in Fifo THEN fifo'[c] = fifo[c] ELSE shm'[c[2]] = shm[c[2]],
         ~Taken(c), ~Taken(c)',
         ServerHolds(c)' => ServerHolds(c) \/ Loaded(c),
         c \notin Fifo /\ c[2] \in full' => c[2] \in full \/ Loaded(c),
         \A i \in Files, m \in Guards : ChanOf(i, m) = c => (Due(i, m)' <=> Due(i, m))
  PROVE  OneChannelInv(c)'
BY ServerFrame, ChannelKeep DEF Inv, ChannelInv

\* The server takes the part off the channel it has found full.
LEMMA ServerReads ==
  ASSUME Inv, Base', SrvReadFifo \/ SrvReadShm
  PROVE  Inv'
<1> USE DEF Inv, Base
<1>1. /\ spc = "read" /\ spc' = "post"
      /\ UNCHANGED <<sem, mqsem, shm, msgq, at, full, filesCounter,
                     messagesReceived, messages, out>>
      /\ IF at \in Fifo
           THEN hand' = Head(fifo[at]) /\ fifo' = [fifo EXCEPT ![at] = Tail(@)]
           ELSE hand' = shm[at[2]] /\ fifo' = fifo
  BY DEF SrvReadFifo, SrvReadShm, ipc
<1>2. Server /\ ~ReadCount
  BY <1>1 DEF Server, ReadCount
<1>3. \A j \in Files : \A m : Due(j, m)' <=> Due(j, m)
  BY <1>1, <1>2, ServerFrame DEF Due
<1>4. PICK c \in Chan : c = at
  BY DEF GateInv, TypeOK
<1>5. PICK i \in Files, m \in Guards :
        /\ ChanOf(i, m) = c /\ Due(i, m) /\ Loaded(c) /\ Holds(c, Part(i, m))
        /\ \A j \in Files, l \in Guards : ChanOf(j, l) = c /\ Due(j, l) => j = i /\ l = m
  BY <1>1, <1>4, ServerHas
<1>6. /\ ~Taken(c) /\ Taken(c)' /\ (Loaded(c)' <=> Loaded(c))
      /\ \A d \in Chan \ {c} : ~Taken(d) /\ ~Taken(d)' /\ ~ServerHolds(d)'
  BY <1>1, <1>2, <1>4, ServerFrame DEF Taken, Loaded, ServerHolds
<1>7. hand' = Part(i, m) /\ Holds(c, Part(i, m))'
  <2>1. CASE c \in Fifo
    <3>1. PICK r : r = Rest(c)
      OBVIOUS
    <3>2. fifo[c] = <<Part(i, m)>> \o r
      BY <1>5, <1>6, <2>1, <3>1 DEF Holds
    <3>3. Head(fifo[c]) = Part(i, m) /\ Tail(fifo[c]) = r
      <4>0. PICK S : S = Parts \cup {Count(n)}
        OBVIOUS
      <4>1. r = <<>> \/ \E x \in S : r = <<x>>
        BY <3>1, <4>0 DEF Rest
      <4>2. PICK p \in S : p = Part(i, m)
        BY <4>0, MessageKinds, GuardFacts
      <4>3. Head(<<p>> \o r) = p /\ Tail(<<p>> \o r) = r
        BY <4>1, PipeFacts
      <4> QED
        BY <3>2, <4>2, <4>3
    <3>4. hand' = Part(i, m) /\ fifo'[c] = r
      BY <1>1, <1>4, <2>1, <3>3 DEF GateInv, TypeOK
    <3>5. Rest(c)' = r
      BY <1>2, <3>1, ServerFrame
    <3> QED
      BY <1>6, <2>1, <3>4, <3>5 DEF Holds
  <2>2. CASE c \notin Fifo
    BY <1>1, <1>4, <1>5, <2>2 DEF Holds
  <2> QED
    BY <2>1, <2>2
<1>8. OneChannelInv(c)'
  <2>1. OneChannelInv(c)
    BY DEF ChannelInv
  <2>2. SemInv(c)'
    BY <1>1, <1>2, <2>1, ServerFrame DEF OneChannelInv, SemInv
  <2>3. LoadedInv(c)'
    BY <1>3, <1>5, <1>6 DEF LoadedInv
  <2>4. DueInv(c)'
    <3> SUFFICES ASSUME NEW j \in Files, NEW l \in Guards, ChanOf(j, l) = c, Due(j, l)'
                 PROVE  j = i /\ l = m
      BY <1>5, <1>6, <1>7 DEF DueInv
    <3> QED
      BY <1>3, <1>5
  <2>5. FreeInv(c)'
    BY <1>5, <1>6 DEF FreeInv
  <2> QED
    BY <2>2, <2>3, <2>4, <2>5 DEF OneChannelInv
<1>9. ASSUME NEW d \in Chan \ {c} PROVE OneChannelInv(d)'
  <2>1. IF d \in Fifo THEN fifo'[d] = fifo[d] ELSE shm'[d[2]] = shm[d[2]]
    BY <1>1, <1>4 DEF GateInv, TypeOK
  <2> QED
    BY <1>1, <1>2, <1>3, <1>6, <2>1, ServerKeeps
<1>10. ChannelInv'
  BY <1>8, <1>9 DEF ChannelInv
<1>11. CountInv' /\ OutInv'
  BY <1>1, <1>2, ServerFrame DEF CountInv, OutInv
<1>12. ServerInv'
  BY <1>1, <1>7, PartFacts DEF ServerInv
<1>13. QueueInv' /\ FinitosInv'
  BY <1>1, <1>2, <1>3, GuardFacts, ServerFrame
     DEF QueueInv, InQueue, FinitosInv, Finitos, Listening
<1>14. UnitsInv'
  <2>1. Units' = Units
    BY <1>2, <1>3, ServerFrame DEF Units
  <2> QED
    BY <1>1, <1>2, <2>1, ServerFrame DEF UnitsInv
<1> QED
  BY <1>2, <1>10, <1>11, <1>12, <1>13, <1>14, ServerFrame

\* The part in the server's hand is counted, once.
LEMMA ServerAccepts ==
  ASSUME Inv, Server, ~ReadCount, Accept, NEW i \in Files, NEW m \in Media,
         hand = Part(i, m), Due(i, m), spc' \notin {"start", "count", "finito"},
         spc' = "write" => messagesReceived + 1 = filesCounter * 4
  PROVE  /\ CountInv'
         /\ \A j \in Files : \A l : Due(j, l)' <=> Due(j, l) /\ ~(j = i /\ l = m)
<1> USE DEF Inv, Base
<1>1. messages' = messages \cup {Part(i, m)} /\ messagesReceived' = messagesReceived + 1
  BY DEF Accept
<1>2. \A j \in Files : \A l : Due(j, l)' <=> Due(j, l) /\ ~(j = i /\ l = m)
  BY <1>1, ServerFrame, PartFacts DEF Due
<1>3. messagesReceived' = Cardinality(messages')
  <2>1. Part(i, m) \notin messages
    BY DEF Due
  <2>2. IsFiniteSet(messages) /\ Cardinality(messages) = messagesReceived
    BY CountFacts
  <2>3. Cardinality(messages \cup {Part(i, m)}) = Cardinality(messages) + 1
    BY <2>1, <2>2, FS_AddElement
  <2> QED
    BY <1>1, <2>2, <2>3
<1>4. \A p \in messages' : \E j \in Files, l \in Media : p = Part(j, l) /\ Handed(j, l)'
  BY <1>1, ServerFrame DEF CountInv, Due
<1>5. spc' = "write" => messages' = Served'
  <2>1. messages' \subseteq Served
    BY <1>1, CountFacts DEF Served, Due, Handed, Files
  <2>2. spc' = "write" => Cardinality(messages') = Cardinality(Served)
    BY <1>1, <1>3, CountFacts, ServedFacts
  <2> QED
    BY <2>1, <2>2, CountFacts, ServedFacts, FS_Subset, ServerFrame
<1> QED
  BY <1>2, <1>3, <1>4, <1>5 DEF CountInv

\* What the posts of the server on a guarded channel have in common.
LEMMA ServerPosts ==
  ASSUME Inv, SrvPostFifo \/ SrvPostShm
  PROVE  /\ spc = "post" /\ spc' \in {"poll", "msgrcv", "read", "write"} /\ Post(at) /\ Accept
         /\ UNCHANGED <<mqsem, fifo, shm, msgq, filesCounter, out>>
         /\ spc' = "write" => messagesReceived + 1 = filesCounter * 4
         /\ \/ full' = full /\ at' \in Fifo /\ spc' # "read" /\ at \in Fifo
            \/ /\ at \notin Fifo /\ full' = full \ {at[2]}
               /\ \/ full' = {} /\ at' = Fifo1 /\ spc' # "read"
                  \/ \E k \in full' : spc' = "read" /\ at' = Shm(k)
<1>1. CASE SrvPostFifo
  BY <1>1 DEF SrvPostFifo, AfterFifo, Fifo
<1>2. CASE SrvPostShm
  BY <1>2 DEF SrvPostShm, NextSlot, LoopTest, Expected
<1> QED
  BY <1>1, <1>2

\* The slots that the server has still to visit are full.
LEMMA FullLoaded ==
  ASSUME Inv
  PROVE  \A k \in full : Loaded(Shm(k))
<1> SUFFICES ASSUME NEW k \in full PROVE Loaded(Shm(k))
  OBVIOUS
<1>1. k \in Slot
  BY DEF Inv, Base, GateInv, TypeOK
<1>2. Shm(k) \in Chan \ Fifo /\ Shm(k)[2] = k
  BY <1>1, ChanFacts
<1> QED
  BY <1>2 DEF Inv, ChannelInv, OneChannelInv, FreeInv

LEMMA ServerPostsStep ==
  ASSUME Inv, Base', SrvPostFifo \/ SrvPostShm
  PROVE  Inv'
<1> USE DEF Inv, Base
<1>1. Server /\ ~ReadCount
  BY ServerPosts DEF Server, ReadCount
<1>2. PICK c \in Chan : c = at
  BY DEF GateInv, TypeOK
<1>3. PICK i \in Files, m \in Guards :
        /\ ChanOf(i, m) = c /\ Due(i, m) /\ Loaded(c) /\ Holds(c, Part(i, m))
        /\ hand = Part(i, m)
        /\ \A j \in Files, l \in Guards : ChanOf(j, l) = c /\ Due(j, l) => j = i /\ l = m
  BY <1>2, ServerPosts, ServerHas
<1>4. /\ CountInv'
      /\ \A j \in Files : \A l : Due(j, l)' <=> Due(j, l) /\ ~(j = i /\ l = m)
  <2>1. m \in Media
    BY GuardFacts
  <2> QED
    BY <1>1, <1>3, <2>1, ServerPosts, ServerAccepts
<1>5. sem'[c] = sem[c] + 1 /\ \A d \in Chan \ {c} : sem'[d] = sem[d]
  BY <1>2, ServerPosts DEF Post, GateInv, TypeOK
<1>6. OneChannelInv(c) /\ FreeInv(c)'
  <2>1. OneChannelInv(c)
    BY DEF ChannelInv
  <2>2. ~ServerHolds(c)' /\ (c \notin Fifo => c[2] \notin full')
    <3>1. CASE c \in Fifo
      BY <1>2, <3>1, ServerPosts DEF ServerHolds
    <3>2. CASE c \notin Fifo
      BY <1>2, <3>2, ServerPosts, ChanFacts DEF ServerHolds, GateInv, TypeOK
    <3> QED
      BY <3>1, <3>2
  <2>3. Writers(c) = {} /\ Writers(c)' = {}
    BY <1>1, <1>3, <2>1, ServerFrame DEF OneChannelInv, SemInv, Loaded
  <2>4. c \in Fifo => fifo'[c] = Rest(c)'
    BY <1>1, <1>2, <1>3, ServerFrame, ServerPosts DEF Holds, Taken
  <2> QED
    BY <2>1, <2>2, <2>3, <2>4 DEF FreeInv
<1>7. OneChannelInv(c)'
  <2>1. ~Loaded(c)' /\ SemInv(c)'
    BY <1>1, <1>3, <1>5, <1>6, ServerFrame DEF OneChannelInv, SemInv, Loaded
  <2>2. LoadedInv(c)' /\ DueInv(c)'
    BY <1>3, <1>4, <2>1 DEF LoadedInv, DueInv
  <2> QED
    BY <1>6, <2>1, <2>2 DEF OneChannelInv
<1>8. ASSUME NEW d \in Chan \ {c} PROVE OneChannelInv(d)'
  <2>1. ~Taken(d) /\ ~Taken(d)'
    BY <1>2, ServerPosts DEF Taken
  <2>2. \A k \in full : Loaded(Shm(k))
    BY FullLoaded
  <2>3. ServerHolds(d)' => Loaded(d)
    BY <2>1, <2>2, ServerPosts DEF ServerHolds, Taken
  <2>4. full' \subseteq full
    BY ServerPosts
  <2>5. \A j \in Files, l \in Guards : ChanOf(j, l) = d => (Due(j, l)' <=> Due(j, l))
    BY <1>3, <1>4
  <2> QED
    BY <1>1, <1>5, <2>1, <2>3, <2>4, <2>5, ServerKeeps, ServerPosts
<1>9. ChannelInv'
  BY <1>7, <1>8 DEF ChannelInv
<1>10. ServerInv'
  BY ServerPosts, ChanFacts DEF ServerInv, Accept, Fifo, GateInv, TypeOK
<1>11. \A j \in Files : Due(j, MEDIA_MSGQUEUE)' <=> Due(j, MEDIA_MSGQUEUE)
  BY <1>4 DEF Guards
<1>12. QueueInv'
  BY <1>11, ServerPosts DEF QueueInv, InQueue
<1>13. UnitsInv'
  <2>1. Units' = Units
    BY <1>1, <1>11, ServerFrame DEF Units
  <2> QED
    BY <1>1, <2>1, ServerFrame, ServerPosts DEF UnitsInv
<1>14. FinitosInv'
  <2>1. Finitos' = Finitos /\ ~Listening /\ ~Listening'
    BY ServerPosts DEF Finitos, Listening
  <2> QED
    BY <1>1, <2>1, ServerFrame DEF FinitosInv
<1>15. OutInv'
  <2>1. filesCounter' = filesCounter /\ out' = out
    BY ServerPosts
  <2>2. spc \notin {"finito", "start", "count"} /\ spc' \notin {"finito", "start", "count"}
    BY ServerPosts
  <2> QED
    BY <2>1, <2>2 DEF OutInv
<1> QED
  BY <1>1, <1>4, <1>9, <1>10, <1>12, <1>13, <1>14, <1>15, ServerFrame

\* One snapshot of the slots: those to visit are full.
LEMMA SrvSnapshotStep ==
  ASSUME Inv, Base', SrvSnapshot
  PROVE  Inv'
<1> USE DEF Inv, Base
<1>1. /\ spc = "snap" /\ spc' \in {"poll", "read", "write"} /\ full' = FullSlots
      /\ spc' = "write" => messagesReceived = filesCounter * 4
      /\ \/ full' = {} /\ at' = Fifo1 /\ spc' # "read"
         \/ \E k \in full' : spc' = "read" /\ at' = Shm(k)
      /\ UNCHANGED <<sem, mqsem, fifo, shm, msgq, hand, filesCounter,
                     messagesReceived, messages, out>>
  BY DEF SrvSnapshot, NextSlot, LoopTest, Expected, ipc
<1>2. Server /\ ~ReadCount
  BY <1>1 DEF Server, ReadCount
<1>3. \A k \in full' : k \in Slot /\ Loaded(Shm(k))
  BY <1>1 DEF FullSlots, Loaded
<1>4. \A c \in Chan : ServerHolds(c)' => Loaded(c)
  BY <1>1, <1>3 DEF ServerHolds
<1>5. ChannelInv' /\ Units' = Units /\ \A j \in Files : \A m : Due(j, m)' <=> Due(j, m)
  BY <1>1, <1>2, <1>3, <1>4, ServerLooks
<1>6. CountInv'
  BY <1>1, <1>2, ServerFrame, CountFacts DEF CountInv
<1>7. ServerInv'
  BY <1>1, <1>3, ChanFacts DEF ServerInv, Fifo
<1>8. OutInv'
  BY <1>1 DEF OutInv
<1>9. QueueInv' /\ UnitsInv' /\ FinitosInv'
  BY <1>1, <1>2, <1>5, ServerFrame
     DEF QueueInv, InQueue, UnitsInv, FinitosInv, Finitos, Listening
<1> QED
  BY <1>2, <1>5, <1>6, <1>7, <1>8, <1>9, ServerFrame

\* Every part of the round is in the outputs.
LEMMA WriteOutputsStep ==
  ASSUME Inv, Base', WriteOutputs
  PROVE  Inv'
<1> USE DEF Inv, Base
<1>1. /\ spc = "write" /\ spc' = "finito" /\ messages = Served
      /\ out' = [i \in Files |-> {m \in Media : Part(i, m) \in messages}]
      /\ UNCHANGED <<sem, mqsem, fifo, shm, msgq, at, hand, full, filesCounter,
                     messagesReceived, messages>>
  BY DEF WriteOutputs, CountInv, ipc
<1>2. Server /\ ~ReadCount
  BY <1>1 DEF Server, ReadCount
<1>3. ChannelInv' /\ Units' = Units /\ \A j \in Files : \A m : Due(j, m)' <=> Due(j, m)
  BY <1>1, <1>2, ServerLooks DEF ServerHolds
<1>4. CountInv' /\ ServerInv'
  BY <1>1, <1>2, ServerFrame DEF CountInv, ServerInv
<1>5. OutInv'
  <2>1. filesCounter \in Nat
    BY CountFacts
  <2>2. \A i \in Files : {m \in Media : Part(i, m) \in Served} =
                           IF i < filesCounter THEN Media ELSE {}
    BY <2>1, PartFacts DEF Served, Files
  <2> QED
    BY <1>1, <2>2 DEF OutInv
<1>6. QueueInv' /\ UnitsInv' /\ FinitosInv'
  BY <1>1, <1>2, <1>3, ServerFrame
     DEF QueueInv, InQueue, UnitsInv, FinitosInv, Finitos, Listening
<1> QED
  BY <1>2, <1>3, <1>4, <1>5, <1>6, ServerFrame

\* One more closing message, and the server listens.
LEMMA SendFinitoStep ==
  ASSUME Inv, Base', SendFinito
  PROVE  Inv'
<1> USE DEF Inv, Base
<1>1. /\ spc = "finito" /\ spc' = "count" /\ msgq' = Append(msgq, Finito)
      /\ UNCHANGED <<sem, mqsem, fifo, shm, at, hand, full, filesCounter,
                     messagesReceived, messages, out>>
  BY DEF SendFinito
<1>2. Server /\ ~ReadCount
  BY <1>1 DEF Server, ReadCount
<1>3. ChannelInv' /\ Units' = Units /\ \A j \in Files : \A m : Due(j, m)' <=> Due(j, m)
  BY <1>1, <1>2, ServerLooks DEF ServerHolds
<1>4. CountInv' /\ ServerInv' /\ OutInv'
  BY <1>1, <1>2, ServerFrame DEF CountInv, ServerInv, OutInv
<1>5. msgq \in Seq(Parts \cup {Finito}) /\ Finito \in Parts \cup {Finito}
  BY DEF GateInv, TypeOK
<1>6. \A p : p # Finito => (InQueue(p)' <=> InQueue(p))
  BY <1>1, <1>5, AppendFacts DEF InQueue
<1>7. QueueInv'
  <2>1. /\ \A j \in DOMAIN msgq' :
             msgq'[j] # Finito => msgq'[j] \in {Part(i, MEDIA_MSGQUEUE) : i \in Files}
        /\ \A j, k \in DOMAIN msgq' : msgq'[j] = msgq'[k] /\ msgq'[j] # Finito => j = k
    BY <1>1, <1>5, AppendFacts DEF QueueInv
  <2> QED
    BY <1>1, <1>3, <1>6, <2>1, PartFacts DEF QueueInv
<1>8. UnitsInv'
  BY <1>1, <1>2, <1>3, ServerFrame DEF UnitsInv
<1>9. FinitosInv'
  <2>1. Finitos' = Finitos + 1
    BY <1>1, <1>5, FinitosAppend DEF Finitos, FinitosOf
  <2>2. rounds \in Nat /\ ~Listening /\ Listening'
    BY <1>1 DEF GateInv, TypeOK, Listening
  <2> QED
    BY <1>2, <2>1, <2>2, ServerFrame DEF FinitosInv
<1> QED
  BY <1>2, <1>3, <1>4, <1>7, <1>8, <1>9, ServerFrame

\* The unit of a part that is counted goes back to the queue's semaphore.
LEMMA SrvPostQueueStep ==
  ASSUME Inv, Base', SrvPostQueue
  PROVE  Inv'
<1> USE DEF Inv, Base
<1>1. /\ spc = "mqpost" /\ spc' = "snap" /\ mqsem' = mqsem + 1 /\ Accept
      /\ UNCHANGED <<sem, fifo, shm, msgq, at, full, filesCounter, out>>
  BY DEF SrvPostQueue, PostQueueSem
<1>2. Server /\ ~ReadCount
  BY <1>1 DEF Server, ReadCount
<1>3. PICK i \in Files : hand = Part(i, MEDIA_MSGQUEUE)
  BY <1>1 DEF QueueInv
<1>4. Due(i, MEDIA_MSGQUEUE) /\ ~InQueue(hand)
  BY <1>1, <1>3 DEF QueueInv
<1>5. /\ CountInv'
      /\ \A j \in Files : \A l : Due(j, l)' <=> Due(j, l) /\ ~(j = i /\ l = MEDIA_MSGQUEUE)
  BY <1>1, <1>2, <1>3, <1>4, GuardFacts, ServerAccepts
<1>6. ChannelInv'
  <2> SUFFICES ASSUME NEW c \in Chan PROVE OneChannelInv(c)'
    BY DEF ChannelInv
  <2>1. ~Taken(c) /\ ~Taken(c)' /\ ~ServerHolds(c)'
    BY <1>1 DEF Taken, ServerHolds
  <2>2. \A j \in Files, m \in Guards : Due(j, m)' <=> Due(j, m)
    BY <1>5 DEF Guards
  <2> QED
    BY <1>1, <1>2, <2>1, <2>2, ServerKeeps
<1>7. ServerInv' /\ OutInv'
  BY <1>1 DEF ServerInv, OutInv, Accept
<1>8. QueueInv'
  BY <1>1, <1>3, <1>4, <1>5, PartFacts DEF QueueInv, InQueue
<1>9. UnitsInv'
  <2>1. ~(pc[i] = "write" /\ med[i] = MEDIA_MSGQUEUE)
    BY <1>4 DEF Due, Handed, ChildInv
  <2>2. i \in Units /\ Units' = Units \ {i}
    BY <1>2, <1>4, <1>5, <2>1, ServerFrame DEF Units
  <2>3. Cardinality(Units') = Cardinality(Units) - 1
    BY <2>2, UnitsFinite, FS_RemoveElement
  <2>4. mqsem \in Nat /\ MsgQueueInit \in Nat
    BY ConstantsAssumption DEF GateInv, TypeOK
  <2> QED
    BY <1>1, <1>2, <2>3, <2>4, UnitsFinite, ServerFrame DEF UnitsInv
<1>10. FinitosInv'
  <2>1. Finitos' = Finitos /\ ~Listening /\ ~Listening'
    BY <1>1 DEF Finitos, Listening
  <2> QED
    BY <1>2, <2>1, ServerFrame DEF FinitosInv
<1> QED
  BY <1>2, <1>5, <1>6, <1>7, <1>8, <1>9, <1>10, ServerFrame

\* Taking a message out of the queue moves those behind it up.
LEMMA WithoutFacts ==
  ASSUME NEW S, NEW q \in Seq(S), NEW j \in DOMAIN q
  PROVE  /\ DOMAIN Without(q, j) = 1..(Len(q) - 1)
         /\ \A k \in 1..(Len(q) - 1) : Without(q, j)[k] = IF k < j THEN q[k] ELSE q[k + 1]
<1>1. DOMAIN q = 1..Len(q) /\ Len(q) \in Nat /\ \A k \in 1..Len(q) : q[k] \in S
  BY LenProperties, ElementOfSeq
<1>2. j \in 1..Len(q)
  BY <1>1
<1> DEFINE a == SubSeq(q, 1, j - 1)
           b == SubSeq(q, j + 1, Len(q))
<1>3. /\ a \in Seq(S) /\ Len(a) = j - 1
      /\ \A k \in 1..(j - 1) : a[k] = q[k]
  <2>1. \A k \in 1..(j - 1) : q[k] \in S
    BY <1>1, <1>2
  <2>2. /\ a \in Seq(S) /\ Len(a) = IF 1 <= j - 1 THEN j - 1 - 1 + 1 ELSE 0
        /\ \A k \in 1..(j - 1 - 1 + 1) : a[k] = q[1 + k - 1]
    BY <1>2, <2>1, SubSeqProperties
  <2> QED
    BY <1>2, <2>2
<1>4. /\ b \in Seq(S) /\ Len(b) = Len(q) - j
      /\ \A k \in 1..(Len(q) - j) : b[k] = q[j + k]
  <2>1. \A k \in (j + 1)..Len(q) : q[k] \in S
    BY <1>1, <1>2
  <2>2. /\ b \in Seq(S) /\ Len(b) = IF j + 1 <= Len(q) THEN Len(q) - (j + 1) + 1 ELSE 0
        /\ \A k \in 1..(Len(q) - (j + 1) + 1) : b[k] = q[j + 1 + k - 1]
    BY <1>1, <1>2, <2>1, SubSeqProperties
  <2>3. /\ Len(q) - (j + 1) + 1 = Len(q) - j
        /\ j + 1 <= Len(q) \/ Len(q) - j = 0
        /\ \A k \in 1..(Len(q) - j) : j + 1 + k - 1 = j + k
    BY <1>1, <1>2
  <2>4. Len(b) = Len(q) - j
    BY <1>1, <1>2, <2>2, <2>3
  <2> QED
    BY <2>2, <2>3, <2>4
<1> HIDE DEF a, b
<1>5. /\ a \o b \in Seq(S) /\ Len(a \o b) = Len(a) + Len(b)
      /\ \A k \in 1..(Len(a) + Len(b)) :
           (a \o b)[k] = IF k <= Len(a) THEN a[k] ELSE b[k - Len(a)]
  BY <1>3, <1>4, ConcatProperties
<1>6. Without(q, j) = a \o b
  BY DEF Without, a, b
<1>7. DOMAIN Without(q, j) = 1..(Len(q) - 1)
  <2>1. Len(a) + Len(b) = Len(q) - 1
    BY <1>1, <1>2, <1>3, <1>4
  <2> QED
    BY <1>5, <1>6, <2>1, LenProperties
<1>8. ASSUME NEW k \in 1..(Len(q) - 1)
      PROVE  Without(q, j)[k] = IF k < j THEN q[k] ELSE q[k + 1]
  <2>1. Len(a) = j - 1 /\ Len(a) + Len(b) = Len(q) - 1
    BY <1>1, <1>2, <1>3, <1>4
  <2>2. Without(q, j)[k] = IF k <= j - 1 THEN a[k] ELSE b[k - (j - 1)]
    BY <1>5, <1>6, <2>1
  <2>3. CASE k < j
    BY <1>2, <1>3, <2>2, <2>3
  <2>4. CASE k >= j
    <3>1. k - (j - 1) \in 1..(Len(q) - j) /\ j + (k - (j - 1)) = k + 1
      BY <1>1, <1>2, <2>4
    <3>2. b[k - (j - 1)] = q[k + 1]
      BY <1>4, <3>1
    <3> QED
      BY <1>2, <2>2, <2>4, <3>2
  <2> QED
    BY <1>2, <2>3, <2>4
<1> QED
  BY <1>7, <1>8

\* What is in the queue without its message j.
LEMMA WithoutPlaces ==
  ASSUME NEW S, NEW q \in Seq(S), NEW j \in DOMAIN q
  PROVE  \E up \in [DOMAIN Without(q, j) -> DOMAIN q \ {j}] :
           /\ \A k \in DOMAIN Without(q, j) : Without(q, j)[k] = q[up[k]]
           /\ \A k, l \in DOMAIN Without(q, j) : up[k] = up[l] => k = l
           /\ \A l \in DOMAIN q \ {j} : \E k \in DOMAIN Without(q, j) : up[k] = l
<1>1. DOMAIN q = 1..Len(q) /\ Len(q) \in Nat
  BY LenProperties
<1>2. j \in 1..Len(q)
  BY <1>1
<1>3. PICK D : D = DOMAIN Without(q, j) /\ D = 1..(Len(q) - 1)
  BY WithoutFacts
<1> DEFINE up == [k \in D |-> IF k < j THEN k ELSE k + 1]
<1>4. up \in [D -> DOMAIN q \ {j}]
  BY <1>1, <1>2, <1>3
<1>5. \A k \in D : Without(q, j)[k] = q[up[k]]
  BY <1>3, WithoutFacts
<1>6. \A k, l \in D : up[k] = up[l] => k = l
  BY <1>1, <1>2, <1>3
<1>7. ASSUME NEW l \in DOMAIN q \ {j} PROVE \E k \in D : up[k] = l
  <2>1. CASE l < j
    <3>1. l \in D /\ up[l] = l
      BY <1>1, <1>2, <1>3, <2>1
    <3> QED
      BY <3>1
  <2>2. CASE l > j
    <3>1. l - 1 \in D /\ up[l - 1] = l
      BY <1>1, <1>2, <1>3, <2>2
    <3> QED
      BY <3>1
  <2> QED
    BY <1>1, <1>2, <2>1, <2>2
<1> HIDE DEF up
<1>8. \E f \in [D -> DOMAIN q \ {j}] :
        /\ \A k \in D : Without(q, j)[k] = q[f[k]]
        /\ \A k, l \in D : f[k] = f[l] => k = l
        /\ \A l \in DOMAIN q \ {j} : \E k \in D : f[k] = l
  BY <1>4, <1>5, <1>6, <1>7
<1> QED
  BY <1>3, <1>8

LEMMA FinitosWithout ==
  ASSUME NEW S, NEW q \in Seq(S), NEW j \in DOMAIN q, q[j] # Finito
  PROVE  Cardinality(FinitosOf(Without(q, j))) = Cardinality(FinitosOf(q))
<1>1. PICK D : D = DOMAIN Without(q, j)
  OBVIOUS
<1>2. PICK up \in [D -> DOMAIN q \ {j}] :
        /\ \A k \in D : Without(q, j)[k] = q[up[k]]
        /\ \A k, l \in D : up[k] = up[l] => k = l
        /\ \A l \in DOMAIN q \ {j} : \E k \in D : up[k] = l
  BY <1>1, WithoutPlaces
<1>3. PICK A, B : A = FinitosOf(Without(q, j)) /\ B = FinitosOf(q)
  OBVIOUS
<1>4. A = {k \in D : q[up[k]] = Finito} /\ B = {l \in DOMAIN q \ {j} : q[l] = Finito}
  BY <1>1, <1>2, <1>3 DEF FinitosOf
<1> DEFINE f == [k \in A |-> up[k]]
<1>5. f \in [A -> B] /\ \A k \in A : f[k] = up[k]
  BY <1>2, <1>4
<1>6. /\ \A k, l \in A : f[k] = f[l] => k = l
      /\ \A l \in B : \E k \in A : f[k] = l
  BY <1>2, <1>4, <1>5
<1> HIDE DEF f
<1>7. f \in Bijection(A, B)
  BY <1>5, <1>6 DEF Bijection, Injection, Surjection, IsInjective
<1>8. ExistsBijection(A, B)
  BY <1>7 DEF ExistsBijection
<1>9. IsFiniteSet(A)
  BY <1>3, WithoutType, FinitosFinite
<1> QED
  BY <1>3, <1>8, <1>9, FS_Bijection

LEMMA SrvReceiveStep ==
  ASSUME Inv, Base', SrvReceive
  PROVE  Inv'
<1> USE DEF Inv, Base
<1>1. /\ spc = "msgrcv" /\ spc' \in {"snap", "mqpost"}
      /\ UNCHANGED <<sem, mqsem, fifo, shm, at, full, filesCounter,
                     messagesReceived, messages, out>>
  BY DEF SrvReceive
<1>2. Server /\ ~ReadCount
  BY <1>1 DEF Server, ReadCount
<1>3. \A j \in Files : \A m : Due(j, m)' <=> Due(j, m)
  BY <1>1, <1>2, ServerFrame DEF Due
<1>4. ChannelInv' /\ Units' = Units
  <2>1. \A c \in Chan : ~Taken(c) /\ ~Taken(c)' /\ ~ServerHolds(c)'
    BY <1>1 DEF Taken, ServerHolds
  <2>2. \A c \in Chan : OneChannelInv(c)'
    BY <1>1, <1>2, <1>3, <2>1, ServerKeeps
  <2> QED
    BY <1>2, <1>3, <2>2, ServerFrame DEF ChannelInv, Units
<1>5. CountInv' /\ OutInv'
  BY <1>1, <1>2, ServerFrame DEF CountInv, OutInv
<1>6. UnitsInv'
  BY <1>1, <1>2, <1>4, ServerFrame DEF UnitsInv
<1>7. CASE NoneOf(msgq, "part") /\ spc' = "snap" /\ UNCHANGED <<msgq, hand>>
  <2>1. QueueInv' /\ FinitosInv'
    BY <1>1, <1>2, <1>3, <1>7, ServerFrame
       DEF QueueInv, InQueue, FinitosInv, Finitos, Listening
  <2>2. ServerInv'
    BY <1>1, <1>7 DEF ServerInv
  <2> QED
    BY <1>2, <1>4, <1>5, <1>6, <2>1, <2>2, ServerFrame
<1>8. ASSUME NEW j \in DOMAIN msgq, Oldest(msgq, "part", j), hand' = msgq[j],
             msgq' = Without(msgq, j), spc' = "mqpost"
      PROVE  Inv'
  <2>1. PICK S : msgq \in Seq(S)
    BY DEF GateInv, TypeOK
  <2>2. msgq[j] # Finito
    BY <1>8, MessageKinds DEF Oldest
  <2>3. PICK i \in Files : msgq[j] = Part(i, MEDIA_MSGQUEUE)
    BY <2>2 DEF QueueInv
  <2>4. PICK up \in [DOMAIN msgq' -> DOMAIN msgq \ {j}] :
          /\ \A k \in DOMAIN msgq' : msgq'[k] = msgq[up[k]]
          /\ \A k, l \in DOMAIN msgq' : up[k] = up[l] => k = l
          /\ \A l \in DOMAIN msgq \ {j} : \E k \in DOMAIN msgq' : up[k] = l
    BY <1>8, <2>1, WithoutPlaces
  <2>5. \A p : p # Finito => (InQueue(p)' <=> InQueue(p) /\ p # msgq[j])
    BY <2>4 DEF InQueue, QueueInv
  <2>6. QueueInv'
    <3>1. \A k \in Files :
            Due(k, MEDIA_MSGQUEUE)' <=>
              \/ InQueue(Part(k, MEDIA_MSGQUEUE))'
              \/ spc' = "mqpost" /\ hand' = Part(k, MEDIA_MSGQUEUE)
      <4> SUFFICES ASSUME NEW k \in Files
                   PROVE  Due(k, MEDIA_MSGQUEUE) <=>
                            \/ InQueue(Part(k, MEDIA_MSGQUEUE))'
                            \/ msgq[j] = Part(k, MEDIA_MSGQUEUE)
        BY <1>3, <1>8
      <4>1. Due(k, MEDIA_MSGQUEUE) <=> InQueue(Part(k, MEDIA_MSGQUEUE))
        BY <1>1 DEF QueueInv
      <4>2. msgq[j] = Part(k, MEDIA_MSGQUEUE) => InQueue(Part(k, MEDIA_MSGQUEUE))
        BY DEF InQueue
      <4> QED
        BY <2>5, <4>1, <4>2, PartFacts
    <3>2. \A k \in DOMAIN msgq' :
            msgq'[k] # Finito => msgq'[k] \in {Part(l, MEDIA_MSGQUEUE) : l \in Files}
      BY <2>4 DEF QueueInv
    <3>3. \A k, l \in DOMAIN msgq' : msgq'[k] = msgq'[l] /\ msgq'[k] # Finito => k = l
      BY <2>4 DEF QueueInv
    <3>4. hand' \in {Part(k, MEDIA_MSGQUEUE) : k \in Files} /\ ~InQueue(hand)'
      BY <1>8, <2>2, <2>3, <2>5
    <3> QED
      BY <3>1, <3>2, <3>3, <3>4 DEF QueueInv
  <2>7. FinitosInv'
    <3>1. Finitos' = Finitos
      BY <1>8, <2>1, <2>2, FinitosWithout DEF Finitos, FinitosOf
    <3>2. ~Listening /\ ~Listening'
      BY <1>1 DEF Listening
    <3> QED
      BY <1>2, <3>1, <3>2, ServerFrame DEF FinitosInv
  <2>8. ServerInv'
    BY <1>1, <1>8, <2>3, PartFacts DEF ServerInv
  <2> QED
    BY <1>2, <1>4, <1>5, <1>6, <2>6, <2>7, <2>8, ServerFrame
<1> QED
  BY <1>7, <1>8 DEF SrvReceive

LEMMA ServerStep ==
  ASSUME Inv, Base', Server
  PROVE  Inv'
BY SrvStartStep, ReadCountStep, SetServerOkStep, SrvPollFifoStep, ServerReads,
   ServerPostsStep, SrvReceiveStep, SrvPostQueueStep, SrvSnapshotStep,
   WriteOutputsStep, SendFinitoStep
   DEF Server

-----------------------------------------------------------------------------
(* The invariant.                                                          *)

LEMMA InvInit == Init => Inv
<1> SUFFICES ASSUME Init PROVE Inv
  OBVIOUS
<1> USE DEF Init
<1>1. Base
  BY BaseInit
<1>2. ~Pending /\ filesCounter = 0 /\ Served = {}
  BY DEF Pending, ResetPC, Served
<1>3. \A i \in Files, m \in Media : ~Handed(i, m) /\ ~Due(i, m)
  BY <1>2 DEF Handed, Due, Files
<1>4. RoundInv
  BY <1>2 DEF RoundInv
<1>5. CountInv /\ ServerInv /\ TornInv
  BY <1>2, FS_EmptySet DEF CountInv, ServerInv, TornInv, Fifo
<1>6. ASSUME NEW c \in Chan PROVE OneChannelInv(c)
  <2>1. ~Loaded(c) /\ Writers(c) = {} /\ ~ServerHolds(c) /\ Rest(c) = <<>>
    BY DEF Loaded, Writers, ServerHolds, Rest
  <2>2. SemInv(c)
    BY <2>1 DEF SemInv
  <2>3. LoadedInv(c) /\ DueInv(c) /\ FreeInv(c)
    BY <1>3, <2>1, GuardFacts DEF LoadedInv, DueInv, FreeInv
  <2> QED
    BY <2>2, <2>3 DEF OneChannelInv
<1>7. ChannelInv
  BY <1>6 DEF ChannelInv
<1>8. QueueInv /\ UnitsInv
  <2>1. DOMAIN msgq = {}
    <3>1. msgq \in Seq({}) /\ Len(msgq) = 0
      BY EmptySeq
    <3>2. DOMAIN msgq = 1..Len(msgq)
      BY <3>1, LenProperties
    <3> QED
      BY <3>1, <3>2
  <2> QED
    BY <1>3, <2>1, GuardFacts DEF QueueInv, InQueue, UnitsInv
<1>9. FinitosInv
  <2>1. Finitos = 0
    <3>1. msgq \in Seq({}) /\ Len(msgq) = 0
      BY EmptySeq
    <3>2. /\ Cardinality(FinitosOf(msgq)) \in Nat
          /\ Cardinality(FinitosOf(msgq)) <= Len(msgq)
      BY <3>1, FinitosFinite
    <3> QED
      BY <3>1, <3>2 DEF Finitos, FinitosOf
  <2>2. Listening /\ rounds = 0
    BY DEF Listening
  <2>3. Finitos = rounds - (IF Pending THEN 1 ELSE 0) - (IF Listening THEN 0 ELSE 1)
    <3>1. (IF Pending THEN 1 ELSE 0) = 0 /\ (IF Listening THEN 0 ELSE 1) = 0
      BY <1>2, <2>2
    <3>2. 0 = 0 - 0 - 0
      OBVIOUS
    <3> QED
      BY <2>1, <2>2, <3>1, <3>2, Zenon
  <2> QED
    BY <2>2, <2>3 DEF FinitosInv
<1>10. OutInv
  BY <1>2 DEF OutInv, Files
<1> QED
  BY <1>1, <1>4, <1>5, <1>7, <1>8, <1>9, <1>10 DEF Inv

LEMMA InvStutter == Inv /\ UNCHANGED vars => Inv'
<1> SUFFICES ASSUME Inv, UNCHANGED vars PROVE Inv'
  OBVIOUS
<1> USE DEF Inv
<1>1. /\ UNCHANGED <<sem, mqsem, clientSem, fifo, shm, msgq, serverOk>>
      /\ UNCHANGED <<pc0, n, forked, rounds, torn, pc, med, sent>>
      /\ UNCHANGED <<spc, at, hand, full, filesCounter, messagesReceived, messages, out>>
  BY DEF vars, ipc, client, children, server
<1>2. Base'
  BY BaseStep DEF Base
<1>3. Pending' <=> Pending
  BY <1>1 DEF Pending
<1>4. /\ \A j \in Files : \A m : (Handed(j, m)' <=> Handed(j, m)) /\ (Due(j, m)' <=> Due(j, m))
      /\ Served' = Served
  BY <1>1, <1>3 DEF Handed, Due, Served
<1>5. RoundInv' /\ CountInv' /\ ServerInv' /\ TornInv' /\ OutInv'
  BY <1>1, <1>3, <1>4 DEF RoundInv, CountInv, ServerInv, TornInv, OutInv
<1>6. ASSUME NEW c \in Chan PROVE OneChannelInv(c)'
  <2>1. /\ NotReset(c)' <=> NotReset(c)
        /\ Writers(c)' = Writers(c) /\ Rest(c)' = Rest(c)
        /\ Taken(c)' <=> Taken(c)
        /\ ServerHolds(c)' <=> ServerHolds(c)
    BY <1>1, <1>3 DEF NotReset, Writers, Rest, Taken, ServerHolds
  <2> QED
    BY <1>1, <1>3, <1>4, <2>1, ChannelKeep DEF ChannelInv
<1>7. ChannelInv'
  BY <1>6 DEF ChannelInv
<1>8. QueueInv' /\ UnitsInv' /\ FinitosInv'
  BY <1>1, <1>3, <1>4
     DEF QueueInv, InQueue, UnitsInv, Units, FinitosInv, Finitos, Listening
<1> QED
  BY <1>2, <1>5, <1>7, <1>8

\* Every reachable state satisfies Inv, whatever the number of files, slots,
\* rounds and queue units.
THEOREM Invariance == Spec => []Inv
<1>1. Inv /\ [Next]_vars => Inv'
  <2> SUFFICES ASSUME Inv, [Next]_vars PROVE Inv'
    OBVIOUS
  <2>1. Base'
    BY BaseStep DEF Inv
  <2>2. CASE UNCHANGED vars
    BY <2>2, InvStutter
  <2>3. CASE (\E k \in 0..MaxFiles : SigInt(k)) \/ SigUsr1 \/ Client0
    BY <2>1, <2>3, ClientStep
  <2>4. ASSUME NEW i \in Files, Child(i) PROVE Inv'
    BY <2>1, <2>4, ChildStep
  <2>5. CASE Server
    BY <2>1, <2>5, ServerStep
  <2> QED
    BY <2>2, <2>3, <2>4, <2>5 DEF Next, Quiescent
<1> QED
  BY InvInit, <1>1, PTL DEF Spec
=============================================================================
