------------------------------ MODULE Families ------------------------------
(***************************************************************************)
(* The exercises of the course in which a parent works with the children   *)
(* it forks, one program in a behaviour.                                   *)
(***************************************************************************)
EXTENDS Integers, Sequences, FiniteSets

CONSTANTS Producers, Chunks, Unreadable, Capacity, \* of PipeItems
          Times,                                   \* of PingPong
          MaxTimes                                 \* of SemaphoreOrder

ASSUME FamiliesAssumption ==
    /\ "parent" \notin Producers /\ Chunks \in [Producers -> Nat] /\ Capacity \in Nat
    /\ Times \subseteq Int /\ MaxTimes \in Nat

VARIABLES program,
          exercise, forked, producer, read, writers, pipe, consumer, size, lines,
          times, pc, round, reads, writes, data,
          variant, n, next, missing, child, done, sem, printed, parent,
          point, pending, open, handled, relayed,
          monitor, child1, child2, unreported, dying, jobControl

itemVars == <<exercise, forked, producer, read, writers, pipe, consumer, size, lines>>
pingVars == <<times, pc, round, reads, writes, data>>
orderVars == <<variant, n, next, missing, child, done, sem, printed, parent>>
relayVars == <<point, pending, open, handled, relayed>>
stopVars == <<monitor, child1, child2, unreported, dying, jobControl>>
vars == <<program, itemVars, pingVars, orderVars, relayVars, stopVars>>

Items == INSTANCE PipeItems

Ping == INSTANCE PingPong

Order == INSTANCE SemaphoreOrder WITH exercise <- variant, times <- done

Relay == INSTANCE SignalRelay WITH pc <- point

Monitor == INSTANCE StopResume WITH parent <- monitor

Programs == {"items", "ping", "order", "relay", "stop"}

\* The parameters of the programs that do not run have one value.
Init ==
    /\ program \in Programs
    /\ Items!Init /\ Ping!Init /\ Order!Init /\ Relay!Init /\ Monitor!Init
    /\ program # "items" => exercise = 1
    /\ program # "ping" => times = 1
    /\ program # "order" => variant = 2
    /\ program # "stop" => jobControl

Next ==
    \/ /\ program = "items" /\ Items!Next
       /\ UNCHANGED <<program, pingVars, orderVars, relayVars, stopVars>>
    \/ /\ program = "ping" /\ Ping!Next
       /\ UNCHANGED <<program, itemVars, orderVars, relayVars, stopVars>>
    \/ /\ program = "order" /\ Order!Next
       /\ UNCHANGED <<program, itemVars, pingVars, relayVars, stopVars>>
    \/ /\ program = "relay" /\ Relay!Next
       /\ UNCHANGED <<program, itemVars, pingVars, orderVars, stopVars>>
    \/ /\ program = "stop" /\ Monitor!Next
       /\ UNCHANGED <<program, itemVars, pingVars, orderVars, relayVars>>

Fairness ==
    /\ WF_itemVars(program = "items" /\ Items!Consumer)
    /\ \A k \in Producers : WF_itemVars(program = "items" /\ Items!Producer(k))
    /\ WF_pingVars(program = "ping" /\ Ping!Fork)
    /\ WF_pingVars(program = "ping" /\ Ping!Parent)
    /\ WF_pingVars(program = "ping" /\ Ping!Child)
    /\ WF_orderVars(program = "order" /\ (Order!Fork \/ Order!WaitAll))
    /\ \A i \in 0..3 : WF_orderVars(program = "order" /\ Order!Child(i))
    /\ WF_relayVars(program = "relay" /\ Relay!Parent)
    /\ WF_relayVars(program = "relay" /\ Relay!Child1)
    /\ WF_relayVars(program = "relay" /\ Relay!Child2)
    /\ WF_stopVars(program = "stop" /\ Monitor!Parent)
    /\ WF_stopVars(program = "stop" /\ Monitor!Stop)

Spec == Init /\ [][Next]_vars /\ Fairness

-----------------------------------------------------------------------------
(* Every variable of the five programs has its type, and with it go the facts
   that tie control points to descriptors and masks: a child of PipeItems has
   the write end open exactly while it lives, a process of PingPong that ends
   has closed all its ends. *)
TypeOK ==
    /\ program \in Programs
    /\ Items!TypeOK /\ Ping!TypeOK /\ Order!TypeOK /\ Relay!TypeOK /\ Monitor!TypeOK

(* Nothing is torn, lost or doubled in a pipe: the sizes and values of several
   writers stay together and come out whole, in order and all before the end
   of the pipe (PipeItems); ping and pong alternate, for all the rounds
   (PingPong). *)
PipesKeepOrder ==
    /\ Items!ItemsWhole /\ Items!ChunksInOrder /\ Items!EndIsTheEnd
    /\ Ping!Alternate /\ Ping!AllRounds

(* The messages of SemaphoreOrder come out in the order 3, 2, 1, 0 (2, 1, 0 in
   ese_2), whatever order the children are scheduled in and whatever forks
   fail. *)
InOrder == Order!InOrder

(* No signal meets a process before its handler, and the relay ends only when
   the signal has gone round (SignalRelay); no stop of child1 is missed, and
   the handler ends both children but for a stopped one with nobody left to
   resume it (StopResume). *)
SignalsArrive ==
    /\ Relay!NeverDefault /\ Relay!GoesRound
    /\ Monitor!NoStopMissed /\ Monitor!EndsBoth

(* Every family ends, and a stopped child plays again, but for the cases the
   parts name: a fork that fails in SemaphoreOrder or in SignalRelay, and a
   parent that goes away in StopResume.  No child of SemaphoreOrder is done
   before the messages it waits for. *)
EverybodyEnds ==
    /\ program = "items" => Items!ParentEnds
    /\ program = "ping" => Ping!BothEnd
    /\ program = "order" => Order!StopsAtMissing
    /\ []Order!DoneTogether
    /\ program = "relay" => Relay!AllEnd
    /\ Monitor!PlaysAgain
=============================================================================
