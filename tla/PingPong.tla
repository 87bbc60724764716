------------------------------ MODULE PingPong ------------------------------
(***************************************************************************)
(* Parent and child exchange "ping" and "pong" over two pipes              *)
(* (soluzioni/solutions_pipe/ese_3).  Both have all four ends after fork   *)
(* and close two of them; either may be killed at any moment.              *)
(***************************************************************************)
EXTENDS Integers, FiniteSets

CONSTANTS Times  \* what atoi may make of the argument; below 0 is possible

Procs == {"parent", "child"}
Pipes == {"parent2child", "child2parent"}
Out == [parent |-> "parent2child", child |-> "child2parent"]
In == [parent |-> "child2parent", child |-> "parent2child"]

VARIABLES times,
          pc,     \* control point of each process
          round,  \* the rounds each has finished
          reads,  \* the processes that have the read end of each pipe open
          writes, \* and the write end
          data    \* the messages in each pipe

vars == <<times, pc, round, reads, writes, data>>

Ended == {"done", "error", "killed"}

Init ==
    /\ times \in Times \ {0}
    /\ pc = [parent |-> "fork", child |-> "none"]
    /\ round = [p \in Procs |-> 0]
    /\ reads = [q \in Pipes |-> {"parent"}] /\ writes = [q \in Pipes |-> {"parent"}]
    /\ data = [q \in Pipes |-> 0]

At(p, point) == pc[p] = point
Goto(p, point) == pc' = [pc EXCEPT ![p] = point]

\* Mutant: a process that ends keeps its read ends open.
CloseAllWrites(p) == writes' = [q \in Pipes |-> writes[q] \ {p}] /\ UNCHANGED reads

\* A process that ends, however it ends, closes what it has open.
CloseAll(p) ==
    /\ reads' = [q \in Pipes |-> reads[q] \ {p}]
    /\ writes' = [q \in Pipes |-> writes[q] \ {p}]

Fork ==
    /\ At("parent", "fork")
    /\ \/ /\ pc' = [p \in Procs |-> "close"]
          /\ reads' = [q \in Pipes |-> Procs] /\ writes' = [q \in Pipes |-> Procs]
       \/ Goto("parent", "error") /\ CloseAll("parent")
    /\ UNCHANGED <<times, round, data>>

\* Mutant: the write end of the input stays open.
CloseUnusedReads(p) ==
    reads' = [reads EXCEPT ![Out[p]] = @ \ {p}] /\ UNCHANGED writes

\* Each keeps the read end of its input and the write end of its output.
CloseUnused(p) ==
    /\ reads' = [reads EXCEPT ![Out[p]] = @ \ {p}]
    /\ writes' = [writes EXCEPT ![In[p]] = @ \ {p}]

\* Mutant: the loop ends one round early.
MoreOff(i) == i + 1 < times

More(i) == i < times

Close(p, first) ==
    /\ At(p, "close") /\ CloseUnused(p)
    /\ Goto(p, IF More(0) THEN first ELSE "end")
    /\ UNCHANGED <<times, round, data>>

\* write fails, and SIGPIPE kills the writer, when nobody can read.
Write(p, next) ==
    /\ At(p, "write")
    /\ \/ /\ reads[Out[p]] # {}
          /\ data' = [data EXCEPT ![Out[p]] = @ + 1]
          /\ Goto(p, next) /\ UNCHANGED <<reads, writes>>
       \/ /\ reads[Out[p]] = {}
          /\ Goto(p, "killed") /\ CloseAll(p) /\ UNCHANGED data
    /\ UNCHANGED <<times, round>>

\* Mutant: read does not consume what it returns.
ReceivedKept(p) == data[In[p]] > 0 /\ UNCHANGED data

\* read returns 0 on an empty pipe without writers.
Received(p) == data[In[p]] > 0 /\ data' = [data EXCEPT ![In[p]] = @ - 1]

Read(p, next) ==
    /\ At(p, "read")
    /\ \/ Received(p) /\ Goto(p, next) /\ UNCHANGED <<reads, writes>>
       \/ /\ data[In[p]] = 0 /\ writes[In[p]] = {}
          /\ Goto(p, "error") /\ CloseAll(p) /\ UNCHANGED data
    /\ UNCHANGED <<times, round>>

NextRound(p, first) ==
    /\ At(p, "loop")
    /\ round' = [round EXCEPT ![p] = @ + 1]
    /\ Goto(p, IF More(round[p] + 1) THEN first ELSE "end")
    /\ UNCHANGED <<times, reads, writes, data>>

Finish(p) ==
    /\ At(p, "end") /\ Goto(p, "done") /\ CloseAll(p)
    /\ UNCHANGED <<times, round, data>>

Child == \/ Close("child", "read") \/ Read("child", "write") \/ Write("child", "loop")
         \/ NextRound("child", "read") \/ Finish("child")

Parent == \/ Close("parent", "write") \/ Write("parent", "read") \/ Read("parent", "loop")
          \/ NextRound("parent", "write") \/ Finish("parent")

Kill(p) ==
    /\ pc[p] \notin Ended \union {"fork", "none"}
    /\ Goto(p, "killed") /\ CloseAll(p)
    /\ UNCHANGED <<times, round, data>>

Next == Fork \/ Child \/ Parent \/ \E p \in Procs : Kill(p)

Spec == Init /\ [][Next]_vars /\ WF_vars(Fork) /\ WF_vars(Child) /\ WF_vars(Parent)

-----------------------------------------------------------------------------
(* Every variable has its type; nobody ends twice or without closing. *)
TypeOK ==
    /\ times \in Times
    /\ pc \in [Procs -> {"none", "fork", "close", "read", "write", "loop", "end"} \union Ended]
    /\ round \in [Procs -> Nat]
    /\ reads \in [Pipes -> SUBSET Procs] /\ writes \in [Pipes -> SUBSET Procs]
    /\ data \in [Pipes -> 0..1]
    /\ \A p \in Procs : pc[p] \in Ended =>
          \A q \in Pipes : p \notin reads[q] \union writes[q]

\* What a process has sent and what it has received, from where it stands.
Sent(p) == round[p] + IF pc[p] = "loop" \/ (p = "parent" /\ pc[p] = "read") THEN 1 ELSE 0
Got(p) == round[p] + IF pc[p] = "loop" \/ (p = "child" /\ pc[p] = "write") THEN 1 ELSE 0

(* The two alternate: as long as both live, at most one message is under way
   in all, every message sent is received or in its pipe, and the parent is
   never more than a round away from the child. *)
Alternate ==
    (\A p \in Procs : pc[p] \notin Ended) =>
        /\ data["parent2child"] + data["child2parent"] <= 1
        /\ Sent("parent") = Got("child") + data["parent2child"]
        /\ Sent("child") = Got("parent") + data["child2parent"]
        /\ round["child"] - round["parent"] \in {-1, 0, 1}

(* Nobody waits for ever: when one is killed the other gets the end of the
   pipe or SIGPIPE, because each has closed the ends it does not use. *)
BothEnd == <>(pc["parent"] \in Ended /\ pc["child"] \in Ended \union {"none"})

(* If nobody is killed from outside, both finish all their rounds; in
   particular a negative argument means none. *)
AllRounds ==
    (\A p \in Procs : pc[p] = "done") =>
        \A p \in Procs : round[p] = IF times < 0 THEN 0 ELSE times

=============================================================================
