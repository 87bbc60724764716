---------------------------- MODULE SortMessages ----------------------------
(***************************************************************************)
(* What the server does with the parts of a round: it stores them in the   *)
(* order of arrival in the array messages, sorts the array with            *)
(* sortMessages, and writes one output file for every four consecutive     *)
(* elements.                                                               *)
(*                                                                         *)
(* sortMessages is two selection sorts: the whole array by PID, then every *)
(* group of four by medium.  Nothing else tells which parts belong to the  *)
(* same file, so the outputs are right only if the first pass leaves       *)
(* exactly the four parts of one child in every group.                     *)
(*                                                                         *)
(* A step is an arrival, one iteration of an outer loop, or one output.  A *)
(* message is a PID and a medium: part m of a file is sent on medium m.    *)
(* All the forks of a round come before the first wait, so that its PIDs   *)
(* are distinct.                                                           *)
(***************************************************************************)
EXTENDS Integers, Sequences, FiniteSets

CONSTANT Pids    \* process identifiers the children can have

ASSUME PidsAssumption == Pids \subseteq Nat /\ IsFiniteSet(Pids)

Media == 0..3
Messages == [PID : Pids, medium : Media]
NoMsg == [PID |-> -1, medium |-> -1]   \* what malloc returned

VARIABLES
  pids,              \* the children of the round, one per file
  messages,          \* the array, of filesCounter * 4 elements
  messagesReceived,
  phase,             \* the loop the server is in
  i,                 \* its index
  out                \* the groups written, in order

vars == <<pids, messages, messagesReceived, phase, i, out>>

Sent == {m \in Messages : m.PID \in pids}
arrayLength == 4 * Cardinality(pids)
Index == 0..(arrayLength - 1)

Init ==
  /\ pids \in SUBSET Pids
  /\ messages = [k \in Index |-> NoMsg]
  /\ messagesReceived = 0
  /\ phase = "receive"
  /\ i = 0
  /\ out = <<>>

\* A part arrives, on any medium, in any order.
Receive(m) ==
  /\ phase = "receive"
  /\ m \in Sent /\ \A k \in Index : messages[k] # m
  /\ messages' = [messages EXCEPT ![messagesReceived] = m]
  /\ messagesReceived' = messagesReceived + 1
  /\ UNCHANGED <<pids, phase, i, out>>

\* The loop ends and the next one starts at 0.
NextLoop(p) == phase' = p /\ i' = 0

Received ==
  /\ phase = "receive" /\ messagesReceived = arrayLength
  /\ NextLoop("pid")
  /\ UNCHANGED <<pids, messages, messagesReceived, out>>

\* Mutant: > instead of <.
IsFirstGreatest(index, field, from, to) ==
  /\ index \in from..to
  /\ \A k \in from..to : messages[index][field] >= messages[k][field]
  /\ \A k \in from..(index - 1) : messages[index][field] > messages[k][field]

\* index is where the inner loop, with its strict <, ends: the first of the
\* least elements among from..to, by the given field.
IsFirstLeast(index, field, from, to) ==
  /\ index \in from..to
  /\ \A k \in from..to : messages[index][field] <= messages[k][field]
  /\ \A k \in from..(index - 1) : messages[index][field] < messages[k][field]

\* Mutant: the element at the index is overwritten before it is saved.
SwapOverwrites(a, b) == messages' = [messages EXCEPT ![b] = messages[a]]

Swap(a, b) ==
  messages' = [messages EXCEPT ![a] = messages[b], ![b] = messages[a]]

SelectFirst(field, to) ==
  /\ \E index \in i..to :
       /\ IsFirstLeast(index, field, i, to)
       /\ Swap(index, i)
  /\ i' = i + 1
  /\ UNCHANGED <<pids, messagesReceived, phase, out>>

\* Mutant: the inner loop leaves the last element out.
LastIndexShort == arrayLength - 2

LastIndex == arrayLength - 1

SortByPid ==
  /\ phase = "pid" /\ i < arrayLength - 1
  /\ SelectFirst("PID", LastIndex)

SortedByPid ==
  /\ phase = "pid" /\ ~(i < arrayLength - 1)
  /\ NextLoop("medium")
  /\ UNCHANGED <<pids, messages, messagesReceived, out>>

\* The last index of the group of k, globalIndex + 3.
GroupEnd(k) == (k - (k % 4)) + 3

SortByMedium ==
  /\ phase = "medium" /\ i - (i % 4) < arrayLength - 1
  /\ SelectFirst("medium", GroupEnd(i))

SortedByMedium ==
  /\ phase = "medium" /\ ~(i - (i % 4) < arrayLength - 1)
  /\ NextLoop("write")
  /\ UNCHANGED <<pids, messages, messagesReceived, out>>

\* Mutant: the stride of the write loop is one too long.
NextGroupFive == i + 5

NextGroup == i + 4

\* writeOutFile(&(messages[i])).
WriteOutFile ==
  /\ phase = "write" /\ i < messagesReceived
  /\ out' = Append(out, [k \in Media |-> messages[i + k]])
  /\ i' = NextGroup
  /\ UNCHANGED <<pids, messages, messagesReceived, phase>>

Finish ==
  /\ phase = "write" /\ ~(i < messagesReceived)
  /\ phase' = "done"
  /\ UNCHANGED <<pids, messages, messagesReceived, i, out>>

\* The round is over.
Done == phase = "done" /\ UNCHANGED vars

Next ==
  \/ \E m \in Messages : Receive(m)
  \/ Received
  \/ SortByPid \/ SortedByPid
  \/ SortByMedium \/ SortedByMedium
  \/ WriteOutFile \/ Finish
  \/ Done

Spec == Init /\ [][Next]_vars

-----------------------------------------------------------------------------
(* Properties.                                                             *)

\* Every variable has its type; in particular no loop index leaves the array.
TypeOK ==
  /\ pids \subseteq Pids
  /\ messages \in [Index -> Messages \cup {NoMsg}]
  /\ messagesReceived \in 0..arrayLength
  /\ phase \in {"receive", "pid", "medium", "write", "done"}
  /\ i \in 0..arrayLength
  /\ out \in Seq([Media -> Messages])

\* The elements received so far are different from one another and, once the
\* sort has begun, are all the parts of the round: swapping in place neither
\* loses nor doubles a part.
NothingLost ==
  /\ \A a, b \in 0..(messagesReceived - 1) :
       messages[a] = messages[b] => a = b
  /\ phase # "receive" => {messages[k] : k \in Index} = Sent

\* The array is sorted by PID once the first pass is over, and stays so while
\* the second pass moves elements within their groups.
SortedByPidAfterPass ==
  phase \notin {"receive", "pid"} =>
    \A a, b \in Index : a <= b => messages[a].PID <= messages[b].PID

\* Every output holds the four parts of one file in the order of the file, and
\* when the loop is over every file has been written once, although the write
\* loop cuts the array in fours without looking at a PID, a path or a medium.
OutputsWhole ==
  /\ \A g \in DOMAIN out :
       \E p \in pids : out[g] = [k \in Media |-> [PID |-> p, medium |-> k]]
  /\ \A g, h \in DOMAIN out : out[g] = out[h] => g = h
  /\ phase = "done" => Len(out) = Cardinality(pids)
=============================================================================
