--------------------------- MODULE SemaphoreOrder ---------------------------
(***************************************************************************)
(* Children that print in a fixed order by passing a unit from semaphore   *)
(* to semaphore (soluzioni/solutions_semaphores/solutions): four children, *)
(* n times round (ese_1), or three children, once, who meet at a fourth    *)
(* semaphore before they are done (ese_2).                                 *)
(***************************************************************************)
EXTENDS Integers, Sequences

CONSTANT MaxTimes \* bound on the argument of ese_1

VARIABLES exercise,
          n,       \* how many times each child prints
          next,    \* the child the parent forks next
          missing, \* the children whose fork has failed
          child,   \* control point of every child
          times,   \* the times a child has passed its unit on
          sem,
          printed, \* the children's messages in the order of printing
          parent

vars == <<exercise, n, next, missing, child, times, sem, printed, parent>>

All == 0..3
Children == 0..(IF exercise = 1 THEN 3 ELSE 2)
Last == IF exercise = 1 THEN 3 ELSE 2 \* the child that prints first
Gate == 3                             \* the fourth semaphore of ese_2

Init ==
    /\ exercise \in {1, 2} /\ n \in IF exercise = 1 THEN 0..MaxTimes ELSE {1}
    /\ next = 0 /\ missing = {}
    /\ child = [i \in All |-> "none"] /\ times = [i \in All |-> 0]
    /\ sem = [s \in All |-> IF s = Last THEN 1 ELSE IF exercise = 2 /\ s = Gate THEN 3 ELSE 0]
    /\ printed = <<>> /\ parent = "fork"

\* semop waits until the value does not become negative.
SemOp(s, k) == sem[s] + k >= 0 /\ sem' = [sem EXCEPT ![s] = @ + k]

\* Mutant: child 0 unlocks child 2.
UnlockedWrong(i) == IF i = 0 THEN 2 ELSE i - 1

\* Who is unlocked after child i: 2, 1, 0 and then 3 again.
Unlocked(i) == IF i = 0 THEN 3 ELSE i - 1

Goto(i, point) ==
    /\ child' = [child EXCEPT ![i] = point]
    /\ UNCHANGED <<exercise, n, next, missing, parent>>

-----------------------------------------------------------------------------
(* The parent *)

\* Mutant: after a failed fork no more children are forked.
ForkStops ==
    /\ parent = "fork" /\ next \in Children
    /\ \/ child' = [child EXCEPT ![next] = IF n = 0 THEN "done" ELSE "wait"]
          /\ next' = next + 1 /\ UNCHANGED missing
       \/ missing' = missing \union {next} /\ next' = 4 /\ UNCHANGED child
    /\ UNCHANGED <<exercise, n, times, sem, printed, parent>>

\* A fork that fails is reported and the next child is forked.
Fork ==
    /\ parent = "fork" /\ next \in Children
    /\ next' = next + 1
    /\ \/ child' = [child EXCEPT ![next] = IF n = 0 THEN "done" ELSE "wait"]
          /\ UNCHANGED missing
       \/ missing' = missing \union {next} /\ UNCHANGED child
    /\ UNCHANGED <<exercise, n, times, sem, printed, parent>>

WaitAll ==
    /\ parent = "fork" /\ next \notin Children
    /\ \A i \in Children : child[i] \in {"none", "done"}
    /\ parent' = "done"
    /\ UNCHANGED <<exercise, n, next, missing, child, times, sem, printed>>

-----------------------------------------------------------------------------
(* The children *)

Wait(i) ==
    /\ child[i] = "wait" /\ SemOp(i, -1)
    /\ Goto(i, "print") /\ UNCHANGED <<times, printed>>

Message(i) ==
    /\ child[i] = "print"
    /\ printed' = Append(printed, i)
    /\ Goto(i, IF exercise = 1 THEN "unlock" ELSE "arrive") /\ UNCHANGED <<times, sem>>

UnlockRound(i) ==
    /\ exercise = 1 /\ child[i] = "unlock" /\ SemOp(Unlocked(i), 1)
    /\ times' = [times EXCEPT ![i] = @ + 1]
    /\ Goto(i, IF times'[i] < n THEN "wait" ELSE "done") /\ UNCHANGED printed

Arrive(i) ==
    /\ child[i] = "arrive" /\ SemOp(Gate, -1)
    /\ Goto(i, IF i > 0 THEN "unlock" ELSE "meet") /\ UNCHANGED <<times, printed>>

UnlockOne(i) ==
    /\ exercise = 2 /\ child[i] = "unlock" /\ SemOp(i - 1, 1)
    /\ Goto(i, "meet") /\ UNCHANGED <<times, printed>>

\* Mutant: the fourth semaphore is not waited for.
MeetNot(i) ==
    /\ child[i] = "meet"
    /\ times' = [times EXCEPT ![i] = @ + 1]
    /\ Goto(i, "done") /\ UNCHANGED <<sem, printed>>

\* semop with 0 waits until the value is 0.
Meet(i) ==
    /\ child[i] = "meet" /\ sem[Gate] = 0
    /\ times' = [times EXCEPT ![i] = @ + 1]
    /\ Goto(i, "done") /\ UNCHANGED <<sem, printed>>

Child(i) == \/ Wait(i) \/ Message(i) \/ UnlockRound(i) \/ Arrive(i)
            \/ UnlockOne(i) \/ Meet(i)

Next == Fork \/ WaitAll \/ \E i \in All : Child(i)

Spec == Init /\ [][Next]_vars /\ WF_vars(Fork \/ WaitAll) /\ \A i \in All : WF_vars(Child(i))

-----------------------------------------------------------------------------
ChildPC == {"none", "wait", "print", "unlock", "arrive", "meet", "done"}

(* Every variable has its type, and no semaphore is negative. *)
TypeOK ==
    /\ exercise \in {1, 2} /\ n \in Nat /\ next \in 0..4 /\ missing \subseteq Children
    /\ child \in [All -> ChildPC] /\ times \in [All -> Nat] /\ sem \in [All -> Nat]
    /\ printed \in Seq(All) /\ parent \in {"fork", "done"}

\* The child whose turn it is after k messages.
Turn(k) == Last - (k % (Last + 1))

(* The messages come out in the order 3, 2, 1, 0 of "Corso di Sistemi
   Operativi", over and over (2, 1, 0 in ese_2), whatever order the children
   are forked and scheduled in and whatever forks fail: a child that is
   missing stops the others, it never lets them pass. *)
InOrder == \A k \in 1..Len(printed) : printed[k] = Turn(k - 1)

(* Nobody is done in ese_2 before all three have printed, and nobody leaves
   ese_1 before its last message. *)
DoneTogether ==
    \A i \in Children : child[i] = "done" =>
        IF exercise = 2 THEN Len(printed) = 3
        ELSE Len(printed) > 4 * (n - 1) + (3 - i) \/ n = 0

(* All children end and the parent removes the set; only a fork that fails
   stops the program, for ever, with the unit on the missing child's
   semaphore, where nobody takes it. *)
StopsAtMissing ==
    <>[](parent = "done" \/ \E m \in missing : sem[m] = 1)

=============================================================================
