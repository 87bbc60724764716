---------------------------- MODULE SignalRelay -----------------------------
(***************************************************************************)
(* A parent that passes signals on between two children                    *)
(* (soluzioni/solutions_signals/solutions/signal/ese_3).  All signals are  *)
(* blocked before the forks, and each process unblocks what it waits for   *)
(* when its handler is in place.                                           *)
(***************************************************************************)

VARIABLES pc,       \* control point of every process
          pending,  \* its pending signals
          open,     \* the signals it does not block
          handled,  \* the signals for which it has a handler
          relayed   \* the signals sent so far, with their senders

vars == <<pc, pending, open, handled, relayed>>

Procs == {"parent", "child1", "child2"}
Signals == {"SIGUSR1", "SIGUSR2"}
Ended == {"exited"}
\* What each process waits for.
Awaited == [parent |-> Signals, child1 |-> {"SIGUSR2"}, child2 |-> {"SIGUSR1"}]

Running(p) == pc[p] \notin Ended \union {"none"}
Goto(p, point) == pc' = [pc EXCEPT ![p] = point]

\* sigfillset and sigprocmask come before anything else.
Init ==
    /\ pc = [p \in Procs |-> IF p = "parent" THEN "fork1" ELSE "none"]
    /\ pending = [p \in Procs |-> {}]
    /\ open = [p \in Procs |-> {}]
    /\ handled = [p \in Procs |-> {}] /\ relayed = {}

-----------------------------------------------------------------------------
\* A fork that fails ends the parent; child2 comes after child1 in the code.
Fork(point, c, then) ==
    /\ pc["parent"] = point
    /\ \/ pc' = [pc EXCEPT !["parent"] = then, ![c] = "handler"]
       \/ Goto("parent", "exited")
    /\ UNCHANGED <<pending, open, handled, relayed>>

ForkChildren == Fork("fork1", "child1", "fork2") \/ Fork("fork2", "child2", "handler")

\* Mutant: the parent does not block signals it has no handler for.
SetHandlerUsr1(p) ==
    /\ pc[p] = "handler"
    /\ handled' = [handled EXCEPT ![p] = Awaited[p] \ {"SIGUSR2"}]
    /\ Goto(p, "unblock")
    /\ UNCHANGED <<pending, open, relayed>>

SetHandler(p) ==
    /\ pc[p] = "handler"
    /\ handled' = [handled EXCEPT ![p] = Awaited[p]]
    /\ Goto(p, "unblock")
    /\ UNCHANGED <<pending, open, relayed>>

AfterUnblock == [parent |-> "wait", child1 |-> "send", child2 |-> "pause"]

\* Mutant: the parent leaves SIGUSR2 blocked.
UnblockUsr1(p) ==
    /\ pc[p] = "unblock"
    /\ open' = [open EXCEPT ![p] = IF p = "parent" THEN {"SIGUSR1"} ELSE Awaited[p]]
    /\ Goto(p, AfterUnblock[p])
    /\ UNCHANGED <<pending, handled, relayed>>

Unblock(p) ==
    /\ pc[p] = "unblock"
    /\ open' = [open EXCEPT ![p] = Awaited[p]]
    /\ Goto(p, AfterUnblock[p])
    /\ UNCHANGED <<pending, handled, relayed>>

\* A signal stays pending until it is unblocked; an ended process ignores it.
Kill(from, to, s) ==
    /\ pending' = [pending EXCEPT ![to] = IF Running(to) THEN @ \union {s} ELSE @]
    /\ relayed' = relayed \union {<<from, s>>}

\* child1 starts the relay.  An orphan sends to init, which it may not.
SendFirst ==
    /\ pc["child1"] = "send"
    /\ \/ /\ Running("parent")
          /\ Kill("child1", "parent", "SIGUSR1") /\ Goto("child1", "pause")
       \/ /\ ~Running("parent")
          /\ Goto("child1", "exited") /\ UNCHANGED <<pending, relayed>>
    /\ UNCHANGED <<open, handled>>

-----------------------------------------------------------------------------
(* Delivery of a signal that is not blocked, wherever the process is *)

Delivered(p, s) == Running(p) /\ s \in pending[p] \cap open[p] \cap handled[p]

\* The pending signals when p has taken s and sent t.
Passed(p, s, to, t) ==
    /\ pending' = [pending EXCEPT ![p] = @ \ {s},
                                  ![to] = IF Running(to) THEN @ \union {t} ELSE @]
    /\ relayed' = relayed \union {<<p, t>>}

\* Mutant: the parent answers child1 at once.
SigHandlerParentAnswers ==
    /\ \/ /\ Delivered("parent", "SIGUSR1")
          /\ Passed("parent", "SIGUSR1", "child1", "SIGUSR2")
       \/ /\ Delivered("parent", "SIGUSR2")
          /\ Passed("parent", "SIGUSR2", "child1", "SIGUSR2")
    /\ UNCHANGED <<pc, open, handled>>

SigHandlerParent ==
    /\ \/ /\ Delivered("parent", "SIGUSR1")
          /\ Passed("parent", "SIGUSR1", "child2", "SIGUSR1")
       \/ /\ Delivered("parent", "SIGUSR2")
          /\ Passed("parent", "SIGUSR2", "child1", "SIGUSR2")
    /\ UNCHANGED <<pc, open, handled>>

SigHandlerChild1 ==
    /\ Delivered("child1", "SIGUSR2")
    /\ Goto("child1", "exited")
    /\ pending' = [pending EXCEPT !["child1"] = @ \ {"SIGUSR2"}]
    /\ UNCHANGED <<open, handled, relayed>>

\* The handler of child2 sends, and only then ends the process.
SigHandlerChild2 ==
    /\ Delivered("child2", "SIGUSR1")
    /\ Goto("child2", "leave")
    /\ Passed("child2", "SIGUSR1", "parent", "SIGUSR2")
    /\ UNCHANGED <<open, handled>>

ExitChild2 ==
    /\ pc["child2"] = "leave" /\ Goto("child2", "exited")
    /\ UNCHANGED <<pending, open, handled, relayed>>

\* signal() restarts a wait that a handler has interrupted.
WaitChildren ==
    /\ pc["parent"] = "wait"
    /\ ~Running("child1") /\ ~Running("child2")
    /\ Goto("parent", "exited")
    /\ UNCHANGED <<pending, open, handled, relayed>>

-----------------------------------------------------------------------------
Parent == ForkChildren \/ SetHandler("parent") \/ Unblock("parent")
          \/ SigHandlerParent \/ WaitChildren
Child1 == SetHandler("child1") \/ Unblock("child1") \/ SendFirst \/ SigHandlerChild1
Child2 == SetHandler("child2") \/ Unblock("child2") \/ SigHandlerChild2
          \/ ExitChild2

Next == Parent \/ Child1 \/ Child2

Spec == Init /\ [][Next]_vars /\ WF_vars(Parent) /\ WF_vars(Child1) /\ WF_vars(Child2)

-----------------------------------------------------------------------------
(* Every variable has its type, and a process unblocks and handles only what
   it waits for. *)
TypeOK ==
    /\ pc \in [Procs -> {"none", "fork1", "fork2", "handler", "unblock", "send",
                         "pause", "leave", "wait", "exited"}]
    /\ pending \in [Procs -> SUBSET Signals]
    /\ \A p \in Procs : open[p] \in SUBSET Awaited[p] /\ handled[p] \in SUBSET Awaited[p]
    /\ relayed \subseteq Procs \X Signals

\* The signals of a whole relay, with their senders.
Round == {<<"child1", "SIGUSR1">>, <<"parent", "SIGUSR1">>,
          <<"child2", "SIGUSR2">>, <<"parent", "SIGUSR2">>}

(* No signal ever meets a process that has unblocked it and has no handler:
   the default action would end the relay. *)
NeverDefault == \A p \in Procs : Running(p) => pending[p] \cap open[p] \subseteq handled[p]

(* child1 ends only by the relay: when it has taken SIGUSR2, the signal has
   gone round through the parent, child2 and the parent again, although child2
   may still be between its kill and its exit.  Only an orphan, which could
   not start the relay, ends otherwise.  A parent that has both children
   returns from its loop of waits only after the whole round. *)
GoesRound ==
    /\ pc["child1"] = "exited" =>
          \/ relayed = Round /\ pc["child2"] \in {"leave", "exited"}
          \/ relayed = {} /\ pc["parent"] = "exited" /\ pc["child2"] = "none"
    /\ pc["parent"] = "exited" =>
          pc["child2"] = "none" \/ (relayed = Round /\ pc["child1"] = "exited")

(* Whoever is scheduled first, no signal is lost before its handler is there
   and all three processes end.  Only if the fork of child2 fails when child1
   has sent its signal does child1 wait in pause for ever, deaf to every
   signal but SIGUSR2. *)
AllEnd ==
    <>[](\/ \A p \in Procs : ~Running(p)
         \/ pc["child1"] = "pause" /\ pc["child2"] = "none" /\ pc["parent"] = "exited")

=============================================================================
