----------------------------- MODULE StopResume -----------------------------
(***************************************************************************)
(* A child that its sibling stops again and again and the parent resumes   *)
(* (soluzioni/solutions_signals/solutions/signal/ese_4), until a SIGINT to *)
(* the parent ends all three.  The sleeps (10 and 15 seconds) take any     *)
(* time.                                                                   *)
(***************************************************************************)

VARIABLES parent,    \* control point of the parent
          child1, child2,
          unreported, \* waitpid has not yet told that child1 is stopped
          dying,      \* SIGTERM is pending at the stopped child1
          jobControl  \* the parent leads a process group of its own

vars == <<parent, child1, child2, unreported, dying, jobControl>>

Init ==
    /\ parent = "fork1" /\ child1 = "none" /\ child2 = "none"
    /\ unreported = FALSE /\ dying = FALSE /\ jobControl \in BOOLEAN

-----------------------------------------------------------------------------
ForkChild1 ==
    /\ parent = "fork1"
    /\ \/ parent' = "fork2" /\ child1' = "plays"
       \/ parent' = "failed" /\ UNCHANGED child1
    /\ UNCHANGED <<child2, unreported, dying, jobControl>>

ForkChild2 ==
    /\ parent = "fork2"
    /\ \/ parent' = "handler" /\ child2' = "teases"
       \/ parent' = "failed" /\ UNCHANGED child2
    /\ UNCHANGED <<child1, unreported, dying, jobControl>>

SetHandler ==
    /\ parent = "handler" /\ parent' = "watch"
    /\ UNCHANGED <<child1, child2, unreported, dying, jobControl>>

\* A second SIGSTOP does nothing; when child1 is gone kill may fail.
Stop ==
    /\ child2 = "teases"
    /\ \/ child1 = "plays" /\ child1' = "stopped" /\ unreported' = TRUE
          /\ UNCHANGED child2
       \/ child1 = "ended" /\ child2' = "ended" /\ UNCHANGED <<child1, unreported>>
    /\ UNCHANGED <<parent, dying, jobControl>>

\* Mutant: the result of waitpid is taken for that of a child that has ended.
MonitorDrops ==
    /\ parent = "watch" /\ unreported
    /\ unreported' = FALSE
    /\ UNCHANGED <<parent, child1, child2, dying, jobControl>>

\* waitpid with WUNTRACED and WNOHANG tells of every stop once.
Monitor ==
    /\ parent = "watch" /\ unreported
    /\ parent' = "resume" /\ unreported' = FALSE
    /\ UNCHANGED <<child1, child2, dying, jobControl>>

Resume ==
    /\ parent = "resume"
    /\ parent' = "watch" /\ child1' = "plays"
    /\ UNCHANGED <<child2, unreported, dying, jobControl>>

-----------------------------------------------------------------------------
\* When the leader of the group ends, the system sends SIGHUP and SIGCONT to
\* a group of its own that has a stopped member.
ParentEnds(as) ==
    /\ parent' = as
    /\ child1' = IF child1 = "stopped" /\ jobControl THEN "ended" ELSE child1

\* SIGINT starts the handler, once there is one.
SigInt ==
    /\ \/ parent \in {"fork1", "fork2", "handler"} /\ ParentEnds("killed")
       \/ parent \in {"watch", "resume"} /\ parent' = "term1" /\ UNCHANGED child1
    /\ UNCHANGED <<child2, unreported, dying, jobControl>>

TermChild1 ==
    /\ parent = "term1" /\ parent' = "term2"
    /\ child1' = IF child1 = "plays" THEN "ended" ELSE child1
    /\ dying' = (child1 = "stopped")
    /\ UNCHANGED <<child2, unreported, jobControl>>

\* Mutant: the handler ends child1 only.
TermChild2Not ==
    /\ parent = "term2" /\ ParentEnds("exited")
    /\ UNCHANGED <<child2, unreported, dying, jobControl>>

TermChild2 ==
    /\ parent = "term2" /\ ParentEnds("exited")
    /\ child2' = "ended"
    /\ UNCHANGED <<unreported, dying, jobControl>>

-----------------------------------------------------------------------------
Parent == ForkChild1 \/ ForkChild2 \/ SetHandler \/ Monitor \/ Resume
          \/ TermChild1 \/ TermChild2

Next == Parent \/ Stop \/ SigInt

Spec == Init /\ [][Next]_vars /\ WF_vars(Parent) /\ WF_vars(Stop)

-----------------------------------------------------------------------------
(* Every variable has its type. *)
TypeOK ==
    /\ parent \in {"fork1", "fork2", "handler", "watch", "resume", "term1", "term2",
                   "exited", "killed", "failed"}
    /\ child1 \in {"none", "plays", "stopped", "ended"}
    /\ child2 \in {"none", "teases", "ended"}
    /\ unreported \in BOOLEAN /\ dying \in BOOLEAN /\ jobControl \in BOOLEAN
    /\ dying => child1 # "plays"

(* No stop is missed: a child that the parent's loop finds stopped has its
   stop unreported or is about to get SIGCONT, however stops, monitoring and
   resuming interleave. *)
NoStopMissed ==
    child1 = "stopped" /\ parent \in {"watch", "resume"} => (unreported \/ parent = "resume")

(* child1 plays again after every stop, unless the parent goes away. *)
PlaysAgain == child1 = "stopped" ~> (child1 # "stopped" \/ parent \in {"exited", "killed"})

(* The handler ends both children whatever it interrupts - except a stopped
   child1 in a group with other processes: its SIGTERM stays pending, and
   nobody resumes it any more. *)
EndsBoth ==
    parent = "exited" =>
        child2 = "ended" /\ (child1 = "ended" \/ (child1 = "stopped" /\ dying /\ ~jobControl))
=============================================================================
