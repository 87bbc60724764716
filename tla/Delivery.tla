------------------------------ MODULE Delivery ------------------------------
(***************************************************************************)
(* What the transfer promises, without channels, semaphores or processes.  *)
(* A round is asked for by announcing a number of files.  The server takes *)
(* up one round after the other; the parts of the round in service arrive  *)
(* one at a time, each once and in any order; when all have, the outputs   *)
(* are written, and then the round is closed with a message.               *)
(*                                                                         *)
(* The next round may be announced before the one in service is closed: it *)
(* then waits, and no part of it gets into the outputs of the other.       *)
(***************************************************************************)
EXTENDS Integers

CONSTANT MaxFiles   \* bound on the files of a round

VARIABLES
  asked,      \* files of the round announced and not yet taken up, or -1
  n,          \* files of the round in service
  phase,      \* "idle", "serving", or "written"
  arrived,    \* parts <<file, medium>> of that round the server has
  output,     \* parts in the outputs of that round
  closed      \* rounds closed so far

vars == <<asked, n, phase, arrived, output, closed>>

PartsOf(k) == (0..(k - 1)) \X (0..3)

TypeOK ==
  /\ asked \in -1..MaxFiles /\ n \in 0..MaxFiles
  /\ phase \in {"idle", "serving", "written"}
  /\ arrived \subseteq PartsOf(n) /\ output \subseteq PartsOf(n)
  /\ closed \in Nat

Init ==
  /\ asked = -1 /\ n = 0 /\ phase = "idle"
  /\ arrived = {} /\ output = {} /\ closed = 0

Announce(k) ==
  /\ asked = -1
  /\ asked' = k
  /\ UNCHANGED <<n, phase, arrived, output, closed>>

TakeUp ==
  /\ phase = "idle" /\ asked # -1
  /\ n' = asked /\ asked' = -1
  /\ phase' = "serving"
  /\ arrived' = {} /\ output' = {}
  /\ UNCHANGED closed

Arrive(p) ==
  /\ phase = "serving"
  /\ p \in PartsOf(n) \ arrived
  /\ arrived' = arrived \cup {p}
  /\ UNCHANGED <<asked, n, phase, output, closed>>

Write ==
  /\ phase = "serving" /\ arrived = PartsOf(n)
  /\ output' = PartsOf(n)
  /\ phase' = "written"
  /\ UNCHANGED <<asked, n, arrived, closed>>

Close ==
  /\ phase = "written"
  /\ phase' = "idle"
  /\ closed' = closed + 1
  /\ UNCHANGED <<asked, n, arrived, output>>

Next ==
  \/ \E k \in 0..MaxFiles : Announce(k)
  \/ TakeUp
  \/ \E p \in PartsOf(n) : Arrive(p)
  \/ Write
  \/ Close

Spec == Init /\ [][Next]_vars
=============================================================================
