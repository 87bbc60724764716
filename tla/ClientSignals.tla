---------------------------- MODULE ClientSignals ----------------------------
(***************************************************************************)
(* Signals of Client_0.  The whole round runs inside the handler of        *)
(* SIGINT, which blocks every signal, runs the round, and then allows      *)
(* SIGINT and SIGUSR1 while it is still running: a SIGINT sent during the  *)
(* round starts a handler inside the handler.                              *)
(*                                                                         *)
(* The kernel delivers a pending signal that is not masked at any point of *)
(* the program.  Entering a handler saves the mask and adds the signal to  *)
(* it; returning from the handler restores the saved mask, whatever        *)
(* sigprocmask has been called in between.  A signal sent twice before it  *)
(* is delivered is delivered once.                                         *)
(*                                                                         *)
(* SIGTERM stands for all the signals left at their default action.        *)
(***************************************************************************)
EXTENDS Naturals, Sequences

CONSTANT MaxSignals   \* bound on the signals sent

ASSUME SignalsAssumption == MaxSignals \in Nat

SIGINT == "SIGINT"
SIGUSR1 == "SIGUSR1"
SIGTERM == "SIGTERM"
Signals == {SIGINT, SIGUSR1, SIGTERM}

VARIABLES
  mask,      \* blocked signals
  pending,   \* signals sent and not delivered
  stack,     \* running handlers, innermost last: where each is in sigHandler,
             \* and the mask to restore
  status,    \* "running", "exited" by exit(0), or "killed" by a signal
  sent,      \* signals sent so far
  rounds     \* rounds started so far

vars == <<mask, pending, stack, status, sent, rounds>>

Running == status = "running"
Depth == Len(stack)
Top == stack[Depth]
At(p) == Running /\ Depth > 0 /\ Top.at = p
MoveTo(p) == stack' = [stack EXCEPT ![Depth].at = p]

\* main installs the handlers and sets no mask.
Init ==
  /\ mask = {} /\ pending = {} /\ stack = <<>>
  /\ status = "running" /\ sent = 0 /\ rounds = 0

Send(s) ==
  /\ sent < MaxSignals
  /\ pending' = pending \cup {s}
  /\ sent' = sent + 1
  /\ UNCHANGED <<mask, stack, status, rounds>>

\* Mutant: the tests on sig are swapped for SIGINT.
EntryIgnoresInt(s) == IF s = SIGINT THEN "leave" ELSE "end"

\* The branch of sigHandler for signal s.
Entry(s) == IF s = SIGINT THEN "block" ELSE "end"

\* Mutant: the signal stays pending.
PendingKept(s) == pending

Delivered(s) == pending \ {s}

Handle(s) ==
  /\ Running /\ s \in pending \ mask /\ s # SIGTERM
  /\ pending' = Delivered(s)
  /\ stack' = Append(stack, [at |-> Entry(s), saved |-> mask])
  /\ mask' = mask \cup {s}
  /\ UNCHANGED <<status, sent, rounds>>

DefaultAction ==
  /\ Running /\ SIGTERM \in pending \ mask
  /\ pending' = Delivered(SIGTERM)
  /\ status' = "killed"
  /\ UNCHANGED <<mask, stack, sent, rounds>>

\* Mutant: the mask is computed and not set.
BlockAllNot == UNCHANGED mask

BlockAll == mask' = Signals

BlockAllSignals ==
  /\ At("block")
  /\ BlockAll
  /\ MoveTo("round")
  /\ rounds' = rounds + 1
  /\ UNCHANGED <<pending, status, sent>>

\* startComunication, from beginning to end.
StartComunication ==
  /\ At("round")
  /\ MoveTo("allow")
  /\ UNCHANGED <<mask, pending, status, sent, rounds>>

BlockSomeSignals ==
  /\ At("allow")
  /\ mask' = Signals \ {SIGINT, SIGUSR1}
  /\ MoveTo("leave")
  /\ UNCHANGED <<pending, status, sent, rounds>>

Return ==
  /\ At("leave")
  /\ mask' = Top.saved
  /\ stack' = SubSeq(stack, 1, Depth - 1)
  /\ UNCHANGED <<pending, status, sent, rounds>>

\* Mutant: the message is printed, but exit is missing.
EndOnlyPrints == MoveTo("leave") /\ UNCHANGED status

EndComunication == status' = "exited" /\ UNCHANGED stack

End ==
  /\ At("end")
  /\ EndComunication
  /\ UNCHANGED <<mask, pending, sent, rounds>>

Client0 ==
  \/ Handle(SIGINT) \/ Handle(SIGUSR1) \/ DefaultAction
  \/ BlockAllSignals \/ StartComunication \/ BlockSomeSignals \/ Return \/ End

\* Client_0 sleeps or has ended, and nobody sends another signal.
Quiescent ==
  /\ sent = MaxSignals
  /\ ~Running \/ (Depth = 0 /\ pending \subseteq mask)
  /\ UNCHANGED vars

Next == Client0 \/ (\E s \in Signals : Send(s)) \/ Quiescent

Spec == Init /\ [][Next]_vars

\* The kernel keeps running Client_0 and delivers what is pending and not
\* masked.  Rounds are taken to end: RoundEnds of Transfer says which do.
FairSpec == Spec /\ WF_vars(Client0)

-----------------------------------------------------------------------------
(* Properties.                                                             *)

\* Every variable has its type.
TypeOK ==
  /\ mask \subseteq Signals /\ pending \subseteq Signals
  /\ stack \in Seq([at : {"block", "round", "allow", "leave", "end"},
                    saved : SUBSET Signals])
  /\ status \in {"running", "exited", "killed"}
  /\ sent \in 0..MaxSignals
  /\ rounds \in 0..MaxSignals

\* A round is never disturbed: no handler starts on top of it, where it would
\* reset filePathsCounter and the semaphores, and no signal ends Client_0,
\* which would leave its children unreaped and the server without a reader.
RoundUndisturbed ==
  \A d \in DOMAIN stack :
    stack[d].at = "round" => d = Depth /\ Running /\ mask = Signals

\* A SIGINT is answered by a round that starts after it, even one sent in the
\* middle of a round, unless Client_0 ends first.
SigIntAnswered ==
  \A k \in 0..MaxSignals :
    (SIGINT \in pending /\ rounds = k) ~> (rounds > k \/ ~Running)

\* A SIGUSR1 ends Client_0, at the latest after the round it finds.
SigUsr1Ends == (SIGUSR1 \in pending) ~> ~Running

\* After a round only SIGINT and SIGUSR1 can reach Client_0.
OthersBlocked == rounds > 0 => status # "killed"
=============================================================================
