------------------------ MODULE ClientSignalsProofs ------------------------
(***************************************************************************)
(* No signal disturbs a round, for any number of signals and any depth of  *)
(* handlers within handlers.                                               *)
(***************************************************************************)
EXTENDS ClientSignals, SequenceTheorems, TLAPS

Frame == [at : {"block", "round", "allow", "leave", "end"},
          saved : SUBSET Signals]

\* The part of the type invariant the proof needs, without the bounds.
Types ==
  /\ mask \subseteq Signals /\ pending \subseteq Signals
  /\ stack \in Seq(Frame)

Inv == Types /\ RoundUndisturbed

LEMMA StackFacts ==
  ASSUME Types
  PROVE  /\ Depth \in Nat /\ DOMAIN stack = 1..Depth
         /\ \A d \in 1..Depth : stack[d] \in Frame
BY LenProperties, ElementOfSeq DEF Types, Depth

\* A step that changes the place of the innermost handler only.
LEMMA MoveFacts ==
  ASSUME Types, Depth > 0,
         NEW p \in {"block", "round", "allow", "leave", "end"}, MoveTo(p)
  PROVE  /\ stack' \in Seq(Frame) /\ Depth' = Depth /\ DOMAIN stack' = 1..Depth
         /\ stack'[Depth].at = p
         /\ \A d \in 1..Depth : d # Depth => stack'[d] = stack[d]
<1>1. /\ Depth \in 1..Len(stack) /\ stack \in Seq(Frame)
      /\ stack[Depth] \in Frame
  BY StackFacts DEF Depth, Types
<1>2. [stack[Depth] EXCEPT !.at = p] \in Frame
  BY <1>1 DEF Frame
<1>3. stack' = [stack EXCEPT ![Depth] = [stack[Depth] EXCEPT !.at = p]]
  BY DEF MoveTo
<1>4. /\ stack' \in Seq(Frame) /\ Len(stack') = Len(stack)
      /\ \A d \in 1..Len(stack) : stack'[d] =
           IF d = Depth THEN [stack[Depth] EXCEPT !.at = p] ELSE stack[d]
  BY <1>1, <1>2, <1>3, ExceptSeq
<1>5. [stack[Depth] EXCEPT !.at = p].at = p
  BY <1>1 DEF Frame
<1> QED
  BY <1>1, <1>4, <1>5, LenProperties DEF Depth

LEMMA InitInv == Init => Inv
BY EmptySeq DEF Init, Inv, Types, RoundUndisturbed

\* While a round runs everything is masked, so nothing is delivered.
LEMMA HandleInv ==
  ASSUME Inv, NEW s \in {SIGINT, SIGUSR1}, Handle(s)
  PROVE  Inv'
<1> DEFINE f == [at |-> Entry(s), saved |-> mask]
<1>1. f \in Frame /\ f.at # "round" /\ s \in Signals
  BY DEF Inv, Types, Frame, Entry, Signals
<1>2. stack \in Seq(Frame) /\ Depth \in Nat /\ DOMAIN stack = 1..Depth
  BY StackFacts DEF Inv, Types
<1>3. /\ stack' \in Seq(Frame) /\ Len(stack') = Depth + 1
      /\ \A d \in 1..Depth : stack'[d] = stack[d]
      /\ stack'[Depth + 1] = f
  BY <1>1, <1>2, AppendProperties DEF Handle, Delivered, Depth
<1>4. DOMAIN stack' = 1..(Depth + 1)
  BY <1>3, LenProperties
<1>5. \A d \in 1..Depth : stack[d].at # "round"
  BY <1>1, <1>2 DEF Inv, RoundUndisturbed, Handle, Delivered
<1>6. RoundUndisturbed'
  <2> SUFFICES ASSUME NEW d \in DOMAIN stack' PROVE stack'[d].at # "round"
    BY DEF RoundUndisturbed
  <2> QED
    BY <1>1, <1>2, <1>3, <1>4, <1>5
<1>7. mask' \subseteq Signals /\ pending' \subseteq Signals
  BY <1>1 DEF Handle, Delivered, Inv, Types
<1> QED
  BY <1>3, <1>6, <1>7 DEF Inv, Types

LEMMA NextInv == Inv /\ [Next]_vars => Inv'
<1> SUFFICES ASSUME Inv, [Next]_vars PROVE Inv'
  OBVIOUS
<1> USE DEF Inv, Types
<1>0. Depth \in Nat /\ DOMAIN stack = 1..Depth
  BY StackFacts
<1>1. ASSUME NEW s \in Signals, Send(s) PROVE Inv'
  BY <1>1 DEF Send, RoundUndisturbed, Depth, Running
<1>2. CASE Handle(SIGINT) \/ Handle(SIGUSR1)
  BY <1>2, HandleInv
<1>3. CASE DefaultAction
  <2>1. \A d \in DOMAIN stack : stack[d].at # "round"
    BY <1>3 DEF DefaultAction, Delivered, RoundUndisturbed, Signals
  <2> QED
    BY <1>3, <2>1 DEF DefaultAction, Delivered, RoundUndisturbed
<1>4. CASE BlockAllSignals
  <2>1. /\ stack' \in Seq(Frame) /\ Depth' = Depth /\ DOMAIN stack' = 1..Depth
        /\ \A d \in 1..Depth : d # Depth => stack'[d] = stack[d]
    BY <1>0, <1>4, MoveFacts DEF BlockAllSignals, At
  <2>2. \A d \in 1..Depth : d # Depth => stack[d].at # "round"
    BY <1>0 DEF RoundUndisturbed
  <2>3. RoundUndisturbed'
    BY <1>4, <2>1, <2>2
       DEF RoundUndisturbed, BlockAllSignals, BlockAll, At, Running
  <2> QED
    BY <1>4, <2>1, <2>3 DEF BlockAllSignals, BlockAll
<1>5. CASE StartComunication \/ BlockSomeSignals
  <2>1. PICK p \in {"allow", "leave"} : MoveTo(p) /\ Depth > 0
    BY <1>5 DEF StartComunication, BlockSomeSignals, At
  <2>2. /\ stack' \in Seq(Frame) /\ Depth' = Depth /\ DOMAIN stack' = 1..Depth
        /\ stack'[Depth].at = p
        /\ \A d \in 1..Depth : d # Depth => stack'[d] = stack[d]
    BY <1>0, <2>1, MoveFacts
  <2>3. \A d \in 1..Depth : d # Depth => stack[d].at # "round"
    BY <1>0 DEF RoundUndisturbed
  <2>4. RoundUndisturbed'
    BY <2>1, <2>2, <2>3 DEF RoundUndisturbed
  <2>5. mask' \subseteq Signals /\ pending' \subseteq Signals
    BY <1>5 DEF StartComunication, BlockSomeSignals
  <2> QED
    BY <2>2, <2>4, <2>5
<1>6. CASE Return
  <2>1. Depth > 0 /\ Top.at = "leave" /\ stack[Depth] \in Frame
    BY <1>0, <1>6, StackFacts DEF Return, At
  <2>2. /\ stack' \in Seq(Frame) /\ Len(stack') = Depth - 1
        /\ \A d \in 1..(Depth - 1) : stack'[d] = stack[d]
    BY <1>0, <1>6, <2>1, SubSeqProperties DEF Return, Depth
  <2>3. DOMAIN stack' = 1..(Depth - 1)
    BY <2>2, LenProperties
  <2>4. \A d \in 1..(Depth - 1) : stack[d].at # "round"
    BY <1>0 DEF RoundUndisturbed
  <2>5. RoundUndisturbed'
    BY <2>2, <2>3, <2>4 DEF RoundUndisturbed
  <2>6. mask' \subseteq Signals /\ pending' \subseteq Signals
    BY <1>6, <2>1 DEF Return, Top, Frame
  <2> QED
    BY <2>2, <2>5, <2>6
<1>7. CASE End
  <2>1. \A d \in DOMAIN stack : stack[d].at # "round"
    BY <1>0, <1>7 DEF End, At, Top, RoundUndisturbed
  <2> QED
    BY <1>7, <2>1 DEF End, EndComunication, RoundUndisturbed
<1>8. CASE UNCHANGED vars \/ Quiescent
  BY <1>8 DEF vars, Quiescent, RoundUndisturbed, Depth, Running
<1> QED
  BY <1>1, <1>2, <1>3, <1>4, <1>5, <1>6, <1>7, <1>8 DEF Next, Client0

\* A round of startComunication is never interrupted by another one, nor cut
\* off by a signal.
THEOREM Undisturbed == Spec => []RoundUndisturbed
<1>1. Inv => RoundUndisturbed
  BY DEF Inv
<1> QED
  BY InitInv, NextInv, <1>1, PTL DEF Spec

-----------------------------------------------------------------------------
(* The count of the rounds.  A SIGINT is first pending, then a handler at  *)
(* its "block", and then a round, so that the rounds cannot outnumber the  *)
(* signals sent.                                                           *)

\* While a handler is about to block the signals, SIGINT is masked, and on top
\* of it there can only be handlers that end Client_0.
BlockInv ==
  \A d \in DOMAIN stack :
    stack[d].at = "block" =>
      SIGINT \in mask /\ \A e \in DOMAIN stack : e > d => stack[e].at = "end"

Blocking == \E d \in DOMAIN stack : stack[d].at = "block"
One(p) == IF p THEN 1 ELSE 0

CountInv ==
  /\ status \in {"running", "exited", "killed"}
  /\ sent \in 0..MaxSignals /\ rounds \in Nat
  /\ rounds + One(SIGINT \in pending) + One(Blocking) <= sent

Counted == Inv /\ BlockInv /\ CountInv

LEMMA InitCounted == Init => Counted
<1> SUFFICES ASSUME Init PROVE Counted
  OBVIOUS
<1>1. DOMAIN stack = {}
  BY DEF Init
<1> QED
  BY <1>1, InitInv, SignalsAssumption
     DEF Init, Counted, BlockInv, CountInv, Blocking, One

\* What happens to a handler that moves on.
LEMMA MoveCounted ==
  ASSUME Counted, Depth > 0, stack[Depth].at # "end",
         NEW p \in {"round", "allow", "leave"}, MoveTo(p)
  PROVE  /\ DOMAIN stack' = DOMAIN stack
         /\ \A d \in DOMAIN stack : d # Depth => stack[d].at # "block"
         /\ \A d \in DOMAIN stack : stack'[d].at # "block"
<1>1. Depth \in Nat /\ DOMAIN stack = 1..Depth
  BY StackFacts DEF Counted, Inv
<1>2. /\ DOMAIN stack' = 1..Depth /\ stack'[Depth].at = p
      /\ \A d \in 1..Depth : d # Depth => stack'[d] = stack[d]
  BY MoveFacts DEF Counted, Inv
<1>3. \A d \in 1..Depth : d # Depth => stack[d].at # "block"
  BY <1>1 DEF Counted, BlockInv
<1> QED
  BY <1>1, <1>2, <1>3

LEMMA HandleCounted ==
  ASSUME Counted, Inv', NEW s \in {SIGINT, SIGUSR1}, Handle(s)
  PROVE  Counted'
<1> DEFINE f == [at |-> Entry(s), saved |-> mask]
<1>1. /\ f \in Frame /\ f.at = (IF s = SIGINT THEN "block" ELSE "end")
      /\ s \in Signals
  BY DEF Counted, Inv, Types, Frame, Entry, Signals
<1>2. stack \in Seq(Frame) /\ Depth \in Nat /\ DOMAIN stack = 1..Depth
  BY StackFacts DEF Counted, Inv, Types
<1>3. /\ DOMAIN stack' = 1..(Depth + 1)
      /\ \A d \in 1..Depth : stack'[d] = stack[d]
      /\ stack'[Depth + 1] = f
  <2>1. /\ stack' \in Seq(Frame) /\ Len(stack') = Depth + 1
        /\ \A d \in 1..Depth : stack'[d] = stack[d]
        /\ stack'[Depth + 1] = f
    BY <1>1, <1>2, AppendProperties DEF Handle, Depth
  <2> QED
    BY <2>1, LenProperties
<1> HIDE DEF f
<1>4. CASE s = SIGINT
  <2>1. \A d \in 1..Depth : stack[d].at # "block"
    BY <1>2, <1>4 DEF Handle, Counted, BlockInv
  <2>2. BlockInv'
    <3>1. SIGINT \in mask'
      BY <1>4 DEF Handle
    <3> QED
      BY <1>2, <1>3, <2>1, <3>1 DEF BlockInv
  <2>3. ~Blocking /\ SIGINT \in pending /\ SIGINT \notin pending'
    BY <1>2, <1>4, <2>1 DEF Blocking, Handle, Delivered
  <2>4. CountInv'
    BY <2>3 DEF Counted, CountInv, One, Handle
  <2> QED
    BY <2>2, <2>4 DEF Counted
<1>5. CASE s = SIGUSR1
  <2>1. f.at = "end"
    BY <1>1, <1>5 DEF SIGINT, SIGUSR1
  <2>2. BlockInv'
    <3>1. mask \subseteq mask'
      BY DEF Handle
    <3> QED
      BY <1>2, <1>3, <2>1, <3>1 DEF Counted, BlockInv
  <2>3. Blocking' => Blocking
    BY <1>2, <1>3, <2>1 DEF Blocking
  <2>4. SIGINT \in pending' => SIGINT \in pending
    BY DEF Handle, Delivered
  <2>5. CountInv'
    BY <2>3, <2>4 DEF Counted, CountInv, One, Handle
  <2> QED
    BY <2>2, <2>5 DEF Counted
<1> QED
  BY <1>4, <1>5

LEMMA NextCounted == Counted /\ [Next]_vars => Counted'
<1> SUFFICES ASSUME Counted, [Next]_vars PROVE Counted'
  OBVIOUS
<1>0. Inv' /\ Depth \in Nat /\ DOMAIN stack = 1..Depth
  BY NextInv, StackFacts DEF Counted, Inv
<1>1. ASSUME NEW s \in Signals, Send(s) PROVE Counted'
  <2>1. sent' \in 0..MaxSignals /\ sent' = sent + 1 /\ rounds' = rounds
    BY <1>1, SignalsAssumption DEF Send, Counted, CountInv
  <2>2. BlockInv' /\ Blocking' = Blocking
    BY <1>1 DEF Send, Counted, BlockInv, Blocking
  <2>3. CountInv'
    BY <1>1, <2>1, <2>2 DEF Send, Counted, CountInv, One
  <2> QED
    BY <1>0, <2>2, <2>3 DEF Counted
<1>2. CASE Handle(SIGINT) \/ Handle(SIGUSR1)
  BY <1>0, <1>2, HandleCounted
<1>3. CASE DefaultAction
  <2>1. BlockInv' /\ Blocking' = Blocking
    BY <1>3 DEF DefaultAction, Counted, BlockInv, Blocking
  <2>2. SIGINT \in pending' => SIGINT \in pending
    BY <1>3 DEF DefaultAction, Delivered
  <2>3. CountInv'
    BY <1>3, <2>1, <2>2 DEF DefaultAction, Counted, CountInv, One
  <2> QED
    BY <1>0, <2>1, <2>3 DEF Counted
<1>4. CASE BlockAllSignals
  <2>1. Depth > 0 /\ stack[Depth].at = "block" /\ MoveTo("round")
    BY <1>4 DEF BlockAllSignals, At, Top
  <2>2. /\ DOMAIN stack' = DOMAIN stack
        /\ \A d \in DOMAIN stack : stack'[d].at # "block"
    BY <2>1, MoveCounted
  <2>3. BlockInv' /\ ~Blocking'
    BY <2>2 DEF BlockInv, Blocking
  <2>4. Blocking
    BY <1>0, <2>1 DEF Blocking
  <2>5. CountInv'
    BY <1>4, <2>3, <2>4 DEF BlockAllSignals, Counted, CountInv, One
  <2> QED
    BY <1>0, <2>3, <2>5 DEF Counted
<1>5. CASE StartComunication \/ BlockSomeSignals
  <2>1. PICK p \in {"allow", "leave"} :
          MoveTo(p) /\ Depth > 0 /\ stack[Depth].at # "end"
    BY <1>5 DEF StartComunication, BlockSomeSignals, At, Top
  <2>2. /\ DOMAIN stack' = DOMAIN stack
        /\ \A d \in DOMAIN stack : stack'[d].at # "block"
    BY <2>1, MoveCounted
  <2>3. BlockInv' /\ ~Blocking'
    BY <2>2 DEF BlockInv, Blocking
  <2>4. UNCHANGED <<pending, status, sent, rounds>>
    BY <1>5 DEF StartComunication, BlockSomeSignals
  <2>5. CountInv'
    BY <2>3, <2>4 DEF Counted, CountInv, One
  <2> QED
    BY <1>0, <2>3, <2>5 DEF Counted
<1>6. CASE Return
  <2>1. Depth > 0 /\ stack[Depth].at = "leave" /\ stack[Depth] \in Frame
    BY <1>0, <1>6, StackFacts DEF Return, At, Top, Counted, Inv
  <2>2. \A d \in 1..Depth : stack[d].at # "block"
    BY <1>0, <2>1 DEF Counted, BlockInv
  <2>3. /\ DOMAIN stack' = 1..(Depth - 1)
        /\ \A d \in 1..(Depth - 1) : stack'[d] = stack[d]
    <3>1. /\ stack' \in Seq(Frame) /\ Len(stack') = Depth - 1
          /\ \A d \in 1..(Depth - 1) : stack'[d] = stack[d]
      BY <1>0, <1>6, <2>1, StackFacts, SubSeqProperties
         DEF Return, Depth, Counted, Inv
    <3> QED
      BY <3>1, LenProperties
  <2>4. BlockInv' /\ ~Blocking'
    BY <1>0, <2>2, <2>3 DEF BlockInv, Blocking
  <2>5. CountInv'
    BY <1>6, <2>4 DEF Return, Counted, CountInv, One
  <2> QED
    BY <1>0, <2>4, <2>5 DEF Counted
<1>7. CASE End
  BY <1>0, <1>7 DEF End, EndComunication, Counted, BlockInv, CountInv, Blocking, One
<1>8. CASE UNCHANGED vars \/ Quiescent
  BY <1>0, <1>8 DEF vars, Quiescent, Counted, BlockInv, CountInv, Blocking, One
<1> QED
  BY <1>1, <1>2, <1>3, <1>4, <1>5, <1>6, <1>7, <1>8 DEF Next, Client0

\* Every variable of ClientSignals keeps its type; in particular Client_0 starts
\* no more rounds than signals have been sent to it.
THEOREM TypeCorrect == Spec => []TypeOK
<1>1. ASSUME Counted PROVE TypeOK
  <2>1. rounds \in 0..MaxSignals
    BY <1>1, SignalsAssumption DEF Counted, CountInv, One
  <2> QED
    BY <1>1, <2>1 DEF Counted, Inv, Types, Frame, CountInv, TypeOK
<1> QED
  BY InitCounted, NextCounted, <1>1, PTL DEF Spec
=============================================================================
