------------------------- MODULE SortMessagesProofs -------------------------
(***************************************************************************)
(* Proof that the outputs are whole (OutputsWhole), for every number of    *)
(* files, every assignment of PIDs and every order of arrival.             *)
(*                                                                         *)
(* The heart of it is a count.  The messages of the children in a set S    *)
(* are 4 * |S|, so in an array sorted by PID the messages of the children  *)
(* below p fill the first 4 * c places, and those of p the next four.      *)
(***************************************************************************)
EXTENDS SortMessages, SequenceTheorems, FunctionTheorems, FiniteSetTheorems,
        TLAPS

(* Counting.                                                               *)

\* A set of indices closed downwards is an initial segment.
LEMMA InitialSegment ==
  ASSUME NEW L \in Nat, NEW D \in SUBSET (0..(L - 1)),
         \A a \in D, b \in 0..(L - 1) : b <= a => b \in D
  PROVE  D = 0..(Cardinality(D) - 1)
<1> DEFINE c == Cardinality(D)
<1>1. IsFiniteSet(D) /\ c \in Nat
  <2>1. 0 \in Int /\ L - 1 \in Int
    OBVIOUS
  <2>2. IsFiniteSet(0..(L - 1))
    BY <2>1, FS_Interval
  <2>3. IsFiniteSet(D)
    BY <2>2, FS_Subset
  <2> QED
    BY <2>3, FS_CardinalityType
<1>2. ASSUME NEW k \in D, k >= c PROVE FALSE
  <2>1. 0..k \in SUBSET D
    OBVIOUS
  <2>2. Cardinality(0..k) = k + 1
    BY FS_Interval
  <2>3. k + 1 <= c
    BY <1>1, <2>1, <2>2, FS_Subset
  <2> QED
    BY <1>1, <1>2, <2>3
<1>3. D \in SUBSET (0..(c - 1))
  BY <1>1, <1>2
<1>4. IsFiniteSet(0..(c - 1)) /\ Cardinality(0..(c - 1)) = c
  BY <1>1, FS_Interval, SMTT(60)
<1> QED
  BY <1>3, <1>4, FS_Subset

SentBy(S) == {m \in Messages : m.PID \in S}

LEMMA FourEach ==
  ASSUME NEW S \in SUBSET Pids
  PROVE  /\ IsFiniteSet(SentBy(S))
         /\ Cardinality(SentBy(S)) = 4 * Cardinality(S)
<1>1. IsFiniteSet(S) /\ Cardinality(S) \in Nat
  BY PidsAssumption, FS_Subset, FS_CardinalityType
<1>2. IsFiniteSet(Media) /\ Cardinality(Media) = 4
  <2>1. 0 \in Int /\ 3 \in Int
    OBVIOUS
  <2>2. IsFiniteSet(0..3) /\ Cardinality(0..3) = IF 0 > 3 THEN 0 ELSE 3 - 0 + 1
    BY <2>1, FS_Interval
  <2> QED
    BY <2>2 DEF Media
<1>3. IsFiniteSet(S \X Media) /\ Cardinality(S \X Media) = Cardinality(S) * 4
  BY <1>1, <1>2, FS_Product
<1> DEFINE f == [x \in S \X Media |-> [PID |-> x[1], medium |-> x[2]]]
<1>4. f \in [S \X Media -> SentBy(S)]
  BY DEF SentBy, Messages
<1>5. ASSUME NEW x \in S \X Media, NEW y \in S \X Media, f[x] = f[y]
      PROVE  x = y
  <2>1. f[x].PID = x[1] /\ f[x].medium = x[2]
    OBVIOUS
  <2>2. f[y].PID = y[1] /\ f[y].medium = y[2]
    OBVIOUS
  <2> QED
    BY <1>5, <2>1, <2>2
<1>6. ASSUME NEW m \in SentBy(S) PROVE \E x \in S \X Media : f[x] = m
  <2>1. m = [PID |-> m.PID, medium |-> m.medium]
    BY DEF SentBy, Messages
  <2>2. <<m.PID, m.medium>> \in S \X Media
    BY DEF SentBy, Messages
  <2> QED
    BY <2>1, <2>2
<1>7. f \in Bijection(S \X Media, SentBy(S))
  BY <1>4, <1>5, <1>6 DEF Bijection, Injection, Surjection, IsInjective
<1> QED
  BY <1>1, <1>3, <1>7, FS_Bijection DEF ExistsBijection

\* The places of the messages of the children in S are four for each child.
LEMMA FourPlaces ==
  ASSUME NEW P \in SUBSET Pids, NEW L \in Nat,
         NEW f \in [0..(L - 1) -> SentBy(P)],
         \A a, b \in 0..(L - 1) : f[a] = f[b] => a = b,
         \A m \in SentBy(P) : \E a \in 0..(L - 1) : f[a] = m,
         NEW S \in SUBSET P
  PROVE  Cardinality({a \in 0..(L - 1) : f[a].PID \in S}) = 4 * Cardinality(S)
<1> DEFINE D == {a \in 0..(L - 1) : f[a].PID \in S}
           g == [m \in SentBy(S) |-> CHOOSE a \in 0..(L - 1) : f[a] = m]
<1>1. SentBy(S) \subseteq SentBy(P) /\ SentBy(P) \subseteq Messages
  BY DEF SentBy
<1>2. \A m \in SentBy(S) : g[m] \in 0..(L - 1) /\ f[g[m]] = m
  BY <1>1
<1>3. \A m \in SentBy(S) : g[m] \in D
  BY <1>2 DEF SentBy
<1>4. g \in [SentBy(S) -> D]
  BY <1>3
<1>5. \A x, y \in SentBy(S) : g[x] = g[y] => x = y
  BY <1>2
<1>6. \A a \in D : \E m \in SentBy(S) : g[m] = a
  <2> SUFFICES ASSUME NEW a \in D PROVE \E m \in SentBy(S) : g[m] = a
    OBVIOUS
  <2>1. f[a] \in SentBy(S)
    BY <1>1 DEF SentBy
  <2> QED
    BY <1>2, <2>1
<1>7. g \in Bijection(SentBy(S), D)
  BY <1>4, <1>5, <1>6 DEF Bijection, Injection, Surjection, IsInjective
<1>8. S \in SUBSET Pids
  OBVIOUS
<1> QED
  BY <1>7, <1>8, FourEach, FS_Bijection DEF ExistsBijection

-----------------------------------------------------------------------------
(* Groups of four.                                                         *)

\* The indices from a multiple of 4 to its GroupEnd.
LEMMA Groups ==
  ASSUME NEW k \in Nat
  PROVE  /\ k % 4 \in 0..3 /\ k - (k % 4) \in Nat
         /\ \E q \in Nat : k - (k % 4) = 4 * q
         /\ GroupEnd(k) \in Nat /\ k <= GroupEnd(k) /\ GroupEnd(k) <= k + 3
<1>1. k = 4 * (k \div 4) + (k % 4) /\ k \div 4 \in Nat /\ k % 4 \in 0..3
  OBVIOUS
<1> QED
  BY <1>1 DEF GroupEnd

\* In the array, a group is determined by any of its members.
LEMMA SameGroup ==
  ASSUME NEW a \in Nat, NEW q \in Nat, a \in (4 * q)..(4 * q + 3)
  PROVE  a - (a % 4) = 4 * q /\ GroupEnd(a) = 4 * q + 3
<1>1. a = 4 * (a \div 4) + (a % 4) /\ a \div 4 \in Nat /\ a % 4 \in 0..3
  OBVIOUS
<1>2. a \div 4 = q
  BY <1>1
<1> QED
  BY <1>1, <1>2 DEF GroupEnd

\* f is an array of L elements, all the messages of the children in P, sorted
\* by PID.
FullAndSorted(f, L, P) ==
  /\ f \in [0..(L - 1) -> SentBy(P)]
  /\ \A a, b \in 0..(L - 1) : f[a] = f[b] => a = b
  /\ \A m \in SentBy(P) : \E a \in 0..(L - 1) : f[a] = m
  /\ \A a, b \in 0..(L - 1) : a <= b => f[a].PID <= f[b].PID

\* Index a is in a group of four whose elements are all of a's child.
OneChild(f, L, a) ==
  \E q \in Nat :
    /\ a \in (4 * q)..(4 * q + 3)
    /\ \A b \in 0..(L - 1) :
         b \in (4 * q)..(4 * q + 3) => f[b].PID = f[a].PID

LEMMA OneChildPerGroup ==
  ASSUME NEW P \in SUBSET Pids, NEW L \in Nat,
         NEW f, FullAndSorted(f, L, P),
         NEW a \in 0..(L - 1)
  PROVE  OneChild(f, L, a)
<1> DEFINE p == f[a].PID
           Below == {x \in P : x < p}
           Upto == {x \in P : x <= p}
           PlacesOf(S) == {b \in 0..(L - 1) : f[b].PID \in S}
           q == Cardinality(Below)
<1>a. /\ f \in [0..(L - 1) -> SentBy(P)]
      /\ \A c, b \in 0..(L - 1) : f[c] = f[b] => c = b
      /\ \A m \in SentBy(P) : \E c \in 0..(L - 1) : f[c] = m
      /\ \A c, b \in 0..(L - 1) : c <= b => f[c].PID <= f[b].PID
  BY DEF FullAndSorted
<1>0. \A x \in P : x \in Nat
  BY PidsAssumption
<1>1. /\ p \in P /\ p \in Nat
      /\ \A b \in 0..(L - 1) : f[b].PID \in P /\ f[b].PID \in Nat
  BY <1>0, <1>a DEF SentBy
<1>2. /\ IsFiniteSet(Below) /\ q \in Nat
      /\ Cardinality(Upto) = q + 1
  <2>1. IsFiniteSet(P)
    BY PidsAssumption, FS_Subset
  <2>2. IsFiniteSet(Below)
    BY <2>1, FS_Subset
  <2>3. Upto = Below \cup {p} /\ p \notin Below
    BY <1>0, <1>1
  <2> QED
    BY <2>2, <2>3, FS_AddElement, FS_CardinalityType
<1>3. Cardinality(PlacesOf(Below)) = 4 * q
  <2>1. Below \in SUBSET P
    OBVIOUS
  <2> HIDE DEF Below
  <2> QED
    BY <1>a, <2>1, FourPlaces
<1>4. Cardinality(PlacesOf(Upto)) = 4 * (q + 1)
  <2>1. Upto \in SUBSET P
    OBVIOUS
  <2>2. Cardinality(PlacesOf(Upto)) = 4 * Cardinality(Upto)
    <3> HIDE DEF Upto
    <3> QED
      BY <1>a, <2>1, FourPlaces
  <2> QED
    BY <1>2, <2>2
<1>5. PlacesOf(Below) = 0..(Cardinality(PlacesOf(Below)) - 1)
  <2>1. \A c \in PlacesOf(Below), b \in 0..(L - 1) :
          b <= c => b \in PlacesOf(Below)
    BY <1>1, <1>a
  <2>2. PlacesOf(Below) \in SUBSET (0..(L - 1))
    OBVIOUS
  <2> HIDE DEF PlacesOf
  <2> QED
    BY <2>1, <2>2, InitialSegment
<1>6. PlacesOf(Upto) = 0..(Cardinality(PlacesOf(Upto)) - 1)
  <2>1. \A c \in PlacesOf(Upto), b \in 0..(L - 1) :
          b <= c => b \in PlacesOf(Upto)
    BY <1>1, <1>a
  <2>2. PlacesOf(Upto) \in SUBSET (0..(L - 1))
    OBVIOUS
  <2> HIDE DEF PlacesOf
  <2> QED
    BY <2>1, <2>2, InitialSegment
<1>7. \A b \in 0..(L - 1) : f[b].PID = p <=> b \in (4 * q)..(4 * q + 3)
  <2>1. PlacesOf(Below) = 0..(4 * q - 1)
    BY <1>3, <1>5
  <2>2. PlacesOf(Upto) = 0..(4 * q + 3)
    <3>1. 4 * (q + 1) - 1 = 4 * q + 3
      BY <1>2
    <3> QED
      BY <1>4, <1>6, <3>1
  <2>3. \A b \in 0..(L - 1) :
          f[b].PID = p <=> b \in PlacesOf(Upto) /\ b \notin PlacesOf(Below)
    BY <1>0, <1>1
  <2>4. q \in Nat
    BY <1>2
  <2> SUFFICES ASSUME NEW b \in 0..(L - 1)
               PROVE  f[b].PID = p <=> b \in (4 * q)..(4 * q + 3)
    OBVIOUS
  <2>5. f[b].PID = p <=> b \in 0..(4 * q + 3) /\ b \notin 0..(4 * q - 1)
    BY <2>1, <2>2, <2>3
  <2> HIDE DEF q, p
  <2> QED
    BY <2>4, <2>5
<1> QED
  BY <1>2, <1>7 DEF OneChild

-----------------------------------------------------------------------------
(* The inductive invariant.                                                *)

\* The part of the array that has been filled.
Filled ==
  /\ \A k \in 0..(messagesReceived - 1) : messages[k] \in Sent
  /\ \A k \in Index : k >= messagesReceived => messages[k] = NoMsg
  /\ phase # "receive" => messagesReceived = arrayLength

\* The first i elements are the least by PID, in order.
PidPrefix ==
  phase = "pid" =>
    \A a, b \in Index :
      a < i /\ a <= b => messages[a].PID <= messages[b].PID

\* The elements that the second pass has been over precede the rest of their
\* group.
MediumPrefix ==
  phase \in {"medium", "write", "done"} =>
    \A a, b \in Index :
      (phase = "medium" => a < i) /\ a < b /\ b <= GroupEnd(a) =>
        messages[a].medium < messages[b].medium

\* What has been written is a copy of the array up to i.
Written ==
  /\ phase \notin {"write", "done"} => out = <<>>
  /\ phase \in {"write", "done"} =>
       /\ i = 4 * Len(out)
       /\ \A g \in DOMAIN out, k \in Media :
            out[g][k] = messages[4 * (g - 1) + k]
  /\ phase = "done" => i = arrayLength

Inv ==
  /\ TypeOK /\ NothingLost /\ SortedByPidAfterPass
  /\ Filled /\ PidPrefix /\ MediumPrefix /\ Written

LEMMA Lengths ==
  ASSUME pids \subseteq Pids
  PROVE  /\ Cardinality(pids) \in Nat /\ arrayLength \in Nat
         /\ Sent = SentBy(pids)
         /\ IsFiniteSet(Sent) /\ Cardinality(Sent) = arrayLength
         /\ IsFiniteSet(Index) /\ Cardinality(Index) = arrayLength
         /\ \A m \in Sent : m \in Messages /\ m # NoMsg
         /\ \A m \in Messages : m.PID \in Nat /\ m.medium \in 0..3
<1>1. IsFiniteSet(pids) /\ Cardinality(pids) \in Nat
  BY PidsAssumption, FS_Subset, FS_CardinalityType
<1>2. arrayLength \in Nat
  BY <1>1 DEF arrayLength
<1>3. Sent = SentBy(pids)
  BY DEF Sent, SentBy
<1>4. IsFiniteSet(Sent) /\ Cardinality(Sent) = arrayLength
  BY <1>3, FourEach DEF arrayLength
<1>5. IsFiniteSet(Index) /\ Cardinality(Index) = arrayLength
  <2>1. 0 \in Int /\ arrayLength - 1 \in Int
    BY <1>2
  <2>2. /\ IsFiniteSet(0..(arrayLength - 1))
        /\ Cardinality(0..(arrayLength - 1)) =
             IF 0 > arrayLength - 1 THEN 0 ELSE arrayLength - 1 - 0 + 1
    BY <2>1, FS_Interval
  <2> QED
    BY <1>2, <2>2 DEF Index
<1>6. \A m \in Messages : m.PID \in Nat /\ m.medium \in 0..3
  BY PidsAssumption DEF Messages, Media
<1>7. \A m \in Sent : m \in Messages /\ m # NoMsg
  BY <1>6 DEF Sent, NoMsg
<1> QED
  BY <1>1, <1>2, <1>3, <1>4, <1>5, <1>6, <1>7

\* The invariant's consequence for a full array: every group has one child.
LEMMA GroupPID ==
  ASSUME Inv, phase \in {"medium", "write", "done"},
         NEW a \in Index, NEW b \in Index, a <= b, b <= GroupEnd(a)
  PROVE  messages[a].PID = messages[b].PID /\ b \in Nat
<1>1. /\ pids \in SUBSET Pids /\ arrayLength \in Nat
      /\ Sent = SentBy(pids)
  BY Lengths DEF Inv, TypeOK
<1>2. FullAndSorted(messages, arrayLength, pids)
  <2>1. messages \in [0..(arrayLength - 1) -> SentBy(pids)]
    BY <1>1 DEF Inv, TypeOK, Filled, Index
  <2>2. \A c, d \in 0..(arrayLength - 1) : messages[c] = messages[d] => c = d
    BY DEF Inv, NothingLost, Filled
  <2>3. \A m \in SentBy(pids) :
          \E c \in 0..(arrayLength - 1) : messages[c] = m
    BY <1>1 DEF Inv, NothingLost, Index
  <2>4. \A c, d \in 0..(arrayLength - 1) :
          c <= d => messages[c].PID <= messages[d].PID
    BY DEF Inv, SortedByPidAfterPass, Index
  <2> QED
    BY <2>1, <2>2, <2>3, <2>4 DEF FullAndSorted
<1>6. a \in 0..(arrayLength - 1) /\ b \in 0..(arrayLength - 1)
  BY DEF Index
<1>7. PICK q \in Nat :
        /\ a \in (4 * q)..(4 * q + 3)
        /\ \A d \in 0..(arrayLength - 1) :
             d \in (4 * q)..(4 * q + 3) => messages[d].PID = messages[a].PID
  <2>1. OneChild(messages, arrayLength, a)
    BY <1>1, <1>2, <1>6, OneChildPerGroup
  <2> QED
    BY <2>1 DEF OneChild
<1>8. a \in Nat /\ b \in Nat
  BY <1>1, <1>6
<1>9. GroupEnd(a) = 4 * q + 3
  BY <1>7, <1>8, SameGroup
<1> QED
  BY <1>6, <1>7, <1>8, <1>9

-----------------------------------------------------------------------------
(* Every step keeps the invariant.                                         *)

LEMMA InitInv == Init => Inv
<1> SUFFICES ASSUME Init PROVE Inv
  OBVIOUS
<1>1. pids \subseteq Pids
  BY DEF Init
<1>2. arrayLength \in Nat
  BY <1>1, Lengths
<1>3. TypeOK
  BY <1>1, <1>2, EmptySeq DEF Init, TypeOK
<1>4. NothingLost /\ Filled
  BY <1>2 DEF Init, NothingLost, Filled, Index
<1> QED
  BY <1>3, <1>4
     DEF Inv, Init, SortedByPidAfterPass, PidPrefix, MediumPrefix, Written

\* Operators of the constant part of the state.
LEMMA SameLengths ==
  ASSUME UNCHANGED pids
  PROVE  arrayLength' = arrayLength /\ Index' = Index /\ Sent' = Sent
BY DEF arrayLength, Index, Sent

LEMMA ReceiveInv ==
  ASSUME Inv, NEW m \in Messages, Receive(m)
  PROVE  Inv'
<1>1. /\ arrayLength \in Nat /\ Cardinality(Index) = arrayLength
      /\ IsFiniteSet(Sent) /\ Cardinality(Sent) = arrayLength
      /\ \A x \in Sent : x \in Messages /\ x # NoMsg
  BY Lengths DEF Inv, TypeOK
<1>2. arrayLength' = arrayLength /\ Index' = Index /\ Sent' = Sent
  BY SameLengths DEF Receive
<1>3. m \in Sent /\ phase = "receive" /\ messagesReceived \in Nat
  BY <1>1 DEF Receive, Inv, TypeOK
\* There is room: a full array would hold all the messages.
<1>4. messagesReceived \in Index
  <2> SUFFICES ASSUME messagesReceived = arrayLength PROVE FALSE
    BY <1>1 DEF Inv, TypeOK, Index
  <2>1. messages \in [Index -> Sent]
    BY <1>1 DEF Inv, TypeOK, Filled, Index
  <2>2. messages \in Injection(Index, Sent)
    BY <2>1 DEF Inv, NothingLost, Index, Injection, IsInjective
  <2>3. messages \in Surjection(Index, Sent)
    BY <1>1, <2>2, FS_Injection
  <2> QED
    BY <1>3, <2>3 DEF Receive, Surjection
<1>5. /\ messages' \in [Index -> Messages \cup {NoMsg}]
      /\ \A k \in Index : messages'[k] =
           IF k = messagesReceived THEN m ELSE messages[k]
  BY DEF Receive, Inv, TypeOK
<1>6. messagesReceived' = messagesReceived + 1 /\ messagesReceived' <= arrayLength
  BY <1>1, <1>4 DEF Receive, Index
<1>7. TypeOK'
  BY <1>1, <1>2, <1>3, <1>5, <1>6 DEF Inv, TypeOK, Receive
<1>8. Filled'
  BY <1>1, <1>2, <1>3, <1>4, <1>5, <1>6 DEF Inv, Filled, Receive, Index
<1>9. NothingLost'
  <2>1. \A k \in Index : messages[k] # m
    BY DEF Receive
  <2> QED
    BY <1>1, <1>2, <1>3, <1>4, <1>5, <1>6, <2>1
       DEF Inv, NothingLost, Receive, Index
<1> QED
  BY <1>7, <1>8, <1>9
     DEF Inv, Receive, SortedByPidAfterPass, PidPrefix, MediumPrefix, Written

LEMMA ReceivedInv ==
  ASSUME Inv, Received
  PROVE  Inv'
<1>1. /\ arrayLength \in Nat /\ Cardinality(Index) = arrayLength
      /\ IsFiniteSet(Sent) /\ Cardinality(Sent) = arrayLength
      /\ \A x \in Sent : x \in Messages /\ x # NoMsg
  BY Lengths DEF Inv, TypeOK
<1>2. arrayLength' = arrayLength /\ Index' = Index /\ Sent' = Sent
  BY SameLengths DEF Received
<1>3. messages \in [Index -> Sent]
  BY <1>1 DEF Received, Inv, TypeOK, Filled, Index
<1>4. messages \in Injection(Index, Sent)
  BY <1>3 DEF Received, Inv, NothingLost, Index, Injection, IsInjective
<1>5. messages \in Surjection(Index, Sent)
  BY <1>1, <1>4, FS_Injection
<1>6. {messages[k] : k \in Index} = Sent
  BY <1>3, <1>5 DEF Surjection
<1>7. TypeOK'
  BY <1>1, <1>2 DEF Inv, TypeOK, Received, NextLoop
<1>8. Filled' /\ NothingLost'
  BY <1>2, <1>6 DEF Inv, Filled, NothingLost, Received, NextLoop
<1>9. PidPrefix'
  BY <1>1, <1>2 DEF PidPrefix, Received, NextLoop, Index
<1> QED
  BY <1>7, <1>8, <1>9
     DEF Inv, Received, NextLoop, SortedByPidAfterPass, MediumPrefix, Written

\* Swapping two elements of a full array rearranges it.
LEMMA SwapFacts ==
  ASSUME Inv, phase # "receive", NEW x \in Index, NEW y \in Index, Swap(x, y),
         UNCHANGED <<pids, messagesReceived, phase>>
  PROVE  /\ messages' \in [Index -> Messages \cup {NoMsg}]
         /\ \A k \in Index : messages'[k] =
              IF k = x THEN messages[y] ELSE IF k = y THEN messages[x]
              ELSE messages[k]
         /\ \A k \in Index : messages[k] \in Sent /\ messages[k] \in Messages
         /\ NothingLost' /\ Filled'
<1>1. /\ arrayLength \in Nat
      /\ \A z \in Sent : z \in Messages /\ z # NoMsg
  BY Lengths DEF Inv, TypeOK
<1>2. arrayLength' = arrayLength /\ Index' = Index /\ Sent' = Sent
  BY SameLengths
<1>3. /\ messages' \in [Index -> Messages \cup {NoMsg}]
      /\ \A k \in Index : messages'[k] =
           IF k = x THEN messages[y] ELSE IF k = y THEN messages[x]
           ELSE messages[k]
  BY DEF Swap, Inv, TypeOK
<1>4. messagesReceived = arrayLength
  BY DEF Inv, Filled
<1>5. \A k \in Index : messages[k] \in Sent
  BY <1>4 DEF Inv, Filled, Index
<1>6. \A k \in Index : messages'[k] \in Sent
  BY <1>3, <1>5
<1>7. Filled'
  BY <1>1, <1>2, <1>4, <1>6 DEF Filled, Index
<1>8. \A a, b \in Index : messages[a] = messages[b] => a = b
  BY <1>4 DEF Inv, NothingLost, Index
<1>9. \A a, b \in Index : messages'[a] = messages'[b] => a = b
  BY <1>3, <1>8
<1>10. \A z \in Sent : \E k \in Index : messages'[k] = z
  <2> SUFFICES ASSUME NEW z \in Sent PROVE \E k \in Index : messages'[k] = z
    OBVIOUS
  <2>1. PICK k \in Index : messages[k] = z
    BY DEF Inv, NothingLost
  <2> DEFINE l == IF k = x THEN y ELSE IF k = y THEN x ELSE k
  <2>2. l \in Index /\ messages'[l] = z
    BY <1>3, <2>1
  <2> QED
    BY <2>2
<1>11. {messages'[k] : k \in Index} = Sent
  BY <1>6, <1>10
<1>12. NothingLost'
  BY <1>2, <1>4, <1>9, <1>11 DEF NothingLost, Index
<1> QED
  BY <1>1, <1>3, <1>5, <1>7, <1>12

LEMMA SortByPidInv ==
  ASSUME Inv, SortByPid
  PROVE  Inv'
<1>1. /\ arrayLength \in Nat /\ Index = 0..(arrayLength - 1)
      /\ \A z \in Messages : z.PID \in Nat
  BY Lengths DEF Inv, TypeOK, Index
<1>2. arrayLength' = arrayLength /\ Index' = Index /\ Sent' = Sent
  BY SameLengths DEF SortByPid, SelectFirst
<1>3. /\ phase = "pid" /\ phase' = "pid" /\ i' = i + 1
      /\ i \in Nat /\ i \in Index /\ i + 1 <= arrayLength
  BY <1>1 DEF SortByPid, SelectFirst, Inv, TypeOK
<1>4. PICK x \in i..(arrayLength - 1) :
        IsFirstLeast(x, "PID", i, arrayLength - 1) /\ Swap(x, i)
  BY DEF SortByPid, SelectFirst, LastIndex
<1>5. x \in Index
  BY <1>1, <1>3
<1>6. UNCHANGED <<pids, messagesReceived, phase>> /\ phase # "receive"
  BY DEF SortByPid, SelectFirst
<1>7. /\ messages' \in [Index -> Messages \cup {NoMsg}]
      /\ \A k \in Index : messages'[k] =
           IF k = x THEN messages[i] ELSE IF k = i THEN messages[x]
           ELSE messages[k]
      /\ \A k \in Index : messages[k] \in Messages
      /\ NothingLost' /\ Filled'
  BY <1>3, <1>4, <1>5, <1>6, SwapFacts
<1>8. \A k \in Index : messages[k].PID \in Nat
  BY <1>1, <1>7
<1>9. \A k \in i..(arrayLength - 1) : messages[x].PID <= messages[k].PID
  BY <1>4 DEF IsFirstLeast
<1>10. PidPrefix'
  <2> SUFFICES ASSUME NEW a \in Index, NEW b \in Index, a < i + 1, a <= b
               PROVE  messages'[a].PID <= messages'[b].PID
    BY <1>2, <1>3 DEF PidPrefix
  <2>1. \A c, d \in Index : c < i /\ c <= d => messages[c].PID <= messages[d].PID
    BY <1>3 DEF Inv, PidPrefix
  <2>2. CASE a < i
    <3>1. messages'[a] = messages[a]
      BY <1>1, <1>3, <1>4, <1>7, <2>2
    <3>2. PICK d \in Index : messages'[b] = messages[d] /\ a <= d
      BY <1>1, <1>3, <1>4, <1>5, <1>7, <2>2
    <3> QED
      BY <2>1, <2>2, <3>1, <3>2
  <2>3. CASE a = i
    <3>1. messages'[a] = messages[x]
      BY <1>3, <1>5, <1>7, <2>3
    <3>2. PICK d \in i..(arrayLength - 1) : messages'[b] = messages[d]
      BY <1>1, <1>3, <1>4, <1>5, <1>7, <2>3
    <3> QED
      BY <1>9, <3>1, <3>2
  <2> QED
    BY <1>1, <1>3, <2>2, <2>3
<1>11. TypeOK'
  BY <1>1, <1>2, <1>3, <1>6, <1>7 DEF Inv, TypeOK, SortByPid, SelectFirst
<1> QED
  BY <1>3, <1>7, <1>10, <1>11
     DEF Inv, SortByPid, SelectFirst, SortedByPidAfterPass, MediumPrefix,
         Written

LEMMA SortedByPidInv ==
  ASSUME Inv, SortedByPid
  PROVE  Inv'
<1>1. /\ arrayLength \in Nat /\ Index = 0..(arrayLength - 1)
      /\ \A z \in Sent : z \in Messages
      /\ \A z \in Messages : z.PID \in Nat
  BY Lengths DEF Inv, TypeOK, Index
<1>2. arrayLength' = arrayLength /\ Index' = Index /\ Sent' = Sent
  BY SameLengths DEF SortedByPid
<1>3. \A k \in Index : messages[k].PID \in Nat
  BY <1>1 DEF SortedByPid, Inv, Filled
<1>4. SortedByPidAfterPass'
  <2> SUFFICES ASSUME NEW a \in Index, NEW b \in Index, a <= b
               PROVE  messages[a].PID <= messages[b].PID
    BY <1>2 DEF SortedByPidAfterPass, SortedByPid
  <2>1. CASE a < i
    BY <2>1 DEF SortedByPid, Inv, PidPrefix
  <2>2. CASE ~(a < i)
    <3>1. a = b
      BY <1>1, <2>2 DEF SortedByPid, Inv, TypeOK
    <3> QED
      BY <1>3, <3>1
  <2> QED
    BY <2>1, <2>2
<1>5. TypeOK' /\ NothingLost' /\ Filled'
  BY <1>1, <1>2
     DEF Inv, TypeOK, NothingLost, Filled, SortedByPid, NextLoop
<1>6. MediumPrefix'
  BY <1>1, <1>2 DEF MediumPrefix, SortedByPid, NextLoop
<1> QED
  BY <1>4, <1>5, <1>6 DEF Inv, SortedByPid, NextLoop, PidPrefix, Written

\* Where the second pass selects and swaps: inside the group of i.
LEMMA GroupRange ==
  ASSUME Inv, phase = "medium", i \in Index
  PROVE  /\ GroupEnd(i) \in Index
         /\ \A k \in i..GroupEnd(i) : k \in Index /\ GroupEnd(k) = GroupEnd(i)
         /\ \A a \in Index : a < i /\ i <= GroupEnd(a) => GroupEnd(a) = GroupEnd(i)
<1>1. /\ Cardinality(pids) \in Nat /\ arrayLength = 4 * Cardinality(pids)
      /\ Index = 0..(arrayLength - 1)
  BY Lengths DEF Inv, TypeOK, arrayLength, Index
<1>2. i \in Nat /\ i < arrayLength
  BY <1>1
<1>3. PICK q \in Nat : i - (i % 4) = 4 * q
  BY <1>2, Groups
<1>4. i % 4 \in 0..3
  BY <1>2, Groups
<1>5. GroupEnd(i) = 4 * q + 3 /\ i \in (4 * q)..(4 * q + 3)
  BY <1>2, <1>3, <1>4 DEF GroupEnd
<1>6. q < Cardinality(pids)
  BY <1>1, <1>2, <1>5
<1>7. GroupEnd(i) \in Index
  BY <1>1, <1>5, <1>6
<1>8. \A k \in i..GroupEnd(i) : k \in Index /\ GroupEnd(k) = GroupEnd(i)
  <2> SUFFICES ASSUME NEW k \in i..GroupEnd(i)
               PROVE  k \in Index /\ GroupEnd(k) = GroupEnd(i)
    OBVIOUS
  <2>1. k \in Nat /\ k \in (4 * q)..(4 * q + 3)
    BY <1>2, <1>5
  <2>2. GroupEnd(k) = 4 * q + 3
    BY <2>1, SameGroup
  <2> QED
    BY <1>1, <1>2, <1>5, <1>7, <2>1, <2>2
<1>9. \A a \in Index : a < i /\ i <= GroupEnd(a) => GroupEnd(a) = GroupEnd(i)
  <2> SUFFICES ASSUME NEW a \in Index, a < i, i <= GroupEnd(a)
               PROVE  GroupEnd(a) = GroupEnd(i)
    OBVIOUS
  <2>1. a \in Nat
    BY <1>1
  <2>2. PICK r \in Nat : a - (a % 4) = 4 * r
    BY <2>1, Groups
  <2>3. a % 4 \in 0..3
    BY <2>1, Groups
  <2>4. GroupEnd(a) = 4 * r + 3 /\ a \in (4 * r)..(4 * r + 3)
    BY <2>1, <2>2, <2>3 DEF GroupEnd
  <2>5. r = q
    BY <1>2, <1>5, <2>4
  <2> QED
    BY <1>5, <2>4, <2>5
<1> QED
  BY <1>7, <1>8, <1>9

LEMMA SortByMediumInv ==
  ASSUME Inv, SortByMedium
  PROVE  Inv'
<1>1. /\ arrayLength \in Nat /\ Index = 0..(arrayLength - 1)
      /\ \A z \in Messages : z.PID \in Nat /\ z.medium \in 0..3
  BY Lengths DEF Inv, TypeOK, Index
<1>2. arrayLength' = arrayLength /\ Index' = Index /\ Sent' = Sent
  BY SameLengths DEF SortByMedium, SelectFirst
<1>3. PICK x \in i..GroupEnd(i) :
        IsFirstLeast(x, "medium", i, GroupEnd(i)) /\ Swap(x, i)
  BY DEF SortByMedium, SelectFirst
<1>4. /\ phase = "medium" /\ phase' = "medium" /\ i' = i + 1
      /\ UNCHANGED <<pids, messagesReceived, phase, out>>
  BY DEF SortByMedium, SelectFirst
<1>5. i \in Index /\ i \in Nat /\ i + 1 <= arrayLength
  <2>1. i \in 0..arrayLength /\ i - (i % 4) < arrayLength - 1
    BY DEF SortByMedium, Inv, TypeOK
  <2>2. i # arrayLength
    <3> SUFFICES ASSUME i = arrayLength PROVE FALSE
      OBVIOUS
    <3>1. Cardinality(pids) \in Nat /\ arrayLength = 4 * Cardinality(pids)
      BY Lengths DEF Inv, TypeOK, arrayLength
    <3>2. i - (i % 4) = i
      BY <3>1, SameGroup
    <3> QED
      BY <1>1, <2>1, <3>2
  <2> QED
    BY <1>1, <2>1, <2>2
<1>6. /\ GroupEnd(i) \in Index /\ x \in Index
      /\ \A k \in i..GroupEnd(i) : k \in Index /\ GroupEnd(k) = GroupEnd(i)
      /\ \A a \in Index : a < i /\ i <= GroupEnd(a) => GroupEnd(a) = GroupEnd(i)
  BY <1>4, <1>5, GroupRange
<1>7. /\ messages' \in [Index -> Messages \cup {NoMsg}]
      /\ \A k \in Index : messages'[k] =
           IF k = x THEN messages[i] ELSE IF k = i THEN messages[x]
           ELSE messages[k]
      /\ \A k \in Index : messages[k] \in Messages
      /\ NothingLost' /\ Filled'
  BY <1>3, <1>4, <1>5, <1>6, SwapFacts
<1>8. \A k \in Index : messages[k].PID \in Nat /\ messages[k].medium \in 0..3
  BY <1>1, <1>7
\* All the messages of the group are of one child, so their media differ.
<1>9. \A k \in i..GroupEnd(i) : messages[k].PID = messages[i].PID
  BY <1>1, <1>4, <1>5, <1>6, GroupPID
<1>10. \A k, l \in i..GroupEnd(i) :
         messages[k].medium = messages[l].medium => k = l
  <2> SUFFICES ASSUME NEW k \in i..GroupEnd(i), NEW l \in i..GroupEnd(i),
                      messages[k].medium = messages[l].medium
               PROVE  k = l
    OBVIOUS
  <2>1. k \in Index /\ l \in Index
    BY <1>6
  <2>2. messages[k] \in Messages /\ messages[l] \in Messages
    BY <1>7, <2>1
  <2>3. messages[k].PID = messages[l].PID
    BY <1>9
  <2>4. messages[k] = messages[l]
    BY <2>2, <2>3 DEF Messages
  <2> QED
    BY <1>1, <1>4, <2>1, <2>4 DEF Inv, NothingLost, Filled
<1>11. \A k \in i..GroupEnd(i) : messages[x].medium <= messages[k].medium
  BY <1>3 DEF IsFirstLeast
<1>12. MediumPrefix'
  <2> SUFFICES ASSUME NEW a \in Index, NEW b \in Index,
                      a < i + 1, a < b, b <= GroupEnd(a)
               PROVE  messages'[a].medium < messages'[b].medium
    BY <1>2, <1>4 DEF MediumPrefix, GroupEnd
  <2>1. \A c, d \in Index : c < i /\ c < d /\ d <= GroupEnd(c) =>
                            messages[c].medium < messages[d].medium
    BY <1>4 DEF Inv, MediumPrefix
  <2>2. CASE a < i
    <3>1. messages'[a] = messages[a]
      BY <1>1, <1>3, <1>5, <1>6, <1>7, <2>2
    <3>2. CASE i <= GroupEnd(a)
      <4>1. GroupEnd(a) = GroupEnd(i)
        BY <1>6, <2>2, <3>2
      <4>2. PICK d \in Index :
              messages'[b] = messages[d] /\ a < d /\ d <= GroupEnd(i)
        BY <1>1, <1>3, <1>5, <1>6, <1>7, <2>2, <4>1
      <4> QED
        BY <2>1, <2>2, <3>1, <4>1, <4>2
    <3>3. CASE ~(i <= GroupEnd(a))
      <4>1. GroupEnd(a) \in Nat
        BY <1>1, Groups
      <4>2. messages'[b] = messages[b]
        BY <1>1, <1>3, <1>5, <1>6, <1>7, <3>3, <4>1
      <4> QED
        BY <2>1, <2>2, <3>1, <4>2
    <3> QED
      BY <3>2, <3>3
  <2>3. CASE a = i
    <3>1. messages'[a] = messages[x]
      BY <1>5, <1>6, <1>7, <2>3
    <3>2. PICK d \in i..GroupEnd(i) : messages'[b] = messages[d] /\ d # x
      BY <1>1, <1>3, <1>5, <1>6, <1>7, <2>3
    <3>3. messages[x].medium <= messages[d].medium
      BY <1>11, <3>2
    <3>4. messages[x].medium # messages[d].medium
      BY <1>3, <1>10, <3>2
    <3>5. messages[x].medium \in Int /\ messages[d].medium \in Int
      BY <1>6, <1>8, <3>2
    <3> QED
      BY <3>1, <3>2, <3>3, <3>4, <3>5
  <2> QED
    BY <1>1, <1>5, <2>2, <2>3
<1>13. SortedByPidAfterPass'
  <2> SUFFICES ASSUME NEW a \in Index, NEW b \in Index, a <= b
               PROVE  messages'[a].PID <= messages'[b].PID
    BY <1>2, <1>4 DEF SortedByPidAfterPass
  <2>1. \A k \in Index : messages'[k].PID = messages[k].PID
    BY <1>3, <1>5, <1>6, <1>7, <1>9
  <2> QED
    BY <1>4, <2>1 DEF Inv, SortedByPidAfterPass
<1>14. TypeOK'
  BY <1>1, <1>2, <1>4, <1>5, <1>7 DEF Inv, TypeOK
<1> QED
  BY <1>4, <1>7, <1>12, <1>13, <1>14 DEF Inv, PidPrefix, Written

LEMMA SortedByMediumInv ==
  ASSUME Inv, SortedByMedium
  PROVE  Inv'
<1>1. /\ Cardinality(pids) \in Nat /\ arrayLength = 4 * Cardinality(pids)
      /\ arrayLength \in Nat /\ Index = 0..(arrayLength - 1)
  BY Lengths DEF Inv, TypeOK, arrayLength, Index
<1>2. arrayLength' = arrayLength /\ Index' = Index /\ Sent' = Sent
  BY SameLengths DEF SortedByMedium
<1>3. i = arrayLength
  <2>1. i \in Nat /\ i <= arrayLength /\ i - (i % 4) >= arrayLength - 1
    <3>1. i \in Nat /\ i <= arrayLength
      BY <1>1 DEF Inv, TypeOK
    <3>2. i - (i % 4) \in Nat
      BY <3>1, Groups
    <3> QED
      BY <1>1, <3>1, <3>2 DEF SortedByMedium
  <2>2. PICK q \in Nat : i - (i % 4) = 4 * q
    BY <2>1, Groups
  <2>3. i % 4 \in 0..3
    BY <2>1, Groups
  <2> QED
    BY <1>1, <2>1, <2>2, <2>3
<1>4. TypeOK' /\ NothingLost' /\ Filled' /\ SortedByPidAfterPass'
  BY <1>1, <1>2 DEF Inv, TypeOK, NothingLost, Filled, SortedByPidAfterPass,
                    SortedByMedium, NextLoop
<1>5. MediumPrefix'
  <2>1. phase = "medium" /\ phase' = "write" /\ messages' = messages
    BY DEF SortedByMedium, NextLoop
  <2>2. ASSUME NEW a \in Index, NEW b \in Index, a < b, b <= GroupEnd(a)
        PROVE  messages[a].medium < messages[b].medium
    <3>1. a < i
      BY <1>1, <1>3
    <3> QED
      BY <2>1, <2>2, <3>1 DEF Inv, MediumPrefix
  <2> QED
    BY <1>2, <2>1, <2>2 DEF MediumPrefix, GroupEnd
<1>6. Written'
  <2>1. out' = <<>> /\ i' = 0 /\ phase' = "write"
    BY DEF SortedByMedium, NextLoop, Inv, Written
  <2>2. Len(out') = 0 /\ DOMAIN out' = {}
    BY <2>1
  <2> QED
    BY <2>1, <2>2 DEF Written
<1> QED
  BY <1>4, <1>5, <1>6 DEF Inv, SortedByMedium, NextLoop, PidPrefix

LEMMA WriteOutFileInv ==
  ASSUME Inv, WriteOutFile
  PROVE  Inv'
<1>1. /\ Cardinality(pids) \in Nat /\ arrayLength = 4 * Cardinality(pids)
      /\ arrayLength \in Nat /\ Index = 0..(arrayLength - 1)
      /\ \A z \in Sent : z \in Messages
  BY Lengths DEF Inv, TypeOK, arrayLength, Index
<1>2. arrayLength' = arrayLength /\ Index' = Index /\ Sent' = Sent
  BY SameLengths DEF WriteOutFile
<1>3. /\ phase = "write" /\ phase' = "write" /\ i' = i + 4
      /\ UNCHANGED <<pids, messages, messagesReceived, phase>>
      /\ out' = Append(out, [k \in Media |-> messages[i + k]])
  BY DEF WriteOutFile, NextGroup
<1>4. Len(out) \in Nat /\ i = 4 * Len(out) /\ i < arrayLength
  BY <1>3, LenProperties DEF Inv, TypeOK, Written, Filled, WriteOutFile
<1>5. i + 4 <= arrayLength
  BY <1>1, <1>4
<1>6. \A k \in Media : i + k \in Index /\ messages[i + k] \in Messages
  <2>1. \A k \in Media : i + k \in Index
    BY <1>1, <1>4, <1>5 DEF Media
  <2> QED
    BY <1>1, <1>3, <2>1 DEF Inv, Filled
<1>7. /\ [k \in Media |-> messages[i + k]] \in [Media -> Messages]
      /\ out \in Seq([Media -> Messages])
  BY <1>6 DEF Inv, TypeOK
<1>8. /\ out' \in Seq([Media -> Messages])
      /\ Len(out') = Len(out) + 1
      /\ \A g \in 1..Len(out) : out'[g] = out[g]
      /\ out'[Len(out) + 1] = [k \in Media |-> messages[i + k]]
  BY <1>3, <1>7, AppendProperties
<1>9. DOMAIN out = 1..Len(out) /\ DOMAIN out' = 1..(Len(out) + 1)
  BY <1>7, <1>8, LenProperties
<1>10. Written'
  <2>1. i' = 4 * Len(out')
    BY <1>3, <1>4, <1>8
  <2>2. ASSUME NEW g \in DOMAIN out', NEW k \in Media
        PROVE  out'[g][k] = messages[4 * (g - 1) + k]
    <3>1. CASE g \in 1..Len(out)
      BY <1>3, <1>8, <1>9, <3>1 DEF Inv, Written
    <3>2. CASE g = Len(out) + 1
      <4>1. 4 * (g - 1) = i
        BY <1>4, <3>2
      <4> QED
        BY <1>8, <3>2, <4>1
    <3> QED
      BY <1>4, <1>9, <3>1, <3>2
  <2> QED
    BY <1>3, <2>1, <2>2 DEF Written
<1>11. TypeOK'
  BY <1>1, <1>2, <1>3, <1>4, <1>5, <1>8 DEF Inv, TypeOK
<1>12. NothingLost' /\ Filled' /\ SortedByPidAfterPass' /\ MediumPrefix'
  BY <1>2, <1>3
     DEF Inv, NothingLost, Filled, SortedByPidAfterPass, MediumPrefix, GroupEnd
<1> QED
  BY <1>3, <1>10, <1>11, <1>12 DEF Inv, PidPrefix

LEMMA FinishInv ==
  ASSUME Inv, Finish
  PROVE  Inv'
<1>1. arrayLength \in Nat
  BY Lengths DEF Inv, TypeOK
<1>2. arrayLength' = arrayLength /\ Index' = Index /\ Sent' = Sent
  BY SameLengths DEF Finish
<1>3. i = arrayLength
  BY <1>1 DEF Finish, Inv, TypeOK, Filled
<1>4. TypeOK' /\ NothingLost' /\ Filled' /\ SortedByPidAfterPass'
  BY <1>1, <1>2 DEF Inv, TypeOK, NothingLost, Filled, SortedByPidAfterPass,
                    Finish
<1>5. MediumPrefix' /\ Written' /\ PidPrefix'
  BY <1>2, <1>3 DEF Inv, MediumPrefix, Written, PidPrefix, Finish, GroupEnd
<1> QED
  BY <1>4, <1>5 DEF Inv

LEMMA StutterInv ==
  ASSUME Inv, UNCHANGED vars
  PROVE  Inv'
<1>1. arrayLength' = arrayLength /\ Index' = Index /\ Sent' = Sent
  BY SameLengths DEF vars
<1> QED
  BY <1>1
     DEF vars, Inv, TypeOK, NothingLost, Filled, SortedByPidAfterPass,
         PidPrefix, MediumPrefix, Written, GroupEnd

LEMMA InvInductive == Inv /\ [Next]_vars => Inv'
<1> SUFFICES ASSUME Inv, [Next]_vars PROVE Inv'
  OBVIOUS
<1>1. ASSUME NEW m \in Messages, Receive(m) PROVE Inv'
  BY <1>1, ReceiveInv
<1>2. CASE Done
  BY <1>2, StutterInv DEF Done
<1> QED
  BY <1>1, <1>2, ReceivedInv, SortByPidInv, SortedByPidInv, SortByMediumInv,
     SortedByMediumInv, WriteOutFileInv, FinishInv, StutterInv DEF Next

-----------------------------------------------------------------------------
(* The outputs.                                                            *)

\* Four different media in ascending order are the four media.
LEMMA InvOutputsWhole == Inv => OutputsWhole
<1> SUFFICES ASSUME Inv PROVE OutputsWhole
  OBVIOUS
<1>1. /\ Cardinality(pids) \in Nat /\ arrayLength = 4 * Cardinality(pids)
      /\ Index = 0..(arrayLength - 1)
      /\ \A z \in Sent : z \in Messages
      /\ \A z \in Messages : z.PID \in Nat /\ z.medium \in 0..3
  BY Lengths DEF Inv, TypeOK, arrayLength, Index
<1>2. Len(out) \in Nat /\ DOMAIN out = 1..Len(out)
  BY LenProperties DEF Inv, TypeOK
<1>3. CASE phase \notin {"write", "done"}
  <2>1. out = <<>> /\ DOMAIN out = {}
    BY <1>3 DEF Inv, Written
  <2> QED
    BY <1>3, <2>1 DEF OutputsWhole
<1>4. CASE phase \in {"write", "done"}
  <2>1. i = 4 * Len(out) /\ i <= arrayLength /\ (phase = "done" => i = arrayLength)
    BY <1>1, <1>4 DEF Inv, TypeOK, Written
  <2>2. \A g \in DOMAIN out, k \in Media :
          4 * (g - 1) + k \in Index /\ out[g][k] = messages[4 * (g - 1) + k]
    <3>1. \A g \in DOMAIN out, k \in Media : 4 * (g - 1) + k \in Index
      BY <1>1, <1>2, <2>1, SMTT(60) DEF Media
    <3> QED
      BY <1>4, <3>1 DEF Inv, Written
  <2>3. \A k \in Index : messages[k] \in Sent
    BY <1>4 DEF Inv, Filled, Index
  <2>4. ASSUME NEW g \in DOMAIN out
        PROVE  \E p \in pids :
                 out[g] = [k \in Media |-> [PID |-> p, medium |-> k]]
    <3> DEFINE b == 4 * (g - 1)
               p == messages[b].PID
    <3>1. b \in Nat /\ \A k \in 0..3 : b + k \in Index
      BY <1>2, <2>2 DEF Media
    <3>2. \A k \in 0..3 : GroupEnd(b + k) = b + 3
      <4>1. g - 1 \in Nat
        BY <1>2
      <4> QED
        BY <3>1, <4>1, SameGroup
    <3>3. \A k \in 0..3 : messages[b + k].PID = p
      <4> SUFFICES ASSUME NEW k \in 0..3 PROVE messages[b + k].PID = p
        OBVIOUS
      <4>1. GroupEnd(b) = b + 3 /\ b \in Index
        BY <3>1, <3>2
      <4>2. b + k \in Index /\ b <= b + k /\ b + k <= GroupEnd(b)
        BY <3>1, <4>1
      <4> HIDE DEF b
      <4> QED
        BY <1>4, <4>1, <4>2, GroupPID
    <3>4. \A k, l \in 0..3 : k < l => messages[b + k].medium < messages[b + l].medium
      <4> SUFFICES ASSUME NEW k \in 0..3, NEW l \in 0..3, k < l
                   PROVE  messages[b + k].medium < messages[b + l].medium
        OBVIOUS
      <4>1. b + k < b + l /\ b + l <= GroupEnd(b + k)
        BY <3>1, <3>2
      <4>2. b + k \in Index /\ b + l \in Index
        BY <3>1
      <4> QED
        BY <1>4, <4>1, <4>2 DEF Inv, MediumPrefix
    <3>5. \A k \in 0..3 : messages[b + k] \in Messages /\ messages[b + k].medium \in 0..3
      BY <1>1, <2>3, <3>1
    <3>6. \A k \in 0..3 : messages[b + k].medium = k
      <4>1. /\ messages[b].medium < messages[b + 1].medium
            /\ messages[b + 1].medium < messages[b + 2].medium
            /\ messages[b + 2].medium < messages[b + 3].medium
        BY <3>1, <3>4
      <4>2. /\ messages[b].medium \in 0..3 /\ messages[b + 1].medium \in 0..3
            /\ messages[b + 2].medium \in 0..3 /\ messages[b + 3].medium \in 0..3
        BY <3>1, <3>5
      <4>3. /\ messages[b].medium = 0 /\ messages[b + 1].medium = 1
            /\ messages[b + 2].medium = 2 /\ messages[b + 3].medium = 3
        BY <4>1, <4>2
      <4>4. b + 0 = b
        BY <3>1
      <4> QED
        BY <4>3, <4>4
    <3>7. \A k \in 0..3 : messages[b + k] = [PID |-> p, medium |-> k]
      BY <3>3, <3>5, <3>6 DEF Messages
    <3>8. out[g] \in [Media -> Messages]
      BY ElementOfSeq, <1>2 DEF Inv, TypeOK
    <3>9. \A k \in Media : out[g][k] = [PID |-> p, medium |-> k]
      BY <2>2, <3>7 DEF Media
    <3>10. p \in pids
      BY <2>3, <3>1 DEF Sent
    <3> HIDE DEF b, p
    <3> QED
      BY <3>8, <3>9, <3>10
  <2>5. ASSUME NEW g \in DOMAIN out, NEW h \in DOMAIN out, out[g] = out[h]
        PROVE  g = h
    <3>1. messages[4 * (g - 1)] = messages[4 * (h - 1)]
      <4>1. 0 \in Media /\ 4 * (g - 1) + 0 = 4 * (g - 1)
            /\ 4 * (h - 1) + 0 = 4 * (h - 1)
        BY <1>2 DEF Media
      <4> QED
        BY <2>2, <2>5, <4>1
    <3>2. 4 * (g - 1) \in Index /\ 4 * (h - 1) \in Index
      BY <1>2, <2>2 DEF Media
    <3>3. 4 * (g - 1) = 4 * (h - 1)
      BY <1>1, <1>4, <3>1, <3>2 DEF Inv, NothingLost, Filled
    <3> QED
      BY <1>2, <3>3
  <2>6. phase = "done" => Len(out) = Cardinality(pids)
    BY <1>1, <1>2, <2>1
  <2> QED
    BY <2>4, <2>5, <2>6 DEF OutputsWhole
<1> QED
  BY <1>3, <1>4

\* Every variable of SortMessages keeps its type; in particular the loops stay
\* in the array, for every number of files.
THEOREM TypeCorrect == Spec => []TypeOK
<1>1. Spec => []Inv
  BY InitInv, InvInductive, PTL DEF Spec
<1>2. Inv => TypeOK
  BY DEF Inv
<1> QED
  BY <1>1, <1>2, PTL

\* Every output file holds the four parts of one file in order, and every file
\* gets its output, for every number of files, all PIDs and every order of
\* arrival.
THEOREM Outputs == Spec => []OutputsWhole
<1>1. Spec => []Inv
  BY InitInv, InvInductive, PTL DEF Spec
<1> QED
  BY <1>1, InvOutputsWhole, PTL

\* sortMessages neither loses nor doubles a part.
THEOREM Rearranges == Spec => []NothingLost
<1>1. Spec => []Inv
  BY InitInv, InvInductive, PTL DEF Spec
<1>2. Inv => NothingLost
  BY DEF Inv
<1> QED
  BY <1>1, <1>2, PTL

\* The first pass of sortMessages, a selection sort by swaps, leaves the parts
\* ordered by PID.
THEOREM Sorted == Spec => []SortedByPidAfterPass
<1>1. Spec => []Inv
  BY InitInv, InvInductive, PTL DEF Spec
<1>2. Inv => SortedByPidAfterPass
  BY DEF Inv
<1> QED
  BY <1>1, <1>2, PTL
=============================================================================
