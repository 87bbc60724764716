--------------------------- MODULE FamiliesProofs ---------------------------
(***************************************************************************)
(* Proofs about Families.  Each of the five programs has an inductive      *)
(* invariant of its own, and a step of one leaves the others alone.        *)
(***************************************************************************)
EXTENDS Families, SequenceTheorems, FiniteSetTheorems, TLAPS

-----------------------------------------------------------------------------
(* Sequences, place by place.                                              *)

LEMMA ItemConcat ==
  ASSUME NEW S, NEW s \in Seq(S), NEW t \in Seq(S), NEW l \in Nat, l = Len(s),
         NEW k \in Nat, k = Len(t)
  PROVE  /\ s \o t \in Seq(S) /\ Len(s \o t) = l + k
         /\ \A i \in 1..l : (s \o t)[i] = s[i]
         /\ \A i \in 1..k : (s \o t)[l + i] = t[i]
<1>1. PICK v : v = s \o t
  OBVIOUS
<1>2. /\ v \in Seq(S) /\ Len(v) = l + k
      /\ \A i \in 1..(l + k) : v[i] = IF i <= l THEN s[i] ELSE t[i - l]
  BY <1>1, ConcatProperties
<1>3. \A i \in 1..l : v[i] = s[i]
  BY <1>2
<1>4. ASSUME NEW i \in 1..k PROVE v[l + i] = t[i]
  <2>1. l + i \in 1..(l + k) /\ ~(l + i <= l) /\ l + i - l = i
    OBVIOUS
  <2> QED
    BY <1>2, <2>1
<1> QED
  BY <1>1, <1>2, <1>3, <1>4

LEMMA ItemHead ==
  ASSUME NEW S, NEW s \in Seq(S), s # <<>>
  PROVE  /\ Len(s) \in Nat /\ Len(s) > 0
         /\ Head(s) = s[1] /\ s[1] \in S /\ <<s[1]>> \in Seq(S) /\ Len(<<s[1]>>) = 1
         /\ Tail(s) \in Seq(S) /\ Len(Tail(s)) = Len(s) - 1
         /\ \A i \in 1..(Len(s) - 1) : Tail(s)[i] = s[i + 1]
<1>1. Len(s) \in Nat /\ Len(s) > 0
  BY EmptySeq, LenProperties
<1>2. 1 \in 1..Len(s)
  BY <1>1
<1>3. s[1] \in S
  BY <1>2, ElementOfSeq
<1> QED
  BY <1>1, <1>3, HeadTailProperties

\* A unit that moves from the head of one sequence to the end of another.
LEMMA ItemMoves ==
  ASSUME NEW S, NEW s \in Seq(S), NEW t \in Seq(S), t # <<>>
  PROVE  /\ <<Head(t)>> \o Tail(t) = t
         /\ (s \o <<Head(t)>>) \o Tail(t) = s \o t
<1>1. PICK h : h = <<Head(t)>>
  OBVIOUS
<1>2. PICK r : r = Tail(t)
  OBVIOUS
<1>3. PICK k \in Nat : k = Len(t) /\ k > 0
  BY ItemHead
<1>4. /\ h \in Seq(S) /\ Len(h) = 1 /\ h[1] = t[1]
      /\ r \in Seq(S) /\ Len(r) = k - 1 /\ \A i \in 1..(k - 1) : r[i] = t[i + 1]
  BY <1>1, <1>2, <1>3, ItemHead
<1>a. h \in Seq(S) /\ r \in Seq(S)
  BY <1>4
<1>5. PICK v : v = h \o r
  OBVIOUS
<1>6. /\ v \in Seq(S) /\ Len(v) = 1 + (k - 1)
      /\ \A i \in 1..1 : v[i] = h[i]
      /\ \A i \in 1..(k - 1) : v[1 + i] = r[i]
  <2>1. PICK a \in Nat : a = Len(h)
    BY <1>4
  <2>2. PICK m \in Nat : m = Len(r)
    BY <1>3, <1>4
  <2>3. /\ h \o r \in Seq(S) /\ Len(h \o r) = a + m
        /\ \A i \in 1..a : (h \o r)[i] = h[i]
        /\ \A i \in 1..m : (h \o r)[a + i] = r[i]
    BY <1>a, <2>1, <2>2, ItemConcat
  <2>4. a = 1 /\ m = k - 1
    BY <1>4, <2>1, <2>2
  <2> QED
    BY <1>5, <2>3, <2>4
<1>7. ASSUME NEW i \in 1..k PROVE v[i] = t[i]
  <2>1. CASE i = 1
    BY <1>4, <1>6, <2>1
  <2>2. CASE i # 1
    <3>1. i - 1 \in 1..(k - 1) /\ 1 + (i - 1) = i /\ i - 1 + 1 = i
      BY <2>2
    <3>2. v[1 + (i - 1)] = r[i - 1] /\ r[i - 1] = t[i - 1 + 1]
      BY <1>4, <1>6, <3>1
    <3> QED
      BY <3>1, <3>2
  <2> QED
    BY <2>1, <2>2
<1>8. v = t
  BY <1>3, <1>6, <1>7, SeqEqual
<1>9. (s \o h) \o r = s \o (h \o r)
  BY <1>a, ConcatAssociative, SMTT(60)
<1> QED
  BY <1>1, <1>2, <1>5, <1>8, <1>9

-----------------------------------------------------------------------------
(* The chunks and the items of a sequence of units.                        *)

\* ChunksInOrder, of any sequence and any counts.
IsValue(u, p) == u.producer = p /\ u.part = "value"
Ordered(s, r) ==
    \A p \in Producers :
      /\ \A j \in 1..Len(s) : IsValue(s[j], p) => s[j].chunk \in 1..r[p]
      /\ \A c \in 1..r[p] : \E j \in 1..Len(s) : IsValue(s[j], p) /\ s[j].chunk = c
      /\ \A i, j \in 1..Len(s) :
            IsValue(s[i], p) /\ IsValue(s[j], p) /\ i < j => s[i].chunk < s[j].chunk

\* Sizes and values take turns, and a value belongs to the size before it.
InPairs(s) ==
    /\ s # <<>> => s[1].part = "size"
    /\ \A i \in 1..Len(s) :
          IF s[i].part = "size" THEN i < Len(s) /\ s[i + 1] = [s[i] EXCEPT !.part = "value"]
                                ELSE i < Len(s) => s[i + 1].part = "size"

\* A unit that is no value may go.
LEMMA OrderedDrop ==
  ASSUME NEW s \in Seq(Items!Units), NEW t \in Seq(Items!Units), NEW r,
         NEW n1 \in Nat, Len(s) = n1 + 1, Len(t) = n1,
         NEW k \in 1..(n1 + 1), s[k].part # "value",
         \A j \in 1..n1 : t[j] = IF j < k THEN s[j] ELSE s[j + 1],
         Ordered(s, r)
  PROVE  Ordered(t, r)
<1> SUFFICES ASSUME NEW p \in Producers
             PROVE  /\ \A j \in 1..n1 : IsValue(t[j], p) => t[j].chunk \in 1..r[p]
                    /\ \A c \in 1..r[p] : \E j \in 1..n1 : IsValue(t[j], p) /\ t[j].chunk = c
                    /\ \A i, j \in 1..n1 : IsValue(t[i], p) /\ IsValue(t[j], p) /\ i < j
                           => t[i].chunk < t[j].chunk
  BY DEF Ordered
<1>1. /\ \A j \in 1..(n1 + 1) : IsValue(s[j], p) => s[j].chunk \in 1..r[p]
      /\ \A c \in 1..r[p] : \E j \in 1..(n1 + 1) : IsValue(s[j], p) /\ s[j].chunk = c
      /\ \A i, j \in 1..(n1 + 1) : IsValue(s[i], p) /\ IsValue(s[j], p) /\ i < j
             => s[i].chunk < s[j].chunk
  BY DEF Ordered
<1>2. ASSUME NEW j \in 1..n1 PROVE IsValue(t[j], p) => t[j].chunk \in 1..r[p]
  <2>1. j \in 1..(n1 + 1) /\ j + 1 \in 1..(n1 + 1)
    OBVIOUS
  <2> QED
    BY <1>1, <2>1
<1>3. ASSUME NEW c \in 1..r[p] PROVE \E j \in 1..n1 : IsValue(t[j], p) /\ t[j].chunk = c
  <2>1. PICK j \in 1..(n1 + 1) : IsValue(s[j], p) /\ s[j].chunk = c
    BY <1>1
  <2>2. j # k
    BY <2>1 DEF IsValue
  <2>3. CASE j < k
    <3>1. j \in 1..n1 /\ t[j] = s[j]
      BY <2>3
    <3> QED
      BY <2>1, <3>1
  <2>4. CASE j > k
    <3>1. j - 1 \in 1..n1 /\ ~(j - 1 < k) /\ j - 1 + 1 = j
      BY <2>4
    <3>2. t[j - 1] = s[j]
      BY <3>1
    <3> QED
      BY <2>1, <3>1, <3>2
  <2> QED
    BY <2>2, <2>3, <2>4
<1>4. ASSUME NEW i \in 1..n1, NEW j \in 1..n1, IsValue(t[i], p), IsValue(t[j], p), i < j
      PROVE  t[i].chunk < t[j].chunk
  <2>1. /\ i \in 1..(n1 + 1) /\ i + 1 \in 1..(n1 + 1)
        /\ j \in 1..(n1 + 1) /\ j + 1 \in 1..(n1 + 1) /\ i + 1 < j + 1 /\ i < j + 1
    BY <1>4
  <2>2. CASE j < k
    <3>1. t[i] = s[i] /\ t[j] = s[j]
      BY <1>4, <2>2
    <3> QED
      BY <1>1, <1>4, <2>1, <3>1
  <2>3. CASE ~(j < k) /\ i < k
    <3>1. t[i] = s[i] /\ t[j] = s[j + 1]
      BY <2>3
    <3> QED
      BY <1>1, <1>4, <2>1, <3>1
  <2>4. CASE ~(j < k) /\ ~(i < k)
    <3>1. t[i] = s[i + 1] /\ t[j] = s[j + 1]
      BY <2>4
    <3> QED
      BY <1>1, <1>4, <2>1, <3>1
  <2> QED
    BY <1>4, <2>2, <2>3, <2>4
<1> QED
  BY <1>2, <1>3, <1>4

\* The next chunk comes last.
LEMMA OrderedNext ==
  ASSUME NEW s \in Seq(Items!Units), NEW t \in Seq(Items!Units),
         NEW r \in [Producers -> Nat], NEW p \in Producers,
         NEW n1 \in Nat, n1 = Len(s), NEW n2 \in Nat, n2 = Len(t), n1 < n2,
         \A j \in 1..n1 : t[j] = s[j],
         \A j \in (n1 + 1)..(n2 - 1) : t[j].part # "value",
         t[n2] = Items!Unit(p, r[p] + 1, "value"),
         Ordered(s, r)
  PROVE  Ordered(t, [r EXCEPT ![p] = @ + 1])
<1>1. PICK r1 : r1 = [r EXCEPT ![p] = @ + 1]
  OBVIOUS
<1>2. r1[p] = r[p] + 1 /\ \A q \in Producers : q # p => r1[q] = r[q]
  BY <1>1
<1>3. /\ t[n2].producer = p /\ t[n2].part = "value" /\ t[n2].chunk = r[p] + 1
      /\ IsValue(t[n2], p) /\ \A q \in Producers : q # p => ~IsValue(t[n2], q)
  BY DEF Items!Unit, IsValue
<1>4. \A q \in Producers, j \in 1..n2 : IsValue(t[j], q) /\ j # n2 => j \in 1..n1
  BY DEF IsValue
<1> SUFFICES ASSUME NEW q \in Producers
             PROVE  /\ \A j \in 1..n2 : IsValue(t[j], q) => t[j].chunk \in 1..r1[q]
                    /\ \A c \in 1..r1[q] : \E j \in 1..n2 : IsValue(t[j], q) /\ t[j].chunk = c
                    /\ \A i, j \in 1..n2 : IsValue(t[i], q) /\ IsValue(t[j], q) /\ i < j
                           => t[i].chunk < t[j].chunk
  BY <1>1 DEF Ordered
<1>5. /\ \A j \in 1..n1 : IsValue(s[j], q) => s[j].chunk \in 1..r[q]
      /\ \A c \in 1..r[q] : \E j \in 1..n1 : IsValue(s[j], q) /\ s[j].chunk = c
      /\ \A i, j \in 1..n1 : IsValue(s[i], q) /\ IsValue(s[j], q) /\ i < j
             => s[i].chunk < s[j].chunk
  BY DEF Ordered
<1>6. r[q] \in Nat /\ r[p] \in Nat /\ r1[q] \in Nat /\ r1[q] >= r[q] /\ 1..n1 \subseteq 1..n2
  BY <1>2
<1>7. ASSUME NEW j \in 1..n2, IsValue(t[j], q) PROVE t[j].chunk \in 1..r1[q]
  <2>1. CASE j = n2
    BY <1>2, <1>3, <1>6, <1>7, <2>1
  <2>2. CASE j # n2
    <3>1. j \in 1..n1 /\ t[j] = s[j]
      BY <1>4, <1>7, <2>2
    <3>2. s[j].chunk \in 1..r[q]
      BY <1>5, <1>7, <3>1
    <3> QED
      BY <1>6, <3>1, <3>2
  <2> QED
    BY <2>1, <2>2
<1>8. ASSUME NEW c \in 1..r1[q] PROVE \E j \in 1..n2 : IsValue(t[j], q) /\ t[j].chunk = c
  <2>1. CASE c \in 1..r[q]
    <3>1. PICK j \in 1..n1 : IsValue(s[j], q) /\ s[j].chunk = c
      BY <1>5, <2>1
    <3> QED
      BY <1>6, <3>1
  <2>2. CASE c \notin 1..r[q]
    <3>1. q = p /\ c = r[p] + 1
      BY <1>2, <1>6, <2>2
    <3> QED
      BY <1>3, <3>1
  <2> QED
    BY <2>1, <2>2
<1>9. ASSUME NEW i \in 1..n2, NEW j \in 1..n2, IsValue(t[i], q), IsValue(t[j], q), i < j
      PROVE  t[i].chunk < t[j].chunk
  <2>1. i \in 1..n1 /\ t[i] = s[i]
    BY <1>4, <1>9
  <2>2. CASE j = n2
    <3>1. q = p
      BY <1>3, <1>9, <2>2
    <3>2. s[i].chunk \in 1..r[q]
      BY <1>5, <1>9, <2>1
    <3> QED
      BY <1>3, <1>6, <2>1, <2>2, <3>1, <3>2
  <2>3. CASE j # n2
    <3>1. j \in 1..n1 /\ t[j] = s[j]
      BY <1>4, <1>9, <2>3
    <3> QED
      BY <1>5, <1>9, <2>1, <3>1
  <2> QED
    BY <2>2, <2>3
<1> QED
  BY <1>7, <1>8, <1>9

\* A whole item leaves, or another comes.
LEMMA InPairsTail ==
  ASSUME NEW s \in Seq(Items!Units), NEW t \in Seq(Items!Units),
         NEW n1 \in Nat, Len(s) = n1 + 2, Len(t) = n1,
         \A j \in 1..n1 : t[j] = s[j + 2],
         InPairs(s)
  PROVE  InPairs(t)
<1>1. ASSUME NEW j \in 1..(n1 + 2)
      PROVE  IF s[j].part = "size" THEN j < n1 + 2 /\ s[j + 1] = [s[j] EXCEPT !.part = "value"]
                                   ELSE j < n1 + 2 => s[j + 1].part = "size"
  BY DEF InPairs
<1>2. s[1].part = "size"
  <2>1. s # <<>>
    BY EmptySeq
  <2> QED
    BY <2>1 DEF InPairs
<1>3. s[2].part # "size"
  <2>1. 1 \in 1..(n1 + 2) /\ 1 + 1 = 2 /\ s[1] \in Items!Units
    BY ElementOfSeq
  <2>2. s[2] = [s[1] EXCEPT !.part = "value"]
    BY <1>1, <1>2, <2>1
  <2> QED
    BY <2>1, <2>2 DEF Items!Units
<1>4. t # <<>> => t[1].part = "size"
  <2> SUFFICES ASSUME t # <<>> PROVE t[1].part = "size"
    OBVIOUS
  <2>1. n1 > 0 /\ 1 \in 1..n1 /\ 2 \in 1..(n1 + 2) /\ 2 < n1 + 2 /\ 2 + 1 = 3 /\ 1 + 2 = 3
    BY EmptySeq
  <2>2. s[3].part = "size"
    BY <1>1, <1>3, <2>1
  <2> QED
    BY <2>1, <2>2
<1>5. ASSUME NEW j \in 1..n1
      PROVE  IF t[j].part = "size" THEN j < n1 /\ t[j + 1] = [t[j] EXCEPT !.part = "value"]
                                   ELSE j < n1 => t[j + 1].part = "size"
  <2>1. j + 2 \in 1..(n1 + 2) /\ (j + 2 < n1 + 2 <=> j < n1) /\ j + 2 + 1 = j + 1 + 2
    OBVIOUS
  <2>2. j < n1 => t[j + 1] = s[j + 2 + 1]
    BY <2>1
  <2> QED
    BY <1>1, <2>1, <2>2
<1> QED
  BY <1>4, <1>5 DEF InPairs

LEMMA InPairsNext ==
  ASSUME NEW s \in Seq(Items!Units), NEW t \in Seq(Items!Units),
         NEW n1 \in Nat, Len(s) = n1, Len(t) = n1 + 2,
         \A j \in 1..n1 : t[j] = s[j],
         NEW p, NEW c, t[n1 + 1] = Items!Unit(p, c, "size"), t[n1 + 2] = Items!Unit(p, c, "value"),
         InPairs(s)
  PROVE  InPairs(t)
<1>1. ASSUME NEW j \in 1..n1
      PROVE  IF s[j].part = "size" THEN j < n1 /\ s[j + 1] = [s[j] EXCEPT !.part = "value"]
                                   ELSE j < n1 => s[j + 1].part = "size"
  BY DEF InPairs
<1>2. t[n1 + 1].part = "size" /\ t[n1 + 2] = [t[n1 + 1] EXCEPT !.part = "value"]
  BY DEF Items!Unit
<1>3. t[n1 + 2].part # "size"
  BY DEF Items!Unit
<1>4. t[1].part = "size"
  <2>1. CASE n1 = 0
    BY <1>2, <2>1
  <2>2. CASE n1 # 0
    <3>1. s # <<>>
      BY <2>2, EmptySeq
    <3> QED
      BY <2>2, <3>1 DEF InPairs
  <2> QED
    BY <2>1, <2>2
<1>5. ASSUME NEW j \in 1..(n1 + 2)
      PROVE  IF t[j].part = "size" THEN j < n1 + 2 /\ t[j + 1] = [t[j] EXCEPT !.part = "value"]
                                   ELSE j < n1 + 2 => t[j + 1].part = "size"
  <2>1. CASE j = n1 + 2
    BY <1>3, <2>1
  <2>2. CASE j = n1 + 1
    <3>1. j + 1 = n1 + 2
      BY <2>2
    <3> QED
      BY <1>2, <2>2, <3>1
  <2>3. CASE j = n1 /\ j \in 1..n1
    <3>2. ~(j < n1) /\ j + 1 = n1 + 1 /\ t[j] = s[j]
      BY <2>3
    <3>3. IF s[j].part = "size" THEN j < n1 /\ s[j + 1] = [s[j] EXCEPT !.part = "value"]
                                ELSE j < n1 => s[j + 1].part = "size"
      BY <1>1, <2>3
    <3>4. s[j].part # "size"
      BY <3>2, <3>3
    <3>1. t[j].part # "size"
      BY <3>2, <3>4
    <3> QED
      BY <1>2, <3>1, <3>2
  <2>4. CASE j \in 1..(n1 - 1)
    <3>1. j \in 1..n1 /\ j + 1 \in 1..n1 /\ j < n1
      BY <2>4
    <3>2. t[j] = s[j] /\ t[j + 1] = s[j + 1]
      BY <3>1
    <3> QED
      BY <1>1, <3>1, <3>2
  <2> QED
    BY <2>1, <2>2, <2>3, <2>4
<1> QED
  BY <1>4, <1>5 DEF InPairs

-----------------------------------------------------------------------------
(* Children that send items to their parent.                               *)

\* What a control point says about the pipe, the file and the parameter.
ItemPoints ==
    /\ consumer \in {"value", "wait"} => exercise = 2
    /\ forked = {} => pipe = <<>>
    /\ consumer \in {"wait", "done"} => pipe = <<>>
    /\ \A p \in Producers :
          /\ producer[p] # "none" => p \in forked
          /\ producer[p] \in {"none", "open"} => read[p] = 0
          /\ producer[p] = "ended" /\ p \notin Unreadable => read[p] = Chunks[p]
          /\ consumer \in {"wait", "done"} => producer[p] \in {"none", "ended"}

\* The parts of the units: items come in pairs, bytes and lines are values.
ItemParts ==
    /\ exercise = 2 => InPairs(size \o pipe)
    /\ exercise = 1 => \A i \in 1..Len(pipe) : pipe[i].part = "value"
    /\ \A i \in 1..Len(lines) : lines[i].part = "value"
    /\ consumer = "value" => Len(size) = 1

ItemsInv ==
    /\ Items!TypeOK /\ read \in [Producers -> Nat]
    /\ ItemPoints /\ ItemParts /\ Ordered(lines \o pipe, read)

LEMMA ItemsInit == Items!Init => ItemsInv
<1> SUFFICES ASSUME Items!Init PROVE ItemsInv
  OBVIOUS
<1>1. /\ <<>> \in Seq(Items!Units) /\ Len(<<>>) = 0 /\ lines \o pipe = <<>> /\ size \o pipe = <<>>
  BY EmptySeq, ConcatEmptySeq DEF Items!Init, Items!NoItem
<1>2. Items!TypeOK
  BY <1>1, FamiliesAssumption DEF Items!Init, Items!TypeOK, Items!Parent, Items!NoItem
<1>3. ItemPoints /\ read \in [Producers -> Nat]
  BY DEF Items!Init, ItemPoints
<1>4. ItemParts
  BY <1>1 DEF Items!Init, ItemParts, InPairs, Items!NoItem
<1>5. Ordered(lines \o pipe, read)
  BY <1>1 DEF Items!Init, Ordered
<1> QED
  BY <1>2, <1>3, <1>4, <1>5 DEF ItemsInv

\* Steps that read no chunk and leave the units where they are.
LEMMA ItemsStay ==
  ASSUME ItemsInv, UNCHANGED <<exercise, read, pipe, size, lines>>,
         Items!TypeOK', ItemPoints', consumer' = "value" => consumer = "value"
  PROVE  ItemsInv'
<1>1. ItemParts'
  BY DEF ItemsInv, ItemParts, InPairs
<1>2. Ordered(lines \o pipe, read)'
  <2>1. PICK s : s = lines \o pipe
    OBVIOUS
  <2>2. Ordered(s, read)
    BY <2>1 DEF ItemsInv
  <2>3. (lines \o pipe)' = s
    BY <2>1
  <2>4. Ordered(s, read)'
    BY <2>2 DEF Ordered
  <2> QED
    BY <2>3, <2>4
<1> QED
  BY <1>1, <1>2 DEF ItemsInv

LEMMA ItemsFork ==
  ASSUME ItemsInv, Items!ForkOne \/ Items!ForkEach \/ Items!CloseWriteEnd
  PROVE  ItemsInv'
<1> USE FamiliesAssumption DEF ItemsInv, Items!TypeOK, Items!Parent, Items!NoItem
<1>1. CASE Items!ForkOne
  <2>1. pipe = <<>> /\ \A p \in Producers : producer[p] = "none"
    BY <1>1 DEF Items!ForkOne, ItemPoints
  <2>2. Items!TypeOK'
    <3>1. CASE consumer' = "done" /\ writers' = {} /\ UNCHANGED producer
      BY <1>1, <2>1, <3>1 DEF Items!ForkOne
    <3>2. CASE (\E p \in Producers : Items!Child(p)) /\ UNCHANGED consumer
      BY <1>1, <2>1, <3>2 DEF Items!ForkOne, Items!Child
    <3> QED
      BY <1>1, <3>1, <3>2 DEF Items!ForkOne
  <2>3. ItemPoints'
    BY <1>1, <2>1 DEF Items!ForkOne, Items!Child, ItemPoints
  <2>4. consumer' # "value" /\ UNCHANGED <<exercise, read, pipe, size, lines>>
    BY <1>1 DEF Items!ForkOne
  <2> QED
    BY <2>2, <2>3, <2>4, ItemsStay
<1>2. CASE Items!ForkEach
  <2>1. \A p \in Producers \ forked : producer[p] = "none"
    BY DEF ItemPoints
  <2>2. Items!TypeOK'
    <3>1. PICK p \in Producers \ forked :
            /\ forked' = forked \union {p}
            /\ Items!Child(p) \/ UNCHANGED <<producer, writers>>
      BY <1>2 DEF Items!ForkEach
    <3>2. consumer = "fork" /\ UNCHANGED <<exercise, read, pipe, consumer, size, lines>>
      BY <1>2 DEF Items!ForkEach
    <3>3. CASE Items!Child(p)
      BY <2>1, <3>1, <3>2, <3>3 DEF Items!Child
    <3>4. CASE UNCHANGED <<producer, writers>>
      BY <3>1, <3>2, <3>4
    <3> QED
      BY <3>1, <3>3, <3>4
  <2>3. ItemPoints'
    BY <1>2, <2>1 DEF Items!ForkEach, Items!Child, ItemPoints
  <2>4. consumer' # "value" /\ UNCHANGED <<exercise, read, pipe, size, lines>>
    BY <1>2 DEF Items!ForkEach
  <2> QED
    BY <2>2, <2>3, <2>4, ItemsStay
<1>3. CASE Items!CloseWriteEnd
  <2>1. Items!TypeOK'
    BY <1>3 DEF Items!CloseWriteEnd
  <2>2. ItemPoints'
    BY <1>3 DEF Items!CloseWriteEnd, ItemPoints
  <2>3. consumer' # "value" /\ UNCHANGED <<exercise, read, pipe, size, lines>>
    BY <1>3 DEF Items!CloseWriteEnd
  <2> QED
    BY <2>1, <2>2, <2>3, ItemsStay
<1> QED
  BY <1>1, <1>2, <1>3

LEMMA ItemsFile ==
  ASSUME ItemsInv, NEW p \in Producers, Items!OpenFile(p) \/ Items!CloseFile(p)
  PROVE  ItemsInv'
<1> USE FamiliesAssumption DEF ItemsInv, Items!TypeOK, Items!Parent, Items!NoItem
<1>1. PICK at \in {"send", "ended"} :
        /\ producer[p] \in {"open", "send"} /\ producer' = [producer EXCEPT ![p] = at]
        /\ writers' = IF at = "ended" THEN writers \ {p} ELSE writers
        /\ at = "ended" /\ p \notin Unreadable => read[p] = Chunks[p]
        /\ UNCHANGED <<exercise, forked, read, pipe, consumer, size, lines>>
  BY DEF Items!OpenFile, Items!CloseFile
<1>2. Items!TypeOK'
  BY <1>1
<1>3. ItemPoints'
  BY <1>1 DEF ItemPoints
<1> QED
  BY <1>1, <1>2, <1>3, ItemsStay

LEMMA ItemsEnd ==
  ASSUME ItemsInv, Items!EndOfPipe \/ Items!WaitAll
  PROVE  ItemsInv'
<1> USE FamiliesAssumption DEF ItemsInv, Items!TypeOK, Items!Parent, Items!NoItem
<1>1. /\ pipe = <<>> /\ \A p \in Producers : producer[p] \in {"none", "ended"}
      /\ UNCHANGED <<exercise, forked, producer, read, writers, pipe, size, lines>>
      /\ consumer \in {"read", "wait"} /\ consumer' \in {"wait", "done"}
      /\ consumer' = "wait" => exercise = 2
  BY DEF Items!EndOfPipe, Items!WaitAll, ItemPoints
<1>2. Items!TypeOK'
  BY <1>1
<1>3. ItemPoints'
  BY <1>1 DEF ItemPoints
<1> QED
  BY <1>1, <1>2, <1>3, ItemsStay

\* What one write sends.
LEMMA ItemWritten ==
  ASSUME exercise \in {1, 2}, NEW p \in Producers, NEW c \in Nat, c \in 1..Chunks[p]
  PROVE  /\ Items!Written(p, c) \in Seq(Items!Units) /\ Len(Items!Written(p, c)) = exercise
         /\ Items!Written(p, c)[exercise] = Items!Unit(p, c, "value")
         /\ exercise = 2 => Items!Written(p, c)[1] = Items!Unit(p, c, "size")
<1>1. Items!Unit(p, c, "value") \in Items!Units /\ Items!Unit(p, c, "size") \in Items!Units
  BY DEF Items!Unit, Items!Units
<1>2. PICK a, b : a = Items!Unit(p, c, "size") /\ b = Items!Unit(p, c, "value")
  OBVIOUS
<1>3. a \in Items!Units /\ b \in Items!Units
  BY <1>1, <1>2
<1>4. CASE exercise = 1
  <2>1. Items!Written(p, c) = <<b>>
    BY <1>2, <1>4 DEF Items!Written
  <2> QED
    BY <1>2, <1>3, <1>4, <2>1
<1>5. CASE exercise = 2
  <2>1. Items!Written(p, c) = <<a, b>>
    BY <1>2, <1>5 DEF Items!Written
  <2> QED
    BY <1>2, <1>3, <1>5, <2>1
<1> QED
  BY <1>4, <1>5

LEMMA ItemsSend ==
  ASSUME ItemsInv, NEW p \in Producers, Items!SendChunk(p)
  PROVE  ItemsInv'
<1> USE FamiliesAssumption
<1>t. /\ Items!TypeOK /\ read \in [Producers -> Nat] /\ ItemPoints /\ ItemParts
      /\ Ordered(lines \o pipe, read)
  BY DEF ItemsInv
<1>1. PICK c \in Nat : c = read[p] + 1
  BY <1>t
<1>2. /\ producer[p] = "send" /\ read[p] < Chunks[p] /\ c \in 1..Chunks[p]
      /\ Len(pipe) + Len(Items!Written(p, 1)) <= Capacity
      /\ read' = [read EXCEPT ![p] = @ + 1] /\ pipe' = pipe \o Items!Written(p, read'[p])
      /\ UNCHANGED <<exercise, forked, producer, writers, consumer, size, lines>>
  BY <1>t, <1>1 DEF Items!SendChunk
<1>3. read'[p] = c /\ read' \in [Producers -> Nat]
  BY <1>t, <1>1, <1>2
<1>4. exercise \in {1, 2} /\ exercise \in Nat
  BY <1>t DEF Items!TypeOK
<1>5. PICK w : w = Items!Written(p, c)
  OBVIOUS
<1>6. /\ w \in Seq(Items!Units) /\ Len(w) = exercise /\ w[exercise] = Items!Unit(p, c, "value")
      /\ exercise = 2 => w[1] = Items!Unit(p, c, "size")
  BY <1>2, <1>4, <1>5, ItemWritten
<1>7. Len(Items!Written(p, 1)) = exercise
  <2>1. 1 \in Nat /\ 1 \in 1..Chunks[p]
    BY <1>2, <1>t DEF Items!TypeOK
  <2> QED
    BY <1>4, <2>1, ItemWritten
<1>8. PICK q : q = pipe
  OBVIOUS
<1>9. PICK m \in Nat : m = Len(q)
  BY <1>t, <1>8, LenProperties DEF Items!TypeOK
<1>10. q \in Seq(Items!Units) /\ pipe' = q \o w /\ m + exercise <= Capacity
  BY <1>t, <1>2, <1>3, <1>5, <1>7, <1>8, <1>9 DEF Items!TypeOK
<1>11. PICK e \in Nat : e = exercise /\ e = Len(w) /\ e \in {1, 2}
  BY <1>4, <1>6
<1>12. /\ q \o w \in Seq(Items!Units) /\ Len(q \o w) = m + e
       /\ \A i \in 1..m : (q \o w)[i] = q[i]
       /\ \A i \in 1..e : (q \o w)[m + i] = w[i]
  <2>1. w \in Seq(Items!Units) /\ q \in Seq(Items!Units) /\ e = Len(w) /\ m = Len(q)
    BY <1>6, <1>9, <1>10, <1>11
  <2> QED
    BY <2>1, ItemConcat
<1>13. Items!TypeOK'
  <2>1. \A r \in Producers : read'[r] \in 0..Chunks[r]
    BY <1>t, <1>2, <1>3 DEF Items!TypeOK
  <2>2. pipe' \in Seq(Items!Units) /\ Len(pipe') <= Capacity
    BY <1>10, <1>11, <1>12
  <2> QED
    BY <1>t, <1>2, <2>1, <2>2 DEF Items!TypeOK, Items!NoItem, Items!Parent
<1>14. ItemPoints'
  <2>1. p \in forked /\ consumer \notin {"wait", "done"}
    BY <1>t, <1>2 DEF ItemPoints
  <2>2. \A r \in Producers : r # p => read'[r] = read[r]
    BY <1>t, <1>2
  <2> QED
    BY <1>t, <1>2, <2>1, <2>2 DEF ItemPoints
<1>15. Ordered(lines \o pipe, read)'
  <2>1. lines \in Seq(Items!Units) /\ q \in Seq(Items!Units) /\ w \in Seq(Items!Units)
    BY <1>t, <1>6, <1>10 DEF Items!TypeOK
  <2>2. PICK s : s = lines \o q
    OBVIOUS
  <2>3. s \in Seq(Items!Units)
    BY <2>1, <2>2, ConcatProperties
  <2>4. PICK n1 \in Nat : n1 = Len(s)
    BY <2>3, LenProperties
  <2>5. PICK t : t = s \o w
    OBVIOUS
  <2>6. (lines \o pipe)' = t
    <3>1. (lines \o q) \o w = lines \o (q \o w)
      BY <2>1, ConcatAssociative, SMTT(60)
    <3> QED
      BY <1>2, <1>10, <2>2, <2>5, <3>1
  <2>7. /\ t \in Seq(Items!Units) /\ Len(t) = n1 + e
        /\ \A i \in 1..n1 : t[i] = s[i]
        /\ \A i \in 1..e : t[n1 + i] = w[i]
    <3>1. w \in Seq(Items!Units) /\ e = Len(w)
      BY <2>1, <1>11
    <3>2. /\ s \o w \in Seq(Items!Units) /\ Len(s \o w) = n1 + e
          /\ \A i \in 1..n1 : (s \o w)[i] = s[i]
          /\ \A i \in 1..e : (s \o w)[n1 + i] = w[i]
      BY <2>3, <2>4, <3>1, ItemConcat
    <3> QED
      BY <2>5, <3>2
  <2>8. PICK n2 \in Nat : n2 = n1 + e /\ n2 = Len(t) /\ n1 < n2
    BY <1>11, <2>7
  <2>9. t[n2] = Items!Unit(p, read[p] + 1, "value")
    <3>1. e \in 1..e
      BY <1>11
    <3>2. t[n1 + e] = w[e]
      BY <2>7, <3>1
    <3> QED
      BY <1>1, <1>6, <1>11, <2>8, <3>2
  <2>10. \A j \in (n1 + 1)..(n2 - 1) : t[j].part # "value"
    <3> SUFFICES ASSUME NEW j \in (n1 + 1)..(n2 - 1) PROVE t[j].part # "value"
      OBVIOUS
    <3>1. j = n1 + 1 /\ e = 2 /\ 1 \in 1..e
      BY <1>11, <2>8
    <3>2. t[n1 + 1] = w[1] /\ w[1] = Items!Unit(p, c, "size")
      BY <1>6, <1>11, <2>7, <3>1
    <3> QED
      BY <3>1, <3>2 DEF Items!Unit
  <2>11. Ordered(s, read)
    BY <1>t, <1>8, <2>2
  <2>12. PICK r : r = read
    OBVIOUS
  <2>13. Ordered(t, [r EXCEPT ![p] = @ + 1])
    <3>1. r \in [Producers -> Nat] /\ t[n2] = Items!Unit(p, r[p] + 1, "value") /\ Ordered(s, r)
      BY <1>t, <2>9, <2>11, <2>12
    <3> QED
      BY <2>3, <2>4, <2>7, <2>8, <2>10, <3>1, OrderedNext, ZenonT(60)
  <2>14. read' = [r EXCEPT ![p] = @ + 1]
    BY <1>2, <2>12
  <2> QED
    BY <2>6, <2>13, <2>14 DEF Ordered
<1>16. ItemParts'
  <2>1. exercise = 2 => InPairs(size \o pipe)'
    <3> SUFFICES ASSUME exercise = 2 PROVE InPairs(size \o pipe)'
      OBVIOUS
    <3>1. size \in Seq(Items!Units) /\ q \in Seq(Items!Units) /\ w \in Seq(Items!Units)
      BY <1>t, <1>6, <1>10 DEF Items!TypeOK
    <3>2. PICK s : s = size \o q
      OBVIOUS
    <3>3. s \in Seq(Items!Units)
      BY <3>1, <3>2, ConcatProperties
    <3>4. PICK n1 \in Nat : n1 = Len(s)
      BY <3>3, LenProperties
    <3>5. (size \o pipe)' = s \o w
      <4>1. (size \o q) \o w = size \o (q \o w)
        BY <3>1, ConcatAssociative, SMTT(60)
      <4> QED
        BY <1>2, <1>10, <3>2, <4>1
    <3>6. /\ s \o w \in Seq(Items!Units) /\ Len(s \o w) = n1 + e
          /\ \A i \in 1..n1 : (s \o w)[i] = s[i]
          /\ \A i \in 1..e : (s \o w)[n1 + i] = w[i]
      <4>1. w \in Seq(Items!Units) /\ e = Len(w)
        BY <3>1, <1>11
      <4> QED
        BY <3>3, <3>4, <4>1, ItemConcat
    <3>7. e = 2 /\ 1 \in 1..e /\ 2 \in 1..e
      BY <1>11
    <3>8. /\ Len(s \o w) = n1 + 2
          /\ (s \o w)[n1 + 1] = Items!Unit(p, c, "size")
          /\ (s \o w)[n1 + 2] = Items!Unit(p, c, "value")
      BY <1>6, <3>6, <3>7
    <3>9. InPairs(s)
      BY <1>t, <1>8, <3>2 DEF ItemParts
    <3>10. InPairs(s \o w)
      <4>1. PICK t : t = s \o w
        OBVIOUS
      <4>2. /\ t \in Seq(Items!Units) /\ Len(s) = n1 /\ Len(t) = n1 + 2
            /\ \A j \in 1..n1 : t[j] = s[j]
            /\ t[n1 + 1] = Items!Unit(p, c, "size") /\ t[n1 + 2] = Items!Unit(p, c, "value")
        BY <3>4, <3>6, <3>8, <4>1
      <4>3. InPairs(t)
        BY <3>3, <3>9, <4>2, InPairsNext
      <4> QED
        BY <4>1, <4>3
    <3> QED
      BY <3>5, <3>10 DEF InPairs
  <2>2. exercise = 1 => \A i \in 1..Len(pipe') : pipe'[i].part = "value"
    <3> SUFFICES ASSUME exercise = 1, NEW i \in 1..(m + e) PROVE (q \o w)[i].part = "value"
      BY <1>10, <1>12
    <3>1. CASE i \in 1..m
      <4>1. (q \o w)[i] = q[i] /\ q[i].part = "value"
        BY <1>t, <1>8, <1>9, <1>12, <3>1 DEF ItemParts
      <4> QED
        BY <4>1
    <3>2. CASE i = m + 1
      <4>1. e = 1 /\ 1 \in 1..e
        BY <1>11
      <4>2. (q \o w)[m + 1] = w[1] /\ w[1] = Items!Unit(p, c, "value")
        BY <1>6, <1>11, <1>12, <4>1
      <4> QED
        BY <3>2, <4>2 DEF Items!Unit
    <3>3. e = 1
      BY <1>11
    <3>4. i \in 1..m \/ i = m + 1
      BY <3>3
    <3> QED
      BY <3>1, <3>2, <3>4
  <2> QED
    BY <1>t, <1>2, <2>1, <2>2 DEF ItemParts
<1> QED
  BY <1>3, <1>13, <1>14, <1>15, <1>16 DEF ItemsInv

\* A value that is printed.
LEMMA ItemPrinted ==
  ASSUME ItemsInv, pipe # <<>>, Head(pipe).part = "value",
         pipe' = Tail(pipe), lines' = lines \o <<Head(pipe)>>, read' = read
  PROVE  /\ pipe' \in Seq(Items!Units) /\ Len(pipe') <= Capacity /\ lines' \in Seq(Items!Units)
         /\ \A i \in 1..Len(lines') : lines'[i].part = "value"
         /\ Ordered(lines \o pipe, read)'
<1>t. /\ lines \in Seq(Items!Units) /\ pipe \in Seq(Items!Units) /\ Len(pipe) <= Capacity
      /\ \A i \in 1..Len(lines) : lines[i].part = "value"
      /\ Ordered(lines \o pipe, read)
  BY DEF ItemsInv, Items!TypeOK, ItemParts
<1>1. PICK l : l = lines
  OBVIOUS
<1>2. PICK q : q = pipe
  OBVIOUS
<1>3. PICK h : h = <<Head(q)>>
  OBVIOUS
<1>4. l \in Seq(Items!Units) /\ q \in Seq(Items!Units) /\ q # <<>>
  BY <1>t, <1>1, <1>2
<1>5. /\ h \in Seq(Items!Units) /\ Len(h) = 1 /\ h[1].part = "value"
      /\ Tail(q) \in Seq(Items!Units) /\ Len(Tail(q)) = Len(q) - 1 /\ Len(q) \in Nat
  BY <1>2, <1>3, <1>4, ItemHead
<1>6. (l \o h) \o Tail(q) = l \o q
  BY <1>3, <1>4, ItemMoves
<1>7. Ordered(lines \o pipe, read)'
  <2>1. PICK s : s = l \o q
    OBVIOUS
  <2>2. (lines \o pipe)' = s
    BY <1>1, <1>2, <1>3, <1>6, <2>1
  <2>3. Ordered(s, read)
    BY <1>t, <1>1, <1>2, <2>1
  <2>4. Ordered(s, read)'
    BY <2>3 DEF Ordered
  <2> QED
    BY <2>2, <2>4
<1>8. PICK n1 \in Nat : n1 = Len(l)
  BY <1>4, LenProperties
<1>9. PICK k \in Nat : k = Len(h)
  BY <1>5
<1>10. /\ l \o h \in Seq(Items!Units) /\ Len(l \o h) = n1 + k
       /\ \A i \in 1..n1 : (l \o h)[i] = l[i]
       /\ \A i \in 1..k : (l \o h)[n1 + i] = h[i]
  <2>1. h \in Seq(Items!Units)
    BY <1>5
  <2> QED
    BY <1>4, <1>8, <1>9, <2>1, ItemConcat
<1>11. k = 1 /\ 1 \in 1..k
  BY <1>5, <1>9
<1>12. (l \o h)[n1 + 1].part = "value"
  BY <1>5, <1>10, <1>11
<1>13. ASSUME NEW i \in 1..(n1 + k) PROVE (l \o h)[i].part = "value"
  <2>1. i \in 1..n1 \/ i = n1 + 1
    BY <1>11
  <2>2. CASE i \in 1..n1
    BY <1>t, <1>1, <1>8, <1>10, <2>2
  <2> QED
    BY <1>12, <2>1, <2>2
<1>14. lines' = l \o h /\ pipe' = Tail(q) /\ Len(q) <= Capacity
  BY <1>t, <1>1, <1>2, <1>3
<1>15. Len(Tail(q)) <= Capacity
  BY <1>5, <1>14, FamiliesAssumption
<1> QED
  BY <1>5, <1>7, <1>10, <1>13, <1>14, <1>15

LEMMA ItemsReadBytes ==
  ASSUME ItemsInv, Items!ReadBytes
  PROVE  ItemsInv'
<1> USE FamiliesAssumption
<1>1. /\ exercise = 1 /\ consumer = "read" /\ pipe # <<>> /\ pipe' = Tail(pipe)
      /\ lines' = lines \o <<Head(pipe)>>
      /\ UNCHANGED <<exercise, forked, producer, read, writers, consumer, size>>
  BY DEF Items!ReadBytes, Items!PrintLine
<1>2. /\ Head(pipe) = pipe[1] /\ Len(pipe) \in Nat /\ Len(pipe) > 0
      /\ Len(Tail(pipe)) = Len(pipe) - 1
      /\ \A i \in 1..(Len(pipe) - 1) : Tail(pipe)[i] = pipe[i + 1]
  BY <1>1, ItemHead DEF ItemsInv, Items!TypeOK
<1>3. \A i \in 1..Len(pipe) : pipe[i].part = "value"
  BY <1>1 DEF ItemsInv, ItemParts
<1>4. /\ pipe' \in Seq(Items!Units) /\ Len(pipe') <= Capacity /\ lines' \in Seq(Items!Units)
      /\ \A i \in 1..Len(lines') : lines'[i].part = "value"
      /\ Ordered(lines \o pipe, read)'
  <2>1. Head(pipe).part = "value"
    BY <1>2, <1>3
  <2> QED
    BY <1>1, <2>1, ItemPrinted
<1>5. Items!TypeOK'
  BY <1>1, <1>4 DEF ItemsInv, Items!TypeOK, Items!Parent, Items!NoItem
<1>6. ItemPoints'
  BY <1>1 DEF ItemsInv, ItemPoints
<1>7. ItemParts'
  <2>1. \A i \in 1..Len(pipe') : pipe'[i].part = "value"
    BY <1>1, <1>2, <1>3
  <2>2. exercise' = 1 /\ consumer' # "value"
    BY <1>1
  <2>3. \A i \in 1..Len(lines') : lines'[i].part = "value"
    BY <1>4
  <2> QED
    BY <2>1, <2>2, <2>3 DEF ItemParts
<1> QED
  BY <1>1, <1>4, <1>5, <1>6, <1>7 DEF ItemsInv

LEMMA ItemsReadSize ==
  ASSUME ItemsInv, Items!ReadSize
  PROVE  ItemsInv'
<1> USE FamiliesAssumption
<1>1. /\ exercise = 2 /\ consumer = "read" /\ pipe # <<>> /\ pipe' = Tail(pipe)
      /\ size' = <<Head(pipe)>> /\ consumer' = "value"
      /\ UNCHANGED <<exercise, forked, producer, read, writers, lines>>
  BY DEF Items!ReadSize
<1>t. /\ lines \in Seq(Items!Units) /\ pipe \in Seq(Items!Units) /\ Len(pipe) <= Capacity
      /\ size = <<>> /\ Ordered(lines \o pipe, read) /\ InPairs(size \o pipe)
      /\ \A i \in 1..Len(lines) : lines[i].part = "value"
  BY <1>1 DEF ItemsInv, Items!TypeOK, ItemParts, Items!NoItem
<1>2. PICK q : q = pipe
  OBVIOUS
<1>3. q \in Seq(Items!Units) /\ q # <<>> /\ InPairs(q)
  <2>1. <<>> \o q = q
    BY <1>t, <1>2, ConcatEmptySeq
  <2> QED
    BY <1>1, <1>t, <1>2, <2>1
<1>4. PICK n1 \in Nat : Len(q) = n1 + 1
  <2>1. Len(q) \in Nat /\ Len(q) > 0
    BY <1>3, ItemHead
  <2>2. Len(q) - 1 \in Nat /\ Len(q) = (Len(q) - 1) + 1
    BY <2>1
  <2> QED
    BY <2>2
<1>5. /\ Head(q) = q[1] /\ q[1].part = "size"
      /\ <<Head(q)>> \in Seq(Items!Units) /\ Len(<<Head(q)>>) = 1
      /\ Tail(q) \in Seq(Items!Units) /\ Len(Tail(q)) = Len(q) - 1
      /\ \A i \in 1..(Len(q) - 1) : Tail(q)[i] = q[i + 1]
  BY <1>3, ItemHead DEF InPairs
<1>6. PICK r : r = Tail(q)
  OBVIOUS
<1>7. /\ r \in Seq(Items!Units) /\ n1 = Len(r) /\ \A i \in 1..n1 : r[i] = q[i + 1]
  BY <1>4, <1>5, <1>6
<1>8. pipe' = r /\ Len(r) <= Capacity
  BY <1>1, <1>t, <1>2, <1>4, <1>6, <1>7
<1>9. Items!TypeOK'
  <2>1. size' \in Seq(Items!Units) /\ size' # <<>> /\ Len(size') = 1
    BY <1>1, <1>2, <1>5
  <2> QED
    BY <1>1, <1>7, <1>8, <2>1 DEF ItemsInv, Items!TypeOK, Items!Parent, Items!NoItem
<1>10. ItemPoints'
  <2>1. forked # {}
    BY <1>1 DEF ItemsInv, ItemPoints
  <2> QED
    BY <1>1, <2>1 DEF ItemsInv, ItemPoints
<1>11. ItemParts'
  <2>1. (size \o pipe)' = q
    BY <1>1, <1>2, <1>3, ItemMoves
  <2>2. InPairs(size \o pipe)'
    BY <1>3, <2>1 DEF InPairs
  <2>3. Len(size') = 1
    BY <1>1, <1>2, <1>5
  <2>4. \A i \in 1..Len(lines') : lines'[i].part = "value"
    BY <1>1, <1>t
  <2>5. exercise' # 1
    BY <1>1
  <2> QED
    BY <2>2, <2>3, <2>4, <2>5 DEF ItemParts
<1>12. Ordered(lines \o pipe, read)'
  <2>1. PICK l : l = lines
    OBVIOUS
  <2>2. PICK k \in Nat : k = Len(l)
    BY <1>t, <2>1, LenProperties
  <2>3. l \in Seq(Items!Units)
    BY <1>t, <2>1
  <2>4. PICK m \in Nat : m = Len(q)
    BY <1>4
  <2>5. /\ l \o q \in Seq(Items!Units) /\ Len(l \o q) = k + m
        /\ \A i \in 1..k : (l \o q)[i] = l[i]
        /\ \A i \in 1..m : (l \o q)[k + i] = q[i]
    BY <1>3, <2>2, <2>3, <2>4, ItemConcat
  <2>6. /\ l \o r \in Seq(Items!Units) /\ Len(l \o r) = k + n1
        /\ \A i \in 1..k : (l \o r)[i] = l[i]
        /\ \A i \in 1..n1 : (l \o r)[k + i] = r[i]
    <3>1. r \in Seq(Items!Units) /\ n1 = Len(r)
      BY <1>7
    <3> QED
      BY <2>2, <2>3, <3>1, ItemConcat
  <2>7. PICK s : s = l \o q
    OBVIOUS
  <2>8. PICK t : t = l \o r
    OBVIOUS
  <2>9. PICK n2 \in Nat : n2 = k + n1
    OBVIOUS
  <2>10. m = n1 + 1 /\ k + m = n2 + 1 /\ k + 1 \in 1..(n2 + 1) /\ 1 \in 1..m
    BY <1>4, <2>4, <2>9
  <2>11. /\ s \in Seq(Items!Units) /\ t \in Seq(Items!Units) /\ Len(s) = n2 + 1 /\ Len(t) = n2
    BY <2>5, <2>6, <2>7, <2>8, <2>9, <2>10
  <2>12. s[k + 1].part # "value"
    BY <1>5, <2>5, <2>7, <2>10
  <2>13. ASSUME NEW j \in 1..n2 PROVE t[j] = IF j < k + 1 THEN s[j] ELSE s[j + 1]
    <3>1. CASE j \in 1..k
      <4>1. j < k + 1
        BY <3>1
      <4> QED
        BY <2>5, <2>6, <2>7, <2>8, <3>1, <4>1
    <3>2. CASE j \notin 1..k
      <4>1. /\ j - k \in 1..n1 /\ k + (j - k) = j /\ j - k + 1 \in 1..m
            /\ k + (j - k + 1) = j + 1 /\ ~(j < k + 1)
        BY <2>9, <2>10, <3>2
      <4>2. t[k + (j - k)] = r[j - k] /\ r[j - k] = q[j - k + 1]
        BY <1>7, <2>6, <2>8, <4>1
      <4>3. s[k + (j - k + 1)] = q[j - k + 1]
        BY <2>5, <2>7, <4>1
      <4> QED
        BY <4>1, <4>2, <4>3
    <3> QED
      BY <3>1, <3>2
  <2>14. PICK c : c = read
    OBVIOUS
  <2>15. Ordered(s, c)
    BY <1>t, <1>2, <2>1, <2>7, <2>14
  <2>16. PICK i \in 1..(n2 + 1) : i = k + 1
    BY <2>10
  <2>17. Ordered(t, c)
    <3>1. /\ s[i].part # "value"
          /\ \A j \in 1..n2 : t[j] = IF j < i THEN s[j] ELSE s[j + 1]
      BY <2>12, <2>13, <2>16
    <3> QED
      BY <2>11, <2>15, <3>1, OrderedDrop, ZenonT(60)
  <2>18. (lines \o pipe)' = t /\ read' = c
    BY <1>1, <1>8, <2>1, <2>8, <2>14
  <2> QED
    BY <2>17, <2>18 DEF Ordered
<1> QED
  BY <1>1, <1>9, <1>10, <1>11, <1>12 DEF ItemsInv

LEMMA ItemsReadValue ==
  ASSUME ItemsInv, Items!ReadValue
  PROVE  ItemsInv'
<1> USE FamiliesAssumption
<1>1. /\ consumer = "value" /\ pipe # <<>> /\ pipe' = Tail(pipe)
      /\ lines' = lines \o <<Head(pipe)>> /\ size' = <<>> /\ consumer' = "read"
      /\ UNCHANGED <<exercise, forked, producer, read, writers>>
  BY DEF Items!ReadValue, Items!PrintLine, Items!NoItem
<1>t. /\ exercise = 2 /\ pipe \in Seq(Items!Units) /\ size \in Seq(Items!Units) /\ Len(size) = 1
      /\ InPairs(size \o pipe)
  BY <1>1 DEF ItemsInv, Items!TypeOK, ItemParts, ItemPoints
<1>2. PICK q : q = pipe
  OBVIOUS
<1>3. PICK z : z = size
  OBVIOUS
<1>4. PICK s : s = z \o q
  OBVIOUS
<1>5. /\ q \in Seq(Items!Units) /\ q # <<>> /\ z \in Seq(Items!Units) /\ Len(z) = 1 /\ InPairs(s)
  BY <1>1, <1>t, <1>2, <1>3, <1>4
<1>6. PICK m \in Nat : m = Len(q)
  BY <1>5, LenProperties
<1>7. PICK k \in Nat : k = Len(z)
  BY <1>5
<1>8. /\ s \in Seq(Items!Units) /\ Len(s) = k + m
      /\ \A i \in 1..k : s[i] = z[i]
      /\ \A i \in 1..m : s[k + i] = q[i]
  <2>1. q \in Seq(Items!Units) /\ z \in Seq(Items!Units)
    BY <1>5
  <2>2. /\ z \o q \in Seq(Items!Units) /\ Len(z \o q) = k + m
        /\ \A i \in 1..k : (z \o q)[i] = z[i]
        /\ \A i \in 1..m : (z \o q)[k + i] = q[i]
    BY <1>6, <1>7, <2>1, ItemConcat
  <2> QED
    BY <1>4, <2>2
<1>9. PICK r : r = Tail(q)
  OBVIOUS
<1>10. /\ Head(q) = q[1] /\ m > 0 /\ r \in Seq(Items!Units) /\ Len(r) = m - 1
       /\ \A i \in 1..(m - 1) : r[i] = q[i + 1]
  BY <1>5, <1>6, <1>9, ItemHead
<1>11. k = 1
  BY <1>5, <1>7
<1>12. PICK n1 \in Nat : n1 = m - 1
  BY <1>10
<1>13. /\ Len(s) = n1 + 2 /\ Len(r) = n1 /\ \A j \in 1..n1 : r[j] = s[j + 2]
  <2>1. Len(s) = n1 + 2 /\ Len(r) = n1
    BY <1>8, <1>10, <1>11, <1>12
  <2>2. ASSUME NEW j \in 1..n1 PROVE r[j] = s[j + 2]
    <3>1. j \in 1..(m - 1) /\ j + 1 \in 1..m /\ k + (j + 1) = j + 2
      BY <1>11, <1>12
    <3>2. r[j] = q[j + 1] /\ s[k + (j + 1)] = q[j + 1]
      BY <1>8, <1>10, <3>1
    <3> QED
      BY <3>1, <3>2
  <2> QED
    BY <2>1, <2>2
<1>14. Head(q).part = "value"
  <2>1. 1 \in 1..Len(s) /\ 1 + 1 = 2 /\ 1 \in 1..m /\ k + 1 = 2
    BY <1>10, <1>11, <1>12, <1>13
  <2>2. s # <<>>
    BY <2>1, EmptySeq
  <2>3. s[1].part = "size" /\ s[1] \in Items!Units
    BY <1>5, <1>8, <2>1, <2>2, ElementOfSeq DEF InPairs
  <2>4. s[1 + 1] = [s[1] EXCEPT !.part = "value"]
    BY <1>5, <2>1, <2>3 DEF InPairs
  <2>5. s[2].part = "value"
    BY <2>1, <2>3, <2>4 DEF Items!Units
  <2>6. s[k + 1] = q[1]
    BY <1>8, <2>1
  <2> QED
    BY <1>10, <2>1, <2>5, <2>6
<1>15. /\ pipe' \in Seq(Items!Units) /\ Len(pipe') <= Capacity /\ lines' \in Seq(Items!Units)
       /\ \A i \in 1..Len(lines') : lines'[i].part = "value"
       /\ Ordered(lines \o pipe, read)'
  BY <1>1, <1>2, <1>14, ItemPrinted
<1>16. Items!TypeOK'
  <2>1. size' \in Seq(Items!Units)
    BY <1>1, EmptySeq
  <2> QED
    BY <1>1, <1>15, <2>1 DEF ItemsInv, Items!TypeOK, Items!Parent, Items!NoItem
<1>17. ItemPoints'
  <2>1. forked # {}
    BY <1>1 DEF ItemsInv, ItemPoints
  <2> QED
    BY <1>1, <2>1 DEF ItemsInv, ItemPoints
<1>18. ItemParts'
  <2>1. (size \o pipe)' = r
    <3>1. <<>> \o r = r
      BY <1>10, ConcatEmptySeq
    <3> QED
      BY <1>1, <1>2, <1>9, <3>1
  <2>2. InPairs(r)
    BY <1>5, <1>8, <1>10, <1>13, InPairsTail
  <2>3. InPairs(size \o pipe)'
    BY <2>1, <2>2 DEF InPairs
  <2>4. exercise' # 1 /\ consumer' # "value"
    BY <1>1, <1>t
  <2>5. \A i \in 1..Len(lines') : lines'[i].part = "value"
    BY <1>15
  <2> QED
    BY <2>3, <2>4, <2>5 DEF ItemParts
<1> QED
  BY <1>1, <1>15, <1>16, <1>17, <1>18 DEF ItemsInv

LEMMA ItemsNext == ItemsInv /\ [Items!Next]_itemVars => ItemsInv'
<1> SUFFICES ASSUME ItemsInv, [Items!Next]_itemVars PROVE ItemsInv'
  OBVIOUS
<1>1. CASE Items!Consumer
  BY <1>1, ItemsFork, ItemsReadBytes, ItemsReadSize, ItemsReadValue, ItemsEnd DEF Items!Consumer
<1>2. ASSUME NEW p \in Producers, Items!Producer(p) PROVE ItemsInv'
  BY <1>2, ItemsFile, ItemsSend DEF Items!Producer
<1>3. CASE UNCHANGED itemVars
  <2>1. UNCHANGED <<exercise, forked, producer, read, writers, pipe, consumer, size, lines>>
    BY <1>3 DEF itemVars
  <2>2. Items!TypeOK' /\ ItemPoints'
    BY <2>1 DEF ItemsInv, Items!TypeOK, ItemPoints
  <2> QED
    BY <2>1, <2>2, ItemsStay
<1> QED
  BY <1>1, <1>2, <1>3 DEF Items!Next

\* In lines that hold values alone, the chunks of p are its lines.
LEMMA LinesCounted ==
  ASSUME NEW s \in Seq(Items!Units), NEW r \in [Producers -> Nat], NEW p \in Producers,
         Ordered(s, r), \A i \in 1..Len(s) : s[i].part = "value"
  PROVE  Cardinality({i \in DOMAIN s : s[i].producer = p}) = r[p]
<1> DEFINE D == {i \in DOMAIN s : s[i].producer = p}
<1>1. Len(s) \in Nat /\ DOMAIN s = 1..Len(s) /\ r[p] \in Nat
  BY LenProperties
<1>2. /\ \A j \in D : s[j].chunk \in 1..r[p]
      /\ \A c \in 1..r[p] : \E j \in D : s[j].chunk = c
      /\ \A i, j \in D : i < j => s[i].chunk < s[j].chunk
      /\ D \subseteq Nat
  <2>1. D = {i \in 1..Len(s) : IsValue(s[i], p)}
    BY <1>1 DEF IsValue
  <2>2. /\ \A j \in 1..Len(s) : IsValue(s[j], p) => s[j].chunk \in 1..r[p]
        /\ \A c \in 1..r[p] : \E j \in 1..Len(s) : IsValue(s[j], p) /\ s[j].chunk = c
        /\ \A i, j \in 1..Len(s) :
              IsValue(s[i], p) /\ IsValue(s[j], p) /\ i < j => s[i].chunk < s[j].chunk
    BY Zenon DEF Ordered
  <2> HIDE DEF D
  <2> QED
    BY <1>1, <2>1, <2>2
<1> HIDE DEF D
<1>3. PICK f : f = [j \in D |-> s[j].chunk]
  OBVIOUS
<1>4. f \in [D -> 1..r[p]] /\ \A j \in D : f[j] = s[j].chunk
  BY <1>2, <1>3
<1>5. ASSUME NEW i \in D, NEW j \in D, f[i] = f[j] PROVE i = j
  <2>1. i \in Nat /\ j \in Nat /\ s[i].chunk = s[j].chunk /\ s[i].chunk \in Int
    BY <1>2, <1>4, <1>5
  <2> QED
    BY <1>2, <2>1
<1>6. f \in Bijection(D, 1..r[p])
  BY <1>2, <1>4, <1>5 DEF Bijection, Injection, Surjection, IsInjective
<1>7. f \in Injection(D, 1..r[p]) /\ f \in Surjection(D, 1..r[p])
  BY <1>6 DEF Bijection
<1>8. IsFiniteSet(1..r[p]) /\ Cardinality(1..r[p]) = r[p]
  BY <1>1, FS_Interval
<1>9. Cardinality(D) = Cardinality(1..r[p])
  BY <1>7, <1>8, FS_Injection
<1> QED
  BY <1>8, <1>9 DEF D

\* PipeItems counts as FiniteSets does.
LEMMA ItemsCount == \A S : Items!Cardinality(S) = Cardinality(S)
BY Zenon DEF Items!Cardinality, Cardinality

LEMMA ItemsHolds ==
  ItemsInv => Items!TypeOK /\ Items!ItemsWhole /\ Items!ChunksInOrder /\ Items!EndIsTheEnd
<1> SUFFICES ASSUME ItemsInv
             PROVE  Items!ItemsWhole /\ Items!ChunksInOrder /\ Items!EndIsTheEnd
  BY DEF ItemsInv
<1>1. Items!ItemsWhole
  BY DEF ItemsInv, ItemParts, InPairs, Items!ItemsWhole
<1>2. Items!ChunksInOrder
  <2>1. PICK s : s = lines \o pipe
    OBVIOUS
  <2>2. Ordered(s, read)
    BY <2>1 DEF ItemsInv
  <2> DEFINE values(p) == {j \in 1..Len(s) : s[j].producer = p /\ s[j].part = "value"}
  <2>3. ASSUME NEW p \in Producers
        PROVE  /\ {s[j].chunk : j \in values(p)} = 1..read[p]
               /\ \A i, j \in values(p) : i < j => s[i].chunk < s[j].chunk
    <3>1. \A j \in values(p) : s[j].chunk \in 1..read[p]
      BY <2>2 DEF Ordered, IsValue
    <3>2. \A c \in 1..read[p] : \E j \in values(p) : s[j].chunk = c
      BY <2>2 DEF Ordered, IsValue
    <3>3. \A i, j \in values(p) : i < j => s[i].chunk < s[j].chunk
      BY <2>2 DEF Ordered, IsValue
    <3> HIDE DEF values
    <3> QED
      BY <3>1, <3>2, <3>3
  <2> QED
    BY <2>1, <2>3 DEF Items!ChunksInOrder
<1>3. Items!EndIsTheEnd
  <2> SUFFICES ASSUME consumer \in {"wait", "done"}
               PROVE  \A p \in Producers :
                        /\ producer[p] \in {"none", "ended"}
                        /\ producer[p] = "ended" /\ p \notin Unreadable =>
                               Cardinality({i \in DOMAIN lines : lines[i].producer = p})
                                   = Chunks[p]
    BY ItemsCount DEF Items!EndIsTheEnd
  <2> TAKE p \in Producers
  <2>1. pipe = <<>> /\ producer[p] \in {"none", "ended"}
    BY DEF ItemsInv, ItemPoints
  <2>2. producer[p] = "ended" /\ p \notin Unreadable => read[p] = Chunks[p]
    BY DEF ItemsInv, ItemPoints
  <2>3. lines \in Seq(Items!Units) /\ lines \o pipe = lines
    BY <2>1, ConcatEmptySeq DEF ItemsInv, Items!TypeOK
  <2>4. Ordered(lines, read) /\ read \in [Producers -> Nat]
    BY <2>3 DEF ItemsInv
  <2>5. \A i \in 1..Len(lines) : lines[i].part = "value"
    BY DEF ItemsInv, ItemParts
  <2>6. Cardinality({i \in DOMAIN lines : lines[i].producer = p}) = read[p]
    BY <2>3, <2>4, <2>5, LinesCounted
  <2> QED
    BY <2>1, <2>2, <2>6
<1> QED
  BY <1>1, <1>2, <1>3

-----------------------------------------------------------------------------
(* Ping pong.                                                              *)

PingPC == {"none", "fork", "close", "read", "write", "loop", "end"} \union Ping!Ended

PingTypes ==
    /\ times \in Times \ {0}
    /\ pc \in [Ping!Procs -> PingPC] /\ round \in [Ping!Procs -> Nat]
    /\ reads \in [Ping!Pipes -> SUBSET Ping!Procs]
    /\ writes \in [Ping!Pipes -> SUBSET Ping!Procs]
    /\ data \in [Ping!Pipes -> 0..1]

\* The ends a process has not open: who writes never reads the same pipe, so
\* that nobody can write once the other has ended.
PingEnds ==
    \A p \in Ping!Procs :
        /\ pc[p] \in Ping!Ended \union {"none"} =>
              \A q \in Ping!Pipes : p \notin reads[q] \union writes[q]
        /\ pc[p] \in {"read", "write", "loop", "end"} => p \notin reads[Ping!Out[p]]

PingForked ==
    /\ pc["parent"] = "fork" => pc["child"] = "none"
    /\ pc["parent"] # "none"
    /\ pc["child"] = "none" =>
          /\ pc["parent"] \in {"fork", "error"}
          /\ \A q \in Ping!Pipes : data[q] = 0
    /\ pc["child"] # "fork"

\* The rounds of one process.
PingRounds ==
    \A p \in Ping!Procs :
        /\ pc[p] \in {"none", "fork", "close"} => round[p] = 0
        /\ pc[p] \in {"read", "write", "loop"} => round[p] < times
        /\ pc[p] \in {"end", "done"} => round[p] = IF times < 0 THEN 0 ELSE times

PingInv == PingTypes /\ PingEnds /\ PingForked /\ PingRounds /\ Ping!Alternate

LEMMA PingInit == Ping!Init => PingInv
<1> USE FamiliesAssumption
    DEF Ping!Procs, Ping!Pipes, Ping!Ended, PingPC
<1> QED
  BY DEF Ping!Init, PingInv, PingTypes, PingEnds, PingForked, PingRounds,
         Ping!Alternate, Ping!Sent, Ping!Got

\* A process that ends closes its ends and leaves the pipes as they are.
LEMMA PingEnd ==
  ASSUME PingInv, NEW p \in Ping!Procs, NEW at \in Ping!Ended,
         at = "done" => pc[p] = "end", pc[p] \notin Ping!Ended \union {"none"},
         at = "error" \/ pc[p] # "fork",
         Ping!Goto(p, at), Ping!CloseAll(p), UNCHANGED <<times, round, data>>
  PROVE  PingInv'
<1> USE FamiliesAssumption
    DEF PingInv, PingTypes, Ping!Procs, Ping!Pipes, Ping!Ended, PingPC
<1>1. PingTypes'
  BY DEF Ping!Goto, Ping!CloseAll
<1>2. PingEnds'
  BY DEF Ping!Goto, Ping!CloseAll, PingEnds, Ping!Out
<1>3. PingForked'
  BY DEF Ping!Goto, PingForked
<1>4. PingRounds'
  BY DEF Ping!Goto, PingRounds
<1>5. Ping!Alternate'
  BY DEF Ping!Goto, Ping!Alternate
<1> QED
  BY <1>1, <1>2, <1>3, <1>4, <1>5

LEMMA PingFork ==
  ASSUME PingInv, Ping!Fork
  PROVE  PingInv'
<1> USE FamiliesAssumption
    DEF PingInv, PingTypes, Ping!Procs, Ping!Pipes, Ping!Ended, PingPC
<1>1. CASE pc' = [p \in Ping!Procs |-> "close"]
  <2>1. /\ pc["parent"] = "fork" /\ UNCHANGED <<times, round, data>>
        /\ reads' = [q \in Ping!Pipes |-> Ping!Procs]
        /\ writes' = [q \in Ping!Pipes |-> Ping!Procs]
    BY <1>1 DEF Ping!Fork, Ping!At, Ping!Goto
  <2> QED
    BY <1>1, <2>1 DEF PingEnds, PingForked, PingRounds, Ping!Alternate, Ping!Sent, Ping!Got
<1>2. CASE Ping!Goto("parent", "error") /\ Ping!CloseAll("parent")
  BY <1>2, PingEnd DEF Ping!Fork, Ping!At
<1> QED
  BY <1>1, <1>2 DEF Ping!Fork

LEMMA PingClose ==
  ASSUME PingInv, NEW p \in Ping!Procs, NEW first \in {"read", "write"},
         p = "parent" <=> first = "write", Ping!Close(p, first)
  PROVE  PingInv'
<1> USE FamiliesAssumption
    DEF PingInv, PingTypes, Ping!Procs, Ping!Pipes, Ping!Ended, PingPC
<1>1. PICK at \in {"read", "write", "end"} :
        /\ pc[p] = "close" /\ pc' = [pc EXCEPT ![p] = at]
        /\ at # "end" => at = first /\ 0 < times
        /\ at = "end" => ~(0 < times)
        /\ UNCHANGED <<times, round, data>>
  BY DEF Ping!Close, Ping!At, Ping!Goto, Ping!More
<1>2. /\ reads' = [reads EXCEPT ![Ping!Out[p]] = @ \ {p}]
      /\ writes' = [writes EXCEPT ![Ping!In[p]] = @ \ {p}]
  BY DEF Ping!Close, Ping!CloseUnused
<1>3. PingTypes' /\ PingEnds'
  BY <1>1, <1>2 DEF PingEnds, Ping!Out, Ping!In
<1>4. PingForked' /\ PingRounds'
  BY <1>1 DEF PingForked, PingRounds
<1>5. Ping!Alternate'
  BY <1>1 DEF Ping!Alternate, Ping!Sent, Ping!Got, PingRounds
<1> QED
  BY <1>3, <1>4, <1>5

\* A process that may write finds both pipes empty.
LEMMA PingWrite ==
  ASSUME PingInv, NEW p \in Ping!Procs, NEW then \in {"read", "loop"},
         p = "parent" <=> then = "read", Ping!Write(p, then)
  PROVE  PingInv'
<1> USE FamiliesAssumption
    DEF PingInv, PingTypes, Ping!Procs, Ping!Pipes, Ping!Ended, PingPC
<1>1. CASE reads[Ping!Out[p]] = {}
  BY <1>1, PingEnd DEF Ping!Write, Ping!At
<1>2. CASE reads[Ping!Out[p]] # {}
  <2>1. /\ pc[p] = "write" /\ pc' = [pc EXCEPT ![p] = then]
        /\ data' = [data EXCEPT ![Ping!Out[p]] = @ + 1]
        /\ UNCHANGED <<times, round, reads, writes>>
    BY <1>2 DEF Ping!Write, Ping!At, Ping!Goto
  <2>2. \A r \in Ping!Procs : pc[r] \notin Ping!Ended \union {"none"}
    BY <1>2, <2>1 DEF PingEnds, Ping!Out
  <2>3. data["parent2child"] = 0 /\ data["child2parent"] = 0
    BY <2>1, <2>2 DEF Ping!Alternate, Ping!Sent, Ping!Got
  <2>4. PingTypes'
    BY <2>1, <2>3 DEF Ping!Out
  <2>5. PingEnds' /\ PingForked' /\ PingRounds'
    BY <2>1, <2>2 DEF PingEnds, PingForked, PingRounds, Ping!Out
  <2>6. Ping!Alternate'
    BY <2>1, <2>2, <2>3 DEF Ping!Alternate, Ping!Sent, Ping!Got, Ping!Out
  <2> QED
    BY <2>4, <2>5, <2>6
<1> QED
  BY <1>1, <1>2

LEMMA PingRead ==
  ASSUME PingInv, NEW p \in Ping!Procs, NEW then \in {"write", "loop"},
         p = "child" <=> then = "write", Ping!Read(p, then)
  PROVE  PingInv'
<1> USE FamiliesAssumption
    DEF PingInv, PingTypes, Ping!Procs, Ping!Pipes, Ping!Ended, PingPC
<1>1. CASE Ping!Received(p)
  <2>1. /\ pc[p] = "read" /\ pc' = [pc EXCEPT ![p] = then]
        /\ data[Ping!In[p]] = 1 /\ data' = [data EXCEPT ![Ping!In[p]] = @ - 1]
        /\ UNCHANGED <<times, round, reads, writes>>
    BY <1>1 DEF Ping!Read, Ping!Received, Ping!At, Ping!Goto, Ping!In
  <2>2. PingTypes'
    BY <2>1 DEF Ping!In
  <2>3. PingEnds' /\ PingForked' /\ PingRounds'
    BY <2>1 DEF PingEnds, PingForked, PingRounds, Ping!In, Ping!Out
  <2>4. Ping!Alternate'
    BY <2>1 DEF Ping!Alternate, Ping!Sent, Ping!Got, Ping!In
  <2> QED
    BY <2>2, <2>3, <2>4
<1>2. CASE ~Ping!Received(p)
  BY <1>2, PingEnd DEF Ping!Read, Ping!At
<1> QED
  BY <1>1, <1>2

LEMMA PingNextRound ==
  ASSUME PingInv, NEW p \in Ping!Procs, NEW first \in {"read", "write"},
         p = "parent" <=> first = "write", Ping!NextRound(p, first)
  PROVE  PingInv'
<1> USE FamiliesAssumption
    DEF PingInv, PingTypes, Ping!Procs, Ping!Pipes, Ping!Ended, PingPC
<1>1. PICK at \in {"read", "write", "end"} :
        /\ pc[p] = "loop" /\ pc' = [pc EXCEPT ![p] = at]
        /\ round' = [round EXCEPT ![p] = @ + 1]
        /\ at # "end" => at = first /\ round[p] + 1 < times
        /\ at = "end" => ~(round[p] + 1 < times)
        /\ UNCHANGED <<times, reads, writes, data>>
  BY DEF Ping!NextRound, Ping!At, Ping!Goto, Ping!More
<1>2. PingTypes'
  BY <1>1
<1>3. PingEnds' /\ PingForked'
  BY <1>1 DEF PingEnds, PingForked, Ping!Out
<1>4. PingRounds'
  BY <1>1 DEF PingRounds
<1>5. Ping!Alternate'
  BY <1>1 DEF Ping!Alternate, Ping!Sent, Ping!Got
<1> QED
  BY <1>2, <1>3, <1>4, <1>5

LEMMA PingNext == PingInv /\ [Ping!Next]_pingVars => PingInv'
<1> SUFFICES ASSUME PingInv, [Ping!Next]_pingVars PROVE PingInv'
  OBVIOUS
<1> USE DEF Ping!Procs
<1>1. CASE Ping!Fork
  BY <1>1, PingFork
<1>2. CASE Ping!Child
  <2>1. CASE Ping!Finish("child")
    BY <2>1, PingEnd DEF Ping!Finish, Ping!At, Ping!Ended
  <2> QED
    BY <1>2, <2>1, PingClose, PingWrite, PingRead, PingNextRound DEF Ping!Child
<1>3. CASE Ping!Parent
  <2>1. CASE Ping!Finish("parent")
    BY <2>1, PingEnd DEF Ping!Finish, Ping!At, Ping!Ended
  <2> QED
    BY <1>3, <2>1, PingClose, PingWrite, PingRead, PingNextRound DEF Ping!Parent
<1>4. ASSUME NEW p \in Ping!Procs, Ping!Kill(p) PROVE PingInv'
  BY <1>4, PingEnd DEF Ping!Kill, Ping!Ended
<1>5. CASE UNCHANGED pingVars
  BY <1>5 DEF pingVars, PingInv, PingTypes, PingEnds, PingForked, PingRounds,
              Ping!Alternate, Ping!Sent, Ping!Got
<1> QED
  BY <1>1, <1>2, <1>3, <1>4, <1>5 DEF Ping!Next

LEMMA PingHolds == PingInv => Ping!TypeOK /\ Ping!Alternate /\ Ping!AllRounds
BY DEF PingInv, PingTypes, PingEnds, PingRounds, PingPC, Ping!TypeOK, Ping!AllRounds

-----------------------------------------------------------------------------
(* Messages in the order of the semaphores.                                *)

\* The part of the type invariant the proof needs.
OrderTypes ==
    /\ variant \in {1, 2} /\ next \in Nat
    /\ child \in [Order!All -> Order!ChildPC]
    /\ sem \in [Order!All -> Nat] /\ printed \in Seq(Order!All)

\* Where a child may be in each variant.
OrderPoints ==
    /\ \A i \in Order!All : child[i] # "none" => i \in Order!Children
    /\ \A i \in Order!All : variant = 1 => child[i] \notin {"arrive", "meet"}
    /\ \A i \in Order!All : variant = 2 /\ child[i] = "unlock" => i > 0

\* A child that has taken the unit and not yet passed it on.
OrderHolds(i) == child[i] \in {"print", "unlock", "arrive"}

\* There is one unit at most, and the number of messages says where it may be.
OrderOneHolder == \A i, j \in Order!All : OrderHolds(i) /\ OrderHolds(j) => i = j
OrderHolderInTurn ==
    \A i \in Order!All :
        /\ child[i] = "print" => i = Order!Turn(Len(printed))
        /\ child[i] \in {"unlock", "arrive"} =>
               Len(printed) > 0 /\ i = Order!Turn(Len(printed) - 1)
OrderUnitInTurn ==
    \A s \in Order!Children :
        sem[s] # 0 => /\ sem[s] = 1 /\ s = Order!Turn(Len(printed))
                      /\ \A i \in Order!All : ~OrderHolds(i)

OrderInv == OrderTypes /\ OrderPoints /\ OrderOneHolder /\ OrderHolderInTurn /\ OrderUnitInTurn /\ Order!InOrder

-----------------------------------------------------------------------------
\* The unit goes to the child whose turn is next.
LEMMA OrderNextTurn ==
  ASSUME NEW k \in Nat, k > 0, variant \in {1, 2}
  PROVE  /\ variant = 1 => Order!Unlocked(Order!Turn(k - 1)) = Order!Turn(k)
         /\ variant = 2 /\ Order!Turn(k - 1) > 0 => Order!Turn(k - 1) - 1 = Order!Turn(k)
         /\ Order!Turn(k) \in Order!Children
         /\ Order!Turn(0) = Order!Last
<1>1. CASE variant = 1
  BY <1>1, SMTT(30) DEF Order!Turn, Order!Last, Order!Unlocked, Order!Children
<1>2. CASE variant = 2
  BY <1>2, SMTT(30) DEF Order!Turn, Order!Last, Order!Unlocked, Order!Children
<1> QED
  BY <1>1, <1>2

\* Only Message prints; all other steps keep what has been printed.
LEMMA OrderKept ==
  ASSUME Order!InOrder, UNCHANGED <<variant, printed>>
  PROVE  Order!InOrder'
BY DEF Order!InOrder, Order!Turn, Order!Last

LEMMA OrderInit == Order!Init => OrderInv
<1> SUFFICES ASSUME Order!Init PROVE OrderInv
  OBVIOUS
<1>1. printed = <<>> /\ printed \in Seq(Order!All) /\ Len(printed) = 0
  BY EmptySeq DEF Order!Init
<1>2. OrderTypes
  BY <1>1 DEF Order!Init, OrderTypes, Order!All, Order!Last, Order!Gate, Order!ChildPC
<1>3. OrderUnitInTurn
  BY <1>1, SMTT(30) DEF Order!Init, OrderUnitInTurn, Order!All, Order!Children, Order!Last, Order!Gate, Order!Turn, OrderHolds
<1> QED
  BY <1>1, <1>2, <1>3
     DEF Order!Init, OrderInv, OrderPoints, OrderOneHolder, OrderHolderInTurn, Order!InOrder, OrderHolds, Order!All

LEMMA OrderFork ==
  ASSUME OrderInv, Order!Fork
  PROVE  OrderInv'
<1> USE DEF OrderInv, OrderTypes
<1>1. /\ child' \in [Order!All -> Order!ChildPC] /\ next' \in Nat
      /\ \A i \in Order!All : child'[i] = child[i] \/ (child'[i] \in {"wait", "done"} /\ i \in Order!Children)
  BY DEF Order!Fork, Order!All, Order!Children, Order!ChildPC
<1>2. \A i \in Order!All : OrderHolds(i)' => OrderHolds(i) /\ child'[i] = child[i]
  BY <1>1 DEF OrderHolds
<1>3. UNCHANGED <<variant, sem, printed>> /\ Order!Children' = Order!Children
  BY DEF Order!Fork, Order!Children
<1>4. OrderPoints'
  BY <1>1, <1>3 DEF OrderPoints
<1>5. OrderOneHolder' /\ OrderHolderInTurn' /\ OrderUnitInTurn'
  BY <1>1, <1>2, <1>3 DEF OrderOneHolder, OrderHolderInTurn, OrderUnitInTurn, Order!Turn, Order!Last
<1> QED
  BY <1>1, <1>3, <1>4, <1>5, OrderKept

\* The unit leaves the semaphore and is in the hands of the child whose turn it is.
LEMMA OrderWait ==
  ASSUME OrderInv, NEW i \in Order!All, Order!Wait(i)
  PROVE  OrderInv'
<1> USE DEF OrderInv, OrderTypes
<1>1. /\ child[i] = "wait" /\ child' = [child EXCEPT ![i] = "print"]
      /\ sem' = [sem EXCEPT ![i] = @ - 1] /\ sem[i] - 1 >= 0
      /\ UNCHANGED <<variant, next, printed>>
  BY DEF Order!Wait, Order!SemOp, Order!Goto
<1>2. i \in Order!Children /\ sem[i] \in Nat /\ sem[i] # 0
  BY <1>1 DEF OrderPoints
<1>3. sem[i] = 1 /\ i = Order!Turn(Len(printed)) /\ \A j \in Order!All : ~OrderHolds(j)
  BY <1>2 DEF OrderUnitInTurn
<1>4. OrderTypes' /\ Order!Children' = Order!Children
  BY <1>1, <1>3 DEF Order!ChildPC, Order!Children
<1>5. \A s \in Order!Children : sem'[s] = 0
  <2> TAKE s \in Order!Children
  <2>1. s \in Order!All
    BY DEF Order!Children, Order!All
  <2> QED
    BY <1>1, <1>3, <2>1 DEF OrderUnitInTurn
<1>6. OrderPoints'
  BY <1>1, <1>2, <1>4 DEF OrderPoints
<1>7. \A j \in Order!All : j # i => ~OrderHolds(j)' /\ child'[j] = child[j]
  BY <1>1, <1>3 DEF OrderHolds
<1>8. OrderOneHolder' /\ OrderUnitInTurn'
  BY <1>4, <1>5, <1>7 DEF OrderOneHolder, OrderUnitInTurn
<1>9. OrderHolderInTurn'
  BY <1>1, <1>3, <1>7 DEF OrderHolderInTurn, OrderHolds, Order!Turn, Order!Last
<1> QED
  BY <1>1, <1>4, <1>6, <1>8, <1>9, OrderKept

\* The child in whose hands the unit is prints the next message.
LEMMA OrderMessage ==
  ASSUME OrderInv, NEW i \in Order!All, Order!Message(i)
  PROVE  OrderInv'
<1> USE DEF OrderInv, OrderTypes
<1>1. /\ child[i] = "print" /\ printed' = Append(printed, i)
      /\ child' = [child EXCEPT ![i] = IF variant = 1 THEN "unlock" ELSE "arrive"]
      /\ UNCHANGED <<variant, next, sem>>
  BY DEF Order!Message, Order!Goto
<1>2. /\ Len(printed) \in Nat /\ printed' \in Seq(Order!All) /\ Len(printed') = Len(printed) + 1
      /\ \A k \in 1..Len(printed) : printed'[k] = printed[k]
      /\ printed'[Len(printed) + 1] = i
  BY <1>1, AppendProperties, LenProperties
<1>3. i = Order!Turn(Len(printed)) /\ Order!Turn(Len(printed))' = Order!Turn(Len(printed'))
  BY <1>1 DEF OrderHolderInTurn, Order!Turn, Order!Last
<1>4. \A j \in Order!All : j # i => ~OrderHolds(j) /\ child'[j] = child[j]
  BY <1>1 DEF OrderOneHolder, OrderHolds
<1>5. OrderTypes' /\ OrderPoints'
  BY <1>1, <1>2 DEF Order!ChildPC, OrderPoints, Order!Children
<1>6. OrderOneHolder'
  BY <1>4 DEF OrderOneHolder, OrderHolds
<1>7. OrderHolderInTurn'
  BY <1>1, <1>2, <1>3, <1>4 DEF OrderHolderInTurn, OrderHolds, Order!Turn, Order!Last
<1>8. OrderUnitInTurn'
  BY <1>1, <1>4 DEF OrderUnitInTurn, OrderHolds, Order!Children
<1>9. Order!InOrder'
  <2> SUFFICES ASSUME NEW k \in 1..Len(printed') PROVE printed'[k] = Order!Turn(k - 1)
    BY <1>1 DEF Order!InOrder, Order!Turn, Order!Last
  <2>1. CASE k = Len(printed) + 1
    BY <1>2, <1>3, <2>1
  <2>2. CASE k \in 1..Len(printed)
    BY <1>2, <2>2 DEF Order!InOrder
  <2> QED
    BY <1>2, <2>1, <2>2
<1> QED
  BY <1>5, <1>6, <1>7, <1>8, <1>9

\* A child passes the unit on to the semaphore of the next.
LEMMA OrderUnlock ==
  ASSUME OrderInv, NEW i \in Order!All, Order!UnlockRound(i) \/ Order!UnlockOne(i)
  PROVE  OrderInv'
<1> USE DEF OrderInv, OrderTypes
<1> DEFINE to == IF variant = 1 THEN Order!Unlocked(i) ELSE i - 1
<1>1. PICK p \in {"wait", "done", "meet"} :
        /\ child[i] = "unlock" /\ child' = [child EXCEPT ![i] = p]
        /\ p = "meet" => variant = 2
        /\ sem' = [sem EXCEPT ![to] = @ + 1]
        /\ UNCHANGED <<variant, next, printed>>
  BY DEF Order!UnlockRound, Order!UnlockOne, Order!SemOp, Order!Goto
<1>2. Len(printed) \in Nat /\ Len(printed) > 0 /\ i = Order!Turn(Len(printed) - 1)
  BY <1>1, LenProperties DEF OrderHolderInTurn
<1>3. to = Order!Turn(Len(printed)) /\ to \in Order!Children /\ to \in Order!All
  <2> DEFINE k == Len(printed)
  <2> HIDE DEF k
  <2>1. k \in Nat /\ k > 0 /\ i = Order!Turn(k - 1) /\ variant \in {1, 2}
    BY <1>2 DEF k
  <2>2. variant = 2 => Order!Turn(k - 1) > 0
    BY <1>1, <2>1 DEF OrderPoints
  <2>3. to = Order!Turn(k) /\ Order!Turn(k) \in Order!Children
    BY <2>1, <2>2, OrderNextTurn
  <2> QED
    BY <2>3 DEF k, Order!Children, Order!All
<1>4. /\ \A j \in Order!All : ~OrderHolds(j)'
      /\ \A j \in Order!All : j # i => child'[j] = child[j]
  BY <1>1 DEF OrderOneHolder, OrderHolds
<1>5. \A s \in Order!Children : sem[s] = 0 /\ s \in Order!All
  BY <1>1 DEF OrderUnitInTurn, OrderHolds, Order!Children, Order!All
<1>6. \A s \in Order!Children : sem'[s] = IF s = to THEN 1 ELSE 0
  BY <1>1, <1>3, <1>5
<1>7. OrderTypes'
  BY <1>1, <1>3 DEF Order!ChildPC
<1>8. OrderPoints'
  BY <1>1, <1>4 DEF OrderPoints, Order!Children
<1>9. OrderOneHolder' /\ OrderHolderInTurn'
  BY <1>4 DEF OrderOneHolder, OrderHolderInTurn, OrderHolds
<1>10. OrderUnitInTurn'
  BY <1>1, <1>3, <1>4, <1>6 DEF OrderUnitInTurn, Order!Children, Order!Turn, Order!Last
<1> QED
  BY <1>1, <1>7, <1>8, <1>9, <1>10, OrderKept

\* The fourth semaphore of ese_2 is nobody's turn.
LEMMA OrderGate ==
  ASSUME OrderInv, NEW i \in Order!All, Order!Arrive(i) \/ Order!Meet(i)
  PROVE  OrderInv'
<1> USE DEF OrderInv, OrderTypes
<1>1. PICK p \in {"unlock", "meet", "done"} :
        /\ child' = [child EXCEPT ![i] = p]
        /\ p = "unlock" => child[i] = "arrive" /\ i > 0
        /\ child[i] \in {"arrive", "meet"}
        /\ UNCHANGED <<variant, next, printed>>
  BY DEF Order!Arrive, Order!Meet, Order!Goto
<1>2. variant = 2 /\ i \in Order!Children /\ Order!Children' = Order!Children
  BY <1>1 DEF OrderPoints, Order!Children
<1>3. sem' \in [Order!All -> Nat] /\ \A s \in Order!Children : sem'[s] = sem[s]
  BY <1>2 DEF Order!Arrive, Order!Meet, Order!SemOp, Order!Gate, Order!All, Order!Children
<1>4. \A j \in Order!All : j # i => child'[j] = child[j]
  BY <1>1
<1>5. child'[i] = p
  BY <1>1
<1>6. \A j \in Order!All : OrderHolds(j)' => OrderHolds(j)
  BY <1>1, <1>4, <1>5 DEF OrderHolds
<1>7. OrderTypes' /\ OrderPoints'
  BY <1>1, <1>2, <1>3, <1>4, <1>5 DEF Order!ChildPC, OrderPoints
<1>8. OrderOneHolder' /\ OrderUnitInTurn'
  BY <1>1, <1>2, <1>3, <1>6 DEF OrderOneHolder, OrderUnitInTurn, Order!Turn, Order!Last
<1>9. OrderHolderInTurn'
  BY <1>1, <1>4, <1>5 DEF OrderHolderInTurn, Order!Turn, Order!Last
<1> QED
  BY <1>1, <1>7, <1>8, <1>9, OrderKept

LEMMA OrderNext == OrderInv /\ [Order!Next]_orderVars => OrderInv'
<1> SUFFICES ASSUME OrderInv, [Order!Next]_orderVars PROVE OrderInv'
  OBVIOUS
<1>1. CASE Order!Fork
  BY <1>1, OrderFork
<1>2. CASE Order!WaitAll \/ UNCHANGED orderVars
  <2>1. UNCHANGED <<variant, next, child, sem, printed>>
    BY <1>2 DEF Order!WaitAll, orderVars
  <2> QED
    BY <2>1 DEF OrderInv, OrderTypes, OrderPoints, OrderOneHolder, OrderHolderInTurn, OrderUnitInTurn, Order!InOrder,
                OrderHolds, Order!Children, Order!Turn, Order!Last
<1>3. ASSUME NEW i \in Order!All, Order!Child(i) PROVE OrderInv'
  BY <1>3, OrderWait, OrderMessage, OrderUnlock, OrderGate DEF Order!Child
<1> QED
  BY <1>1, <1>2, <1>3 DEF Order!Next

-----------------------------------------------------------------------------
(* The signal relay.                                                       *)

RelayTypes ==
    /\ point \in [Relay!Procs -> {"none", "fork1", "fork2", "handler", "unblock", "send",
                                  "pause", "leave", "wait", "exited"}]
    /\ pending \in [Relay!Procs -> SUBSET Relay!Signals]
    /\ open \in [Relay!Procs -> SUBSET Relay!Signals]
    /\ handled \in [Relay!Procs -> SUBSET Relay!Signals]

\* A handler is set before its signal is unblocked, and neither is undone.
RelayMasks ==
    \A p \in Relay!Procs :
        /\ open[p] \in {{}, Relay!Awaited[p]} /\ handled[p] \in {{}, Relay!Awaited[p]}
        /\ point[p] \in {"none", "fork1", "fork2", "handler", "unblock"} => open[p] = {}
        /\ point[p] \in {"unblock", "send", "pause", "leave", "wait"} => handled[p] = Relay!Awaited[p]

\* Which children there are.
RelayForked ==
    /\ point["parent"] \notin {"none", "send", "pause", "leave"}
    /\ point["child1"] \notin {"fork1", "fork2", "leave", "wait"}
    /\ point["child2"] \notin {"fork1", "fork2", "send", "wait"}
    /\ point["parent"] = "fork1" => point["child1"] = "none"
    /\ point["parent"] \in {"fork1", "fork2"} => point["child2"] = "none"
    /\ point["parent"] \in {"fork2", "handler", "unblock", "wait"} => point["child1"] # "none"
    /\ point["parent"] \in {"handler", "unblock", "wait"} => point["child2"] # "none"
    /\ point["parent"] = "exited" =>
          \/ point["child2"] = "none"
          \/ point["child1"] = "exited" /\ point["child2"] = "exited"

C1 == <<"child1", "SIGUSR1">>
P1 == <<"parent", "SIGUSR1">>
C2 == <<"child2", "SIGUSR2">>
P2 == <<"parent", "SIGUSR2">>

\* Where child2 is when it has sent.
HasSent == {"leave", "exited"}

\* Where the one signal is, after each number of legs.
NoneSent ==
    /\ relayed = {}
    /\ \A p \in Relay!Procs : pending[p] = {}
    /\ point["child1"] # "pause" /\ point["child2"] \notin HasSent
    /\ point["child1"] = "exited" => point["parent"] = "exited" /\ point["child2"] = "none"
FirstLeg ==
    /\ relayed = {C1}
    /\ pending["parent"] = {"SIGUSR1"} /\ pending["child1"] = {} /\ pending["child2"] = {}
    /\ point["child1"] = "pause" /\ point["child2"] \notin HasSent
SecondLeg ==
    /\ relayed = {C1, P1}
    /\ pending["parent"] = {} /\ pending["child1"] = {} /\ pending["child2"] = {"SIGUSR1"}
    /\ point["child1"] = "pause" /\ point["child2"] \notin HasSent \union {"none"}
    /\ point["parent"] = "wait"
ThirdLeg ==
    /\ relayed = {C1, P1, C2}
    /\ pending["parent"] = {"SIGUSR2"} /\ pending["child1"] = {} /\ pending["child2"] = {}
    /\ point["child1"] = "pause" /\ point["child2"] \in HasSent /\ point["parent"] = "wait"
LastLeg ==
    /\ relayed = {C1, P1, C2, P2}
    /\ pending["parent"] = {} /\ pending["child2"] = {}
    /\ point["child1"] = "pause" => pending["child1"] = {"SIGUSR2"}
    /\ point["child1"] \in {"pause", "exited"} /\ point["child2"] \in HasSent

RelayLegs == NoneSent \/ FirstLeg \/ SecondLeg \/ ThirdLeg \/ LastLeg

RelayInv == RelayTypes /\ RelayMasks /\ RelayForked /\ RelayLegs

LEMMA RelayInit == Relay!Init => RelayInv
BY DEF Relay!Init, RelayInv, RelayTypes, RelayMasks, RelayForked, RelayLegs, NoneSent,
       HasSent, Relay!Procs, Relay!Signals, Relay!Awaited

LEMMA RelayNext == RelayInv /\ [Relay!Next]_relayVars => RelayInv'
<1> SUFFICES ASSUME RelayInv, [Relay!Next]_relayVars PROVE RelayInv'
  OBVIOUS
<1> USE DEF RelayInv, RelayTypes, Relay!Procs, Relay!Signals
<1>1. CASE Relay!ForkChildren
  <2>1. PICK c \in {"child1", "child2"}, then \in {"fork2", "handler"} :
          /\ c = "child1" <=> then = "fork2"
          /\ point["parent"] = IF c = "child1" THEN "fork1" ELSE "fork2"
          /\ \/ point' = [point EXCEPT !["parent"] = then, ![c] = "handler"]
             \/ point' = [point EXCEPT !["parent"] = "exited"]
          /\ UNCHANGED <<pending, open, handled, relayed>>
    BY <1>1 DEF Relay!ForkChildren, Relay!Fork, Relay!Goto
  <2>2. /\ RelayTypes'
        /\ \A p \in Relay!Procs :
             \/ point'[p] = point[p]
             \/ p = c /\ point[p] = "none" /\ point'[p] = "handler"
             \/ p = "parent" /\ point'[p] \in {then, "exited"}
        /\ point'["parent"] # "exited" => point'["parent"] = then /\ point'[c] = "handler"
    BY <2>1 DEF RelayForked
  <2>5. RelayForked'
    BY <2>1, <2>2 DEF RelayForked
  <2>3. RelayMasks'
    BY <2>1, <2>2 DEF RelayMasks, RelayForked
  <2>4. RelayLegs'
    BY <2>1, <2>2 DEF RelayLegs, NoneSent, FirstLeg, SecondLeg, ThirdLeg, LastLeg, HasSent, RelayForked
  <2> QED
    BY <2>2, <2>3, <2>4, <2>5
<1>2. ASSUME NEW p \in Relay!Procs, Relay!SetHandler(p) PROVE RelayInv'
  <2>1. /\ point[p] = "handler" /\ point' = [point EXCEPT ![p] = "unblock"]
        /\ handled' = [handled EXCEPT ![p] = Relay!Awaited[p]]
        /\ UNCHANGED <<pending, open, relayed>>
    BY <1>2 DEF Relay!SetHandler, Relay!Goto
  <2>2. RelayTypes' /\ RelayForked' /\ RelayMasks'
    BY <2>1 DEF RelayForked, RelayMasks, Relay!Awaited
  <2>3. RelayLegs'
    BY <2>1 DEF RelayLegs, NoneSent, FirstLeg, SecondLeg, ThirdLeg, LastLeg, HasSent
  <2> QED
    BY <2>2, <2>3
<1>3. ASSUME NEW p \in Relay!Procs, Relay!Unblock(p) PROVE RelayInv'
  <2>1. /\ point[p] = "unblock" /\ point' = [point EXCEPT ![p] = Relay!AfterUnblock[p]]
        /\ open' = [open EXCEPT ![p] = Relay!Awaited[p]]
        /\ UNCHANGED <<pending, handled, relayed>>
    BY <1>3 DEF Relay!Unblock, Relay!Goto
  <2>2. RelayTypes' /\ RelayForked' /\ RelayMasks'
    BY <2>1 DEF RelayForked, RelayMasks, Relay!Awaited, Relay!AfterUnblock
  <2>3. RelayLegs'
    BY <2>1 DEF RelayLegs, NoneSent, FirstLeg, SecondLeg, ThirdLeg, LastLeg, HasSent,
                Relay!AfterUnblock
  <2> QED
    BY <2>2, <2>3
<1>4. CASE Relay!SendFirst
  <2>1. NoneSent /\ point["child1"] = "send"
    BY <1>4 DEF Relay!SendFirst, RelayLegs, NoneSent, FirstLeg, SecondLeg, ThirdLeg, LastLeg, HasSent
  <2>2. CASE Relay!Running("parent")
    <3>1. /\ pending' = [pending EXCEPT !["parent"] = {"SIGUSR1"}]
          /\ relayed' = {C1} /\ point' = [point EXCEPT !["child1"] = "pause"]
          /\ UNCHANGED <<open, handled>>
      BY <1>4, <2>1, <2>2 DEF Relay!SendFirst, Relay!Kill, Relay!Goto, NoneSent, C1
    <3>2. FirstLeg'
      BY <2>1, <3>1 DEF NoneSent, FirstLeg, HasSent
    <3> QED
      BY <2>1, <3>1, <3>2 DEF RelayLegs, RelayMasks, RelayForked
  <2>3. CASE ~Relay!Running("parent")
    <3>1. point' = [point EXCEPT !["child1"] = "exited"]
          /\ UNCHANGED <<pending, relayed, open, handled>>
      BY <1>4, <2>3 DEF Relay!SendFirst, Relay!Goto
    <3>2. point["parent"] = "exited"
      BY <2>3 DEF Relay!Running, Relay!Ended, RelayForked
    <3> QED
      BY <2>1, <3>1, <3>2 DEF RelayLegs, NoneSent, HasSent, RelayMasks, RelayForked
  <2> QED
    BY <2>2, <2>3
<1>5. CASE Relay!SigHandlerParent
  <2>1. CASE Relay!Delivered("parent", "SIGUSR1")
    <3>1. FirstLeg /\ point["parent"] = "wait"
      BY <2>1 DEF Relay!Delivered, Relay!Running, Relay!Ended, RelayMasks, RelayForked,
                  RelayLegs, NoneSent, FirstLeg, SecondLeg, ThirdLeg, LastLeg, HasSent
    <3>2. point["child2"] # "none"
      BY <3>1 DEF RelayForked
    <3>5. pending["parent"] = {"SIGUSR1"} /\ pending["child2"] = {} /\ relayed = {C1}
      BY <3>1 DEF FirstLeg
    <3>6. point["child2"] \notin {"none", "exited"}
      BY <3>1, <3>2 DEF FirstLeg, HasSent
    <3>7. /\ Relay!Passed("parent", "SIGUSR1", "child2", "SIGUSR1")
          /\ UNCHANGED <<point, open, handled>>
      BY <1>5, <3>5 DEF Relay!SigHandlerParent, Relay!Delivered
    <3>3. /\ pending' = [pending EXCEPT !["parent"] = {}, !["child2"] = {"SIGUSR1"}]
          /\ relayed' = {C1, P1} /\ UNCHANGED <<point, open, handled>>
      BY <3>5, <3>6, <3>7 DEF Relay!Passed, Relay!Running, Relay!Ended, P1
    <3>4. SecondLeg'
      BY <3>1, <3>2, <3>3 DEF FirstLeg, SecondLeg, HasSent
    <3> QED
      BY <3>3, <3>4 DEF RelayLegs, RelayMasks, RelayForked
  <2>2. CASE Relay!Delivered("parent", "SIGUSR2")
    <3>1. ThirdLeg
      BY <2>2 DEF Relay!Delivered, RelayLegs, NoneSent, FirstLeg, SecondLeg, ThirdLeg, LastLeg, HasSent
    <3>2. /\ pending' = [pending EXCEPT !["parent"] = {}, !["child1"] = {"SIGUSR2"}]
          /\ relayed' = {C1, P1, C2, P2} /\ UNCHANGED <<point, open, handled>>
      BY <1>5, <3>1
         DEF Relay!SigHandlerParent, Relay!Passed, Relay!Delivered, Relay!Running, Relay!Ended, ThirdLeg, P2
    <3>3. LastLeg'
      BY <3>1, <3>2 DEF ThirdLeg, LastLeg
    <3> QED
      BY <3>2, <3>3 DEF RelayLegs, RelayMasks, RelayForked
  <2> QED
    BY <1>5, <2>1, <2>2 DEF Relay!SigHandlerParent
<1>6. CASE Relay!SigHandlerChild1
  <2>1. LastLeg /\ point["child1"] = "pause"
    BY <1>6 DEF Relay!SigHandlerChild1, Relay!Delivered, Relay!Running, Relay!Ended,
                RelayLegs, NoneSent, FirstLeg, SecondLeg, ThirdLeg, LastLeg, HasSent
  <2>2. /\ pending' = [pending EXCEPT !["child1"] = {}]
        /\ point' = [point EXCEPT !["child1"] = "exited"]
        /\ UNCHANGED <<open, handled, relayed>>
    BY <1>6, <2>1 DEF Relay!SigHandlerChild1, Relay!Goto, LastLeg
  <2> QED
    BY <2>1, <2>2 DEF RelayLegs, LastLeg, RelayMasks, RelayForked
<1>9. CASE Relay!SigHandlerChild2
  <2>1. SecondLeg
    BY <1>9 DEF Relay!SigHandlerChild2, Relay!Delivered, Relay!Running, Relay!Ended,
                RelayLegs, NoneSent, FirstLeg, SecondLeg, ThirdLeg, LastLeg, HasSent
  <2>2. /\ pending' = [pending EXCEPT !["child2"] = {}, !["parent"] = {"SIGUSR2"}]
        /\ point' = [point EXCEPT !["child2"] = "leave"]
        /\ relayed' = {C1, P1, C2} /\ UNCHANGED <<open, handled>>
    BY <1>9, <2>1 DEF Relay!SigHandlerChild2, Relay!Passed, Relay!Goto, Relay!Running, Relay!Ended, SecondLeg, C2
  <2>3. ThirdLeg'
    BY <2>1, <2>2 DEF SecondLeg, ThirdLeg, HasSent
  <2>4. RelayTypes'
    BY <2>2
  <2>6. RelayMasks'
    <3>1. /\ handled["child2"] = Relay!Awaited["child2"]
          /\ open["child2"] \in {{}, Relay!Awaited["child2"]} /\ UNCHANGED <<open, handled>>
      BY <1>9, <2>2 DEF Relay!SigHandlerChild2, Relay!Delivered, RelayMasks
    <3>2. \A p \in Relay!Procs : point'[p] = IF p = "child2" THEN "leave" ELSE point[p]
      BY <2>2
    <3> QED
      BY <2>1, <3>1, <3>2 DEF RelayMasks
  <2>5. RelayForked'
    BY <2>1, <2>2 DEF RelayForked, SecondLeg
  <2> QED
    BY <2>3, <2>4, <2>5, <2>6 DEF RelayLegs
<1>10. CASE Relay!ExitChild2
  <2>1. /\ point["child2"] = "leave" /\ point' = [point EXCEPT !["child2"] = "exited"]
        /\ UNCHANGED <<pending, open, handled, relayed>>
    BY <1>10 DEF Relay!ExitChild2, Relay!Goto
  <2>2. ThirdLeg \/ LastLeg
    BY <2>1 DEF RelayLegs, NoneSent, FirstLeg, SecondLeg, HasSent
  <2>3. RelayTypes' /\ RelayMasks' /\ RelayForked'
    BY <2>1 DEF RelayMasks, RelayForked
  <2>4. RelayLegs'
    BY <2>1, <2>2 DEF RelayLegs, ThirdLeg, LastLeg, HasSent
  <2> QED
    BY <2>3, <2>4
<1>7. CASE Relay!WaitChildren
  <2>1. point["parent"] = "wait" /\ point' = [point EXCEPT !["parent"] = "exited"]
        /\ point["child1"] = "exited" /\ point["child2"] = "exited"
        /\ UNCHANGED <<pending, open, handled, relayed>>
    BY <1>7 DEF Relay!WaitChildren, Relay!Goto, Relay!Running, Relay!Ended, RelayForked
  <2> QED
    BY <2>1 DEF RelayLegs, NoneSent, FirstLeg, SecondLeg, ThirdLeg, LastLeg, HasSent, RelayMasks,
                RelayForked
<1>8. CASE UNCHANGED relayVars
  BY <1>8 DEF relayVars, RelayLegs, NoneSent, FirstLeg, SecondLeg, ThirdLeg, LastLeg, HasSent,
              RelayMasks, RelayForked
<1> QED
  BY <1>1, <1>2, <1>3, <1>4, <1>5, <1>6, <1>7, <1>8, <1>9, <1>10
     DEF Relay!Next, Relay!Parent, Relay!Child1, Relay!Child2

LEMMA RelayHolds == RelayInv => Relay!TypeOK /\ Relay!NeverDefault /\ Relay!GoesRound
<1> SUFFICES ASSUME RelayInv PROVE Relay!TypeOK /\ Relay!NeverDefault /\ Relay!GoesRound
  OBVIOUS
<1> USE DEF RelayInv, RelayTypes, Relay!Procs, Relay!Signals
<1>1. Relay!TypeOK
  <2>1. relayed \subseteq Relay!Procs \X Relay!Signals
    BY DEF RelayLegs, NoneSent, FirstLeg, SecondLeg, ThirdLeg, LastLeg, HasSent, C1, P1, C2, P2
  <2>2. \A p \in Relay!Procs : /\ open[p] \in SUBSET Relay!Awaited[p]
                               /\ handled[p] \in SUBSET Relay!Awaited[p]
    BY DEF RelayMasks, Relay!Awaited
  <2> QED
    BY <2>1, <2>2 DEF Relay!TypeOK
<1>2. Relay!NeverDefault
  BY DEF Relay!NeverDefault, RelayMasks, Relay!Running, Relay!Ended, RelayForked
<1>3. Relay!GoesRound
  BY DEF Relay!GoesRound, Relay!Round, RelayForked, RelayLegs, NoneSent, FirstLeg, SecondLeg, ThirdLeg, LastLeg, HasSent,
         C1, P1, C2, P2
<1> QED
  BY <1>1, <1>2, <1>3

-----------------------------------------------------------------------------
(* Stop and resume.                                                        *)

\* Where the children are, by the control point of the parent.
StopPhases ==
    /\ monitor = "fork1" => child1 = "none" /\ child2 = "none"
    /\ monitor = "fork2" => child1 = "plays" /\ child2 = "none"
    /\ monitor \in {"handler", "watch", "resume", "term1"} =>
          child1 \in {"plays", "stopped"} /\ child2 = "teases"
    /\ monitor \in {"handler", "watch"} => (unreported = (child1 = "stopped"))
    /\ monitor \in {"fork1", "fork2"} => ~unreported
    /\ monitor = "resume" => child1 = "stopped" /\ ~unreported
    /\ monitor = "term2" => child1 = "ended" \/ (child1 = "stopped" /\ dying)

\* SIGTERM is pending only in the handler and after it.
StopDying == dying => monitor \in {"term2", "exited"}

StopInv == /\ Monitor!TypeOK /\ Monitor!NoStopMissed /\ Monitor!EndsBoth
           /\ StopPhases /\ StopDying

LEMMA StopInit == Monitor!Init => StopInv
BY DEF Monitor!Init, StopInv, Monitor!TypeOK, Monitor!NoStopMissed, Monitor!EndsBoth,
       StopPhases, StopDying

LEMMA StopNext == StopInv /\ [Monitor!Next]_stopVars => StopInv'
<1> SUFFICES ASSUME StopInv, [Monitor!Next]_stopVars PROVE StopInv'
  OBVIOUS
<1> USE DEF StopInv, Monitor!TypeOK, Monitor!NoStopMissed, Monitor!EndsBoth,
            StopPhases, StopDying
<1>1. CASE Monitor!ForkChild1 \/ Monitor!ForkChild2 \/ Monitor!SetHandler
  BY <1>1 DEF Monitor!ForkChild1, Monitor!ForkChild2, Monitor!SetHandler
<1>2. CASE Monitor!Monitor \/ Monitor!Resume
  <2>1. CASE Monitor!Monitor
    BY <2>1 DEF Monitor!Monitor
  <2>2. CASE Monitor!Resume
    BY <2>2 DEF Monitor!Resume
  <2> QED
    BY <1>2, <2>1, <2>2
<1>3. CASE Monitor!TermChild1 /\ child1 = "stopped"
  <2>1. dying' = TRUE
    BY <1>3 DEF Monitor!TermChild1
  <2> QED
    BY <1>3, <2>1 DEF Monitor!TermChild1
<1>7. CASE Monitor!TermChild1 /\ child1 # "stopped"
  <2>1. dying' = FALSE
    BY <1>7 DEF Monitor!TermChild1
  <2> QED
    BY <1>7, <2>1 DEF Monitor!TermChild1
<1>8. CASE Monitor!TermChild2
  BY <1>8 DEF Monitor!TermChild2, Monitor!ParentEnds
<1>4. CASE Monitor!Stop
  BY <1>4 DEF Monitor!Stop
<1>5. CASE Monitor!SigInt
  BY <1>5 DEF Monitor!SigInt, Monitor!ParentEnds
<1>6. CASE UNCHANGED stopVars
  BY <1>6 DEF stopVars
<1> QED
  BY <1>1, <1>2, <1>3, <1>4, <1>5, <1>6, <1>7, <1>8 DEF Monitor!Next, Monitor!Parent
-----------------------------------------------------------------------------
(* The rest of the types of SemaphoreOrder.                                *)

OrderRest ==
    /\ n \in Nat /\ next \in 0..4 /\ missing \subseteq Order!Children
    /\ done \in [Order!All -> Nat] /\ parent \in {"fork", "done"}

LEMMA OrderRestInit == Order!Init => OrderRest
BY FamiliesAssumption DEF Order!Init, OrderRest, Order!All

LEMMA OrderRestNext ==
  ASSUME variant \in {1, 2}, OrderRest, [Order!Next]_orderVars
  PROVE  OrderRest'
<1> USE DEF OrderRest
<1>1. CASE Order!Fork
  <2>1. /\ next \in Order!Children /\ next' = next + 1 /\ UNCHANGED <<variant, n, done, parent>>
        /\ missing' = missing \/ missing' = missing \union {next}
    BY <1>1 DEF Order!Fork
  <2>2. Order!Children' = Order!Children
    BY <2>1 DEF Order!Children
  <2>3. next \in 0..3
    BY <2>1 DEF Order!Children
  <2>4. next' \in 0..4
    BY <2>1, <2>3
  <2>5. missing' \subseteq Order!Children'
    BY <2>1, <2>2
  <2> QED
    BY <2>1, <2>4, <2>5
<1>2. CASE Order!WaitAll
  BY <1>2 DEF Order!WaitAll, Order!Children
<1>3. ASSUME NEW i \in Order!All, Order!Child(i) PROVE OrderRest'
  <2>1. UNCHANGED <<variant, n, next, missing, parent>>
    BY <1>3 DEF Order!Child, Order!Wait, Order!Message, Order!UnlockRound, Order!Arrive,
                Order!UnlockOne, Order!Meet, Order!Goto
  <2>2. done' = done \/ done' = [done EXCEPT ![i] = @ + 1]
    BY <1>3 DEF Order!Child, Order!Wait, Order!Message, Order!UnlockRound, Order!Arrive,
                Order!UnlockOne, Order!Meet
  <2> QED
    BY <2>1, <2>2 DEF Order!Children
<1>4. CASE UNCHANGED orderVars
  BY <1>4 DEF orderVars, Order!Children
<1> QED
  BY <1>1, <1>2, <1>3, <1>4 DEF Order!Next

-----------------------------------------------------------------------------
(* The five programs together.                                             *)

Inv ==
    /\ program \in Programs
    /\ ItemsInv /\ PingInv /\ OrderInv /\ OrderRest /\ RelayInv /\ StopInv

LEMMA InvInit == Init => Inv
BY ItemsInit, PingInit, OrderInit, OrderRestInit, RelayInit, StopInit DEF Init, Inv

LEMMA InvNext == Inv /\ [Next]_vars => Inv'
<1> SUFFICES ASSUME Inv, [Next]_vars PROVE Inv'
  OBVIOUS
<1>1. /\ program' = program /\ [Items!Next]_itemVars /\ [Ping!Next]_pingVars
      /\ [Order!Next]_orderVars /\ [Relay!Next]_relayVars /\ [Monitor!Next]_stopVars
  BY Zenon DEF Next, vars
<1>2. variant \in {1, 2}
  BY DEF Inv, OrderInv, OrderTypes
<1> QED
  BY <1>1, <1>2, ItemsNext, PingNext, OrderNext, OrderRestNext, RelayNext, StopNext DEF Inv

LEMMA Invariance == Spec => []Inv
BY InvInit, InvNext, PTL DEF Spec

(* Every variable of the five programs keeps its type: in particular the
   write ends of the pipes are open exactly while a child lives, and no
   semaphore becomes negative. *)
THEOREM TypeCorrect == Spec => []TypeOK
<1>1. Inv => TypeOK
  BY ItemsHolds, PingHolds, RelayHolds
     DEF Inv, TypeOK, OrderInv, OrderTypes, OrderRest, Order!TypeOK, StopInv
<1> QED
  BY <1>1, Invariance, PTL

(* However many children write however many chunks, the value that follows a
   size is the one written with it, the chunks of every file are printed once
   each and in order, and the end of the pipe comes after the last of them;
   ping and pong take turns for any number of rounds. *)
THEOREM OrderKeptInPipes == Spec => []PipesKeepOrder
<1>1. Inv => PipesKeepOrder
  BY ItemsHolds, PingHolds DEF Inv, PipesKeepOrder
<1> QED
  BY <1>1, Invariance, PTL

(* The children of SemaphoreOrder print in the order 3, 2, 1, 0, for any
   number of rounds and whatever forks fail. *)
THEOREM PrintedInOrder == Spec => []InOrder
<1>1. Inv => InOrder
  BY DEF Inv, OrderInv, InOrder
<1> QED
  BY <1>1, Invariance, PTL

(* No signal of the relay meets a process without its handler, and the parent
   of StopResume misses no stop and leaves no child behind but a stopped one. *)
THEOREM SignalsHandled == Spec => []SignalsArrive
<1>1. Inv => SignalsArrive
  BY RelayHolds DEF Inv, SignalsArrive, StopInv
<1> QED
  BY <1>1, Invariance, PTL

=============================================================================
