--------------------------- MODULE MessagesProofs ---------------------------
(***************************************************************************)
(* The way of a text through buildMessages, serializeMessage and           *)
(* deserializeMessage, for every alphabet, every size of a payload and     *)
(* every order of arrival.                                                 *)
(***************************************************************************)
EXTENDS Messages, SequenceTheorems, FiniteSetTheorems, WellFoundedInduction,
        TLAPS

\* (Z3 is given no literal "," or " ".)
Cm == ","
Sp == " "

Chars == Alphabet \cup {"[", Cm, Sp, "]", Pid} \cup {FilePath[1]}
Slots == [PID : {0, PidNumber}, payload : Seq(Chars), path : Seq(Chars),
          medium : -1..3]

LEMMA CharFacts ==
  /\ Alphabet \subseteq Chars /\ "[" \in Chars /\ "]" \in Chars
  /\ Cm \in Chars /\ Sp \in Chars /\ Pid \in Chars /\ FilePath[1] \in Chars
  /\ FilePath \in Seq(Chars) /\ FilePath = <<"/">>
  /\ Pid = "7" /\ PidNumber = 7
<1>1. FilePath = <<"/">> /\ FilePath[1] = "/" /\ "/" \in Chars
  BY DEF FilePath, Chars
<1>2. FilePath \in Seq(Chars)
  BY <1>1
<1>3. /\ "[" \in Chars /\ "]" \in Chars
      /\ Cm \in Chars /\ Sp \in Chars /\ Pid \in Chars
  BY DEF Chars
<1>4. Alphabet \subseteq Chars
  BY DEF Chars
<1> QED
  BY <1>1, <1>2, <1>3, <1>4 DEF Pid, PidNumber

\* A set of natural numbers has a least element, which is its Min.
LEMMA MinFacts ==
  ASSUME NEW T \in SUBSET Nat, T # {}
  PROVE  Min(T) \in T /\ \A y \in T : Min(T) <= y
<1> DEFINE R == {ss \in Nat \X Nat : ss[1] < ss[2]}
<1>1. IsWellFoundedOn(R, Nat)
  BY NatLessThanWellFounded DEF OpToRel
<1>2. \E x \in T : \A y \in T : ~(<<y, x>> \in R)
  <2> HIDE DEF R
  <2> QED
    BY <1>1, WFMin
<1>3. PICK x \in T : \A y \in T : ~(<<y, x>> \in R)
  BY <1>2
<1>4. ASSUME NEW y \in T PROVE x <= y
  <2>1. x \in Nat /\ y \in Nat
    OBVIOUS
  <2>2. <<y, x>> \in Nat \X Nat /\ <<y, x>>[1] = y /\ <<y, x>>[2] = x
    BY <2>1
  <2>3. ~(y < x)
    BY <1>3, <2>2
  <2> QED
    BY <2>1, <2>3
<1>5. \E z \in T : \A y \in T : z <= y
  BY <1>4
<1> QED
  BY <1>5 DEF Min

\* Of two lengths, Min is the shorter one.
LEMMA MinOfTwo ==
  ASSUME NEW x \in Nat, NEW y \in Nat
  PROVE  Min({x, y}) = IF x <= y THEN x ELSE y
<1>1. PICK T \in SUBSET Nat : T = {x, y}
  OBVIOUS
<1>2. Min(T) \in T /\ \A z \in T : Min(T) <= z
  BY <1>1, MinFacts
<1> QED
  BY <1>1, <1>2

-----------------------------------------------------------------------------
(* The split.                                                              *)

\* The parts are as long as the text together, and differ by one at most.
LEMMA PartLens ==
  ASSUME NEW l \in Nat
  PROVE  /\ \A i \in Media : PartLen(l, i) \in Nat
         /\ PartLen(l, 0) + PartLen(l, 1) + PartLen(l, 2) + PartLen(l, 3) = l
         /\ \A i, j \in Media : i <= j => /\ PartLen(l, j) <= PartLen(l, i)
                                          /\ PartLen(l, i) <= PartLen(l, j) + 1
<1>1. l = 4 * (l \div 4) + (l % 4) /\ l \div 4 \in Nat /\ l % 4 \in 0..3
  OBVIOUS
<1>2. PICK q \in Nat, r \in 0..3 : q = l \div 4 /\ r = l % 4 /\ l = 4 * q + r
  BY <1>1
<1>3. \A i \in Media : PartLen(l, i) = q + (IF r >= i + 1 THEN 1 ELSE 0)
  BY <1>2 DEF PartLen
<1>4. \A i \in Media : i = 0 \/ i = 1 \/ i = 2 \/ i = 3
  BY DEF Media
<1>5. /\ PartLen(l, 0) = q + (IF r >= 1 THEN 1 ELSE 0)
      /\ PartLen(l, 1) = q + (IF r >= 2 THEN 1 ELSE 0)
      /\ PartLen(l, 2) = q + (IF r >= 3 THEN 1 ELSE 0)
      /\ PartLen(l, 3) = q
  BY <1>2, <1>3 DEF Media
<1>6. \A i \in Media : PartLen(l, i) \in Nat
  BY <1>2, <1>4, <1>5
<1>7. PartLen(l, 0) + PartLen(l, 1) + PartLen(l, 2) + PartLen(l, 3) = l
  BY <1>2, <1>5
<1>8. ASSUME NEW i \in Media, NEW j \in Media, i <= j
      PROVE  PartLen(l, j) <= PartLen(l, i) /\ PartLen(l, i) <= PartLen(l, j) + 1
  <2>1. i \in 0..3 /\ j \in 0..3
    BY DEF Media
  <2> QED
    BY <1>2, <1>3, <1>8, <2>1
<1> QED
  BY <1>6, <1>7, <1>8

\* Where part i of a text of l characters begins.
Start(l, i) ==
  LET before(j) == IF j < i THEN PartLen(l, j) ELSE 0
  IN  before(0) + before(1) + before(2)

LEMMA Starts ==
  ASSUME NEW l \in Nat
  PROVE  /\ \A i \in Media : Start(l, i) \in Nat
         /\ Start(l, 0) = 0
         /\ \A i \in 0..2 : Start(l, i + 1) = Start(l, i) + PartLen(l, i)
         /\ Start(l, 3) + PartLen(l, 3) = l
         /\ \A i \in Media : Start(l, i) + PartLen(l, i) <= l
<1>1. /\ PartLen(l, 0) \in Nat /\ PartLen(l, 1) \in Nat
      /\ PartLen(l, 2) \in Nat /\ PartLen(l, 3) \in Nat
      /\ PartLen(l, 0) + PartLen(l, 1) + PartLen(l, 2) + PartLen(l, 3) = l
  BY PartLens DEF Media
<1>2. /\ Start(l, 0) = 0
      /\ Start(l, 1) = PartLen(l, 0)
      /\ Start(l, 2) = PartLen(l, 0) + PartLen(l, 1)
      /\ Start(l, 3) = PartLen(l, 0) + PartLen(l, 1) + PartLen(l, 2)
  BY <1>1 DEF Start
<1>3. \A i \in 0..2 : Start(l, i + 1) = Start(l, i) + PartLen(l, i)
  <2>1. \A i \in 0..2 : i = 0 \/ i = 1 \/ i = 2
    OBVIOUS
  <2>2. 0 + 1 = 1 /\ 1 + 1 = 2 /\ 2 + 1 = 3
    OBVIOUS
  <2> QED
    BY <1>1, <1>2, <2>1, <2>2
<1>4. \A i \in Media : i = 0 \/ i = 1 \/ i = 2 \/ i = 3
  BY DEF Media
<1> QED
  BY <1>1, <1>2, <1>3, <1>4

LEMMA FilePartFacts ==
  ASSUME NEW S, NEW text \in Seq(S), NEW i \in Media
  PROVE  /\ FilePart(text, i) =
              SubSeq(text, Start(Len(text), i) + 1,
                     Start(Len(text), i) + PartLen(Len(text), i))
         /\ FilePart(text, i) \in Seq(S)
         /\ Len(FilePart(text, i)) = PartLen(Len(text), i)
<1>1. PICK l \in Nat : l = Len(text)
  BY LenProperties
<1>2. PICK a \in Nat, p \in Nat :
        a = Start(l, i) /\ p = PartLen(l, i) /\ a + p <= l
  BY <1>1, Starts, PartLens
<1>3. FilePart(text, i) = SubSeq(text, a + 1, a + p)
  BY <1>1, <1>2 DEF FilePart, Start
<1>4. \A k \in (a + 1)..(a + p) : text[k] \in S
  BY <1>1, <1>2, LenProperties, ElementOfSeq
<1>5. /\ SubSeq(text, a + 1, a + p) \in Seq(S)
      /\ Len(SubSeq(text, a + 1, a + p)) =
           IF a + 1 <= a + p THEN a + p - (a + 1) + 1 ELSE 0
  <2>1. a + 1 \in Int /\ a + p \in Int
    OBVIOUS
  <2> QED
    BY <1>4, <2>1, SubSeqProperties
<1>6. Len(SubSeq(text, a + 1, a + p)) = p
  BY <1>5
<1> QED
  BY <1>1, <1>2, <1>3, <1>5, <1>6

\* buildMessages loses no character and doubles none.
LEMMA Split ==
  ASSUME NEW S, NEW text \in Seq(S)
  PROVE  FilePart(text, 0) \o FilePart(text, 1) \o FilePart(text, 2)
           \o FilePart(text, 3) = text
<1>1. PICK l \in Nat : l = Len(text)
  BY LenProperties
<1>s. /\ Start(l, 1) \in Nat /\ Start(l, 2) \in Nat /\ Start(l, 3) \in Nat
      /\ PartLen(l, 1) \in Nat /\ PartLen(l, 2) \in Nat /\ PartLen(l, 3) \in Nat
      /\ Start(l, 0) = 0
      /\ Start(l, 0 + 1) = Start(l, 0) + PartLen(l, 0)
      /\ Start(l, 1 + 1) = Start(l, 1) + PartLen(l, 1)
      /\ Start(l, 2 + 1) = Start(l, 2) + PartLen(l, 2)
      /\ Start(l, 3) + PartLen(l, 3) = l
  <2>1. 0 \in 0..2 /\ 1 \in 0..2 /\ 2 \in 0..2
    OBVIOUS
  <2>2. 1 \in Media /\ 2 \in Media /\ 3 \in Media
    BY DEF Media
  <2> QED
    BY <2>1, <2>2, Starts, PartLens
<1>s1. PICK s1 \in Nat : s1 = Start(l, 1)
  BY <1>s
<1>s2. PICK s2 \in Nat : s2 = Start(l, 2)
  BY <1>s
<1>s3. PICK s3 \in Nat : s3 = Start(l, 3)
  BY <1>s
<1>2. /\ s1 = Start(l, 1) /\ s2 = Start(l, 2) /\ s3 = Start(l, 3)
      /\ s1 <= s2 /\ s2 <= s3 /\ s3 <= l
      /\ s1 = Start(l, 0) + PartLen(l, 0) /\ Start(l, 0) = 0
      /\ s2 = s1 + PartLen(l, 1)
      /\ s3 = s2 + PartLen(l, 2)
      /\ l = s3 + PartLen(l, 3)
  <2>1. 0 + 1 = 1 /\ 1 + 1 = 2 /\ 2 + 1 = 3
    OBVIOUS
  <2> QED
    BY <1>s, <1>s1, <1>s2, <1>s3, <2>1, SMTT(60)
<1>3. /\ FilePart(text, 0) = SubSeq(text, 1, s1)
      /\ FilePart(text, 1) = SubSeq(text, s1 + 1, s2)
      /\ FilePart(text, 2) = SubSeq(text, s2 + 1, s3)
      /\ FilePart(text, 3) = SubSeq(text, s3 + 1, l)
  <2>1. 0 \in Media /\ 1 \in Media /\ 2 \in Media /\ 3 \in Media
    BY DEF Media
  <2>2. \A i \in Media : FilePart(text, i) =
                           SubSeq(text, Start(l, i) + 1, Start(l, i) + PartLen(l, i))
    BY <1>1, FilePartFacts
  <2>3. /\ Start(l, 0) + 1 = 1 /\ Start(l, 0) + PartLen(l, 0) = s1
        /\ Start(l, 1) + 1 = s1 + 1 /\ Start(l, 1) + PartLen(l, 1) = s2
        /\ Start(l, 2) + 1 = s2 + 1 /\ Start(l, 2) + PartLen(l, 2) = s3
        /\ Start(l, 3) + 1 = s3 + 1 /\ Start(l, 3) + PartLen(l, 3) = l
    BY <1>2
  <2>4. /\ FilePart(text, 0) = SubSeq(text, Start(l, 0) + 1, Start(l, 0) + PartLen(l, 0))
        /\ FilePart(text, 1) = SubSeq(text, Start(l, 1) + 1, Start(l, 1) + PartLen(l, 1))
        /\ FilePart(text, 2) = SubSeq(text, Start(l, 2) + 1, Start(l, 2) + PartLen(l, 2))
        /\ FilePart(text, 3) = SubSeq(text, Start(l, 3) + 1, Start(l, 3) + PartLen(l, 3))
    BY <2>1, <2>2
  <2> QED
    BY <2>3, <2>4
<1>a. /\ 1 \in 1..(Len(text) + 1)
      /\ s1 \in (1 - 1)..Len(text) /\ s2 \in (1 - 1)..Len(text)
      /\ s3 \in (1 - 1)..Len(text)
      /\ s2 \in s1..Len(text) /\ s3 \in s2..Len(text) /\ l \in s3..Len(text)
  BY <1>1, <1>2
<1>4. SubSeq(text, 1, s1) \o SubSeq(text, s1 + 1, s2) = SubSeq(text, 1, s2)
  BY <1>a, ConcatAdjacentSubSeq
<1>5. SubSeq(text, 1, s2) \o SubSeq(text, s2 + 1, s3) = SubSeq(text, 1, s3)
  BY <1>a, ConcatAdjacentSubSeq
<1>6. SubSeq(text, 1, s3) \o SubSeq(text, s3 + 1, l) = SubSeq(text, 1, l)
  BY <1>a, ConcatAdjacentSubSeq
<1>7. SubSeq(text, 1, l) = text
  BY <1>1, SubSeqFull
<1> QED
  BY <1>3, <1>4, <1>5, <1>6, <1>7


-----------------------------------------------------------------------------
(* The text form of a message.                                             *)

LEMMA DelimiterFacts ==
  /\ Comma \in Seq(Chars) /\ Len(Comma) = 2 /\ Comma[1] = Cm /\ Comma[2] = Sp
  /\ Bracket \in Seq(Chars) /\ Len(Bracket) = 1 /\ Bracket[1] = "]"
  /\ Cm # Sp /\ Cm # "[" /\ Cm # "]" /\ Cm # "7" /\ Cm # "/"
  /\ Sp # "[" /\ Sp # "]" /\ Sp # "7" /\ Sp # "/"
<1>1. Comma = <<Cm, Sp>>
  BY Zenon DEF Comma, Cm, Sp
<1>2. Bracket = <<"]">>
  BY DEF Bracket
<1>3. /\ <<Cm, Sp>> \in Seq(Chars) /\ Len(<<Cm, Sp>>) = 2
      /\ <<Cm, Sp>>[1] = Cm /\ <<Cm, Sp>>[2] = Sp
  BY CharFacts
<1>4. <<"]">> \in Seq(Chars) /\ Len(<<"]">>) = 1 /\ <<"]">>[1] = "]"
  BY CharFacts
<1>5. /\ Cm # Sp /\ Cm # "[" /\ Cm # "]" /\ Cm # "7" /\ Cm # "/"
      /\ Sp # "[" /\ Sp # "]" /\ Sp # "7" /\ Sp # "/"
  BY Zenon DEF Cm, Sp
<1> QED
  BY <1>1, <1>2, <1>3, <1>4, <1>5

\* Concatenation, place by place.
LEMMA Joined ==
  ASSUME NEW s \in Seq(Chars), NEW t \in Seq(Chars),
         NEW l \in Nat, l = Len(s)
  PROVE  /\ s \o t \in Seq(Chars) /\ Len(s \o t) = l + Len(t)
         /\ \A i \in 1..l : (s \o t)[i] = s[i]
         /\ \A i \in 1..Len(t) : (s \o t)[l + i] = t[i]
<1>1. PICK v : v = s \o t
  OBVIOUS
<1>a. PICK k \in Nat : k = Len(t)
  BY LenProperties
<1>2. /\ v \in Seq(Chars) /\ Len(v) = l + k
      /\ \A i \in 1..(l + k) : v[i] = IF i <= l THEN s[i] ELSE t[i - l]
  BY <1>1, <1>a, ConcatProperties
<1>3. \A i \in 1..l : v[i] = s[i]
  BY <1>2
<1>4. ASSUME NEW i \in 1..k PROVE v[l + i] = t[i]
  <2>1. l + i \in 1..(l + k) /\ ~(l + i <= l) /\ l + i - l = i
    OBVIOUS
  <2> QED
    BY <1>2, <2>1
<1> QED
  BY <1>1, <1>a, <1>2, <1>3, <1>4

LEMMA JoinedOne ==
  ASSUME NEW s \in Seq(Chars), NEW t \in Seq(Chars),
         NEW l \in Nat, l = Len(s), Len(t) = 1
  PROVE  /\ s \o t \in Seq(Chars) /\ Len(s \o t) = l + 1
         /\ \A i \in 1..l : (s \o t)[i] = s[i]
         /\ (s \o t)[l + 1] = t[1]
<1>1. /\ s \o t \in Seq(Chars) /\ Len(s \o t) = l + Len(t)
      /\ \A i \in 1..l : (s \o t)[i] = s[i]
      /\ \A i \in 1..Len(t) : (s \o t)[l + i] = t[i]
  BY Joined
<1>2. 1 \in 1..Len(t)
  OBVIOUS
<1> QED
  BY <1>1, <1>2, Zenon

LEMMA JoinedTwo ==
  ASSUME NEW s \in Seq(Chars), NEW t \in Seq(Chars),
         NEW l \in Nat, l = Len(s), Len(t) = 2
  PROVE  /\ s \o t \in Seq(Chars) /\ Len(s \o t) = l + 2
         /\ \A i \in 1..l : (s \o t)[i] = s[i]
         /\ (s \o t)[l + 1] = t[1] /\ (s \o t)[l + 2] = t[2]
<1>1. /\ s \o t \in Seq(Chars) /\ Len(s \o t) = l + Len(t)
      /\ \A i \in 1..l : (s \o t)[i] = s[i]
      /\ \A i \in 1..Len(t) : (s \o t)[l + i] = t[i]
  BY Joined
<1>2. 1 \in 1..Len(t) /\ 2 \in 1..Len(t)
  OBVIOUS
<1> QED
  BY <1>1, <1>2, Zenon

LEMMA JoinedComma ==
  ASSUME NEW s \in Seq(Chars), NEW l \in Nat, l = Len(s)
  PROVE  /\ s \o Comma \in Seq(Chars) /\ Len(s \o Comma) = l + 2
         /\ \A i \in 1..l : (s \o Comma)[i] = s[i]
         /\ (s \o Comma)[l + 1] = Cm /\ (s \o Comma)[l + 2] = Sp
<1>1. PICK t : t = Comma
  OBVIOUS
<1>2. t \in Seq(Chars) /\ Len(t) = 2 /\ t[1] = Cm /\ t[2] = Sp
  BY <1>1, DelimiterFacts
<1>3. /\ s \o t \in Seq(Chars) /\ Len(s \o t) = l + 2
      /\ \A i \in 1..l : (s \o t)[i] = s[i]
      /\ (s \o t)[l + 1] = t[1] /\ (s \o t)[l + 2] = t[2]
  BY <1>2, JoinedTwo
<1> QED
  BY <1>1, <1>2, <1>3

LEMMA FilePathFacts ==
  /\ FilePath \in Seq(Chars) /\ Len(FilePath) = 1 /\ FilePath[1] = "/"
  /\ FilePath \o Bracket \in Seq(Chars) /\ Len(FilePath \o Bracket) = 2
  /\ (FilePath \o Bracket)[1] = "/" /\ (FilePath \o Bracket)[2] = "]"
<1>1. FilePath \in Seq(Chars) /\ Len(FilePath) = 1 /\ FilePath[1] = "/"
  BY CharFacts
<1>2. 1 \in Nat /\ 1 \in 1..1 /\ 1 + 1 = 2
  OBVIOUS
<1>3. /\ FilePath \o Bracket \in Seq(Chars) /\ Len(FilePath \o Bracket) = 1 + 1
      /\ (FilePath \o Bracket)[1] = FilePath[1]
      /\ (FilePath \o Bracket)[1 + 1] = Bracket[1]
  BY <1>1, <1>2, DelimiterFacts, JoinedOne
<1> QED
  BY <1>1, <1>2, <1>3, DelimiterFacts

LEMMA AfterFilePath ==
  ASSUME NEW r \in Seq(Chars)
  PROVE  FilePath \o r # <<>> /\ (FilePath \o r)[1] = "/"
<1>1. PICK s \in Seq(Chars), l \in Nat : s = FilePath /\ l = 1 /\ l = Len(s)
  BY FilePathFacts
<1>2. PICK k \in Nat : k = Len(r)
  BY LenProperties
<1>3. PICK v : v = s \o r
  OBVIOUS
<1>4. Len(v) = l + k /\ \A i \in 1..l : v[i] = s[i]
  <2>1. l = Len(s)
    BY <1>1
  <2>2. /\ s \o r \in Seq(Chars) /\ Len(s \o r) = l + Len(r)
        /\ \A i \in 1..l : (s \o r)[i] = s[i]
        /\ \A i \in 1..Len(r) : (s \o r)[l + i] = r[i]
    BY <2>1, Joined
  <2> QED
    BY <1>2, <1>3, <2>2
<1>5. Len(v) # 0 /\ v[1] = "/"
  BY <1>1, <1>4, FilePathFacts
<1> QED
  BY <1>1, <1>3, <1>5, EmptySeq

\* The message for payload u.
Buff(u) == <<"[">> \o u \o Comma \o <<Pid>> \o Comma \o FilePath \o Bracket

LEMMA BuffTable ==
  ASSUME NEW u \in Seq(Chars), NEW n \in Nat, n = Len(u)
  PROVE  /\ Buff(u) \in Seq(Chars) /\ Len(Buff(u)) = n + 8
         /\ Buff(u)[1] = "["
         /\ \A k \in 1..n : Buff(u)[k + 1] = u[k]
         /\ Buff(u)[n + 2] = Cm /\ Buff(u)[n + 3] = Sp
         /\ Buff(u)[n + 4] = Pid
         /\ Buff(u)[n + 5] = Cm /\ Buff(u)[n + 6] = Sp
         /\ Buff(u)[n + 7] = "/" /\ Buff(u)[n + 8] = "]"
<1>1. PICK b1 : b1 = <<"[">> \o u
  OBVIOUS
<1>2. PICK b2 : b2 = b1 \o Comma
  OBVIOUS
<1>a. PICK p : p = <<Pid>>
  OBVIOUS
<1>3. PICK b3 : b3 = b2 \o p
  OBVIOUS
<1>4. PICK b4 : b4 = b3 \o Comma
  OBVIOUS
<1>5. PICK b5 : b5 = b4 \o FilePath
  OBVIOUS
<1>6. PICK b6 : b6 = b5 \o Bracket
  OBVIOUS
<1>7. Buff(u) = b6
  BY <1>1, <1>a, <1>2, <1>3, <1>4, <1>5, <1>6 DEF Buff
<1>8. /\ <<"[">> \in Seq(Chars) /\ Len(<<"[">>) = 1 /\ <<"[">>[1] = "["
      /\ p \in Seq(Chars) /\ Len(p) = 1 /\ p[1] = Pid
      /\ FilePath \in Seq(Chars) /\ Len(FilePath) = 1 /\ FilePath[1] = "/"
  BY <1>a, CharFacts
<1>9. /\ b1 \in Seq(Chars) /\ Len(b1) = 1 + n /\ b1[1] = "["
      /\ \A k \in 1..n : b1[1 + k] = u[k]
  <2>1. PICK q : q = <<"[">>
    OBVIOUS
  <2>2. q \in Seq(Chars) /\ Len(q) = 1 /\ q[1] = "[" /\ 1 \in Nat /\ 1 = Len(q)
    BY <2>1, <1>8
  <2>3. b1 = q \o u
    BY <2>1, <1>1
  <2>4. /\ q \o u \in Seq(Chars) /\ Len(q \o u) = 1 + Len(u)
        /\ \A k \in 1..1 : (q \o u)[k] = q[k]
        /\ \A k \in 1..Len(u) : (q \o u)[1 + k] = u[k]
    BY <2>2, Joined, Zenon
  <2> QED
    BY <2>2, <2>3, <2>4
<1>10. PICK n1 \in Nat : n1 = n + 1 /\ n1 = Len(b1)
  BY <1>9
<1>11. /\ b2 \in Seq(Chars) /\ Len(b2) = n1 + 2
       /\ \A k \in 1..n1 : b2[k] = b1[k]
       /\ b2[n1 + 1] = Cm /\ b2[n1 + 2] = Sp
  <2>1. b1 \in Seq(Chars) /\ n1 \in Nat /\ n1 = Len(b1)
    BY <1>9, <1>10
  <2>2. /\ b1 \o Comma \in Seq(Chars) /\ Len(b1 \o Comma) = n1 + 2
        /\ \A i \in 1..n1 : (b1 \o Comma)[i] = b1[i]
        /\ (b1 \o Comma)[n1 + 1] = Cm /\ (b1 \o Comma)[n1 + 2] = Sp
    BY <2>1, JoinedComma, Zenon
  <2> QED
    BY <1>2, <2>2
<1>12. PICK n2 \in Nat : n2 = n + 3 /\ n2 = Len(b2)
  BY <1>10, <1>11
<1>13. /\ b3 \in Seq(Chars) /\ Len(b3) = n2 + 1
       /\ \A k \in 1..n2 : b3[k] = b2[k]
       /\ b3[n2 + 1] = Pid
  <2>1. b2 \in Seq(Chars) /\ n2 \in Nat /\ n2 = Len(b2)
    BY <1>11, <1>12
  <2>3. p \in Seq(Chars) /\ Len(p) = 1 /\ p[1] = Pid
    BY <1>8
  <2>2. /\ b2 \o p \in Seq(Chars) /\ Len(b2 \o p) = n2 + 1
        /\ \A i \in 1..n2 : (b2 \o p)[i] = b2[i]
        /\ (b2 \o p)[n2 + 1] = p[1]
    BY <2>1, <2>3, JoinedOne
  <2> QED
    BY <1>3, <2>2, <2>3
<1>14. PICK n3 \in Nat : n3 = n + 4 /\ n3 = Len(b3)
  BY <1>12, <1>13
<1>15. /\ b4 \in Seq(Chars) /\ Len(b4) = n3 + 2
       /\ \A k \in 1..n3 : b4[k] = b3[k]
       /\ b4[n3 + 1] = Cm /\ b4[n3 + 2] = Sp
  <2>1. b3 \in Seq(Chars) /\ n3 \in Nat /\ n3 = Len(b3)
    BY <1>13, <1>14
  <2>2. /\ b3 \o Comma \in Seq(Chars) /\ Len(b3 \o Comma) = n3 + 2
        /\ \A i \in 1..n3 : (b3 \o Comma)[i] = b3[i]
        /\ (b3 \o Comma)[n3 + 1] = Cm /\ (b3 \o Comma)[n3 + 2] = Sp
    BY <2>1, JoinedComma, Zenon
  <2> QED
    BY <1>4, <2>2
<1>16. PICK n4 \in Nat : n4 = n + 6 /\ n4 = Len(b4)
  BY <1>14, <1>15
<1>17. /\ b5 \in Seq(Chars) /\ Len(b5) = n4 + 1
       /\ \A k \in 1..n4 : b5[k] = b4[k]
       /\ b5[n4 + 1] = "/"
  <2>1. b4 \in Seq(Chars) /\ n4 \in Nat /\ n4 = Len(b4)
    BY <1>15, <1>16
  <2>2. FilePath \in Seq(Chars) /\ Len(FilePath) = 1 /\ FilePath[1] = "/"
    BY <1>8
  <2>3. /\ b4 \o FilePath \in Seq(Chars) /\ Len(b4 \o FilePath) = n4 + 1
        /\ \A i \in 1..n4 : (b4 \o FilePath)[i] = b4[i]
        /\ (b4 \o FilePath)[n4 + 1] = FilePath[1]
    BY <2>1, <2>2, JoinedOne
  <2> QED
    BY <1>5, <2>2, <2>3
<1>18. PICK n5 \in Nat : n5 = n + 7 /\ n5 = Len(b5)
  BY <1>16, <1>17
<1>19. /\ b6 \in Seq(Chars) /\ Len(b6) = n5 + 1
       /\ \A k \in 1..n5 : b6[k] = b5[k]
       /\ b6[n5 + 1] = "]"
  BY <1>6, <1>17, <1>18, DelimiterFacts, JoinedOne
<1>20. \A k \in 1..n1 : b6[k] = b1[k]
  BY <1>10, <1>11, <1>12, <1>13, <1>14, <1>15, <1>16, <1>17, <1>18, <1>19, SMTT(60)
<1>21. ASSUME NEW k \in 1..n PROVE b6[k + 1] = u[k]
  <2>1. 1 + k = k + 1 /\ k + 1 \in 1..n1
    BY <1>10
  <2> QED
    BY <1>9, <1>20, <2>1
<1>22. b6[1] = "["
  BY <1>9, <1>10, <1>20
<1>23. b6[n + 2] = Cm /\ b6[n + 3] = Sp
  <2>1. n1 + 1 = n + 2 /\ n1 + 2 = n + 3
    BY <1>10
  <2>2. b2[n + 2] = Cm /\ b2[n + 3] = Sp
    BY <1>11, <2>1
  <2>3. /\ n + 2 \in 1..n2 /\ n + 2 \in 1..n3 /\ n + 2 \in 1..n4 /\ n + 2 \in 1..n5
        /\ n + 3 \in 1..n2 /\ n + 3 \in 1..n3 /\ n + 3 \in 1..n4 /\ n + 3 \in 1..n5
    BY <1>12, <1>14, <1>16, <1>18
  <2>4. b6[n + 2] = b2[n + 2]
    BY <1>13, <1>15, <1>17, <1>19, <2>3, Zenon
  <2>5. b6[n + 3] = b2[n + 3]
    BY <1>13, <1>15, <1>17, <1>19, <2>3, Zenon
  <2> QED
    BY <2>2, <2>4, <2>5, Zenon
<1>24. b6[n + 4] = Pid
  <2>1. n2 + 1 = n + 4
    BY <1>12
  <2>2. n + 4 \in 1..n3 /\ n + 4 \in 1..n4 /\ n + 4 \in 1..n5
    BY <1>14, <1>16, <1>18
  <2> QED
    BY <1>13, <1>15, <1>17, <1>19, <2>1, <2>2
<1>25. b6[n + 5] = Cm /\ b6[n + 6] = Sp
  <2>1. n3 + 1 = n + 5 /\ n3 + 2 = n + 6
    BY <1>14
  <2>2. b4[n + 5] = Cm /\ b4[n + 6] = Sp
    BY <1>15, <2>1
  <2>3. n + 5 \in 1..n4 /\ n + 5 \in 1..n5 /\ n + 6 \in 1..n4 /\ n + 6 \in 1..n5
    BY <1>16, <1>18
  <2> QED
    BY <1>17, <1>19, <2>2, <2>3
<1>26. b6[n + 7] = "/"
  <2>1. n4 + 1 = n + 7 /\ n + 7 \in 1..n5
    BY <1>16, <1>18
  <2> QED
    BY <1>17, <1>19, <2>1
<1>27. b6[n + 8] = "]" /\ Len(b6) = n + 8
  <2>1. n5 + 1 = n + 8
    BY <1>18
  <2> QED
    BY <1>19, <2>1
<1> QED
  BY <1>7, <1>19, <1>21, <1>22, <1>23, <1>24, <1>25, <1>26, <1>27

\* t occurs in s at j.
Occurs(s, t, j) ==
  j \in 1..(Len(s) - Len(t) + 1) /\ SubSeq(s, j, j + Len(t) - 1) = t

LEMMA StrstrFacts ==
  ASSUME NEW s, NEW t, Len(s) \in Nat, Len(t) \in Nat, NEW j, Occurs(s, t, j)
  PROVE  /\ Occurs(s, t, Strstr(s, t)) /\ Strstr(s, t) \in 1..j
         /\ \A k : Occurs(s, t, k) => Strstr(s, t) <= k
<1>1. PICK T : T = {k \in 1..(Len(s) - Len(t) + 1) : SubSeq(s, k, k + Len(t) - 1) = t}
  OBVIOUS
<1>2. \A k : Occurs(s, t, k) <=> k \in T
  BY <1>1 DEF Occurs
<1>3. T \in SUBSET Nat /\ T # {} /\ j \in T /\ \A k \in T : k >= 1
  <2>1. \A k \in T : k \in Nat /\ k >= 1
    BY <1>1
  <2> QED
    BY <1>2, <2>1
<1>4. Min(T) \in T /\ \A k \in T : Min(T) <= k
  BY <1>3, MinFacts
<1>5. Strstr(s, t) = Min(T)
  BY <1>1 DEF Strstr
<1>6. Min(T) \in 1..j
  <2>1. PICK x : x = Min(T)
    OBVIOUS
  <2>2. x \in Nat /\ x >= 1 /\ x <= j /\ j \in Nat
    BY <1>3, <1>4, <2>1
  <2> QED
    BY <2>1, <2>2
<1> QED
  BY <1>2, <1>4, <1>5, <1>6

LEMMA CommaAt ==
  ASSUME NEW s \in Seq(Chars), NEW j \in Nat \ {0}
  PROVE  Occurs(s, Comma, j) <=> j + 1 <= Len(s) /\ s[j] = Cm /\ s[j + 1] = Sp
<1>1. PICK l \in Nat : l = Len(s)
  BY LenProperties
<1>2. CASE j + 1 <= l
  <2>1. \A k \in j..(j + 1) : s[k] \in Chars
    BY <1>1, <1>2, ElementOfSeq, LenProperties
  <2>2. PICK v : v = SubSeq(s, j, j + 1)
    OBVIOUS
  <2>3. /\ v \in Seq(Chars) /\ Len(v) = 2 /\ v[1] = s[j] /\ v[2] = s[j + 1]
    <3>1. j \in Int /\ j + 1 \in Int /\ j <= j + 1
      OBVIOUS
    <3>2. /\ v \in Seq(Chars) /\ Len(v) = (j + 1) - j + 1
          /\ \A i \in 1..((j + 1) - j + 1) : v[i] = s[j + i - 1]
      BY <2>1, <2>2, <3>1, SubSeqProperties
    <3>3. (j + 1) - j + 1 = 2 /\ j + 1 - 1 = j /\ j + 2 - 1 = j + 1
      OBVIOUS
    <3> QED
      BY <3>2, <3>3
  <2>4. v = Comma <=> v[1] = Cm /\ v[2] = Sp
    <3>1. ASSUME v[1] = Cm, v[2] = Sp PROVE v = Comma
      <4>1. \A i \in 1..Len(v) : v[i] = Comma[i]
        BY <2>3, <3>1, DelimiterFacts
      <4> QED
        BY <2>3, <4>1, DelimiterFacts, SeqEqual
    <3> QED
      BY <3>1, DelimiterFacts
  <2>5. Occurs(s, Comma, j) <=> v = Comma
    <3>1. j + 2 - 1 = j + 1 /\ j \in 1..(l - 2 + 1)
      BY <1>2
    <3> QED
      BY <1>1, <2>2, <3>1, DelimiterFacts DEF Occurs
  <2> QED
    BY <1>1, <1>2, <2>3, <2>4, <2>5
<1>3. CASE ~(j + 1 <= l)
  <2>1. j \notin 1..(l - 2 + 1)
    BY <1>3
  <2> QED
    BY <1>1, <1>3, <2>1, DelimiterFacts DEF Occurs
<1> QED
  BY <1>2, <1>3

LEMMA BracketAt ==
  ASSUME NEW s \in Seq(Chars), NEW j \in Nat \ {0}
  PROVE  Occurs(s, Bracket, j) <=> j <= Len(s) /\ s[j] = "]"
<1>1. PICK l \in Nat : l = Len(s)
  BY LenProperties
<1>2. CASE j <= l
  <2>1. \A k \in j..j : s[k] \in Chars
    BY <1>1, <1>2, ElementOfSeq, LenProperties
  <2>2. PICK v : v = SubSeq(s, j, j)
    OBVIOUS
  <2>3. /\ v \in Seq(Chars) /\ Len(v) = 1 /\ v[1] = s[j]
    <3>1. j \in Int /\ j <= j
      OBVIOUS
    <3>2. /\ v \in Seq(Chars) /\ Len(v) = j - j + 1
          /\ \A i \in 1..(j - j + 1) : v[i] = s[j + i - 1]
      BY <2>1, <2>2, <3>1, SubSeqProperties
    <3>3. j - j + 1 = 1 /\ j + 1 - 1 = j
      OBVIOUS
    <3> QED
      BY <3>2, <3>3, SMTT(60)
  <2>4. v = Bracket <=> v[1] = "]"
    <3>1. ASSUME v[1] = "]" PROVE v = Bracket
      <4>1. \A i \in 1..Len(v) : v[i] = Bracket[i]
        BY <2>3, <3>1, DelimiterFacts
      <4> QED
        BY <2>3, <4>1, DelimiterFacts, SeqEqual
    <3> QED
      BY <3>1, DelimiterFacts
  <2>5. Occurs(s, Bracket, j) <=> v = Bracket
    <3>1. j + 1 - 1 = j /\ j \in 1..(l - 1 + 1)
      BY <1>2
    <3> QED
      BY <1>1, <2>2, <3>1, DelimiterFacts DEF Occurs
  <2> QED
    BY <1>1, <1>2, <2>3, <2>4, <2>5
<1>3. CASE ~(j <= l)
  <2>1. j \notin 1..(l - 1 + 1)
    BY <1>3
  <2> QED
    BY <1>1, <1>3, <2>1, DelimiterFacts DEF Occurs
<1> QED
  BY <1>2, <1>3

\* What DeserializeMessage looks for.
FirstOf(b) == Strstr(b, Comma)
SecondOf(b) == FirstOf(b) + Strstr(SubSeq(b, FirstOf(b) + 1, Len(b)), Comma)
LastOf(b) == Strstr(b, Bracket)

\* What follows the first comma.
LEMMA Suffix ==
  ASSUME NEW s \in Seq(Chars), NEW l \in Nat, l = Len(s), NEW f \in 1..l
  PROVE  /\ SubSeq(s, f + 1, l) \in Seq(Chars)
         /\ Len(SubSeq(s, f + 1, l)) = l - f
         /\ \A k \in 1..(l - f) : SubSeq(s, f + 1, l)[k] = s[f + k]
<1>1. \A k \in (f + 1)..l : s[k] \in Chars
  BY ElementOfSeq
<1>2. /\ SubSeq(s, f + 1, l) \in Seq(Chars)
      /\ Len(SubSeq(s, f + 1, l)) = IF f + 1 <= l THEN l - (f + 1) + 1 ELSE 0
      /\ \A i \in 1..(l - (f + 1) + 1) : SubSeq(s, f + 1, l)[i] = s[(f + 1) + i - 1]
  <2>1. f + 1 \in Int /\ l \in Int
    OBVIOUS
  <2> QED
    BY <1>1, <2>1, SubSeqProperties
<1>3. l - (f + 1) + 1 = l - f
  OBVIOUS
<1> QED
  BY <1>2, <1>3

\* In every message the delimiters are found inside the text.
LEMMA Found ==
  ASSUME NEW u \in Seq(Chars), NEW n \in Nat, n = Len(u)
  PROVE  /\ FirstOf(Buff(u)) \in 1..(n + 2)
         /\ SecondOf(Buff(u)) \in (FirstOf(Buff(u)) + 1)..(n + 5)
         /\ LastOf(Buff(u)) \in 1..(n + 8)
<1>1. PICK b : b = Buff(u)
  OBVIOUS
<1>2. /\ b \in Seq(Chars) /\ Len(b) = n + 8
      /\ b[n + 2] = Cm /\ b[n + 3] = Sp
      /\ b[n + 5] = Cm /\ b[n + 6] = Sp /\ b[n + 8] = "]"
  BY <1>1, BuffTable
<1>3. Occurs(b, Comma, n + 2)
  <2>1. n + 2 \in Nat \ {0} /\ n + 2 + 1 = n + 3 /\ n + 3 <= n + 8
    OBVIOUS
  <2> QED
    BY <1>2, <2>1, CommaAt
<1>4. PICK f \in 1..(n + 2) : f = FirstOf(b)
  <2>1. Len(b) \in Nat /\ Len(Comma) \in Nat
    BY <1>2, DelimiterFacts
  <2> QED
    BY <1>3, <2>1, StrstrFacts DEF FirstOf
<1>5. PICK s : s = SubSeq(b, f + 1, n + 8)
  OBVIOUS
<1>6. /\ s \in Seq(Chars) /\ Len(s) = n + 8 - f
      /\ \A k \in 1..(n + 8 - f) : s[k] = b[f + k]
  <2>1. n + 8 \in Nat /\ f \in 1..(n + 8)
    OBVIOUS
  <2> QED
    BY <1>2, <1>5, <2>1, Suffix
<1>7. Occurs(s, Comma, n + 5 - f)
  <2>1. /\ n + 5 - f \in Nat \ {0} /\ n + 5 - f + 1 <= n + 8 - f
        /\ n + 5 - f \in 1..(n + 8 - f) /\ n + 5 - f + 1 \in 1..(n + 8 - f)
        /\ f + (n + 5 - f) = n + 5 /\ f + (n + 5 - f + 1) = n + 6
    OBVIOUS
  <2>2. s[n + 5 - f] = Cm /\ s[n + 5 - f + 1] = Sp
    BY <1>2, <1>6, <2>1
  <2>3. PICK k \in Nat \ {0} : k = n + 5 - f
    BY <2>1
  <2> QED
    BY <1>6, <2>1, <2>2, <2>3, CommaAt
<1>8. Strstr(s, Comma) \in 1..(n + 5 - f)
  <2>1. Len(s) \in Nat /\ Len(Comma) \in Nat
    BY <1>6, DelimiterFacts
  <2> QED
    BY <1>7, <2>1, StrstrFacts
<1>9. SecondOf(b) = f + Strstr(s, Comma)
  BY <1>2, <1>4, <1>5 DEF SecondOf
<1>10. SecondOf(b) \in (f + 1)..(n + 5)
  BY <1>8, <1>9
<1>11. Occurs(b, Bracket, n + 8)
  <2>1. n + 8 \in Nat \ {0} /\ n + 8 <= n + 8
    OBVIOUS
  <2> QED
    BY <1>2, <2>1, BracketAt
<1>12. LastOf(b) \in 1..(n + 8)
  <2>1. Len(b) \in Nat /\ Len(Bracket) \in Nat
    BY <1>2, DelimiterFacts
  <2> QED
    BY <1>11, <2>1, StrstrFacts DEF LastOf
<1> QED
  BY <1>1, <1>4, <1>10, <1>12

LEMMA HasCommaAt ==
  ASSUME NEW u \in Seq(Chars), NEW n \in Nat, n = Len(u)
  PROVE  HasComma(u) <=> \E j \in 1..(n - 1) : u[j] = Cm /\ u[j + 1] = Sp
<1> SUFFICES ASSUME NEW j \in 1..(n - 1)
             PROVE  SubSeq(u, j, j + 1) = Comma <=> u[j] = Cm /\ u[j + 1] = Sp
  BY DEF HasComma
<1>1. j \in Nat \ {0} /\ j + 1 <= Len(u) /\ j \in 1..(n - 2 + 1) /\ j + 2 - 1 = j + 1
  OBVIOUS
<1>2. Occurs(u, Comma, j) <=> u[j] = Cm /\ u[j + 1] = Sp
  BY <1>1, CommaAt
<1>3. Occurs(u, Comma, j) <=> SubSeq(u, j, j + 1) = Comma
  BY <1>1, DelimiterFacts DEF Occurs
<1> QED
  BY <1>2, <1>3

\* A payload without ", ", perhaps with a "," at its end, ends where the first
\* ", " is found, and the path begins where it should; a "]" in the payload is
\* found before both or not at all.
LEMMA FoundPlain ==
  ASSUME NEW u \in Seq(Chars), NEW n \in Nat, n = Len(u), ~HasComma(u)
  PROVE  /\ FirstOf(Buff(u)) = n + 2 /\ SecondOf(Buff(u)) = n + 5
         /\ LastOf(Buff(u)) \in 1..(n + 1) \/ LastOf(Buff(u)) = n + 8
         /\ ~HasBracket(u) => LastOf(Buff(u)) = n + 8
<1>1. PICK b : b = Buff(u)
  OBVIOUS
<1>2. /\ b \in Seq(Chars) /\ Len(b) = n + 8 /\ b[1] = "["
      /\ \A k \in 1..n : b[k + 1] = u[k]
      /\ b[n + 2] = Cm /\ b[n + 3] = Sp /\ b[n + 4] = "7"
      /\ b[n + 5] = Cm /\ b[n + 6] = Sp
      /\ b[n + 7] = "/" /\ b[n + 8] = "]"
  BY <1>1, BuffTable DEF Pid
<1>3. /\ ~HasBracket(u) => \A j \in 1..n : u[j] # "]"
      /\ \A j \in 1..(n - 1) : ~(u[j] = Cm /\ u[j + 1] = Sp)
  <2>1. DOMAIN u = 1..n
    BY LenProperties
  <2> QED
    BY <2>1, HasCommaAt DEF HasBracket
<1>4. /\ Occurs(b, Comma, FirstOf(b)) /\ FirstOf(b) \in 1..(n + 2)
      /\ SecondOf(b) \in (FirstOf(b) + 1)..(n + 5)
      /\ Occurs(b, Bracket, LastOf(b)) /\ LastOf(b) \in 1..(n + 8)
  <2>1. Len(b) \in Nat /\ Len(Comma) \in Nat /\ Len(Bracket) \in Nat
    BY <1>2, DelimiterFacts
  <2>2. Occurs(b, Comma, n + 2)
    <3>1. n + 2 \in Nat \ {0} /\ n + 2 + 1 = n + 3 /\ n + 3 <= n + 8
      OBVIOUS
    <3> QED
      BY <1>2, <3>1, CommaAt
  <2>3. Occurs(b, Bracket, n + 8)
    <3>1. n + 8 \in Nat \ {0} /\ n + 8 <= n + 8
      OBVIOUS
    <3> QED
      BY <1>2, <3>1, BracketAt
  <2> QED
    BY <1>1, <2>1, <2>2, <2>3, Found, StrstrFacts DEF FirstOf, LastOf
<1>5. PICK f \in 1..(n + 2) : f = FirstOf(b)
  BY <1>4
<1>6. f = n + 2
  <2>1. b[f] = Cm /\ b[f + 1] = Sp
    BY <1>2, <1>4, <1>5, CommaAt
  <2>2. f # 1
    BY <1>2, <2>1, DelimiterFacts
  <2>3. ASSUME f \in 2..n PROVE FALSE
    <3>1. f - 1 \in 1..(n - 1) /\ f - 1 + 1 = f /\ f - 1 \in 1..n /\ f \in 1..n
      BY <2>3
    <3>2. u[f - 1] = Cm /\ u[f] = Sp
      BY <1>2, <2>1, <3>1
    <3> QED
      BY <1>3, <3>1, <3>2
  <2>4. f # n + 1
    <3>1. n + 1 + 1 = n + 2
      OBVIOUS
    <3> QED
      BY <1>2, <2>1, <3>1, DelimiterFacts
  <2> QED
    BY <2>2, <2>3, <2>4
<1>7. SecondOf(b) = n + 5
  <2>1. PICK s : s = SubSeq(b, f + 1, n + 8)
    OBVIOUS
  <2>2. /\ s \in Seq(Chars) /\ Len(s) = n + 8 - f
        /\ \A k \in 1..(n + 8 - f) : s[k] = b[f + k]
    <3>1. PICK e \in Nat : e = n + 8 /\ f \in 1..e
      OBVIOUS
    <3> QED
      BY <1>2, <2>1, <3>1, Suffix
  <2>3. Len(s) = 6 /\ s[1] = Sp /\ s[2] = "7" /\ s[3] = Cm /\ s[4] = Sp
    <3>1. /\ n + 8 - f = 6 /\ f + 1 = n + 3 /\ f + 2 = n + 4 /\ f + 3 = n + 5
          /\ f + 4 = n + 6
      BY <1>6
    <3>2. /\ Len(s) = 6 /\ s[1] = b[f + 1] /\ s[2] = b[f + 2]
          /\ s[3] = b[f + 3] /\ s[4] = b[f + 4]
      BY <2>2, <3>1, SMTT(60)
    <3>3. b[n + 3] = Sp /\ b[n + 4] = "7" /\ b[n + 5] = Cm /\ b[n + 6] = Sp
      BY <1>2, Zenon DEF Pid
    <3> QED
      BY <3>1, <3>2, <3>3, Zenon
  <2>4. Occurs(s, Comma, 3)
    <3>1. 3 \in Nat \ {0} /\ 3 + 1 = 4
      OBVIOUS
    <3> QED
      BY <2>2, <2>3, <3>1, CommaAt
  <2>5. PICK k \in 1..3 : k = Strstr(s, Comma) /\ Occurs(s, Comma, k)
    <3>1. Len(s) \in Nat /\ Len(Comma) \in Nat
      BY <2>3, DelimiterFacts
    <3> QED
      BY <2>4, <3>1, StrstrFacts
  <2>6. s[k] = Cm
    BY <2>2, <2>5, CommaAt
  <2>7. k = 3
    <3>1. k = 1 \/ k = 2 \/ k = 3
      OBVIOUS
    <3> QED
      BY <2>3, <2>6, <3>1, DelimiterFacts
  <2>8. SecondOf(b) = f + k
    BY <1>2, <1>5, <2>1, <2>5 DEF SecondOf
  <2> QED
    BY <1>6, <2>7, <2>8
<1>8. PICK l \in 1..(n + 8) : l = LastOf(b)
  BY <1>4
<1>9. l \in 1..(n + 1) \/ l = n + 8
  <2>1. b[l] = "]"
    BY <1>2, <1>4, <1>8, BracketAt
  <2>2. l # n + 2 /\ l # n + 3 /\ l # n + 4 /\ l # n + 5 /\ l # n + 6 /\ l # n + 7
    BY <1>2, <2>1, DelimiterFacts
  <2> QED
    BY <2>2
<1>10. ASSUME ~HasBracket(u) PROVE l = n + 8
  <2>1. b[l] = "]"
    BY <1>2, <1>4, <1>8, BracketAt
  <2>2. l # 1
    BY <1>2, <2>1
  <2>3. ASSUME l \in 2..(n + 1) PROVE FALSE
    <3>1. l - 1 \in 1..n /\ l - 1 + 1 = l
      BY <2>3
    <3>2. b[l - 1 + 1] = u[l - 1]
      BY <1>2, <3>1
    <3>3. u[l - 1] # "]"
      BY <1>3, <1>10, <3>1
    <3> QED
      BY <2>1, <3>1, <3>2, <3>3
  <2> QED
    BY <1>9, <2>2, <2>3
<1> QED
  BY <1>1, <1>5, <1>6, <1>7, <1>8, <1>9, <1>10

-----------------------------------------------------------------------------
(* Slots.                                                                  *)

LEMMA SubSeqType ==
  ASSUME NEW s \in Seq(Chars), NEW m \in Nat \ {0}, NEW n \in Int, n <= Len(s)
  PROVE  SubSeq(s, m, n) \in Seq(Chars)
<1>1. \A k \in m..n : s[k] \in Chars
  BY LenProperties, ElementOfSeq
<1> QED
  BY <1>1, SubSeqProperties

LEMMA OneElement ==
  ASSUME NEW s \in Seq(Chars), NEW j \in 1..Len(s)
  PROVE  SubSeq(s, j, j) = <<s[j]>>
<1>1. j \in Int /\ \A k \in j..j : s[k] \in Chars
  BY LenProperties, ElementOfSeq
<1>2. PICK v : v = SubSeq(s, j, j)
  OBVIOUS
<1>3. /\ v \in Seq(Chars) /\ Len(v) = IF j <= j THEN j - j + 1 ELSE 0
      /\ \A i \in 1..(j - j + 1) : v[i] = s[j + i - 1]
  BY <1>1, <1>2, SubSeqProperties
<1>4. Len(v) = 1 /\ v[1] = s[j]
  <2>1. j <= j /\ j - j + 1 = 1 /\ j + 1 - 1 = j
    BY <1>1
  <2> QED
    BY <1>3, <2>1
<1>5. PICK w : w = <<s[j]>>
  OBVIOUS
<1>6. w \in Seq(Chars) /\ Len(w) = 1 /\ w[1] = s[j]
  BY <1>1, <1>5
<1>7. v = w
  <2>1. \A i \in 1..Len(v) : v[i] = w[i]
    BY <1>4, <1>6
  <2> QED
    BY <1>3, <1>4, <1>6, <2>1, SeqEqual
<1> QED
  BY <1>2, <1>5, <1>7

LEMMA AtoiType == \A t : Atoi(t) \in {0, PidNumber}
BY Zenon DEF Atoi

\* The digit alone is the number.
LEMMA AtoiOfPid == Atoi(<<Pid>>) = PidNumber
<1>1. ASSUME NEW t, NEW c, DOMAIN t = 1..1, t[1] = Pid
      PROVE  {j \in DOMAIN t : /\ t[j] = Pid
                               /\ \A k \in 1..(j - 1) : t[k] = c} # {}
  <2>1. 1 \in DOMAIN t /\ \A k \in 1..(1 - 1) : FALSE
    BY <1>1
  <2> QED
    BY <1>1, <2>1
<1>2. PICK t : t = <<Pid>> /\ DOMAIN t = 1..1 /\ t[1] = Pid
  <2>1. PICK t : t = <<Pid>>
    OBVIOUS
  <2>2. t \in Seq({Pid}) /\ Len(t) = 1 /\ t[1] = Pid
    BY <2>1
  <2>3. DOMAIN t = 1..Len(t)
    BY <2>2, LenProperties
  <2> QED
    BY <2>1, <2>2, <2>3
<1>3. {j \in DOMAIN t : t[j] = Pid /\ \A k \in 1..(j - 1) : t[k] = Sp} # {}
  BY <1>1, <1>2
<1>4. Atoi(t) = IF {j \in DOMAIN t : t[j] = Pid /\ \A k \in 1..(j - 1) : t[k] = Sp} = {}
                THEN 0 ELSE PidNumber
  BY Zenon DEF Atoi, Sp
<1> QED
  BY <1>2, <1>3, <1>4

LEMMA PayloadStringType ==
  ASSUME NEW slot \in Slots
  PROVE  PayloadString(slot) \in Seq(Chars)
<1>1. slot.payload \in Seq(Chars) /\ slot.path \in Seq(Chars)
  BY DEF Slots
<1>2. <<>> \in Seq(Chars)
  BY EmptySeq
<1> QED
  BY <1>1, <1>2, ConcatProperties DEF PayloadString

\* What is stored stays within payload[].
LEMMA StoreFacts ==
  ASSUME NEW slot \in Slots, NEW t \in Seq(Chars)
  PROVE  /\ StorePayload(slot, t) \in Slots
         /\ Len(StorePayload(slot, t).payload) <= PayloadSize
<1>1. PICK l \in Nat : l = Len(t)
  BY LenProperties
<1>2. PayloadSize \in Nat \ {0}
  BY MessagesAssumption
<1>3. PICK m \in Nat : m = Min({PayloadSize, Len(t)}) /\ m <= PayloadSize /\ m <= l
  BY <1>1, <1>2, MinOfTwo
<1>4. PICK p \in Seq(Chars) : p = SubSeq(t, 1, m) /\ Len(p) <= PayloadSize
  <2>1. \A k \in 1..m : t[k] \in Chars
    BY <1>1, <1>3, ElementOfSeq
  <2>2. PICK p : p = SubSeq(t, 1, m)
    OBVIOUS
  <2>3. p \in Seq(Chars) /\ Len(p) = IF 1 <= m THEN m - 1 + 1 ELSE 0
    <3>1. 1 \in Int /\ m \in Int
      OBVIOUS
    <3> QED
      BY <2>1, <2>2, <3>1, SubSeqProperties
  <2>4. Len(p) = m
    BY <2>3
  <2> QED
    BY <1>3, <2>2, <2>3, <2>4
<1>5. PICK r \in Seq(Chars) :
        r = IF Len(t) < PayloadSize THEN slot.path
            ELSE SubSeq(t, PayloadSize + 1, Len(t))
  <2>1. slot.path \in Seq(Chars)
    BY DEF Slots
  <2>2. SubSeq(t, PayloadSize + 1, Len(t)) \in Seq(Chars)
    <3>1. PayloadSize + 1 \in Nat \ {0} /\ Len(t) \in Int /\ Len(t) <= Len(t)
      BY <1>1, <1>2
    <3> QED
      BY <3>1, SubSeqType
  <2> QED
    BY <2>1, <2>2
<1>6. StorePayload(slot, t) = [slot EXCEPT !.payload = p, !.path = r]
  BY <1>3, <1>4, <1>5 DEF StorePayload
<1> QED
  BY <1>4, <1>5, <1>6 DEF Slots

\* A message is taken apart into a slot, whatever its text and whatever the slot
\* held.
LEMMA DeserializeType ==
  ASSUME NEW u \in Seq(Chars), NEW slot \in Slots
  PROVE  /\ DeserializeMessage(Buff(u), slot) \in Slots
         /\ Len(DeserializeMessage(Buff(u), slot).payload) <= PayloadSize
<1>1. PICK n \in Nat : n = Len(u)
  BY LenProperties
<1>2. PICK b \in Seq(Chars) : b = Buff(u) /\ Len(b) = n + 8
  BY <1>1, BuffTable
<1>3. PICK f \in 1..(n + 2), s \in 1..(n + 5), l \in 1..(n + 8) :
        f = FirstOf(b) /\ s = SecondOf(b) /\ l = LastOf(b)
  <2>1. /\ FirstOf(b) \in 1..(n + 2)
        /\ SecondOf(b) \in (FirstOf(b) + 1)..(n + 5)
        /\ LastOf(b) \in 1..(n + 8)
    BY <1>1, <1>2, Found
  <2>2. SecondOf(b) \in 1..(n + 5)
    BY <2>1
  <2> QED
    BY <2>1, <2>2
<1>4. PICK e \in Int : e = (IF l < s THEN Len(b) ELSE l - 1) /\ e <= n + 8
  BY <1>2
<1>5. PICK t \in Seq(Chars) : t = PayloadString(slot) \o SubSeq(b, 2, f - 1)
  <2>1. SubSeq(b, 2, f - 1) \in Seq(Chars)
    <3>1. 2 \in Nat \ {0} /\ f - 1 \in Int /\ f - 1 <= Len(b)
      BY <1>2
    <3> QED
      BY <3>1, SubSeqType
  <2> QED
    BY <2>1, PayloadStringType, ConcatProperties
<1>6. PICK r \in Seq(Chars) : r = SubSeq(b, s + 2, e)
  <2>1. s + 2 \in Nat \ {0} /\ e <= Len(b)
    BY <1>2, <1>4
  <2> QED
    BY <2>1, SubSeqType
<1>7. PICK stored \in Slots :
        stored = StorePayload(slot, t) /\ Len(stored.payload) <= PayloadSize
  BY StoreFacts
<1>8. PICK p \in {0, PidNumber} : p = Atoi(SubSeq(b, f + 2, s - 1))
  BY AtoiType
<1>9. DeserializeMessage(b, slot) =
        [stored EXCEPT !.PID = p, !.path = @ \o r]
  BY <1>3, <1>4, <1>5, <1>6, <1>7, <1>8
     DEF DeserializeMessage, FirstOf, SecondOf, LastOf
<1>10. stored.path \o r \in Seq(Chars)
  BY ConcatProperties DEF Slots
<1>11. [stored EXCEPT !.PID = p, !.path = @ \o r] =
         [stored EXCEPT !.PID = p, !.path = stored.path \o r]
  BY DEF Slots
<1> QED
  BY <1>2, <1>7, <1>9, <1>10, <1>11 DEF Slots

\* A payload without ", " is stored whole in a clean slot, and its path begins
\* with that of the file; a "]" only lets the path's own bracket follow it.
LEMMA DeserializePlain ==
  ASSUME NEW u \in Seq(Chars), ~HasComma(u)
  PROVE  \E r \in {FilePath, FilePath \o Bracket} :
           /\ ~HasBracket(u) => r = FilePath
           /\ DeserializeMessage(Buff(u), EmptySlot) =
                [StorePayload(EmptySlot, u) EXCEPT !.PID = PidNumber, !.path = @ \o r]
<1>1. PICK n \in Nat : n = Len(u)
  BY LenProperties
<1>2. PICK b \in Seq(Chars) :
        /\ b = Buff(u) /\ Len(b) = n + 8
        /\ \A k \in 1..n : b[k + 1] = u[k]
        /\ b[n + 4] = Pid /\ b[n + 7] = "/" /\ b[n + 8] = "]"
  BY <1>1, BuffTable
<1>3. /\ FirstOf(b) = n + 2 /\ SecondOf(b) = n + 5
      /\ LastOf(b) \in 1..(n + 1) \/ LastOf(b) = n + 8
      /\ ~HasBracket(u) => LastOf(b) = n + 8
  BY <1>1, <1>2, FoundPlain
<1>a. PICK f, g, l : f = FirstOf(b) /\ g = SecondOf(b) /\ l = LastOf(b)
  OBVIOUS
<1>b. /\ f = n + 2 /\ g = n + 5 /\ l \in Nat
      /\ l < g \/ l = n + 8
      /\ ~HasBracket(u) => l = n + 8
  BY <1>3, <1>a
<1>c. PICK e : e = IF l < g THEN Len(b) ELSE l - 1
  OBVIOUS
<1>4. SubSeq(b, 2, f - 1) = u
  <2>1. \A k \in 2..(n + 1) : b[k] \in Chars
    BY <1>2, ElementOfSeq
  <2>2. PICK v : v = SubSeq(b, 2, n + 1)
    OBVIOUS
  <2>3. /\ v \in Seq(Chars)
        /\ Len(v) = IF 2 <= n + 1 THEN n + 1 - 2 + 1 ELSE 0
        /\ \A i \in 1..(n + 1 - 2 + 1) : v[i] = b[2 + i - 1]
    <3>1. 2 \in Int /\ n + 1 \in Int
      OBVIOUS
    <3> QED
      BY <2>1, <2>2, <3>1, SubSeqProperties
  <2>4. Len(v) = n /\ n + 1 - 2 + 1 = n
    BY <2>3
  <2>5. ASSUME NEW i \in 1..n PROVE v[i] = u[i]
    <3>1. 2 + i - 1 = i + 1
      OBVIOUS
    <3> QED
      BY <1>2, <2>3, <2>4, <3>1
  <2>6. v = u
    BY <1>1, <2>3, <2>4, <2>5, SeqEqual
  <2>7. f - 1 = n + 1
    BY <1>b
  <2> QED
    BY <2>2, <2>6, <2>7
<1>5. SubSeq(b, f + 2, g - 1) = <<Pid>>
  <2>1. f + 2 = n + 4 /\ g - 1 = n + 4 /\ n + 4 \in 1..Len(b)
    BY <1>2, <1>b
  <2>2. SubSeq(b, n + 4, n + 4) = <<b[n + 4]>>
    BY <2>1, OneElement
  <2> QED
    BY <1>2, <2>1, <2>2
<1>6. /\ SubSeq(b, g + 2, e) \in {FilePath, FilePath \o Bracket}
      /\ ~HasBracket(u) => SubSeq(b, g + 2, e) = FilePath
  <2>1. g + 2 = n + 7 /\ n + 7 \in 1..Len(b)
    BY <1>2, <1>b
  <2>2. CASE l = n + 8
    <3>1. e = n + 7
      BY <1>b, <1>c, <2>2
    <3>2. SubSeq(b, n + 7, n + 7) = <<b[n + 7]>>
      BY <2>1, OneElement
    <3> QED
      BY <1>2, <2>1, <3>1, <3>2, CharFacts
  <2>3. CASE l < g
    <3>1. e = n + 8 /\ HasBracket(u)
      BY <1>2, <1>b, <1>c, <2>3
    <3>2. PICK v : v = SubSeq(b, n + 7, n + 8)
      OBVIOUS
    <3>3. v \in Seq(Chars) /\ Len(v) = 2 /\ v[1] = b[n + 7] /\ v[2] = b[n + 8]
      <4>1. n + 7 \in Int /\ n + 8 \in Int /\ n + 7 <= n + 8
        OBVIOUS
      <4>2. \A k \in (n + 7)..(n + 8) : b[k] \in Chars
        BY <1>2, <2>1, ElementOfSeq, LenProperties
      <4>3. /\ v \in Seq(Chars) /\ Len(v) = (n + 8) - (n + 7) + 1
            /\ \A i \in 1..((n + 8) - (n + 7) + 1) : v[i] = b[n + 7 + i - 1]
        BY <3>2, <4>1, <4>2, SubSeqProperties
      <4>4. (n + 8) - (n + 7) + 1 = 2 /\ n + 7 + 1 - 1 = n + 7 /\ n + 7 + 2 - 1 = n + 8
        OBVIOUS
      <4> QED
        BY <4>3, <4>4
    <3>4. PICK w : w = FilePath \o Bracket
      OBVIOUS
    <3>5. w \in Seq(Chars) /\ Len(w) = 2 /\ w[1] = "/" /\ w[2] = "]"
      BY <3>4, FilePathFacts
    <3>6. v = w
      <4>1. \A i \in 1..Len(v) : v[i] = w[i]
        BY <1>2, <3>3, <3>5
      <4> QED
        BY <3>3, <3>5, <4>1, SeqEqual
    <3> QED
      BY <2>1, <3>1, <3>2, <3>4, <3>6
  <2> QED
    BY <1>b, <2>2, <2>3
<1>7. PayloadSize \in Nat \ {0}
  BY MessagesAssumption
<1>8. PayloadString(EmptySlot) \o u = u
  <2>1. EmptySlot.payload = <<>> /\ Len(<<>>) = 0
    BY DEF EmptySlot
  <2>2. PayloadString(EmptySlot) = <<>> \o <<>>
    BY <1>7, <2>1 DEF PayloadString
  <2>3. <<>> \in Seq(Chars)
    BY EmptySeq
  <2>4. <<>> \o <<>> = <<>> /\ <<>> \o u = u
    BY <2>3, ConcatEmptySeq
  <2> QED
    BY <2>2, <2>4
<1>12. PICK r : r = SubSeq(b, g + 2, e)
  OBVIOUS
<1>13. PICK t : t = PayloadString(EmptySlot) \o SubSeq(b, 2, f - 1)
  OBVIOUS
<1>14. PICK p : p = Atoi(SubSeq(b, f + 2, g - 1))
  OBVIOUS
<1>15. PICK stored : stored = StorePayload(EmptySlot, t)
  OBVIOUS
<1>16. DeserializeMessage(b, EmptySlot) = [stored EXCEPT !.PID = p, !.path = @ \o r]
  BY <1>a, <1>c, <1>12, <1>13, <1>14, <1>15
     DEF DeserializeMessage, FirstOf, SecondOf, LastOf
<1>17. t = u /\ p = PidNumber
  <2>1. t = u
    BY <1>4, <1>8, <1>13
  <2>2. p = PidNumber
    BY <1>5, <1>14, AtoiOfPid
  <2> QED
    BY <2>1, <2>2
<1> QED
  BY <1>2, <1>6, <1>12, <1>15, <1>16, <1>17



-----------------------------------------------------------------------------
(* What the children send.                                                 *)

LEMMA AlphabetTexts == \A t \in Seq(Alphabet) : t \in Seq(Chars)
BY CharFacts, SeqMonotonic

LEMMA EmptySlotFacts ==
  EmptySlot \in Slots /\ EmptySlot.medium = -1 /\ EmptySlot.payload = <<>>
<1>1. <<>> \in Seq(Chars)
  BY EmptySeq
<1> QED
  BY <1>1 DEF EmptySlot, Slots

LEMMA ShortPayload ==
  ASSUME NEW slot, slot.payload \in Seq(Chars), Len(slot.payload) < PayloadSize
  PROVE  PayloadString(slot) = slot.payload
<1>1. slot.payload \o <<>> = slot.payload
  BY ConcatEmptySeq
<1> QED
  BY <1>1 DEF PayloadString

\* What payload[] reads as on the way: a part without room for its terminator
\* has the path behind it.
Sent(t) == IF Len(t) < PayloadSize THEN t ELSE t \o FilePath

\* No part is longer than payload[].
LEMMA PartFits ==
  ASSUME NEW text \in Seq(Alphabet), Len(text) <= MaxLen, NEW m \in Media
  PROVE  Len(FilePart(text, m)) <= PayloadSize
<1>1. PICK l \in Nat : l = Len(text)
  BY LenProperties
<1>2. PartLen(l, m) <= l \div 4 + 1 /\ PartLen(l, m) = l \div 4 + (IF l % 4 >= m + 1 THEN 1 ELSE 0)
  BY DEF PartLen, Media
<1>3. MaxLen <= 4 * PayloadSize - 1 /\ PayloadSize \in Nat /\ MaxLen \in Nat
  BY MessagesAssumption DEF MaxLen
<1>4. l = 4 * (l \div 4) + (l % 4) /\ l \div 4 \in Nat /\ l % 4 \in 0..3
  OBVIOUS
<1>5. l \div 4 <= PayloadSize - 1
  <2>1. PICK q \in Nat, r \in 0..3 : q = l \div 4 /\ l = 4 * q + r
    BY <1>4
  <2> QED
    BY <1>1, <1>3, <2>1
<1> QED
  BY <1>1, <1>2, <1>3, <1>4, <1>5, FilePartFacts

\* A part stored in a clean slot.
LEMMA StoreSent ==
  ASSUME NEW t \in Seq(Chars), Len(t) <= PayloadSize
  PROVE  /\ StorePayload(EmptySlot, t).payload = t
         /\ StorePayload(EmptySlot, Sent(t)).payload = t
         /\ StorePayload(EmptySlot, Sent(t)).path =
              IF Len(t) < PayloadSize THEN <<>> ELSE FilePath
<1>1. PICK n \in Nat : n = Len(t)
  BY LenProperties
<1>2. PICK P \in Nat : P = PayloadSize
  BY MessagesAssumption
<1>3. SubSeq(t, 1, n) = t
  BY <1>1, SubSeqFull
<1>4. StorePayload(EmptySlot, t).payload = t
  <2>1. Min({P, n}) = n
    BY <1>1, <1>2, MinOfTwo
  <2> QED
    BY <1>1, <1>2, <1>3, <2>1 DEF StorePayload, EmptySlot
<1>5. CASE n < P
  BY <1>1, <1>2, <1>4, <1>5 DEF Sent, StorePayload, EmptySlot
<1>6. CASE n = P
  <2>1. PICK u : u = t \o FilePath
    OBVIOUS
  <2>2. /\ u \in Seq(Chars) /\ Len(u) = n + 1
        /\ \A i \in 1..n : u[i] = t[i]
        /\ u[n + 1] = "/"
    BY <1>1, <2>1, FilePathFacts, JoinedOne
  <2>3. SubSeq(u, 1, n) = t
    <3>1. PICK v : v = SubSeq(u, 1, n)
      OBVIOUS
    <3>2. /\ v \in Seq(Chars) /\ Len(v) = IF 1 <= n THEN n - 1 + 1 ELSE 0
          /\ \A i \in 1..(n - 1 + 1) : v[i] = u[1 + i - 1]
      <4>1. \A k \in 1..n : u[k] \in Chars
        BY <2>2, ElementOfSeq, LenProperties
      <4>2. 1 \in Int /\ n \in Int
        OBVIOUS
      <4> QED
        BY <3>1, <4>1, <4>2, SubSeqProperties
    <3>3. Len(v) = n
      BY <3>2
    <3>4. \A i \in 1..Len(v) : v[i] = t[i]
      <4>1. \A i \in 1..n : 1 + i - 1 = i /\ i \in 1..(n - 1 + 1)
        OBVIOUS
      <4> QED
        BY <2>2, <3>2, <3>3, <4>1
    <3> QED
      BY <1>1, <3>1, <3>2, <3>3, <3>4, SeqEqual
  <2>4. SubSeq(u, n + 1, n + 1) = FilePath
    <3>1. n + 1 \in 1..Len(u)
      BY <2>2
    <3> QED
      BY <2>2, <3>1, OneElement, CharFacts
  <2>5. Min({P, n + 1}) = n
    BY <1>6, MinOfTwo
  <2>6. ~(n + 1 < P) /\ P + 1 = n + 1
    BY <1>6
  <2>7. StorePayload(EmptySlot, u) = [EmptySlot EXCEPT !.payload = t, !.path = FilePath]
    BY <1>2, <2>2, <2>3, <2>4, <2>5, <2>6 DEF StorePayload
  <2>8. Sent(t) = u
    BY <1>1, <1>2, <1>6, <2>1 DEF Sent
  <2>9. /\ StorePayload(EmptySlot, u).payload = t
        /\ StorePayload(EmptySlot, u).path = FilePath
    BY <2>7 DEF EmptySlot
  <2>10. ~(Len(t) < PayloadSize)
    BY <1>1, <1>2, <1>6
  <2> QED
    BY <1>4, <2>8, <2>9, <2>10, Zenon
<1> QED
  BY <1>1, <1>2, <1>5, <1>6

LEMMA BuildFacts ==
  ASSUME NEW text \in Seq(Alphabet), Len(text) <= MaxLen, NEW m \in Media
  PROVE  /\ BuildMessage(text, m) \in Slots
         /\ BuildMessage(text, m).path = FilePath
         /\ PayloadString(BuildMessage(text, m)) = Sent(FilePart(text, m))
<1>1. PICK t \in Seq(Chars) : t = FilePart(text, m) /\ Len(t) <= PayloadSize
  BY AlphabetTexts, FilePartFacts, PartFits
<1>2. PICK stored \in Slots : stored = StorePayload(EmptySlot, t) /\ stored.payload = t
  BY <1>1, EmptySlotFacts, StoreFacts, StoreSent
<1>3. PICK msg : msg = [stored EXCEPT !.PID = PidNumber, !.path = FilePath]
  OBVIOUS
<1>4. BuildMessage(text, m) = msg
  BY <1>1, <1>2, <1>3 DEF BuildMessage
<1>5. msg \in Slots /\ msg.path = FilePath /\ msg.payload = t
  BY <1>2, <1>3, CharFacts DEF Slots
<1>6. PayloadString(msg) = Sent(t)
  <2>1. t \o <<>> = t
    BY ConcatEmptySeq
  <2> QED
    BY <1>5, <2>1 DEF PayloadString, Sent
<1> QED
  BY <1>1, <1>4, <1>5, <1>6

\* A message that a child sends has the form of Buff.
LEMMA SerializedFacts ==
  ASSUME content \in Seq(Alphabet), Len(content) <= MaxLen, NEW m \in Media
  PROVE  /\ Sent(FilePart(content, m)) \in Seq(Chars)
         /\ Serialized(m) = Buff(Sent(FilePart(content, m)))
<1>1. PICK u : u = PayloadString(BuildMessage(content, m))
  OBVIOUS
<1>2. u \in Seq(Chars)
  BY <1>1, BuildFacts, PayloadStringType
<1>3. Serialized(m) = Buff(u)
  BY <1>1, BuildFacts DEF Serialized, SerializeMessage, Buff
<1> QED
  BY <1>1, <1>2, <1>3, BuildFacts

\* The path behind a part brings no delimiter of its own.
LEMMA SentPlain ==
  ASSUME NEW t \in Seq(Chars)
  PROVE  /\ ~HasComma(t) => ~HasComma(Sent(t))
         /\ ~HasBracket(t) => ~HasBracket(Sent(t))
<1>1. PICK n \in Nat : n = Len(t)
  BY LenProperties
<1>2. CASE Len(t) < PayloadSize
  BY <1>2 DEF Sent
<1>3. CASE ~(Len(t) < PayloadSize)
  <2>1. PICK u : u = t \o FilePath /\ u = Sent(t)
    BY <1>3 DEF Sent
  <2>2. /\ u \in Seq(Chars) /\ Len(u) = n + 1
        /\ \A i \in 1..n : u[i] = t[i]
        /\ u[n + 1] = "/"
    <3>1. /\ t \o FilePath \in Seq(Chars) /\ Len(t \o FilePath) = n + 1
          /\ \A i \in 1..n : (t \o FilePath)[i] = t[i]
          /\ (t \o FilePath)[n + 1] = FilePath[1]
      BY <1>1, FilePathFacts, JoinedOne
    <3> QED
      BY <2>1, <3>1, FilePathFacts
  <2>3. ASSUME HasComma(u) PROVE HasComma(t)
    <3>1. PICK j \in 1..(n + 1 - 1) : u[j] = Cm /\ u[j + 1] = Sp
      BY <2>2, <2>3, HasCommaAt
    <3>2. j # n
      BY <2>2, <3>1, DelimiterFacts
    <3>3. j \in 1..(n - 1) /\ j \in 1..n /\ j + 1 \in 1..n
      BY <3>2
    <3>4. t[j] = Cm /\ t[j + 1] = Sp
      BY <2>2, <3>1, <3>3
    <3> QED
      BY <1>1, <3>3, <3>4, HasCommaAt
  <2>4. ASSUME HasBracket(u) PROVE HasBracket(t)
    <3>1. PICK j \in 1..(n + 1) : u[j] = "]"
      BY <2>2, <2>4, LenProperties DEF HasBracket
    <3>2. j # n + 1
      BY <2>2, <3>1
    <3>3. j \in 1..n
      BY <3>2
    <3> QED
      BY <1>1, <2>2, <3>1, <3>3, LenProperties DEF HasBracket
  <2> QED
    BY <2>1, <2>3, <2>4
<1> QED
  BY <1>2, <1>3

\* What the server makes of the message on medium m, in a slot.
TakenIn(slot, m) == [DeserializeMessage(Serialized(m), slot) EXCEPT !.medium = m]
Taken(m) == TakenIn(EmptySlot, m)

LEMMA TakenFacts ==
  ASSUME content \in Seq(Alphabet), Len(content) <= MaxLen, NEW m \in Media,
         NEW slot \in Slots
  PROVE  /\ TakenIn(slot, m) \in Slots /\ TakenIn(slot, m).medium = m
         /\ Len(TakenIn(slot, m).payload) <= PayloadSize
<1>1. PICK u \in Seq(Chars) : Serialized(m) = Buff(u)
  BY SerializedFacts
<1>2. PICK d \in Slots :
        d = DeserializeMessage(Serialized(m), slot) /\ Len(d.payload) <= PayloadSize
  BY <1>1, DeserializeType
<1>3. m \in -1..3
  BY DEF Media
<1> QED
  BY <1>2, <1>3 DEF TakenIn, Slots

\* A part without ", " leaves the file's path in front; without "]" as well the
\* message is what it was, but for the path behind a full part.
LEMMA TakenPlain ==
  ASSUME content \in Seq(Alphabet), Len(content) <= MaxLen, NEW m \in Media,
         NEW t, t = FilePart(content, m), ~HasComma(t)
  PROVE  /\ NamesOutput(Taken(m).path)
         /\ ~HasBracket(t) =>
              /\ Taken(m).PID = PidNumber /\ Taken(m).medium = m
              /\ Taken(m).payload = t
              /\ Taken(m).path = IF Len(t) < PayloadSize THEN FilePath
                                 ELSE FilePath \o FilePath
<1>1. t \in Seq(Chars) /\ Len(t) <= PayloadSize
  BY AlphabetTexts, FilePartFacts, PartFits
<1>2. PICK u \in Seq(Chars) : u = Sent(t) /\ Serialized(m) = Buff(u)
  BY SerializedFacts
<1>3. ~HasComma(u) /\ (~HasBracket(t) => ~HasBracket(u))
  BY <1>1, <1>2, SentPlain
<1>4. PICK stored \in Slots :
        /\ stored = StorePayload(EmptySlot, u)
        /\ stored.payload = t
        /\ stored.path = IF Len(t) < PayloadSize THEN <<>> ELSE FilePath
  BY <1>1, <1>2, StoreSent, EmptySlotFacts, StoreFacts
<1>5. PICK r \in {FilePath, FilePath \o Bracket} :
        /\ ~HasBracket(t) => r = FilePath
        /\ DeserializeMessage(Serialized(m), EmptySlot) =
             [stored EXCEPT !.PID = PidNumber, !.path = stored.path \o r]
  <2>1. PICK r \in {FilePath, FilePath \o Bracket} :
          /\ ~HasBracket(u) => r = FilePath
          /\ DeserializeMessage(Buff(u), EmptySlot) =
               [StorePayload(EmptySlot, u) EXCEPT !.PID = PidNumber, !.path = @ \o r]
    BY <1>3, DeserializePlain
  <2> QED
    BY <1>2, <1>3, <1>4, <2>1 DEF Slots
<1>6. PICK q : q = stored.path \o r
  OBVIOUS
<1>7. PICK w : w = Taken(m)
  OBVIOUS
<1>8. w.PID = PidNumber /\ w.payload = t /\ w.path = q /\ w.medium = m
  BY <1>4, <1>5, <1>6, <1>7 DEF Taken, TakenIn, Slots
<1>9. r \in Seq(Chars) /\ (Len(r) = 1 \/ Len(r) = 2) /\ r[1] = "/"
  <2>1. CASE r = FilePath
    BY <2>1, FilePathFacts
  <2>2. CASE r = FilePath \o Bracket
    BY <2>2, FilePathFacts, Zenon
  <2> QED
    BY <2>1, <2>2
<1>10. q # <<>> /\ q[1] = "/"
  <2>1. CASE stored.path = <<>>
    <3>1. q = r
      BY <1>6, <1>9, <2>1, ConcatEmptySeq
    <3> QED
      BY <1>9, <3>1, EmptySeq
  <2>2. CASE stored.path = FilePath
    BY <1>6, <1>9, <2>2, AfterFilePath
  <2> QED
    BY <1>4, <2>1, <2>2
<1>11. ASSUME ~HasBracket(t)
       PROVE  q = IF Len(t) < PayloadSize THEN FilePath ELSE FilePath \o FilePath
  BY <1>4, <1>5, <1>6, <1>11, CharFacts, ConcatEmptySeq
<1>12. NamesOutput(q)
  BY <1>10, CharFacts DEF NamesOutput
<1> QED
  BY <1>7, <1>8, <1>11, <1>12

-----------------------------------------------------------------------------
(* The invariant.                                                          *)

Types ==
  /\ phase \in {"idle", "receive", "failed"}
  /\ content \in Seq(Alphabet) /\ Len(content) <= MaxLen
  /\ pending \subseteq Media
  /\ messages \in [Media -> Slots] /\ out \in [Media -> Slots]
  /\ \A m \in Media : Len(messages[m].payload) <= PayloadSize
  /\ reused \in BOOLEAN
  /\ round \in 0..MaxRounds

\* The first elements of the array are the messages taken in this round, each of
\* a medium of its own, and the others are still as malloc returned them.
TakenInv ==
  /\ \A k \in 0..(NextFree - 1) :
       /\ messages[k].medium \in Media \ pending
       /\ ~reused => messages[k] = Taken(messages[k].medium)
  /\ \A m \in Media \ pending :
       \E k \in 0..(NextFree - 1) : messages[k].medium = m
  /\ ~reused => \A k \in NextFree..3 : messages[k] = EmptySlot

Inv ==
  /\ Types
  /\ phase = "receive" => TakenInv
  /\ Written /\ ~reused => \A m \in Media : out[m] = Taken(m)
  /\ phase = "failed" /\ ~reused => ~NamesOutput(Taken(0).path)

LEMMA FreeFacts ==
  ASSUME NEW P \in SUBSET Media
  PROVE  /\ IsFiniteSet(P) /\ Cardinality(P) \in 0..4
         /\ P # {} => Cardinality(P) \in 1..4
         /\ \A m \in P : Cardinality(P \ {m}) = Cardinality(P) - 1
<1>1. IsFiniteSet(Media) /\ Cardinality(Media) = 4
  <2>1. 0 \in Int /\ 3 \in Int
    OBVIOUS
  <2>2. IsFiniteSet(0..3) /\ Cardinality(0..3) = IF 0 > 3 THEN 0 ELSE 3 - 0 + 1
    BY <2>1, FS_Interval
  <2> QED
    BY <2>2 DEF Media
<1>2. IsFiniteSet(P) /\ Cardinality(P) <= 4
  BY <1>1, FS_Subset
<1>3. Cardinality(P) \in Nat
  BY <1>2, FS_CardinalityType
<1>4. P # {} => Cardinality(P) # 0
  BY <1>2, FS_EmptySet
<1>5. \A m \in P : Cardinality(P \ {m}) = Cardinality(P) - 1
  BY <1>2, FS_RemoveElement
<1> QED
  BY <1>2, <1>3, <1>4, <1>5

LEMMA EmptyArrayFacts ==
  /\ EmptyArray \in [Media -> Slots]
  /\ \A m \in Media : EmptyArray[m] = EmptySlot /\ Len(EmptyArray[m].payload) <= PayloadSize
<1>1. \A m \in Media : EmptyArray[m] = EmptySlot
  BY DEF EmptyArray
<1>2. Len(EmptySlot.payload) <= PayloadSize
  BY EmptySlotFacts, EmptySeq, MessagesAssumption
<1> QED
  BY <1>1, <1>2, EmptySlotFacts DEF EmptyArray

LEMMA InitInv == Init => Inv
<1> SUFFICES ASSUME Init PROVE Inv
  OBVIOUS
<1>1. <<>> \in Seq(Alphabet) /\ Len(<<>>) = 0
  BY EmptySeq
<1>2. MaxLen \in Nat /\ MaxRounds \in Nat
  BY MessagesAssumption DEF MaxLen
<1>3. Types
  <2>1. content \in Seq(Alphabet) /\ Len(content) <= MaxLen
    BY <1>1, <1>2 DEF Init
  <2>2. /\ messages \in [Media -> Slots] /\ out \in [Media -> Slots]
        /\ \A m \in Media : Len(messages[m].payload) <= PayloadSize
    BY EmptyArrayFacts DEF Init
  <2>3. phase = "idle" /\ pending = {} /\ reused = FALSE /\ round = 0
    BY Zenon DEF Init
  <2>4. 0 \in 0..MaxRounds
    BY <1>2
  <2> QED
    BY <2>1, <2>2, <2>3, <2>4 DEF Types
<1> QED
  BY <1>3 DEF Init, Inv, Written

LEMMA StartRoundInv == ASSUME Inv, NEW text \in Texts, StartRound(text) PROVE Inv'
<1>1. text \in Seq(Alphabet) /\ Len(text) <= MaxLen
  BY MessagesAssumption
<1>2. /\ messages' \in [Media -> Slots]
      /\ \A m \in Media : Len(messages'[m].payload) <= PayloadSize
      /\ ~reused' => \A m \in Media : messages'[m] = EmptySlot
      /\ reused' \in BOOLEAN
  BY EmptyArrayFacts DEF StartRound, Inv, Types
<1>3. Types'
  BY <1>1, <1>2, MessagesAssumption DEF StartRound, Inv, Types
<1>4. NextFree' = 0
  <2>1. IsFiniteSet(0..3) /\ Cardinality(0..3) = 4
    <3>1. 0 \in Int /\ 3 \in Int
      OBVIOUS
    <3>2. IsFiniteSet(0..3) /\ Cardinality(0..3) = IF 0 > 3 THEN 0 ELSE 3 - 0 + 1
      BY <3>1, FS_Interval
    <3> QED
      BY <3>2
  <2> QED
    BY <2>1 DEF NextFree, StartRound, Media
<1>5. TakenInv'
  BY <1>2, <1>4 DEF TakenInv, StartRound, Media
<1> QED
  BY <1>3, <1>5 DEF Inv, Written, StartRound

LEMMA DeliverInv == ASSUME Inv, NEW m \in Media, Deliver(m) PROVE Inv'
<1>1. /\ phase = "receive" /\ m \in pending /\ pending' = pending \ {m}
      /\ UNCHANGED <<phase, content, out, reused, round>>
  BY DEF Deliver
<1>2. PICK n \in 0..3 : n = NextFree /\ NextFree' = n + 1
  <2>1. Cardinality(pending) \in 1..4 /\ Cardinality(pending \ {m}) = Cardinality(pending) - 1
    BY <1>1, FreeFacts DEF Inv, Types
  <2> QED
    BY <1>1, <2>1 DEF NextFree
<1>3. /\ n \in Media /\ messages \in [Media -> Slots]
      /\ content \in Seq(Alphabet) /\ Len(content) <= MaxLen
  BY <1>2 DEF Inv, Types, Media
<1>4. /\ messages' \in [Media -> Slots]
      /\ messages'[n] = TakenIn(messages[n], m)
      /\ \A k \in Media : k # n => messages'[k] = messages[k]
  <2>1. messages' = [messages EXCEPT ![n] = TakenIn(messages[n], m)]
    BY <1>2 DEF Deliver, TakenIn
  <2>2. TakenIn(messages[n], m) \in Slots
    BY <1>3, TakenFacts
  <2> QED
    BY <1>3, <2>1, <2>2
<1>5. messages'[n].medium = m /\ Len(messages'[n].payload) <= PayloadSize
  BY <1>3, <1>4, TakenFacts
<1>6. Types'
  BY <1>1, <1>4, <1>5 DEF Inv, Types
<1>7. \A k : Taken(messages[k].medium)' = Taken(messages'[k].medium)
  BY <1>1 DEF Taken, TakenIn, Serialized
<1>8. TakenInv
  BY <1>1 DEF Inv
<1>9. ~reused => messages'[n] = Taken(m)
  BY <1>2, <1>4, <1>8 DEF TakenInv, Taken
<1>10. ASSUME NEW k \in 0..(NextFree' - 1)
       PROVE  /\ messages'[k].medium \in Media \ pending'
              /\ (~reused => messages[k] = Taken(messages[k].medium))'
  <2>1. CASE k = n
    <3>1. m \in Media \ pending'
      BY <1>1
    <3> QED
      BY <1>1, <1>5, <1>7, <1>9, <2>1, <3>1
  <2>2. CASE k # n
    <3>1. k \in 0..(NextFree - 1) /\ k \in Media
      BY <1>2, <2>2 DEF Media
    <3>2. /\ messages[k].medium \in Media \ pending
          /\ ~reused => messages[k] = Taken(messages[k].medium)
      BY <1>8, <3>1 DEF TakenInv
    <3>3. messages'[k] = messages[k]
      BY <1>4, <2>2, <3>1
    <3>4. Taken(messages'[k].medium) = Taken(messages[k].medium)
      BY <3>3
    <3> QED
      BY <1>1, <1>7, <3>2, <3>3, <3>4
  <2> QED
    BY <2>1, <2>2
<1>11. ASSUME NEW l \in Media \ pending'
       PROVE  \E k \in 0..(NextFree' - 1) : messages'[k].medium = l
  <2>1. CASE l = m
    BY <1>2, <1>5, <2>1
  <2>2. CASE l # m
    <3>1. PICK k \in 0..(NextFree - 1) : messages[k].medium = l
      BY <1>1, <1>8, <2>2 DEF TakenInv
    <3>2. k # n /\ k \in Media /\ k \in 0..(NextFree' - 1)
      BY <1>2, <3>1 DEF Media
    <3> QED
      BY <1>4, <3>1, <3>2
  <2> QED
    BY <2>1, <2>2
<1>12. ~reused' => \A k \in NextFree'..3 : messages'[k] = EmptySlot
  <2> SUFFICES ASSUME ~reused, NEW k \in (n + 1)..3 PROVE messages'[k] = EmptySlot
    BY <1>1, <1>2
  <2>1. k # n /\ k \in Media /\ k \in NextFree..3
    BY <1>2 DEF Media
  <2> QED
    BY <1>4, <1>8, <2>1 DEF TakenInv
<1>13. TakenInv'
  BY <1>10, <1>11, <1>12 DEF TakenInv
<1> QED
  BY <1>1, <1>6, <1>13 DEF Inv, Written

LEMMA SortedFacts ==
  ASSUME Inv, phase = "receive", pending = {}, messages' = Sorted,
         UNCHANGED <<content, pending, reused, round>>
  PROVE  /\ messages' \in [Media -> Slots]
         /\ \A m \in Media : Len(messages'[m].payload) <= PayloadSize
         /\ ~reused => \A m \in Media : messages'[m] = Taken(m)
         /\ \A m \in Media : Taken(m)' = Taken(m)
<1>1. TakenInv /\ NextFree = 4
  <2>1. Cardinality({}) = 0
    BY FS_EmptySet
  <2> QED
    BY <2>1 DEF Inv, NextFree
<1>2. ASSUME NEW m \in Media
      PROVE  \E k \in Media : messages'[m] = messages[k] /\ messages[k].medium = m
  <2> DEFINE M == {messages[k] : k \in Media}
  <2>1. messages'[m] = CHOOSE s \in M : s.medium = m
    BY DEF Sorted
  <2>2. \E s \in M : s.medium = m
    <3>1. PICK k \in 0..(NextFree - 1) : messages[k].medium = m
      BY <1>1 DEF TakenInv
    <3>2. k \in Media
      BY <1>1, <3>1 DEF Media
    <3> QED
      BY <3>1, <3>2
  <2>3. messages'[m] \in M /\ messages'[m].medium = m
    <3> HIDE DEF M
    <3> QED
      BY <2>1, <2>2
  <2> QED
    BY <2>3
<1>3. /\ messages' \in [Media -> Slots]
      /\ \A m \in Media : Len(messages'[m].payload) <= PayloadSize
  <2>1. messages' = [m \in Media |-> messages'[m]]
    BY DEF Sorted
  <2>2. \A m \in Media : messages'[m] \in Slots /\ Len(messages'[m].payload) <= PayloadSize
    BY <1>2 DEF Inv, Types
  <2> QED
    BY <2>1, <2>2
<1>4. ASSUME ~reused, NEW m \in Media PROVE messages'[m] = Taken(m)
  <2>1. PICK k \in Media : messages'[m] = messages[k] /\ messages[k].medium = m
    BY <1>2
  <2>2. k \in 0..(NextFree - 1)
    BY <1>1 DEF Media
  <2> QED
    BY <1>1, <1>4, <2>1, <2>2 DEF TakenInv
<1>5. \A m \in Media : Taken(m)' = Taken(m)
  BY DEF Taken, TakenIn, Serialized
<1> QED
  BY <1>3, <1>4, <1>5

LEMMA WriteOutFileInv == ASSUME Inv, WriteOutFile PROVE Inv'
<1>1. /\ phase = "receive" /\ pending = {} /\ messages' = Sorted
      /\ UNCHANGED <<content, pending, reused, round>>
      /\ phase' = "idle" /\ out' = messages'
  BY DEF WriteOutFile
<1>2. /\ messages' \in [Media -> Slots]
      /\ \A m \in Media : Len(messages'[m].payload) <= PayloadSize
      /\ ~reused => \A m \in Media : messages'[m] = Taken(m)'
  BY <1>1, SortedFacts
<1>3. Types'
  BY <1>1, <1>2 DEF Inv, Types
<1> QED
  BY <1>1, <1>2, <1>3 DEF Inv, Written

LEMMA OutputFailsInv == ASSUME Inv, OutputFails PROVE Inv'
<1>1. /\ phase = "receive" /\ pending = {} /\ messages' = Sorted
      /\ ~NamesOutput(messages'[0].path)
      /\ UNCHANGED <<content, pending, out, reused, round>>
      /\ phase' = "failed"
  BY DEF OutputFails
<1>2. /\ messages' \in [Media -> Slots]
      /\ \A m \in Media : Len(messages'[m].payload) <= PayloadSize
      /\ ~reused => \A m \in Media : messages'[m] = Taken(m)'
  BY <1>1, SortedFacts
<1>3. Types'
  BY <1>1, <1>2 DEF Inv, Types
<1>4. ~reused => ~NamesOutput(Taken(0)'.path)
  <2>1. 0 \in Media
    BY DEF Media
  <2>2. ~reused => messages'[0] = Taken(0)'
    BY <1>2, <2>1
  <2> QED
    BY <1>1, <2>2
<1>5. ~reused => (~NamesOutput(Taken(0).path))'
  BY <1>4 DEF NamesOutput, FilePath
<1> QED
  BY <1>1, <1>3, <1>5 DEF Inv, Written

LEMMA NextInv == Inv /\ [Next]_vars => Inv'
<1> SUFFICES ASSUME Inv, [Next]_vars PROVE Inv'
  OBVIOUS
<1>1. ASSUME NEW text \in Texts, StartRound(text) PROVE Inv'
  BY <1>1, StartRoundInv
<1>2. ASSUME NEW m \in Media, Deliver(m) PROVE Inv'
  BY <1>2, DeliverInv
<1>3. CASE WriteOutFile
  BY <1>3, WriteOutFileInv
<1>5. CASE OutputFails
  BY <1>5, OutputFailsInv
<1>4. CASE Done \/ UNCHANGED vars
  <2>1. UNCHANGED vars
    BY <1>4 DEF Done
  <2>2. Types' /\ Written' = Written /\ NextFree' = NextFree
    BY <2>1 DEF vars, Inv, Types, Written, NextFree
  <2>3. \A m : Taken(m)' = Taken(m)
    BY <2>1 DEF vars, Taken, TakenIn, Serialized
  <2>4. TakenInv' = TakenInv
    BY <2>1, <2>2, <2>3 DEF vars, TakenInv
  <2> QED
    BY <2>1, <2>2, <2>3, <2>4 DEF vars, Inv, NamesOutput
<1> QED
  BY <1>1, <1>2, <1>3, <1>4, <1>5 DEF Next

LEMMA Invariance == Spec => []Inv
BY InitInv, NextInv, PTL DEF Spec

-----------------------------------------------------------------------------
(* Theorems.                                                               *)

\* Every variable of Messages keeps its type; in particular no payload outgrows
\* its array, whatever the files contain and whatever malloc returns.
THEOREM TypeCorrect == Spec => []TypeOK
<1>1. Chars = Alphabet \cup {"[", ",", " ", "]", Pid} \cup {FilePath[1]}
  BY Zenon DEF Chars, Cm, Sp
<1>2. Types => TypeOK
  BY <1>1, Zenon DEF Types, TypeOK, Slots
<1> QED
  BY <1>2, Invariance, PTL DEF Inv

\* buildMessages cuts a text of any length into four parts that make up the text
\* again, none of them more than one character longer than a later one.
THEOREM Splits == Spec => []SplitWhole
<1>1. ASSUME Types PROVE SplitWhole
  <2>1. PICK t \in Seq(Alphabet) : t = content
    BY <1>1 DEF Types
  <2>2. FilePart(t, 0) \o FilePart(t, 1) \o FilePart(t, 2) \o FilePart(t, 3) = t
    BY Split
  <2>3. PICK l \in Nat : l = Len(t)
    BY LenProperties
  <2>4. \A m \in Media : Len(FilePart(t, m)) = PartLen(l, m) /\ PartLen(l, m) \in Nat
    BY <2>3, FilePartFacts, PartLens
  <2>5. \A i, j \in Media : i <= j => /\ PartLen(l, j) <= PartLen(l, i)
                                      /\ PartLen(l, i) <= PartLen(l, j) + 1
    BY PartLens
  <2>6. 0 \in Media /\ 1 \in Media /\ 2 \in Media /\ 3 \in Media
        /\ \A m \in Media : 0 <= m
    BY DEF Media
  <2>7. \A m \in Media : Len(FilePart(t, m)) \in
                           (Len(FilePart(t, 0)) - 1)..Len(FilePart(t, 0))
    BY <2>4, <2>5, <2>6
  <2>8. \A m, i \in Media : m <= i => Len(FilePart(t, i)) <= Len(FilePart(t, m))
    BY <2>4, <2>5
  <2> QED
    BY <2>1, <2>2, <2>6, <2>7, <2>8, Zenon DEF SplitWhole
<1> QED
  BY <1>1, Invariance, PTL DEF Inv

\* For every alphabet, every payload size and every order of arrival: whatever
\* is written of a round with a clean array shows each part without delimiters
\* as it was sent, a full one with its path behind it, whatever the other parts
\* contain; and no round ends the server instead unless its first part contains
\* ", ".
THEOREM CleanArrives == Spec => []CleanPartsArrive
<1>1. ASSUME Inv PROVE CleanPartsArrive
  <2> SUFFICES ASSUME ~reused PROVE
        /\ Written => \A m \in Media : CleanPart(FilePart(content, m)) =>
                        IF Len(FilePart(content, m)) < PayloadSize
                        THEN Arrived(m) ELSE RunsOn(m)
        /\ phase = "failed" => HasComma(FilePart(content, 0))
    BY DEF CleanPartsArrive
  <2>1. content \in Seq(Alphabet) /\ Len(content) <= MaxLen
    BY <1>1 DEF Inv, Types
  <2>2. ASSUME Written, NEW m \in Media, CleanPart(FilePart(content, m))
        PROVE  IF Len(FilePart(content, m)) < PayloadSize
               THEN Arrived(m) ELSE RunsOn(m)
    <3>1. out[m] = Taken(m)
      BY <1>1, <2>2 DEF Inv
    <3>2. PICK t : t = FilePart(content, m) /\ ~HasComma(t) /\ ~HasBracket(t)
      BY <2>2 DEF CleanPart
    <3>3. /\ out[m].PID = PidNumber /\ out[m].medium = m /\ out[m].payload = t
          /\ out[m].path = IF Len(t) < PayloadSize THEN FilePath
                           ELSE FilePath \o FilePath
      BY <2>1, <3>1, <3>2, TakenPlain
    <3>4. CASE Len(t) < PayloadSize
      <4>1. t \in Seq(Chars)
        BY <2>1, <3>2, AlphabetTexts, FilePartFacts
      <4>2. PayloadString(out[m]) = t
        BY <3>3, <3>4, <4>1, ShortPayload
      <4> QED
        BY <3>2, <3>3, <3>4, <4>2 DEF Arrived
    <3>5. CASE ~(Len(t) < PayloadSize)
      BY <3>2, <3>3, <3>5 DEF RunsOn
    <3> QED
      BY <3>4, <3>5
  <2>3. ASSUME phase = "failed", ~HasComma(FilePart(content, 0)) PROVE FALSE
    <3>1. 0 \in Media /\ ~NamesOutput(Taken(0).path)
      BY <1>1, <2>3 DEF Inv, Media
    <3> QED
      BY <2>1, <2>3, <3>1, TakenPlain
  <2> QED
    BY <2>2, <2>3
<1> QED
  BY <1>1, Invariance, PTL
=============================================================================
