----------------------------- MODULE StoreProofs -----------------------------
(***************************************************************************)
(* Over any number of rounds and any files, the name of a file tells what  *)
(* is in it (NameTellsContent), and a round writes what it has read        *)
(* (RoundWritten).                                                         *)
(***************************************************************************)
EXTENDS Store, SequenceTheorems, FiniteSetTheorems, WellFoundedInduction,
        TLAPS

\* (No prover knows that a string is an element of STRING.)
Pieces == STRING \cup {"_out", ".txt"}
Names == Seq(Pieces)
Files == [from : Inputs, frames : Nat, mode : {"r", "rw"}, partial : BOOLEAN]
IsFile(file) == file \in Files

Tags(n) == [j \in 1..n |-> "_out"]

\* The name g fits a file of the content of file.
Named(g, file) == Stem(g) = Stem(file.from) \o Tags(file.frames)

LEMMA InputNames == \A g \in Inputs : g \in Names
<1>1. STRING \subseteq Pieces
  BY DEF Pieces
<1> QED
  BY <1>1, StoreAssumption, SeqMonotonic DEF Names

-----------------------------------------------------------------------------
(* Names.                                                                  *)

\* A set of natural numbers has a least element.
LEMMA Least ==
  ASSUME NEW T \in SUBSET Nat, T # {}
  PROVE  \E x \in T : \A y \in T : x <= y
<1> DEFINE R == {ss \in Nat \X Nat : ss[1] < ss[2]}
<1>1. IsWellFoundedOn(R, Nat)
  BY NatLessThanWellFounded DEF OpToRel
<1>2. \E x \in T : \A y \in T : ~(<<y, x>> \in R)
  <2> HIDE DEF R
  <2> QED
    BY <1>1, WFMin
<1>3. PICK x \in T : \A y \in T : ~(<<y, x>> \in R)
  BY <1>2
<1>4. ASSUME NEW y \in T PROVE x <= y
  <2>1. x \in Nat /\ y \in Nat
    OBVIOUS
  <2>2. <<y, x>> \in Nat \X Nat /\ <<y, x>>[1] = y /\ <<y, x>>[2] = x
    BY <2>1
  <2>3. ~(y < x)
    BY <1>3, <2>2
  <2> QED
    BY <2>1, <2>3
<1> QED
  BY <1>4

\* The name g can be cut at j.
First(g, j) == g[j] = Extension /\ \A k \in 1..(j - 1) : g[k] # Extension

LEMMA PosFacts ==
  ASSUME NEW g \in Names, NEW j \in DOMAIN g, First(g, j)
  PROVE  HasExtension(g) /\ Stem(g) = SubSeq(g, 1, j - 1)
<1>1. DOMAIN g = 1..Len(g) /\ Len(g) \in Nat
  BY LenProperties DEF Names
<1>2. \A k \in DOMAIN g : First(g, k) => k = j
  BY <1>1 DEF First
<1>3. j = CHOOSE k \in DOMAIN g : First(g, k)
  BY <1>2
<1>4. HasExtension(g)
  BY DEF HasExtension, First
<1> QED
  BY <1>3, <1>4 DEF Stem, First

LEMMA HasFirst ==
  ASSUME NEW g \in Names, HasExtension(g)
  PROVE  \E j \in DOMAIN g : First(g, j)
<1> DEFINE T == {j \in DOMAIN g : g[j] = Extension}
<1>1. DOMAIN g = 1..Len(g) /\ Len(g) \in Nat
  BY LenProperties DEF Names
<1>2. T \in SUBSET Nat /\ T # {}
  BY <1>1 DEF HasExtension
<1>3. PICK x \in T : \A y \in T : x <= y
  <2> HIDE DEF T
  <2> QED
    BY <1>2, Least
<1> QED
  BY <1>1, <1>3 DEF First

\* The stem is a name and has no ".txt".
LEMMA StemFacts ==
  ASSUME NEW g \in Names, HasExtension(g)
  PROVE  /\ Stem(g) \in Names
         /\ \A k \in 1..Len(Stem(g)) : Stem(g)[k] # Extension
<1>1. PICK j \in DOMAIN g : First(g, j)
  BY HasFirst
<1>2. DOMAIN g = 1..Len(g) /\ Len(g) \in Nat
  BY LenProperties DEF Names
<1>3. Stem(g) = SubSeq(g, 1, j - 1)
  BY <1>1, PosFacts
<1>4. /\ SubSeq(g, 1, j - 1) \in Names
      /\ Len(SubSeq(g, 1, j - 1)) = j - 1
      /\ \A k \in 1..(j - 1) : SubSeq(g, 1, j - 1)[k] = g[k]
  BY <1>2, SubSeqProperties DEF Names
<1> QED
  BY <1>1, <1>3, <1>4 DEF First

\* Writing a file out puts one "_out" more into its stem.
LEMMA OutNameFacts ==
  ASSUME NEW g \in Names, HasExtension(g)
  PROVE  OutName(g) \in Names /\ Stem(OutName(g)) = Stem(g) \o <<"_out">>
<1> DEFINE s == Stem(g)
           n == Len(s)
           o == OutName(g)
<1>1. /\ s \in Seq(Pieces) /\ n \in Nat
      /\ \A k \in 1..n : s[k] # Extension
  BY StemFacts, LenProperties DEF Names
<1> HIDE DEF s
<1>2. /\ <<"_out", Extension>> \in Seq(Pieces) /\ <<"_out">> \in Seq(Pieces)
      /\ Len(<<"_out", Extension>>) = 2
      /\ <<"_out", Extension>>[1] = "_out" /\ <<"_out", Extension>>[2] = ".txt"
  BY DEF Extension, Pieces
<1>3. o = s \o <<"_out", Extension>>
  BY DEF OutName, s
<1>4. /\ o \in Seq(Pieces) /\ Len(o) = n + 2
      /\ \A k \in 1..n : o[k] = s[k]
      /\ o[n + 1] = "_out" /\ o[n + 2] = ".txt"
  BY <1>1, <1>2, <1>3, ConcatProperties
<1> HIDE DEF o
<1>5. First(o, n + 2) /\ n + 2 \in DOMAIN o
  <2>1. DOMAIN o = 1..(n + 2)
    BY <1>1, <1>4, LenProperties
  <2>2. \A k \in 1..(n + 1) : o[k] # ".txt"
    BY <1>1, <1>4 DEF Extension
  <2> QED
    BY <1>1, <1>4, <2>1, <2>2 DEF First, Extension
<1>6. Stem(o) = SubSeq(o, 1, n + 1)
  BY <1>1, <1>4, <1>5, PosFacts DEF Names
<1>7. SubSeq(o, 1, n + 1) = s \o <<"_out">>
  <2>1. /\ SubSeq(o, 1, n + 1) \in Seq(Pieces) /\ Len(SubSeq(o, 1, n + 1)) = n + 1
        /\ \A k \in 1..(n + 1) : SubSeq(o, 1, n + 1)[k] = o[k]
    BY <1>1, <1>4, SubSeqProperties
  <2>2. /\ s \o <<"_out">> \in Seq(Pieces) /\ Len(s \o <<"_out">>) = n + 1
        /\ \A k \in 1..n : (s \o <<"_out">>)[k] = s[k]
        /\ (s \o <<"_out">>)[n + 1] = "_out"
    BY <1>1, <1>2, ConcatProperties
  <2>3. \A k \in 1..(n + 1) : SubSeq(o, 1, n + 1)[k] = (s \o <<"_out">>)[k]
    BY <1>1, <1>4, <2>1, <2>2
  <2> HIDE DEF n
  <2> QED
    BY <2>1, <2>2, <2>3, SeqEqual
<1> QED
  BY <1>4, <1>6, <1>7 DEF o, s, Names

\* The empty and the next longer row of tags.
LEMMA TagFacts ==
  /\ Tags(0) = <<>>
  /\ \A n \in Nat : /\ Tags(n) \in Seq(Pieces)
                    /\ Tags(n) \o <<"_out">> = Tags(n + 1)
<1>1. Tags(0) = <<>>
  BY DEF Tags
<1>2. ASSUME NEW n \in Nat
      PROVE  Tags(n) \in Seq(Pieces) /\ Len(Tags(n)) = n
             /\ \A k \in 1..n : Tags(n)[k] = "_out"
  BY <1>2, IsASeq DEF Tags, Pieces
<1>3. ASSUME NEW n \in Nat PROVE Tags(n) \o <<"_out">> = Tags(n + 1)
  <2>1. /\ Tags(n) \in Seq(Pieces) /\ Len(Tags(n)) = n
        /\ \A k \in 1..n : Tags(n)[k] = "_out"
    BY <1>2
  <2>2. /\ Tags(n + 1) \in Seq(Pieces) /\ Len(Tags(n + 1)) = n + 1
        /\ \A k \in 1..(n + 1) : Tags(n + 1)[k] = "_out"
    <3>1. n + 1 \in Nat
      OBVIOUS
    <3> QED
      BY <1>2, <3>1
  <2>3. /\ <<"_out">> \in Seq(Pieces) /\ Len(<<"_out">>) = 1
        /\ <<"_out">>[1] = "_out"
    BY DEF Pieces
  <2>4. /\ Tags(n) \o <<"_out">> \in Seq(Pieces) /\ Len(Tags(n) \o <<"_out">>) = n + 1
        /\ \A k \in 1..(n + 1) : (Tags(n) \o <<"_out">>)[k] = "_out"
    BY <2>1, <2>3, ConcatProperties
  <2> QED
    BY <2>2, <2>4, SeqEqual
<1> QED
  BY <1>1, <1>2, <1>3

\* A file that is not yet an output has its own name, and the output of a file
\* that fits its name fits the output's.
LEMMA NamedFacts ==
  /\ \A g \in Names : \A file : file.from = g /\ file.frames = 0 => Named(g, file)
  /\ \A g \in Names : \A file, out :
       /\ IsFile(file) /\ HasExtension(g) /\ Named(g, file)
       /\ out.from = file.from /\ out.frames = file.frames + 1
       => Named(OutName(g), out)
<1>1. ASSUME NEW g \in Names PROVE Stem(g) \in Names
  <2>1. CASE HasExtension(g)
    BY <2>1, StemFacts
  <2>2. CASE ~HasExtension(g)
    BY <2>2 DEF Stem
  <2> QED
    BY <2>1, <2>2
<1>2. ASSUME NEW g \in Names, NEW file, file.from = g, file.frames = 0
      PROVE  Named(g, file)
  <2>1. Stem(g) \o <<>> = Stem(g)
    BY <1>1, ConcatEmptySeq DEF Names
  <2> QED
    BY <1>2, <2>1, TagFacts DEF Named
<1>3. ASSUME NEW g \in Names, NEW file, NEW out,
             IsFile(file), HasExtension(g), Named(g, file),
             out.from = file.from, out.frames = file.frames + 1
      PROVE  Named(OutName(g), out)
  <2> DEFINE s == Stem(file.from)
             n == file.frames
  <2>1. s \in Seq(Pieces) /\ n \in Nat
    <3>1. file.from \in Names
      BY <1>3, InputNames DEF IsFile, Files
    <3> QED
      BY <1>1, <1>3, <3>1 DEF IsFile, Files, Names
  <2>2. Stem(OutName(g)) = (s \o Tags(n)) \o <<"_out">>
    BY <1>3, OutNameFacts DEF Named
  <2>3. <<"_out">> \in Seq(Pieces) /\ Tags(n) \in Seq(Pieces)
    <3>1. "_out" \in Pieces
      BY DEF Pieces
    <3> HIDE DEF n
    <3> QED
      BY <2>1, <3>1, TagFacts
  <2>4. (s \o Tags(n)) \o <<"_out">> = s \o (Tags(n) \o <<"_out">>)
    BY <2>1, <2>3, ConcatAssociative
  <2>5. Tags(n) \o <<"_out">> = Tags(n + 1)
    BY <2>1, TagFacts
  <2> QED
    BY <1>3, <2>2, <2>4, <2>5 DEF Named
<1> QED
  BY <1>2, <1>3

-----------------------------------------------------------------------------
(* The invariant.                                                          *)

\* The rounds the server has taken up, as far as it could.
Served == IF client = "asked" THEN rounds - 1 ELSE rounds

\* What a file in the directory, or one that a child has read, is, if it has
\* been written out n times at most.
FileInv(g, file, n) ==
  g \in Names /\ IsFile(file) /\ Named(g, file) /\ file.frames <= n

DirInv ==
  /\ \A g \in DOMAIN dir : FileInv(g, dir[g], Served)
  /\ \A g \in DOMAIN loaded : FileInv(g, loaded[g], Served - 1)

\* Only an open output is partial.
PartialInv ==
  IF server = "open"
  THEN \E o \in DOMAIN dir : {g \in DOMAIN dir : dir[g].partial} = {o}
  ELSE {g \in DOMAIN dir : dir[g].partial} = {}

\* Out of g, or of a file with the same output name.
WrittenFor(g) ==
  \E h \in DOMAIN loaded :
    /\ OutName(h) = OutName(g)
    /\ dir[OutName(g)].from = loaded[h].from
    /\ dir[OutName(g)].frames = loaded[h].frames + 1

\* The files of the round that are not still to be written out have been.
WrittenInv ==
  /\ server = "idle" => todo = {}
  /\ \A g \in DOMAIN loaded \ todo : OutName(g) \in DOMAIN dir => WrittenFor(g)

StatusInv ==
  /\ root \in BOOLEAN
  /\ client \in {"sleep", "asked", "undefined"}
  /\ server \in {"idle", "writing", "open",
                 "exited", "killed", "misled", "undefined"}
  /\ todo \subseteq DOMAIN loaded
  /\ rounds \in 0..MaxRounds

Inv == StatusInv /\ DirInv /\ PartialInv /\ WrittenInv

LEMMA InitInv == Init => Inv
<1> SUFFICES ASSUME Init PROVE Inv
  OBVIOUS
<1>1. PICK S \in SUBSET Inputs : dir = [g \in S |-> File(g, 0, "rw", FALSE)]
  BY DEF Init
<1>2. \A g \in DOMAIN dir : /\ g \in Inputs /\ dir[g].from = g /\ dir[g].frames = 0
                           /\ dir[g].mode = "rw" /\ dir[g].partial = FALSE
  BY <1>1 DEF File
<1>3. Served = 0 /\ DOMAIN loaded = {} /\ todo = {}
  BY DEF Init, Served
<1>4. ASSUME NEW g \in DOMAIN dir PROVE FileInv(g, dir[g], 0)
  <2>1. IsFile(dir[g])
    BY <1>1 DEF File, IsFile, Files
  <2>2. g \in Names /\ Named(g, dir[g])
    BY <1>2, NamedFacts, InputNames
  <2> QED
    BY <1>2, <2>1, <2>2 DEF FileInv
<1>5. DirInv
  BY <1>3, <1>4 DEF DirInv
<1>6. StatusInv
  BY <1>3, StoreAssumption DEF Init, StatusInv
<1>7. PartialInv
  BY <1>2 DEF Init, PartialInv
<1>8. WrittenInv
  BY <1>3 DEF Init, WrittenInv
<1> QED
  BY <1>5, <1>6, <1>7, <1>8 DEF Inv

\* What is removed, or not written, leaves the rest as it is.
LEMMA RemoveInv == ASSUME Inv, NEW g \in DOMAIN dir, Remove(g) PROVE Inv'
<1> USE DEF Inv, Remove
<1>1. /\ DOMAIN dir' = DOMAIN dir \ {g}
      /\ \A h \in DOMAIN dir' : dir'[h] = dir[h]
  OBVIOUS
<1>2. Served' = Served /\ StatusInv'
  BY DEF Served, StatusInv
<1>3. DirInv'
  BY <1>1, <1>2 DEF DirInv
<1>4. PartialInv'
  BY <1>1 DEF PartialInv
<1>5. WrittenInv'
  BY <1>1 DEF WrittenInv, WrittenFor
<1> QED
  BY <1>2, <1>3, <1>4, <1>5

\* A scan begins the next round before the last one is written out.
LEMMA ScanInv == ASSUME Inv, Scan PROVE Inv'
<1> USE DEF Inv, Scan
<1>1. Served <= Served' /\ Served \in Int /\ Served' \in Int
  BY DEF Served, StatusInv
<1>2. StatusInv'
  BY StoreAssumption DEF StatusInv
<1>3. \A g, file : /\ FileInv(g, file, Served) => FileInv(g, file, Served')
                   /\ FileInv(g, file, Served - 1) => FileInv(g, file, Served' - 1)
  BY <1>1 DEF FileInv, IsFile, Files
<1>4. DirInv'
  BY <1>3 DEF DirInv
<1>5. PartialInv' /\ WrittenInv'
  BY DEF PartialInv, WrittenInv, WrittenFor
<1> QED
  BY <1>2, <1>4, <1>5

\* The children read what the directory holds.
LEMMA ServeInv == ASSUME Inv, Serve PROVE Inv'
<1> USE DEF Inv, Serve
<1>1. Served' = Served + 1 /\ Served \in Int
  BY DEF Served, StatusInv
<1>2. /\ DOMAIN loaded' = found /\ found \subseteq DOMAIN dir
      /\ \A g \in found : loaded'[g] = dir[g]
  OBVIOUS
<1>3. StatusInv'
  BY <1>2 DEF StatusInv
<1>4. \A g, file : /\ FileInv(g, file, Served) => FileInv(g, file, Served')
                   /\ FileInv(g, file, Served) => FileInv(g, file, Served' - 1)
  BY <1>1 DEF FileInv, IsFile, Files
<1>5. DirInv'
  BY <1>2, <1>4 DEF DirInv
<1>6. PartialInv' /\ WrittenInv'
  BY <1>2 DEF PartialInv, WrittenInv
<1> QED
  BY <1>3, <1>5, <1>6

\* The output's name fits its content, and whatever it overwrites, a file not
\* yet written out is written from what its child has read.
LEMMA OpenOutInv == ASSUME Inv, NEW g \in todo, OpenOut(g) PROVE Inv'
<1> USE DEF Inv
<1> DEFINE o == OutName(g)
           mode == IF o \in DOMAIN dir THEN dir[o].mode ELSE "r"
           out == File(loaded[g].from, loaded[g].frames + 1, mode, TRUE)
<1>0. /\ server = "writing" /\ HasExtension(g) /\ server' = "open"
      /\ todo' = todo \ {g} /\ UNCHANGED <<root, client, found, loaded, rounds>>
      /\ dir' = [h \in DOMAIN dir \cup {o} |-> IF h = o THEN out ELSE dir[h]]
  BY DEF OpenOut, Loaded
<1>1. /\ out.from = loaded[g].from /\ out.frames = loaded[g].frames + 1
      /\ out.mode = mode /\ out.partial = TRUE
  BY DEF File
<1>a. /\ loaded[g].from \in Inputs /\ loaded[g].frames + 1 \in Nat
         /\ mode \in {"r", "rw"}
      => out \in Files
  BY DEF File, Files
<1> HIDE DEF out
<1>2. /\ DOMAIN dir' = DOMAIN dir \cup {o} /\ dir'[o] = out
      /\ \A h \in DOMAIN dir : h # o => dir'[h] = dir[h]
  BY <1>0
<1>3. g \in DOMAIN loaded /\ FileInv(g, loaded[g], Served - 1)
  BY DEF StatusInv, DirInv
<1>4. Served' = Served /\ Served \in Int
  BY <1>0 DEF Served, StatusInv
<1>5. FileInv(o, out, Served)
  <2>1. mode \in {"r", "rw"}
    BY DEF DirInv, FileInv, IsFile, Files
  <2>2. IsFile(out) /\ out.frames <= Served
    BY <1>1, <1>a, <1>3, <1>4, <2>1 DEF FileInv, IsFile, Files
  <2>3. o \in Names
    BY <1>0, <1>3, OutNameFacts DEF FileInv
  <2>4. Named(o, out)
    BY <1>0, <1>1, <1>3, NamedFacts DEF FileInv
  <2> QED
    BY <2>2, <2>3, <2>4 DEF FileInv
<1>6. DirInv'
  BY <1>0, <1>2, <1>4, <1>5 DEF DirInv
<1>7. PartialInv'
  <2>1. \A h \in DOMAIN dir : ~dir[h].partial
    BY <1>0 DEF PartialInv
  <2>2. {h \in DOMAIN dir' : dir'[h].partial} = {o}
    BY <1>1, <1>2, <2>1
  <2> QED
    BY <1>0, <1>2, <2>2 DEF PartialInv
<1>8. WrittenInv'
  <2> SUFFICES ASSUME NEW h \in DOMAIN loaded' \ todo', OutName(h) \in DOMAIN dir'
               PROVE  WrittenFor(h)'
    BY <1>0 DEF WrittenInv
  <2>1. CASE OutName(h) = o
    BY <1>0, <1>1, <1>2, <1>3, <2>1 DEF WrittenFor
  <2>2. CASE OutName(h) # o
    <3>1. h # g /\ h \in DOMAIN loaded \ todo
      BY <1>0, <2>2
    <3>2. OutName(h) \in DOMAIN dir /\ dir'[OutName(h)] = dir[OutName(h)]
      BY <1>2, <2>2
    <3>3. WrittenFor(h)
      BY <3>1, <3>2 DEF WrittenInv
    <3> QED
      BY <1>0, <3>2, <3>3 DEF WrittenFor
  <2> QED
    BY <2>1, <2>2
<1>9. StatusInv'
  BY <1>0 DEF StatusInv
<1> QED
  BY <1>6, <1>7, <1>8, <1>9

LEMMA CloseOutInv == ASSUME Inv, CloseOut PROVE Inv'
<1> USE DEF Inv, CloseOut
<1>1. ASSUME NEW g \in DOMAIN dir, NEW n \in Int, FileInv(g, dir[g], n)
      PROVE  FileInv(g, dir'[g], n)
  BY <1>1 DEF FileInv, IsFile, Files, Named
<1>2. DOMAIN dir' = DOMAIN dir /\ Served' = Served /\ Served \in Int
  BY DEF Served, StatusInv
<1>3. \A g \in DOMAIN dir :
        /\ dir'[g].from = dir[g].from /\ dir'[g].frames = dir[g].frames
        /\ dir'[g].partial = FALSE
  BY DEF DirInv, FileInv, IsFile, Files
<1>4. DirInv'
  BY <1>1, <1>2 DEF DirInv
<1>5. PartialInv'
  BY <1>2, <1>3 DEF PartialInv
<1>6. WrittenInv'
  BY <1>2, <1>3 DEF WrittenInv, WrittenFor
<1>7. StatusInv'
  BY DEF StatusInv
<1> QED
  BY <1>4, <1>5, <1>6, <1>7

LEMMA NextInv == Inv /\ [Next]_vars => Inv'
<1> SUFFICES ASSUME Inv, [Next]_vars PROVE Inv'
  OBVIOUS
<1>1. ASSUME NEW g \in DOMAIN dir, Remove(g) PROVE Inv'
  BY <1>1, RemoveInv
<1>2. CASE Scan
  BY <1>2, ScanInv
<1>3. CASE Serve
  BY <1>3, ServeInv
<1>4. CASE Overflow \/ SendUnread
  <2>1. Served <= Served' /\ Served \in Int /\ Served' \in Int
    BY <1>4 DEF Overflow, SendUnread, Served, Inv, StatusInv
  <2>2. \A g, file : /\ FileInv(g, file, Served) => FileInv(g, file, Served')
                     /\ FileInv(g, file, Served - 1) => FileInv(g, file, Served' - 1)
    BY <2>1 DEF FileInv, IsFile, Files
  <2>3. DirInv'
    BY <1>4, <2>2 DEF Inv, DirInv, Overflow, SendUnread
  <2>4. StatusInv' /\ PartialInv' /\ WrittenInv'
    BY <1>4 DEF Inv, StatusInv, PartialInv, WrittenInv, WrittenFor, Overflow,
                SendUnread
  <2> QED
    BY <2>3, <2>4 DEF Inv
<1>5. ASSUME NEW g \in todo, OpenOut(g) PROVE Inv'
  BY <1>5, OpenOutInv
<1>6. ASSUME NEW g \in todo, NameFails(g) \/ OpenFails(g) PROVE Inv'
  BY <1>6 DEF Inv, StatusInv, DirInv, PartialInv, WrittenInv, WrittenFor, Served,
              NameFails, OpenFails
<1>7. CASE CloseOut
  BY <1>7, CloseOutInv
<1>8. CASE UNCHANGED vars \/ Stopped
  BY <1>8 DEF vars, Stopped, Inv, StatusInv, DirInv, PartialInv, WrittenInv,
              WrittenFor, Served
<1> QED
  BY <1>1, <1>2, <1>3, <1>4, <1>5, <1>6, <1>7, <1>8 DEF Next

LEMMA Invariance == Spec => []Inv
  BY InitInv, NextInv, PTL DEF Spec

-----------------------------------------------------------------------------
(* Theorems.                                                               *)

\* Every variable of Store keeps its type, and at most one output is open.
THEOREM TypeCorrect == Spec => []TypeOK
<1>1. ASSUME Inv PROVE TypeOK
  <2>1. \A g \in DOMAIN dir : IsFile(dir[g])
    BY <1>1 DEF Inv, DirInv, FileInv
  <2>2. Cardinality({g \in DOMAIN dir : dir[g].partial})
          = IF server = "open" THEN 1 ELSE 0
    <3>1. PICK P : P = {g \in DOMAIN dir : dir[g].partial}
      OBVIOUS
    <3>2. CASE server = "open"
      <4>1. PICK o \in DOMAIN dir : P = {o}
        BY <1>1, <3>1, <3>2 DEF Inv, PartialInv
      <4> QED
        BY <3>1, <3>2, <4>1, FS_Singleton
    <3>3. CASE server # "open"
      BY <1>1, <3>1, <3>3, FS_EmptySet DEF Inv, PartialInv
    <3> QED
      BY <3>2, <3>3
  <2> QED
    BY <1>1, <2>1, <2>2 DEF TypeOK, Inv, StatusInv, IsFile, Files
<1> QED
  BY <1>1, Invariance, PTL

\* The name of a file tells which input it was made from and in how many
\* rounds, for all inputs and over any number of rounds.
THEOREM NamesTell == Spec => []NameTellsContent
<1>1. ASSUME Inv PROVE NameTellsContent
  <2>1. Served <= rounds /\ Served \in Int /\ rounds \in Int
    BY <1>1 DEF Inv, StatusInv, Served
  <2>2. ASSUME NEW g \in DOMAIN dir
        PROVE  /\ Stem(g) = Stem(dir[g].from) \o Tags(dir[g].frames)
               /\ dir[g].frames <= rounds
    <3>1. FileInv(g, dir[g], Served)
      BY <1>1 DEF Inv, DirInv
    <3> QED
      BY <2>1, <3>1 DEF FileInv, IsFile, Files, Named
  <2> QED
    BY <2>2 DEF NameTellsContent, Tags
<1> QED
  BY <1>1, Invariance, PTL

\* A round writes out what its children have read, even if one of its outputs
\* has the name of a file it has found.
THEOREM RoundsWritten == Spec => []RoundWritten
<1>1. Inv => RoundWritten
  BY DEF Inv, WrittenInv, WrittenFor, RoundWritten
<1> QED
  BY <1>1, Invariance, PTL
=============================================================================
