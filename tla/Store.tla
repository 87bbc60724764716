-------------------------------- MODULE Store --------------------------------
(***************************************************************************)
(* The directory over several rounds.  Client_0 looks for files whose name *)
(* begins with "sendme_" and that are small enough, its children read      *)
(* them, and the server writes each to a file of a name derived from it.   *)
(* The outputs lie beside the inputs, begin with "sendme_" too, and are    *)
(* found by the next scan.                                                 *)
(*                                                                         *)
(* Client_0 can scan for the next round while the server is still writing  *)
(* the outputs of the last (see CloseRound of Transfer); the children read *)
(* only after the server has taken up the round.                           *)
(*                                                                         *)
(* A name is a sequence of pieces, <<"sendme_a", ".txt">>.  A content is   *)
(* an input and the number of times it has been written out, each time     *)
(* with four headers more.  No directory has ".txt" in its name.           *)
(***************************************************************************)
EXTENDS Integers, Sequences, FiniteSets

CONSTANTS
  Inputs,      \* names of the files the user may put there
  Room,        \* Room[g]: how often input g can be written out and stay
               \* smaller than MAX_FILE_SIZE
  MAX_FILES,   \* size of filePaths
  MaxRounds    \* bound on the rounds

ASSUME StoreAssumption ==
  /\ Inputs \subseteq Seq(STRING)
  /\ Room \in [Inputs -> Nat]
  /\ MAX_FILES \in Nat
  /\ MaxRounds \in Nat

VARIABLES
  dir,       \* the files, by name
  root,      \* whether the server may write any file
  client,    \* "sleep", "asked" once it has scanned, or "undefined"
  found,     \* filePaths
  server,    \* "idle", "writing", "open" with an output open, "exited" by
             \* ErrExit, "killed" by a signal, "misled" by messages no child
             \* has filled, or "undefined"
  loaded,    \* what the children of the round have read
  todo,      \* the files of the round not yet written out
  rounds

vars == <<dir, root, client, found, server, loaded, todo, rounds>>

File(from, frames, mode, partial) ==
  [from |-> from, frames |-> frames, mode |-> mode, partial |-> partial]

\* st_size < MAX_FILE_SIZE.  A file being written can have any smaller size.
Small(file) == file.partial \/ file.frames <= Room[file.from]

Extension == ".txt"
HasExtension(g) == \E j \in DOMAIN g : g[j] = Extension

\* What is left of the name when it is cut at the first ".txt".
Stem(g) ==
  IF ~HasExtension(g) THEN g
  ELSE SubSeq(g, 1, (CHOOSE j \in DOMAIN g :
                       g[j] = Extension /\ \A k \in 1..(j - 1) : g[k] # Extension) - 1)

\* Mutant: strcat(filePathOut, appendToPath) is missing.
OutNameSame(g) == Stem(g) \o <<Extension>>

\* The name of the output, if g has an extension.
OutName(g) == Stem(g) \o <<"_out", Extension>>

Init ==
  /\ \E S \in SUBSET Inputs : dir = [g \in S |-> File(g, 0, "rw", FALSE)]
  /\ root \in BOOLEAN
  /\ client = "sleep" /\ found = {}
  /\ server = "idle" /\ loaded = <<>> /\ todo = {}
  /\ rounds = 0

\* The user removes a file while no output is being written.
Remove(g) ==
  /\ server = "idle"
  /\ dir' = [h \in DOMAIN dir \ {g} |-> dir[h]]
  /\ UNCHANGED <<root, client, found, server, loaded, todo, rounds>>

\* loadFilePaths.  A path too many is written behind the array.
Scan ==
  /\ client = "sleep" /\ rounds < MaxRounds
  /\ rounds' = rounds + 1
  /\ found' = {g \in DOMAIN dir : Small(dir[g])}
  /\ client' = IF Cardinality(found') <= MAX_FILES THEN "asked" ELSE "undefined"
  /\ UNCHANGED <<dir, root, server, loaded, todo>>

\* Mutant: what is written is read again.
ReadAtWrite(g) == dir[g]

\* What the child of file g has read.
Loaded(g) == loaded[g]

\* The server takes up the round and the children load their files.
Serve ==
  /\ client = "asked" /\ server = "idle"
  /\ \A g \in found : g \in DOMAIN dir /\ Small(dir[g])
  /\ loaded' = [g \in found |-> dir[g]]
  /\ todo' = found
  /\ client' = "sleep"
  /\ server' = IF found = {} THEN "idle" ELSE "writing"
  /\ UNCHANGED <<dir, root, found, rounds>>

\* A child reads more than content[] holds.
Overflow ==
  /\ client = "asked" /\ server = "idle"
  /\ \E g \in found \cap DOMAIN dir : ~Small(dir[g])
  /\ client' = "undefined" /\ server' = "undefined"
  /\ UNCHANGED <<dir, root, found, loaded, todo, rounds>>

\* A child cannot open its file and sends the messages it has not filled.
SendUnread ==
  /\ client = "asked" /\ server = "idle"
  /\ ~(found \subseteq DOMAIN dir)
  /\ client' = "undefined" /\ server' = "misled"
  /\ UNCHANGED <<dir, root, found, loaded, todo, rounds>>

Denied(o) == o \in DOMAIN dir /\ dir[o].mode = "r" /\ ~root

\* The outputs are written in the order of the children's PIDs.  A new one is
\* created with S_IRUSR | S_IRUSR, an old one keeps its mode.
OpenOut(g) ==
  /\ server = "writing" /\ g \in todo /\ HasExtension(g)
  /\ LET o == OutName(g)
         mode == IF o \in DOMAIN dir THEN dir[o].mode ELSE "r"
         out == File(Loaded(g).from, Loaded(g).frames + 1, mode, TRUE)
     IN  /\ ~Denied(o)
         /\ dir' = [h \in DOMAIN dir \cup {o} |-> IF h = o THEN out ELSE dir[h]]
  /\ todo' = todo \ {g}
  /\ server' = "open"
  /\ UNCHANGED <<root, client, found, loaded, rounds>>

\* *extensionPos = '\0' with extensionPos NULL.
NameFails(g) ==
  /\ server = "writing" /\ g \in todo /\ ~HasExtension(g)
  /\ server' = "killed"
  /\ UNCHANGED <<dir, root, client, found, loaded, todo, rounds>>

\* ErrExit after open.
OpenFails(g) ==
  /\ server = "writing" /\ g \in todo /\ HasExtension(g)
  /\ Denied(OutName(g))
  /\ server' = "exited"
  /\ UNCHANGED <<dir, root, client, found, loaded, todo, rounds>>

\* Mutant: the output is never closed.
CloseOutNever ==
  /\ server = "open"
  /\ server' = IF todo = {} THEN "idle" ELSE "writing"
  /\ UNCHANGED <<dir, root, client, found, loaded, todo, rounds>>

CloseOut ==
  /\ server = "open"
  /\ dir' = [h \in DOMAIN dir |-> [dir[h] EXCEPT !.partial = FALSE]]
  /\ server' = IF todo = {} THEN "idle" ELSE "writing"
  /\ UNCHANGED <<root, client, found, loaded, todo, rounds>>

\* Nothing more happens: there are no rounds left, or a process has ended.
Stopped ==
  /\ \/ client = "undefined"
     \/ server \in {"exited", "killed", "misled", "undefined"}
     \/ (client = "sleep" /\ rounds = MaxRounds)
  /\ server \notin {"writing", "open"}
  /\ UNCHANGED vars

Next ==
  \/ \E g \in DOMAIN dir : Remove(g)
  \/ Scan \/ Serve \/ Overflow \/ SendUnread
  \/ \E g \in todo : OpenOut(g) \/ NameFails(g) \/ OpenFails(g)
  \/ CloseOut
  \/ Stopped

Spec == Init /\ [][Next]_vars

-----------------------------------------------------------------------------
(* Properties.                                                             *)

\* Every variable has its type, and at most one file is being written.
TypeOK ==
  /\ \A g \in DOMAIN dir :
       /\ dir[g].from \in Inputs /\ dir[g].frames \in Nat
       /\ dir[g].mode \in {"r", "rw"} /\ dir[g].partial \in BOOLEAN
  /\ Cardinality({g \in DOMAIN dir : dir[g].partial})
       = IF server = "open" THEN 1 ELSE 0
  /\ root \in BOOLEAN
  /\ client \in {"sleep", "asked", "undefined"}
  /\ server \in {"idle", "writing", "open",
                 "exited", "killed", "misled", "undefined"}
  /\ todo \subseteq DOMAIN loaded
  /\ rounds \in 0..MaxRounds

\* The name of a file tells what is in it, over any number of rounds: up to its
\* first ".txt" it is the name of the input it was made from, with one "_out"
\* for every time it has been written out.  So a round never writes over a file
\* with the text of an unrelated one, and although every scan finds the outputs
\* of the rounds before, the files grow by at most one generation a round.
NameTellsContent ==
  \A g \in DOMAIN dir :
    /\ Stem(g) = Stem(dir[g].from) \o [j \in 1..dir[g].frames |-> "_out"]
    /\ dir[g].frames <= rounds

\* After a round every file it found has its output, made from what the file
\* held before any output was written, although outputs of the round can
\* overwrite files it has found.  Two files with the same output name leave one
\* of the two.
RoundWritten ==
  server = "idle" =>
    \A g \in DOMAIN loaded :
      OutName(g) \in DOMAIN dir =>
        \E h \in DOMAIN loaded :
          /\ OutName(h) = OutName(g)
          /\ dir[OutName(g)].from = loaded[h].from
          /\ dir[OutName(g)].frames = loaded[h].frames + 1

\* The server can open every output.
OutputsOpen == server # "exited"

\* Every file found has an output name.
OutNameExists == server # "killed"

\* The paths found fit the array, if at most so many files were put there.
PathsFit == Cardinality(Inputs) <= MAX_FILES => Cardinality(found) <= MAX_FILES

\* A child reads only files of the size that the scan has tested.
SizeTested ==
  server = "idle" /\ client = "asked" =>
    \A g \in found \cap DOMAIN dir : Small(dir[g])

\* A child sends only what it has loaded.
OnlyLoadedSent == server # "misled"
=============================================================================
