------------------------------ MODULE Messages ------------------------------
(***************************************************************************)
(* The way of a file's text: a child cuts it in four parts, each part      *)
(* becomes the payload of a message "[<payload>, <PID>, <full path>]", the *)
(* server takes the message apart again into an array it has allocated for *)
(* the round, and writes the payloads.                                     *)
(*                                                                         *)
(* A text is a sequence of characters without '\0'.  A message struct has  *)
(* its arrays payload[PayloadSize] and path[] side by side, so that a      *)
(* payload without a terminator reads on into path; path[] is taken as     *)
(* large enough.  What malloc returns is either clean or the block that    *)
(* the round before has freed, as it was left.  The byte after the local   *)
(* array of buildMessages is taken to be padding (1000 is not a multiple   *)
(* of the alignment of the stack), and PID[10] of deserializeMessage as    *)
(* large enough for the text between two commas.                           *)
(*                                                                         *)
(* Rounds have one file: how the messages of several are told apart is the *)
(* subject of SortMessages.  The file's name ends in ".txt", no directory  *)
(* is named by delimiters and PIDs alone, and the output may be opened     *)
(* again: names without an extension and outputs of mode 0400 are the      *)
(* subject of Store.                                                       *)
(***************************************************************************)
EXTENDS Integers, Sequences, FiniteSets, FiniteSetsExt

CONSTANTS
  Alphabet,      \* characters of the files
  PayloadSize,   \* MESSAGE_PAYLOAD_SIZE (1000 in the code)
  Texts,         \* the texts that a file may have
  MaxRounds      \* bound on the rounds

\* The size of a file is below MAX_FILE_SIZE, four times the payload.
MaxLen == 4 * PayloadSize - 1

ASSUME MessagesAssumption ==
  /\ PayloadSize \in Nat \ {0}
  /\ Texts \subseteq Seq(Alphabet) /\ \A text \in Texts : Len(text) <= MaxLen
  /\ MaxRounds \in Nat

Media == 0..3

\* Stand for the child's PID and for the full path of the file.
Pid == "7"
PidNumber == 7
FilePath == <<"/">>

VARIABLES
  phase,       \* "idle" between rounds, "receive" in a round, "failed" when
               \* the server has ended without an output
  content,     \* the file of the round
  pending,     \* media whose message the server has not yet taken
  messages,    \* the server's array
  out,         \* the elements the output was written from
  reused,      \* the array of this round is the one the last has freed
  round

vars == <<phase, content, pending, messages, out, reused, round>>

-----------------------------------------------------------------------------
(* Text.                                                                   *)

\* Mutant: where the first occurrence ends.
StrstrEnd(s, t) ==
  Min({j \in Len(t)..Len(s) : SubSeq(s, j - Len(t) + 1, j) = t})

\* strstr: where t first occurs in s.
Strstr(s, t) ==
  Min({j \in 1..(Len(s) - Len(t) + 1) : SubSeq(s, j, j + Len(t) - 1) = t})

Comma == <<",", " ">>
Bracket == <<"]">>

\* Mutant: a text without a number is an error.
AtoiOrError(t) == IF Pid \in {t[j] : j \in DOMAIN t} THEN PidNumber ELSE -1

\* atoi, on texts whose only digit is Pid: leading spaces are skipped.
Atoi(t) ==
  LET digits == {j \in DOMAIN t : /\ t[j] = Pid
                                 /\ \A k \in 1..(j - 1) : t[k] = " "}
  IN  IF digits = {} THEN 0 ELSE PidNumber

-----------------------------------------------------------------------------
(* Message structs.                                                        *)

EmptySlot == [PID |-> 0, payload |-> <<>>, path |-> <<>>, medium |-> -1]

\* The array payload read as a string.
PayloadString(slot) ==
  slot.payload \o (IF Len(slot.payload) < PayloadSize THEN <<>> ELSE slot.path)

\* The string t stored in payload: what does not fit, at least the '\0', goes
\* to the beginning of path.
StorePayload(slot, t) ==
  [slot EXCEPT
     !.payload = SubSeq(t, 1, Min({PayloadSize, Len(t)})),
     !.path = IF Len(t) < PayloadSize THEN @
              ELSE SubSeq(t, PayloadSize + 1, Len(t))]

\* Mutant: the remainder is left out.
PartLenFloor(l, i) == l \div 4

\* The first l % 4 parts have one character more.
PartLen(l, i) == l \div 4 + (IF l % 4 >= i + 1 THEN 1 ELSE 0)

\* Part i of the file, after the parts before it.
FilePart(text, i) ==
  LET before(j) == IF j < i THEN PartLen(Len(text), j) ELSE 0
      start == before(0) + before(1) + before(2)
  IN  SubSeq(text, start + 1, start + PartLen(Len(text), i))

\* Mutant: the path is stored before the payload.
BuildMessagePathFirst(text, i) ==
  StorePayload([EmptySlot EXCEPT !.PID = PidNumber, !.path = FilePath],
               FilePart(text, i))

BuildMessage(text, i) ==
  [StorePayload(EmptySlot, FilePart(text, i)) EXCEPT
     !.PID = PidNumber, !.path = FilePath]

SerializeMessage(msg) ==
  <<"[">> \o PayloadString(msg) \o Comma \o <<Pid>> \o Comma \o msg.path
    \o Bracket

\* strncat appends to the payload and path that the slot already holds.  A
\* bracket before the second comma makes the length of the path negative, and
\* the rest of the buffer is copied.
DeserializeMessage(buff, slot) ==
  LET first  == Strstr(buff, Comma)
      second == first + Strstr(SubSeq(buff, first + 1, Len(buff)), Comma)
      last   == Strstr(buff, Bracket)
      end    == IF last < second THEN Len(buff) ELSE last - 1
      stored == StorePayload(slot,
                  PayloadString(slot) \o SubSeq(buff, 2, first - 1))
  IN  [stored EXCEPT
         !.PID = Atoi(SubSeq(buff, first + 2, second - 1)),
         !.path = @ \o SubSeq(buff, second + 2, end)]

-----------------------------------------------------------------------------
EmptyArray == [k \in Media |-> EmptySlot]

Init ==
  /\ phase = "idle"
  /\ content = <<>>
  /\ pending = {}
  /\ messages = EmptyArray
  /\ out = EmptyArray
  /\ reused = FALSE
  /\ round = 0

\* SIGINT with one file; the server allocates its array.
StartRound(text) ==
  /\ phase = "idle" /\ round < MaxRounds
  /\ phase' = "receive"
  /\ round' = round + 1
  /\ content' = text
  /\ pending' = Media
  /\ \/ messages' = EmptyArray /\ reused' = FALSE
     \/ round > 0 /\ reused' = TRUE /\ UNCHANGED messages
  /\ UNCHANGED out

\* The child's message for medium m.
Serialized(m) == SerializeMessage(BuildMessage(content, m))

\* messagesReceived, the element the next message goes to.
NextFree == 4 - Cardinality(pending)

\* The message on medium m is taken, in any order.
Deliver(m) ==
  /\ phase = "receive" /\ m \in pending
  /\ messages' = [messages EXCEPT ![NextFree] =
                    [DeserializeMessage(Serialized(m), @) EXCEPT !.medium = m]]
  /\ pending' = pending \ {m}
  /\ UNCHANGED <<phase, content, out, reused, round>>

\* sortMessages on the messages of one file.
Sorted ==
  [m \in Media |-> CHOOSE s \in {messages[k] : k \in Media} : s.medium = m]

\* The name of the output is the path of the first part, cut at the first
\* ".txt": that of the file when the path begins with it.
NamesOutput(path) == path # <<>> /\ path[1] = FilePath[1]

\* A plain text of the file may spell another name that can be opened.
Spells(path) ==
  \E j \in DOMAIN path :
    path[j] \in Alphabet \ {",", " ", "]", Pid, FilePath[1]}

\* writeOutFile, free.
WriteOutFile ==
  /\ phase = "receive" /\ pending = {}
  /\ messages' = Sorted
  /\ NamesOutput(messages'[0].path) \/ Spells(messages'[0].path)
  /\ out' = messages'
  /\ phase' = "idle"
  /\ UNCHANGED <<content, pending, reused, round>>

\* Another path either has no ".txt", and the write through the NULL of strstr
\* kills the server, or names what cannot be opened, and ErrExit ends it.
OutputFails ==
  /\ phase = "receive" /\ pending = {}
  /\ messages' = Sorted
  /\ ~NamesOutput(messages'[0].path)
  /\ phase' = "failed"
  /\ UNCHANGED <<content, pending, out, reused, round>>

\* Nobody sends another SIGINT, or the server has ended.
Done ==
  /\ phase = "failed" \/ (phase = "idle" /\ round = MaxRounds)
  /\ UNCHANGED vars

Next ==
  \/ \E text \in Texts : StartRound(text)
  \/ \E m \in Media : Deliver(m)
  \/ WriteOutFile
  \/ OutputFails
  \/ Done

Spec == Init /\ [][Next]_vars

-----------------------------------------------------------------------------
(* Properties.                                                             *)

\* Every variable has its type; no payload outgrows its array.
TypeOK ==
  LET Chars == Alphabet \cup {"[", ",", " ", "]", Pid} \cup {FilePath[1]}
      Slots == [PID : {0, PidNumber}, payload : Seq(Chars), path : Seq(Chars),
                medium : -1..3]
  IN  /\ phase \in {"idle", "receive", "failed"}
      /\ content \in Seq(Alphabet) /\ Len(content) <= MaxLen
      /\ pending \subseteq Media
      /\ messages \in [Media -> Slots] /\ out \in [Media -> Slots]
      /\ \A m \in Media : Len(messages[m].payload) <= PayloadSize
      /\ reused \in BOOLEAN
      /\ round \in 0..MaxRounds

\* The output shows part m as the child has sent it.
Arrived(m) ==
  /\ PayloadString(out[m]) = FilePart(content, m)
  /\ out[m].PID = PidNumber /\ out[m].path = FilePath /\ out[m].medium = m

Written == phase = "idle" /\ round > 0

\* buildMessages loses no character and doubles none, whatever the remainder of
\* the size by 4, and fills the parts evenly, a longer part never after a
\* shorter one.
SplitWhole ==
  LET part == [m \in Media |-> FilePart(content, m)]
  IN  /\ part[0] \o part[1] \o part[2] \o part[3] = content
      /\ \A m \in Media : Len(part[m]) \in (Len(part[0]) - 1)..Len(part[0])
      /\ \A m, l \in Media : m <= l => Len(part[l]) <= Len(part[m])

\* Part m, which fills payload[], is shown with the file's path behind it, and
\* under a path that has the file's twice.
RunsOn(m) ==
  /\ out[m].payload = FilePart(content, m)
  /\ out[m].PID = PidNumber /\ out[m].path = FilePath \o FilePath
  /\ out[m].medium = m

HasComma(t) == \E j \in 1..(Len(t) - 1) : SubSeq(t, j, j + 1) = Comma
HasBracket(t) == \E j \in DOMAIN t : t[j] = "]"
CleanPart(t) == ~HasComma(t) /\ ~HasBracket(t)

\* Which parts survive the text form of a message.  In a clean array every part
\* without ", " and without "]" reaches the output as it was sent, with its PID
\* and its path, whatever the other parts contain and in whatever order the four
\* arrive; one that fills payload[] runs on into its path.  A ", " in the first
\* part is the only text that ends the server instead: a "]" there leaves the
\* name of the output as it is.
CleanPartsArrive ==
  ~reused =>
    /\ Written =>
         \A m \in Media : CleanPart(FilePart(content, m)) =>
           IF Len(FilePart(content, m)) < PayloadSize THEN Arrived(m) ELSE RunsOn(m)
    /\ phase = "failed" => HasComma(FilePart(content, 0))

\* Every output holds the four parts of its file, as the requirements ask.
FileWhole == Written => \A m \in Media : Arrived(m)
=============================================================================
