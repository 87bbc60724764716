----------------------------- MODULE PipeItems ------------------------------
(***************************************************************************)
(* Children read text files and send them in chunks over one pipe to their *)
(* parent (soluzioni/solutions_pipe).  With one child the chunks are plain *)
(* bytes (ese_1); with several each is an item, its size and its value in  *)
(* one write, which the parent takes in two reads (ese_2).                 *)
(***************************************************************************)
EXTENDS Naturals, Sequences, SequencesExt, FiniteSets

CONSTANTS Producers,
          Chunks,    \* the number of chunks of every file
          Unreadable,\* the files that do not open
          Capacity   \* the units the pipe holds; an item is two

VARIABLES exercise,
          forked,    \* the files for which the parent has called fork
          producer,  \* control point of every child
          read,      \* the chunks a child has read of its file
          writers,   \* the processes that have the write end open
          pipe,      \* what is in the pipe, unit by unit
          consumer,  \* control point of the parent
          size,      \* the item whose size the parent has read
          lines      \* the units the parent has printed, print by print

vars == <<exercise, forked, producer, read, writers, pipe, consumer, size, lines>>

Parent == "parent"
Unit(p, i, part) == [producer |-> p, chunk |-> i, part |-> part]
Units == {u \in [producer : Producers, chunk : Nat, part : {"size", "value"}] :
             u.chunk \in 1..Chunks[u.producer]}
NoItem == <<>>

Init ==
    /\ exercise \in {1, 2}
    /\ forked = {} /\ producer = [p \in Producers |-> "none"]
    /\ read = [p \in Producers |-> 0]
    /\ writers = {Parent} /\ pipe = <<>>
    /\ consumer = "fork" /\ size = NoItem /\ lines = <<>>

-----------------------------------------------------------------------------
(* The parent forks its children and becomes the consumer *)

Child(p) == /\ producer' = [producer EXCEPT ![p] = "open"]
            /\ writers' = writers \union {p}

\* Without its child the parent ends.
ForkOne ==
    /\ exercise = 1 /\ consumer = "fork" /\ forked = {}
    /\ forked' = Producers
    /\ \/ (\E p \in Producers : Child(p)) /\ UNCHANGED consumer
       \/ consumer' = "done" /\ writers' = {} /\ UNCHANGED producer
    /\ UNCHANGED <<exercise, read, pipe, size, lines>>

\* The file of a fork that fails will not be read.  The order of the files is
\* left open, since nothing tells one from another.
ForkEach ==
    /\ exercise = 2 /\ consumer = "fork"
    /\ \E p \in Producers \ forked :
          /\ forked' = forked \union {p}
          /\ Child(p) \/ UNCHANGED <<producer, writers>>
    /\ UNCHANGED <<exercise, read, pipe, consumer, size, lines>>

\* Mutant: the parent keeps its write end.
CloseWriteEndNot ==
    /\ consumer = "fork" /\ forked = Producers
    /\ consumer' = "read"
    /\ UNCHANGED <<exercise, forked, producer, read, writers, pipe, size, lines>>

CloseWriteEnd ==
    /\ consumer = "fork" /\ forked = Producers
    /\ consumer' = "read" /\ writers' = writers \ {Parent}
    /\ UNCHANGED <<exercise, forked, producer, read, pipe, size, lines>>

-----------------------------------------------------------------------------
(* The children *)

OpenFile(p) ==
    /\ producer[p] = "open"
    /\ producer' = [producer EXCEPT ![p] = IF p \in Unreadable THEN "ended" ELSE "send"]
    /\ writers' = IF p \in Unreadable THEN writers \ {p} ELSE writers
    /\ UNCHANGED <<exercise, forked, read, pipe, consumer, size, lines>>

Written(p, i) == IF exercise = 1 THEN <<Unit(p, i, "value")>>
                 ELSE <<Unit(p, i, "size"), Unit(p, i, "value")>>

\* Mutant: the size and the value are written by two calls.
SendChunkInParts(p) ==
    /\ producer[p] = "send" /\ read[p] < Chunks[p] /\ Len(pipe) < Capacity
    /\ IF exercise = 2 /\ (pipe = <<>> \/ Last(pipe) # Unit(p, read[p] + 1, "size"))
       THEN pipe' = Append(pipe, Unit(p, read[p] + 1, "size")) /\ UNCHANGED read
       ELSE /\ pipe' = Append(pipe, Unit(p, read[p] + 1, "value"))
            /\ read' = [read EXCEPT ![p] = @ + 1]
    /\ UNCHANGED <<exercise, forked, producer, writers, consumer, size, lines>>

\* A write of at most PIPE_BUF bytes is one step and waits until all fit.
SendChunk(p) ==
    /\ producer[p] = "send" /\ read[p] < Chunks[p]
    /\ Len(pipe) + Len(Written(p, 1)) <= Capacity
    /\ read' = [read EXCEPT ![p] = @ + 1]
    /\ pipe' = pipe \o Written(p, read'[p])
    /\ UNCHANGED <<exercise, forked, producer, writers, consumer, size, lines>>

CloseFile(p) ==
    /\ producer[p] = "send" /\ read[p] = Chunks[p]
    /\ producer' = [producer EXCEPT ![p] = "ended"] /\ writers' = writers \ {p}
    /\ UNCHANGED <<exercise, forked, read, pipe, consumer, size, lines>>

-----------------------------------------------------------------------------
(* The consumer *)

PrintLine(units) == lines' = lines \o units

\* One read of ese_1 returns up to as many bytes as one write sends, which
\* need not be those of one write; here whole units.
ReadBytes ==
    /\ exercise = 1 /\ consumer = "read" /\ pipe # <<>>
    /\ pipe' = Tail(pipe) /\ PrintLine(<<Head(pipe)>>)
    /\ UNCHANGED <<exercise, forked, producer, read, writers, consumer, size>>

ReadSize ==
    /\ exercise = 2 /\ consumer = "read" /\ pipe # <<>>
    /\ size' = <<Head(pipe)>> /\ pipe' = Tail(pipe)
    /\ consumer' = "value"
    /\ UNCHANGED <<exercise, forked, producer, read, writers, lines>>

\* Mutant: the value is not printed when the next item is already there.
ReadValueSkips ==
    /\ consumer = "value" /\ pipe # <<>>
    /\ pipe' = Tail(pipe) /\ PrintLine(IF Len(pipe) > 1 THEN <<>> ELSE <<Head(pipe)>>)
    /\ size' = NoItem /\ consumer' = "read"
    /\ UNCHANGED <<exercise, forked, producer, read, writers>>

ReadValue ==
    /\ consumer = "value" /\ pipe # <<>>
    /\ pipe' = Tail(pipe) /\ PrintLine(<<Head(pipe)>>)
    /\ size' = NoItem /\ consumer' = "read"
    /\ UNCHANGED <<exercise, forked, producer, read, writers>>

\* Mutant: read does not wait on an empty pipe.
EndOfPipeEarly ==
    /\ consumer = "read" /\ pipe = <<>>
    /\ consumer' = IF exercise = 1 THEN "done" ELSE "wait"
    /\ UNCHANGED <<exercise, forked, producer, read, writers, pipe, size, lines>>

\* read returns 0 when the pipe is empty and no process can write to it.
EndOfPipe ==
    /\ consumer = "read" /\ pipe = <<>> /\ writers = {}
    /\ consumer' = IF exercise = 1 THEN "done" ELSE "wait"
    /\ UNCHANGED <<exercise, forked, producer, read, writers, pipe, size, lines>>

WaitAll ==
    /\ consumer = "wait" /\ \A p \in Producers : producer[p] \in {"none", "ended"}
    /\ consumer' = "done"
    /\ UNCHANGED <<exercise, forked, producer, read, writers, pipe, size, lines>>

-----------------------------------------------------------------------------
Consumer == ForkOne \/ ForkEach \/ CloseWriteEnd \/ ReadBytes \/ ReadSize
            \/ ReadValue \/ EndOfPipe \/ WaitAll
Producer(p) == OpenFile(p) \/ SendChunk(p) \/ CloseFile(p)

Next == Consumer \/ \E p \in Producers : Producer(p)

Spec == Init /\ [][Next]_vars /\ WF_vars(Consumer)
        /\ \A p \in Producers : WF_vars(Producer(p))

-----------------------------------------------------------------------------
(* Every variable has its type; a child has the write end open exactly while
   it lives, and the parent gives up its own before it reads. *)
TypeOK ==
    /\ exercise \in {1, 2} /\ forked \subseteq Producers
    /\ producer \in [Producers -> {"none", "open", "send", "ended"}]
    /\ \A p \in Producers : read[p] \in 0..Chunks[p]
    /\ writers = {p \in Producers : producer[p] \in {"open", "send"}}
                 \union IF consumer = "fork" THEN {Parent} ELSE {}
    /\ pipe \in Seq(Units) /\ Len(pipe) <= Capacity
    /\ consumer \in {"fork", "read", "value", "wait", "done"}
    /\ size \in Seq(Units) /\ (size # NoItem <=> consumer = "value")
    /\ lines \in Seq(Units)

(* A size is always followed by the value that its child wrote with it, in
   the pipe and between the two reads, however the writes interleave. *)
ItemsWhole ==
    exercise = 2 =>
        LET s == size \o pipe IN
          \A i \in 1..Len(s) : s[i].part = "size" =>
              i < Len(s) /\ s[i + 1] = [s[i] EXCEPT !.part = "value"]

(* Of every file, what was printed and what is in the pipe are exactly the
   chunks that its child has read so far, once each and in order. *)
ChunksInOrder ==
    LET s == lines \o pipe
        values(p) == {j \in 1..Len(s) : s[j].producer = p /\ s[j].part = "value"}
    IN  \A p \in Producers :
          /\ {s[j].chunk : j \in values(p)} = 1..read[p]
          /\ \A i, j \in values(p) : i < j => s[i].chunk < s[j].chunk

(* When the parent sees the end of the pipe, all that the children could read
   has been printed: it never takes a pause of the writers for the end. *)
EndIsTheEnd ==
    consumer \in {"wait", "done"} =>
        \A p \in Producers : /\ producer[p] \in {"none", "ended"}
                             /\ producer[p] = "ended" /\ p \notin Unreadable =>
                                    Cardinality({i \in DOMAIN lines : lines[i].producer = p})
                                        = Chunks[p]

(* The parent ends, whatever forks fail and whatever files do not open: some
   process always closes the last write end, and no child waits for room in
   a pipe that nobody reads. *)
ParentEnds == <>(consumer = "done")

=============================================================================
