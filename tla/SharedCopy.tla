----------------------------- MODULE SharedCopy -----------------------------
(***************************************************************************)
(* A server copies a file into a client's shared memory segment            *)
(* (soluzioni/solutions_shared_memory/solutions): in one piece (ese_4) or  *)
(* chunk by chunk with an acknowledgement (ese_5).  The server creates and *)
(* initialises the semaphore set, the client removes it.                   *)
(***************************************************************************)
EXTENDS Integers, Sequences

CONSTANTS Texts,     \* chunks that begin with neither 0 nor -1
          Files,     \* the contents a file may have, as sequences of chunks
          LeftValues \* values of a semaphore that an earlier run leaves

(* A chunk is what one read returns, or nothing, and what the client shows of
   it.  Those that begin with 0 or -1 have one value each. *)
Ends == {"nul", "ff"}    \* 0 and -1, where the loop of the client stops
Chunks == Texts \union Ends
Kinds == {"file", "missing", "directory"} \* a directory opens but cannot be read

REQUEST == 0
DATA_READY == 1
CLIENT_READY == 2

VARIABLES exercise, kind, file,
          zeroId,   \* the kernel gives the set the identifier 0
          left,     \* the values of a set that an earlier run has left
          server, client,
          set,      \* the semaphore set exists
          sem,
          segment,  \* the server's shared memory segment exists
          buffer,   \* what the client's segment begins with
          next,     \* the chunks the server has read, and the read of 0 bytes
          printed   \* what the client has shown

params == <<exercise, kind, file, zeroId, left>>
vars == <<params, server, client, set, sem, segment, buffer, next, printed>>

ServerPC == {"start", "init", "wait", "open", "read", "notify", "ack",
             "detach", "done", "failed"}
ClientPC == {"start", "key", "post", "data", "show", "remove", "done", "failed"}
Ended == {"done", "failed"}

Zeros == [s \in 0..2 |-> 0]

\* Programs of an earlier run that were killed may have left the set with any
\* values, and the client's segment with any chunk; a new segment is all 0.
Init ==
    /\ exercise \in {4, 5} /\ kind \in Kinds /\ zeroId \in BOOLEAN
    /\ file \in IF kind = "file" THEN Files ELSE {<<>>}
    /\ server = "start" /\ client = "start"
    /\ set \in BOOLEAN /\ left \in IF set THEN [0..2 -> LeftValues] ELSE {Zeros}
    /\ sem = left
    /\ segment = FALSE /\ buffer \in Chunks /\ next = 0 /\ printed = <<>>

SemOp(s, n) == set /\ sem[s] + n >= 0 /\ sem' = [sem EXCEPT ![s] = @ + n]

Go(pc) == server' = pc /\ UNCHANGED <<params, client, printed>>
Move(pc) == client' = pc /\ UNCHANGED <<params, server, next>>

-----------------------------------------------------------------------------
(* The server *)

\* semget keeps the values of a set that is there; a new one has zeros.
CreateSet ==
    /\ server = "start" /\ Go("init")
    /\ segment' = TRUE /\ set' = TRUE
    /\ sem' = IF set THEN sem ELSE Zeros
    /\ UNCHANGED <<buffer, next>>

\* Mutant: the set keeps what an earlier run has left.
SetAllNot ==
    /\ server = "init" /\ set /\ Go("wait")
    /\ UNCHANGED <<set, sem, segment, buffer, next>>

SetAll ==
    /\ server = "init" /\ set /\ Go("wait")
    /\ sem' = Zeros
    /\ UNCHANGED <<set, segment, buffer, next>>

WaitRequest ==
    /\ server = "wait" /\ Go("open")
    /\ SemOp(REQUEST, -1)
    /\ UNCHANGED <<set, segment, buffer, next>>

\* Every call on a set that the client has removed ends the server, and its
\* segment stays.
SetRemoved ==
    /\ server \in {"init", "wait", "notify", "ack"} /\ ~set /\ Go("failed")
    /\ UNCHANGED <<set, sem, segment, buffer, next>>

Missing == /\ server = "open" /\ kind = "missing"
           /\ buffer' = "ff"
           /\ UNCHANGED <<set, sem, segment, next>>

Opened == /\ server = "open" /\ kind # "missing" /\ Go("read")
          /\ UNCHANGED <<set, sem, segment, buffer, next>>

\* Mutant: the last chunk, of zero bytes, is not notified.
CopyFileNoEnd ==
    /\ exercise = 5
    /\ \/ Missing /\ Go("detach")
       \/ Opened
       \/ /\ server = "read" /\ kind = "directory" /\ Go("detach")
          /\ UNCHANGED <<set, sem, segment, buffer, next>>
       \/ /\ server = "read" /\ kind = "file"
          /\ Go(IF next < Len(file) THEN "notify" ELSE "detach")
          /\ next' = next + 1
          /\ buffer' = IF next' <= Len(file) THEN file[next'] ELSE "nul"
          /\ UNCHANGED <<set, sem, segment>>

CopyFile ==
    /\ exercise = 5
    /\ \/ Missing /\ Go("detach")
       \/ Opened
       \/ /\ server = "read" /\ kind = "directory" /\ Go("detach")
          /\ UNCHANGED <<set, sem, segment, buffer, next>>
       \/ /\ server = "read" /\ kind = "file" /\ Go("notify")
          /\ next' = next + 1
          /\ buffer' = IF next' <= Len(file) THEN file[next'] ELSE "nul"
          /\ UNCHANGED <<set, sem, segment>>

\* A read of nothing leaves the buffer as it was.
CopyOnce ==
    /\ exercise = 4
    /\ \/ Missing /\ Go("notify")
       \/ Opened
       \/ /\ server = "read" /\ Go("notify")
          /\ buffer' = IF file = <<>> THEN buffer ELSE Head(file)
          /\ next' = 1
          /\ UNCHANGED <<set, sem, segment>>

\* Mutant: the server does not wait for the acknowledgement.
NotifyChunkOnly ==
    /\ exercise = 5 /\ server = "notify" /\ Go("read")
    /\ SemOp(DATA_READY, 1)
    /\ UNCHANGED <<set, segment, buffer, next>>

NotifyChunk ==
    /\ exercise = 5 /\ server = "notify" /\ Go("ack")
    /\ SemOp(DATA_READY, 1)
    /\ UNCHANGED <<set, segment, buffer, next>>

NotifyOnce ==
    /\ exercise = 4 /\ server = "notify" /\ Go("detach")
    /\ SemOp(DATA_READY, 1)
    /\ UNCHANGED <<set, segment, buffer, next>>

Acknowledged ==
    /\ server = "ack" /\ Go(IF next <= Len(file) THEN "read" ELSE "detach")
    /\ SemOp(CLIENT_READY, -1)
    /\ UNCHANGED <<set, segment, buffer, next>>

Detach ==
    /\ server = "detach" /\ Go("done")
    /\ segment' = FALSE
    /\ UNCHANGED <<set, sem, buffer, next>>

-----------------------------------------------------------------------------
(* The client *)

\* shmget creates the server's segment if the server has not, and the client's
\* own if no earlier client has left it.
Attach ==
    /\ client = "start" /\ Move("key")
    /\ segment' = TRUE
    /\ UNCHANGED <<set, sem, buffer, printed>>

\* semid > 0 is no test for failure: 0 is an identifier.
GetSet ==
    /\ client = "key"
    /\ Move(IF ~set THEN "failed" ELSE IF zeroId THEN "remove" ELSE "post")
    /\ UNCHANGED <<set, sem, segment, buffer, printed>>

PostRequest ==
    /\ client = "post" /\ Move("data")
    /\ SemOp(REQUEST, 1)
    /\ UNCHANGED <<set, segment, buffer, printed>>

AwaitData ==
    /\ client = "data" /\ Move("show")
    /\ SemOp(DATA_READY, -1)
    /\ UNCHANGED <<set, segment, buffer, printed>>

\* Mutant: the client removes the set after the first chunk.
ShowChunkFirst ==
    /\ exercise = 5 /\ client = "show" /\ Move("remove")
    /\ printed' = IF buffer \notin Ends THEN Append(printed, buffer) ELSE printed
    /\ SemOp(CLIENT_READY, 1)
    /\ UNCHANGED <<set, segment, buffer>>

\* Mutant: the client does not acknowledge the end.
ShowChunkNoLastAck ==
    /\ exercise = 5 /\ client = "show"
    /\ LET cond == buffer \notin Ends IN
          /\ printed' = IF cond THEN Append(printed, buffer) ELSE printed
          /\ Move(IF cond THEN "data" ELSE "done")
          /\ IF cond THEN SemOp(CLIENT_READY, 1) ELSE UNCHANGED sem
    /\ UNCHANGED <<set, segment, buffer>>

ShowChunk ==
    /\ exercise = 5 /\ client = "show"
    /\ LET cond == buffer \notin Ends IN
          /\ printed' = IF cond THEN Append(printed, buffer) ELSE printed
          /\ Move(IF cond THEN "data" ELSE "remove")
    /\ SemOp(CLIENT_READY, 1)
    /\ UNCHANGED <<set, segment, buffer>>

ShowOnce ==
    /\ exercise = 4 /\ client = "show" /\ Move("remove")
    /\ printed' = IF buffer = "ff" THEN printed ELSE <<buffer>>
    /\ UNCHANGED <<set, sem, segment, buffer>>

RemoveSet ==
    /\ client = "remove" /\ Move("done")
    /\ set' = FALSE
    /\ UNCHANGED <<sem, segment, buffer, printed>>

-----------------------------------------------------------------------------
Server == CreateSet \/ SetAll \/ WaitRequest \/ SetRemoved \/ CopyFile \/ CopyOnce
          \/ NotifyChunk \/ NotifyOnce \/ Acknowledged \/ Detach
Client == Attach \/ GetSet \/ PostRequest \/ AwaitData \/ ShowChunk \/ ShowOnce
          \/ RemoveSet

Next == Server \/ Client

Spec == Init /\ [][Next]_vars /\ WF_vars(Server) /\ WF_vars(Client)

-----------------------------------------------------------------------------
(* Every variable has its type; once SETALL has run no semaphore passes one
   and the handshake never has data and an acknowledgement ready at once. *)
TypeOK ==
    /\ exercise \in {4, 5} /\ kind \in Kinds /\ file \in Files \union {<<>>}
    /\ zeroId \in BOOLEAN /\ left \in [0..2 -> Nat]
    /\ server \in ServerPC /\ client \in ClientPC
    /\ set \in BOOLEAN /\ segment \in BOOLEAN
    /\ sem \in [0..2 -> Nat]
    /\ server \notin {"start", "init", "failed"} =>
          /\ \A s \in 0..2 : sem[s] <= 1
          /\ sem[DATA_READY] + sem[CLIENT_READY] <= 1
    /\ buffer \in Chunks /\ next \in 0..Len(file) + 1
    /\ printed \in Seq(Chunks)

\* What the client takes for the end of the file.
IsEnd(i) == i > Len(file) \/ file[i] \in Ends

\* The server has taken a request, which the client has posted after SETALL.
Taken == next > 0 \/ server \in {"open", "read", "notify", "ack", "detach", "done"}

(* Whatever an earlier run has left, and although one buffer carries all the
   chunks: of a request that is taken the client of ese_5 shows the chunks of
   the file each once and in order, and stops exactly at the first that begins
   with 0 or -1, which it takes for the end of the file; that of ese_4 shows
   the first chunk or nothing of a file that has one.  A request that is never
   taken is answered only by a DATA_READY that the earlier run has left. *)
ShownInOrder ==
    IF Taken
    THEN /\ exercise = 5 =>
               /\ Len(printed) <= Len(file)
               /\ \A i \in 1..Len(printed) : ~IsEnd(i) /\ printed[i] = file[i]
               /\ client = "remove" => IsEnd(Len(printed) + 1)
         /\ exercise = 4 /\ file # <<>> => printed \in {<<>>, <<Head(file)>>}
    ELSE Len(printed) <= left[DATA_READY]

(* The server is ended by the removal of the set only when the client has
   seen all it will show, when its request was not taken because it went by a
   DATA_READY of the earlier run, or when it never asked because it took the
   identifier 0 for a failure: the race of the last acknowledgement leaves the
   segment behind but costs no data. *)
RaceLosesNoData ==
    server = "failed" =>
        /\ segment
        /\ IF Taken THEN exercise = 5 /\ IsEnd(Len(printed) + 1)
                    ELSE zeroId \/ left[DATA_READY] > 0

\* The request was posted before SETALL, which erased it.
RequestErased == client = "data" /\ server \in {"init", "wait"} /\ sem[REQUEST] = 0

\* No answer: a missing file, or one that cannot be read, is not announced.
NotAnnounced == exercise = 5 /\ kind # "file" /\ client = "data"
                /\ server \in {"detach", "done"}

(* The client ends, unless its request is erased by the initialisation of the
   set or the server of ese_5 has not been able to read the file. *)
ClientEnds == <>(client \in Ended \/ RequestErased \/ NotAnnounced)

(* The server ends, unless the request was erased or the client came before
   the set existed: it never waits for ever for an acknowledgement. *)
ServerEnds == <>(server \in Ended \/ RequestErased \/ (server = "wait" /\ client \in Ended))

=============================================================================
