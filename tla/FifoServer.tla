----------------------------- MODULE FifoServer -----------------------------
(***************************************************************************)
(* Requests over a server's FIFO, responses over one FIFO per client       *)
(* (soluzioni/solutions_fifo/ese_3).  The name /tmp/fifo_server outlives a *)
(* server that is killed; every start that succeeds makes a new pipe       *)
(* behind it, which a client keeps open whatever becomes of the name.      *)
(***************************************************************************)
EXTENDS Naturals, Sequences, FiniteSets

CONSTANTS Clients, NoClient, MaxStarts \* the times a server is started

VARIABLES server,   \* control point of the server
          pipe,     \* the pipe that /tmp/fifo_server names, 0 when there is none
          starts,
          armed,    \* an alarm is set
          fifo,     \* the requests in the named pipe, by client
          request,  \* the client whose request the server has read last
          client,   \* control point of every client
          fd,       \* the pipe a client has open, 0 when none
          answered, \* the clients whose FIFO has received a response
          taken     \* history: the signals the last server has taken

vars == <<server, pipe, starts, armed, fifo, request, client, fd, answered, taken>>

Reading == {"read", "got", "respond", "write"} \* the server holds the read end
Quitting == {"quitInt", "quitAlarm"}
ServerPC == {"off", "made", "handlers", "open"} \union Reading \union Quitting
ClientPC == {"start", "opening", "opened", "waiting", "reading",
             "done", "failed", "dead"}
Ended == {"done", "failed", "dead"}

Init ==
    /\ server = "off" /\ pipe = 0 /\ starts = 0 /\ armed = FALSE
    /\ fifo = <<>> /\ request = NoClient
    /\ client = [c \in Clients |-> "start"]
    /\ fd = [c \in Clients |-> 0] /\ answered = {} /\ taken = {}

-----------------------------------------------------------------------------
(* The server *)

\* mkfifo refuses a name that a server before has left, and the start fails.
Start ==
    /\ server = "off" /\ starts < MaxStarts
    /\ starts' = starts + 1
    /\ \/ pipe # 0 /\ UNCHANGED <<server, pipe, taken>>
       \/ pipe = 0 /\ pipe' = starts' /\ server' = "made" /\ taken' = {}
    /\ UNCHANGED <<armed, fifo, request, client, fd, answered>>

Opening == {c \in Clients : client[c] = "opening" /\ fd[c] = pipe}

SetHandlers ==
    /\ server = "made" /\ server' = "handlers"
    /\ armed' = TRUE
    /\ UNCHANGED <<pipe, starts, fifo, request, client, fd, answered, taken>>

\* The open waits for a writer, and wakes the clients that wait for a reader.
\* The extra descriptor opens at once.
Listen ==
    /\ server = "handlers"
    /\ server' = IF Opening = {} THEN "open" ELSE "read"
    /\ client' = [c \in Clients |-> IF c \in Opening THEN "opened" ELSE client[c]]
    /\ UNCHANGED <<pipe, starts, armed, fifo, request, fd, answered, taken>>

\* Mutant: the request is served before it is taken from the FIFO.
ReadRequestPeeks ==
    /\ server = "read" /\ fifo # <<>>
    /\ request' = Head(fifo) /\ server' = "got"
    /\ UNCHANGED <<pipe, starts, armed, fifo, client, fd, answered, taken>>

ReadRequest ==
    /\ server = "read" /\ fifo # <<>>
    /\ request' = Head(fifo) /\ fifo' = Tail(fifo)
    /\ server' = "got"
    /\ UNCHANGED <<pipe, starts, armed, client, fd, answered, taken>>

\* Mutant: the alarm runs out while the server answers.
RemoveAlarmNot ==
    /\ server = "got" /\ server' = "respond"
    /\ UNCHANGED <<pipe, starts, armed, fifo, request, client, fd, answered, taken>>

RemoveAlarm ==
    /\ server = "got"
    /\ armed' = FALSE /\ server' = "respond"
    /\ UNCHANGED <<pipe, starts, fifo, request, client, fd, answered, taken>>

\* Both opens of a client's FIFO wait for each other.
OpenClientFifo ==
    /\ server = "respond" /\ client[request] = "waiting"
    /\ server' = "write"
    /\ client' = [client EXCEPT ![request] = "reading"]
    /\ UNCHANGED <<pipe, starts, armed, fifo, request, fd, answered, taken>>

\* Mutant: the alarm is not set again after a response.
RespondNoAlarm ==
    /\ server = "write" /\ client[request] = "reading"
    /\ answered' = answered \union {request} /\ server' = "read"
    /\ UNCHANGED <<pipe, starts, armed, fifo, request, client, fd, taken>>

\* Mutant: the server goes back to the FIFO without a response.
RespondNothing ==
    /\ server = "write" /\ client[request] = "reading"
    /\ armed' = TRUE /\ server' = "respond"
    /\ UNCHANGED <<pipe, starts, fifo, request, client, fd, answered, taken>>

Respond ==
    /\ server = "write" /\ client[request] = "reading"
    /\ answered' = answered \union {request}
    /\ armed' = TRUE /\ server' = "read"
    /\ UNCHANGED <<pipe, starts, fifo, request, client, fd, taken>>

Took(signal) == taken' = taken \union {signal}

\* The process ends and leaves the name of its FIFO behind.
Killed == server' = "off" /\ armed' = FALSE /\ fifo' = <<>>
          /\ UNCHANGED <<pipe, starts, request, client, fd, answered>>

\* SIGPIPE has its default action.
BrokenPipe ==
    server = "write" /\ client[request] = "dead" /\ Killed /\ Took("SIGPIPE")

\* quit(): the descriptors, if it has any, are closed, then the name is removed.
QuitFrom(pcs, at) ==
    /\ server \in pcs /\ server' = at /\ fifo' = <<>>
    /\ UNCHANGED <<pipe, starts, request, client, fd, answered>>

QuitUnopened ==
    /\ server \in {"handlers", "open"} /\ server' = "off"
    /\ pipe' = 0 /\ armed' = FALSE
    /\ UNCHANGED <<starts, fifo, request, client, fd, answered>>

\* Mutant: quit() does not remove the name.
UnlinkNot ==
    /\ server \in Quitting
    /\ server' = "off" /\ armed' = FALSE
    /\ UNCHANGED <<pipe, starts, fifo, request, client, fd, answered, taken>>

Unlink ==
    /\ server \in Quitting
    /\ server' = "off" /\ pipe' = 0 /\ armed' = FALSE
    /\ UNCHANGED <<starts, fifo, request, client, fd, answered, taken>>

\* A second quit() in the first closes a closed descriptor and exits.
Alarm ==
    /\ armed /\ Took("SIGALRM")
    /\ \/ QuitFrom(Reading, "quitAlarm") /\ armed' = FALSE
       \/ QuitUnopened
       \/ server = "quitInt" /\ Killed

SigInt ==
    \/ /\ Took("SIGINT")
       /\ \/ QuitFrom(Reading, "quitInt") /\ armed' = armed
          \/ QuitUnopened
          \/ server = "quitAlarm" /\ Killed
    \/ server = "made" /\ Killed /\ Took("early SIGINT")

-----------------------------------------------------------------------------
(* The clients *)

\* A client makes its own FIFO and opens the server's.
OpenServerFifo(c) ==
    /\ client[c] = "start"
    /\ \/ /\ pipe = 0
          /\ client' = [client EXCEPT ![c] = "failed"]
          /\ UNCHANGED <<server, fd>>
       \/ /\ pipe # 0
          /\ fd' = [fd EXCEPT ![c] = pipe]
          /\ client' = [client EXCEPT ![c] =
                IF server \in Reading \union {"open"} THEN "opened" ELSE "opening"]
          /\ server' = IF server = "open" THEN "read" ELSE server
    /\ UNCHANGED <<pipe, starts, armed, fifo, request, answered, taken>>

\* Without a reader the write is answered by SIGPIPE.
SendRequest(c) ==
    /\ client[c] = "opened"
    /\ \/ /\ server \in Reading /\ fd[c] = pipe
          /\ fifo' = Append(fifo, c)
          /\ client' = [client EXCEPT ![c] = "waiting"]
       \/ /\ server \notin Reading \/ fd[c] # pipe
          /\ client' = [client EXCEPT ![c] = "dead"]
          /\ UNCHANGED fifo
    /\ UNCHANGED <<server, pipe, starts, armed, request, fd, answered, taken>>

\* The FIFO of a client ends unread when the server quits between open and write.
ReadResponse(c) ==
    /\ client[c] = "reading"
    /\ c \in answered \/ server # "write" \/ request # c
    /\ client' = [client EXCEPT ![c] = IF c \in answered THEN "done" ELSE "failed"]
    /\ UNCHANGED <<server, pipe, starts, armed, fifo, request, fd, answered, taken>>

Die(c) ==
    /\ client[c] \notin Ended
    /\ client' = [client EXCEPT ![c] = "dead"]
    /\ UNCHANGED <<server, pipe, starts, armed, fifo, request, fd, answered, taken>>

-----------------------------------------------------------------------------
Server == SetHandlers \/ Listen \/ ReadRequest \/ RemoveAlarm \/ OpenClientFifo \/ Respond
          \/ BrokenPipe \/ Unlink
Client(c) == OpenServerFifo(c) \/ SendRequest(c) \/ ReadResponse(c)

Next == Start \/ Server \/ Alarm \/ SigInt \/ \E c \in Clients : Client(c) \/ Die(c)

Fairness == WF_vars(Server) /\ WF_vars(Alarm) /\ \A c \in Clients : WF_vars(Client(c))

Spec == Init /\ [][Next]_vars /\ Fairness

-----------------------------------------------------------------------------
(* Every variable has its type; a server between open and quit has its own
   pipe behind the name, and an alarm runs except while it answers. *)
TypeOK ==
    /\ server \in ServerPC /\ starts \in 0..MaxStarts /\ pipe \in 0..starts
    /\ armed \in BOOLEAN /\ fifo \in Seq(Clients)
    /\ request \in Clients \union {NoClient}
    /\ client \in [Clients -> ClientPC] /\ fd \in [Clients -> 0..MaxStarts]
    /\ answered \subseteq Clients
    /\ taken \subseteq {"SIGINT", "SIGALRM", "SIGPIPE", "early SIGINT"}
    /\ server # "off" => pipe # 0
    /\ server \in {"got", "respond", "write"} => request \in Clients
    /\ server \in {"handlers", "open", "read", "got"} => armed
    /\ server \in {"off", "made", "respond", "write", "quitAlarm"} => ~armed

Queued(c) == {i \in 1..Len(fifo) : fifo[i] = c}

\* The server a client has sent its request to still holds that pipe.
Served(c) == server \in Reading /\ fd[c] = pipe

(* A request is never lost or doubled while its server lives: a client that
   waits has it in the FIFO once, or in the server's hands, not both. *)
RequestAccounted ==
    \A c \in Clients :
        client[c] = "waiting" /\ Served(c) =>
            IF request = c /\ server \in {"got", "respond"}
            THEN Queued(c) = {} ELSE Cardinality(Queued(c)) = 1

(* Nobody is answered who has not been read from the FIFO by an open server,
   and the request of an answered client is never answered again. *)
AnsweredOnce ==
    \A c \in answered : Queued(c) = {} /\ ~(request = c /\ server \in {"got", "respond", "write"})

Blocked == server = "respond" /\ client[request] = "dead"

(* A client that waits for its response gets it, unless it dies, its server
   goes away, or the server is blocked in open on the FIFO of a client that
   died after sending its request (no alarm runs there: alarm(0)). *)
ClientServed ==
    \A c \in Clients :
        client[c] = "waiting" ~> (client[c] \in Ended \/ ~Served(c) \/ Blocked)

(* An idle server goes away by its alarm: in the end no server is up but one
   that is blocked on a dead client's FIFO. *)
ServerEnds == <>[](server = "off" \/ Blocked)

(* A server that has ended has left its name behind, and with it every later
   start without success, only if it was killed by SIGPIPE at the FIFO of a
   dead client, by a SIGINT before the handlers were installed, or by the
   second of two different signals inside quit(). *)
NameLeftBehind ==
    server = "off" /\ pipe # 0 =>
        \/ "early SIGINT" \in taken
        \/ "SIGPIPE" \in taken /\ client[request] = "dead"
        \/ {"SIGINT", "SIGALRM"} \subseteq taken

=============================================================================
