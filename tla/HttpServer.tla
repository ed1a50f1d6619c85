----------------------------- MODULE HttpServer -----------------------------
(***************************************************************************)
(* ember_serve of src/server.c: the accept loop, the connections that wait *)
(* in the listen backlog, the one that is read and answered, the signals   *)
(* that end the server, and the clients.  The steps of read_request on the *)
(* connection at hand are those of RequestReader; what a chat completion   *)
(* does is in ChatStream, here it is one of the answers.                   *)
(***************************************************************************)
EXTENDS Integers, Sequences

CONSTANTS Conn,          \* the connections clients make
          NoConn,        \* no connection
          Backlog,       \* the second argument of listen()
          HeaderLens, BodyLens, ContentLens, RecvMax, MaxRequest, Addresses, W
                         \* of RequestReader

ASSUME ConnAssumption == NoConn \notin Conn
ASSUME BacklogAssumption == Backlog \in Nat \ {0}
ASSUME SizesAssumption ==
    /\ HeaderLens \subseteq Nat /\ BodyLens \subseteq Nat
    /\ ContentLens \subseteq Int
    /\ RecvMax \in Nat \ {0} /\ MaxRequest \in Nat
ASSUME MemoryAssumption ==
    /\ W \in Nat
    /\ Addresses \subseteq 1 .. W - 1
    /\ \A a \in Addresses : a + 2 * (MaxRequest + RecvMax + 1) < W

\* What a request asks for: method and path, or a request line that
\* read_request does not accept.
Malformed == "malformed"
Routes == {"options", "health", "models", "chat", "unknown", Malformed}

VARIABLES pc,            \* where ember_serve is
          g_stop,        \* set by the signal handler
          listening,     \* the listening socket is open
          backlog,       \* connections not accepted yet, oldest first
          fd,            \* the connection being served
          resources,     \* the allocated parts of Server
          conn,          \* conn[c]: the state of c
          reply,         \* reply[c]: the statuses its client received
          rpc, hlen, blen, left, socket,   \* of RequestReader
          base, len, cap, hdr_end, route, content_len, body, body_len

server == <<pc, g_stop, listening, fd, resources>>
wire   == <<conn, reply>>
reader == <<rpc, hlen, blen, left, socket,
            base, len, cap, hdr_end, route, content_len, body, body_len>>
vars   == <<server, backlog, wire, reader>>

\* read_request of the connection being served.
Reader == INSTANCE RequestReader
            WITH pc <- rpc, open <- fd # NoConn /\ conn[fd] = "open"

Init == /\ pc = "start"
        /\ g_stop = FALSE
        /\ listening = FALSE
        /\ backlog = <<>>
        /\ fd = NoConn
        /\ resources = {}
        /\ conn = [c \in Conn |-> "new"]
        /\ reply = [c \in Conn |-> <<>>]
        /\ rpc = "idle" /\ hlen = 0 /\ blen = 0 /\ left = 0 /\ socket = 0
        /\ base = 0 /\ len = 0 /\ cap = 0
        /\ hdr_end = 0 /\ route = Malformed /\ content_len = -1 /\ body = 0 /\ body_len = 0

-----------------------------------------------------------------------------
(* Starting, lines 455-503. *)

\* ember_model_load fails: return 1.
LoadFails == /\ pc = "start"
             /\ pc' = "failed"
             /\ UNCHANGED <<g_stop, listening, fd, resources, backlog, wire, reader>>

Load == /\ pc = "start"
        /\ resources' = {"model", "tokenizer", "state", "threads"}
        /\ pc' = "bind"
        /\ UNCHANGED <<g_stop, listening, fd, backlog, wire, reader>>

\* The port is taken: return 1, or the process dies.
BindFails == /\ pc = "bind"
             /\ pc' = "failed"
             /\ UNCHANGED <<g_stop, listening, fd, resources, backlog, wire, reader>>

Listen == /\ pc = "bind"
          /\ listening' = TRUE
          /\ pc' = "loop"
          /\ UNCHANGED <<g_stop, fd, resources, backlog, wire, reader>>

-----------------------------------------------------------------------------
(* The accept loop, lines 505-513. *)

TestStop == /\ pc = "loop"
            /\ pc' = IF g_stop THEN "shutdown" ELSE "enter"
            /\ UNCHANGED <<g_stop, listening, fd, resources, backlog, wire, reader>>

\* poll is called; a signal that arrived since the test does not interrupt it.
EnterPoll == /\ pc = "enter"
             /\ pc' = "poll"
             /\ UNCHANGED <<g_stop, listening, fd, resources, backlog, wire, reader>>

\* Mutant: poll waits without a timeout.
PollForever == /\ pc = "poll"
               /\ backlog = <<>>
               /\ UNCHANGED vars

\* 500 ms without a connection.
PollTimesOut == /\ pc = "poll"
                /\ backlog = <<>>
                /\ pc' = "loop"
                /\ UNCHANGED <<g_stop, listening, fd, resources, backlog, wire, reader>>

PollReady == /\ pc = "poll"
             /\ backlog # <<>>
             /\ pc' = "accept"
             /\ UNCHANGED <<g_stop, listening, fd, resources, backlog, wire, reader>>

\* The oldest connection of the backlog is accepted.
Accept == /\ pc = "accept"
          /\ fd' = Head(backlog)
          /\ backlog' = Tail(backlog)
          /\ pc' = "read"
          /\ UNCHANGED <<g_stop, listening, resources, wire>>
          /\ Reader!Accept

\* accept fails, say for want of file descriptors: the loop goes on.
AcceptFails == /\ pc = "accept"
               /\ pc' = "loop"
               /\ UNCHANGED <<g_stop, listening, fd, resources, backlog, wire, reader>>

-----------------------------------------------------------------------------
(* handle_connection, lines 430-449. *)

\* The statuses a route answers with; a chat completion may refuse its request.
Statuses(r) == CASE r = "options" -> {204}
                 [] r \in {"health", "models"} -> {200}
                 [] r = "chat" -> {200, 400}
                 [] r = "unknown" -> {404}

\* What the client of connection c receives, if it is still there.
Receive(c, status) ==
    reply' = IF conn[c] = "open" THEN [reply EXCEPT ![c] = Append(@, status)]
             ELSE reply

\* A step of read_request.
Read == /\ pc = "read"
        /\ UNCHANGED <<server, backlog, wire>>
        /\ Reader!Read

\* read_request fails: the connection is closed without an answer.
ReadFails == /\ pc = "read"
             /\ rpc = "failed"
             /\ pc' = "close"
             /\ UNCHANGED <<g_stop, listening, fd, resources, backlog, wire, reader>>

\* Mutant: the answer to GET /health is followed by the 404 of unknown routes.
RespondTwice == /\ pc = "read"
                /\ rpc = "done"
                /\ \E status \in Statuses(route) : Receive(fd, status)
                /\ pc' = IF route = "health" THEN "read" ELSE "close"
                /\ route' = "unknown"
                /\ UNCHANGED <<g_stop, listening, fd, resources, backlog, conn, rpc, hlen,
                               blen, left, socket, base, len, cap, hdr_end, content_len,
                               body, body_len>>

\* The request is routed and answered.
Respond == /\ pc = "read"
           /\ rpc = "done"
           /\ \E status \in Statuses(route) : Receive(fd, status)
           /\ pc' = "close"
           /\ UNCHANGED <<g_stop, listening, fd, resources, backlog, conn, reader>>

\* Mutant: a connection whose client left is not closed.
CloseOpenOnly == /\ pc = "close"
                 /\ conn' = [conn EXCEPT ![fd] = IF @ = "open" THEN "closed" ELSE @]
                 /\ fd' = NoConn
                 /\ pc' = "loop"
                 /\ UNCHANGED <<g_stop, listening, resources, backlog, reply>>
                 /\ Reader!End

\* Line 512: handle_connection has freed the buffer.
CloseFd == /\ pc = "close"
           /\ conn' = [conn EXCEPT ![fd] = IF @ = "open" THEN "closed" ELSE "gone"]
           /\ fd' = NoConn
           /\ pc' = "loop"
           /\ UNCHANGED <<g_stop, listening, resources, backlog, reply>>
           /\ Reader!End

-----------------------------------------------------------------------------
Waiting == {backlog[k] : k \in DOMAIN backlog}

\* Mutant: the listening socket stays open.
ShutdownLeavesSocket == /\ pc = "shutdown"
                        /\ resources' = {}
                        /\ pc' = "stopped"
                        /\ UNCHANGED <<g_stop, listening, fd, backlog, wire, reader>>

\* Lines 515-521: the connections of the backlog are reset by the kernel.
Shutdown == /\ pc = "shutdown"
            /\ listening' = FALSE
            /\ backlog' = <<>>
            /\ conn' = [c \in Conn |-> IF c \in Waiting THEN "reset" ELSE conn[c]]
            /\ resources' = {}
            /\ pc' = "stopped"
            /\ UNCHANGED <<g_stop, fd, reply, reader>>

-----------------------------------------------------------------------------
(* The environment. *)

\* SIGINT or SIGTERM sets the flag and interrupts poll.  A recv, send or accept
\* in progress goes on: signal() restarts it, and the code retries EINTR.
Signal == /\ ~g_stop
          /\ pc \notin {"failed", "stopped"}
          /\ g_stop' = TRUE
          /\ pc' = IF pc = "poll" THEN "loop" ELSE pc
          /\ UNCHANGED <<listening, fd, resources, backlog, wire, reader>>

\* A client connects, and the kernel queues it when the backlog has room.
Connect(c) == /\ conn[c] = "new"
              /\ listening /\ Len(backlog) < Backlog
              /\ backlog' = Append(backlog, c)
              /\ conn' = [conn EXCEPT ![c] = "open"]
              /\ UNCHANGED <<server, reply, reader>>

\* More of the request being read arrives.
SendMore == /\ UNCHANGED <<server, backlog, wire>>
            /\ \E n \in 1 .. left : Reader!Send(n)

\* The client leaves before the server has closed the connection.
HangUp(c) == /\ conn[c] = "open"
             /\ conn' = [conn EXCEPT ![c] = "left"]
             /\ UNCHANGED <<server, backlog, reply, reader>>

\* The process has ended.
Ended == pc \in {"failed", "stopped"} /\ UNCHANGED vars

ServerStep == \/ Load \/ Listen
              \/ TestStop \/ EnterPoll \/ PollTimesOut \/ PollReady \/ Accept
              \/ Read \/ ReadFails \/ Respond \/ CloseFd
              \/ Shutdown

Failure == LoadFails \/ BindFails \/ AcceptFails

ClientStep == SendMore \/ \E c \in Conn : Connect(c) \/ HangUp(c)

Next == ServerStep \/ Failure \/ Signal \/ ClientStep \/ Ended

Spec == Init /\ [][Next]_vars

\* The server's thread runs whenever it can; accept does not fail for ever.
FairServer == Spec /\ WF_vars(ServerStep) /\ SF_vars(Accept)

\* The client being served sends the whole of its request or hangs up.
ClientsGoOn == WF_vars(SendMore \/ \E c \in Conn : c = fd /\ HangUp(c))

FairSpec == FairServer /\ ClientsGoOn

-----------------------------------------------------------------------------
(* Properties *)

\* No connection is lost or served twice: one that was made and not ended by
\* the server waits in the backlog, once, or is the one being served.
OnePlaceEach ==
    /\ \A c \in Conn : conn[c] \in {"open", "left"} <=> c \in Waiting \cup {fd}
    /\ fd \notin Waiting
    /\ \A j, k \in DOMAIN backlog : backlog[j] = backlog[k] => j = k
    /\ rpc = "idle" <=> fd = NoConn

\* A client gets one answer, the one of its route, unless it left or read_request
\* gave its request up, and nothing before its turn.
AnsweredOnce ==
    \A c \in Conn :
        /\ Len(reply[c]) <= 1
        /\ reply[c] # <<>> => (pc = "close" /\ c = fd) \/ conn[c] \in {"closed", "gone"}
        /\ pc = "close" /\ c = fd /\ conn[c] = "open" =>
              reply[c] \in IF rpc = "failed" THEN {<<>>}
                          ELSE {<<status>> : status \in Statuses(route)}

\* An orderly exit leaves nothing behind: everything allocated was freed, the
\* listening socket is closed and no client waits for an answer.
CleanExit ==
    pc = "stopped" =>
        /\ resources = {} /\ ~listening /\ backlog = <<>>
        /\ \A c \in Conn : conn[c] \notin {"open", "left"}

\* Every client that connects is answered, given up or reset by an orderly exit,
\* however it and the clients before it cut their requests or left.
RequestsEnd == \A c \in Conn : conn[c] = "open" ~> conn[c] \notin {"open", "left"}

\* A signal ends the server, whenever it arrives (server.c:69, server.h:34:
\* "serve until SIGINT/SIGTERM").
StopEnds == g_stop ~> pc \in {"stopped", "failed"}

\* The framing of RequestReader, on every connection in turn.
BodyIsFramed == Reader!BodyIsFramed
=============================================================================
