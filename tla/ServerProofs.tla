---------------------------- MODULE ServerProofs ----------------------------
(***************************************************************************)
(* Proofs about the server: HttpServer and the RequestReader in it, for any*)
(* number of connections, any backlog and requests of every size; and, at  *)
(* the end, the JsonParser of the requests' bodies, for texts of every     *)
(* length.                                                                 *)
(***************************************************************************)
EXTENDS HttpServer, JsonParser, SequenceTheorems, NatRecursion, TLAPS

-----------------------------------------------------------------------------
(* The inductive invariant. *)

Serving   == pc \in {"read", "close"}
Accepting == pc \in {"loop", "enter", "poll", "accept", "read", "close", "shutdown"}

ServerTypes ==
    /\ pc \in {"start", "bind", "failed", "loop", "enter", "poll", "accept", "read",
               "close", "shutdown", "stopped"}
    /\ fd \in Conn \cup {NoConn}
    /\ backlog \in Seq(Conn)
    /\ conn \in [Conn -> {"new", "open", "left", "closed", "gone", "reset"}]
    /\ reply \in [Conn -> Seq(Nat)]

ReaderTypes ==
    /\ rpc \in {"idle", "find", "body", "recv", "done", "failed"}
    /\ hlen \in Nat
    /\ base \in Nat /\ len \in Nat /\ cap \in Nat
    /\ hdr_end \in Nat /\ route \in Routes /\ content_len \in Int

\* A connection is being served in read_request and until it is closed, and
\* what waits in the backlog needs the listening socket.
PlaceInv ==
    /\ Serving <=> fd # NoConn
    /\ Accepting <=> listening
    /\ ~Accepting => backlog = <<>>
    /\ pc = "accept" => backlog # <<>>
    /\ pc = "close" => rpc \in {"done", "failed"}
    /\ OnePlaceEach

\* A request that was read has a route, the one its status is chosen by.
RouteInv == hdr_end # 0 /\ rpc # "failed" => route # Malformed

\* The buffer is none or one block inside memory, large enough for what was
\* received and a NUL, and never larger than twice the guard and a recv.
BufferInv ==
    /\ base = 0 => len = 0 /\ cap = 0
    /\ base # 0 => /\ base \in Addresses
                   /\ len < cap /\ cap <= 2 * (MaxRequest + RecvMax + 1)
    /\ rpc # "failed" => len <= MaxRequest
    /\ rpc = "idle" => base = 0

\* hdr_end is where the blank line was when it was found, and once the buffer
\* was searched it is known whether the blank line is there.
HeaderInv ==
    /\ rpc = "idle" => hdr_end = 0
    /\ hdr_end # 0 => \E a \in Addresses : hdr_end = a + hlen
    /\ hdr_end # 0 => hlen + 4 <= len
    /\ rpc \in {"body", "recv"} /\ hdr_end = 0 => len < hlen + 4
    /\ rpc = "done" => hdr_end # 0

ServerInv == /\ ServerTypes /\ ReaderTypes
             /\ PlaceInv /\ RouteInv /\ BufferInv /\ HeaderInv
             /\ AnsweredOnce /\ CleanExit /\ BodyIsFramed

\* Nothing is in memory or in flight before the first connection.
LEMMA InitServerInv == Init => ServerInv
  <1> SUFFICES ASSUME Init PROVE ServerInv
    OBVIOUS
  <1>1. backlog = <<>> /\ backlog \in Seq(Conn) /\ Len(backlog) = 0 /\ DOMAIN backlog = {}
    BY EmptySeq DEF Init
  <1>2. ServerTypes
    <2>1. \A c \in Conn : conn[c] = "new" /\ reply[c] = <<>>
      BY DEF Init
    <2>2. <<>> \in Seq(Nat)
      BY EmptySeq
    <2> QED
      BY <1>1, <2>1, <2>2 DEF Init, ServerTypes
  <1>3. ReaderTypes
    BY DEF Init, ReaderTypes, Routes
  <1>4. OnePlaceEach
    BY <1>1, ConnAssumption DEF Init, OnePlaceEach, Waiting
  <1>5. PlaceInv
    BY <1>1, <1>4 DEF Init, PlaceInv, Serving, Accepting
  <1>6. RouteInv /\ BufferInv /\ HeaderInv
    BY SizesAssumption DEF Init, RouteInv, BufferInv, HeaderInv
  <1>7. AnsweredOnce /\ CleanExit
    BY EmptySeq DEF Init, AnsweredOnce, CleanExit
  <1>8. BodyIsFramed
    BY DEF Init, BodyIsFramed, Reader!BodyIsFramed, Reader!Null
  <1> QED
    BY <1>2, <1>3, <1>5, <1>6, <1>7, <1>8 DEF ServerInv

\* A step that changes none of the buffer, the headers and the result keeps
\* what is known of them.
LEMMA ReaderKept ==
  ASSUME ServerInv, UNCHANGED <<rpc, hlen, base, len, cap, hdr_end, route, content_len,
                                body, body_len>>
  PROVE  ReaderTypes' /\ RouteInv' /\ BufferInv' /\ HeaderInv' /\ BodyIsFramed'
  <1> USE DEF ServerInv
  <1>1. ReaderTypes' /\ RouteInv'
    BY DEF ReaderTypes, RouteInv
  <1>2. BufferInv' /\ HeaderInv'
    BY DEF BufferInv, HeaderInv
  <1>3. BodyIsFramed'
    BY DEF BodyIsFramed, Reader!BodyIsFramed, Reader!Unmoved, Reader!HeaderIsHere
  <1> QED
    BY <1>1, <1>2, <1>3

\* What ember_serve does without a connection, and what it decides about one.
LEMMA ControlStep ==
  ASSUME ServerInv,
         \/ LoadFails \/ Load \/ BindFails \/ Listen \/ TestStop \/ EnterPoll
         \/ PollTimesOut \/ PollReady \/ AcceptFails \/ ReadFails \/ Signal
  PROVE  ServerInv'
  <1> USE DEF wire, reader
  <1>1. UNCHANGED <<fd, backlog, conn, reply, reader>>
    BY DEF LoadFails, Load, BindFails, Listen, TestStop, EnterPoll,
           PollTimesOut, PollReady, AcceptFails, ReadFails, Signal
  <1>2. ReaderTypes' /\ RouteInv' /\ BufferInv' /\ HeaderInv' /\ BodyIsFramed'
    BY <1>1, ReaderKept
  <1>3. ServerTypes'
    BY <1>1 DEF LoadFails, Load, BindFails, Listen, TestStop, EnterPoll,
           PollTimesOut, PollReady, AcceptFails, ReadFails, Signal, ServerInv, ServerTypes
  <1>4. OnePlaceEach'
    BY <1>1 DEF ServerInv, PlaceInv, OnePlaceEach, Waiting
  <1>5. PlaceInv'
    BY <1>1, <1>4
       DEF LoadFails, Load, BindFails, Listen, TestStop, EnterPoll,
           PollTimesOut, PollReady, AcceptFails, ReadFails, Signal,
           ServerInv, PlaceInv, Serving, Accepting
  <1>6. AnsweredOnce'
    <2>1. CASE ReadFails
      <3>1. reply[fd] = <<>> \/ conn[fd] \in {"closed", "gone"}
        BY <2>1 DEF ReadFails, ServerInv, AnsweredOnce, ServerTypes, PlaceInv, Serving
      <3> QED
        BY <1>1, <2>1, <3>1 DEF ReadFails, ServerInv, AnsweredOnce
    <2>2. CASE ~ReadFails
      BY <1>1, <2>2
         DEF LoadFails, Load, BindFails, Listen, TestStop, EnterPoll,
             PollTimesOut, PollReady, AcceptFails, Signal, ServerInv, AnsweredOnce
    <2> QED
      BY <2>1, <2>2
  <1>7. CleanExit'
    BY DEF LoadFails, Load, BindFails, Listen, TestStop, EnterPoll,
           PollTimesOut, PollReady, AcceptFails, ReadFails, Signal, CleanExit
  <1> QED
    BY <1>2, <1>3, <1>5, <1>6, <1>7 DEF ServerInv

\* A client connects: it is queued behind those that wait.
LEMMA ConnectStep ==
  ASSUME ServerInv, NEW c \in Conn, Connect(c)
  PROVE  ServerInv'
  <1> USE DEF wire, server, reader
  <1>1. /\ UNCHANGED <<pc, listening, fd, resources, reply, reader>>
        /\ conn[c] = "new" /\ conn' = [conn EXCEPT ![c] = "open"]
        /\ backlog' = Append(backlog, c) /\ listening
    BY DEF Connect
  <1>2. ReaderTypes' /\ RouteInv' /\ BufferInv' /\ HeaderInv' /\ BodyIsFramed'
    BY <1>1, ReaderKept
  <1>3. backlog \in Seq(Conn) /\ conn \in [Conn -> {"new", "open", "left", "closed", "gone", "reset"}]
    BY DEF ServerInv, ServerTypes
  <1>4. /\ backlog' \in Seq(Conn) /\ Len(backlog') = Len(backlog) + 1
        /\ backlog'[Len(backlog) + 1] = c
        /\ \A k \in 1 .. Len(backlog) : backlog'[k] = backlog[k]
        /\ DOMAIN backlog' = 1 .. Len(backlog) + 1 /\ DOMAIN backlog = 1 .. Len(backlog)
        /\ Len(backlog) \in Nat
    BY <1>1, <1>3, AppendProperties, LenProperties
  <1>5. c # fd /\ c \notin Waiting
    BY <1>1 DEF ServerInv, PlaceInv, OnePlaceEach
  <1>6. Waiting' = Waiting \cup {c}
    BY <1>4 DEF Waiting
  <1>7. ServerTypes'
    BY <1>1, <1>4 DEF ServerInv, ServerTypes
  <1>8. OnePlaceEach'
    <2>1. \A d \in Conn : conn'[d] \in {"open", "left"} <=> d \in Waiting' \cup {fd'}
      BY <1>1, <1>3, <1>6 DEF ServerInv, PlaceInv, OnePlaceEach
    <2>2. fd' \notin Waiting'
      BY <1>1, <1>5, <1>6 DEF ServerInv, PlaceInv, OnePlaceEach
    <2>3. \A j, k \in DOMAIN backlog' : backlog'[j] = backlog'[k] => j = k
      <3>1. \A j \in 1 .. Len(backlog) : backlog'[j] # c
        BY <1>4, <1>5 DEF Waiting
      <3> QED
        BY <1>4, <3>1 DEF ServerInv, PlaceInv, OnePlaceEach
    <2> QED
      BY <1>1, <2>1, <2>2, <2>3 DEF ServerInv, PlaceInv, OnePlaceEach
  <1>9. PlaceInv'
    BY <1>1, <1>4, <1>8, EmptySeq DEF ServerInv, PlaceInv, Serving, Accepting
  <1>10. AnsweredOnce'
    BY <1>1, <1>3, <1>5 DEF ServerInv, AnsweredOnce
  <1>11. CleanExit'
    BY <1>1 DEF ServerInv, PlaceInv, Accepting, CleanExit
  <1> QED
    BY <1>2, <1>7, <1>9, <1>10, <1>11 DEF ServerInv

\* A client leaves: it keeps its place until the server has closed it.
LEMMA HangUpStep ==
  ASSUME ServerInv, NEW c \in Conn, HangUp(c)
  PROVE  ServerInv'
  <1> USE DEF wire, server, reader
  <1>1. /\ UNCHANGED <<pc, listening, fd, resources, backlog, reply, reader>>
        /\ conn[c] = "open" /\ conn' = [conn EXCEPT ![c] = "left"]
    BY DEF HangUp
  <1>2. ReaderTypes' /\ RouteInv' /\ BufferInv' /\ HeaderInv' /\ BodyIsFramed'
    BY <1>1, ReaderKept
  <1>3. ServerTypes'
    BY <1>1 DEF ServerInv, ServerTypes
  <1>4. OnePlaceEach'
    BY <1>1 DEF ServerInv, ServerTypes, PlaceInv, OnePlaceEach, Waiting
  <1>5. PlaceInv'
    BY <1>1, <1>4 DEF ServerInv, PlaceInv, Serving, Accepting
  <1>6. AnsweredOnce'
    BY <1>1 DEF ServerInv, ServerTypes, AnsweredOnce
  <1>7. CleanExit'
    BY <1>1 DEF ServerInv, CleanExit
  <1> QED
    BY <1>2, <1>3, <1>5, <1>6, <1>7 DEF ServerInv

\* Bytes of the request arrive in the socket.
LEMMA SendMoreStep ==
  ASSUME ServerInv, SendMore
  PROVE  ServerInv'
  <1> USE DEF wire, server
  <1>1. UNCHANGED <<pc, listening, fd, resources, backlog, conn, reply>>
    BY DEF SendMore
  <1>2. UNCHANGED <<rpc, hlen, base, len, cap, hdr_end, route, content_len, body, body_len>>
    BY DEF SendMore, Reader!Send, Reader!request, Reader!raw, Reader!headers, Reader!result
  <1>3. ReaderTypes' /\ RouteInv' /\ BufferInv' /\ HeaderInv' /\ BodyIsFramed'
    BY <1>2, ReaderKept
  <1>4. ServerTypes' /\ CleanExit'
    BY <1>1 DEF ServerInv, ServerTypes, CleanExit
  <1>5. PlaceInv'
    BY <1>1, <1>2 DEF ServerInv, PlaceInv, OnePlaceEach, Serving, Accepting, Waiting
  <1>6. AnsweredOnce'
    BY <1>1, <1>2 DEF ServerInv, AnsweredOnce
  <1> QED
    BY <1>3, <1>4, <1>5, <1>6 DEF ServerInv

\* The oldest of the backlog is served next.
LEMMA AcceptStep ==
  ASSUME ServerInv, Accept
  PROVE  ServerInv'
  <1> USE DEF wire
  <1>1. /\ UNCHANGED <<listening, resources, conn, reply>>
        /\ pc = "accept" /\ pc' = "read" /\ fd' = Head(backlog) /\ backlog' = Tail(backlog)
    BY DEF Accept
  <1>2. PICK h \in HeaderLens, b \in BodyLens :
          \E n \in 0 .. h + Reader!SepLen + b : Reader!Begin(h, b, n)
    BY DEF Accept, Reader!Accept
  <1>3. /\ rpc = "idle" /\ rpc' = "find" /\ hlen' = h /\ h \in Nat
        /\ UNCHANGED <<base, len, cap, hdr_end, route, content_len, body, body_len>>
    BY <1>2, SizesAssumption DEF Reader!Begin, Reader!raw, Reader!headers, Reader!result
  <1>4. backlog \in Seq(Conn) /\ backlog # <<>> /\ fd = NoConn
    BY <1>1 DEF ServerInv, ServerTypes, PlaceInv, Serving
  <1>5. /\ Len(backlog) \in Nat \ {0} /\ Len(backlog') = Len(backlog) - 1
        /\ backlog' \in Seq(Conn)
        /\ \A k \in 1 .. Len(backlog) - 1 : backlog'[k] = backlog[k + 1]
        /\ DOMAIN backlog = 1 .. Len(backlog) /\ DOMAIN backlog' = 1 .. Len(backlog) - 1
        /\ fd' = backlog[1] /\ fd' \in Conn
    BY <1>1, <1>4, EmptySeq, HeadTailProperties, LenProperties
  <1>6. /\ fd' \notin Waiting' /\ Waiting = Waiting' \cup {fd'}
        /\ \A j, k \in DOMAIN backlog' : backlog'[j] = backlog'[k] => j = k
    <2> USE DEF Waiting
    <2>0. \A j, k \in 1 .. Len(backlog) : backlog[j] = backlog[k] => j = k
      BY <1>5 DEF ServerInv, PlaceInv, OnePlaceEach
    <2>1. \A k \in 1 .. Len(backlog) - 1 : k + 1 \in 1 .. Len(backlog) /\ k + 1 # 1
      BY <1>5
    <2>2. fd' \notin Waiting'
      BY <1>5, <2>0, <2>1
    <2>3. Waiting' \cup {fd'} \subseteq Waiting
      BY <1>5, <2>1
    <2>4. ASSUME NEW k \in 1 .. Len(backlog), k # 1 PROVE backlog[k] \in Waiting'
      <3>1. k - 1 \in 1 .. Len(backlog) - 1 /\ (k - 1) + 1 = k
        BY <1>5, <2>4
      <3> QED
        BY <1>5, <3>1
    <2>5. Waiting \subseteq Waiting' \cup {fd'}
      BY <1>5, <2>4
    <2>6. ASSUME NEW j \in DOMAIN backlog', NEW k \in DOMAIN backlog', backlog'[j] = backlog'[k]
          PROVE  j = k
      <3>1. backlog[j + 1] = backlog[k + 1] /\ j \in Int /\ k \in Int
        BY <1>5, <2>6
      <3>2. j + 1 \in 1 .. Len(backlog) /\ k + 1 \in 1 .. Len(backlog)
        BY <1>5, <2>1, <2>6
      <3>3. j + 1 = k + 1
        BY <2>0, <3>1, <3>2
      <3> QED
        BY <3>1, <3>3
    <2> QED
      BY <2>2, <2>3, <2>5, <2>6
  <1>7. fd' # NoConn
    BY <1>5, ConnAssumption
  <1>8. OnePlaceEach'
    BY <1>1, <1>3, <1>4, <1>6, <1>7, ConnAssumption DEF ServerInv, PlaceInv, OnePlaceEach
  <1>9. PlaceInv'
    BY <1>1, <1>7, <1>8 DEF ServerInv, PlaceInv, Serving, Accepting
  <1>10. ServerTypes' /\ ReaderTypes' /\ CleanExit'
    BY <1>1, <1>3, <1>5 DEF ServerInv, ServerTypes, ReaderTypes, CleanExit
  <1>11. RouteInv' /\ BufferInv' /\ HeaderInv'
    BY <1>3, SizesAssumption DEF ServerInv, ReaderTypes, RouteInv, BufferInv, HeaderInv
  <1>12. AnsweredOnce'
    BY <1>1, <1>4, ConnAssumption DEF ServerInv, AnsweredOnce
  <1>13. BodyIsFramed'
    BY <1>3 DEF ServerInv, BufferInv, BodyIsFramed, Reader!BodyIsFramed, Reader!Null
  <1> QED
    BY <1>9, <1>10, <1>11, <1>12, <1>13 DEF ServerInv

\* A request is answered, and its connection is about to be closed.
LEMMA RespondStep ==
  ASSUME ServerInv, Respond
  PROVE  ServerInv'
  <1> USE DEF reader
  <1>1. /\ UNCHANGED <<listening, fd, resources, backlog, conn, reader>>
        /\ pc = "read" /\ pc' = "close" /\ rpc = "done"
    BY DEF Respond
  <1>2. PICK status \in Statuses(route) : Receive(fd, status)
    BY DEF Respond
  <1>3. ReaderTypes' /\ RouteInv' /\ BufferInv' /\ HeaderInv' /\ BodyIsFramed'
    BY <1>1, ReaderKept
  <1>4. fd \in Conn
    BY <1>1 DEF ServerInv, ServerTypes, PlaceInv, Serving
  <1>5. status \in Nat
    <2>1. route \in Routes \ {Malformed}
      BY <1>1 DEF ServerInv, ReaderTypes, RouteInv, HeaderInv
    <2> QED
      BY <2>1 DEF Statuses, Routes, Malformed
  <1>6. reply[fd] = <<>> /\ conn[fd] \in {"open", "left"}
    BY <1>1, <1>4 DEF ServerInv, PlaceInv, OnePlaceEach, AnsweredOnce
  <1>7. reply' = IF conn[fd] = "open" THEN [reply EXCEPT ![fd] = <<status>>] ELSE reply
    BY <1>2, <1>6 DEF Receive
  <1>8. <<status>> \in Seq(Nat) /\ Len(<<status>>) = 1
    BY <1>5
  <1>9. ServerTypes'
    BY <1>1, <1>7, <1>8 DEF ServerInv, ServerTypes
  <1>10. PlaceInv'
    BY <1>1 DEF ServerInv, PlaceInv, OnePlaceEach, Serving, Accepting, Waiting
  <1>11. AnsweredOnce'
    <2> SUFFICES ASSUME NEW c \in Conn
                 PROVE  /\ Len(reply'[c]) <= 1
                        /\ reply'[c] # <<>> => (pc' = "close" /\ c = fd') \/ conn'[c] \in {"closed", "gone"}
                        /\ pc' = "close" /\ c = fd' /\ conn'[c] = "open" =>
                              reply'[c] \in IF rpc' = "failed" THEN {<<>>}
                                            ELSE {<<s>> : s \in Statuses(route)'}
      BY DEF AnsweredOnce
    <2>1. CASE c = fd
      <3>1. Statuses(route)' = Statuses(route) /\ rpc' = "done"
        BY <1>1 DEF Statuses
      <3>2. Len(reply[c]) = 0
        BY <1>6, <2>1, EmptySeq
      <3>3. CASE conn[fd] = "open"
        <4>1. reply'[c] = <<status>>
          BY <1>4, <1>7, <2>1, <3>3 DEF ServerInv, ServerTypes
        <4> QED
          BY <1>1, <1>8, <2>1, <3>1, <4>1
      <3>4. CASE conn[fd] # "open"
        BY <1>1, <1>7, <2>1, <3>2, <3>4
      <3> QED
        BY <3>3, <3>4
    <2>2. CASE c # fd
      <3>1. reply'[c] = reply[c]
        BY <1>7, <2>2 DEF ServerInv, ServerTypes
      <3> QED
        BY <1>1, <2>2, <3>1 DEF ServerInv, AnsweredOnce
    <2> QED
      BY <2>1, <2>2
  <1>12. CleanExit'
    BY <1>1 DEF CleanExit
  <1> QED
    BY <1>3, <1>9, <1>10, <1>11, <1>12 DEF ServerInv

\* The connection is closed, its buffer freed, its place given up.
LEMMA CloseFdStep ==
  ASSUME ServerInv, CloseFd
  PROVE  ServerInv'
  <1>1. /\ UNCHANGED <<listening, resources, backlog, reply>>
        /\ pc = "close" /\ pc' = "loop" /\ fd' = NoConn
        /\ conn' = [conn EXCEPT ![fd] = IF @ = "open" THEN "closed" ELSE "gone"]
    BY DEF CloseFd
  <1>2. /\ hlen' = 0 /\ base' = 0 /\ len' = 0 /\ cap' = 0 /\ hdr_end' = 0
        /\ route' = Malformed /\ content_len' = -1 /\ rpc' = "idle"
    BY DEF CloseFd, Reader!End, Reader!Null
  <1>3. fd \in Conn /\ fd # NoConn /\ fd \notin Waiting
    BY <1>1 DEF ServerInv, ServerTypes, PlaceInv, OnePlaceEach, Serving
  <1>4. ServerTypes'
    BY <1>1 DEF ServerInv, ServerTypes
  <1>5. OnePlaceEach'
    <2>1. Waiting' = Waiting /\ NoConn \notin Waiting
      <3>1. Waiting \subseteq Conn
        BY LenProperties, ElementOfSeq DEF Waiting, ServerInv, ServerTypes
      <3> QED
        BY <1>1, <3>1, ConnAssumption DEF Waiting
    <2>2. ASSUME NEW c \in Conn
          PROVE  conn'[c] \in {"open", "left"} <=> c \in Waiting' \cup {fd'}
      BY <1>1, <1>3, <2>1, ConnAssumption DEF ServerInv, ServerTypes, PlaceInv, OnePlaceEach
    <2> QED
      BY <1>1, <1>2, <2>1, <2>2 DEF ServerInv, PlaceInv, OnePlaceEach
  <1>6. PlaceInv'
    BY <1>1, <1>5 DEF ServerInv, PlaceInv, Serving, Accepting
  <1>7. ReaderTypes' /\ RouteInv' /\ BufferInv' /\ HeaderInv' /\ BodyIsFramed'
    BY <1>2, SizesAssumption
       DEF ReaderTypes, RouteInv, BufferInv, HeaderInv, BodyIsFramed, Reader!BodyIsFramed,
           Reader!Null, Routes
  <1>8. AnsweredOnce'
    BY <1>1, <1>3, ConnAssumption DEF ServerInv, ServerTypes, AnsweredOnce
  <1>9. CleanExit'
    BY <1>1 DEF CleanExit
  <1> QED
    BY <1>4, <1>6, <1>7, <1>8, <1>9 DEF ServerInv

\* An orderly exit: the kernel resets what still waits.
LEMMA ShutdownStep ==
  ASSUME ServerInv, Shutdown
  PROVE  ServerInv'
  <1> USE DEF reader
  <1>1. /\ UNCHANGED <<fd, reply, reader>>
        /\ pc = "shutdown" /\ pc' = "stopped" /\ ~listening' /\ backlog' = <<>>
        /\ resources' = {}
        /\ conn' = [c \in Conn |-> IF c \in Waiting THEN "reset" ELSE conn[c]]
    BY DEF Shutdown
  <1>2. ReaderTypes' /\ RouteInv' /\ BufferInv' /\ HeaderInv' /\ BodyIsFramed'
    BY <1>1, ReaderKept
  <1>3. fd = NoConn
    BY <1>1 DEF ServerInv, PlaceInv, Serving
  <1>4. backlog' \in Seq(Conn) /\ DOMAIN backlog' = {} /\ Waiting' = {}
    BY <1>1, EmptySeq, LenProperties DEF Waiting
  <1>5. \A c \in Conn : conn'[c] \notin {"open", "left"}
    BY <1>1, <1>3, ConnAssumption DEF ServerInv, PlaceInv, OnePlaceEach
  <1>6. ServerTypes'
    BY <1>1, <1>4 DEF ServerInv, ServerTypes
  <1>7. OnePlaceEach'
    BY <1>1, <1>3, <1>4, <1>5, ConnAssumption DEF ServerInv, PlaceInv, OnePlaceEach
  <1>8. PlaceInv'
    BY <1>1, <1>3, <1>7 DEF ServerInv, PlaceInv, Serving, Accepting
  <1>9. AnsweredOnce'
    <2>1. \A c \in Conn : reply[c] # <<>> => conn[c] \in {"closed", "gone"}
      BY <1>1 DEF ServerInv, AnsweredOnce
    <2>2. \A c \in Conn : conn[c] \in {"closed", "gone"} => c \notin Waiting
      BY DEF ServerInv, PlaceInv, OnePlaceEach
    <2> QED
      BY <1>1, <2>1, <2>2 DEF ServerInv, AnsweredOnce
  <1>10. CleanExit'
    BY <1>1, <1>5 DEF CleanExit
  <1> QED
    BY <1>2, <1>6, <1>8, <1>9, <1>10 DEF ServerInv

-----------------------------------------------------------------------------
(* read_request. *)

\* size_t arithmetic below the limit is arithmetic.
LEMMA SmallMod ==
  ASSUME NEW n \in Nat, NEW w \in Nat, n < w
  PROVE  n % w = n
  OBVIOUS

\* While the buffer has not moved, BodyOff and Have are what they say, and the
\* body ends inside of memory.
LEMMA UnmovedSizes ==
  ASSUME ServerInv, rpc \in {"body", "recv"}, hdr_end # 0, Reader!Unmoved
  PROVE  /\ Reader!BodyOff = hlen + 4
         /\ Reader!Have = len - (hlen + 4) /\ Reader!Have \in Nat
         /\ (base + Reader!BodyOff) % W = base + hlen + 4
  <1> USE DEF ServerInv
  <1>1. /\ hlen \in Nat /\ base \in Nat /\ len \in Nat /\ cap \in Nat
        /\ hlen + 4 <= len /\ hdr_end = base + hlen
    BY DEF ReaderTypes, HeaderInv, Reader!Unmoved
  <1>2. base \in Addresses /\ len < cap /\ cap <= 2 * (MaxRequest + RecvMax + 1)
    BY <1>1 DEF BufferInv
  <1>3. W \in Nat /\ base + cap < W
    BY <1>1, <1>2, MemoryAssumption, SizesAssumption
  <1>4. hlen + 4 < W /\ len - (hlen + 4) < W /\ base + hlen + 4 < W
    BY <1>1, <1>2, <1>3
  <1>5. Reader!BodyOff = hlen + 4
    <2>1. hdr_end - base + 4 = hlen + 4 /\ hlen + 4 \in Nat
      BY <1>1
    <2> QED
      BY <1>3, <1>4, <2>1, SmallMod DEF Reader!BodyOff, Reader!SepLen
  <1>6. Reader!Have = len - (hlen + 4)
    <2>1. len - (hlen + 4) \in Nat
      BY <1>1
    <2> QED
      BY <1>3, <1>4, <1>5, <2>1, SmallMod DEF Reader!Have
  <1>7. (base + Reader!BodyOff) % W = base + hlen + 4
    <2>1. base + hlen + 4 \in Nat /\ base + (hlen + 4) = base + hlen + 4
      BY <1>1
    <2> QED
      BY <1>3, <1>4, <1>5, <2>1, SmallMod
  <1> QED
    BY <1>1, <1>5, <1>6, <1>7

\* The buffer is searched: the blank line is found as soon as it is there.
LEMMA FindHeaderStep ==
  ASSUME ServerInv, Reader!FindHeader
  PROVE  ReaderTypes' /\ RouteInv' /\ BufferInv' /\ HeaderInv' /\ BodyIsFramed'
  <1> USE DEF ServerInv, Reader!request, Reader!peer, Reader!raw, Reader!result, Reader!headers,
              Reader!Null, Reader!SepLen, Reader!HeaderIsHere
  <1>1. UNCHANGED <<hlen, base, len, cap>> /\ rpc = "find" /\ rpc' \in {"body", "failed"}
    BY DEF Reader!FindHeader
  <1>2. /\ hlen \in Nat /\ base \in Nat /\ len \in Nat /\ cap \in Nat
    BY DEF ReaderTypes
  <1>3. BufferInv'
    BY <1>1 DEF BufferInv
  <1>4. CASE hdr_end = 0 /\ len >= hlen + 4
    <2>1. /\ hdr_end' = base + hlen
          /\ route' \in Routes /\ content_len' \in ContentLens
          /\ rpc' = IF route' = Malformed THEN "failed" ELSE "body"
      BY <1>4 DEF Reader!FindHeader
    <2>2. base \in Addresses /\ hdr_end' \in Nat /\ hdr_end' # 0
      BY <1>2, <1>4, <2>1, MemoryAssumption DEF BufferInv
    <2> QED
      BY <1>1, <1>2, <1>3, <1>4, <2>1, <2>2, SizesAssumption
         DEF ReaderTypes, RouteInv, HeaderInv, BufferInv, BodyIsFramed, Reader!BodyIsFramed
  <1>5. CASE ~(hdr_end = 0 /\ len >= hlen + 4)
    <2>1. rpc' = "body" /\ UNCHANGED <<hdr_end, route, content_len>>
      BY <1>5 DEF Reader!FindHeader
    <2> QED
      BY <1>1, <1>2, <1>3, <1>5, <2>1
         DEF ReaderTypes, RouteInv, HeaderInv, BufferInv, BodyIsFramed, Reader!BodyIsFramed
  <1> QED
    BY <1>4, <1>5

\* The request is complete: its body is framed.
LEMMA ReturnStep ==
  ASSUME ServerInv, Reader!Return
  PROVE  ReaderTypes' /\ RouteInv' /\ BufferInv' /\ HeaderInv' /\ BodyIsFramed'
  <1> USE DEF ServerInv, Reader!request, Reader!peer, Reader!raw, Reader!headers,
              Reader!Null, Reader!SepLen
  <1>1. /\ UNCHANGED <<hlen, base, len, cap, hdr_end, route, content_len>>
        /\ rpc = "body" /\ rpc' = "done" /\ hdr_end # 0
        /\ content_len < 0 \/ Reader!Have >= content_len
        /\ body' = (base + Reader!BodyOff) % W
        /\ body_len' = IF content_len < 0 THEN Reader!Have ELSE content_len
    BY DEF Reader!Return, Reader!HaveAll
  <1>2. ReaderTypes' /\ RouteInv' /\ BufferInv' /\ HeaderInv'
    BY <1>1 DEF ReaderTypes, RouteInv, BufferInv, HeaderInv
  <1>3. hlen \in Nat /\ len \in Nat /\ content_len \in Int
    BY DEF ReaderTypes
  <1>4. BodyIsFramed'
    <2>1. (Reader!Unmoved)' <=> Reader!Unmoved
      BY <1>1 DEF Reader!Unmoved
    <2>2. CASE Reader!Unmoved
      <3>1. body' = base + hlen + 4
        BY <1>1, <2>2, UnmovedSizes
      <3>2. Reader!Have = len - (hlen + 4) /\ Reader!Have \in Nat
        BY <1>1, <2>2, UnmovedSizes
      <3>3. /\ content_len >= 0 => body_len' = content_len
            /\ content_len < 0 => hlen + 4 + body_len' = len
            /\ hlen + 4 + body_len' <= len
        <4>1. CASE content_len < 0
          BY <1>1, <1>3, <3>2, <4>1
        <4>2. CASE content_len >= 0
          BY <1>1, <1>3, <3>2, <4>2
        <4> QED
          BY <1>3, <4>1, <4>2
      <3> QED
        BY <1>1, <3>1, <3>3 DEF BufferInv, BodyIsFramed, Reader!BodyIsFramed
    <2>3. CASE ~Reader!Unmoved
      BY <1>1, <2>1, <2>3 DEF BufferInv, BodyIsFramed, Reader!BodyIsFramed
    <2> QED
      BY <2>2, <2>3
  <1> QED
    BY <1>2, <1>4

\* More is needed: recv is not called for bytes that cannot come.
LEMMA NeedMoreStep ==
  ASSUME ServerInv, Reader!NeedMore
  PROVE  ReaderTypes' /\ RouteInv' /\ BufferInv' /\ HeaderInv' /\ BodyIsFramed'
  <1> USE DEF ServerInv, Reader!request, Reader!peer, Reader!raw, Reader!headers,
              Reader!result, Reader!Null, Reader!SepLen
  <1>1. /\ UNCHANGED <<hlen, base, len, cap, hdr_end, route, content_len>>
        /\ rpc = "body" /\ rpc' = "recv"
        /\ hdr_end = 0 \/ (~(content_len < 0) /\ ~(Reader!Have >= content_len))
    BY DEF Reader!NeedMore, Reader!HaveAll
  <1>2. ReaderTypes' /\ RouteInv' /\ BufferInv' /\ HeaderInv'
    BY <1>1 DEF ReaderTypes, RouteInv, BufferInv, HeaderInv
  <1>3. hlen \in Nat /\ len \in Nat /\ content_len \in Int
    BY DEF ReaderTypes
  <1>4. BodyIsFramed'
    <2>1. CASE hdr_end = 0
      BY <1>1, <1>3, <2>1
         DEF BufferInv, HeaderInv, BodyIsFramed, Reader!BodyIsFramed, Reader!HeaderIsHere
    <2>2. CASE hdr_end # 0 /\ Reader!Unmoved
      <3>1. Reader!Have = len - (hlen + 4)
        BY <1>1, <2>2, UnmovedSizes
      <3>2. len < hlen + 4 + content_len
        BY <1>1, <1>3, <2>2, <3>1
      <3> QED
        BY <1>1, <2>2, <3>2 DEF BufferInv, BodyIsFramed, Reader!BodyIsFramed
    <2>3. CASE hdr_end # 0 /\ ~Reader!Unmoved
      BY <1>1, <2>3 DEF BufferInv, BodyIsFramed, Reader!BodyIsFramed, Reader!Unmoved
    <2> QED
      BY <2>1, <2>2, <2>3
  <1> QED
    BY <1>2, <1>4

\* Bytes are received: the buffer grows, in place or by moving.
LEMMA RecvStep ==
  ASSUME ServerInv, NEW k \in 1 .. RecvMax, Reader!Recv(k)
  PROVE  ReaderTypes' /\ RouteInv' /\ BufferInv' /\ HeaderInv' /\ BodyIsFramed'
  <1> USE DEF ServerInv, Reader!request, Reader!headers, Reader!result, Reader!Null,
              Reader!SepLen
  <1>1. /\ UNCHANGED <<hlen, hdr_end, route, content_len>>
        /\ rpc = "recv" /\ len' = len + k /\ 0 < k /\ k <= RecvMax
        /\ rpc' = IF len + k > MaxRequest THEN "failed" ELSE "find"
        /\ IF len + k + 1 > cap
           THEN cap' = (len + k + 1) * 2 /\ base' \in Addresses
           ELSE UNCHANGED <<base, cap>>
    BY DEF Reader!Recv, Reader!Reserve, Reader!AfterRecv
  <1>2. /\ hlen \in Nat /\ base \in Nat /\ len \in Nat /\ cap \in Nat /\ k \in Nat
        /\ MaxRequest \in Nat /\ RecvMax \in Nat /\ len <= MaxRequest
    BY <1>1, SizesAssumption DEF ReaderTypes, BufferInv
  <1>3. base' \in Addresses /\ len' < cap' /\ cap' <= 2 * (MaxRequest + RecvMax + 1)
    <2>1. CASE len + k + 1 > cap
      <3>1. cap' = (len + k + 1) * 2 /\ base' \in Addresses
        BY <1>1, <2>1
      <3> QED
        BY <1>1, <1>2, <3>1
    <2>2. CASE ~(len + k + 1 > cap)
      <3>1. base # 0
        BY <1>1, <1>2, <2>2 DEF BufferInv
      <3> QED
        BY <1>1, <1>2, <2>2, <3>1 DEF BufferInv
    <2> QED
      BY <2>1, <2>2
  <1>4. base' \in Nat /\ base' # 0 /\ cap' \in Nat /\ len' \in Nat
    <2>1. base' \in Nat /\ base' # 0
      BY <1>3, MemoryAssumption
    <2>2. cap' \in Nat
      BY <1>1, <1>2
    <2> QED
      BY <1>1, <1>2, <2>1, <2>2
  <1>5. ReaderTypes' /\ RouteInv'
    BY <1>1, <1>4 DEF ReaderTypes, RouteInv
  <1>6. BufferInv'
    BY <1>1, <1>2, <1>3, <1>4 DEF BufferInv
  <1>7. HeaderInv'
    BY <1>1, <1>2 DEF HeaderInv
  <1>8. BodyIsFramed'
    BY <1>1, <1>3 DEF BodyIsFramed, Reader!BodyIsFramed
  <1> QED
    BY <1>5, <1>6, <1>7, <1>8

\* The end of the stream.
LEMMA RecvFailsStep ==
  ASSUME ServerInv, Reader!RecvFails
  PROVE  ReaderTypes' /\ RouteInv' /\ BufferInv' /\ HeaderInv' /\ BodyIsFramed'
  <1>1. /\ UNCHANGED <<hlen, base, len, cap, hdr_end, route, content_len>>
        /\ rpc' = "failed"
    BY DEF Reader!RecvFails, Reader!request, Reader!raw, Reader!headers
  <1> QED
    BY <1>1 DEF ServerInv, ReaderTypes, RouteInv, BufferInv, HeaderInv,
                BodyIsFramed, Reader!BodyIsFramed, Reader!Null

\* read_request sees one connection only.
LEMMA ReadStep ==
  ASSUME ServerInv, Read
  PROVE  ServerInv'
  <1> USE DEF server, wire
  <1>1. UNCHANGED <<pc, listening, fd, resources, backlog, conn, reply>> /\ pc = "read"
    BY DEF Read
  <1>2. rpc # "idle" /\ rpc' # "idle"
    BY DEF Read, Reader!Read, Reader!FindHeader, Reader!Return, Reader!NeedMore,
           Reader!Recv, Reader!AfterRecv, Reader!RecvFails
  <1>3. ReaderTypes' /\ RouteInv' /\ BufferInv' /\ HeaderInv' /\ BodyIsFramed'
    BY FindHeaderStep, ReturnStep, NeedMoreStep, RecvStep, RecvFailsStep
       DEF Read, Reader!Read
  <1>4. ServerTypes' /\ CleanExit'
    BY <1>1 DEF ServerInv, ServerTypes, CleanExit
  <1>5. PlaceInv'
    BY <1>1, <1>2 DEF ServerInv, PlaceInv, OnePlaceEach, Serving, Accepting, Waiting
  <1>6. AnsweredOnce'
    BY <1>1 DEF ServerInv, AnsweredOnce
  <1> QED
    BY <1>3, <1>4, <1>5, <1>6 DEF ServerInv

-----------------------------------------------------------------------------
\* The invariant is inductive.
LEMMA NextServerInv == ServerInv /\ [Next]_vars => ServerInv'
  <1> SUFFICES ASSUME ServerInv, [Next]_vars PROVE ServerInv'
    OBVIOUS
  <1>1. CASE ServerStep
    BY <1>1, ControlStep, AcceptStep, ReadStep, RespondStep, CloseFdStep, ShutdownStep
       DEF ServerStep
  <1>2. CASE Failure \/ Signal
    BY <1>2, ControlStep DEF Failure
  <1>3. CASE ClientStep
    BY <1>3, SendMoreStep, ConnectStep, HangUpStep DEF ClientStep
  <1>4. CASE UNCHANGED vars
    <2> USE DEF vars, server, wire, reader
    <2>1. ReaderTypes' /\ RouteInv' /\ BufferInv' /\ HeaderInv' /\ BodyIsFramed'
      BY <1>4, ReaderKept
    <2>2. ServerTypes' /\ CleanExit'
      BY <1>4 DEF ServerInv, ServerTypes, CleanExit
    <2>3. PlaceInv'
      BY <1>4 DEF ServerInv, PlaceInv, OnePlaceEach, Serving, Accepting, Waiting
    <2>4. AnsweredOnce'
      BY <1>4 DEF ServerInv, AnsweredOnce, Statuses
    <2> QED
      BY <2>1, <2>2, <2>3, <2>4 DEF ServerInv
  <1> QED
    BY <1>1, <1>2, <1>3, <1>4 DEF Next, Ended

\* The server and the reader in it keep their invariant.
THEOREM ServerInvariant == Spec => []ServerInv
  BY InitServerInv, NextServerInv, PTL DEF Spec

\* Every connection is new, in the backlog, served or over, and in one place.
THEOREM ConnectionsKeepTheirPlace == Spec => []OnePlaceEach
  <1>1. ServerInv => OnePlaceEach
    BY DEF ServerInv, PlaceInv
  <1> QED
    BY <1>1, ServerInvariant, PTL

\* A client gets at most one answer, one that its route has, in its turn.
THEOREM ClientsAreAnsweredOnce == Spec => []AnsweredOnce
  <1>1. ServerInv => AnsweredOnce
    BY DEF ServerInv
  <1> QED
    BY <1>1, ServerInvariant, PTL

\* After an orderly exit of ember_serve (src/server.c) nothing is allocated,
\* listening or waiting.
THEOREM ExitIsClean == Spec => []CleanExit
  <1>1. ServerInv => CleanExit
    BY DEF ServerInv
  <1> QED
    BY <1>1, ServerInvariant, PTL

\* Requests are framed however recv cuts them and wherever realloc puts the
\* buffer, as long as it did not move under hdr_end (read_request of
\* src/server.c); and recv is only called for bytes that may come.
THEOREM RequestsAreFramed == Spec => []BodyIsFramed
  <1>1. ServerInv => BodyIsFramed
    BY DEF ServerInv
  <1> QED
    BY <1>1, ServerInvariant, PTL

-----------------------------------------------------------------------------
(* The parser of the requests' bodies. *)

\* A total is a sum of sums.
LEMMA TotalIs ==
  ASSUME NEW s \in Seq(Nat)
  PROVE  \E f \in [0 .. Len(s) -> Nat] :
            /\ f[0] = 0 /\ Total(s) = f[Len(s)]
            /\ \A k \in 1 .. Len(s) : f[k] = f[k - 1] + s[k]
  <1> DEFINE n == Len(s)
             step == [kv \in (1 .. n) \X Nat |-> kv[2] + s[kv[1]]]
             Is(f) == f = [k \in 0 .. n |-> IF k = 0 THEN 0 ELSE f[k - 1] + s[k]]
             sum == CHOOSE f : Is(f)
  <1>1. n \in Nat /\ \A k \in 1 .. n : s[k] \in Nat
    OBVIOUS
  <1>2. Total(s) = sum[n]
    BY DEF Total
  <1> HIDE DEF n
  <1>3. step \in [(1 .. n) \X Nat -> Nat]
    <2>1. ASSUME NEW kv \in (1 .. n) \X Nat PROVE kv[2] + s[kv[1]] \in Nat
      <3>1. kv[1] \in 1 .. n /\ kv[2] \in Nat
        OBVIOUS
      <3> QED
        BY <1>1, <3>1
    <2> QED
      BY <2>1
  <1>4. PICK f \in [0 .. n -> Nat] : Recurses(f, n, 0, step)
    <2> HIDE DEF step
    <2> QED
      BY <1>1, <1>3, RecursionExists
  <1>5. Is(f)
    <2>1. ASSUME NEW k \in 0 .. n
          PROVE  f[k] = IF k = 0 THEN 0 ELSE f[k - 1] + s[k]
      <3>1. f[k] = IF k = 0 THEN 0 ELSE step[<<k, f[k - 1]>>]
        <4> HIDE DEF step
        <4> QED
          BY <1>4 DEF Recurses
      <3>2. CASE k = 0
        BY <3>1, <3>2
      <3>3. CASE k # 0
        <4>1. k \in 1 .. n /\ k - 1 \in 0 .. n
          BY <1>1, <3>3
        <4>2. <<k, f[k - 1]>> \in (1 .. n) \X Nat
          BY <1>4, <4>1
        <4>3. step[<<k, f[k - 1]>>] = f[k - 1] + s[k]
          BY <4>2
        <4> QED
          BY <3>1, <3>3, <4>3
      <3> QED
        BY <3>2, <3>3
    <2> QED
      BY <1>4, <2>1
  <1>6. Is(sum)
    <2> HIDE DEF Is
    <2> QED
      BY <1>5
  <1> HIDE DEF sum
  <1>7. ASSUME NEW h, Is(h)
        PROVE  /\ h[0] = 0
               /\ \A k \in 1 .. n : h[k] = h[k - 1] + s[k]
    <2>1. \A k \in 0 .. n : h[k] = IF k = 0 THEN 0 ELSE h[k - 1] + s[k]
      BY <1>7
    <2>2. 0 \in 0 .. n /\ \A k \in 1 .. n : k \in 0 .. n /\ k # 0
      BY <1>1
    <2> QED
      BY <2>1, <2>2
  <1>8. sum = f
    <2> DEFINE S == {j \in 0 .. n : sum[j] = f[j]}
    <2>1. 0 \in S
      BY <1>1, <1>5, <1>6, <1>7
    <2>2. ASSUME NEW j \in 0 .. n - 1, j \in S PROVE j + 1 \in S
      <3>1. j + 1 \in 0 .. n /\ j + 1 \in 1 .. n /\ (j + 1) - 1 = j
        BY <1>1
      <3>2. sum[j + 1] = sum[j] + s[j + 1] /\ f[j + 1] = f[j] + s[j + 1]
        <4> HIDE DEF Is
        <4> QED
          BY <1>5, <1>6, <1>7, <3>1
      <3> QED
        BY <2>2, <3>1, <3>2
    <2>3. S \in SUBSET (0 .. n)
      OBVIOUS
    <2>4. S = 0 .. n
      <3> HIDE DEF S
      <3> QED
        BY <1>1, <2>1, <2>2, <2>3, BoundedInduction
    <2>5. \A k \in 0 .. n : sum[k] = f[k]
      BY <2>4
    <2>6. sum = [k \in 0 .. n |-> sum[k]] /\ f = [k \in 0 .. n |-> f[k]]
      BY <1>4, <1>6
    <2> HIDE DEF Is
    <2>7. [k \in 0 .. n |-> sum[k]] = [k \in 0 .. n |-> f[k]]
      BY <2>5
    <2> QED
      BY <2>6, <2>7, Zenon
  <1>9. /\ f[0] = 0 /\ Total(s) = f[n]
        /\ \A k \in 1 .. n : f[k] = f[k - 1] + s[k]
    <2> HIDE DEF Is
    <2> QED
      BY <1>2, <1>5, <1>7, <1>8
  <1> QED
    BY <1>4, <1>9 DEF n

LEMMA TotalAppend ==
  ASSUME NEW s \in Seq(Nat), NEW a \in Nat
  PROVE  Total(Append(s, a)) = Total(s) + a /\ Total(s) \in Nat
  <1> DEFINE n == Len(s)
             t == Append(s, a)
  <1>1. n \in Nat /\ t \in Seq(Nat) /\ Len(t) = n + 1 /\ t[n + 1] = a
        /\ \A k \in 1 .. n : t[k] = s[k]
    BY AppendProperties
  <1>2. PICK f \in [0 .. n -> Nat] :
            /\ f[0] = 0 /\ Total(s) = f[n]
            /\ \A k \in 1 .. n : f[k] = f[k - 1] + s[k]
    BY TotalIs
  <1> HIDE DEF n, t
  <1>3. PICK g \in [0 .. Len(t) -> Nat] :
            /\ g[0] = 0 /\ Total(t) = g[Len(t)]
            /\ \A k \in 1 .. Len(t) : g[k] = g[k - 1] + t[k]
    BY <1>1, TotalIs
  <1> DEFINE S == {j \in 0 .. n : g[j] = f[j]}
  <1>4. 0 \in S
    BY <1>1, <1>2, <1>3
  <1>5. ASSUME NEW j \in 0 .. n - 1, j \in S PROVE j + 1 \in S
    <2>1. j + 1 \in 0 .. n /\ j + 1 \in 1 .. n /\ j + 1 \in 1 .. Len(t) /\ (j + 1) - 1 = j
      BY <1>1
    <2>2. g[j + 1] = g[j] + t[j + 1] /\ f[j + 1] = f[j] + s[j + 1] /\ t[j + 1] = s[j + 1]
      BY <1>1, <1>2, <1>3, <2>1
    <2> QED
      BY <1>5, <2>1, <2>2
  <1>6. S \in SUBSET (0 .. n)
    OBVIOUS
  <1>7. S = 0 .. n
    <2> HIDE DEF S
    <2> QED
      BY <1>1, <1>4, <1>5, <1>6, BoundedInduction
  <1>8. g[n] = f[n] /\ f[n] \in Nat
    <2>1. n \in 0 .. n
      BY <1>1
    <2>2. n \in S
      BY <1>7, <2>1
    <2> QED
      BY <1>2, <2>1, <2>2
  <1>9. g[n + 1] = g[n] + t[n + 1]
    <2>1. n + 1 \in 1 .. Len(t) /\ (n + 1) - 1 = n
      BY <1>1
    <2> QED
      BY <1>3, <2>1
  <1>10. Total(t) = g[n + 1]
    BY <1>1, <1>3
  <1> QED
    BY <1>1, <1>2, <1>8, <1>9, <1>10 DEF t

LEMMA TotalEmpty == Total(<<>>) = 0
  <1>1. <<>> \in Seq(Nat) /\ Len(<<>>) = 0
    OBVIOUS
  <1>2. PICK f \in [0 .. Len(<<>>) -> Nat] : f[0] = 0 /\ Total(<<>>) = f[Len(<<>>)]
    BY <1>1, TotalIs
  <1> QED
    BY <1>1, <1>2

-----------------------------------------------------------------------------
(* What the calls on the stack have allocated. *)

IsCall(c) == /\ DOMAIN c = {"kind", "items", "key", "blocks"}
             /\ c.blocks \in Nat /\ c.key.blocks \in Nat

\* A sequence of calls; their trees are of no set.
Calls(st) == \E S : st \in Seq(S) /\ \A c \in S : IsCall(c)

Held(st) == Total([k \in 1 .. Len(st) |-> st[k].blocks + st[k].key.blocks])

LEMMA Pushed ==
  ASSUME NEW st, Calls(st), NEW c, IsCall(c)
  PROVE  /\ Calls(Append(st, c)) /\ Append(st, c) # <<>> /\ Last(Append(st, c)) = c
         /\ Held(st) \in Nat /\ Held(Append(st, c)) = Held(st) + c.blocks + c.key.blocks
  <1> DEFINE n == Len(st)
             t == Append(st, c)
             u == [k \in 1 .. n |-> st[k].blocks + st[k].key.blocks]
             a == c.blocks + c.key.blocks
             v == [k \in 1 .. Len(t) |-> t[k].blocks + t[k].key.blocks]
  <1>1. PICK S : st \in Seq(S) /\ \A e \in S : IsCall(e)
    BY DEF Calls
  <1> DEFINE T == S \cup {c}
  <1>2. st \in Seq(T) /\ c \in T /\ \A e \in T : IsCall(e)
    BY <1>1
  <1>3. /\ n \in Nat /\ t \in Seq(T) /\ Len(t) = n + 1 /\ t[n + 1] = c
        /\ \A k \in 1 .. n : t[k] = st[k] /\ st[k] \in T
    BY <1>2, AppendProperties
  <1> HIDE DEF T, t, n
  <1>4. Calls(t)
    BY <1>2, <1>3 DEF Calls
  <1>5. t # <<>> /\ Last(t) = c
    BY <1>3 DEF Last
  <1>6. u \in Seq(Nat) /\ Len(u) = n
    <2>1. \A k \in 1 .. n : st[k].blocks + st[k].key.blocks \in Nat
      BY <1>2, <1>3 DEF IsCall
    <2> QED
      BY <1>3, <2>1
  <1>7. a \in Nat
    BY <1>2 DEF IsCall
  <1>8. v = Append(u, a)
    <2>1. /\ Append(u, a) \in Seq(Nat) /\ Len(Append(u, a)) = n + 1 /\ Append(u, a)[n + 1] = a
          /\ \A k \in 1 .. n : Append(u, a)[k] = u[k]
      <3> HIDE DEF u, a
      <3> QED
        BY <1>6, <1>7, AppendProperties
    <2>2. v \in Seq(Nat) /\ Len(v) = n + 1
      <3>1. \A k \in 1 .. Len(t) : t[k] \in T
        BY <1>3
      <3>2. \A k \in 1 .. Len(t) : t[k].blocks + t[k].key.blocks \in Nat
        BY <1>2, <3>1 DEF IsCall
      <3> QED
        BY <1>3, <3>2
    <2>3. ASSUME NEW k \in 1 .. n + 1 PROVE v[k] = Append(u, a)[k]
      <3>1. v[k] = t[k].blocks + t[k].key.blocks
        BY <1>3
      <3>2. CASE k = n + 1
        BY <1>3, <2>1, <3>1, <3>2
      <3>3. CASE k # n + 1
        <4>1. k \in 1 .. n
          BY <1>3, <3>3
        <4>2. u[k] = st[k].blocks + st[k].key.blocks
          BY <4>1
        <4> QED
          BY <1>3, <2>1, <3>1, <4>1, <4>2
      <3> QED
        BY <3>2, <3>3
    <2> HIDE DEF u, v, a
    <2> QED
      BY <1>3, <2>1, <2>2, <2>3, SeqEqual
  <1>9. Total(Append(u, a)) = Total(u) + a /\ Total(u) \in Nat
    <2> HIDE DEF u, a
    <2> QED
      BY <1>6, <1>7, TotalAppend
  <1>10. Held(st) = Total(u) /\ Held(t) = Total(v)
    BY DEF Held, n
  <1> HIDE DEF u, v
  <1>11. c.blocks \in Nat /\ c.key.blocks \in Nat
    BY DEF IsCall
  <1>12. Held(t) = Held(st) + c.blocks + c.key.blocks /\ Held(st) \in Nat
    BY <1>8, <1>9, <1>10, <1>11
  <1> QED
    BY <1>4, <1>5, <1>12 DEF t

LEMMA Popped ==
  ASSUME NEW st, Calls(st), st # <<>>
  PROVE  /\ Calls(Front(st)) /\ IsCall(Last(st))
         /\ Held(Front(st)) \in Nat
         /\ Held(st) = Held(Front(st)) + Last(st).blocks + Last(st).key.blocks
  <1> DEFINE n == Len(st)
             f == SubSeq(st, 1, n - 1)
             l == st[n]
  <1>1. PICK S : st \in Seq(S) /\ \A e \in S : IsCall(e)
    BY DEF Calls
  <1>2. n \in Nat \ {0} /\ \A k \in 1 .. n : st[k] \in S
    BY <1>1
  <1>3. f \in Seq(S) /\ Len(f) = n - 1 /\ \A k \in 1 .. n - 1 : f[k] = st[k]
    <2>1. \A k \in 1 .. n - 1 : st[k] \in S
      BY <1>2
    <2>2. /\ f \in Seq(S) /\ Len(f) = IF 1 <= n - 1 THEN n - 1 - 1 + 1 ELSE 0
          /\ \A k \in 1 .. n - 1 - 1 + 1 : f[k] = st[1 + k - 1]
      BY <1>2, <2>1, SubSeqProperties
    <2>3. n - 1 - 1 + 1 = n - 1 /\ \A k \in 1 .. n - 1 : 1 + k - 1 = k
      BY <1>2
    <2> HIDE DEF f, n
    <2> QED
      BY <1>2, <2>2, <2>3
  <1>4. l \in S /\ IsCall(l)
    BY <1>1, <1>2
  <1>5. Front(st) = f /\ Last(st) = l
    BY DEF Front, Last
  <1> HIDE DEF f, l
  <1>6. Calls(f)
    BY <1>1, <1>3 DEF Calls
  <1>7. st = Append(f, l)
    <2>1. /\ Append(f, l) \in Seq(S) /\ Len(Append(f, l)) = (n - 1) + 1
          /\ Append(f, l)[(n - 1) + 1] = l /\ \A k \in 1 .. n - 1 : Append(f, l)[k] = f[k]
      BY <1>3, <1>4, AppendProperties
    <2>2. (n - 1) + 1 = n
      BY <1>2
    <2>3. ASSUME NEW k \in 1 .. n PROVE st[k] = Append(f, l)[k]
      <3>1. k \in 1 .. n - 1 \/ k = n
        BY <1>2
      <3> QED
        BY <1>3, <2>1, <2>2, <3>1 DEF l
    <2> QED
      BY <1>1, <1>2, <2>1, <2>2, <2>3, SeqEqual
  <1>8. Held(f) \in Nat /\ Held(Append(f, l)) = Held(f) + l.blocks + l.key.blocks
    BY <1>4, <1>6, Pushed
  <1> QED
    BY <1>4, <1>5, <1>6, <1>7, <1>8

LEMMA NoneHeld == Calls(<<>>) /\ Held(<<>>) = 0
  <1> DEFINE none == {}
  <1>1. <<>> \in Seq(none) /\ \A c \in none : IsCall(c)
    OBVIOUS
  <1> HIDE DEF none
  <1>2. Calls(<<>>)
    BY <1>1 DEF Calls
  <1>3. [k \in 1 .. Len(<<>>) |-> <<>>[k].blocks + <<>>[k].key.blocks] = <<>>
    OBVIOUS
  <1> QED
    BY <1>2, <1>3, TotalEmpty DEF Held

-----------------------------------------------------------------------------
(* Every block has an owner. *)

\* The blocks are those of the calls, of the value returned and of the string
\* that is being read.
Owned == Held(stack) + (IF jpc \in {"returned", "accepted"} THEN ret.blocks ELSE 0)
                     + (IF jpc = "string" THEN 1 ELSE 0)

LeakInv ==
  /\ Calls(stack) /\ ret.blocks \in Nat /\ live = Owned
  /\ DOMAIN str = {"use", "begin", "end", "out"}
  \* an object that reads a key does not have one yet
  /\ jpc = "key" \/ (jpc = "string" /\ str.use = "key") =>
        stack # <<>> /\ Last(stack).key.blocks = 0
  /\ jpc \in {"accepted", "rejected", "freed"} => stack = <<>>

LEMMA OwnedIs ==
  ASSUME LeakInv
  PROVE  /\ Held(stack) \in Nat
         /\ jpc \in {"returned", "accepted"} => live = Held(stack) + ret.blocks
         /\ jpc = "string" => live = Held(stack) + 1
         /\ jpc \notin {"returned", "accepted", "string"} => live = Held(stack)
  <1> DEFINE c == [kind |-> "array", items |-> <<>>, key |-> NoKey, blocks |-> 1]
  <1>1. IsCall(c)
    BY DEF IsCall, NoKey
  <1> HIDE DEF c
  <1>2. Held(stack) \in Nat
    BY <1>1, Pushed DEF LeakInv
  <1> QED
    BY <1>2 DEF LeakInv, Owned

\* A value begins: a call is pushed, or it is complete and empty.
LEMMA OpenOwns ==
  ASSUME LeakInv, NEW bracket, NEW close, NEW kind, NEW next \in {"value", "key"},
         Open(bracket, close, kind, next)
  PROVE  LeakInv'
  <1> DEFINE i == Skip(p)
             j == Skip(i + 1)
             c == [kind |-> kind, items |-> <<>>, key |-> NoKey, blocks |-> 1]
  <1>1. Held(stack) \in Nat /\ live = Held(stack) /\ jpc = "value" /\ live' = live + 1
        /\ str' = str /\ Calls(stack) /\ ret.blocks \in Nat
    <2>1. jpc = "value" /\ live' = live + 1 /\ str' = str
      BY DEF Open
    <2> QED
      BY <2>1, OwnedIs DEF LeakInv
  <1>2. \/ jpc' = "returned" /\ ret'.blocks = 1 /\ stack' = stack
        \/ jpc' = next /\ stack' = Append(stack, c) /\ ret' = ret
    <2>1. \/ p' = j + 1 /\ Return(<<kind, <<>>>>, 1) /\ UNCHANGED stack
          \/ stack' = Append(stack, c) /\ p' = j /\ jpc' = next /\ UNCHANGED ret
      BY DEF Open
    <2> HIDE DEF c
    <2> QED
      BY <2>1 DEF Return
  <1>3. IsCall(c) /\ c.key.blocks = 0 /\ c.blocks = 1
    BY DEF IsCall, NoKey
  <1> HIDE DEF c
  <1>4. CASE jpc' = "returned" /\ ret'.blocks = 1 /\ stack' = stack
    <2>1. Held(stack') = Held(stack) /\ Calls(stack')
      BY <1>1, <1>4
    <2> QED
      BY <1>1, <1>4, <2>1 DEF LeakInv, Owned
  <1>5. CASE jpc' = next /\ stack' = Append(stack, c) /\ ret' = ret
    <2>1. /\ Calls(stack') /\ stack' # <<>> /\ Last(stack') = c
          /\ Held(stack') = Held(stack) + 1 + 0
      BY <1>1, <1>3, <1>5, Pushed
    <2> QED
      BY <1>1, <1>3, <1>5, <2>1 DEF LeakInv, Owned
  <1> QED
    BY <1>2, <1>4, <1>5

\* Whatever leaves the stack alone.
LEMMA OwnsStill ==
  ASSUME LeakInv, stack' = stack, ret'.blocks \in Nat, live' = Owned',
         DOMAIN str' = {"use", "begin", "end", "out"},
         jpc' = "key" \/ (jpc' = "string" /\ str'.use = "key") =>
            stack # <<>> /\ Last(stack).key.blocks = 0,
         jpc' \in {"accepted", "rejected", "freed"} => stack = <<>>
  PROVE  LeakInv'
  BY DEF LeakInv

LEMMA ValueOwns ==
  ASSUME LeakInv, Literal \/ Number \/ NoSuchValue
  PROVE  LeakInv'
  <1>1. Held(stack) \in Nat /\ live = Held(stack) /\ jpc = "value" /\ stack' = stack /\ str' = str
    BY OwnedIs DEF Literal, Number, NoSuchValue, Fail, Return
  <1>2. \/ jpc' = "returned" /\ live' = live + 1 /\ ret'.blocks = 1
        \/ jpc' = "unwind" /\ live' = live /\ ret' = ret
    <2>1. ASSUME Literal PROVE jpc' = "returned" /\ live' = live + 1 /\ ret'.blocks = 1
      BY <2>1 DEF Literal, Return
    <2>2. ASSUME Number
          PROVE  \/ jpc' = "returned" /\ live' = live + 1 /\ ret'.blocks = 1
                 \/ jpc' = "unwind" /\ live' = live /\ ret' = ret
      BY <2>2 DEF Number, Return, Fail
    <2>3. ASSUME NoSuchValue PROVE jpc' = "unwind" /\ live' = live /\ ret' = ret
      BY <2>3 DEF NoSuchValue, Fail
    <2> QED
      BY <2>1, <2>2, <2>3
  <1>3. Held(stack') = Held(stack)
    BY <1>1
  <1>4. ret.blocks \in Nat
    BY DEF LeakInv
  <1>5. live' = Owned' /\ ret'.blocks \in Nat
    BY <1>1, <1>2, <1>3, <1>4 DEF Owned
  <1>6. DOMAIN str' = {"use", "begin", "end", "out"}
    BY <1>1 DEF LeakInv
  <1> QED
    BY <1>1, <1>2, <1>5, <1>6, OwnsStill

LEMMA StringOwns ==
  ASSUME LeakInv,
         ValueString \/ KeyString \/ Plain \/ Unescape \/ BadEscape
            \/ EndString
  PROVE  LeakInv'
  <1>1. ret.blocks \in Nat
    BY DEF LeakInv
  <1>2. CASE ValueString \/ KeyString
    <2>1. PICK use \in {"value", "key"} : OpenString(use)
      BY <1>2 DEF ValueString, KeyString
    <2>2. jpc = use /\ stack' = stack /\ ret' = ret
      BY <2>1 DEF OpenString, Fail
    <2>3. \/ jpc' = "string" /\ live' = live + 1 /\ str'.use = use
                /\ DOMAIN str' = {"use", "begin", "end", "out"}
          \/ jpc' = "unwind" /\ live' = live /\ str' = str
      BY <2>1 DEF OpenString, Fail
    <2>4. Held(stack) \in Nat /\ live = Held(stack) /\ Held(stack') = Held(stack)
      BY <2>2, OwnedIs
    <2>5. live' = Owned' /\ ret'.blocks \in Nat
      BY <1>1, <2>2, <2>3, <2>4 DEF Owned
    <2>6. use = "key" => stack # <<>> /\ Last(stack).key.blocks = 0
      BY <2>2 DEF LeakInv
    <2>7. DOMAIN str' = {"use", "begin", "end", "out"}
      BY <2>3 DEF LeakInv
    <2> QED
      BY <2>2, <2>3, <2>5, <2>6, <2>7, OwnsStill
  <1>3. CASE Plain \/ Unescape
    <2>1. PICK ch, n : Emit(ch, n) /\ jpc = "string"
      BY <1>3 DEF Plain, Unescape
    <2>2. UNCHANGED <<jpc, stack, ret, live>> /\ str' = [str EXCEPT !.out = Append(@, ch)]
      BY <2>1 DEF Emit
    <2>3. str'.use = str.use /\ DOMAIN str' = {"use", "begin", "end", "out"}
      BY <2>2 DEF LeakInv
    <2> QED
      BY <2>1, <2>2, <2>3, OwnsStill DEF LeakInv, Owned
  <1>4. CASE BadEscape \/ EndString
    <2>1. jpc = "string" /\ stack' = stack
      BY <1>4 DEF BadEscape, EndString
    <2>2. Held(stack) \in Nat /\ live = Held(stack) + 1 /\ Held(stack') = Held(stack)
      BY <2>1, OwnedIs
    <2>3. \/ jpc' = "unwind" /\ live' = live - 1 /\ ret' = ret /\ str' = str
          \/ jpc' = "returned" /\ live' = live + 1 /\ ret'.blocks = 2 /\ str' = NoString
      BY <1>4 DEF BadEscape, EndString, Return
    <2>4. live' = Owned' /\ ret'.blocks \in Nat
      BY <1>1, <2>2, <2>3 DEF Owned
    <2>5. DOMAIN str' = {"use", "begin", "end", "out"}
      BY <2>3 DEF LeakInv, NoString
    <2> QED
      BY <2>1, <2>3, <2>4, <2>5, OwnsStill
  <1> QED
    BY <1>2, <1>3, <1>4

\* A key is kept by the object it is for, or freed.
LEMMA KeyOwns ==
  ASSUME LeakInv, EndKey
  PROVE  LeakInv'
  <1> DEFINE top == Last(stack)
             c == [top EXCEPT !.key = [name |-> Visible(str.out), blocks |-> 1]]
  <1>1. jpc = "string" /\ str.use = "key" /\ str' = NoString /\ ret' = ret
        /\ ret.blocks \in Nat
    BY DEF EndKey, LeakInv
  <1>2. Calls(stack) /\ stack # <<>> /\ top.key.blocks = 0 /\ live = Held(stack) + 1
        /\ Held(stack) \in Nat
    BY <1>1, OwnedIs DEF LeakInv
  <1>3. \/ jpc' = "value" /\ live' = live /\ stack' = Append(Front(stack), c)
        \/ jpc' = "unwind" /\ live' = live - 1 /\ stack' = stack
    BY DEF EndKey, Top
  <1>4. /\ Calls(Front(stack)) /\ IsCall(top) /\ Held(Front(stack)) \in Nat
        /\ Held(stack) = Held(Front(stack)) + top.blocks + top.key.blocks
    BY <1>2, Popped
  <1>5. DOMAIN str' = {"use", "begin", "end", "out"}
    BY <1>1 DEF NoString
  <1>6. IsCall(c) /\ c.blocks = top.blocks /\ c.key.blocks = 1
    <2> HIDE DEF top
    <2> QED
      BY <1>4 DEF IsCall
  <1> HIDE DEF c
  <1>7. top.blocks \in Nat
    BY <1>4 DEF IsCall
  <1> HIDE DEF top
  <1>8. CASE jpc' = "value" /\ live' = live /\ stack' = Append(Front(stack), c)
    <2>1. Calls(stack') /\ Held(stack') = Held(Front(stack)) + c.blocks + c.key.blocks
      BY <1>4, <1>6, <1>8, Pushed
    <2>2. live' = Held(stack')
      BY <1>2, <1>4, <1>6, <1>7, <1>8, <2>1
    <2>3. Held(stack') \in Nat
      BY <1>4, <1>6, <1>7, <2>1
    <2> QED
      BY <1>1, <1>5, <1>8, <2>1, <2>2, <2>3 DEF LeakInv, Owned
  <1>9. CASE jpc' = "unwind" /\ live' = live - 1 /\ stack' = stack
    <2>1. Held(stack') = Held(stack)
      BY <1>9
    <2>2. live' = Owned'
      BY <1>2, <1>9, <2>1 DEF Owned
    <2> QED
      BY <1>1, <1>5, <1>9, <2>2, OwnsStill
  <1> QED
    BY <1>3, <1>8, <1>9

\* What is returned becomes part of the call on top.
LEMMA FilledIs ==
  ASSUME IsCall(Last(stack)), ret.blocks \in Nat
  PROVE  LET top == Last(stack) IN
         /\ IsCall(Filled.call) /\ Filled.call.key.blocks = 0
         /\ Filled.grown \in Nat
         /\ Filled.call.blocks = top.blocks + ret.blocks + top.key.blocks + Filled.grown
  <1> DEFINE top == Last(stack)
             first == top.items = <<>>
             item  == IF top.kind = "array" THEN ret.tree ELSE <<top.key.name, ret.tree>>
             grown == IF ~first THEN 0 ELSE IF top.kind = "array" THEN 1 ELSE 2
             call == [top EXCEPT !.items = Append(@, item), !.key = NoKey,
                                 !.blocks = @ + ret.blocks + top.key.blocks + grown]
  <1>1. Filled = [call |-> call, grown |-> grown]
    BY DEF Filled, Top
  <1>2. grown \in Nat
    OBVIOUS
  <1> HIDE DEF grown, item
  <1>3. top.blocks \in Nat /\ top.key.blocks \in Nat /\ DOMAIN top = {"kind", "items", "key", "blocks"}
    BY DEF IsCall
  <1> HIDE DEF top
  <1>4. /\ DOMAIN call = {"kind", "items", "key", "blocks"}
        /\ call.key = NoKey
        /\ call.blocks = top.blocks + ret.blocks + top.key.blocks + grown
    BY <1>3
  <1> HIDE DEF call
  <1>5. NoKey.blocks = 0
    BY DEF NoKey
  <1>6. IsCall(call) /\ call.key.blocks = 0
    BY <1>2, <1>3, <1>4, <1>5 DEF IsCall
  <1>7. Filled.call = call /\ Filled.grown = grown
    BY <1>1
  <1>8. /\ IsCall(Filled.call) /\ Filled.call.key.blocks = 0
        /\ Filled.grown \in Nat
        /\ Filled.call.blocks = top.blocks + ret.blocks + top.key.blocks + Filled.grown
    BY <1>2, <1>4, <1>6, <1>7
  <1> QED
    BY <1>8 DEF top

LEMMA ItemOwns ==
  ASSUME LeakInv, TakeItem
  PROVE  LeakInv'
  <1> DEFINE top == Last(stack)
             i == Skip(p)
             close == IF top.kind = "array" THEN "]" ELSE "}"
             front == Front(stack)
             c == Filled.call
             grown == Filled.grown
  <1>1. jpc = "returned" /\ stack # <<>> /\ str' = str /\ live' = live + grown
    BY DEF TakeItem
  <1>2. \/ jpc' \in {"value", "key", "unwind"} /\ stack' = Append(front, c) /\ ret' = ret
        \/ jpc' = "returned" /\ ret'.blocks = c.blocks /\ stack' = front
    <2>1. \/ /\ At(i) = ","
             /\ p' = i + 1
             /\ jpc' = IF top.kind = "array" THEN "value" ELSE "key"
             /\ stack' = Append(front, c)
             /\ UNCHANGED ret
          \/ /\ At(i) = close
             /\ p' = i + 1
             /\ Return(<<top.kind, c.items>>, c.blocks)
             /\ stack' = front
          \/ /\ At(i) \notin {",", close}
             /\ stack' = Append(front, c)
             /\ jpc' = "unwind"
             /\ UNCHANGED <<p, ret>>
      BY DEF TakeItem, Top
    <2> HIDE DEF c, front, top, close, i
    <2>2. Return(<<top.kind, c.items>>, c.blocks) => jpc' = "returned" /\ ret'.blocks = c.blocks
      BY DEF Return
    <2>3. jpc' = (IF top.kind = "array" THEN "value" ELSE "key") => jpc' \in {"value", "key"}
      OBVIOUS
    <2> QED
      BY <2>1, <2>2, <2>3
  <1>3. Calls(stack) /\ live = Held(stack) + ret.blocks /\ ret.blocks \in Nat
        /\ DOMAIN str = {"use", "begin", "end", "out"}
    BY <1>1, OwnedIs DEF LeakInv
  <1>4. /\ Calls(front) /\ IsCall(top) /\ Held(front) \in Nat
        /\ Held(stack) = Held(front) + top.blocks + top.key.blocks
    BY <1>1, <1>3, Popped
  <1>5. /\ IsCall(c) /\ c.key.blocks = 0 /\ grown \in Nat
        /\ c.blocks = top.blocks + ret.blocks + top.key.blocks + grown
    BY <1>3, <1>4, FilledIs
  <1>6. top.blocks \in Nat /\ top.key.blocks \in Nat
    BY <1>4 DEF IsCall
  <1> HIDE DEF top, front, c, grown
  <1>7. live' = Held(front) + c.blocks /\ c.blocks \in Nat
    <2>1. live' = live + grown
      BY <1>1
    <2>2. live = Held(stack) + ret.blocks /\ ret.blocks \in Nat
      BY <1>3
    <2>3. Held(front) \in Nat /\ Held(stack) = Held(front) + top.blocks + top.key.blocks
      BY <1>4
    <2>4. grown \in Nat /\ c.blocks = top.blocks + ret.blocks + top.key.blocks + grown
      BY <1>5
    <2> QED
      BY <1>6, <2>1, <2>2, <2>3, <2>4
  <1>8. CASE jpc' \in {"value", "key", "unwind"} /\ stack' = Append(front, c) /\ ret' = ret
    <2>1. /\ Calls(stack') /\ stack' # <<>> /\ Last(stack') = c
          /\ Held(stack') = Held(front) + c.blocks + c.key.blocks
      BY <1>4, <1>5, <1>8, Pushed
    <2>2. live' = Held(stack') /\ Held(stack') \in Nat
      BY <1>4, <1>5, <1>7, <2>1
    <2> QED
      BY <1>1, <1>3, <1>5, <1>8, <2>1, <2>2 DEF LeakInv, Owned
  <1>9. CASE jpc' = "returned" /\ ret'.blocks = c.blocks /\ stack' = front
    <2>1. Calls(stack') /\ Held(stack') = Held(front)
      BY <1>4, <1>9
    <2> QED
      BY <1>1, <1>3, <1>4, <1>7, <1>9, <2>1 DEF LeakInv, Owned
  <1> QED
    BY <1>2, <1>8, <1>9

LEMMA EndOwns ==
  ASSUME LeakInv, Unwind \/ Reject \/ Finish \/ Free
  PROVE  LeakInv'
  <1> DEFINE top == Last(stack)
             front == Front(stack)
  <1>1. Calls(stack) /\ ret.blocks \in Nat /\ Held(stack) \in Nat
        /\ DOMAIN str = {"use", "begin", "end", "out"}
    BY OwnedIs DEF LeakInv
  <1>2. CASE Unwind
    <2>1. /\ jpc = "unwind" /\ stack # <<>> /\ live' = live - top.blocks - top.key.blocks
          /\ stack' = front /\ jpc' = jpc /\ str' = str /\ ret' = ret
      BY <1>2 DEF Unwind, Top
    <2>2. /\ Calls(front) /\ IsCall(top) /\ Held(front) \in Nat
          /\ Held(stack) = Held(front) + top.blocks + top.key.blocks
      BY <1>1, <2>1, Popped
    <2>3. top.blocks \in Nat /\ top.key.blocks \in Nat
      BY <2>2 DEF IsCall
    <2>4. live = Held(stack)
      BY <2>1, OwnedIs
    <2> HIDE DEF top, front
    <2>5. live' = Held(front)
      BY <2>1, <2>2, <2>3, <2>4
    <2>6. Held(stack') = Held(front) /\ Calls(stack')
      BY <2>1, <2>2
    <2> QED
      BY <1>1, <2>1, <2>2, <2>5, <2>6 DEF LeakInv, Owned
  <1>3. CASE Reject \/ Finish \/ Free
    <2>1. stack = <<>> /\ UNCHANGED <<stack, str, ret>>
      BY <1>3 DEF Reject, Finish, Free, LeakInv
    <2>2. Held(stack) = 0 /\ Held(stack') = 0
      BY <2>1, NoneHeld
    <2>3. \/ jpc = "unwind" /\ jpc' = "rejected" /\ live' = live
          \/ jpc = "returned" /\ jpc' = "accepted" /\ live' = live
          \/ jpc = "returned" /\ jpc' = "rejected" /\ live' = live - ret.blocks
          \/ jpc = "accepted" /\ jpc' = "freed" /\ live' = live - ret.blocks
      BY <1>3 DEF Reject, Finish, Free
    <2>4. /\ jpc \in {"returned", "accepted"} => live = 0 + ret.blocks
          /\ jpc = "unwind" => live = 0
      BY <2>2, OwnedIs
    <2>5. live' = Owned'
      BY <1>1, <2>1, <2>2, <2>3, <2>4 DEF Owned
    <2> QED
      BY <1>1, <2>1, <2>3, <2>5, OwnsStill
  <1> QED
    BY <1>2, <1>3

LEMMA LeakInvariant == ParseSpec => []LeakInv
  <1>1. ParseInit => LeakInv
    <2> SUFFICES ASSUME ParseInit PROVE LeakInv
      OBVIOUS
    <2>1. /\ jpc = "value" /\ stack = <<>> /\ str = NoString /\ ret = NoValue /\ live = 0
      BY DEF ParseInit
    <2>2. ret.blocks = 0 /\ DOMAIN str = {"use", "begin", "end", "out"}
      BY <2>1 DEF NoValue, NoString
    <2>3. Calls(stack) /\ Held(stack) = 0
      BY <2>1, NoneHeld
    <2> QED
      BY <2>1, <2>2, <2>3 DEF LeakInv, Owned
  <1>2. LeakInv /\ [ParseNext]_parser => LeakInv'
    <2> SUFFICES ASSUME LeakInv, [ParseNext]_parser PROVE LeakInv'
      OBVIOUS
    <2>1. CASE OpenArray \/ OpenObject
      BY <2>1, OpenOwns DEF OpenArray, OpenObject
    <2>2. CASE Literal \/ Number \/ NoSuchValue
      BY <2>2, ValueOwns
    <2>3. CASE ValueString \/ KeyString \/ Plain \/ Unescape
                 \/ BadEscape \/ EndString
      BY <2>3, StringOwns
    <2>4. CASE EndKey
      BY <2>4, KeyOwns
    <2>5. CASE TakeItem
      BY <2>5, ItemOwns
    <2>6. CASE Unwind \/ Reject \/ Finish \/ Free
      BY <2>6, EndOwns
    <2>7. CASE UNCHANGED parser
      BY <2>7, OwnsStill DEF parser, LeakInv, Owned
    <2> QED
      BY <2>1, <2>2, <2>3, <2>4, <2>5, <2>6, <2>7 DEF ParseNext, Step, Parsed
  <1> QED
    BY <1>1, <1>2, PTL DEF ParseSpec

\* Whatever the text and wherever it goes wrong, json_parse frees what it has
\* allocated, and json_free the whole of what it returned (src/json.c).
THEOREM EverythingIsFreed == ParseSpec => []NothingLeaks
  <1>1. LeakInv => NothingLeaks
    <2> SUFFICES ASSUME LeakInv, jpc \in {"rejected", "freed"} PROVE live = 0
      BY DEF NothingLeaks
    <2>1. stack = <<>>
      BY DEF LeakInv
    <2>2. live = Held(stack) /\ Held(stack) = 0
      BY <2>1, OwnedIs, NoneHeld
    <2> QED
      BY <2>2
  <1> QED
    BY <1>1, LeakInvariant, PTL

-----------------------------------------------------------------------------
(* The cursor. *)

LEMMA AtIs ==
  ASSUME text \in Seq(Elements)
  PROVE  /\ Len(text) \in Nat
         /\ \A q \in 1 .. Len(text) : At(q) = text[q] /\ text[q] \in Elements
         /\ \A q \in 1 .. Len(text) : At(q) # "NUL"
         /\ \A q \in Int : q > Len(text) => At(q) = "NUL"
         /\ \A q \in 1 .. Len(text) + 1 : At(q) # "NUL" => q \in 1 .. Len(text)
  <1>1. Len(text) \in Nat /\ \A q \in 1 .. Len(text) : text[q] \in Elements
    OBVIOUS
  <1>2. \A q \in 1 .. Len(text) : At(q) = text[q] /\ q \in Int
    BY <1>1 DEF At
  <1>3. \A q \in Int : q > Len(text) => At(q) = "NUL"
    BY <1>1 DEF At
  <1>4. "NUL" \notin Elements
    BY DEF Elements, Escape
  <1>5. \A q \in 1 .. Len(text) + 1 : q \in 1 .. Len(text) \/ (q \in Int /\ q > Len(text))
    BY <1>1
  <1>6. \A q \in 1 .. Len(text) : At(q) # "NUL"
    BY <1>1, <1>2, <1>4
  <1>7. \A q \in 1 .. Len(text) + 1 : At(q) # "NUL" => q \in 1 .. Len(text)
    BY <1>3, <1>5
  <1> QED
    BY <1>1, <1>2, <1>3, <1>6, <1>7

\* The white space from a place on ends, at the NUL at the latest.
LEMMA SkipIs ==
  ASSUME text \in Seq(Elements), NEW q \in 1 .. Len(text) + 1
  PROVE  Skip(q) \in q .. Len(text) + 1
  <1> DEFINE S == {j \in q .. Len(text) + 1 : At(j) # "blank"}
  <1>1. Len(text) \in Nat /\ At(Len(text) + 1) = "NUL"
    BY AtIs
  <1>2. S \in SUBSET Nat /\ Len(text) + 1 \in S
    BY <1>1
  <1>3. PICK m \in S : \A k \in S : m <= k
    <2> HIDE DEF S
    <2> QED
      BY <1>2, LeastElement
  <1>4. m \in q .. Len(text) + 1 /\ At(m) # "blank"
    BY <1>3
  <1>5. ASSUME NEW k \in q .. m - 1 PROVE text[k] = "blank"
    <2>1. k \in q .. Len(text) + 1 /\ k < m /\ k \in 1 .. Len(text)
      BY <1>1, <1>4
    <2>2. k \notin S
      <3> HIDE DEF S
      <3> QED
        BY <1>1, <1>3, <1>4, <2>1
    <2>3. At(k) = "blank"
      BY <2>1, <2>2
    <2> QED
      BY <2>1, <2>3, AtIs
  <1> HIDE DEF S
  <1>6. \E j \in q .. Len(text) + 1 : At(j) # "blank" /\ \A k \in q .. j - 1 : text[k] = "blank"
    BY <1>4, <1>5
  <1> QED
    BY <1>6 DEF Skip

\* As does a number.
LEMMA NumberEndIs ==
  ASSUME text \in Seq(Elements), NEW q \in 1 .. Len(text)
  PROVE  NumberEnd(q) \in 1 .. Len(text) + 1
  <1> DEFINE first == IF At(q) = "-" THEN q + 1 ELSE q
             S == {j \in first .. Len(text) + 1 : At(j) # "1"}
             P(j) == At(j) # "1" /\ \A k \in first .. j - 1 : text[k] = "1"
  <1>1. Len(text) \in Nat /\ At(Len(text) + 1) = "NUL" /\ first \in 1 .. Len(text) + 1
    BY AtIs
  <1>2. NumberEnd(q) = CHOOSE j \in first .. Len(text) + 1 : P(j)
    BY DEF NumberEnd
  <1> HIDE DEF first
  <1>3. S \in SUBSET Nat /\ Len(text) + 1 \in S
    BY <1>1
  <1>4. PICK m \in S : \A k \in S : m <= k
    <2> HIDE DEF S
    <2> QED
      BY <1>3, LeastElement
  <1>5. m \in first .. Len(text) + 1 /\ At(m) # "1"
    BY <1>4
  <1>6. ASSUME NEW k \in first .. m - 1 PROVE text[k] = "1"
    <2>1. k \in first .. Len(text) + 1 /\ k < m /\ k \in 1 .. Len(text)
      BY <1>1, <1>5
    <2>2. k \notin S
      <3> HIDE DEF S
      <3> QED
        BY <1>1, <1>4, <1>5, <2>1
    <2>3. At(k) = "1"
      BY <2>1, <2>2
    <2> QED
      BY <2>1, <2>3, AtIs
  <1> HIDE DEF S
  <1>7. \E j \in first .. Len(text) + 1 : P(j)
    BY <1>5, <1>6
  <1> HIDE DEF P
  <1>8. NumberEnd(q) \in first .. Len(text) + 1
    BY <1>2, <1>7
  <1> QED
    BY <1>1, <1>8

-----------------------------------------------------------------------------
(* The scan for the closing quote. *)

LEMMA ScanNextIs ==
  ASSUME text \in Seq(Elements), NEW q \in 1 .. Len(text) + 1
  PROVE  /\ ScanNext(q) \in q .. Len(text) + 1
         /\ At(q) \notin {"quote", "NUL", "bslash"} => ScanNext(q) = q + 1
         /\ At(q) = "bslash" /\ At(q + 1) # "NUL" => ScanNext(q) = q + 2
  <1>1. /\ Len(text) \in Nat
        /\ \A k \in 1 .. Len(text) + 1 : At(k) # "NUL" => k \in 1 .. Len(text)
    BY AtIs
  <1>2. CASE At(q) \in {"quote", "NUL"}
    <2>1. ScanNext(q) = q
      BY <1>2 DEF ScanNext
    <2> QED
      BY <1>1, <1>2, <2>1
  <1>3. CASE At(q) = "bslash" /\ At(q + 1) # "NUL"
    <2>1. ScanNext(q) = q + 2
      BY <1>3 DEF ScanNext
    <2>2. q \in 1 .. Len(text) /\ q + 1 \in 1 .. Len(text) + 1
      BY <1>1, <1>3
    <2>3. q + 1 \in 1 .. Len(text)
      BY <1>1, <1>3, <2>2
    <2> QED
      BY <1>1, <1>3, <2>1, <2>3
  <1>4. CASE At(q) \notin {"quote", "NUL"} /\ ~(At(q) = "bslash" /\ At(q + 1) # "NUL")
    <2>1. ScanNext(q) = q + 1
      BY <1>4 DEF ScanNext
    <2>2. q \in 1 .. Len(text)
      BY <1>1, <1>4
    <2> QED
      BY <1>1, <1>4, <2>1, <2>2
  <1> QED
    BY <1>2, <1>3, <1>4

\* The scan that ends at e comes past q.
Passes(e, q) ==
  \E f \in [0 .. Len(text) -> 1 .. Len(text) + 1] :
     /\ \A k \in 1 .. Len(text) : f[k] = ScanNext(f[k - 1])
     /\ f[Len(text)] = e
     /\ \E k \in 0 .. Len(text) : f[k] = q

LEMMA ScanBegins ==
  ASSUME text \in Seq(Elements), NEW q \in 1 .. Len(text) + 1
  PROVE  Passes(ScanEnd(q), q)
  <1> DEFINE n == Len(text)
             A == 1 .. Len(text) + 1
             step == [kv \in (1 .. n) \X A |-> ScanNext(kv[2])]
             Is(f) == f = [k \in 0 .. n |-> IF k = 0 THEN q ELSE ScanNext(f[k - 1])]
             scan == CHOOSE f : Is(f)
  <1>1. n \in Nat
    OBVIOUS
  <1>2. ScanEnd(q) = scan[n]
    BY DEF ScanEnd
  <1>3. \A j \in A : ScanNext(j) \in A
    <2> SUFFICES ASSUME NEW j \in A PROVE ScanNext(j) \in A
      OBVIOUS
    <2>1. ScanNext(j) \in j .. Len(text) + 1
      BY ScanNextIs
    <2> QED
      BY <1>1, <2>1
  <1>4. q \in A
    OBVIOUS
  <1> HIDE DEF n, A
  <1>5. step \in [(1 .. n) \X A -> A]
    <2>1. ASSUME NEW kv \in (1 .. n) \X A PROVE ScanNext(kv[2]) \in A
      <3>1. kv[2] \in A
        OBVIOUS
      <3> QED
        BY <1>3, <3>1
    <2> QED
      BY <2>1
  <1>6. PICK f \in [0 .. n -> A] : Recurses(f, n, q, step)
    <2> HIDE DEF step
    <2> QED
      BY <1>1, <1>4, <1>5, RecursionExists
  <1>7. Is(f)
    <2>1. ASSUME NEW k \in 0 .. n
          PROVE  f[k] = IF k = 0 THEN q ELSE ScanNext(f[k - 1])
      <3>1. f[k] = IF k = 0 THEN q ELSE step[<<k, f[k - 1]>>]
        <4> HIDE DEF step
        <4> QED
          BY <1>6 DEF Recurses
      <3>2. CASE k = 0
        BY <3>1, <3>2
      <3>3. CASE k # 0
        <4>1. k \in 1 .. n /\ k - 1 \in 0 .. n
          BY <1>1, <3>3
        <4>2. <<k, f[k - 1]>> \in (1 .. n) \X A
          BY <1>6, <4>1
        <4>3. step[<<k, f[k - 1]>>] = ScanNext(f[k - 1])
          BY <4>2
        <4> QED
          BY <3>1, <3>3, <4>3
      <3> QED
        BY <3>2, <3>3
    <2> QED
      BY <1>6, <2>1
  <1>8. Is(scan)
    <2> HIDE DEF Is
    <2> QED
      BY <1>7
  <1> HIDE DEF scan
  <1>9. /\ \A k \in 0 .. n : scan[k] = IF k = 0 THEN q ELSE ScanNext(scan[k - 1])
        /\ scan = [k \in 0 .. n |-> scan[k]]
    BY <1>8
  <1> HIDE DEF Is
  <1>10. scan[0] = q /\ \A k \in 1 .. n : scan[k] = ScanNext(scan[k - 1])
    <2>1. 0 \in 0 .. n /\ \A k \in 1 .. n : k \in 0 .. n /\ k # 0
      BY <1>1
    <2> QED
      BY <1>9, <2>1
  <1>11. scan \in [0 .. n -> A]
    <2> DEFINE S == {j \in 0 .. n : scan[j] \in A}
    <2>1. 0 \in S
      BY <1>1, <1>4, <1>10
    <2>2. ASSUME NEW j \in 0 .. n - 1, j \in S PROVE j + 1 \in S
      <3>1. j + 1 \in 0 .. n /\ j + 1 \in 1 .. n /\ (j + 1) - 1 = j
        BY <1>1
      <3>2. scan[j + 1] = ScanNext(scan[j])
        BY <1>10, <3>1
      <3> QED
        BY <1>3, <2>2, <3>1, <3>2
    <2>3. S \in SUBSET (0 .. n)
      OBVIOUS
    <2>4. S = 0 .. n
      <3> HIDE DEF S
      <3> QED
        BY <1>1, <2>1, <2>2, <2>3, BoundedInduction
    <2>5. \A k \in 0 .. n : scan[k] \in A
      BY <2>4
    <2> QED
      BY <1>9, <2>5
  <1>12. 0 \in 0 .. n
    BY <1>1
  <1> QED
    BY <1>2, <1>10, <1>11, <1>12 DEF Passes, n, A

LEMMA ScanOrder ==
  ASSUME text \in Seq(Elements), NEW e, NEW q, Passes(e, q)
  PROVE  q \in 1 .. Len(text) + 1 /\ e \in 1 .. Len(text) + 1 /\ q <= e
  <1> DEFINE n == Len(text)
  <1>1. n \in Nat
    OBVIOUS
  <1>2. PICK f \in [0 .. n -> 1 .. n + 1] :
            /\ \A k \in 1 .. n : f[k] = ScanNext(f[k - 1])
            /\ f[n] = e
            /\ \E k \in 0 .. n : f[k] = q
    BY DEF Passes
  <1>3. PICK m \in 0 .. n : f[m] = q
    BY <1>2
  <1>4. \A j \in 1 .. n + 1 : ScanNext(j) \in j .. n + 1
    BY ScanNextIs
  <1> HIDE DEF n
  <1> DEFINE S == {j \in 0 .. n : j >= m => q <= f[j]}
  <1>5. q \in 1 .. n + 1 /\ n \in 0 .. n /\ e \in 1 .. n + 1
    <2>1. n \in 0 .. n
      BY <1>1
    <2> QED
      BY <1>2, <1>3, <2>1
  <1>6. 0 \in S
    BY <1>1, <1>3, <1>5
  <1>7. ASSUME NEW j \in 0 .. n - 1, j \in S PROVE j + 1 \in S
    <2>1. j + 1 \in 0 .. n /\ j + 1 \in 1 .. n /\ (j + 1) - 1 = j /\ j \in 0 .. n
      BY <1>1
    <2>2. f[j] \in 1 .. n + 1 /\ f[j + 1] \in f[j] .. n + 1
      BY <1>2, <1>4, <2>1
    <2>3. CASE j >= m
      <3>1. q <= f[j]
        BY <1>7, <2>3
      <3>2. q <= f[j + 1]
        BY <1>1, <1>5, <2>2, <3>1
      <3> QED
        BY <2>1, <3>2
    <2>4. CASE ~(j >= m)
      <3>1. j + 1 >= m => m = j + 1
        BY <1>1, <2>4
      <3>2. j + 1 >= m => q <= f[j + 1]
        BY <1>3, <1>5, <3>1
      <3> QED
        BY <2>1, <3>2
    <2> QED
      BY <2>3, <2>4
  <1>8. S \in SUBSET (0 .. n)
    OBVIOUS
  <1>9. S = 0 .. n
    <2> HIDE DEF S
    <2> QED
      BY <1>1, <1>6, <1>7, <1>8, BoundedInduction
  <1>10. n >= m /\ n \in S
    <2>1. n \in S
      <3> HIDE DEF S
      <3> QED
        BY <1>5, <1>9
    <2> QED
      BY <1>1, <2>1
  <1>11. q <= f[n]
    BY <1>10
  <1> QED
    BY <1>2, <1>5, <1>11 DEF n

LEMMA ScanContinues ==
  ASSUME text \in Seq(Elements), NEW e, NEW q, Passes(e, q), q # e
  PROVE  Passes(e, ScanNext(q))
  <1> DEFINE n == Len(text)
  <1>1. n \in Nat
    OBVIOUS
  <1>2. PICK f \in [0 .. n -> 1 .. n + 1] :
            /\ \A k \in 1 .. n : f[k] = ScanNext(f[k - 1])
            /\ f[n] = e
            /\ \E k \in 0 .. n : f[k] = q
    BY DEF Passes
  <1>3. PICK m \in 0 .. n : f[m] = q
    BY <1>2
  <1>4. m # n
    BY <1>2, <1>3
  <1>5. m + 1 \in 0 .. n /\ m + 1 \in 1 .. n /\ (m + 1) - 1 = m
    <2> HIDE DEF n
    <2> QED
      BY <1>1, <1>4
  <1>6. f[m + 1] = ScanNext(q)
    BY <1>2, <1>3, <1>5
  <1> QED
    BY <1>2, <1>5, <1>6 DEF Passes

-----------------------------------------------------------------------------
(* The string written and the part of the text it is spelled by. *)

Chars == Elements \cup {"LF", "NUL", "U+00E9", "U+D83D", "U+DE00", "U+1F600"}

\* No character takes more bytes than its escape, which is where the buffer
\* sized by the distance to the closing quote gets its room from.
LEMMA Sizes ==
  /\ \A e \in Elements : Bytes(e) \in Nat /\ Utf8(e) = Bytes(e)
  /\ \A ch \in Chars : Utf8(ch) \in Nat
  /\ \A e \in DOMAIN Escape : /\ e \in Elements /\ Escape[e] \in Chars
                              /\ Utf8(Escape[e]) <= 1 + Bytes(e)
  /\ Bytes("bslash") = 1 /\ Utf8("U+1F600") = 4 /\ "U+1F600" \in Chars
  <1>1. \A e : Bytes(e) \in {1, 4, 5}
    BY DEF Bytes
  <1>2. \A ch : Utf8(ch) \in {1, 2, 3, 4, 5}
    BY <1>1 DEF Utf8
  <1>3. Elements = {"[", "]", "{", "}", ",", ":", "blank", "1", "-", "true", "a", "u"}
            \cup {"n", "quote", "bslash", "u0000", "u00E9", "uD83D", "uDE00"}
    BY DEF Elements, Escape
  <1>4. \A e \in Elements : Utf8(e) = Bytes(e)
    BY <1>3 DEF Utf8
  <1>5. DOMAIN Escape = {"n", "quote", "bslash", "u0000", "u00E9", "uD83D", "uDE00"}
    BY DEF Escape
  <1>6. /\ Escape["n"] = "LF" /\ Escape["quote"] = "quote"
        /\ Escape["bslash"] = "bslash" /\ Escape["u0000"] = "NUL"
        /\ Escape["u00E9"] = "U+00E9" /\ Escape["uD83D"] = "U+D83D"
        /\ Escape["uDE00"] = "U+DE00"
    BY DEF Escape
  <1>7. /\ Bytes("n") = 1 /\ Bytes("quote") = 1 /\ Bytes("bslash") = 1
        /\ Bytes("LF") = 1 /\ Bytes("NUL") = 1
        /\ Bytes("u0000") = 5 /\ Bytes("u00E9") = 5
        /\ Bytes("uD83D") = 5 /\ Bytes("uDE00") = 5
    BY DEF Bytes
  <1>8. /\ Utf8("LF") = 1 /\ Utf8("NUL") = 1 /\ Utf8("U+00E9") = 2
        /\ Utf8("quote") = 1 /\ Utf8("bslash") = 1
        /\ Utf8("U+D83D") = 3 /\ Utf8("U+DE00") = 3 /\ Utf8("U+1F600") = 4
    BY <1>7 DEF Utf8
  <1>9. ASSUME NEW e \in DOMAIN Escape
        PROVE  /\ e \in Elements /\ Escape[e] \in Chars
               /\ Utf8(Escape[e]) <= 1 + Bytes(e)
    <2>1. e \in Elements
      BY <1>3, <1>5
    <2>2. Escape[e] \in Chars
      BY <1>3, <1>5, <1>6 DEF Chars
    <2>3. Utf8(Escape[e]) <= 1 + Bytes(e)
      BY <1>5, <1>6, <1>7, <1>8
    <2> QED
      BY <2>1, <2>2, <2>3
  <1>10. "U+1F600" \in Chars
    BY DEF Chars
  <1> QED
    BY <1>1, <1>2, <1>4, <1>7, <1>8, <1>9, <1>10

LEMMA ItsElements ==
  ASSUME NEW S, NEW s \in Seq(S)
  PROVE  s = [k \in 1 .. Len(s) |-> s[k]]
  OBVIOUS

LEMMA WrittenGrows ==
  ASSUME NEW s \in Seq(Chars), NEW ch \in Chars
  PROVE  /\ Written(s) \in Nat
         /\ Written(Append(s, ch)) = Written(s) + Utf8(ch)
  <1> DEFINE n == Len(s)
             t == Append(s, ch)
             u == [k \in 1 .. n |-> Utf8(s[k])]
             a == Utf8(ch)
             v == [k \in 1 .. Len(t) |-> Utf8(t[k])]
  <1>1. /\ n \in Nat /\ Len(t) = n + 1 /\ t[n + 1] = ch
        /\ \A k \in 1 .. n : t[k] = s[k] /\ s[k] \in Chars
    BY AppendProperties
  <1>2. u \in Seq(Nat) /\ Len(u) = n /\ a \in Nat
    <2>1. \A k \in 1 .. n : Utf8(s[k]) \in Nat
      BY <1>1, Sizes
    <2>2. a \in Nat
      BY Sizes
    <2> HIDE DEF n
    <2> QED
      BY <1>1, <2>1, <2>2
  <1>3. Written(s) = Total(u) /\ Written(t) = Total(v)
    BY DEF Written
  <1> HIDE DEF t, n
  <1>4. v = Append(u, a)
    <2>1. /\ Append(u, a) \in Seq(Nat) /\ Len(Append(u, a)) = n + 1 /\ Append(u, a)[n + 1] = a
          /\ \A k \in 1 .. n : Append(u, a)[k] = u[k]
      <3> HIDE DEF u, a
      <3> QED
        BY <1>2, AppendProperties
    <2>2. Append(u, a) = [k \in 1 .. n + 1 |-> Append(u, a)[k]]
      <3> HIDE DEF u, a
      <3>1. Append(u, a) = [k \in 1 .. Len(Append(u, a)) |-> Append(u, a)[k]]
        BY <2>1, ItsElements
      <3> QED
        BY <2>1, <3>1
    <2>3. ASSUME NEW k \in 1 .. n + 1 PROVE Utf8(t[k]) = Append(u, a)[k]
      <3>1. CASE k = n + 1
        BY <1>1, <2>1, <3>1
      <3>2. CASE k # n + 1
        <4>1. k \in 1 .. n
          BY <1>1, <3>2
        <4>2. u[k] = Utf8(s[k])
          BY <4>1
        <4> QED
          BY <1>1, <2>1, <4>1, <4>2
      <3> QED
        BY <3>1, <3>2
    <2>4. v = [k \in 1 .. n + 1 |-> Utf8(t[k])]
      BY <1>1
    <2> HIDE DEF u, a, v
    <2> QED
      BY <2>2, <2>3, <2>4
  <1>5. Total(Append(u, a)) = Total(u) + a /\ Total(u) \in Nat
    <2> HIDE DEF u, a
    <2> QED
      BY <1>2, TotalAppend
  <1> HIDE DEF u, v
  <1> QED
    BY <1>3, <1>4, <1>5 DEF t

LEMMA SpelledGrows ==
  ASSUME text \in Seq(Elements), NEW q \in 1 .. Len(text), NEW b \in 1 .. q
  PROVE  /\ Spelled(Part(text, b, q)) \in Nat
         /\ Spelled(Part(text, b, q + 1))
                = Spelled(Part(text, b, q)) + Bytes(text[q])
  <1> DEFINE s == Part(text, b, q)
             t == Part(text, b, q + 1)
             n == q - b
             u == [k \in 1 .. n |-> Bytes(s[k])]
             a == Bytes(text[q])
             v == [k \in 1 .. n + 1 |-> Bytes(t[k])]
  <1>1. /\ Len(text) \in Nat /\ q \in Nat /\ b \in Nat /\ n \in Nat
        /\ \A k \in 1 .. Len(text) : text[k] \in Elements
    OBVIOUS
  <1>2. /\ Len(s) = n /\ \A k \in 1 .. n : s[k] = text[b + k - 1] /\ s[k] \in Elements
    <2>1. \A k \in b .. q - 1 : text[k] \in Elements
      BY <1>1
    <2>2. /\ Len(SubSeq(text, b, q - 1)) = IF b <= q - 1 THEN q - 1 - b + 1 ELSE 0
          /\ \A k \in 1 .. q - 1 - b + 1 : SubSeq(text, b, q - 1)[k] = text[b + k - 1]
      BY <1>1, <2>1, SubSeqProperties
    <2>3. s = SubSeq(text, b, q - 1)
      BY DEF Part
    <2>4. \A k \in 1 .. n : b + k - 1 \in b .. q - 1
      BY <1>1
    <2> HIDE DEF s
    <2> QED
      BY <1>1, <2>1, <2>2, <2>3, <2>4
  <1>3. /\ Len(t) = n + 1 /\ \A k \in 1 .. n + 1 : t[k] = text[b + k - 1]
    <2>1. \A k \in b .. q : text[k] \in Elements
      BY <1>1
    <2>2. /\ Len(SubSeq(text, b, q)) = IF b <= q THEN q - b + 1 ELSE 0
          /\ \A k \in 1 .. q - b + 1 : SubSeq(text, b, q)[k] = text[b + k - 1]
      BY <1>1, <2>1, SubSeqProperties
    <2>3. t = SubSeq(text, b, q)
      <3>1. (q + 1) - 1 = q
        BY <1>1
      <3> QED
        BY <3>1 DEF Part
    <2> HIDE DEF t
    <2> QED
      BY <1>1, <2>2, <2>3
  <1>4. Spelled(s) = Total(u) /\ Spelled(t) = Total(v)
    BY <1>2, <1>3 DEF Spelled
  <1>5. b + (n + 1) - 1 = q
    BY <1>1
  <1> HIDE DEF s, t, n
  <1>6. u \in Seq(Nat) /\ Len(u) = n /\ a \in Nat
    <2>1. \A k \in 1 .. n : Bytes(s[k]) \in Nat
      BY <1>2, Sizes
    <2>2. a \in Nat
      BY <1>1, Sizes
    <2> QED
      BY <1>1, <2>1, <2>2
  <1>7. v = Append(u, a)
    <2>1. /\ Append(u, a) \in Seq(Nat) /\ Len(Append(u, a)) = n + 1 /\ Append(u, a)[n + 1] = a
          /\ \A k \in 1 .. n : Append(u, a)[k] = u[k]
      <3> HIDE DEF u, a
      <3> QED
        BY <1>6, AppendProperties
    <2>2. Append(u, a) = [k \in 1 .. n + 1 |-> Append(u, a)[k]]
      <3> HIDE DEF u, a
      <3>1. Append(u, a) = [k \in 1 .. Len(Append(u, a)) |-> Append(u, a)[k]]
        BY <2>1, ItsElements
      <3> QED
        BY <2>1, <3>1
    <2>3. ASSUME NEW k \in 1 .. n + 1 PROVE Bytes(t[k]) = Append(u, a)[k]
      <3>1. CASE k = n + 1
        <4>1. t[k] = text[q]
          BY <1>3, <1>5, <3>1
        <4> QED
          BY <2>1, <3>1, <4>1
      <3>2. CASE k # n + 1
        <4>1. k \in 1 .. n
          BY <1>1, <3>2
        <4>2. u[k] = Bytes(s[k]) /\ t[k] = s[k]
          BY <1>2, <1>3, <4>1
        <4> QED
          BY <2>1, <4>1, <4>2
      <3> QED
        BY <3>1, <3>2
    <2>4. v = [k \in 1 .. n + 1 |-> Bytes(t[k])]
      OBVIOUS
    <2> HIDE DEF u, a, v
    <2> QED
      BY <2>2, <2>3, <2>4
  <1>8. Total(Append(u, a)) = Total(u) + a /\ Total(u) \in Nat
    <2> HIDE DEF u, a
    <2> QED
      BY <1>6, TotalAppend
  <1> HIDE DEF u, v
  <1> QED
    BY <1>4, <1>7, <1>8 DEF s, t

\* Nothing is written yet, and nothing read.
LEMMA BothEmpty ==
  ASSUME NEW b \in Nat
  PROVE  Written(<<>>) = 0 /\ Spelled(Part(text, b, b)) = 0
  <1>1. [k \in 1 .. Len(<<>>) |-> Utf8(<<>>[k])] = <<>>
    OBVIOUS
  <1>2. Part(text, b, b) = <<>>
    <2>1. b \in Int /\ b - 1 \in Int /\ b - 1 < b
      OBVIOUS
    <2> QED
      BY <2>1, SubSeqEmpty DEF Part
  <1>3. [k \in 1 .. Len(<<>>) |-> Bytes(<<>>[k])] = <<>>
    OBVIOUS
  <1> QED
    BY <1>1, <1>2, <1>3, TotalEmpty DEF Written, Spelled

-----------------------------------------------------------------------------
(* The cursor stays on the path of the scan that has sized the buffer. *)

FitInv ==
  /\ text \in Seq(Elements) /\ p \in 1 .. Len(text) + 1
  /\ str \in [use : {"none", "value", "key"}, begin : Nat, end : Nat, out : Seq(Chars)]
  /\ jpc = "string" =>
        /\ Passes(str.end, p) /\ At(str.end) = "quote" /\ str.begin \in 1 .. p
        /\ Written(str.out) <= Spelled(Part(text, str.begin, p))

\* Whatever is not in a string keeps the cursor in the text.
LEMMA FitsStill ==
  ASSUME FitInv, text' = text, p' \in 1 .. Len(text) + 1, jpc' # "string",
         str' = str \/ str' = NoString
  PROVE  FitInv'
  <1>1. str' \in [use : {"none", "value", "key"}, begin : Nat, end : Nat, out : Seq(Chars)]
    <2>1. CASE str' = str
      BY <2>1 DEF FitInv
    <2>2. CASE str' = NoString
      <3>1. <<>> \in Seq(Chars)
        OBVIOUS
      <3> QED
        BY <2>2, <3>1 DEF NoString
    <2> QED
      BY <2>1, <2>2
  <1>2. text' \in Seq(Elements) /\ p' \in 1 .. Len(text') + 1
    BY DEF FitInv
  <1> QED
    BY <1>1, <1>2 DEF FitInv

\* The places an action looks at, white space skipped.
LEMMA Places ==
  ASSUME FitInv
  PROVE  /\ Skip(p) \in 1 .. Len(text) + 1
         /\ At(Skip(p)) # "NUL" => /\ Skip(p) \in 1 .. Len(text)
                                   /\ Skip(p) + 1 \in 1 .. Len(text) + 1
  <1>1. Skip(p) \in p .. Len(text) + 1
    BY SkipIs DEF FitInv
  <1>2. Len(text) \in Nat /\ p \in 1 .. Len(text) + 1
    BY AtIs DEF FitInv
  <1>3. Skip(p) \in 1 .. Len(text) + 1
    BY <1>1, <1>2
  <1>4. At(Skip(p)) # "NUL" => Skip(p) \in 1 .. Len(text)
    BY <1>3, AtIs DEF FitInv
  <1> QED
    BY <1>2, <1>3, <1>4

LEMMA OpenFits ==
  ASSUME FitInv, text' = text, NEW bracket, NEW close, bracket # "NUL", close # "NUL",
         NEW kind, NEW next \in {"value", "key"}, Open(bracket, close, kind, next)
  PROVE  FitInv'
  <1> DEFINE i == Skip(p)
             j == Skip(i + 1)
  <1>1. /\ At(i) = bracket /\ str' = str
        /\ \/ At(j) = close /\ p' = j + 1 /\ jpc' = "returned"
           \/ p' = j /\ jpc' = next
    BY DEF Open, Return
  <1>2. i + 1 \in 1 .. Len(text) + 1
    BY <1>1, Places DEF FitInv
  <1>6. text \in Seq(Elements)
    BY DEF FitInv
  <1>7. Len(text) \in Nat /\ i \in Int
    BY <1>6, Places, AtIs
  <1> HIDE DEF i
  <1>3. j \in 1 .. Len(text) + 1
    <2>1. j \in i + 1 .. Len(text) + 1
      BY <1>2, <1>6, SkipIs
    <2> HIDE DEF j
    <2> QED
      BY <1>2, <1>7, <2>1
  <1> HIDE DEF j
  <1>4. At(j) = close => j + 1 \in 1 .. Len(text) + 1
    <2>1. At(j) = close => j \in 1 .. Len(text)
      BY <1>3, <1>6, AtIs
    <2>2. CASE At(j) = close
      <3>1. j \in 1 .. Len(text)
        BY <2>1, <2>2
      <3> QED
        BY <1>7, <3>1
    <2> QED
      BY <2>2
  <1>5. p' \in 1 .. Len(text) + 1 /\ jpc' # "string"
    BY <1>1, <1>3, <1>4
  <1> QED
    BY <1>1, <1>5, FitsStill

LEMMA ValueFits ==
  ASSUME FitInv, text' = text, Literal \/ Number \/ NoSuchValue
  PROVE  FitInv'
  <1>1. p \in 1 .. Len(text) + 1 /\ Len(text) \in Nat /\ text \in Seq(Elements)
    BY AtIs DEF FitInv
  <1>2. CASE Literal
    <2>1. p' = Skip(p) + 1 /\ jpc' = "returned" /\ str' = str /\ At(Skip(p)) = "true"
      BY <1>2 DEF Literal, Return
    <2> QED
      BY <2>1, Places, FitsStill
  <1>3. CASE Number
    <2> DEFINE j == NumberEnd(Skip(p))
    <2>1. /\ str' = str /\ jpc' # "string" /\ At(Skip(p)) \in {"-", "1"}
          /\ p' = j \/ p' = p
      BY <1>3 DEF Number, Return, Fail
    <2>2. Skip(p) \in 1 .. Len(text)
      BY <2>1, Places
    <2>3. j \in 1 .. Len(text) + 1
      BY <1>1, <2>2, NumberEndIs
    <2> QED
      BY <1>1, <2>1, <2>3, FitsStill
  <1>4. CASE NoSuchValue
    BY <1>1, <1>4, FitsStill DEF NoSuchValue, Fail
  <1> QED
    BY <1>2, <1>3, <1>4

\* What a step inside a string has to show.
LEMMA ReadsOn ==
  ASSUME FitInv, text' = text, jpc' = "string",
         str' \in [use : {"none", "value", "key"}, begin : Nat, end : Nat, out : Seq(Chars)],
         Passes(str'.end, p'), At(str'.end) = "quote", str'.begin \in 1 .. p',
         Written(str'.out) <= Spelled(Part(text, str'.begin, p'))
  PROVE  FitInv'
  <1>1. p' \in 1 .. Len(text) + 1 /\ text \in Seq(Elements)
    BY ScanOrder DEF FitInv
  <1>2. PICK e, q : e = str'.end /\ q = p'
    OBVIOUS
  <1>3. Passes(e, q)
    BY <1>2
  <1>4. Passes(str.end, p)'
    <2>1. \E f \in [0 .. Len(text') -> 1 .. Len(text') + 1] :
            /\ \A k \in 1 .. Len(text') : f[k] = ScanNext(f[k - 1])'
            /\ f[Len(text')] = e
            /\ \E k \in 0 .. Len(text') : f[k] = q
      BY <1>3 DEF Passes, ScanNext, At
    <2> QED
      BY <1>2, <2>1 DEF Passes
  <1>5. (At(str.end) = "quote")'
    BY DEF At
  <1> QED
    BY <1>1, <1>4, <1>5 DEF FitInv

LEMMA OpenStringFits ==
  ASSUME FitInv, text' = text, NEW use \in {"value", "key"}, OpenString(use)
  PROVE  FitInv'
  <1> DEFINE i == Skip(p)
             end == ScanEnd(i + 1)
  <1>1. \/ /\ At(i) = "quote" /\ At(end) = "quote"
           /\ p' = i + 1 /\ jpc' = "string"
           /\ str' = [use |-> use, begin |-> p', end |-> end, out |-> <<>>]
        \/ p' = p /\ jpc' = "unwind" /\ str' = str
    BY DEF OpenString, Fail
  <1>2. text \in Seq(Elements) /\ p \in 1 .. Len(text) + 1
    BY DEF FitInv
  <1>3. CASE p' = p /\ jpc' = "unwind" /\ str' = str
    BY <1>2, <1>3, FitsStill
  <1>4. CASE /\ At(i) = "quote" /\ At(end) = "quote"
             /\ p' = i + 1 /\ jpc' = "string"
             /\ str' = [use |-> use, begin |-> p', end |-> end, out |-> <<>>]
    <2>1. i + 1 \in 1 .. Len(text) + 1
      BY <1>4, Places
    <2>2. Passes(end, i + 1)
      BY <1>2, <2>1, ScanBegins
    <2>3. i + 1 \in Nat /\ end \in Nat /\ i + 1 \in 1 .. i + 1
      <3>1. Len(text) \in Nat
        BY <1>2, AtIs
      <3>2. end \in 1 .. Len(text) + 1
        BY <1>2, <2>2, ScanOrder
      <3> HIDE DEF end, i
      <3> QED
        BY <2>1, <3>1, <3>2
    <2> HIDE DEF i, end
    <2>4. Written(<<>>) <= Spelled(Part(text, i + 1, i + 1))
      BY <2>3, BothEmpty
    <2>5. /\ p' = i + 1 /\ str'.begin = i + 1 /\ str'.end = end /\ str'.out = <<>>
          /\ str' \in [use : {"none", "value", "key"}, begin : Nat, end : Nat, out : Seq(Chars)]
      <3>1. <<>> \in Seq(Chars)
        OBVIOUS
      <3> QED
        BY <1>4, <2>3, <3>1
    <2> QED
      BY <1>4, <2>2, <2>3, <2>4, <2>5, ReadsOn
  <1> QED
    BY <1>1, <1>3, <1>4

\* A character written, at the end of the part of the text that spells it.
LEMMA EmitFits ==
  ASSUME FitInv, text' = text, jpc = "string", NEW ch \in Chars, NEW n \in Nat,
         Emit(ch, n), Passes(str.end, p + n),
         Spelled(Part(text, str.begin, p)) + Utf8(ch)
             <= Spelled(Part(text, str.begin, p + n)),
         Spelled(Part(text, str.begin, p)) \in Nat,
         Spelled(Part(text, str.begin, p + n)) \in Nat
  PROVE  FitInv'
  <1>1. /\ str' = [str EXCEPT !.out = Append(str.out, ch)] /\ p' = p + n /\ jpc' = "string"
    BY DEF Emit
  <1>2. str \in [use : {"none", "value", "key"}, begin : Nat, end : Nat, out : Seq(Chars)]
    BY DEF FitInv
  <1>3. /\ At(str.end) = "quote" /\ str.begin \in 1 .. p
        /\ Written(str.out) <= Spelled(Part(text, str.begin, p))
    BY DEF FitInv
  <1>4. p \in Nat
    <2>1. p \in 1 .. Len(text) + 1 /\ Len(text) \in Nat
      BY AtIs DEF FitInv
    <2> QED
      BY <2>1
  <1>5. str.out \in Seq(Chars)
    BY <1>2
  <1>6. /\ Written(str.out) \in Nat /\ Utf8(ch) \in Nat
        /\ Written(Append(str.out, ch)) = Written(str.out) + Utf8(ch)
    BY <1>5, WrittenGrows, Sizes
  <1>7. Append(str.out, ch) \in Seq(Chars)
    BY <1>5, AppendProperties
  <1>8. /\ str'.begin = str.begin /\ str'.end = str.end /\ str'.out = Append(str.out, ch)
        /\ str' \in [use : {"none", "value", "key"}, begin : Nat, end : Nat, out : Seq(Chars)]
    BY <1>1, <1>2, <1>7
  <1>9. Written(str'.out) <= Spelled(Part(text, str'.begin, p'))
    <2>1. Written(Append(str.out, ch)) <= Spelled(Part(text, str.begin, p + n))
      BY <1>3, <1>6
    <2> QED
      BY <1>1, <1>8, <2>1
  <1>10. str'.begin \in 1 .. p'
    BY <1>1, <1>3, <1>4, <1>8
  <1>11. Passes(str'.end, p') /\ At(str'.end) = "quote"
    BY <1>1, <1>3, <1>8
  <1> QED
    BY <1>1, <1>8, <1>9, <1>10, <1>11, ReadsOn

\* Inside a string the cursor is at a byte of the text, before the quote or at it.
LEMMA InString ==
  ASSUME FitInv, jpc = "string"
  PROVE  /\ p \in 1 .. Len(text) /\ text \in Seq(Elements) /\ Len(text) \in Nat
         /\ Passes(str.end, p) /\ p <= str.end
         /\ str.begin \in 1 .. p
         /\ At(p) # "quote" => p # str.end
  <1>1. /\ text \in Seq(Elements) /\ Len(text) \in Nat
    BY AtIs DEF FitInv
  <1>2. Passes(str.end, p) /\ At(str.end) = "quote" /\ str.begin \in 1 .. p
    BY DEF FitInv
  <1>3. p \in 1 .. Len(text) + 1 /\ str.end \in 1 .. Len(text) + 1 /\ p <= str.end
    BY <1>1, <1>2, ScanOrder
  <1>4. str.end \in 1 .. Len(text)
    BY <1>1, <1>2, <1>3, AtIs
  <1>5. p \in 1 .. Len(text)
    BY <1>1, <1>3, <1>4
  <1>6. At(p) # "quote" => p # str.end
    BY <1>2
  <1> QED
    BY <1>1, <1>2, <1>3, <1>5, <1>6

LEMMA PlainFits ==
  ASSUME FitInv, text' = text, Plain
  PROVE  FitInv'
  <1>1. jpc = "string" /\ At(p) \notin {"quote", "bslash"} /\ Emit(At(p), 1)
    BY DEF Plain
  <1>2. /\ p \in 1 .. Len(text) /\ text \in Seq(Elements) /\ p # str.end
        /\ Passes(str.end, p) /\ str.begin \in 1 .. p
    BY <1>1, InString
  <1>3. At(p) = text[p] /\ text[p] \in Elements /\ At(p) # "NUL"
    BY <1>2, AtIs
  <1>4. text[p] \in Chars /\ Utf8(text[p]) = Bytes(text[p]) /\ Bytes(text[p]) \in Nat
    BY <1>3, Sizes DEF Chars
  <1>5. Passes(str.end, p + 1)
    <2>1. p \in 1 .. Len(text) + 1
      BY <1>2
    <2>2. ScanNext(p) = p + 1
      BY <1>1, <1>2, <1>3, <2>1, ScanNextIs
    <2>3. Passes(str.end, ScanNext(p))
      BY <1>2, ScanContinues
    <2> QED
      BY <2>2, <2>3
  <1>6. /\ Spelled(Part(text, str.begin, p)) \in Nat
        /\ Spelled(Part(text, str.begin, p + 1))
               = Spelled(Part(text, str.begin, p)) + Bytes(text[p])
    BY <1>2, SpelledGrows
  <1>7. /\ Spelled(Part(text, str.begin, p)) + Utf8(text[p])
              <= Spelled(Part(text, str.begin, p + 1))
        /\ Spelled(Part(text, str.begin, p + 1)) \in Nat
    BY <1>4, <1>6
  <1>8. Emit(text[p], 1) /\ 1 \in Nat
    BY <1>1, <1>3
  <1> QED
    BY <1>1, <1>4, <1>5, <1>6, <1>7, <1>8, EmitFits

\* A backslash and the element behind it, from a place the scan comes past.
LEMMA EscapeRead ==
  ASSUME text \in Seq(Elements), NEW e, NEW q, NEW b \in 1 .. q,
         Passes(e, q), At(e) = "quote", At(q) = "bslash",
         At(q + 1) \in DOMAIN Escape
  PROVE  /\ q \in Nat /\ Passes(e, q + 2) /\ q + 1 \in 1 .. Len(text)
         /\ At(q + 1) = text[q + 1]
         /\ Spelled(Part(text, b, q)) \in Nat
         /\ Spelled(Part(text, b, q + 2))
                = Spelled(Part(text, b, q)) + 1 + Bytes(At(q + 1))
  <1>1. q \in 1 .. Len(text) + 1 /\ Len(text) \in Nat
    BY ScanOrder, AtIs
  <1>2. At(q + 1) # "NUL"
    BY Sizes, AtIs DEF Escape
  <1>3. q \in 1 .. Len(text)
    BY <1>1, AtIs
  <1>4. q + 1 \in 1 .. Len(text)
    <2>1. q + 1 \in 1 .. Len(text) + 1
      BY <1>1, <1>3
    <2> QED
      BY <1>2, <2>1, AtIs
  <1>5. At(q) = text[q] /\ At(q + 1) = text[q + 1]
    BY <1>3, <1>4, AtIs
  <1>6. Passes(e, q + 2)
    <2>1. q # e
      OBVIOUS
    <2>2. ScanNext(q) = q + 2
      BY <1>1, <1>2, ScanNextIs
    <2>3. Passes(e, ScanNext(q))
      BY <2>1, ScanContinues
    <2> QED
      BY <2>2, <2>3
  <1>7. /\ Spelled(Part(text, b, q)) \in Nat
        /\ Spelled(Part(text, b, q + 1))
               = Spelled(Part(text, b, q)) + Bytes(text[q])
    BY <1>3, SpelledGrows
  <1>8. Spelled(Part(text, b, (q + 1) + 1))
               = Spelled(Part(text, b, q + 1)) + Bytes(text[q + 1])
    <2>1. b \in 1 .. q + 1
      BY <1>1
    <2> QED
      BY <1>4, <2>1, SpelledGrows
  <1>9. (q + 1) + 1 = q + 2
    BY <1>1
  <1>10. Bytes(text[q]) = 1 /\ Bytes(text[q + 1]) = Bytes(At(q + 1))
    BY <1>5, Sizes
  <1>11. Bytes(text[q + 1]) \in Nat
    BY <1>4, Sizes
  <1>12. Spelled(Part(text, b, q + 2))
             = Spelled(Part(text, b, q)) + 1 + Bytes(At(q + 1))
    BY <1>7, <1>8, <1>9, <1>10, <1>11
  <1> QED
    BY <1>1, <1>4, <1>5, <1>6, <1>7, <1>12

LEMMA UnescapeFits ==
  ASSUME FitInv, text' = text, Unescape
  PROVE  FitInv'
  <1> DEFINE S(q) == Spelled(Part(text, str.begin, q))
             c == At(p + 1)
  <1>1. /\ jpc = "string" /\ At(p) = "bslash" /\ c \in DOMAIN Escape
        /\ \/ Pair /\ Emit("U+1F600", 4)
           \/ Emit(Escape[c], 2)
    BY DEF Unescape
  <1>2. /\ text \in Seq(Elements) /\ Passes(str.end, p) /\ str.begin \in 1 .. p
        /\ At(str.end) = "quote"
    BY <1>1, InString DEF FitInv
  <1>3. /\ p \in Nat /\ Passes(str.end, p + 2) /\ S(p) \in Nat
        /\ S(p + 2) = S(p) + 1 + Bytes(c)
    BY <1>1, <1>2, EscapeRead
  <1>4. /\ c \in Elements /\ Escape[c] \in Chars /\ Bytes(c) \in Nat
        /\ Utf8(Escape[c]) <= 1 + Bytes(c) /\ Utf8(Escape[c]) \in Nat
    BY <1>1, Sizes
  <1>5. CASE Emit(Escape[c], 2)
    <2>1. S(p) + Utf8(Escape[c]) <= S(p + 2) /\ S(p + 2) \in Nat
      <3> HIDE DEF S, c
      <3> QED
        BY <1>3, <1>4
    <2> QED
      BY <1>1, <1>3, <1>4, <1>5, <2>1, EmitFits
  <1>6. CASE Pair /\ Emit("U+1F600", 4)
    <2>1. At(p + 2) = "bslash" /\ At(p + 3) = "uDE00" /\ (p + 2) + 1 = p + 3
          /\ (p + 2) + 2 = p + 4
      BY <1>3, <1>6 DEF Pair
    <2>2. At((p + 2) + 1) \in DOMAIN Escape
      BY <2>1 DEF Escape
    <2>3. str.begin \in 1 .. p + 2
      BY <1>2, <1>3
    <2>4. /\ Passes(str.end, (p + 2) + 2) /\ S(p + 2) \in Nat
          /\ S((p + 2) + 2) = S(p + 2) + 1 + Bytes(At((p + 2) + 1))
      BY <1>2, <1>3, <2>1, <2>2, <2>3, EscapeRead
    <2>5. Bytes(At((p + 2) + 1)) = 5
      BY <2>1 DEF Bytes
    <2>6. S(p + 4) = S(p + 2) + 1 + 5 /\ Passes(str.end, p + 4)
      BY <2>1, <2>4, <2>5
    <2>7. S(p) + 4 <= S(p + 4) /\ S(p + 4) \in Nat
      <3> HIDE DEF S, c
      <3> QED
        BY <1>3, <1>4, <2>4, <2>6
    <2>8. Utf8("U+1F600") = 4 /\ "U+1F600" \in Chars /\ 4 \in Nat
      BY Sizes
    <2>9. S(p) + Utf8("U+1F600") <= S(p + 4)
      BY <2>7, <2>8
    <2> QED
      BY <1>1, <1>3, <1>6, <2>6, <2>7, <2>8, <2>9, EmitFits
  <1> QED
    BY <1>1, <1>5, <1>6

\* The quote ends the string, and the calls go on behind it.
LEMMA RestFits ==
  ASSUME FitInv, text' = text,
         \/ BadEscape \/ EndString \/ EndKey \/ TakeItem
         \/ Unwind \/ Reject \/ Finish \/ Free
  PROVE  FitInv'
  <1>1. p \in 1 .. Len(text) + 1 /\ Len(text) \in Nat /\ text \in Seq(Elements)
    BY AtIs DEF FitInv
  <1>2. CASE BadEscape
    BY <1>1, <1>2, FitsStill DEF BadEscape
  <1>3. CASE EndString
    <2>1. jpc = "string" /\ p' = p + 1 /\ jpc' = "returned" /\ str' = NoString
      BY <1>3 DEF EndString, Return
    <2>2. p \in 1 .. Len(text)
      BY <2>1, InString
    <2> QED
      BY <1>1, <2>1, <2>2, FitsStill
  <1>4. CASE EndKey
    <2> DEFINE i == Skip(p + 1)
    <2>1. /\ jpc = "string" /\ str' = NoString /\ jpc' # "string"
          /\ p' = p \/ (At(i) = ":" /\ p' = i + 1)
      BY <1>4 DEF EndKey
    <2>2. p + 1 \in 1 .. Len(text) + 1
      BY <1>1, <2>1, InString
    <2>3. i \in 1 .. Len(text) + 1
      <3>1. i \in p + 1 .. Len(text) + 1
        BY <1>1, <2>2, SkipIs
      <3> HIDE DEF i
      <3> QED
        BY <1>1, <3>1
    <2> HIDE DEF i
    <2>4. At(i) = ":" => i \in 1 .. Len(text)
      <3>1. ":" # "NUL"
        OBVIOUS
      <3> QED
        BY <1>1, <2>3, <3>1, AtIs
    <2>5. p' \in 1 .. Len(text) + 1
      BY <1>1, <2>1, <2>4
    <2> QED
      BY <2>1, <2>5, FitsStill
  <1>5. CASE TakeItem
    <2> DEFINE i == Skip(p)
               close == IF Top.kind = "array" THEN "]" ELSE "}"
    <2>1. /\ str' = str /\ jpc' # "string"
          /\ p' = p \/ (At(i) \in {",", close} /\ p' = i + 1)
      BY <1>5 DEF TakeItem, Return
    <2>2. "NUL" \notin {",", close}
      OBVIOUS
    <2> HIDE DEF close
    <2>3. p' = p \/ (At(i) # "NUL" /\ p' = i + 1)
      BY <2>1, <2>2
    <2>4. p' \in 1 .. Len(text) + 1
      BY <1>1, <2>3, Places
    <2> QED
      BY <2>1, <2>4, FitsStill
  <1>6. CASE Unwind \/ Reject \/ Finish \/ Free
    <2>1. p' = p /\ str' = str
      BY <1>6 DEF Unwind, Reject, Finish, Free
    <2>2. jpc' # "string"
      BY <1>6 DEF Unwind, Reject, Finish, Free
    <2> QED
      BY <1>1, <2>1, <2>2, FitsStill
  <1> QED
    BY <1>2, <1>3, <1>4, <1>5, <1>6

LEMMA FitInvariant == ParseSpec => []FitInv
  <1>1. ParseInit => FitInv
    <2> SUFFICES ASSUME ParseInit PROVE FitInv
      OBVIOUS
    <2>1. /\ text \in Seq(Elements) /\ p = 1 /\ jpc = "value" /\ str = NoString
      BY DEF ParseInit
    <2>2. Len(text) \in Nat
      BY <2>1, AtIs
    <2>3. str \in [use : {"none", "value", "key"}, begin : Nat, end : Nat, out : Seq(Chars)]
      <3>1. <<>> \in Seq(Chars)
        OBVIOUS
      <3> QED
        BY <2>1, <3>1 DEF NoString
    <2>4. p \in 1 .. Len(text) + 1
      BY <2>1, <2>2
    <2> QED
      BY <2>1, <2>3, <2>4 DEF FitInv
  <1>2. FitInv /\ [ParseNext]_parser => FitInv'
    <2> SUFFICES ASSUME FitInv, [ParseNext]_parser PROVE FitInv'
      OBVIOUS
    <2>1. text' = text
      BY DEF ParseNext, Parsed, parser
    <2>2. CASE OpenArray \/ OpenObject
      <3>1. "[" # "NUL" /\ "]" # "NUL" /\ "{" # "NUL" /\ "}" # "NUL"
        OBVIOUS
      <3> QED
        BY <2>1, <2>2, <3>1, OpenFits DEF OpenArray, OpenObject
    <2>3. CASE Literal \/ Number \/ NoSuchValue
      BY <2>1, <2>3, ValueFits
    <2>4. CASE ValueString \/ KeyString
      BY <2>1, <2>4, OpenStringFits DEF ValueString, KeyString
    <2>5. CASE Plain
      BY <2>1, <2>5, PlainFits
    <2>6. CASE Unescape
      BY <2>1, <2>6, UnescapeFits
    <2>7. CASE \/ BadEscape \/ EndString \/ EndKey \/ TakeItem
               \/ Unwind \/ Reject \/ Finish \/ Free
      BY <2>1, <2>7, RestFits
    <2>8. CASE UNCHANGED parser
      BY <2>8 DEF parser, FitInv, Passes, ScanNext, At
    <2> QED
      BY <2>2, <2>3, <2>4, <2>5, <2>6, <2>7, <2>8 DEF ParseNext, Step, Parsed
  <1> QED
    BY <1>1, <1>2, PTL DEF ParseSpec

\* However a string is escaped, its bytes fit the buffer parse_string_raw has
\* sized by the distance to the closing quote, and the cursor never passes that
\* quote or the end of the text (src/json.c:60).
THEOREM StringsFit == ParseSpec => []DecodedFits
  <1>1. FitInv => DecodedFits
    <2> SUFFICES ASSUME FitInv PROVE DecodedFits
      OBVIOUS
    <2>1. Len(text) \in Nat /\ p \in 1 .. Len(text) + 1
      BY AtIs DEF FitInv
    <2>2. p <= Len(text) + 1
      BY <2>1
    <2>3. ASSUME jpc = "string"
          PROVE  p <= str.end /\ Written(str.out) <= Spelled(Part(text, str.begin, p))
      BY <2>3, InString DEF FitInv
    <2> QED
      BY <2>2, <2>3 DEF DecodedFits
  <1> QED
    BY <1>1, FitInvariant, PTL
=============================================================================
