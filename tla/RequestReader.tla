---------------------------- MODULE RequestReader ----------------------------
(***************************************************************************)
(* read_request of src/server.c and the buffer it fills: one connection    *)
(* after another, each sending a request in pieces of any size.            *)
(*                                                                         *)
(* A request is what its first line asks for and its sizes: the bytes      *)
(* before the blank line, the bytes after it and what its Content-Length   *)
(* header says.  The buffer is where it lies in memory, because hdr_end is *)
(* a pointer into it that is kept while the buffer grows.  Addresses and   *)
(* sizes are size_t, modulo W.                                             *)
(***************************************************************************)
EXTENDS Integers

CONSTANTS Routes,        \* what a request line may ask for
          Malformed,     \* a request line without method and path
          HeaderLens,    \* bytes before the blank line of a request
          BodyLens,      \* bytes the client sends after it
          ContentLens,   \* Content-Length values; a negative one means none
          RecvMax,       \* the size of tmp: the most one recv returns
          MaxRequest,    \* the runaway-request guard
          Addresses,     \* where malloc may put the buffer
          W              \* the number of size_t values

Null == 0        \* the null pointer
SepLen == 4      \* the length of the blank line, CR LF CR LF

VARIABLES pc,            \* where read_request is
          hlen, blen,    \* the request's sizes
          left,          \* bytes the client has not sent yet
          socket,        \* bytes in the socket, not received yet
          open,          \* the client has not closed its side
          base, len, cap,               \* raw: data, len and cap
          hdr_end,       \* pointer to the blank line, Null before it is seen
          route, content_len,           \* what the headers say, once it is
          body, body_len                \* the result

request  == <<hlen, blen>>
headers  == <<hdr_end, route, content_len>>
peer     == <<left, socket, open>>
raw      == <<base, len, cap>>
result   == <<body, body_len>>
vars     == <<pc, request, peer, raw, headers, result>>

Init == /\ pc = "idle"
        /\ hlen = 0 /\ blen = 0
        /\ left = 0 /\ socket = 0 /\ open = FALSE
        /\ base = Null /\ len = 0 /\ cap = 0
        /\ hdr_end = Null /\ route = Malformed /\ content_len = -1
        /\ body = Null /\ body_len = 0

\* A connection is accepted and handle_connection starts with an empty buffer.
\* Some of the request may have arrived while the connection waited.
Begin(h, b, n) ==
    /\ pc = "idle"
    /\ hlen' = h /\ blen' = b
    /\ socket' = n /\ left' = h + SepLen + b - n
    /\ pc' = "find"
    /\ UNCHANGED <<raw, headers, result>>

-----------------------------------------------------------------------------
(* The client. *)

\* It sends some of the rest of its request.
Send(n) == /\ open /\ 0 < n /\ n <= left
           /\ socket' = socket + n
           /\ left' = left - n
           /\ UNCHANGED <<pc, request, open, raw, headers, result>>

\* It closes the connection, whether or not it has sent everything.
Close == /\ open
         /\ open' = FALSE
         /\ UNCHANGED <<pc, request, left, socket, raw, headers, result>>

-----------------------------------------------------------------------------
(* read_request *)

\* The blank line is in the buffer.
HeaderIsHere == len >= hlen + SepLen

\* Lines 121-126: the buffer is searched from its start, and once the blank line
\* is there the headers are parsed.
FindHeader ==
    /\ pc = "find"
    /\ IF hdr_end = Null /\ HeaderIsHere
       THEN /\ hdr_end' = base + hlen
            /\ route' \in Routes /\ content_len' \in ContentLens
            /\ pc' = IF route' = Malformed THEN "failed" ELSE "body"
       ELSE pc' = "body" /\ UNCHANGED headers
    /\ UNCHANGED <<request, peer, raw, result>>

\* size_t arithmetic on the pointers, lines 129-130.
BodyOff == (hdr_end - base + SepLen) % W
Have == (len - BodyOff) % W

\* Mutant: the blank line is not counted.
HaveAllOffByBlank == /\ hdr_end # Null
                     /\ content_len < 0 \/ Have + SepLen >= content_len

HaveAll == /\ hdr_end # Null
           /\ content_len < 0 \/ Have >= content_len

\* Lines 128-136: the request is complete.
Return == /\ pc = "body"
          /\ HaveAll
          /\ body' = (base + BodyOff) % W
          /\ body_len' = IF content_len < 0 THEN Have ELSE content_len
          /\ pc' = "done"
          /\ UNCHANGED <<request, peer, raw, headers>>

NeedMore == /\ pc = "body"
            /\ ~HaveAll
            /\ pc' = "recv"
            /\ UNCHANGED <<request, peer, raw, headers, result>>

\* buf_reserve: realloc leaves the buffer where it is or moves it.
Reserve(k) ==
    IF len + k + 1 > cap
    THEN cap' = (len + k + 1) * 2 /\ base' \in Addresses
    ELSE UNCHANGED <<base, cap>>

\* Line 140: past the guard the request is given up.
AfterRecv(k) == IF len + k > MaxRequest THEN "failed" ELSE "find"

\* Lines 137-140: recv returns some of the bytes in the socket, buf_append
\* copies them.
Recv(k) == /\ pc = "recv"
           /\ 0 < k /\ k <= socket /\ k <= RecvMax
           /\ socket' = socket - k
           /\ Reserve(k)
           /\ len' = len + k
           /\ pc' = AfterRecv(k)
           /\ UNCHANGED <<request, left, open, headers, result>>

\* Mutant: the end of the stream is retried like EINTR.
RecvRetries == /\ pc = "recv"
               /\ ~open
               /\ pc' = "find"
               /\ UNCHANGED <<request, peer, raw, headers, result>>

\* Line 138: the end of the stream, or the error of a connection the client
\* reset, which drops what is still in the socket.  (EINTR calls recv again.)
RecvFails == /\ pc = "recv"
             /\ ~open
             /\ pc' = "failed"
             /\ UNCHANGED <<request, peer, raw, headers, result>>

\* handle_connection answers, or not, buf_free releases the buffer and the
\* connection is closed.
End == /\ pc \in {"done", "failed"}
       /\ hlen' = 0 /\ blen' = 0
       /\ left' = 0 /\ socket' = 0 /\ open' = FALSE
       /\ base' = Null /\ len' = 0 /\ cap' = 0
       /\ hdr_end' = Null /\ route' = Malformed /\ content_len' = -1
       /\ body' = Null /\ body_len' = 0
       /\ pc' = "idle"

Read == \/ FindHeader \/ Return \/ NeedMore
        \/ \E k \in 1 .. RecvMax : Recv(k)
        \/ RecvFails

Accept == \E h \in HeaderLens, b \in BodyLens :
            \E n \in 0 .. h + SepLen + b : Begin(h, b, n) /\ open' \in BOOLEAN

ClientStep == (\E n \in 1 .. left : Send(n)) \/ Close

Next == Accept \/ ClientStep \/ Read \/ End

Spec == Init /\ [][Next]_vars

-----------------------------------------------------------------------------
(* Properties *)

\* The buffer did not move since the blank line was found in it.
Unmoved == hdr_end = base + hlen

\* However the request is cut into pieces, its body is the content_len bytes
\* after the blank line, all of them received, as long as the buffer has not
\* moved under hdr_end; recv is never called for bytes that cannot come; and the
\* buffer has room for the NUL that ends it, so what parses the headers as a C
\* string stops inside it.
BodyIsFramed ==
    /\ pc = "done" /\ Unmoved =>
        /\ body = base + hlen + SepLen
        /\ content_len >= 0 => body_len = content_len
        /\ content_len < 0 => hlen + SepLen + body_len = len
        /\ hlen + SepLen + body_len <= len
    /\ pc = "recv" =>
        IF hdr_end = Null THEN ~HeaderIsHere
        ELSE Unmoved => len < hlen + SepLen + content_len
    /\ base # Null => len < cap

\* read_request returns the body pointer into raw (server.c:96).
BodyIntoRaw == pc = "done" => base <= body /\ body + body_len <= base + len
=============================================================================
