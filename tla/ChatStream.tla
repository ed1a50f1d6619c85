----------------------------- MODULE ChatStream -----------------------------
(***************************************************************************)
(* One chat completion of src/server.c after another: handle_chat from the *)
(* checks on the request to the last byte of the reply, and the client at  *)
(* the other end of the connection, who may hang up at any time.           *)
(*                                                                         *)
(* Text is a sequence of bytes; what the model samples is any token, and a *)
(* token is what ember_decode makes of it: any sequence in Pieces.  Only   *)
(* content deltas are kept of what is sent, the JSON around them is not.   *)
(***************************************************************************)
EXTENDS Integers, Sequences

CONSTANTS Byte,          \* the bytes of the decoded text
          Pieces,        \* the decoded tokens: sequences of bytes, maybe empty
          StopLists,     \* the "stop" fields a request may have: sets of strings
          MaxStop,       \* the length of the longest stop string
          Ctx,           \* sv->ctx, the context window
          MaxTokens      \* the largest max_tokens of a request

ASSUME PiecesAssumption == Pieces \subseteq Seq(Byte)
ASSUME StopsAssumption  == /\ StopLists \subseteq SUBSET Seq(Byte)
                           /\ MaxStop \in Nat
                           /\ \A sl \in StopLists : \A s \in sl : Len(s) <= MaxStop
ASSUME BoundsAssumption == Ctx \in Nat /\ MaxTokens \in Nat

VARIABLES pc,            \* where handle_chat is
          stream, stops, max_tok, n_prompt,   \* the request
          hold,          \* bytes retained as a possible partial stop
          out,           \* full decoded text so far
          streamed,      \* bytes already sent to the client
          i,             \* the loop variable: tokens sampled and forwarded
          completion_tokens,
          finish,        \* finish_reason
          broken,        \* a send failed
          kv,            \* KV positions written for this request: 0 .. kv-1
          connected,     \* the client is there
          got,           \* the content the client has received
          reply          \* how the reply ended for the client

request == <<stream, stops, max_tok, n_prompt>>
decoder == <<hold, out, streamed, i, completion_tokens, finish, kv>>
client  == <<got, reply>>
vars    == <<pc, request, decoder, broken, connected, client>>

\* Stop string s begins at offset p of the text.
Occurs(text, s, p) == /\ p + Len(s) <= Len(text)
                      /\ \A j \in 1 .. Len(s) : text[p + j] = s[j]

\* Where the stop strings of the request begin in the text (find_stop).
StopsAt(text) == {p \in 0 .. Len(text) : \E s \in stops : Occurs(text, s, p)}

\* The earliest of them.
EarliestStop(text) == {p \in StopsAt(text) : \A q \in StopsAt(text) : p <= q}

\* Mutant: one byte too few.
HoldShort(max_stop) == IF max_stop > 1 THEN max_stop - 2 ELSE 0

\* The bytes to retain as a possible partial stop, for the longest stop string.
Hold(max_stop) == IF max_stop > 0 THEN max_stop - 1 ELSE 0

\* Bytes from .. to-1 of the text.
Bytes(text, from, to) == SubSeq(text, from + 1, to)

Init == /\ pc = "idle"
        /\ stream = FALSE /\ stops = {} /\ max_tok = 0 /\ n_prompt = 0
        /\ hold = 0 /\ out = <<>> /\ streamed = 0 /\ i = 0
        /\ completion_tokens = 0 /\ finish = "length" /\ kv = 0
        /\ broken = FALSE
        /\ connected = FALSE /\ got = <<>> /\ reply = "none"

(* send_all: the client gets the text, or, once it has hung up, either the *)
(* kernel takes the bytes and drops them or the call fails.                *)
SendOk(text) == /\ got' = IF connected THEN got \o text ELSE got
                /\ UNCHANGED <<reply, connected>>
SendFails == ~connected /\ UNCHANGED <<got, reply, connected>>

\* A send whose result the code ignores, which also ends the reply.
SendLast(text, how) == /\ got' = IF connected THEN got \o text ELSE got
                       /\ reply' = IF connected THEN how ELSE reply
                       /\ UNCHANGED connected

-----------------------------------------------------------------------------
\* A client sends a request that handle_chat refuses: no JSON, no messages, or
\* a prompt of n tokens that is empty or leaves no room in the context.
Refuse ==
    /\ pc = "idle"
    /\ n_prompt' \in {n \in 0 .. Ctx : n < 1 \/ n >= Ctx - 1}
    /\ connected' = TRUE /\ got' = <<>> /\ reply' = "error"
    /\ UNCHANGED <<pc, stream, stops, max_tok, decoder, broken>>

\* A request it accepts: the decoder is set up, lines 308-316.
Accept ==
    /\ pc = "idle"
    /\ n_prompt' \in {n \in 1 .. Ctx : n < Ctx - 1}
    /\ stream' \in BOOLEAN
    /\ max_tok' \in 0 .. MaxTokens
    /\ \E sl \in StopLists, max_stop \in 0 .. MaxStop :
          /\ \A s \in sl : Len(s) <= max_stop
          /\ max_stop = 0 \/ \E s \in sl : Len(s) = max_stop
          /\ stops' = sl
          /\ hold' = Hold(max_stop)
    /\ out' = <<>> /\ streamed' = 0 /\ i' = 0
    /\ completion_tokens' = 0 /\ finish' = "length" /\ broken' = FALSE
    /\ connected' = TRUE /\ got' = <<>> /\ reply' = "none"
    /\ pc' = "prefill"
    /\ UNCHANGED kv

\* The prompt fills KV positions 0 .. n_prompt-1, over those of the last
\* request.  (The SSE preamble sent before it carries no content.)
Prefill ==
    /\ pc = "prefill"
    /\ kv' = n_prompt
    /\ pc' = "loop"
    /\ UNCHANGED <<request, hold, out, streamed, i, completion_tokens, finish,
                   broken, connected, client>>

-----------------------------------------------------------------------------
(* The decode loop, lines 318-366. *)

\* max_tok tokens were generated, or the next one would not fit.
LoopEnds ==
    /\ pc = "loop"
    /\ i >= max_tok \/ n_prompt + i >= Ctx - 1
    /\ finish' = "length"
    /\ pc' = "flush"
    /\ UNCHANGED <<request, hold, out, streamed, i, completion_tokens, kv,
                   broken, connected, client>>

\* Mutant: the last position of the context is used too.
CanSampleToTheEnd == pc = "loop" /\ i < max_tok /\ n_prompt + i < Ctx

CanSample == pc = "loop" /\ i < max_tok /\ n_prompt + i < Ctx - 1

SampleEos ==
    /\ CanSample
    /\ finish' = "stop"
    /\ pc' = "flush"
    /\ UNCHANGED <<request, hold, out, streamed, i, completion_tokens, kv,
                   broken, connected, client>>

\* A token that completes no stop string.
SampleToken(piece) ==
    /\ CanSample
    /\ StopsAt(out \o piece) = {}
    /\ out' = out \o piece
    /\ completion_tokens' = completion_tokens + 1
    /\ pc' = "send"
    /\ UNCHANGED <<request, hold, streamed, i, finish, kv, broken, connected,
                   client>>

\* A token that completes one: the text is cut where the earliest begins.
SampleStop(piece) ==
    /\ CanSample
    /\ \E sp \in EarliestStop(out \o piece) :
          /\ out' = Bytes(out \o piece, 0, sp)
          /\ pc' = IF stream /\ sp > streamed THEN "sendTail" ELSE "flush"
    /\ finish' = "stop"
    /\ completion_tokens' = completion_tokens + 1
    /\ UNCHANGED <<request, hold, streamed, i, kv, broken, connected, client>>

\* Lines 331-342: the text up to the stop string is sent.
SendTail ==
    /\ pc = "sendTail"
    /\ \/ SendOk(Bytes(out, streamed, Len(out))) /\ UNCHANGED broken
       \/ SendFails /\ broken' = TRUE
    /\ pc' = "flush"
    /\ UNCHANGED <<request, decoder>>

Safe == Len(out) - hold

\* Mutant: streamed is not moved on.
SendSafeNoAdvance ==
    /\ pc = "send"
    /\ IF stream /\ Safe > streamed
       THEN SendOk(Bytes(out, streamed, Safe))
       ELSE UNCHANGED <<connected, client>>
    /\ kv' = n_prompt + i + 1
    /\ i' = i + 1
    /\ pc' = "loop"
    /\ UNCHANGED <<request, hold, out, streamed, completion_tokens, finish, broken>>

\* Lines 346-365: what can be no part of a stop string is sent, and the token
\* is forwarded at position n_prompt + i.
SendSafe ==
    /\ pc = "send"
    /\ IF stream /\ Safe > streamed
       THEN /\ SendOk(Bytes(out, streamed, Safe))
            /\ streamed' = Safe
       ELSE UNCHANGED <<streamed, connected, client>>
    /\ kv' = n_prompt + i + 1
    /\ i' = i + 1
    /\ pc' = "loop"
    /\ UNCHANGED <<request, hold, out, completion_tokens, finish, broken>>

SendSafeFails ==
    /\ pc = "send"
    /\ stream /\ Safe > streamed
    /\ SendFails
    /\ broken' = TRUE
    /\ pc' = "flush"
    /\ UNCHANGED <<request, decoder>>

-----------------------------------------------------------------------------
\* Mutant: the held-back text is forgotten.
FlushNoTail ==
    /\ pc = "flush" /\ stream /\ ~broken
    /\ SendLast(<<>>, "done")
    /\ pc' = "idle"
    /\ UNCHANGED <<request, decoder, broken>>

\* Lines 368-391: the held-back text, the terminating chunk and [DONE].
FlushStream ==
    /\ pc = "flush" /\ stream /\ ~broken
    /\ SendLast(IF Len(out) > streamed THEN Bytes(out, streamed, Len(out)) ELSE <<>>,
                "done")
    /\ pc' = "idle"
    /\ UNCHANGED <<request, decoder, broken>>

\* Mutant: the reply is only given up when the client is still there.
AbandonConnected ==
    /\ pc = "flush" /\ stream /\ broken /\ connected
    /\ pc' = "idle"
    /\ UNCHANGED <<request, decoder, broken, connected, client>>

\* After a failed send nothing more is sent.
Abandon ==
    /\ pc = "flush" /\ stream /\ broken
    /\ pc' = "idle"
    /\ UNCHANGED <<request, decoder, broken, connected, client>>

\* Lines 392-410: the whole reply at once.
Respond ==
    /\ pc = "flush" /\ ~stream
    /\ SendLast(out, "body")
    /\ pc' = "idle"
    /\ UNCHANGED <<request, decoder, broken>>

HangUp == /\ connected
          /\ connected' = FALSE
          /\ UNCHANGED <<pc, request, decoder, broken, client>>

-----------------------------------------------------------------------------
HandlerStep == \/ Prefill \/ LoopEnds \/ SampleEos
               \/ \E piece \in Pieces : SampleToken(piece) \/ SampleStop(piece)
               \/ SendTail \/ SendSafe \/ SendSafeFails
               \/ FlushStream \/ Abandon \/ Respond

Next == Refuse \/ Accept \/ HandlerStep \/ HangUp

Spec == Init /\ [][Next]_vars

\* The handler runs on the server's only thread, which never pauses by itself;
\* clients ask and hang up as they like.
FairSpec == Spec /\ WF_vars(HandlerStep)
-----------------------------------------------------------------------------
(* Properties *)

\* Every variable has its type.
TypeOK ==
    /\ pc \in {"idle", "prefill", "loop", "send", "sendTail", "flush"}
    /\ stream \in BOOLEAN /\ broken \in BOOLEAN /\ connected \in BOOLEAN
    /\ stops \in SUBSET Seq(Byte)
    /\ max_tok \in 0 .. MaxTokens /\ n_prompt \in 0 .. Ctx
    /\ hold \in Nat /\ streamed \in Nat /\ i \in Nat
    /\ completion_tokens \in Nat /\ kv \in Nat
    /\ out \in Seq(Byte) /\ got \in Seq(Byte)
    /\ finish \in {"length", "stop"}
    /\ reply \in {"none", "error", "body", "done"}

\* A stop string of at least one byte is somewhere in the text.
HasStop(text) ==
    \E s \in stops : Len(s) > 0 /\ \E p \in 0 .. Len(text) : Occurs(text, s, p)

\* Holding back max_stop - 1 bytes is enough: nothing that turns out to belong
\* to a stop string, or to follow one, was sent before the text was cut, so
\* the cut text is never shorter than what the client already has.
NothingToTakeBack == streamed <= Len(out)

\* The text the reply is made of never holds a stop string once the token that
\* completes one has been dealt with (server.c:221, 327-330).
ReplyHoldsNoStop == ~HasStop(out)

\* Until the loop ends a connected client has exactly the first `streamed`
\* bytes of the text: deltas are neither lost, repeated nor reordered.
DeltasSpellPrefix ==
    stream /\ connected /\ pc \in {"prefill", "loop", "send", "sendTail"}
        => got = Bytes(out, 0, streamed)

(* What makes them inductive: hold is large enough for every stop string,  *)
(* and while tokens are sampled the last `hold` bytes were not sent.  An   *)
(* empty stop string ends the reply at its first token.                    *)
HoldCovers == \A s \in stops : Len(s) <= hold + 1
Decoding == pc \in {"prefill", "loop", "send"}
TailHeldBack ==
    Decoding => \/ streamed = 0
                \/ /\ streamed + hold <= Len(out)
                   /\ \A s \in stops : Len(s) > 0
NoEmptyStopSent == pc = "send" => \A s \in stops : Len(s) > 0

StreamInv == /\ TypeOK /\ HoldCovers /\ TailHeldBack /\ NoEmptyStopSent
             /\ ReplyHoldsNoStop /\ NothingToTakeBack /\ DeltasSpellPrefix

\* A connected client always gets the end of its reply, and the text of it
\* when it was sent at once or no stop string cut it.
ReplyArrives ==
    pc = "idle" /\ connected /\ reply # "error" =>
        /\ reply = IF stream THEN "done" ELSE "body"
        /\ (~stream \/ finish = "length") => got = out

\* KV positions are written without a gap and never past the context, and the
\* usage the reply reports fits it.
ContextBound ==
    pc \notin {"idle", "prefill"} =>
        /\ kv = n_prompt + i /\ kv <= Ctx - 1
        /\ n_prompt + completion_tokens <= Ctx - 1
        /\ completion_tokens <= max_tok

\* Every request the server takes up is finished, whatever the client does.
RequestEnds == pc # "idle" ~> pc = "idle"

\* The deltas of a completed stream spell the reply: streamed counts the bytes
\* already sent to the client (server.c:309), and the flush after the loop is
\* of a held-back tail only (server.c:369).
StreamSpellsReply == reply = "done" /\ connected => got = out

=============================================================================
