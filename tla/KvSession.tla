------------------------------ MODULE KvSession ------------------------------
(***************************************************************************)
(* The KV cache of src/model.c and the commands of src/main.c and          *)
(* src/server.c that keep their own account of how much of it is filled:   *)
(* generate, chat, perplexity, bench and the requests of serve.            *)
(*                                                                         *)
(* A cache row holds the token it was computed from.  The logits a forward *)
(* pass leaves are the rows attention read for them: sampling is right     *)
(* when those are the tokens of the conversation, in order.                *)
(***************************************************************************)
EXTENDS Integers, Sequences, SequencesExt, FiniteSets

CONSTANTS Token,         \* ordinary tokens
          MaxSeq,        \* max_seq_len of the model
          CtxArgs,       \* values of --ctx
          MaxFeed,       \* bound: the longest text fed at once, in tokens
          MaxNew,        \* bound: the largest -n or max_tokens
          BenchArgs,     \* values of --pp and --tg
          TunePositions  \* positions the warm-up of autotune_threads writes

\* Cells that hold no token of a conversation, and the end-of-turn marker.
Unwritten == "unwritten"
Warmup == "warmup"
End == "end"
EndMarker == <<End, End>>          \* "<|im_end|>\n"

ASSUME TokenAssumption == {Unwritten, Warmup, End} \cap Token = {}
ASSUME BoundsAssumption ==
    /\ MaxSeq \in Nat \ {0} /\ CtxArgs \subseteq Int
    /\ BenchArgs \subseteq Nat
    /\ MaxFeed \in Nat /\ MaxNew \in Nat /\ TunePositions \in Nat \ {0}

Texts(k) == UNION {[1 .. n -> Token] : n \in k .. MaxFeed}

\* Rows the model keeps track of; those from s_ctx on are past the allocation.
Rows == 0 .. MaxSeq + MaxFeed + Len(EndMarker)

VARIABLES cmd, pc,
          s_ctx,         \* s->ctx: the rows of the cache
          ctx,           \* the command's own limit
          kv,            \* the token each row was computed from
          overrun,       \* a row past the cache was written
          logits,        \* the rows the last logits were computed from
          pos,           \* the next position, as the command counts
          i, max_new,    \* the generation loop
          text,          \* tokens perplexity still has to score
          transcript,    \* what the model was given so far, in order
          cut            \* a text did not fit and its end was dropped

cache   == <<kv, overrun, logits>>
limits  == <<cmd, s_ctx, ctx>>
loop    == <<i, max_new>>
session == <<transcript, cut>>
vars    == <<pc, limits, cache, pos, loop, text, session>>

Smaller(a, b) == IF a < b THEN a ELSE b

\* ember_state_new_ex
StateCtx(ctx_len) == IF 0 < ctx_len /\ ctx_len < MaxSeq THEN ctx_len ELSE MaxSeq

Init == /\ cmd = "none" /\ pc = "start"
        /\ s_ctx = MaxSeq /\ ctx = MaxSeq
        /\ kv = [p \in Rows |-> Unwritten] /\ overrun = FALSE /\ logits = <<>>
        /\ pos = 0 /\ i = 0 /\ max_new = 0
        /\ text = <<>>
        /\ transcript = <<>> /\ cut = FALSE

-----------------------------------------------------------------------------
(* src/model.c *)

\* The rows attention reads for position p.
Attended(cells, p) == [k \in 1 .. p + 1 |-> cells[k - 1]]

\* Mutant: prefill stores its rows from the start of the cache.
PrefillAtZero(ids, start) ==
    IF ids = <<>> THEN UNCHANGED cache
    ELSE /\ kv' = [p \in Rows |-> IF p < Len(ids) THEN ids[p + 1] ELSE kv[p]]
         /\ overrun' = (overrun \/ start + Len(ids) > s_ctx)
         /\ logits' = Attended(kv', start + Len(ids) - 1)

\* ember_prefill: rows start .. start+n-1 are stored, whether or not the cache
\* has them; nothing is done for an empty text.
Prefill(ids, start) ==
    IF ids = <<>> THEN UNCHANGED cache
    ELSE /\ kv' = [p \in Rows |-> IF start <= p /\ p < start + Len(ids)
                                  THEN ids[p - start + 1] ELSE kv[p]]
         /\ overrun' = (overrun \/ start + Len(ids) > s_ctx)
         /\ logits' = Attended(kv', start + Len(ids) - 1)

\* Mutant: the row is not stored before attention reads it.
ForwardStale(tok, p) ==
    /\ kv' = [kv EXCEPT ![p] = tok]
    /\ logits' = Attended(kv, p)
    /\ UNCHANGED overrun

\* ember_forward at a position of the cache.
Forward(tok, p) ==
    /\ kv' = [kv EXCEPT ![p] = tok]
    /\ logits' = Attended(kv', p)
    /\ UNCHANGED overrun

\* ember_forward anywhere else: the process ends with an error.
Dies == pc' = "died" /\ UNCHANGED <<limits, cache, pos, loop, text, session>>

-----------------------------------------------------------------------------
(* A command starts: the context is chosen, the cache allocated. *)

Start(c, own, state_arg, next) ==
    /\ pc = "start"
    /\ cmd' = c
    /\ ctx' = own
    /\ s_ctx' = StateCtx(state_arg)
    /\ pc' = next
    /\ UNCHANGED <<cache, pos, i, text, session>>

StartGenerate == /\ \E a \in CtxArgs :
                       Start("generate", IF a > 0 THEN a ELSE MaxSeq, a, "tune")
                 /\ max_new' \in 0 .. MaxNew

StartChat == /\ \E a \in CtxArgs :
                   Start("chat", Smaller(a, MaxSeq), Smaller(a, MaxSeq), "tune")
             /\ max_new' \in 0 .. MaxNew

\* handle_chat chooses max_new anew for each request.
StartServe == /\ \E a \in CtxArgs : Start("serve", StateCtx(a), a, "request")
              /\ max_new' = 0

\* max_new is the --max option here, the tokens scored at most.
StartPerplexity ==
    \E maxtok \in 1 .. MaxSeq :
        /\ Start("perplexity", Smaller(maxtok + 2, MaxSeq), Smaller(maxtok + 2, MaxSeq),
                 "load")
        /\ max_new' = maxtok

\* --threads auto: throwaway rows at the first positions, if the cache has them.
Autotune ==
    /\ pc = "tune"
    /\ IF TunePositions > s_ctx THEN Dies
       ELSE /\ kv' = [p \in Rows |-> IF p < TunePositions THEN Warmup ELSE kv[p]]
            /\ logits' = [p \in 1 .. TunePositions |-> Warmup]
            /\ pc' = IF cmd = "chat" THEN "system" ELSE "prompt"
            /\ UNCHANGED <<limits, overrun, pos, loop, text, session>>

SkipTune == /\ pc = "tune"
            /\ pc' = IF cmd = "chat" THEN "system" ELSE "prompt"
            /\ UNCHANGED <<limits, cache, pos, loop, text, session>>

-----------------------------------------------------------------------------
(* cmd_generate, lines 184-204. *)

GeneratePrompt ==
    /\ pc = "prompt"
    /\ \E ids \in Texts(1) :
          /\ Prefill(ids, 0)
          /\ transcript' = ids
          /\ pos' = Len(ids)
    /\ pc' = "generate"
    /\ UNCHANGED <<limits, loop, text, cut>>

\* max_new tokens, an end token or the end of the context: the loop is left.
GenerateEnds ==
    /\ pc = "generate"
    /\ pc' = "done"
    /\ UNCHANGED <<limits, cache, pos, loop, text, session>>

RoomToGenerate == i < max_new /\ pos < ctx - 1

\* One token more, at position n_prompt + i.
GenerateToken(next) ==
    /\ pc = "generate"
    /\ RoomToGenerate
    /\ IF pos >= s_ctx THEN Dies
       ELSE /\ Forward(next, pos)
            /\ pos' = pos + 1 /\ i' = i + 1
            /\ transcript' = Append(transcript, next)
            /\ UNCHANGED <<pc, limits, max_new, text, cut>>

-----------------------------------------------------------------------------
(* cmd_chat, lines 371-409. *)

\* How many of n tokens fit, in feed.
Fitting(n) == IF pos + n > ctx THEN ctx - pos ELSE n

\* feed: the text, cut to what fits; no logits when nothing was fed.
Feed(ids) ==
    LET n == Fitting(Len(ids))
        fed == IF n > 0 THEN SubSeq(ids, 1, n) ELSE <<>> IN
    /\ IF n > 0 THEN Prefill(fed, pos)
       ELSE logits' = <<>> /\ UNCHANGED <<kv, overrun>>
    /\ pos' = pos + n
    /\ transcript' = transcript \o fed
    /\ cut' = (cut \/ n < Len(ids))

\* The system prompt, if there is one, is a turn of its own.
System == /\ pc = "system"
          /\ \/ \E ids \in Texts(1) : Feed(ids \o EndMarker)
             \/ UNCHANGED <<cache, pos, session>>
          /\ pc' = "read"
          /\ UNCHANGED <<limits, loop, text>>

\* A line of input becomes a turn.
Turn == /\ pc = "read"
        /\ \E ids \in Texts(1) : Feed(ids)
        /\ i' = 0
        /\ pc' = "reply"
        /\ UNCHANGED <<limits, max_new, text>>

\* End of input.
Leave == /\ pc = "read"
         /\ pc' = "done"
         /\ UNCHANGED <<limits, cache, pos, loop, text, session>>

\* Mutant: the last position of the context is used too.
RoomToReplyOneMore == i < max_new /\ pos <= ctx

RoomToReply == i < max_new /\ pos < ctx - 1

ReplyToken(next) ==
    /\ pc = "reply"
    /\ RoomToReply
    /\ IF pos >= s_ctx \/ pos < 0 THEN Dies
       ELSE /\ Forward(next, pos)
            /\ pos' = pos + 1 /\ i' = i + 1
            /\ transcript' = Append(transcript, next)
            /\ UNCHANGED <<pc, limits, max_new, text, cut>>

\* An end token, max_new tokens or a full context: the turn is closed.
CloseTurn == /\ pc = "reply"
             /\ Feed(EndMarker)
             /\ pc' = IF pos' >= ctx - 1 THEN "done" ELSE "read"
             /\ UNCHANGED <<limits, loop, text>>

-----------------------------------------------------------------------------
(* cmd_perplexity, lines 446-461. *)

LoadText == /\ pc = "load"
            /\ \E ids \in Texts(0) : text' = SubSeq(ids, 1, Smaller(Len(ids), max_new))
            /\ pc' = "score"
            /\ UNCHANGED <<limits, cache, pos, loop, session>>

Score == /\ pc = "score"
         /\ i < Len(text) - 1 /\ i < ctx - 1
         /\ IF i >= s_ctx THEN Dies
            ELSE /\ Forward(text[i + 1], i)
                 /\ transcript' = Append(transcript, text[i + 1])
                 /\ i' = i + 1 /\ pos' = pos + 1
                 /\ UNCHANGED <<pc, limits, max_new, text, cut>>

Scored == /\ pc = "score"
          /\ i >= Len(text) - 1 \/ i >= ctx - 1
          /\ pc' = "done"
          /\ UNCHANGED <<limits, cache, pos, loop, text, session>>

-----------------------------------------------------------------------------
(* cmd_bench, lines 242-263: the cache is sized for the --pp and --tg given, *)
(* which are then cut to the model; pos is where a repetition decodes next.  *)

Synthetic(p) == SetToSeq(Token)[((p * 131 + 7) % Cardinality(Token)) + 1]

\* Mutant: each is compared with the context on its own.
BenchFitsEach(pp, tg) == pp + 1 <= MaxSeq /\ tg + 1 <= MaxSeq

BenchFits(pp, tg) == pp + tg + 1 <= MaxSeq

\* text is the prompt, max_new the tokens to decode.
StartBench ==
    \E pp, tg \in BenchArgs :
        LET fits == BenchFits(pp, tg)
            n == IF fits THEN pp ELSE MaxSeq \div 2 IN
        /\ pc = "start" /\ cmd' = "bench"
        /\ s_ctx' = StateCtx(pp + tg + 2) /\ ctx' = MaxSeq
        /\ text' = [k \in 1 .. n |-> Synthetic(k - 1)]
        /\ max_new' = IF fits THEN tg ELSE MaxSeq \div 2 - 1
        /\ pc' = "benchPrefill"
        /\ UNCHANGED <<cache, pos, i, session>>

BenchPrefill == /\ pc = "benchPrefill"
                /\ Prefill(text, 0)
                /\ transcript' = text
                /\ pos' = Len(text) /\ i' = 0
                /\ pc' = "benchDecode"
                /\ UNCHANGED <<limits, max_new, text, cut>>

BenchDecode == /\ pc = "benchDecode" /\ i < max_new
               /\ IF pos >= s_ctx THEN Dies
                  ELSE /\ Forward(Synthetic(pos), pos)
                       /\ pos' = pos + 1 /\ i' = i + 1
                       /\ transcript' = Append(transcript, Synthetic(pos))
                       /\ UNCHANGED <<pc, limits, max_new, text, cut>>

\* The next repetition, or the report.
BenchAgain == /\ pc = "benchDecode" /\ i >= max_new
              /\ pc' \in {"benchPrefill", "done"}
              /\ UNCHANGED <<limits, cache, pos, loop, text, session>>

-----------------------------------------------------------------------------
(* handle_chat, the positions only: every request starts over at 0, on the *)
(* rows the last one left.                                                 *)

Request == /\ pc = "request"
           /\ \E ids \in Texts(1) :
                 /\ Len(ids) < ctx - 1
                 /\ Prefill(ids, 0)
                 /\ pos' = Len(ids)
                 /\ transcript' = ids
           /\ max_new' \in 0 .. MaxNew
           /\ i' = 0
           /\ pc' = "serve"
           /\ UNCHANGED <<limits, text, cut>>

ServeToken(next) ==
    /\ pc = "serve"
    /\ i < max_new /\ pos < ctx - 1
    /\ IF pos >= s_ctx THEN Dies
       ELSE /\ Forward(next, pos)
            /\ pos' = pos + 1 /\ i' = i + 1
            /\ transcript' = Append(transcript, next)
            /\ UNCHANGED <<pc, limits, max_new, text, cut>>

ServeEnds == /\ pc = "serve"
             /\ pc' = "request"
             /\ UNCHANGED <<limits, cache, pos, loop, text, session>>

\* The server is stopped between two requests.
ServeStops == /\ pc = "request"
              /\ pc' = "done"
              /\ UNCHANGED <<limits, cache, pos, loop, text, session>>

-----------------------------------------------------------------------------
Starting == StartGenerate \/ StartChat \/ StartServe \/ StartPerplexity \/ StartBench
Tuning == Autotune \/ SkipTune
Generating == GeneratePrompt \/ GenerateEnds \/ \E t \in Token : GenerateToken(t)
Replying == CloseTurn \/ \E t \in Token : ReplyToken(t)
Chatting == System \/ Turn \/ Leave \/ Replying
Measuring == LoadText \/ Score \/ Scored \/ BenchPrefill \/ BenchDecode \/ BenchAgain
Serving == Request \/ ServeEnds \/ ServeStops \/ \E t \in Token : ServeToken(t)
Ended == pc \in {"done", "died"} /\ UNCHANGED vars

Next == Starting \/ Tuning \/ Generating \/ Chatting \/ Measuring \/ Serving \/ Ended

Spec == Init /\ [][Next]_vars
-----------------------------------------------------------------------------
(* Properties *)

\* Row p of the cache is what the conversation has at position p, whatever the
\* rows held before: warm-up junk, the last request, nothing.
CacheIsTranscript ==
    transcript # <<>> =>
        /\ pos = Len(transcript)
        /\ \A p \in 0 .. pos - 1 : kv[p] = transcript[p + 1]

Sampling == \/ pc = "generate" /\ i < max_new
            \/ pc = "reply" /\ RoomToReply
            \/ pc = "serve" /\ i < max_new /\ pos < ctx - 1

\* A token is only sampled from logits of the whole conversation: never from
\* NULL, from those of an earlier turn or request, or from stale rows.
LogitsAreFresh == Sampling => logits = transcript /\ logits # <<>>

\* No reply is sampled from a turn whose end was dropped for want of room.
RepliesToWholeTurns == pc = "reply" /\ RoomToReply => ~cut

\* Only generate goes past the cache: its prompt by a store that nobody checks,
\* its reply, when --ctx asked for more than the model has, by an error.  Chat,
\* serve, perplexity and bench keep to it; what else dies is a warm-up that does
\* not fit, before anything was said.
OnlyGenerateOverflows ==
    /\ overrun => cmd = "generate"
    /\ pc = "died" => \/ transcript = <<>> /\ TunePositions > s_ctx
                      \/ cmd = "generate" /\ ctx > MaxSeq

\* A context overflow produces a clear error, not silent garbage
\* (plan2.md:60-62): no row past the cache is ever written.
OverflowIsAnError == ~overrun

=============================================================================
