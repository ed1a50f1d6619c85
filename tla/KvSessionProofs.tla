--------------------------- MODULE KvSessionProofs ---------------------------
(***************************************************************************)
(* Proofs about KvSession, for every model, context, text and number of    *)
(* tokens asked for.                                                       *)
(***************************************************************************)
EXTENDS KvSession, SequenceTheorems, TLAPS

-----------------------------------------------------------------------------
(* The inductive invariant. *)

\* What a row of the cache may hold.
Cell == Token \cup {Unwritten, Warmup, End} \cup {Synthetic(p) : p \in Nat}

Types ==
    /\ cmd \in {"none", "generate", "chat", "serve", "perplexity", "bench"}
    /\ s_ctx \in 1 .. MaxSeq /\ ctx \in Int
    /\ kv \in [Rows -> Cell]
    /\ pos \in Int /\ i \in Nat /\ max_new \in Int
    /\ text \in Seq(Cell) /\ transcript \in Seq(Cell)

\* Which command is where.
CommandInv ==
    \/ pc \in {"done", "died"}
    \/ pc = "start" /\ cmd = "none"
    \/ pc \in {"tune", "prompt", "generate"} /\ cmd = "generate"
    \/ pc \in {"tune", "system", "read", "reply"} /\ cmd = "chat"
    \/ pc \in {"request", "serve"} /\ cmd = "serve"
    \/ pc \in {"load", "score"} /\ cmd = "perplexity"
    \/ pc \in {"benchPrefill", "benchDecode"} /\ cmd = "bench"

\* Nothing was said yet.
FreshInv ==
    /\ pc \in {"start", "tune", "prompt", "system", "load"} =>
          transcript = <<>> /\ pos = 0 /\ i = 0
    /\ cmd # "chat" => ~cut
    /\ pc = "system" => ~cut
    /\ pc = "tune" => ~cut

\* How a command's own limit is related to the rows there are.
LimitInv ==
    /\ cmd = "generate" => ctx > 0 /\ s_ctx = Smaller(ctx, MaxSeq)
    /\ cmd = "chat" => ctx <= s_ctx /\ (ctx > 0 => ctx = s_ctx)
    /\ cmd = "serve" => ctx = s_ctx
    /\ cmd = "perplexity" => ctx = s_ctx
    /\ cmd = "bench" => Len(text) <= s_ctx /\ Len(text) + max_new < s_ctx

\* A chat stays in the context it has; when it has none, nothing is ever said.
ChatInv ==
    cmd = "chat" /\ pc # "died" =>
        /\ ctx > 0 => 0 <= pos /\ pos <= ctx /\ pos = Len(transcript)
        /\ ctx <= 0 => transcript = <<>> /\ pos \in {0, ctx}
        /\ ctx <= 0 /\ pc = "reply" => pos = ctx
        /\ cut => pos = ctx
        /\ pc = "reply" /\ pos < ctx => logits = transcript /\ transcript # <<>>

\* The other commands count the positions they filled.
PosInv ==
    /\ pc \in {"generate", "serve", "score", "benchDecode"} => pos = Len(transcript)
    /\ pc = "generate" => pos <= MaxSeq + MaxFeed
    /\ pc \in {"generate", "serve"} => logits = transcript /\ transcript # <<>>
    /\ pc = "score" => pos = i
    /\ pc = "benchDecode" => pos = Len(text) + i

KvInv == /\ Types /\ CommandInv /\ FreshInv /\ LimitInv /\ ChatInv /\ PosInv
         /\ CacheIsTranscript /\ OnlyGenerateOverflows

\* The initial state satisfies it.
LEMMA InitKvInv == Init => KvInv
  <1> SUFFICES ASSUME Init PROVE KvInv
    OBVIOUS
  <1>1. <<>> \in Seq(Cell) /\ Len(<<>>) = 0
    BY EmptySeq
  <1>2. kv \in [Rows -> Cell]
    BY DEF Init, Cell
  <1>3. MaxSeq \in Int /\ MaxSeq \in 1 .. MaxSeq
    BY BoundsAssumption
  <1>4. Types
    BY <1>1, <1>2, <1>3 DEF Init, Types
  <1>5. CommandInv /\ FreshInv /\ LimitInv /\ ChatInv /\ PosInv
    BY DEF Init, CommandInv, FreshInv, LimitInv, ChatInv, PosInv
  <1>6. CacheIsTranscript /\ OnlyGenerateOverflows
    BY DEF Init, CacheIsTranscript, OnlyGenerateOverflows
  <1> QED
    BY <1>4, <1>5, <1>6 DEF KvInv

-----------------------------------------------------------------------------
(* Texts and rows. *)

\* The first rows of the cache hold t.
Cached(cells, t) == \A p \in 0 .. Len(t) - 1 : cells[p] = t[p + 1]

LEMMA RowsAre ==
  /\ MaxSeq \in Nat \ {0} /\ MaxFeed \in Nat
  /\ Rows = 0 .. MaxSeq + MaxFeed + 2 /\ Rows \subseteq Nat
  /\ EndMarker \in Seq(Cell) /\ Len(EndMarker) = 2
  <1>1. Len(EndMarker) = 2 /\ EndMarker \in Seq({End})
    BY DEF EndMarker
  <1>2. EndMarker \in Seq(Cell)
    BY <1>1, SeqMonotonic DEF Cell
  <1>3. Rows = 0 .. MaxSeq + MaxFeed + 2
    BY <1>1 DEF Rows
  <1> QED
    BY <1>1, <1>2, <1>3, BoundsAssumption

LEMMA FunctionIsSeq ==
  ASSUME NEW S, NEW n \in Nat, NEW f \in [1 .. n -> S]
  PROVE  f \in Seq(S) /\ Len(f) = n
  OBVIOUS

\* A text that is fed is made of tokens.
LEMMA TextsProperties ==
  ASSUME NEW k \in Nat, NEW ids \in Texts(k)
  PROVE  ids \in Seq(Cell) /\ Len(ids) \in k .. MaxFeed
  <1>1. PICK n \in k .. MaxFeed : ids \in [1 .. n -> Token]
    BY DEF Texts
  <1>2. n \in Nat
    BY BoundsAssumption
  <1>3. ids \in Seq(Token) /\ Len(ids) = n
    BY <1>1, <1>2
  <1>4. ids \in Seq(Cell)
    BY <1>3, SeqMonotonic DEF Cell
  <1> QED
    BY <1>3, <1>4

\* The logits of a pass over rows that hold t are those of t.
LEMMA AttendedIs ==
  ASSUME NEW cells, NEW t \in Seq(Cell), Len(t) > 0, Cached(cells, t)
  PROVE  Attended(cells, Len(t) - 1) = t
  <1>1. Len(t) \in Nat /\ t \in [1 .. Len(t) -> Cell]
    BY LenProperties
  <1>2. \A k \in 1 .. Len(t) : cells[k - 1] = t[k]
    <2> SUFFICES ASSUME NEW k \in 1 .. Len(t) PROVE cells[k - 1] = t[k]
      OBVIOUS
    <2>1. k - 1 \in 0 .. Len(t) - 1 /\ (k - 1) + 1 = k
      BY <1>1
    <2> QED
      BY <2>1 DEF Cached
  <1>3. (Len(t) - 1) + 1 = Len(t)
    BY <1>1
  <1>4. Attended(cells, Len(t) - 1) = [k \in 1 .. Len(t) |-> t[k]]
    BY <1>2, <1>3 DEF Attended
  <1> QED
    BY <1>1, <1>4

\* A prefill behind t makes the rows those of t and the text.
LEMMA PrefillStores ==
  ASSUME kv \in [Rows -> Cell], NEW t \in Seq(Cell), NEW ids \in Seq(Cell), ids # <<>>,
         Cached(kv, t), Len(t) + Len(ids) - 1 \in Rows, Prefill(ids, Len(t))
  PROVE  /\ kv' \in [Rows -> Cell] /\ Cached(kv', t \o ids)
         /\ t \o ids \in Seq(Cell) /\ t \o ids # <<>>
         /\ Len(t \o ids) = Len(t) + Len(ids)
         /\ logits' = t \o ids
         /\ overrun' = (overrun \/ Len(t) + Len(ids) > s_ctx)
  <1> DEFINE both == t \o ids
  <1>1. /\ Len(t) \in Nat /\ Len(ids) \in Nat \ {0} /\ Rows \subseteq Nat
        /\ \A p \in 0 .. Len(t) + Len(ids) - 1 : p \in Rows
    <2>1. Len(t) \in Nat /\ Len(ids) \in Nat \ {0}
      BY EmptySeq, LenProperties
    <2> QED
      BY <2>1, RowsAre
  <1>2. /\ both \in Seq(Cell) /\ Len(both) = Len(t) + Len(ids)
        /\ \A j \in 1 .. Len(t) + Len(ids) :
              both[j] = IF j <= Len(t) THEN t[j] ELSE ids[j - Len(t)]
    BY ConcatProperties
  <1>3. /\ kv' = [p \in Rows |-> IF Len(t) <= p /\ p < Len(t) + Len(ids)
                                 THEN ids[p - Len(t) + 1] ELSE kv[p]]
        /\ overrun' = (overrun \/ Len(t) + Len(ids) > s_ctx)
        /\ logits' = Attended(kv', Len(t) + Len(ids) - 1)
    BY DEF Prefill
  <1>4. kv' \in [Rows -> Cell]
    <2> SUFFICES ASSUME NEW p \in Rows, Len(t) <= p, p < Len(t) + Len(ids)
                 PROVE  ids[p - Len(t) + 1] \in Cell
      BY <1>3
    <2>1. p - Len(t) + 1 \in 1 .. Len(ids)
      BY <1>1
    <2> QED
      BY <2>1, ElementOfSeq
  <1>5. \A p \in 0 .. Len(both) - 1 : kv'[p] = both[p + 1]
    <2> SUFFICES ASSUME NEW p \in 0 .. Len(both) - 1 PROVE kv'[p] = both[p + 1]
      OBVIOUS
    <2>1. p \in Rows /\ p \in Int /\ p + 1 \in 1 .. Len(t) + Len(ids)
      BY <1>1, <1>2
    <2>2. CASE p < Len(t)
      <3>1. p \in 0 .. Len(t) - 1 /\ p + 1 <= Len(t)
        BY <1>1, <2>1, <2>2
      <3> QED
        BY <1>2, <1>3, <2>1, <2>2, <3>1 DEF Cached
    <2>3. CASE ~(p < Len(t))
      <3>1. Len(t) <= p /\ p < Len(t) + Len(ids) /\ ~(p + 1 <= Len(t))
            /\ (p + 1) - Len(t) = p - Len(t) + 1
        BY <1>1, <1>2, <2>1, <2>3
      <3> QED
        BY <1>2, <1>3, <2>1, <3>1
    <2> QED
      BY <2>2, <2>3
  <1>6. Cached(kv', both)
    BY <1>5 DEF Cached
  <1>7. logits' = both
    <2>1. Len(both) > 0
      BY <1>1, <1>2
    <2> HIDE DEF both
    <2> QED
      BY <1>2, <1>3, <1>6, <2>1, AttendedIs
  <1>8. both # <<>>
    BY <1>1, <1>2, EmptySeq
  <1> QED
    BY <1>2, <1>3, <1>4, <1>6, <1>7, <1>8

\* A forward pass behind t makes the rows those of t and the token.
LEMMA ForwardStores ==
  ASSUME kv \in [Rows -> Cell], NEW t \in Seq(Cell), NEW tok \in Cell,
         Cached(kv, t), Len(t) \in Rows, Forward(tok, Len(t))
  PROVE  /\ kv' \in [Rows -> Cell] /\ Cached(kv', Append(t, tok))
         /\ Append(t, tok) \in Seq(Cell) /\ Append(t, tok) # <<>>
         /\ Len(Append(t, tok)) = Len(t) + 1
         /\ logits' = Append(t, tok)
         /\ UNCHANGED overrun
  <1> DEFINE both == Append(t, tok)
  <1>1. Len(t) \in Nat /\ \A p \in 0 .. Len(t) : p \in Rows
    BY LenProperties, RowsAre
  <1>2. /\ both \in Seq(Cell) /\ Len(both) = Len(t) + 1 /\ both # <<>>
        /\ \A j \in 1 .. Len(t) : both[j] = t[j]
        /\ both[Len(t) + 1] = tok
    BY AppendProperties
  <1>3. /\ kv' = [kv EXCEPT ![Len(t)] = tok] /\ logits' = Attended(kv', Len(t))
        /\ UNCHANGED overrun
    BY DEF Forward
  <1>4. kv' \in [Rows -> Cell]
    BY <1>3
  <1>5. \A p \in 0 .. Len(both) - 1 : kv'[p] = both[p + 1]
    <2> SUFFICES ASSUME NEW p \in 0 .. Len(both) - 1 PROVE kv'[p] = both[p + 1]
      OBVIOUS
    <2>1. p \in Rows /\ p \in 0 .. Len(t)
      BY <1>1, <1>2
    <2>2. CASE p = Len(t)
      BY <1>2, <1>3, <2>1, <2>2
    <2>3. CASE p # Len(t)
      <3>1. p \in 0 .. Len(t) - 1 /\ p + 1 \in 1 .. Len(t)
        BY <1>1, <2>1, <2>3
      <3> QED
        BY <1>2, <1>3, <2>1, <2>3, <3>1 DEF Cached
    <2> QED
      BY <2>2, <2>3
  <1>6. Cached(kv', both)
    BY <1>5 DEF Cached
  <1>7. logits' = both
    <2>1. Len(both) > 0 /\ Len(both) - 1 = Len(t)
      BY <1>1, <1>2
    <2> HIDE DEF both
    <2> QED
      BY <1>2, <1>3, <1>6, <2>1, AttendedIs
  <1> QED
    BY <1>2, <1>3, <1>4, <1>6, <1>7

-----------------------------------------------------------------------------
(* The commands start. *)

LEMMA StateCtxProperties ==
  ASSUME NEW a \in Int
  PROVE  /\ StateCtx(a) \in 1 .. MaxSeq /\ StateCtx(a) \in Int
         /\ a > 0 => StateCtx(a) = Smaller(a, MaxSeq)
         /\ Smaller(a, MaxSeq) \in Int
         /\ Smaller(a, MaxSeq) <= StateCtx(Smaller(a, MaxSeq))
         /\ Smaller(a, MaxSeq) > 0 => Smaller(a, MaxSeq) = StateCtx(Smaller(a, MaxSeq))
  BY RowsAre DEF StateCtx, Smaller

\* What is not bench does not look at text before it has set it.
LEMMA StartStep ==
  ASSUME KvInv, Starting
  PROVE  KvInv'
  <1> USE DEF KvInv, cache, session
  <1>1. /\ UNCHANGED <<kv, overrun, logits, pos, i, transcript, cut>>
        /\ pc = "start" /\ cmd = "none" /\ transcript = <<>> /\ pos = 0 /\ i = 0 /\ ~cut
    <2>1. pc = "start" /\ UNCHANGED <<kv, overrun, logits, pos, i, transcript, cut>>
      BY DEF Starting, StartGenerate, StartChat, StartServe, StartPerplexity, StartBench, Start
    <2> QED
      BY <2>1 DEF CommandInv, FreshInv
  <1>2. /\ kv' \in [Rows -> Cell] /\ pos' \in Int /\ i' \in Nat /\ transcript' \in Seq(Cell)
    BY <1>1 DEF Types
  <1>3. ~overrun /\ ~overrun'
    BY <1>1 DEF OnlyGenerateOverflows
  <1>4. CASE StartGenerate
    <2>1. PICK a \in CtxArgs : Start("generate", IF a > 0 THEN a ELSE MaxSeq, a, "tune")
      BY <1>4 DEF StartGenerate
    <2>2. a \in Int /\ max_new' \in Nat
      BY <1>4, BoundsAssumption DEF StartGenerate
    <2>3. /\ cmd' = "generate" /\ pc' = "tune" /\ text' = text
          /\ ctx' = (IF a > 0 THEN a ELSE MaxSeq) /\ s_ctx' = StateCtx(a)
      BY <2>1 DEF Start
    <2>4. /\ ctx' \in Int /\ ctx' > 0 /\ s_ctx' \in 1 .. MaxSeq
          /\ s_ctx' = Smaller(ctx', MaxSeq)
      BY <2>2, <2>3, RowsAre, StateCtxProperties DEF StateCtx, Smaller
    <2>5. Types'
      BY <1>2, <2>2, <2>3, <2>4 DEF Types
    <2> QED
      BY <1>1, <1>3, <2>3, <2>4, <2>5
         DEF CommandInv, FreshInv, LimitInv, ChatInv, PosInv, CacheIsTranscript,
             OnlyGenerateOverflows
  <1>5. CASE StartChat
    <2>1. PICK a \in CtxArgs : Start("chat", Smaller(a, MaxSeq), Smaller(a, MaxSeq), "tune")
      BY <1>5 DEF StartChat
    <2>2. a \in Int /\ max_new' \in Nat
      BY <1>5, BoundsAssumption DEF StartChat
    <2>3. /\ cmd' = "chat" /\ pc' = "tune" /\ text' = text
          /\ ctx' = Smaller(a, MaxSeq) /\ s_ctx' = StateCtx(Smaller(a, MaxSeq))
      BY <2>1 DEF Start
    <2>4. /\ ctx' \in Int /\ s_ctx' \in 1 .. MaxSeq /\ ctx' <= s_ctx'
          /\ ctx' > 0 => ctx' = s_ctx'
      BY <2>2, <2>3, StateCtxProperties
    <2>5. Types'
      BY <1>2, <2>2, <2>3, <2>4 DEF Types
    <2> QED
      BY <1>1, <1>3, <2>3, <2>4, <2>5, EmptySeq
         DEF CommandInv, FreshInv, LimitInv, ChatInv, PosInv, CacheIsTranscript,
             OnlyGenerateOverflows
  <1>6. CASE StartServe
    <2>1. PICK a \in CtxArgs : Start("serve", StateCtx(a), a, "request")
      BY <1>6 DEF StartServe
    <2>2. a \in Int /\ max_new' = 0
      BY <1>6, BoundsAssumption DEF StartServe
    <2>3. /\ cmd' = "serve" /\ pc' = "request" /\ text' = text
          /\ ctx' = StateCtx(a) /\ s_ctx' = StateCtx(a)
      BY <2>1 DEF Start
    <2>4. ctx' \in Int /\ s_ctx' \in 1 .. MaxSeq
      BY <2>2, <2>3, StateCtxProperties
    <2>5. Types'
      BY <1>2, <2>2, <2>3, <2>4 DEF Types
    <2> QED
      BY <1>1, <1>3, <2>3, <2>4, <2>5
         DEF CommandInv, FreshInv, LimitInv, ChatInv, PosInv, CacheIsTranscript,
             OnlyGenerateOverflows
  <1>7. CASE StartPerplexity
    <2>1. PICK maxtok \in 1 .. MaxSeq :
            /\ Start("perplexity", Smaller(maxtok + 2, MaxSeq), Smaller(maxtok + 2, MaxSeq),
                     "load")
            /\ max_new' = maxtok
      BY <1>7 DEF StartPerplexity
    <2>2. maxtok + 2 \in Int /\ max_new' \in Int
      BY <2>1
    <2>3. /\ cmd' = "perplexity" /\ pc' = "load" /\ text' = text
          /\ ctx' = Smaller(maxtok + 2, MaxSeq)
          /\ s_ctx' = StateCtx(Smaller(maxtok + 2, MaxSeq))
      BY <2>1 DEF Start
    <2>4. Smaller(maxtok + 2, MaxSeq) > 0
      BY RowsAre DEF Smaller
    <2>5. ctx' \in Int /\ s_ctx' \in 1 .. MaxSeq /\ ctx' = s_ctx'
      BY <2>2, <2>3, <2>4, StateCtxProperties
    <2>6. Types'
      BY <1>2, <2>2, <2>3, <2>5 DEF Types
    <2> QED
      BY <1>1, <1>3, <2>3, <2>5, <2>6
         DEF CommandInv, FreshInv, LimitInv, ChatInv, PosInv, CacheIsTranscript,
             OnlyGenerateOverflows
  <1>8. CASE StartBench
    <2> PICK pp \in BenchArgs, tg \in BenchArgs :
           LET fits == BenchFits(pp, tg)
               n == IF fits THEN pp ELSE MaxSeq \div 2 IN
           /\ cmd' = "bench" /\ s_ctx' = StateCtx(pp + tg + 2) /\ ctx' = MaxSeq
           /\ text' = [k \in 1 .. n |-> Synthetic(k - 1)]
           /\ max_new' = IF fits THEN tg ELSE MaxSeq \div 2 - 1
           /\ pc' = "benchPrefill"
      BY <1>8 DEF StartBench
    <2> DEFINE fits == BenchFits(pp, tg)
               n == IF fits THEN pp ELSE MaxSeq \div 2
    <2>1. pp \in Nat /\ tg \in Nat /\ pp + tg + 2 \in Int
      BY BoundsAssumption
    <2>2. /\ n \in Nat /\ max_new' \in Int /\ s_ctx' \in 1 .. MaxSeq /\ ctx' \in Int
          /\ n <= s_ctx' /\ n + max_new' < s_ctx'
      <3>1. MaxSeq \div 2 \in Nat /\ 2 * (MaxSeq \div 2) <= MaxSeq /\ MaxSeq \in Nat \ {0}
        BY RowsAre
      <3>2. CASE fits
        BY <2>1, <3>1, <3>2 DEF BenchFits, StateCtx
      <3>3. CASE ~fits
        BY <2>1, <3>1, <3>3 DEF BenchFits, StateCtx
      <3> QED
        BY <3>2, <3>3
    <2>3. text' \in Seq(Cell) /\ Len(text') = n
      <3> HIDE DEF n
      <3>1. text' = [k \in 1 .. n |-> Synthetic(k - 1)]
        BY DEF n
      <3>2. \A k \in 1 .. n : Synthetic(k - 1) \in Cell
        BY <2>2 DEF Cell
      <3>3. text' \in [1 .. n -> Cell]
        BY <3>1, <3>2
      <3> QED
        BY <2>2, <3>3, FunctionIsSeq
    <2> HIDE DEF n, fits
    <2>4. Types'
      BY <1>2, <2>2, <2>3 DEF Types
    <2> QED
      BY <1>1, <1>3, <2>2, <2>3, <2>4
         DEF CommandInv, FreshInv, LimitInv, ChatInv, PosInv, CacheIsTranscript,
             OnlyGenerateOverflows
  <1> QED
    BY <1>4, <1>5, <1>6, <1>7, <1>8 DEF Starting

-----------------------------------------------------------------------------
(* Steps that say nothing. *)

\* An error, a report, the next request or repetition: only pc changes.
LEMMA MoveStep ==
  ASSUME KvInv, pc # "died", UNCHANGED <<limits, cache, pos, loop, text, session>>,
         \/ pc' = "done"
         \/ pc' = "request" /\ cmd = "serve"
         \/ pc' = "benchPrefill" /\ cmd = "bench"
         \/ pc' = "died" /\ \/ transcript = <<>> /\ TunePositions > s_ctx
                            \/ cmd = "generate" /\ ctx > MaxSeq
  PROVE  KvInv'
  <1> USE DEF KvInv, limits, cache, loop, session
  <1>1. Types' /\ CommandInv' /\ LimitInv'
    BY DEF Types, CommandInv, LimitInv
  <1>2. FreshInv' /\ PosInv'
    BY DEF FreshInv, PosInv
  <1>3. ChatInv'
    BY DEF ChatInv
  <1>4. CacheIsTranscript' /\ OnlyGenerateOverflows'
    BY DEF CacheIsTranscript, OnlyGenerateOverflows
  <1> QED
    BY <1>1, <1>2, <1>3, <1>4

LEMMA TuneStep ==
  ASSUME KvInv, Tuning
  PROVE  KvInv'
  <1> USE DEF KvInv, limits, cache, loop, session
  <1>1. /\ pc = "tune" /\ transcript = <<>> /\ pos = 0 /\ i = 0 /\ ~cut
        /\ cmd \in {"generate", "chat"}
    <2>1. pc = "tune"
      BY DEF Tuning, Autotune, SkipTune
    <2> QED
      BY <2>1 DEF FreshInv, CommandInv
  <1>2. CASE TunePositions > s_ctx /\ Dies
    BY <1>1, <1>2, MoveStep DEF Dies
  <1>3. ASSUME pc' = IF cmd = "chat" THEN "system" ELSE "prompt",
               UNCHANGED <<limits, overrun, pos, loop, text, session>>,
               kv' \in [Rows -> Cell]
        PROVE  KvInv'
    <2>1. Types' /\ CommandInv' /\ LimitInv'
      BY <1>1, <1>3 DEF Types, CommandInv, LimitInv
    <2>2. FreshInv' /\ PosInv'
      BY <1>1, <1>3 DEF FreshInv, PosInv
    <2>3. ChatInv'
      BY <1>1, <1>3 DEF ChatInv
    <2>4. CacheIsTranscript' /\ OnlyGenerateOverflows'
      BY <1>1, <1>3 DEF CacheIsTranscript, OnlyGenerateOverflows
    <2> QED
      BY <2>1, <2>2, <2>3, <2>4
  <1>4. CASE Autotune /\ ~(TunePositions > s_ctx)
    <2>1. kv' = [p \in Rows |-> IF p < TunePositions THEN Warmup ELSE kv[p]]
      BY <1>4 DEF Autotune
    <2>2. kv \in [Rows -> Cell] /\ Warmup \in Cell
      BY DEF Types, Cell
    <2>3. kv' \in [Rows -> Cell]
      BY <2>1, <2>2
    <2> QED
      BY <1>3, <1>4, <2>3 DEF Autotune
  <1>5. CASE SkipTune
    BY <1>3, <1>5 DEF SkipTune, Types
  <1> QED
    BY <1>2, <1>4, <1>5 DEF Tuning, Autotune

-----------------------------------------------------------------------------
(* Steps that say something. *)

\* What was said before is in the first rows.
LEMMA CachedBefore ==
  ASSUME CacheIsTranscript, Types
  PROVE  Cached(kv, transcript)
  <1>1. CASE transcript = <<>>
    BY <1>1, EmptySeq DEF Cached
  <1>2. CASE transcript # <<>>
    BY <1>2 DEF Cached, CacheIsTranscript
  <1> QED
    BY <1>1, <1>2

\* A token behind what was said, in any of the loops.
LEMMA TokenStep ==
  ASSUME KvInv, NEW tok \in Cell,
         pc \in {"generate", "reply", "serve", "score", "benchDecode"},
         pc = "reply" => 0 <= pos /\ pos < ctx - 1,
         pos < s_ctx, Forward(tok, pos), pos' = pos + 1, i' = i + 1,
         transcript' = Append(transcript, tok),
         UNCHANGED <<pc, limits, max_new, text, cut>>
  PROVE  KvInv'
  <1> USE DEF KvInv, limits
  <1>1. pos = Len(transcript) /\ (cmd = "chat" => pc = "reply")
    BY DEF ChatInv, PosInv, CommandInv, Types
  <1>2. /\ transcript \in Seq(Cell) /\ kv \in [Rows -> Cell] /\ Len(transcript) \in Nat
        /\ s_ctx \in 1 .. MaxSeq /\ ctx \in Int /\ i \in Nat
    BY LenProperties DEF Types
  <1>3. Len(transcript) \in Rows
    BY <1>1, <1>2, RowsAre
  <1>4. /\ kv' \in [Rows -> Cell] /\ Cached(kv', transcript')
        /\ transcript' \in Seq(Cell) /\ transcript' # <<>>
        /\ Len(transcript') = pos'
        /\ logits' = transcript' /\ UNCHANGED overrun
    BY <1>1, <1>2, <1>3, CachedBefore, ForwardStores
  <1>5. Types' /\ CommandInv' /\ LimitInv'
    BY <1>1, <1>2, <1>4 DEF Types, CommandInv, LimitInv
  <1>6. FreshInv'
    BY DEF FreshInv
  <1>7. PosInv'
    BY <1>1, <1>2, <1>4, RowsAre DEF PosInv
  <1>8. ChatInv'
    BY <1>1, <1>2, <1>4 DEF ChatInv
  <1>9. CacheIsTranscript' /\ OnlyGenerateOverflows'
    BY <1>4 DEF CacheIsTranscript, Cached, OnlyGenerateOverflows
  <1> QED
    BY <1>5, <1>6, <1>7, <1>8, <1>9

\* A prompt at the start of the cache, over whatever is there.
LEMMA PromptStep ==
  ASSUME KvInv, NEW ids \in Seq(Cell), Prefill(ids, 0),
         transcript' = ids, pos' = Len(ids), i' \in Nat, max_new' \in Int,
         UNCHANGED <<limits, text, cut>>,
         Len(ids) <= MaxSeq + MaxFeed,
         \/ cmd = "generate" /\ pc' = "generate" /\ ids # <<>>
         \/ cmd = "serve" /\ pc' = "serve" /\ ids # <<>> /\ Len(ids) <= s_ctx
         \/ cmd = "bench" /\ pc' = "benchDecode" /\ ids = text /\ i' = 0 /\ max_new' = max_new,
         pc # "died"
  PROVE  KvInv'
  <1> USE DEF KvInv, limits
  <1>1. /\ Len(ids) \in Nat /\ s_ctx \in 1 .. MaxSeq /\ ctx \in Int
        /\ kv \in [Rows -> Cell] /\ <<>> \in Seq(Cell) /\ Len(<<>>) = 0
        /\ Cached(kv, <<>>) /\ <<>> \o ids = ids
    BY LenProperties, EmptySeq DEF Types, Cached
  <1>2. /\ kv' \in [Rows -> Cell] /\ Cached(kv', ids)
        /\ ids # <<>> => logits' = ids
        /\ overrun' => overrun \/ Len(ids) > s_ctx
    <2>1. CASE ids = <<>>
      BY <1>1, <2>1 DEF Prefill, cache
    <2>2. CASE ids # <<>>
      <3>1. Len(<<>>) + Len(ids) - 1 \in Rows
        BY <1>1, <2>2, EmptySeq, RowsAre
      <3> QED
        BY <1>1, <2>2, <3>1, PrefillStores
    <2> QED
      BY <2>1, <2>2
  <1>3. Types'
    BY <1>1, <1>2 DEF Types
  <1>4. CommandInv' /\ LimitInv' /\ FreshInv' /\ ChatInv'
    BY DEF CommandInv, LimitInv, FreshInv, ChatInv
  <1>5. PosInv'
    BY <1>1, <1>2 DEF PosInv
  <1>6. CacheIsTranscript'
    BY <1>2 DEF CacheIsTranscript, Cached
  <1>7. OnlyGenerateOverflows'
    BY <1>1, <1>2 DEF OnlyGenerateOverflows, LimitInv
  <1> QED
    BY <1>3, <1>4, <1>5, <1>6, <1>7

LEMMA GenerateStep ==
  ASSUME KvInv, Generating
  PROVE  KvInv'
  <1> USE DEF KvInv
  <1>1. CASE GeneratePrompt
    <2> PICK ids \in Texts(1) : Prefill(ids, 0) /\ transcript' = ids /\ pos' = Len(ids)
      BY <1>1 DEF GeneratePrompt
    <2>1. ids \in Seq(Cell) /\ Len(ids) \in 1 .. MaxFeed /\ ids # <<>>
      BY TextsProperties, EmptySeq
    <2>2. Len(ids) <= MaxSeq + MaxFeed
      BY <2>1, RowsAre
    <2>3. /\ cmd = "generate" /\ pc # "died" /\ pc' = "generate" /\ i' \in Nat
          /\ max_new' \in Int /\ UNCHANGED <<limits, text, cut>>
      BY <1>1 DEF GeneratePrompt, CommandInv, Types, loop
    <2> QED
      BY <2>1, <2>2, <2>3, PromptStep
  <1>2. CASE GenerateEnds
    BY <1>2, MoveStep DEF GenerateEnds
  <1>3. ASSUME NEW t \in Token, GenerateToken(t) PROVE KvInv'
    <2>1. cmd = "generate" /\ pc = "generate" /\ pos < ctx - 1
      BY <1>3 DEF GenerateToken, RoomToGenerate, CommandInv
    <2>2. t \in Cell
      BY DEF Cell
    <2>3. CASE pos >= s_ctx
      <3>1. ctx > MaxSeq
        BY <2>1, <2>3, RowsAre DEF LimitInv, Smaller, Types
      <3> QED
        BY <1>3, <2>1, <2>3, <3>1, MoveStep DEF GenerateToken, Dies
    <2>4. CASE ~(pos >= s_ctx)
      <3>1. pos < s_ctx
        BY <2>4 DEF Types
      <3> QED
        BY <1>3, <2>1, <2>2, <2>4, <3>1, TokenStep DEF GenerateToken
    <2> QED
      BY <2>3, <2>4
  <1> QED
    BY <1>1, <1>2, <1>3 DEF Generating

-----------------------------------------------------------------------------
(* Chat. *)

\* What fits is fed behind what was said; what does not fit fills the context.
LEMMA FeedStep ==
  ASSUME KvInv, cmd = "chat", pc \in {"system", "read", "reply"},
         NEW ids \in Seq(Cell), Len(ids) > 0, Feed(ids),
         pc' \in {"read", "reply", "done"}, i' \in Nat,
         UNCHANGED <<limits, max_new, text>>
  PROVE  KvInv'
  <1> USE DEF KvInv, limits
  <1> DEFINE n == Fitting(Len(ids))
             fed == IF n > 0 THEN SubSeq(ids, 1, n) ELSE <<>>
  <1>1. /\ Len(ids) \in Nat /\ pos \in Int /\ ctx \in Int /\ s_ctx \in 1 .. MaxSeq
        /\ kv \in [Rows -> Cell] /\ transcript \in Seq(Cell) /\ Len(transcript) \in Nat
        /\ n \in Int /\ <<>> \in Seq(Cell) /\ Len(<<>>) = 0
        /\ ~overrun /\ ctx <= s_ctx
    BY LenProperties, EmptySeq DEF Types, Fitting, OnlyGenerateOverflows, LimitInv
  <1>2. /\ pos' = pos + n /\ transcript' = transcript \o fed
        /\ cut' = (cut \/ n < Len(ids))
        /\ IF n > 0 THEN Prefill(fed, pos) ELSE logits' = <<>> /\ UNCHANGED <<kv, overrun>>
    BY DEF Feed
  <1>3. /\ n <= Len(ids) /\ pos + n <= ctx
        /\ n < Len(ids) => pos' = ctx
        /\ cut' => pos' = ctx
    <2>1. n <= Len(ids) /\ pos + n <= ctx /\ (n < Len(ids) => pos + n = ctx)
      BY <1>1 DEF Fitting
    <2>2. pos' = pos + n /\ (cut' => cut \/ n < Len(ids))
      BY <1>2
    <2>3. cut => pos = ctx
      BY DEF ChatInv
    <2>4. pos = ctx => n < Len(ids)
      BY <1>1 DEF Fitting
    <2> QED
      BY <2>1, <2>2, <2>3, <2>4
  <1>4. fed \in Seq(Cell) /\ (n > 0 => Len(fed) = n /\ fed # <<>>)
    <2>1. CASE n > 0
      <3>1. \A k \in 1 .. n : ids[k] \in Cell
        BY <1>1, <1>3, ElementOfSeq
      <3>2. SubSeq(ids, 1, n) \in Seq(Cell) /\ Len(SubSeq(ids, 1, n)) = n
        BY <1>1, <2>1, <3>1, SubSeqProperties
      <3> QED
        BY <1>1, <2>1, <3>2
    <2>2. CASE ~(n > 0)
      BY <1>1, <2>2
    <2> QED
      BY <2>1, <2>2
  <1> HIDE DEF fed, n
  <1>5. CASE n > 0
    <2>1. ctx > 0 /\ 0 <= pos /\ pos = Len(transcript)
      BY <1>1, <1>3, <1>5 DEF ChatInv
    <2>2. Len(transcript) + Len(fed) - 1 \in Rows
      BY <1>1, <1>3, <1>4, <1>5, <2>1, RowsAre
    <2>3. Cached(kv, transcript) /\ Prefill(fed, Len(transcript))
      BY <1>2, <1>5, <2>1, CachedBefore
    <2>4. /\ kv' \in [Rows -> Cell] /\ Cached(kv', transcript')
          /\ transcript' \in Seq(Cell) /\ transcript' # <<>>
          /\ Len(transcript') = Len(transcript) + Len(fed)
          /\ logits' = transcript'
          /\ overrun' = (overrun \/ Len(transcript) + Len(fed) > s_ctx)
      <3>1. fed \in Seq(Cell) /\ fed # <<>> /\ transcript' = transcript \o fed
        BY <1>2, <1>4, <1>5
      <3> QED
        BY <1>1, <2>2, <2>3, <3>1, PrefillStores
    <2>5. pos' \in Int /\ pos' = Len(transcript') /\ 0 <= pos' /\ pos' <= ctx /\ ~overrun'
      <3>1. pos' = pos + n /\ Len(fed) = n /\ pos + n <= ctx
        BY <1>2, <1>3, <1>4, <1>5
      <3>2. pos' \in Int /\ pos' = Len(transcript') /\ 0 <= pos' /\ pos' <= ctx
        BY <1>1, <1>5, <2>1, <2>4, <3>1
      <3>3. ~(Len(transcript) + Len(fed) > s_ctx)
        BY <1>1, <2>1, <3>1
      <3> QED
        BY <1>1, <2>4, <3>2, <3>3
    <2>6. Types' /\ CommandInv' /\ LimitInv' /\ FreshInv' /\ PosInv'
      BY <2>4, <2>5 DEF Types, CommandInv, LimitInv, FreshInv, PosInv
    <2>7. ChatInv'
      BY <1>1, <1>3, <2>1, <2>4, <2>5 DEF ChatInv
    <2>8. CacheIsTranscript' /\ OnlyGenerateOverflows'
      BY <2>4, <2>5 DEF CacheIsTranscript, Cached, OnlyGenerateOverflows
    <2> QED
      BY <2>6, <2>7, <2>8
  <1>6. CASE ~(n > 0)
    <2>1. pos' = ctx /\ n < Len(ids)
      BY <1>1, <1>3, <1>6
    <2>2. transcript' = transcript /\ UNCHANGED <<kv, overrun>>
      BY <1>1, <1>2, <1>6 DEF fed
    <2>3. ctx > 0 => pos' = pos
      BY <1>1, <1>2, <1>6, <2>1 DEF ChatInv
    <2>4. Types' /\ CommandInv' /\ LimitInv' /\ FreshInv' /\ PosInv'
      BY <1>1, <2>1, <2>2 DEF Types, CommandInv, LimitInv, FreshInv, PosInv
    <2>5. ChatInv'
      BY <1>1, <2>1, <2>2, <2>3 DEF ChatInv
    <2>6. CacheIsTranscript'
      <3>1. transcript # <<>> => pos' = pos
        BY <1>1, <2>3 DEF ChatInv
      <3> QED
        BY <2>2, <3>1 DEF CacheIsTranscript
    <2>7. OnlyGenerateOverflows'
      BY <1>1, <2>2 DEF OnlyGenerateOverflows
    <2> QED
      BY <2>4, <2>5, <2>6, <2>7
  <1> QED
    BY <1>5, <1>6

LEMMA ChatStep ==
  ASSUME KvInv, Chatting
  PROVE  KvInv'
  <1> USE DEF KvInv
  <1>0. i \in Nat
    BY DEF Types
  <1>1. CASE System
    <2>1. /\ pc = "system" /\ cmd = "chat" /\ pc' = "read" /\ UNCHANGED <<limits, max_new, text>>
          /\ i' = i
      BY <1>1 DEF System, CommandInv, loop
    <2>2. ASSUME NEW ids \in Texts(1), Feed(ids \o EndMarker) PROVE KvInv'
      <3>1. ids \o EndMarker \in Seq(Cell) /\ Len(ids \o EndMarker) > 0
        BY TextsProperties, RowsAre, ConcatProperties
      <3> QED
        BY <1>0, <2>1, <2>2, <3>1, FeedStep
    <2>3. CASE UNCHANGED <<cache, pos, session>>
      <3> USE <2>1, <2>3 DEF cache, session, limits
      <3>1. Types' /\ CommandInv' /\ LimitInv'
        BY DEF Types, CommandInv, LimitInv
      <3>2. FreshInv' /\ PosInv' /\ ChatInv'
        BY DEF FreshInv, PosInv, ChatInv
      <3>3. CacheIsTranscript' /\ OnlyGenerateOverflows'
        BY DEF CacheIsTranscript, OnlyGenerateOverflows
      <3> QED
        BY <3>1, <3>2, <3>3
    <2> QED
      BY <1>1, <2>2, <2>3 DEF System
  <1>2. CASE Turn
    <2> PICK ids \in Texts(1) : Feed(ids)
      BY <1>2 DEF Turn
    <2>1. ids \in Seq(Cell) /\ Len(ids) > 0
      BY TextsProperties
    <2>2. /\ pc = "read" /\ cmd = "chat" /\ pc' = "reply" /\ i' \in Nat
          /\ UNCHANGED <<limits, max_new, text>>
      BY <1>2 DEF Turn, CommandInv
    <2> QED
      BY <2>1, <2>2, FeedStep
  <1>3. CASE Leave
    BY <1>3, MoveStep DEF Leave
  <1>4. CASE CloseTurn
    <2>1. EndMarker \in Seq(Cell) /\ Len(EndMarker) > 0 /\ Feed(EndMarker)
      BY <1>4, RowsAre DEF CloseTurn
    <2>2. /\ pc = "reply" /\ cmd = "chat" /\ pc' \in {"read", "reply", "done"} /\ i' \in Nat
          /\ UNCHANGED <<limits, max_new, text>>
      BY <1>0, <1>4 DEF CloseTurn, CommandInv, loop
    <2> QED
      BY <2>1, <2>2, FeedStep
  <1>5. ASSUME NEW t \in Token, ReplyToken(t) PROVE KvInv'
    <2>1. pc = "reply" /\ cmd = "chat" /\ pos < ctx - 1
      BY <1>5 DEF ReplyToken, RoomToReply, CommandInv
    <2>2. 0 <= pos /\ pos < s_ctx /\ t \in Cell
      BY <2>1 DEF ChatInv, LimitInv, Types, Cell
    <2>3. ~(pos >= s_ctx) /\ ~(pos < 0)
      BY <2>2 DEF Types
    <2> QED
      BY <1>5, <2>1, <2>2, <2>3, TokenStep DEF ReplyToken
  <1> QED
    BY <1>1, <1>2, <1>3, <1>4, <1>5 DEF Chatting, Replying

-----------------------------------------------------------------------------
(* Perplexity, bench and serve. *)

LEMMA MeasureStep ==
  ASSUME KvInv, Measuring
  PROVE  KvInv'
  <1> USE DEF KvInv
  <1>0. s_ctx \in Int /\ pos \in Int /\ i \in Nat /\ ctx \in Int /\ max_new \in Int
    BY RowsAre DEF Types
  <1>1. CASE LoadText
    <2> USE DEF limits, cache, session, loop
    <2> PICK ids \in Texts(0) : text' = SubSeq(ids, 1, Smaller(Len(ids), max_new))
      BY <1>1 DEF LoadText
    <2>1. ids \in Seq(Cell) /\ Len(ids) \in Nat
      BY TextsProperties, LenProperties
    <2>2. /\ Smaller(Len(ids), max_new) \in Int
          /\ \A k \in 1 .. Smaller(Len(ids), max_new) : ids[k] \in Cell
      BY <1>0, <2>1, ElementOfSeq DEF Smaller
    <2>3. text' \in Seq(Cell)
      BY <2>2, SubSeqProperties
    <2>4. /\ pc = "load" /\ cmd = "perplexity" /\ pc' = "score"
          /\ UNCHANGED <<limits, cache, pos, loop, session>>
          /\ transcript = <<>> /\ pos = 0 /\ i = 0
      BY <1>1 DEF LoadText, CommandInv, FreshInv
    <2>5. Types' /\ CommandInv' /\ LimitInv'
      BY <2>3, <2>4 DEF Types, CommandInv, LimitInv
    <2>6. FreshInv' /\ PosInv' /\ ChatInv'
      BY <2>4, EmptySeq DEF FreshInv, PosInv, ChatInv
    <2>7. CacheIsTranscript' /\ OnlyGenerateOverflows'
      BY <2>4 DEF CacheIsTranscript, OnlyGenerateOverflows
    <2> QED
      BY <2>5, <2>6, <2>7
  <1>2. CASE Score
    <2>1. /\ pc = "score" /\ cmd = "perplexity" /\ pos = i /\ i < s_ctx /\ i < Len(text) - 1
      BY <1>0, <1>2 DEF Score, CommandInv, PosInv, LimitInv
    <2>2. text[i + 1] \in Cell /\ ~(i >= s_ctx)
      <3>1. text \in Seq(Cell) /\ Len(text) \in Nat
        BY LenProperties DEF Types
      <3>2. i + 1 \in 1 .. Len(text)
        BY <1>0, <2>1, <3>1
      <3> QED
        BY <1>0, <2>1, <3>1, <3>2, ElementOfSeq
    <2>3. /\ Forward(text[i + 1], pos) /\ pos' = pos + 1 /\ i' = i + 1
          /\ transcript' = Append(transcript, text[i + 1])
          /\ UNCHANGED <<pc, limits, max_new, text, cut>>
      BY <1>2, <2>1, <2>2 DEF Score
    <2> QED
      BY <2>1, <2>2, <2>3, TokenStep
  <1>3. CASE Scored
    BY <1>3, MoveStep DEF Scored
  <1>4. CASE BenchPrefill
    <2>1. /\ pc = "benchPrefill" /\ cmd = "bench" /\ pc' = "benchDecode"
          /\ Prefill(text, 0) /\ transcript' = text /\ pos' = Len(text) /\ i' = 0
          /\ UNCHANGED <<limits, max_new, text, cut>>
      BY <1>4 DEF BenchPrefill, CommandInv
    <2>2. text \in Seq(Cell) /\ Len(text) \in Nat /\ Len(text) <= MaxSeq + MaxFeed
          /\ max_new' \in Int /\ i' \in Nat /\ i' = 0 /\ max_new' = max_new
      BY <1>0, <2>1, LenProperties, RowsAre DEF Types, LimitInv
    <2> QED
      BY <2>1, <2>2, PromptStep
  <1>5. CASE BenchDecode
    <2>1. /\ pc = "benchDecode" /\ cmd = "bench" /\ pos = Len(text) + i /\ i < max_new
          /\ Len(text) + max_new < s_ctx
      BY <1>5 DEF BenchDecode, CommandInv, PosInv, LimitInv
    <2>2. pos < s_ctx /\ ~(pos >= s_ctx) /\ pos \in Nat
      <3>1. Len(text) \in Nat
        BY LenProperties DEF Types
      <3> QED
        BY <1>0, <2>1, <3>1
    <2>3. Synthetic(pos) \in Cell
      BY <2>2 DEF Cell
    <2> QED
      BY <1>5, <2>1, <2>2, <2>3, TokenStep DEF BenchDecode
  <1>6. CASE BenchAgain
    <2>1. pc = "benchDecode" /\ cmd = "bench"
      BY <1>6 DEF BenchAgain, CommandInv
    <2> QED
      BY <1>6, <2>1, MoveStep DEF BenchAgain
  <1> QED
    BY <1>1, <1>2, <1>3, <1>4, <1>5, <1>6 DEF Measuring

LEMMA ServeStep ==
  ASSUME KvInv, Serving
  PROVE  KvInv'
  <1> USE DEF KvInv
  <1>0. s_ctx \in Int /\ pos \in Int /\ i \in Nat /\ ctx \in Int /\ MaxNew \in Nat
    BY RowsAre, BoundsAssumption DEF Types
  <1>1. CASE Request
    <2> PICK ids \in Texts(1) :
          /\ Len(ids) < ctx - 1 /\ Prefill(ids, 0)
          /\ pos' = Len(ids) /\ transcript' = ids
      BY <1>1 DEF Request
    <2>1. ids \in Seq(Cell) /\ Len(ids) \in 1 .. MaxFeed /\ ids # <<>>
      BY TextsProperties, EmptySeq
    <2>2. /\ cmd = "serve" /\ pc # "died" /\ pc' = "serve" /\ i' \in Nat
          /\ max_new' \in Int /\ UNCHANGED <<limits, text, cut>>
      BY <1>0, <1>1 DEF Request, CommandInv
    <2>3. Len(ids) <= s_ctx /\ Len(ids) <= MaxSeq + MaxFeed
      BY <1>0, <2>1, <2>2, RowsAre DEF LimitInv
    <2> QED
      BY <2>1, <2>2, <2>3, PromptStep
  <1>2. CASE ServeEnds
    <2>1. cmd = "serve"
      BY <1>2 DEF ServeEnds, CommandInv
    <2> QED
      BY <1>2, <2>1, MoveStep DEF ServeEnds
  <1>3. CASE ServeStops
    BY <1>3, MoveStep DEF ServeStops
  <1>4. ASSUME NEW t \in Token, ServeToken(t) PROVE KvInv'
    <2>1. pc = "serve" /\ cmd = "serve" /\ pos < ctx - 1
      BY <1>4 DEF ServeToken, CommandInv
    <2>2. pos < s_ctx /\ ~(pos >= s_ctx) /\ t \in Cell
      BY <1>0, <2>1 DEF LimitInv, Cell
    <2> QED
      BY <1>4, <2>1, <2>2, TokenStep DEF ServeToken
  <1> QED
    BY <1>1, <1>2, <1>3, <1>4 DEF Serving

-----------------------------------------------------------------------------
(* The theorems. *)

LEMMA NextKvInv == KvInv /\ [Next]_vars => KvInv'
  <1> SUFFICES ASSUME KvInv, [Next]_vars PROVE KvInv'
    OBVIOUS
  <1>1. CASE UNCHANGED vars
    <2> USE <1>1 DEF KvInv, vars, limits, cache, loop, session
    <2>1. Types' /\ CommandInv' /\ LimitInv'
      BY DEF Types, CommandInv, LimitInv
    <2>2. FreshInv' /\ PosInv' /\ ChatInv'
      BY DEF FreshInv, PosInv, ChatInv
    <2>3. CacheIsTranscript' /\ OnlyGenerateOverflows'
      BY DEF CacheIsTranscript, OnlyGenerateOverflows
    <2> QED
      BY <2>1, <2>2, <2>3
  <1>2. CASE Next
    <2>1. Ended => UNCHANGED vars
      BY DEF Ended
    <2> QED
      BY <1>1, <1>2, <2>1, StartStep, TuneStep, GenerateStep, ChatStep, MeasureStep, ServeStep
         DEF Next
  <1> QED
    BY <1>1, <1>2

\* The inductive invariant holds in every behaviour of every command.
THEOREM KvInvariant == Spec => []KvInv
  <1> QED
    BY InitKvInv, NextKvInv, PTL DEF Spec

\* The rows in front of the next position are the conversation, whichever
\* command filled them: prefill and forward (src/model.c) store behind what was
\* said, and nothing else writes there once something was.
THEOREM CacheHoldsTheConversation == Spec => []CacheIsTranscript
  <1>1. KvInv => CacheIsTranscript
    BY DEF KvInv
  <1> QED
    BY <1>1, KvInvariant, PTL

\* generate, chat and serve sample each token from logits of the whole
\* conversation: feed leaves NULL only when the context is full, where chat
\* (src/main.c) does not reply.
THEOREM SamplingIsFresh == Spec => []LogitsAreFresh
  <1>1. KvInv => LogitsAreFresh
    <2> SUFFICES ASSUME KvInv, Sampling PROVE logits = transcript /\ logits # <<>>
      BY DEF LogitsAreFresh
    <2>1. CASE pc \in {"generate", "serve"}
      BY <2>1 DEF KvInv, PosInv
    <2>2. CASE pc = "reply" /\ RoomToReply
      <3>1. cmd = "chat" /\ pos \in Int /\ ctx \in Int
        BY <2>2 DEF KvInv, CommandInv, Types
      <3>2. pos < ctx
        BY <2>2, <3>1 DEF RoomToReply
      <3> QED
        BY <2>2, <3>1, <3>2 DEF KvInv, ChatInv
    <2> QED
      BY <2>1, <2>2 DEF Sampling
  <1> QED
    BY <1>1, KvInvariant, PTL

\* feed drops the end of a text only by filling the context, and a full context
\* leaves no room to reply (src/main.c): nobody answers half a turn.
THEOREM NoReplyToCutTurns == Spec => []RepliesToWholeTurns
  <1>1. KvInv => RepliesToWholeTurns
    <2> SUFFICES ASSUME KvInv, pc = "reply", RoomToReply, cut PROVE FALSE
      BY DEF RepliesToWholeTurns
    <2>1. cmd = "chat" /\ pos \in Int /\ ctx \in Int
      BY DEF KvInv, CommandInv, Types
    <2>2. pos = ctx
      BY <2>1 DEF KvInv, ChatInv
    <2> QED
      BY <2>1, <2>2 DEF RoomToReply
  <1> QED
    BY <1>1, KvInvariant, PTL

\* Chat, serve, perplexity and bench keep to the rows of the cache for every
\* --ctx and every length: only the prompt of generate is stored past them.
THEOREM OthersKeepToTheCache == Spec => []OnlyGenerateOverflows
  <1>1. KvInv => OnlyGenerateOverflows
    BY DEF KvInv
  <1> QED
    BY <1>1, KvInvariant, PTL
=============================================================================
