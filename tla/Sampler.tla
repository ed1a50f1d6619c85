------------------------------- MODULE Sampler -------------------------------
(***************************************************************************)
(* src/sample.c: the ring of recently emitted tokens, the penalties it     *)
(* puts on the logits, and the choice of a token: the largest logit, or a  *)
(* draw from what Truncation keeps.                                        *)
(*                                                                         *)
(* Numbers are integers: a logit is a multiple of repeat_penalty, so that  *)
(* the division is exact.                                                  *)
(***************************************************************************)
EXTENDS Integers, Sequences, FiniteSets, Truncation

CONSTANTS N,             \* the vocabulary is 0 .. N-1
          MaxWindow,     \* the largest repeat_last_n
          Logits,        \* the values a logit may have
          Penalties,     \* records [repeat, presence, frequency] of a sampler
          Filters,       \* records [temperature, top_k, top_p] of a sampler
          MinPs,         \* the values of min_p
          Exp(_, _),     \* Exp(t, d): the weight of a logit d below the peak
          MaxDrop,       \* further below, expf gives zero
          Foreign,       \* tokens outside the vocabulary that may be accepted
          Junk           \* what uninitialised memory holds

Vocab == 0 .. N - 1
Token == Vocab \cup Foreign

ASSUME SizeAssumption == N \in Nat \ {0} /\ MaxWindow \in Nat
ASSUME ValueAssumption ==
    /\ Foreign \subseteq Int /\ Foreign \cap Vocab = {}
    /\ Junk \notin Token
    /\ \A p \in Penalties : p.repeat \in Nat \ {0} /\ p.presence \in Int /\ p.frequency \in Int
    /\ Logits \subseteq Int
    /\ \A p \in Penalties, x \in Logits : x % p.repeat = 0
ASSUME FilterAssumption ==
    /\ MaxDrop \in Nat
    /\ \A f \in Filters :
          /\ f.temperature \in Nat /\ f.top_k \in Int /\ f.top_p \in 0 .. 100
          /\ f.temperature > 0 => /\ Exp(f.temperature, 0) > 0
                                  /\ \A d \in 0 .. MaxDrop : Exp(f.temperature, d) \in Nat
    /\ MinPs \subseteq 0 .. 100

\* Penalties that leave every logit as it is.
NoPenalties == [repeat |-> 1, presence |-> 0, frequency |-> 0]

VARIABLES pc,            \* "idle", or inside ember_sample
          filters,       \* temperature, top_k, top_p
          min_p,
          penalties,     \* repeat_penalty, presence_penalty, frequency_penalty
          history,       \* the ring; empty when it is NULL
          hist_cap, hist_len, hist_pos,
          prob,          \* the weights softmax leaves in the logits
          kept           \* the candidates that pass the filters

settings == <<filters, min_p, penalties>>
ring  == <<history, hist_cap, hist_len, hist_pos>>
local == <<pc, prob, kept>>
vars  == <<settings, ring, local>>

Slots(n) == 0 .. n - 1

\* ember_sampler_init
Init == /\ filters \in Filters
        /\ min_p = 0 /\ penalties = NoPenalties
        /\ history = <<>> /\ hist_cap = 0 /\ hist_len = 0 /\ hist_pos = 0
        /\ pc = "idle" /\ prob = <<>> /\ kept = <<>>

-----------------------------------------------------------------------------
(* The ring. *)

NeedHistory(p, repeat_last_n) ==
    repeat_last_n > 0 /\ (p.repeat # 1 \/ p.presence # 0 \/ p.frequency # 0)

\* ember_sampler_set_penalties: realloc keeps the slots both sizes have, new
\* ones hold what memory happens to hold.
SetPenalties(p, repeat_last_n, min) ==
    /\ pc = "idle"
    /\ penalties' = p /\ min_p' = min
    /\ IF NeedHistory(p, repeat_last_n)
       THEN /\ hist_cap' = repeat_last_n
            /\ history' = [i \in Slots(repeat_last_n) |->
                             IF i < hist_cap THEN history[i] ELSE Junk]
       ELSE hist_cap' = 0 /\ history' = <<>>
    /\ hist_len' = 0 /\ hist_pos' = 0
    /\ UNCHANGED <<filters, local>>

\* Mutant: the length is counted past the size of the ring.
AcceptedOverfull(t) ==
    IF hist_cap = 0 THEN UNCHANGED ring
    ELSE /\ history' = [history EXCEPT ![hist_pos] = t]
         /\ hist_pos' = (hist_pos + 1) % hist_cap
         /\ hist_len' = IF hist_len <= hist_cap THEN hist_len + 1 ELSE hist_len
         /\ UNCHANGED hist_cap

\* ember_sampler_accept
Accepted(t) ==
    IF hist_cap = 0 THEN UNCHANGED ring
    ELSE /\ history' = [history EXCEPT ![hist_pos] = t]
         /\ hist_pos' = (hist_pos + 1) % hist_cap
         /\ hist_len' = IF hist_len < hist_cap THEN hist_len + 1 ELSE hist_len
         /\ UNCHANGED hist_cap

\* A token of the prompt is put into the window.
Accept(t) == pc = "idle" /\ Accepted(t) /\ UNCHANGED <<settings, local>>

\* Mutant: the next token still goes where the last sequence ended.
ResetKeepsPos == /\ pc = "idle"
                 /\ hist_len' = 0
                 /\ UNCHANGED <<settings, history, hist_cap, hist_pos, local>>

\* ember_sampler_reset
Reset == /\ pc = "idle"
         /\ hist_len' = 0 /\ hist_pos' = 0
         /\ UNCHANGED <<settings, history, hist_cap, local>>

\* ember_sampler_free
Free == /\ pc = "idle"
        /\ history' = <<>> /\ hist_cap' = 0 /\ hist_len' = 0 /\ hist_pos' = 0
        /\ UNCHANGED <<settings, local>>

-----------------------------------------------------------------------------
(* apply_penalties *)

\* The repetition penalty on one logit.
Discourage(x) == IF x > 0 THEN x \div penalties.repeat ELSE x * penalties.repeat

\* Mutant: every occurrence counts as the first.
FirstAtAlways(i) == TRUE

\* Slot i holds a token that no slot before it holds.
FirstAt(i) == \A j \in Slots(i) : history[j] # history[i]

\* What slot i of the ring does to the logit x of its token.
Penalise(x, i) ==
    (IF FirstAt(i) THEN Discourage(x) - penalties.presence ELSE x) - penalties.frequency

\* The logits after slots 0 .. k-1 were scanned; ids outside the vocabulary are
\* passed over.
Scan(raw) ==
    LET scanned[k \in 0 .. hist_len] ==
          IF k = 0 THEN raw
          ELSE LET t == history[k - 1] IN
               IF t \in Vocab
               THEN [scanned[k - 1] EXCEPT ![t] = Penalise(@, k - 1)]
               ELSE scanned[k - 1]
    IN scanned[hist_len]

ApplyPenalties(raw) == IF hist_cap = 0 THEN raw ELSE Scan(raw)

\* argmax: the first of the largest logits.
Argmax(v) == CHOOSE t \in Vocab :
                \A u \in Vocab : v[u] < v[t] \/ (v[u] = v[t] /\ t <= u)

\* ember_sample at temperature 0: raw logits in, the token out, and the token
\* enters the window.
SampleGreedy(raw) ==
    /\ pc = "idle"
    /\ filters.temperature = 0
    /\ Accepted(Argmax(ApplyPenalties(raw)))
    /\ UNCHANGED <<settings, local>>

Softmax(v) ==
    LET Drop(t) == v[Argmax(v)] - v[t] IN
    [t \in Vocab |-> IF Drop(t) > MaxDrop THEN 0 ELSE Exp(filters.temperature, Drop(t))]

\* Mutant: the filters see the weights of the raw logits.
SoftmaxFirst(raw) ==
    /\ pc = "idle"
    /\ filters.temperature > 0
    /\ prob' = Softmax(ApplyPenalties(raw))
    /\ \E cand \in Ranked(Softmax(raw)) :
          kept' = Cut(prob', filters.top_k, min_p, filters.top_p, cand)
    /\ pc' = "draw"
    /\ UNCHANGED <<settings, ring>>

\* At a temperature: penalties, softmax, sort and filters, lines 121-163.
Truncate(raw) ==
    /\ pc = "idle"
    /\ filters.temperature > 0
    /\ prob' = Softmax(ApplyPenalties(raw))
    /\ \E cand \in Ranked(prob') :
          kept' = Cut(prob', filters.top_k, min_p, filters.top_p, cand)
    /\ pc' = "draw"
    /\ UNCHANGED <<settings, ring>>

\* Lines 165-174: t is drawn, and enters the window.
Draw(t) ==
    /\ pc = "draw"
    /\ t \in Drawn(prob, kept)
    /\ Accepted(t)
    /\ pc' = "idle" /\ prob' = <<>> /\ kept' = <<>>
    /\ UNCHANGED settings

Next == \/ \E p \in Penalties, n \in 0 .. MaxWindow, min \in MinPs : SetPenalties(p, n, min)
        \/ \E t \in Token : Accept(t)
        \/ Reset \/ Free
        \/ \E raw \in [Vocab -> Logits] : SampleGreedy(raw) \/ Truncate(raw)
        \/ \E t \in Vocab : Draw(t)

Spec == Init /\ [][Next]_vars

-----------------------------------------------------------------------------
(* Properties *)

\* The valid entries always occupy history[0 .. hist_len) (sample.c:71-75): the
\* ring only wraps once it is full, no index leaves it, and the scan never reads
\* a slot that was not written since the ring was set up.
PrefixIsValid ==
    /\ DOMAIN history = Slots(hist_cap)
    /\ hist_len \in 0 .. hist_cap
    /\ hist_pos \in Slots(hist_cap) \cup {0}
    /\ hist_len < hist_cap => hist_pos = hist_len
    /\ \A i \in Slots(hist_len) : history[i] \in Token

\* The tokens in the ring, oldest first.
Window == [k \in 1 .. hist_len |-> history[(hist_pos - hist_len + k - 1) % hist_cap]]

Remembered == INSTANCE PenaltyWindow WITH size <- hist_cap, window <- Window

\* The ring is the last hist_cap tokens emitted.
RingIsWindow == Remembered!Spec

\* How often t is among the remembered tokens.
Count(t) == Cardinality({k \in DOMAIN Window : Window[k] = t})

\* The reference definition of the penalties: repetition and presence once for
\* a token of the window, frequency once for each time it occurs.
Reference(raw) ==
    [t \in Vocab |->
       IF Count(t) = 0 THEN raw[t]
       ELSE Discourage(raw[t]) - penalties.presence - Count(t) * penalties.frequency]

\* Whatever slot the ring starts at, the scan from slot 0 gives the penalties of
\* the window: what comes first in the ring does not matter.
PenaltiesFollowWindow ==
    pc = "idle" => \A raw \in [Vocab -> Logits] : ApplyPenalties(raw) = Reference(raw)

TokensIn(s) == {s[k] : k \in DOMAIN s}
MassOf(S) == Mass(prob, SetToSeq(S))
Likelier(t) == {u \in Vocab : prob[u] > prob[t]}

\* The filters cut the tail and nothing else: what is dropped is nowhere
\* likelier than what is kept, something and no more than top_k is kept, and the
\* kept mass reaches top_p of everything when top_p alone cut it.
KeptIsHead ==
    pc = "draw" =>
        /\ kept # <<>>
        /\ \A t \in TokensIn(kept), u \in Vocab \ TokensIn(kept) : prob[t] >= prob[u]
        /\ filters.top_k > 0 => Len(kept) <= filters.top_k
        /\ filters.top_k \notin 1 .. N - 1 /\ min_p \in {0, 100} /\ filters.top_p > 0 =>
              100 * MassOf(TokensIn(kept)) >= filters.top_p * MassOf(Vocab)

\* The token a draw puts into the window passes every filter: fewer than top_k
\* tokens are likelier, it has min_p of the peak, and the likelier ones alone do
\* not reach top_p.
DrawPasses ==
    [][\A t \in Vocab : Draw(t) =>
         /\ filters.top_k > 0 => Cardinality(Likelier(t)) < filters.top_k
         /\ 0 < min_p /\ min_p < 100 =>
               \A u \in Vocab : 100 * prob[t] >= min_p * prob[u]
         /\ 0 < filters.top_p /\ filters.top_p < 100 =>
               100 * MassOf(Likelier(t)) < filters.top_p * MassOf(Vocab)]_vars
=============================================================================
