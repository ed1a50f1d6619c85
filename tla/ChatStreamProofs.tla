-------------------------- MODULE ChatStreamProofs --------------------------
(***************************************************************************)
(* Proofs about ChatStream, for every vocabulary, every set of stop        *)
(* strings and every size of the context.                                  *)
(***************************************************************************)
EXTENDS ChatStream, SequenceTheorems, TLAPS

-----------------------------------------------------------------------------
(* Texts and the stop strings in them. *)

\* What a cut text is made of.
LEMMA BytesProperties ==
  ASSUME NEW T, NEW text \in Seq(T), NEW from \in Nat, NEW to \in from .. Len(text)
  PROVE  /\ Bytes(text, from, to) \in Seq(T)
         /\ Len(Bytes(text, from, to)) = to - from
         /\ \A j \in 1 .. to - from : Bytes(text, from, to)[j] = text[from + j]
  <1>1. \A j \in from + 1 .. to : text[j] \in T
    BY ElementOfSeq
  <1> QED
    BY <1>1 DEF Bytes

\* Sending [from, to) after [0, from) makes [0, to).
LEMMA BytesConcat ==
  ASSUME NEW T, NEW text \in Seq(T), NEW from \in Nat, NEW to \in from .. Len(text)
  PROVE  Bytes(text, 0, from) \o Bytes(text, from, to) = Bytes(text, 0, to)
  <1> DEFINE a == Bytes(text, 0, from)
             b == Bytes(text, from, to)
             c == Bytes(text, 0, to)
  <1>0. Len(text) \in Nat /\ from \in 0 .. Len(text) /\ to \in 0 .. Len(text) /\ to \in Nat
    OBVIOUS
  <1>1. /\ a \in Seq(T) /\ Len(a) = from
        /\ \A j \in 1 .. from : a[j] = text[j]
    <2>1. /\ a \in Seq(T) /\ Len(a) = from - 0
          /\ \A j \in 1 .. from - 0 : a[j] = text[0 + j]
      BY <1>0, BytesProperties
    <2> QED
      BY <1>0, <2>1
  <1>2. /\ b \in Seq(T) /\ Len(b) = to - from
        /\ \A j \in 1 .. to - from : b[j] = text[from + j]
    BY BytesProperties
  <1>3. /\ c \in Seq(T) /\ Len(c) = to
        /\ \A j \in 1 .. to : c[j] = text[j]
    <2>1. /\ c \in Seq(T) /\ Len(c) = to - 0
          /\ \A j \in 1 .. to - 0 : c[j] = text[0 + j]
      BY <1>0, BytesProperties
    <2> QED
      BY <1>0, <2>1
  <1> HIDE DEF a, b, c
  <1>4. /\ a \o b \in Seq(T) /\ Len(a \o b) = to
        /\ \A j \in 1 .. to : (a \o b)[j] = IF j <= from THEN a[j] ELSE b[j - from]
    <2>1. /\ a \o b \in Seq(T) /\ Len(a \o b) = Len(a) + Len(b)
          /\ \A j \in 1 .. Len(a) + Len(b) :
                (a \o b)[j] = IF j <= Len(a) THEN a[j] ELSE b[j - Len(a)]
      BY ONLY <1>1, <1>2, ConcatProperties
    <2>2. Len(a) + Len(b) = to
      BY <1>0, <1>1, <1>2
    <2> QED
      BY <1>1, <2>1, <2>2
  <1>5. \A j \in 1 .. to : (a \o b)[j] = c[j]
    <2> SUFFICES ASSUME NEW j \in 1 .. to PROVE (a \o b)[j] = text[j]
      BY <1>3
    <2>1. CASE j <= from
      BY <1>1, <1>4, <2>1
    <2>2. CASE ~(j <= from)
      <3>1. j - from \in 1 .. to - from /\ from + (j - from) = j
        BY <1>0, <2>2
      <3> QED
        BY <1>0, <1>2, <1>4, <2>2, <3>1
    <2> QED
      BY <2>1, <2>2
  <1>6. a \o b = c
    BY <1>3, <1>4, <1>5, SeqEqual
  <1> QED
    BY <1>6 DEF a, b, c

\* A prefix of a text is a prefix of the text made longer, or cut after it.
LEMMA BytesPrefix ==
  ASSUME NEW T, NEW text \in Seq(T), NEW longer \in Seq(T), NEW to \in Nat,
         to <= Len(text), to <= Len(longer),
         \A j \in 1 .. to : longer[j] = text[j]
  PROVE  Bytes(longer, 0, to) = Bytes(text, 0, to)
  <1> DEFINE a == Bytes(longer, 0, to)
             b == Bytes(text, 0, to)
  <1>0. to \in 0 .. Len(longer) /\ to \in 0 .. Len(text)
    OBVIOUS
  <1>1. a \in Seq(T) /\ Len(a) = to /\ \A j \in 1 .. to : a[j] = longer[j]
    <2>1. /\ a \in Seq(T) /\ Len(a) = to - 0
          /\ \A j \in 1 .. to - 0 : a[j] = longer[0 + j]
      BY <1>0, BytesProperties
    <2> QED
      BY <2>1
  <1>2. b \in Seq(T) /\ Len(b) = to /\ \A j \in 1 .. to : b[j] = text[j]
    <2>1. /\ b \in Seq(T) /\ Len(b) = to - 0
          /\ \A j \in 1 .. to - 0 : b[j] = text[0 + j]
      BY <1>0, BytesProperties
    <2> QED
      BY <2>1
  <1> HIDE DEF a, b
  <1>3. a = b
    BY <1>1, <1>2, SeqEqual
  <1> QED
    BY <1>3 DEF a, b

\* A stop string found in a prefix of a text is found in the text.
LEMMA OccursInLonger ==
  ASSUME NEW T, NEW text \in Seq(T), NEW prefix \in Seq(T), NEW s \in Seq(T),
         NEW p \in Nat, Len(prefix) <= Len(text),
         \A j \in 1 .. Len(prefix) : prefix[j] = text[j]
  PROVE  p + Len(s) <= Len(prefix) =>
           (Occurs(text, s, p) <=> Occurs(prefix, s, p))
  <1> SUFFICES ASSUME p + Len(s) <= Len(prefix)
               PROVE  Occurs(text, s, p) <=> Occurs(prefix, s, p)
    OBVIOUS
  <1>1. \A j \in 1 .. Len(s) : prefix[p + j] = text[p + j]
    OBVIOUS
  <1> QED
    BY <1>1 DEF Occurs

-----------------------------------------------------------------------------
(* The inductive invariant. *)

\* The initial state satisfies the invariant.
LEMMA InitStreamInv == Init => StreamInv
  <1> SUFFICES ASSUME Init PROVE StreamInv
    OBVIOUS
  <1>1. out = <<>> /\ got = <<>> /\ out \in Seq(Byte) /\ got \in Seq(Byte) /\ Len(out) = 0
    BY EmptySeq DEF Init
  <1>2. TypeOK
    <2>1. stream \in BOOLEAN /\ broken \in BOOLEAN /\ connected \in BOOLEAN
      BY DEF Init
    <2>2. /\ max_tok \in 0 .. MaxTokens /\ n_prompt \in 0 .. Ctx
          /\ hold \in Nat /\ streamed \in Nat /\ i \in Nat
          /\ completion_tokens \in Nat /\ kv \in Nat
      BY BoundsAssumption DEF Init
    <2>3. stops \in SUBSET Seq(Byte) /\ finish \in {"length", "stop"}
      BY DEF Init
    <2>4. pc \in {"idle", "prefill", "loop", "send", "sendTail", "flush"}
          /\ reply \in {"none", "error", "body", "done"}
      BY DEF Init
    <2> QED
      BY <1>1, <2>1, <2>2, <2>3, <2>4 DEF TypeOK
  <1>3. HoldCovers /\ ReplyHoldsNoStop
    BY DEF Init, HoldCovers, ReplyHoldsNoStop, HasStop
  <1>4. TailHeldBack /\ NoEmptyStopSent /\ NothingToTakeBack
    BY <1>1 DEF Init, TailHeldBack, Decoding, NoEmptyStopSent, NothingToTakeBack
  <1>5. DeltasSpellPrefix
    BY DEF Init, DeltasSpellPrefix
  <1> QED
    BY <1>2, <1>3, <1>4, <1>5 DEF StreamInv

\* A longer text agrees with the old one up to its end.
LEMMA Appended ==
  ASSUME StreamInv, NEW piece \in Pieces
  PROVE  /\ out \o piece \in Seq(Byte) /\ Len(out) \in Nat
         /\ Len(out) <= Len(out \o piece)
         /\ \A j \in 1 .. Len(out) : (out \o piece)[j] = out[j]
  <1>1. out \in Seq(Byte) /\ piece \in Seq(Byte)
    BY PiecesAssumption DEF StreamInv, TypeOK
  <1> QED
    BY <1>1, ConcatProperties

\* The hold-back is enough: a stop string that a new token completes begins at
\* or after the first byte that was not sent.
LEMMA StopIsUnsent ==
  ASSUME StreamInv, pc = "loop", NEW piece \in Pieces,
         NEW p \in StopsAt(out \o piece)
  PROVE  streamed <= p
  <1> DEFINE text == out \o piece
  <1>1. /\ text \in Seq(Byte) /\ out \in Seq(Byte)
        /\ Len(out) \in Nat /\ Len(text) \in Nat /\ Len(out) <= Len(text)
        /\ \A j \in 1 .. Len(out) : out[j] = text[j]
    BY Appended DEF StreamInv, TypeOK
  <1>2. PICK s \in stops : Occurs(text, s, p)
    BY DEF StopsAt
  <1>3. p \in Nat /\ s \in Seq(Byte) /\ Len(s) \in Nat
    BY DEF StopsAt, StreamInv, TypeOK
  <1>4. streamed \in Nat /\ hold \in Nat /\ Len(s) <= hold + 1
    BY DEF StreamInv, TypeOK, HoldCovers
  <1> HIDE DEF text
  <1>5. CASE streamed = 0
    BY <1>3, <1>5
  <1>6. CASE streamed + hold <= Len(out) /\ Len(s) > 0
    <2> SUFFICES ASSUME p < streamed PROVE FALSE
      BY <1>3, <1>4
    <2>1. p + Len(s) <= Len(out)
      BY <1>1, <1>3, <1>4, <1>6
    <2>2. Occurs(out, s, p)
      BY <1>1, <1>2, <1>3, <2>1, OccursInLonger
    <2>3. p \in 0 .. Len(out)
      BY <1>1, <1>3, <2>1
    <2> QED
      BY <1>6, <2>2, <2>3 DEF StreamInv, ReplyHoldsNoStop, HasStop
  <1> QED
    BY <1>5, <1>6 DEF StreamInv, TailHeldBack, Decoding

\* No stop string is in a text that is cut where the earliest one begins.
LEMMA CutHoldsNoStop ==
  ASSUME StreamInv, NEW text \in Seq(Byte), NEW sp \in EarliestStop(text)
  PROVE  ~HasStop(Bytes(text, 0, sp))
  <1> DEFINE cut == Bytes(text, 0, sp)
  <1>1. sp \in 0 .. Len(text) /\ \A q \in StopsAt(text) : sp <= q
    BY DEF EarliestStop, StopsAt
  <1>2. cut \in Seq(Byte) /\ Len(cut) = sp /\ \A j \in 1 .. sp : cut[j] = text[j]
    <2>1. /\ cut \in Seq(Byte) /\ Len(cut) = sp - 0
          /\ \A j \in 1 .. sp - 0 : cut[j] = text[0 + j]
      BY <1>1, BytesProperties
    <2> QED
      BY <1>1, <2>1
  <1> HIDE DEF cut
  <1> SUFFICES ASSUME NEW s \in stops, Len(s) > 0, NEW p \in 0 .. Len(cut), Occurs(cut, s, p)
               PROVE  FALSE
    BY DEF HasStop, cut
  <1>3. s \in Seq(Byte) /\ Len(s) \in Nat
    BY DEF StreamInv, TypeOK
  <1>4. p \in Nat /\ p + Len(s) <= Len(cut) /\ Len(cut) <= Len(text)
    BY <1>1, <1>2 DEF Occurs
  <1>5. Occurs(text, s, p)
    BY <1>2, <1>3, <1>4, OccursInLonger
  <1>6. p \in StopsAt(text)
    BY <1>1, <1>2, <1>3, <1>4, <1>5 DEF StopsAt
  <1> QED
    BY <1>1, <1>2, <1>3, <1>4, <1>6

\* Text that holds a stop string has a place where one begins.
LEMMA NoStopsAt ==
  ASSUME NEW text, StopsAt(text) = {}
  PROVE  ~HasStop(text) /\ (text \in Seq(Byte) => \A s \in stops : s \in Seq(Byte) => Len(s) > 0)
  <1>1. ~HasStop(text)
    BY DEF HasStop, StopsAt
  <1>2. ASSUME text \in Seq(Byte), NEW s \in stops, s \in Seq(Byte), ~(Len(s) > 0)
        PROVE  FALSE
    <2>1. Len(s) = 0 /\ Len(text) \in Nat
      BY <1>2
    <2>2. Occurs(text, s, 0)
      BY <2>1 DEF Occurs
    <2> QED
      BY <2>1, <2>2 DEF StopsAt
  <1> QED
    BY <1>1, <1>2

\* Beginning a request.
LEMMA AcceptStep == StreamInv /\ Accept => StreamInv'
  <1> SUFFICES ASSUME StreamInv, Accept PROVE StreamInv'
    OBVIOUS
  <1> USE DEF client
  <1>1. /\ out' = <<>> /\ got' = <<>> /\ out' \in Seq(Byte) /\ got' \in Seq(Byte)
        /\ Len(out') = 0 /\ streamed' = 0 /\ pc' = "prefill"
    BY EmptySeq DEF Accept
  <1>2. PICK sl \in StopLists, max_stop \in 0 .. MaxStop :
           /\ \A s \in sl : Len(s) <= max_stop
           /\ stops' = sl /\ hold' = Hold(max_stop)
    BY DEF Accept
  <1>3. stops' \in SUBSET Seq(Byte) /\ hold' \in Nat
    BY <1>2, StopsAssumption DEF Hold
  <1>4. TypeOK'
    <2>1. stream' \in BOOLEAN /\ broken' \in BOOLEAN /\ connected' \in BOOLEAN
      BY DEF Accept
    <2>2. /\ max_tok' \in 0 .. MaxTokens /\ n_prompt' \in 0 .. Ctx
          /\ i' \in Nat /\ completion_tokens' \in Nat /\ kv' \in Nat
      BY BoundsAssumption DEF Accept, StreamInv, TypeOK
    <2>3. finish' \in {"length", "stop"} /\ reply' \in {"none", "error", "body", "done"}
      BY DEF Accept
    <2> QED
      BY <1>1, <1>3, <2>1, <2>2, <2>3 DEF TypeOK
  <1>5. HoldCovers'
    <2> SUFFICES ASSUME NEW s \in stops' PROVE Len(s) <= hold' + 1
      BY DEF HoldCovers
    <2>1. s \in Seq(Byte) /\ Len(s) \in Nat
      BY <1>3
    <2> QED
      BY <1>2, <2>1 DEF Hold
  <1>6. ReplyHoldsNoStop'
    <2> SUFFICES ASSUME NEW s \in stops', Len(s) > 0, NEW p \in 0 .. 0, Occurs(<<>>, s, p)
                 PROVE  FALSE
      BY <1>1 DEF ReplyHoldsNoStop, HasStop
    <2>1. Len(s) \in Nat /\ p = 0
      BY <1>3
    <2> QED
      BY <1>1, <2>1 DEF Occurs
  <1>7. TailHeldBack' /\ NoEmptyStopSent' /\ NothingToTakeBack'
    BY <1>1 DEF TailHeldBack, Decoding, NoEmptyStopSent, NothingToTakeBack
  <1>8. DeltasSpellPrefix'
    BY <1>1 DEF DeltasSpellPrefix, Bytes
  <1> QED
    BY <1>4, <1>5, <1>6, <1>7, <1>8 DEF StreamInv

\* A token that completes no stop string.
LEMMA SampleTokenStep ==
  ASSUME StreamInv, NEW piece \in Pieces, SampleToken(piece)
  PROVE  StreamInv'
  <1> USE DEF request, client
  <1>1. /\ pc = "loop" /\ pc' = "send" /\ out' = out \o piece /\ StopsAt(out') = {}
        /\ UNCHANGED <<request, hold, streamed, i, finish, kv, broken, connected, client>>
        /\ completion_tokens' = completion_tokens + 1
    BY DEF SampleToken, CanSample
  <1>2. /\ out' \in Seq(Byte) /\ Len(out) \in Nat /\ Len(out') \in Nat
        /\ Len(out) <= Len(out') /\ \A j \in 1 .. Len(out) : out'[j] = out[j]
    BY <1>1, Appended
  <1>3. TypeOK'
    BY <1>1, <1>2 DEF StreamInv, TypeOK
  <1>4. ReplyHoldsNoStop' /\ NoEmptyStopSent'
    <2>1. /\ ~HasStop(out')
          /\ \A s \in stops : s \in Seq(Byte) => Len(s) > 0
      BY <1>1, <1>2, NoStopsAt
    <2> QED
      BY <1>1, <2>1 DEF ReplyHoldsNoStop, HasStop, NoEmptyStopSent, StreamInv, TypeOK
  <1>5. HoldCovers'
    BY <1>1 DEF StreamInv, HoldCovers
  <1>6. TailHeldBack' /\ NothingToTakeBack'
    BY <1>1, <1>2 DEF StreamInv, TypeOK, TailHeldBack, Decoding, NothingToTakeBack
  <1>7. DeltasSpellPrefix'
    <2>1. streamed \in Nat /\ streamed <= Len(out)
      BY DEF StreamInv, TypeOK, NothingToTakeBack
    <2>2. Bytes(out', 0, streamed) = Bytes(out, 0, streamed)
      BY <1>2, <2>1, BytesPrefix DEF StreamInv, TypeOK
    <2> QED
      BY <1>1, <2>2 DEF StreamInv, DeltasSpellPrefix
  <1> QED
    BY <1>3, <1>4, <1>5, <1>6, <1>7 DEF StreamInv

\* A token that completes one.
LEMMA SampleStopStep ==
  ASSUME StreamInv, NEW piece \in Pieces, SampleStop(piece)
  PROVE  StreamInv'
  <1> USE DEF request, client
  <1> DEFINE text == out \o piece
  <1>1. PICK sp \in EarliestStop(text) :
           /\ out' = Bytes(text, 0, sp)
           /\ pc' = IF stream /\ sp > streamed THEN "sendTail" ELSE "flush"
    BY DEF SampleStop
  <1>2. /\ pc = "loop" /\ finish' = "stop" /\ completion_tokens' = completion_tokens + 1
        /\ UNCHANGED <<request, hold, streamed, i, kv, broken, connected, client>>
    BY DEF SampleStop, CanSample
  <1>3. /\ text \in Seq(Byte) /\ Len(out) \in Nat /\ Len(text) \in Nat
        /\ Len(out) <= Len(text) /\ \A j \in 1 .. Len(out) : text[j] = out[j]
    BY Appended
  <1>4. sp \in StopsAt(text) /\ sp \in 0 .. Len(text)
    BY DEF EarliestStop, StopsAt
  <1>5. streamed <= sp /\ streamed \in Nat /\ streamed <= Len(out)
    BY <1>2, <1>4, StopIsUnsent DEF StreamInv, TypeOK, NothingToTakeBack
  <1>6. ~HasStop(out')
    BY <1>1, <1>3, CutHoldsNoStop
  <1> HIDE DEF text
  <1>7. /\ out' \in Seq(Byte) /\ Len(out') = sp
        /\ \A j \in 1 .. sp : out'[j] = text[j]
    <2>1. /\ Bytes(text, 0, sp) \in Seq(Byte) /\ Len(Bytes(text, 0, sp)) = sp - 0
          /\ \A j \in 1 .. sp - 0 : Bytes(text, 0, sp)[j] = text[0 + j]
      BY <1>3, <1>4, BytesProperties
    <2> QED
      BY <1>1, <1>4, <2>1
  <1>8. TypeOK'
    BY <1>1, <1>2, <1>7 DEF StreamInv, TypeOK
  <1>9. HoldCovers' /\ NoEmptyStopSent' /\ TailHeldBack'
    BY <1>1, <1>2 DEF StreamInv, HoldCovers, NoEmptyStopSent, TailHeldBack, Decoding
  <1>10. ReplyHoldsNoStop'
    BY <1>2, <1>6 DEF ReplyHoldsNoStop, HasStop
  <1>11. NothingToTakeBack'
    BY <1>2, <1>5, <1>7 DEF NothingToTakeBack
  <1>12. DeltasSpellPrefix'
    <2>1. \A j \in 1 .. streamed : out'[j] = out[j]
      BY <1>3, <1>4, <1>5, <1>7
    <2>2. Bytes(out', 0, streamed) = Bytes(out, 0, streamed)
      BY <1>4, <1>5, <1>7, <2>1, BytesPrefix DEF StreamInv, TypeOK
    <2> QED
      BY <1>2, <2>2 DEF StreamInv, DeltasSpellPrefix
  <1> QED
    BY <1>8, <1>9, <1>10, <1>11, <1>12 DEF StreamInv

\* What the client receives is a text.
LEMMA ReceivedIsText ==
  ASSUME StreamInv, NEW from \in Nat, NEW to \in from .. Len(out)
  PROVE  got \o Bytes(out, from, to) \in Seq(Byte)
  <1>1. out \in Seq(Byte) /\ got \in Seq(Byte)
    BY DEF StreamInv, TypeOK
  <1>2. Bytes(out, from, to) \in Seq(Byte)
    BY <1>1, BytesProperties
  <1> QED
    BY <1>1, <1>2, ConcatProperties

\* The chunk the loop sends moves streamed up to hold bytes before the end.
LEMMA SendSafeStep == StreamInv /\ SendSafe => StreamInv'
  <1> SUFFICES ASSUME StreamInv, SendSafe PROVE StreamInv'
    OBVIOUS
  <1> USE DEF request, client
  <1>1. /\ pc = "send" /\ pc' = "loop" /\ kv' = n_prompt + i + 1 /\ i' = i + 1
        /\ UNCHANGED <<request, hold, out, completion_tokens, finish, broken, reply, connected>>
    BY DEF SendSafe, SendOk
  <1>2. /\ out \in Seq(Byte) /\ got \in Seq(Byte) /\ Len(out) \in Nat
        /\ streamed \in Nat /\ hold \in Nat /\ streamed <= Len(out)
        /\ n_prompt \in Nat /\ i \in Nat
    BY DEF StreamInv, TypeOK, NothingToTakeBack
  <1>3. \A s \in stops : Len(s) > 0
    BY <1>1 DEF StreamInv, NoEmptyStopSent
  <1>4. HoldCovers' /\ ReplyHoldsNoStop' /\ NoEmptyStopSent'
    BY <1>1 DEF StreamInv, HoldCovers, ReplyHoldsNoStop, HasStop, NoEmptyStopSent
  <1>5. CASE stream /\ Safe > streamed
    <2>1. /\ streamed' = Safe
          /\ got' = IF connected THEN got \o Bytes(out, streamed, Safe) ELSE got
      BY <1>5 DEF SendSafe, SendOk
    <2>2. Safe \in Nat /\ Safe \in streamed .. Len(out)
      BY <1>2, <1>5 DEF Safe
    <2>3. got' \in Seq(Byte)
      BY <1>2, <2>1, <2>2, ReceivedIsText
    <2>4. TypeOK'
      BY <1>1, <1>2, <2>1, <2>2, <2>3 DEF StreamInv, TypeOK
    <2>5. TailHeldBack' /\ NothingToTakeBack'
      BY <1>1, <1>2, <1>3, <2>1 DEF TailHeldBack, NothingToTakeBack, Safe
    <2>6. DeltasSpellPrefix'
      <3> SUFFICES ASSUME connected PROVE got' = Bytes(out, 0, Safe)
        BY <1>1, <2>1 DEF DeltasSpellPrefix
      <3>1. got = Bytes(out, 0, streamed)
        BY <1>1, <1>5 DEF StreamInv, DeltasSpellPrefix
      <3>2. Bytes(out, 0, streamed) \o Bytes(out, streamed, Safe) = Bytes(out, 0, Safe)
        BY <1>2, <2>2, BytesConcat
      <3> QED
        BY <2>1, <3>1, <3>2
    <2> QED
      BY <1>4, <2>4, <2>5, <2>6 DEF StreamInv
  <1>6. CASE ~(stream /\ Safe > streamed)
    <2>1. UNCHANGED <<streamed, got>>
      BY <1>6 DEF SendSafe
    <2>2. TypeOK'
      BY <1>1, <1>2, <2>1 DEF StreamInv, TypeOK
    <2>3. TailHeldBack' /\ NothingToTakeBack' /\ DeltasSpellPrefix'
      BY <1>1, <2>1
         DEF StreamInv, TailHeldBack, Decoding, NothingToTakeBack, DeltasSpellPrefix
    <2> QED
      BY <1>4, <2>2, <2>3 DEF StreamInv
  <1> QED
    BY <1>5, <1>6

\* The sends after the text is final, and those that fail, change neither the
\* text nor streamed; the loop is over.
LEMMA LastSendsStep ==
  ASSUME StreamInv,
         SendTail \/ SendSafeFails \/ FlushStream \/ Abandon \/ Respond
  PROVE  StreamInv'
  <1> USE DEF request, client, decoder
  <1>1. /\ pc' \in {"flush", "idle"} /\ UNCHANGED <<request, decoder>>
        /\ broken' \in BOOLEAN /\ UNCHANGED connected
    BY DEF SendTail, SendSafeFails, FlushStream, Abandon, Respond, SendOk,
           SendFails, SendLast, StreamInv, TypeOK
  <1>2. /\ out \in Seq(Byte) /\ got \in Seq(Byte) /\ Len(out) \in Nat
        /\ streamed \in Nat /\ streamed <= Len(out)
    BY DEF StreamInv, TypeOK, NothingToTakeBack
  <1>3. got' \in Seq(Byte) /\ reply' \in {"none", "error", "body", "done"}
    <2>1. reply' \in {"none", "error", "body", "done"}
      BY DEF SendTail, SendSafeFails, FlushStream, Abandon, Respond, SendOk,
             SendFails, SendLast, StreamInv, TypeOK
    <2>2. got \o Bytes(out, streamed, Len(out)) \in Seq(Byte)
      BY <1>2, ReceivedIsText
    <2>3. got \o out \in Seq(Byte)
      BY <1>2, ConcatProperties
    <2>4. got \o <<>> \in Seq(Byte)
      BY <1>2, EmptySeq, ConcatProperties
    <2>5. \/ got' = got
          \/ got' = got \o Bytes(out, streamed, Len(out))
          \/ got' = got \o out
          \/ got' = got \o <<>>
      BY DEF SendTail, SendSafeFails, FlushStream, Abandon, Respond, SendOk,
             SendFails, SendLast
    <2> QED
      BY <1>2, <2>1, <2>2, <2>3, <2>4, <2>5
  <1>4. TypeOK'
    BY <1>1, <1>3 DEF StreamInv, TypeOK
  <1>5. /\ HoldCovers' /\ ReplyHoldsNoStop' /\ NoEmptyStopSent' /\ TailHeldBack'
        /\ NothingToTakeBack' /\ DeltasSpellPrefix'
    BY <1>1 DEF StreamInv, HoldCovers, ReplyHoldsNoStop, HasStop, NoEmptyStopSent,
                TailHeldBack, Decoding, NothingToTakeBack, DeltasSpellPrefix
  <1> QED
    BY <1>4, <1>5 DEF StreamInv

\* The steps that touch neither the text nor what was sent of it.
LEMMA OtherStep ==
  ASSUME StreamInv, Prefill \/ LoopEnds \/ SampleEos \/ HangUp
  PROVE  StreamInv'
  <1> USE DEF request, client, decoder
  <1>1. /\ UNCHANGED <<request, hold, out, streamed, i, completion_tokens, got, reply, broken>>
        /\ \/ pc' = pc
           \/ pc = "prefill" /\ pc' = "loop"
           \/ pc = "loop" /\ pc' = "flush"
        /\ connected' \in {connected, FALSE}
        /\ kv' \in {kv, n_prompt} /\ finish' \in {finish, "length", "stop"}
    BY DEF Prefill, LoopEnds, SampleEos, CanSample, HangUp
  <1>2. TypeOK'
    <2>1. kv' \in Nat
      <3>1. kv \in Nat /\ n_prompt \in Nat
        BY BoundsAssumption DEF StreamInv, TypeOK
      <3> QED
        BY <1>1, <3>1
    <2>4. connected' \in BOOLEAN
      <3>1. connected \in BOOLEAN
        BY DEF StreamInv, TypeOK
      <3> QED
        BY <1>1, <3>1
    <2>2. pc' \in {"idle", "prefill", "loop", "send", "sendTail", "flush"}
      BY <1>1 DEF StreamInv, TypeOK
    <2>3. finish' \in {"length", "stop"}
      BY <1>1 DEF StreamInv, TypeOK
    <2> QED
      BY <1>1, <2>1, <2>2, <2>3, <2>4 DEF StreamInv, TypeOK
  <1>3. /\ HoldCovers' /\ ReplyHoldsNoStop' /\ NoEmptyStopSent' /\ TailHeldBack'
        /\ NothingToTakeBack'
    BY <1>1 DEF StreamInv, HoldCovers, ReplyHoldsNoStop, HasStop, NoEmptyStopSent,
                TailHeldBack, Decoding, NothingToTakeBack
  <1>4. DeltasSpellPrefix'
    BY <1>1 DEF StreamInv, DeltasSpellPrefix
  <1> QED
    BY <1>2, <1>3, <1>4 DEF StreamInv

\* Refusing a request leaves the last one as it was.
LEMMA RefuseStep == StreamInv /\ Refuse => StreamInv'
  <1> SUFFICES ASSUME StreamInv, Refuse PROVE StreamInv'
    OBVIOUS
  <1> USE DEF decoder
  <1>1. /\ pc = "idle" /\ n_prompt' \in 0 .. Ctx
        /\ connected' = TRUE /\ got' = <<>> /\ got' \in Seq(Byte) /\ reply' = "error"
        /\ UNCHANGED <<pc, stream, stops, max_tok, decoder, broken>>
    BY EmptySeq DEF Refuse
  <1>2. TypeOK'
    BY <1>1 DEF StreamInv, TypeOK
  <1>3. /\ HoldCovers' /\ ReplyHoldsNoStop' /\ NoEmptyStopSent' /\ TailHeldBack'
        /\ NothingToTakeBack' /\ DeltasSpellPrefix'
    BY <1>1 DEF StreamInv, HoldCovers, ReplyHoldsNoStop, HasStop, NoEmptyStopSent,
                TailHeldBack, Decoding, NothingToTakeBack, DeltasSpellPrefix
  <1> QED
    BY <1>2, <1>3 DEF StreamInv

-----------------------------------------------------------------------------
(* The theorems. *)

\* Every step of the handler and of the client preserves the invariant.
LEMMA NextStreamInv == StreamInv /\ [Next]_vars => StreamInv'
  <1> SUFFICES ASSUME StreamInv, [Next]_vars PROVE StreamInv'
    OBVIOUS
  <1>1. CASE Next
    BY <1>1, RefuseStep, AcceptStep, OtherStep, SampleTokenStep, SampleStopStep,
       SendSafeStep, LastSendsStep DEF Next, HandlerStep
  <1>2. CASE UNCHANGED vars
    BY <1>2 DEF vars, request, decoder, client, StreamInv, TypeOK, HoldCovers,
                ReplyHoldsNoStop, HasStop, NoEmptyStopSent, TailHeldBack,
                Decoding, NothingToTakeBack, DeltasSpellPrefix
  <1> QED
    BY <1>1, <1>2

\* The decoder always keeps the bytes that may still belong to a stop string.
THEOREM StreamInvariant == Spec => []StreamInv
  BY InitStreamInv, NextStreamInv, PTL DEF Spec

\* Holding back max_stop - 1 bytes is enough for every set of stop strings and
\* every way the tokens cut the text: nothing sent has to be taken back.
THEOREM HoldBackIsEnough == Spec => []NothingToTakeBack
  <1>1. StreamInv => NothingToTakeBack
    BY DEF StreamInv
  <1> QED
    BY <1>1, StreamInvariant, PTL

\* No stop string is ever part of the reply.
THEOREM StopIsCutOff == Spec => []ReplyHoldsNoStop
  <1>1. StreamInv => ReplyHoldsNoStop
    BY DEF StreamInv
  <1> QED
    BY <1>1, StreamInvariant, PTL

\* Until the loop ends, the deltas a connected client has are the text so far.
THEOREM DeltasAreThePrefix == Spec => []DeltasSpellPrefix
  <1>1. StreamInv => DeltasSpellPrefix
    BY DEF StreamInv
  <1> QED
    BY <1>1, StreamInvariant, PTL

-----------------------------------------------------------------------------
(* Positions in the context. *)

\* One more token is counted than forwarded between the sample and its
\* forward pass, and never one that has no position left.
CountInv ==
    /\ pc = "prefill" => i = 0
    /\ pc # "idle" =>
          /\ n_prompt + completion_tokens <= Ctx - 1 /\ completion_tokens <= max_tok
          /\ completion_tokens \in {i, i + 1}
    /\ pc \notin {"idle", "prefill"} => kv = n_prompt + i
    /\ pc \in {"prefill", "loop"} => completion_tokens = i
    /\ pc = "send" => completion_tokens = i + 1

LEMMA CountTypes ==
  ASSUME StreamInv
  PROVE  /\ n_prompt \in Int /\ Ctx \in Int /\ max_tok \in Int /\ i \in Int
         /\ completion_tokens \in Int /\ kv \in Int
  BY BoundsAssumption DEF StreamInv, TypeOK

LEMMA InitCountInv == Init => CountInv
  BY DEF Init, CountInv

\* The steps of the handler that count or forward a token.
LEMMA CountStep ==
  ASSUME StreamInv, CountInv,
         SendSafe \/ \E piece \in Pieces : SampleToken(piece) \/ SampleStop(piece)
  PROVE  CountInv'
  <1> USE CountTypes DEF CountInv
  <1>1. ASSUME NEW piece \in Pieces, SampleToken(piece) PROVE CountInv'
    BY <1>1 DEF SampleToken, CanSample, request
  <1>2. ASSUME NEW piece \in Pieces, SampleStop(piece) PROVE CountInv'
    <2>1. /\ pc = "loop" /\ i < max_tok /\ n_prompt + i < Ctx - 1
          /\ pc' \in {"sendTail", "flush"}
          /\ completion_tokens' = completion_tokens + 1
          /\ UNCHANGED <<max_tok, n_prompt, i, kv>>
      BY <1>2 DEF SampleStop, CanSample, request
    <2> QED
      BY <2>1
  <1>3. CASE SendSafe
    <2>1. /\ pc = "send" /\ pc' = "loop"
          /\ kv' = n_prompt + i + 1 /\ i' = i + 1
          /\ UNCHANGED <<max_tok, n_prompt, completion_tokens>>
      BY <1>3 DEF SendSafe, request
    <2> QED
      BY <2>1
  <1> QED
    BY <1>1, <1>2, <1>3

\* The other steps of the handler, and the client's.
LEMMA NoCountStep ==
  ASSUME StreamInv, CountInv,
         \/ Refuse \/ Accept \/ Prefill \/ LoopEnds \/ SampleEos \/ SendTail
         \/ SendSafeFails \/ FlushStream \/ Abandon \/ Respond \/ HangUp
  PROVE  CountInv'
  <1> USE CountTypes DEF CountInv, decoder, request
  <1>1. CASE Refuse
    BY <1>1 DEF Refuse
  <1>2. CASE Accept
    <2>1. /\ pc' = "prefill" /\ i' = 0 /\ completion_tokens' = 0
          /\ n_prompt' \in Int /\ n_prompt' < Ctx - 1 /\ max_tok' \in Nat
      BY <1>2, BoundsAssumption DEF Accept
    <2> QED
      BY <2>1
  <1>3. CASE Prefill
    BY <1>3 DEF Prefill
  <1>4. CASE LoopEnds \/ SampleEos
    <2>1. /\ pc = "loop" /\ pc' = "flush"
          /\ UNCHANGED <<max_tok, n_prompt, i, completion_tokens, kv>>
      BY <1>4 DEF LoopEnds, SampleEos, CanSample
    <2> QED
      BY <2>1
  <1>5. CASE SendTail \/ SendSafeFails
    <2>1. /\ pc # "idle" /\ pc # "prefill" /\ pc' = "flush"
          /\ UNCHANGED <<max_tok, n_prompt, i, completion_tokens, kv>>
      BY <1>5 DEF SendTail, SendSafeFails
    <2> QED
      BY <2>1
  <1>6. CASE FlushStream \/ Abandon \/ Respond
    <2>1. pc' = "idle"
      BY <1>6 DEF FlushStream, Abandon, Respond
    <2> QED
      BY <2>1
  <1>7. CASE HangUp
    BY <1>7 DEF HangUp
  <1> QED
    BY <1>1, <1>2, <1>3, <1>4, <1>5, <1>6, <1>7

\* Every step keeps the count.
LEMMA NextCountInv == StreamInv /\ CountInv /\ [Next]_vars => CountInv'
  <1> SUFFICES ASSUME StreamInv, CountInv, [Next]_vars PROVE CountInv'
    OBVIOUS
  <1>1. CASE Next
    BY <1>1, CountStep, NoCountStep DEF Next, HandlerStep
  <1>2. CASE UNCHANGED vars
    BY <1>2 DEF vars, request, decoder, CountInv
  <1> QED
    BY <1>1, <1>2

\* Prompt and reply always fit the context, for every context, every prompt
\* and every max_tokens: the last token that is sampled has a position left.
THEOREM ReplyFitsContext == Spec => []ContextBound
  <1>1. StreamInv /\ CountInv => ContextBound
    BY CountTypes DEF CountInv, ContextBound
  <1> QED
    BY <1>1, StreamInvariant, InitCountInv, NextCountInv, PTL DEF Spec

-----------------------------------------------------------------------------
(* The end of the reply. *)

\* Nothing of the reply is there before it is sent; when the loop ran out, what
\* was sent is still the first part of it.
ArriveInv ==
    /\ pc # "idle" /\ connected => ~broken
    /\ pc # "idle" => reply = "none"
    /\ pc # "idle" /\ ~stream => got = <<>>
    /\ pc = "sendTail" => stream /\ finish = "stop"
    /\ pc = "flush" /\ stream /\ connected /\ finish = "length" => got = Bytes(out, 0, streamed)
    /\ ReplyArrives

LEMMA InitArriveInv == Init => ArriveInv
  BY DEF Init, ArriveInv, ReplyArrives

\* The steps before the reply is known.
LEMMA DecodeArriveStep ==
  ASSUME StreamInv, ArriveInv,
         \/ Refuse \/ Accept \/ Prefill \/ LoopEnds \/ SampleEos
         \/ \E piece \in Pieces : SampleToken(piece) \/ SampleStop(piece)
  PROVE  ArriveInv'
  <1> USE DEF ArriveInv, ReplyArrives, request, decoder, client
  <1>1. CASE Refuse
    BY <1>1 DEF Refuse
  <1>2. CASE Accept
    BY <1>2 DEF Accept
  <1>3. CASE Prefill
    BY <1>3 DEF Prefill
  <1>4. CASE LoopEnds
    <2>1. /\ pc = "loop" /\ pc' = "flush" /\ finish' = "length"
          /\ UNCHANGED <<stream, out, streamed, broken, connected, got, reply>>
      BY <1>4 DEF LoopEnds
    <2>2. stream /\ connected => got = Bytes(out, 0, streamed)
      BY <2>1 DEF StreamInv, DeltasSpellPrefix
    <2> QED
      BY <2>1, <2>2
  <1>5. CASE SampleEos
    BY <1>5 DEF SampleEos, CanSample
  <1>6. ASSUME NEW piece \in Pieces, SampleToken(piece) PROVE ArriveInv'
    BY <1>6 DEF SampleToken, CanSample
  <1>7. ASSUME NEW piece \in Pieces, SampleStop(piece) PROVE ArriveInv'
    <2>1. /\ pc = "loop" /\ (pc' = "sendTail" => stream) /\ pc' \in {"sendTail", "flush"}
          /\ finish' = "stop" /\ UNCHANGED <<stream, broken, connected, got, reply>>
      BY <1>7 DEF SampleStop, CanSample
    <2> QED
      BY <2>1
  <1> QED
    BY <1>1, <1>2, <1>3, <1>4, <1>5, <1>6, <1>7

\* The steps that send, and the client's.
LEMMA SendArriveStep ==
  ASSUME StreamInv, ArriveInv,
         \/ SendTail \/ SendSafe \/ SendSafeFails \/ FlushStream \/ Abandon \/ Respond \/ HangUp
  PROVE  ArriveInv'
  <1> USE DEF ArriveInv, ReplyArrives, request, decoder, client
  <1>0. /\ out \in Seq(Byte) /\ got \in Seq(Byte) /\ Len(out) \in Nat
        /\ streamed \in Nat /\ streamed <= Len(out)
    BY DEF StreamInv, TypeOK, NothingToTakeBack
  <1>1. CASE SendTail
    <2>1. /\ pc = "sendTail" /\ pc' = "flush" /\ UNCHANGED <<stream, finish, reply, connected>>
          /\ connected => UNCHANGED broken
      BY <1>1 DEF SendTail, SendOk, SendFails
    <2> QED
      BY <2>1
  <1>2. CASE SendSafe
    <2>1. /\ pc = "send" /\ pc' = "loop" /\ UNCHANGED <<stream, finish, reply, connected, broken>>
          /\ ~stream => UNCHANGED got
      BY <1>2 DEF SendSafe, SendOk
    <2> QED
      BY <2>1
  <1>3. CASE SendSafeFails
    BY <1>3 DEF SendSafeFails, SendFails
  <1>4. CASE FlushStream
    <2>1. /\ pc = "flush" /\ pc' = "idle" /\ stream
          /\ UNCHANGED <<stream, finish, out, connected, broken>>
          /\ connected => reply' = "done"
      BY <1>4 DEF FlushStream, SendLast
    <2>2. ASSUME connected, finish = "length" PROVE got' = out
      <3>1. got = Bytes(out, 0, streamed)
        BY <2>1, <2>2
      <3>2. Bytes(out, 0, streamed) \o Bytes(out, streamed, Len(out)) = Bytes(out, 0, Len(out))
        BY <1>0, BytesConcat
      <3>3. Bytes(out, 0, Len(out)) = out
        BY <1>0, SubSeqFull DEF Bytes
      <3>4. CASE Len(out) > streamed
        BY <1>4, <2>2, <3>1, <3>2, <3>3, <3>4 DEF FlushStream, SendLast
      <3>5. CASE ~(Len(out) > streamed)
        <4>1. got' = got \o <<>> /\ streamed = Len(out)
          BY <1>0, <1>4, <2>2, <3>5 DEF FlushStream, SendLast
        <4>2. got \o <<>> = got
          BY <1>0, ConcatEmptySeq
        <4> QED
          BY <3>1, <3>3, <4>1, <4>2
      <3> QED
        BY <3>4, <3>5
    <2> QED
      BY <2>1, <2>2
  <1>5. CASE Abandon
    BY <1>5 DEF Abandon
  <1>6. CASE Respond
    <2>1. /\ pc = "flush" /\ pc' = "idle" /\ ~stream
          /\ UNCHANGED <<stream, finish, out, connected, broken>>
          /\ connected => reply' = "body" /\ got' = got \o out
      BY <1>6 DEF Respond, SendLast
    <2>2. <<>> \o out = out
      BY <1>0, ConcatEmptySeq
    <2> QED
      BY <2>1, <2>2
  <1>7. CASE HangUp
    BY <1>7 DEF HangUp
  <1> QED
    BY <1>1, <1>2, <1>3, <1>4, <1>5, <1>6, <1>7

LEMMA NextArriveInv == StreamInv /\ ArriveInv /\ [Next]_vars => ArriveInv'
  <1> SUFFICES ASSUME StreamInv, ArriveInv, [Next]_vars PROVE ArriveInv'
    OBVIOUS
  <1>1. CASE Next
    BY <1>1, DecodeArriveStep, SendArriveStep DEF Next, HandlerStep
  <1>2. CASE UNCHANGED vars
    BY <1>2 DEF vars, request, decoder, client, ArriveInv, ReplyArrives
  <1> QED
    BY <1>1, <1>2

\* A client that stays until its reply is over has the end of it, and all of the
\* text when the reply is a body or no stop string cut it: the flush after the
\* loop (server.c:368-391) sends just what the deltas left out.
THEOREM ClientsGetTheirReply == Spec => []ReplyArrives
  <1>1. ArriveInv => ReplyArrives
    BY DEF ArriveInv
  <1> QED
    BY <1>1, StreamInvariant, InitArriveInv, NextArriveInv, PTL DEF Spec
=============================================================================
