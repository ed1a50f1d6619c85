----------------------------- MODULE BpeEncoder -----------------------------
(* bpe_encode, bpe_merge_piece and match_special (tokenizer.c:311-386): a    *)
(* text becomes tokens, special ones as they are and the rest piece by piece *)
(* with greedy merges.                                                       *)
(*                                                                           *)
(* A token is what it stands for: a special text or the bytes of a symbol.   *)
(* The byte-level alphabet is a bijection on bytes, so symbols are sequences *)
(* of bytes; the two hash maps are the sets they hold.  The token array has  *)
(* room for one token per byte and eight more, and no merge of a vocabulary  *)
(* is longer than the key buffer: the tests of 324, 365, 379 are left out.   *)
EXTENDS PreTokenizer, Functions

CONSTANTS
    Specials,   \* the special texts, in the order match_special tries them
    Merges,     \* the pairs of symbols, in the order of their ranks
    SymCap,     \* symbols of one piece: 512 in the code
    MaxText     \* bound on the length of a text

Bytes(s) == [k \in 1 .. Len(s) |-> <<s[k]>>]
Product(k) == Merges[k][1] \o Merges[k][2]

\* bpe_vmap: every byte and what the merges make.
Vocab == {<<b>> : b \in Byte} \cup {Product(k) : k \in DOMAIN Merges}

ASSUME VocabularyAssumption ==
    /\ Specials \in Seq(Seq(Byte) \ {<<>>}) /\ Merges \in Seq(Seq(Byte) \X Seq(Byte))
    \* merges are trained: each makes a new symbol of bytes and earlier products
    /\ \A k \in DOMAIN Merges, side \in 1 .. 2 :
          Merges[k][side] \in {<<b>> : b \in Byte} \cup {Product(j) : j \in 1 .. k - 1}
    /\ \A j, k \in DOMAIN Merges : Product(j) = Product(k) => j = k
    /\ SymCap \in Nat \ {0} /\ MaxText \in Nat

\* convert.py packs the added tokens, as <|im_start|>: each begins with a mark
\* that is nowhere else in one of them, and none is the beginning of another.
ASSUME SpecialsAssumption ==
    \A m, n \in DOMAIN Specials :
        /\ Specials[m][1] \in Marks
        /\ \A k \in 2 .. Len(Specials[n]) : Specials[n][k] # Specials[m][1]
        /\ IsPrefix(Specials[m], Specials[n]) => Specials[m] = Specials[n]

VARIABLES
    pc,         \* "call", "scan", "merge", "done"
    text, i,    \* the text and how many bytes of it were consumed
    symbols,    \* starts[] and lens[] of the piece at hand
    tokens,     \* what was encoded
    pieces      \* history: the specials and pieces the text was split into

vars == <<pc, text, i, symbols, tokens, pieces>>

Special(s) == [special |-> TRUE, str |-> s]
Ordinary(s) == [special |-> FALSE, str |-> s]
Bos == Special(<<>>)
Rest == SubSeq(text, i + 1, Len(text))

Init == /\ pc = "call"
        /\ text = <<>> /\ i = 0 /\ symbols = <<>> /\ tokens = <<>> /\ pieces = <<>>

\* A text is given, and the token that begins it when there is one.
Call == /\ pc = "call"
        /\ \E n \in 0 .. MaxText : text' \in [1 .. n -> Byte]
        /\ \E add_bos \in BOOLEAN, bos_id \in {-1, 0} :
              tokens' = IF add_bos /\ bos_id >= 0 THEN <<Bos>> ELSE <<>>
        /\ pc' = "scan"
        /\ UNCHANGED <<i, symbols, pieces>>

\* Mutant: a special text that ends the text is missed.
MatchSpecialShort(s) == {k \in DOMAIN Specials : Len(Specials[k]) < Len(s) /\ IsPrefix(Specials[k], s)}

\* The special texts that s starts with; match_special returns the first.
MatchSpecial(s) == {k \in DOMAIN Specials : IsPrefix(Specials[k], s)}

TakeSpecial ==
    /\ pc = "scan" /\ MatchSpecial(Rest) # {}
    /\ LET s == Specials[Min(MatchSpecial(Rest))] IN
          /\ tokens' = Append(tokens, Special(s))
          /\ pieces' = Append(pieces, Special(s))
          /\ i' = i + Len(s)
    /\ UNCHANGED <<pc, text, symbols>>

\* Mutant: one symbol too few.
SymbolsShort(piece) == Bytes(SubSeq(piece, 1, Min({Len(piece), SymCap - 1})))

\* bpe_merge_piece starts from one symbol per byte, and stops at SymCap.
Symbols(piece) == Bytes(SubSeq(piece, 1, Min({Len(piece), SymCap})))

TakePiece ==
    /\ pc = "scan" /\ i < Len(text) /\ MatchSpecial(Rest) = {}
    /\ LET piece == SubSeq(Rest, 1, NextPiece(Rest)) IN
          /\ symbols' = Symbols(piece)
          /\ pieces' = Append(pieces, Ordinary(piece))
    /\ pc' = "merge"
    /\ UNCHANGED <<text, i, tokens>>

\* The ranks of the neighbours at k, k + 1 in a sequence of symbols.
RanksAt(word, k) == {r \in DOMAIN Merges : Merges[r] = <<word[k], word[k + 1]>>}
Ranks(word) == UNION {RanksAt(word, k) : k \in 1 .. Len(word) - 1}

\* Mutant: <= in place of <, so the last of the best pairs is taken.
BestLast(word) == Max({k \in 1 .. Len(word) - 1 : Min(Ranks(word)) \in RanksAt(word, k)})

\* The first of the pairs of the lowest rank.
Best(word) == Min({k \in 1 .. Len(word) - 1 : Min(Ranks(word)) \in RanksAt(word, k)})

Joined(word, k) ==
    SubSeq(word, 1, k - 1) \o <<word[k] \o word[k + 1]>> \o SubSeq(word, k + 2, Len(word))

Merge == /\ pc = "merge" /\ Ranks(symbols) # {}
         /\ symbols' = Joined(symbols, Best(symbols))
         /\ UNCHANGED <<pc, text, i, tokens, pieces>>

\* The token of a symbol, if the vocabulary has one.
Resolved(s) == IF s \in Vocab THEN <<Ordinary(s)>> ELSE <<>>

\* No pair is left: the symbols that resolve become tokens.
Emit == /\ pc = "merge" /\ Ranks(symbols) = {}
        /\ tokens' = tokens \o FlattenSeq([k \in DOMAIN symbols |-> Resolved(symbols[k])])
        /\ i' = i + Len(Last(pieces).str)
        /\ symbols' = <<>>
        /\ pc' = "scan"
        /\ UNCHANGED <<text, pieces>>

Return == /\ pc = "scan" /\ i = Len(text)
          /\ pc' = "done"
          /\ UNCHANGED <<text, i, symbols, tokens, pieces>>

Ended == pc = "done" /\ UNCHANGED vars

Next == Call \/ TakeSpecial \/ TakePiece \/ Merge \/ Emit \/ Return \/ Ended

Spec == Init /\ [][Next]_vars

-----------------------------------------------------------------------------
(* Properties *)

Strings(seq) == [k \in DOMAIN seq |-> seq[k].str]
Scanned == IF pc = "merge" THEN Front(pieces) ELSE pieces

\* Decoding gives the text back: the tokens spell the pieces they come from, in
\* order and without loss, but for what a piece has beyond SymCap bytes.
NothingIsLost ==
    /\ FlattenSeq(Strings(Scanned)) = SubSeq(text, 1, i)
    /\ FlattenSeq(Strings(tokens)) =
          FlattenSeq([k \in DOMAIN Scanned |->
             IF Scanned[k].special THEN Scanned[k].str
             ELSE SubSeq(Scanned[k].str, 1, Min({Len(Scanned[k].str), SymCap}))])

\* The scanner takes the piece the regular expression would take
\* (tokenizer.c:256-257), wherever it stands in a text.
PiecesFollowExpression ==
    pc = "merge" => Len(Last(pieces).str) = PreferredLength(Rest)

\* The original algorithm: all occurrences of the best pair are joined, from
\* left to right, before the next pair is chosen.
JoinAll(word, rank) ==
    LET join[k \in 1 .. Len(word) + 1] ==
          IF k > Len(word) THEN <<>>
          ELSE IF k < Len(word) /\ rank \in RanksAt(word, k)
               THEN <<Product(rank)>> \o join[k + 2]
               ELSE <<word[k]>> \o join[k + 1]
    IN join[1]

Encoded[word \in Seq(Seq(Byte))] ==
    IF Ranks(word) = {} THEN word ELSE Encoded[JoinAll(word, Min(Ranks(word)))]

\* Joining one pair at a time, the leftmost of the lowest rank, ends in the
\* symbols of the original algorithm.
MergesAreBpe ==
    pc = "merge" => Encoded[symbols] = Encoded[Symbols(Last(pieces).str)]

\* s is in the text from position p on.
OccursAt(s, p) == p + Len(s) - 1 <= Len(text) /\ SubSeq(text, p, p + Len(s) - 1) = s

\* The special s was taken at position p.
TakenAt(s, p) ==
    \E k \in DOMAIN pieces :
        pieces[k] = Special(s) /\ Len(FlattenSeq(Strings(SubSeq(pieces, 1, k - 1)))) = p - 1

\* A special text is taken as a special token where the text begins, behind
\* another special and behind a letter, a digit or a newline.
SpecialsBehindBoundaries ==
    pc = "done" => \A m \in DOMAIN Specials, p \in 1 .. Len(text) :
        /\ OccursAt(Specials[m], p)
        /\ \/ p = 1
           \/ text[p - 1] \in Letters \cup Digits \cup Newlines
           \/ \E n \in DOMAIN Specials : TakenAt(Specials[n], p - Len(Specials[n]))
        => TakenAt(Specials[m], p)

\* Special tokens are matched before pre-tokenization and bypass BPE
\* (tokenizer.c:8-9): whatever precedes them.
SpecialsBypassBpe ==
    pc = "done" => \A m \in DOMAIN Specials, p \in 1 .. Len(text) :
        OccursAt(Specials[m], p) => TakenAt(Specials[m], p)
=============================================================================
