------------------------------ MODULE SpEncoder ------------------------------
(***************************************************************************)
(* The SentencePiece tokenizer of src/tokenizer.c: build_sp fills the map  *)
(* of pieces, sp_encode turns a text into one token for each character, or *)
(* for each byte of a character that is no piece, and joins neighbours by  *)
(* score; sp_decode is the way back.                                       *)
(***************************************************************************)
EXTENDS HashMap, Sequences, SequencesExt

CONSTANTS
    SpBytes,    \* the bytes of texts, in the order of their values
    Lead,       \* Lead[b]: the length of the character that b begins
    Pieces,     \* the vocabulary: strings and scores, in the order of the ids
    MaxSpText   \* bound on the length of a text

SpByte == Range(SpBytes)
Blank == " "
BosId == 1
FirstByteId == 3

\* The piece that stands for a byte is spelled in hexadecimal.
Hex(b) == <<"<0x", b, ">">>

Str(id) == Pieces[id + 1].str
Score(id) == Pieces[id + 1].score

\* A control piece has a name of its own, which no text spells.
Control(id) == LET name == Head(Str(id))
               IN  Str(id) = <<name>> /\ name \notin SpByte \cup {"<0x"}

\* The strings the map is asked for: pieces, characters and two pieces together.
Ids == 0 .. Len(Pieces) - 1
Searched == {Str(id) : id \in Ids} \cup {Str(a) \o Str(c) : a, c \in Ids}
               \cup {<<Blank>>} \cup UNION {[1 .. n -> SpByte] : n \in 1 .. 4}

VARIABLES pc, text, i, tokens,
          sp_map,       \* from strings to ids
          loaded        \* how many pieces build_sp has put there

\* build_sp, one piece of the file after another; a string may come twice.
LoadPiece == /\ pc = "new" /\ loaded < Len(Pieces)
             /\ sp_map' = HmapPut(sp_map, Str(loaded), loaded)
             /\ loaded' = loaded + 1
             /\ pc' = IF loaded' = Len(Pieces) THEN "call" ELSE "new"
             /\ UNCHANGED <<text, i, tokens>>

Lookup(s) == HmapGet(sp_map, s)

\* sp_encode is called: the token of a space goes before a text.
SpCall == /\ pc = "call"
          /\ \E n \in 0 .. MaxSpText : text' \in [1 .. n -> SpByte]
          /\ \E add_bos \in BOOLEAN :
                tokens' = (IF add_bos THEN <<BosId>> ELSE <<>>)
                            \o (IF text' # <<>> /\ Lookup(<<Blank>>) # -1
                                THEN <<Lookup(<<Blank>>)>> ELSE <<>>)
          /\ pc' = "char"
          /\ UNCHANGED <<i, sp_map, loaded>>

\* The next character: what its first byte promises, or what is left.
Character == SubSeq(text, i + 1, Min({i + Lead[text[i + 1]], Len(text)}))

\* The place of a byte among the bytes.
Place(b) == CHOOSE k \in DOMAIN SpBytes : SpBytes[k] = b

\* Mutant: the ids of bytes begin one earlier.
ByteIdLow(b) == FirstByteId + Place(b) - 2

ByteId(b) == FirstByteId + Place(b) - 1

TakeCharacter ==
    /\ pc = "char" /\ i < Len(text)
    /\ tokens' = tokens \o (IF Lookup(Character) # -1 THEN <<Lookup(Character)>>
                            ELSE [k \in DOMAIN Character |-> ByteId(Character[k])])
    /\ i' = i + Len(Character)
    /\ UNCHANGED <<pc, text, sp_map, loaded>>

AllTaken == /\ pc = "char" /\ i = Len(text)
            /\ pc' = "join"
            /\ UNCHANGED <<text, i, tokens, sp_map, loaded>>

\* The neighbours at k and k + 1 as one piece, -1 if they are none.
Pair(k) == Lookup(Str(tokens[k]) \o Str(tokens[k + 1]))
Joinable == {k \in 1 .. Len(tokens) - 1 : Pair(k) # -1}

\* The best score, and the first of its places.
BestPair == LET top == Max({Score(Pair(k)) : k \in Joinable})
            IN  Min({k \in Joinable : Score(Pair(k)) = top})

Join == /\ pc = "join" /\ Joinable # {}
        /\ tokens' = SubSeq(tokens, 1, BestPair - 1) \o <<Pair(BestPair)>>
                        \o SubSeq(tokens, BestPair + 2, Len(tokens))
        /\ UNCHANGED <<pc, text, i, sp_map, loaded>>

SpReturn == /\ pc = "join" /\ Joinable = {}
            /\ pc' = "done"
            /\ UNCHANGED <<text, i, tokens, sp_map, loaded>>

SpNext == LoadPiece \/ SpCall \/ TakeCharacter \/ AllTaken \/ Join \/ SpReturn

-----------------------------------------------------------------------------
\* sp_decode: the space of a piece behind the first token is dropped.
SpDecode(prev, id) ==
    LET s == IF prev = BosId /\ Head(Str(id)) = Blank THEN Tail(Str(id)) ELSE Str(id)
    IN  IF \E b \in SpByte : s = Hex(b) THEN <<s[2]>> ELSE s

\* What a caller prints that decodes token by token.
Decoded == FlattenSeq([k \in DOMAIN tokens |->
              IF tokens[k] = BosId THEN <<>>
              ELSE SpDecode(IF k = 1 THEN -1 ELSE tokens[k - 1], tokens[k])])

\* The map is what the pieces loaded so far say: the last id of a string, -1
\* for any other; and probing always meets a free slot.  (It is not written to
\* once it is built.)
MapIsDictionary ==
    pc \in {"new", "call"} =>
    /\ \E s \in DOMAIN sp_map.e : sp_map.e[s] = Free
    /\ \A key \in Searched : HmapGet(sp_map, key) =
          Max({-1} \cup {id \in 0 .. loaded - 1 : Str(id) = key})

\* Decoding gives the text back at every stage, whatever has been joined, but
\* for the space in front when no first token asks to drop it; and the tokens
\* fit the array of slen + 3.
TextComesBack ==
    pc \in {"char", "join", "done"} =>
        LET front == IF text # <<>> /\ tokens # <<>> /\ tokens[1] # BosId /\ Lookup(<<Blank>>) # -1
                     THEN <<Blank>> ELSE <<>>
        IN  /\ Decoded = front \o SubSeq(text, 1, i)
            /\ Len(tokens) <= Len(text) + 3
=============================================================================
