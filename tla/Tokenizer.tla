------------------------------ MODULE Tokenizer ------------------------------
(***************************************************************************)
(* ember_tokenizer_new and ember_encode of src/tokenizer.c: the tables of  *)
(* the tokenizer the model names are built, then a text is encoded by it,  *)
(* byte-level (BpeEncoder) or SentencePiece (SpEncoder).                   *)
(***************************************************************************)
EXTENDS BpeEncoder

CONSTANTS MinCap, Hash(_, _), HashIds,               \* of HashMap
          SpBytes, Lead, Pieces, MaxSpText           \* of SpEncoder

VARIABLES type,                    \* tokenizer_type of the header
          b,                       \* build_byte_level: the bytes done
          sp_map, loaded,          \* of SpEncoder, its text and its tokens
          sp_text, sp_i, ids

Sp == INSTANCE SpEncoder WITH text <- sp_text, i <- sp_i, tokens <- ids

ASSUME MapAssumption == MinCap \in Nat \ {0}

\* A space is a character.  The pieces of single bytes have the ids sp_encode
\* counts on; the others are spelled by texts, or control what is done with them.
ASSUME PiecesAssumption ==
    /\ Len(Pieces) \in Nat
    /\ Lead \in [Sp!SpByte -> 1 .. 4] /\ MaxSpText \in Nat
    /\ Sp!Blank \in Sp!SpByte /\ Lead[Sp!Blank] = 1 /\ {"<0x", ">"} \cap Sp!SpByte = {}
    /\ \A k \in DOMAIN SpBytes : /\ Sp!FirstByteId + k - 1 \in Sp!Ids
                                 /\ Sp!Str(Sp!FirstByteId + k - 1) = Sp!Hex(SpBytes[k])
    /\ \A id \in Sp!Ids : /\ Sp!Score(id) \in Int
                          /\ \/ Sp!Str(id) \in Seq(Sp!SpByte) \ {<<>>}
                             \/ \E byte \in Sp!SpByte : Sp!Str(id) = Sp!Hex(byte)
                             \/ Sp!Control(id)
    /\ Sp!BosId \in Sp!Ids /\ Sp!Control(Sp!BosId)

\* fnv1a, of whatever is looked up.
ASSUME HashAssumption == \A h \in HashIds, key \in Sp!Searched : Hash(h, key) \in Nat

bpe == <<text, i, symbols, tokens, pieces>>
sp == <<sp_map, loaded, sp_text, sp_i, ids>>

-----------------------------------------------------------------------------
(* build_byte_level: bytes as code points, and code points as UTF-8. *)

Printable == 33 .. 126 \cup 161 .. 172 \cup 174 .. 255

\* Mutant: the number of those that are not printable is not advanced.
CodePointStill(byte) == IF byte \in Printable THEN byte ELSE 256

\* The others follow one another behind the 256 bytes.
CodePoint(byte) == IF byte \in Printable THEN byte
                   ELSE 256 + Cardinality(0 .. byte - 1 \ Printable)

Utf8Encode(cp) == IF cp < 128 THEN <<cp>> ELSE <<192 + cp \div 64, 128 + (cp % 64)>>

\* utf8_decode, of one or two bytes: the code point and its length.
Utf8Decode(s) == IF s[1] < 128 THEN <<s[1], 1>>
                 ELSE <<((s[1] % 32) * 64) + (s[2] % 64), 2>>

\* cp2byte: a table of 512 entries, -1 where nothing was written.
ByteOf(cp) == Max({-1} \cup {byte \in 0 .. b - 1 : cp < 512 /\ CodePoint(byte) = cp})

BuildByte == /\ pc = "new" /\ b < 256
             /\ b' = b + 1
             /\ UNCHANGED <<pc, bpe>>

Built == /\ pc = "new" /\ b = 256
         /\ b' = 0
         /\ pc' = "call"
         /\ UNCHANGED bpe

-----------------------------------------------------------------------------
TInit == /\ type \in {"sp", "bpe"}
         /\ pc = "new"
         /\ text = <<>> /\ i = 0 /\ symbols = <<>> /\ tokens = <<>> /\ pieces = <<>>
         /\ b = 0
         /\ loaded = 0
         /\ IF type = "sp" THEN sp_map \in {Sp!HmapInit(Len(Pieces), h) : h \in HashIds}
                           ELSE sp_map = <<>>
         /\ sp_text = <<>> /\ sp_i = 0 /\ ids = <<>>

TNext == /\ \/ type = "bpe" /\ UNCHANGED sp /\ (BuildByte \/ Built \/ (Next /\ UNCHANGED b))
            \/ type = "sp" /\ UNCHANGED <<bpe, b>> /\ Sp!SpNext
            \/ Ended /\ UNCHANGED <<b, sp>>
         /\ UNCHANGED type

TSpec == TInit /\ [][TNext]_<<type, pc, b, bpe, sp>>

-----------------------------------------------------------------------------
(* Properties *)

\* bpe_decode gives back the byte a code point was made for: no two bytes share
\* one, and none is outside of the table.
BytesComeBack ==
    type = "bpe" /\ pc = "new" =>
        \A byte \in 0 .. b - 1 :
            LET s == Utf8Encode(CodePoint(byte))
            IN  Utf8Decode(s)[2] = Len(s) /\ ByteOf(Utf8Decode(s)[1]) = byte

\* The map of build_sp is a dictionary: see SpEncoder.
MapIsDictionary == type = "sp" => Sp!MapIsDictionary

\* Decoding is the way back for either type: every byte has a code point of its
\* own, and SentencePiece pieces spell the text (see SpEncoder).
TextComesBack == BytesComeBack /\ (type = "sp" => Sp!TextComesBack)
=============================================================================
