----------------------------- MODULE MCTokenizer -----------------------------
(* Tokenizer with small vocabularies.  The byte-level one: ten bytes, one or   *)
(* more of every class, a special text of three of them and merges that        *)
(* overlap and build on each other.  The SentencePiece one: a character of two *)
(* bytes that is a piece and one that is not, a string that comes twice, equal *)
(* scores, and hash functions from the worst on.                               *)
EXTENDS Tokenizer

MCContractions == {<<"s">>, <<"r", "e">>}
MCSpecials == << <<"<", "s", ">">> >>
MCMerges == << << <<"e">>, <<"e">> >>, << <<"r">>, <<"e">> >>, << <<"e", "e">>, <<"e">> >>,
               << <<" ">>, <<"r">> >>, << <<"r">>, <<"e", "e">> >> >>

MCSpBytes == <<" ", "a", "C3", "A9">>
MCLead == [c \in {" ", "a", "C3", "A9"} |-> IF c = "C3" THEN 2 ELSE 1]
Piece(s, score) == [str |-> s, score |-> score]
MCPieces == << Piece(<<"<unk>">>, 0), Piece(<<"<s>">>, 0), Piece(<<"</s>">>, 0),
               Piece(<<"<0x", " ", ">">>, 0), Piece(<<"<0x", "a", ">">>, 0),
               Piece(<<"<0x", "C3", ">">>, 0), Piece(<<"<0x", "A9", ">">>, 0),
               Piece(<<" ">>, 0), Piece(<<"a">>, 0), Piece(<<"a", "a">>, 2),
               Piece(<<" ", "a">>, 2), Piece(<<"C3", "A9">>, 0),
               Piece(<<"a", "C3", "A9">>, 3), Piece(<<"a", "a">>, 1), Piece(<<" ", "a", "a">>, 1) >>

\* Everything collides, near the end of the table, or strings of one length, or few.
MCHash(h, key) == CASE h = 0 -> 27
                    [] h = 1 -> Len(key)
                    [] h = 2 -> Len(key) + 7 * (IF key[1] \in Range(MCSpBytes)
                                                THEN IndexFirstSubSeq(<<key[1]>>, MCSpBytes) ELSE 3)
MCHashIds == {0, 1, 2}
=============================================================================
