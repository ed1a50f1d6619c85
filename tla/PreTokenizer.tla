---------------------------- MODULE PreTokenizer ----------------------------
(* next_piece (tokenizer.c:258-309): how long the next piece of a text is, *)
(* by hand-written scanning, and the regular expression it stands for.     *)
(* Texts are sequences of bytes, told apart by what the scanner asks about *)
(* them; bytes of 0x80 and above are letters.                              *)
EXTENDS Integers, Sequences, FiniteSetsExt, SequencesExt

CONSTANTS
    Letters, Digits, Marks,     \* Marks: neither letter, digit nor white space
    Blanks, Newlines,           \* white space: is_space is their union
    Space,                      \* the blank ' '
    Quote,                      \* the mark '
    Contractions                \* what may follow a quote: s, t, m, d, re, ve, ll

\* Every byte is of one class (is_letter_ext, is_digit and is_space of lines 250-254).
ASSUME ClassesAssumption ==
    /\ \A x \in Letters : x \notin Digits \cup Marks \cup Blanks \cup Newlines
    /\ \A x \in Digits : x \notin Marks \cup Blanks \cup Newlines
    /\ \A x \in Marks : x \notin Blanks \cup Newlines
    /\ Blanks \cap Newlines = {}
    /\ Space \in Blanks /\ Quote \in Marks
    /\ \A c \in Contractions : c \in Seq(Letters) /\ Len(c) \in 1 .. 2
    /\ \A c, d \in Contractions : IsPrefix(c, d) => c = d

Spaces == Blanks \cup Newlines
Byte == Letters \cup Digits \cup Marks \cup Spaces

-----------------------------------------------------------------------------
(* The scanner.  Every length is that of a piece at the start of s, or 0. *)

\* How many bytes from position i on are in S, up to the first that is not.
Run(s, i, S) == LET others == {j \in i .. Len(s) : s[j] \notin S}
                IN IF others = {} THEN Len(s) - i + 1 ELSE Min(others) - i

\* Lines 260-266: a quote and a letter, or two, of a contraction, in either case.
Contraction(s) ==
    LET found == {c \in Contractions : s[1] = Quote /\ IsPrefix(c, Tail(s))}
    IN IF found = {} THEN 0 ELSE 1 + Len(CHOOSE c \in found : TRUE)

\* Lines 267-276: letters, behind at most one byte that is neither a letter,
\* a digit nor a newline.
Word(s) ==
    LET i == IF s[1] \in Blanks \cup Marks /\ Len(s) >= 2 /\ s[2] \in Letters THEN 1 ELSE 0
    IN IF s[i + 1] \in Letters THEN i + Run(s, i + 1, Letters) ELSE 0

\* Line 278: digits are taken one by one.
Digit(s) == IF s[1] \in Digits THEN 1 ELSE 0

\* Lines 279-295: a run of marks behind at most one space, and the newlines after it.
Punctuation(s) ==
    LET i == IF s[1] = Space THEN 1 ELSE 0
        j == i + Run(s, i + 1, Marks)
    IN IF i < Len(s) /\ s[i + 1] \in Marks THEN j + Run(s, j + 1, Newlines) ELSE 0

\* Mutant: white space is taken whole, the last of it too.
WhiteSpaceAll(s) == Run(s, 1, Spaces)

\* Lines 296-307: white space up to its last newline; without one, all of it
\* at the end of the text and all but the last byte elsewhere.
WhiteSpace(s) ==
    LET j == Run(s, 1, Spaces)
        newlines == {k \in 1 .. j : s[k] \in Newlines}
    IN IF newlines # {} THEN Max(newlines)
       ELSE IF j = Len(s) \/ j <= 1 THEN j
       ELSE j - 1

\* next_piece: the first kind that is there; one byte if none is.
NextPiece(s) ==
    LET lengths == <<Contraction(s), Word(s), Digit(s), Punctuation(s), WhiteSpace(s), 1>>
    IN lengths[Min({k \in DOMAIN lengths : lengths[k] > 0})]

-----------------------------------------------------------------------------
(* The expression, alternative by alternative, as the comments of the code *)
(* (lines 260-296) give it.  Every one of them is greedy.                  *)

All(w, S) == \A k \in DOMAIN w : w[k] \in S

\* w is a match of the k-th alternative when `rest` is what follows it.
Matches(k, w, rest) ==
    CASE k = 1 -> \E c \in Contractions : w = <<Quote>> \o c
      [] k = 2 -> \/ All(w, Letters)
                  \/ Head(w) \in Blanks \cup Marks /\ Tail(w) # <<>> /\ All(Tail(w), Letters)
      [] k = 3 -> Len(w) = 1 /\ All(w, Digits)
      [] k = 4 -> \E a \in 0 .. 1, b \in 1 .. Len(w) :
                     /\ a < b
                     /\ All(SubSeq(w, 1, a), {Space})
                     /\ All(SubSeq(w, a + 1, b), Marks)
                     /\ All(SubSeq(w, b + 1, Len(w)), Newlines)
      [] k = 5 -> All(w, Spaces) /\ Last(w) \in Newlines
      [] k = 6 -> All(w, Spaces) /\ (rest = <<>> \/ Head(rest) \in Spaces)
      [] k = 7 -> All(w, Spaces)

\* The lengths of the matches of alternative k at the start of s.
MatchLengths(k, s) ==
    {n \in 1 .. Len(s) : Matches(k, SubSeq(s, 1, n), SubSeq(s, n + 1, Len(s)))}

\* What an engine that tries the alternatives in order takes.
PreferredLength(s) ==
    LET k == Min({a \in 1 .. 7 : MatchLengths(a, s) # {}}) IN Max(MatchLengths(k, s))
=============================================================================
