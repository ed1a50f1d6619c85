----------------------------- MODULE JsonParser -----------------------------
(***************************************************************************)
(* json_parse of src/json.c as the machine it is: a cursor, the stack of   *)
(* calls of parse_array and parse_object, the string being unescaped and   *)
(* the blocks allocated so far.  A text is a sequence of elements: single  *)
(* bytes, except that literals and \u escapes are one element each.        *)
(***************************************************************************)
EXTENDS Integers, Sequences, SequencesExt

CONSTANT Texts         \* the texts to parse, of the elements below

\* What stands behind a backslash, and the character it becomes.
Escape == [n |-> "LF", quote |-> "quote", bslash |-> "bslash",
           u0000 |-> "NUL", u00E9 |-> "U+00E9",
           uD83D |-> "U+D83D", uDE00 |-> "U+DE00"]

Elements == {"[", "]", "{", "}", ",", ":", "blank", "1", "-", "true", "a", "u"}
                \cup DOMAIN Escape

\* What a C string shows of its characters.
Visible(s) == LET nul == SelectInSeq(s, LAMBDA ch : ch = "NUL")
              IN  IF nul = 0 THEN s ELSE SubSeq(s, 1, nul - 1)

\* The elements of t from i up to, not including, j.
Part(t, i, j) == SubSeq(t, i, j - 1)

\* How many bytes an element takes in the text.
Bytes(e) == CASE e = "true" -> 4
              [] e \in {"u0000", "u00E9", "uD83D", "uDE00"} -> 5
              [] OTHER -> 1

\* emit_utf8: how many bytes a decoded character takes.
Utf8(ch) == CASE ch = "U+00E9" -> 2
              [] ch \in {"U+D83D", "U+DE00"} -> 3
              [] ch = "U+1F600" -> 4
              [] OTHER -> Bytes(ch)

Total(s) == LET sum[k \in 0 .. Len(s)] == IF k = 0 THEN 0 ELSE sum[k - 1] + s[k]
            IN  sum[Len(s)]

\* The bytes a decoded string and a part of the text take.
Written(s) == Total([k \in 1 .. Len(s) |-> Utf8(s[k])])
Spelled(s) == Total([k \in 1 .. Len(s) |-> Bytes(s[k])])

VARIABLES text, p,     \* the document, which no step changes, and the cursor
          jpc,         \* the code to run next
          stack,       \* the calls of parse_array and parse_object
          str,         \* the string being read: its use, its place, its bytes
          ret,         \* the value the last call returned
          live         \* how many allocated blocks there are

parser == <<text, p, jpc, stack, str, ret, live>>

NoValue  == [tree |-> <<>>, blocks |-> 0]
NoString == [use |-> "none", begin |-> 0, end |-> 0, out |-> <<>>]
NoKey    == [name |-> <<>>, blocks |-> 0]

ParseInit == /\ text \in Texts \cap Seq(Elements)
             /\ p = 1
             /\ jpc = "value"
             /\ stack = <<>>
             /\ str = NoString
             /\ ret = NoValue
             /\ live = 0

\* The text ends with a NUL.
At(i) == IF i <= Len(text) THEN text[i] ELSE "NUL"

\* skip_ws
Skip(i) == CHOOSE j \in i .. Len(text) + 1 :
              At(j) # "blank" /\ \A k \in i .. j - 1 : text[k] = "blank"

Fail == jpc' = "unwind" /\ UNCHANGED <<p, stack, str, ret, live>>

Return(tree, blocks) == ret' = [tree |-> tree, blocks |-> blocks] /\ jpc' = "returned"

-----------------------------------------------------------------------------
(* parse_value: the first byte decides. *)

\* parse_array and parse_object up to their loop.
Open(bracket, close, kind, next) ==
    LET i == Skip(p)
        j == Skip(i + 1)
    IN  /\ jpc = "value" /\ At(i) = bracket
        /\ live' = live + 1
        /\ IF At(j) = close
           THEN p' = j + 1 /\ Return(<<kind, <<>>>>, 1) /\ UNCHANGED stack
           ELSE /\ stack' = Append(stack, [kind |-> kind, items |-> <<>>,
                                           key |-> NoKey, blocks |-> 1])
                /\ p' = j /\ jpc' = next /\ UNCHANGED ret
        /\ UNCHANGED str

OpenArray  == Open("[", "]", "array", "value")
OpenObject == Open("{", "}", "object", "key")

\* parse_literal; true stands for the three words.
Literal == /\ jpc = "value" /\ At(Skip(p)) = "true"
           /\ p' = Skip(p) + 1
           /\ live' = live + 1
           /\ Return(<<"bool">>, 1)
           /\ UNCHANGED <<stack, str>>

\* strtod: a sign and digits.
NumberEnd(i) == LET first == IF At(i) = "-" THEN i + 1 ELSE i
                IN  CHOOSE j \in first .. Len(text) + 1 :
                       At(j) # "1" /\ \A k \in first .. j - 1 : text[k] = "1"

Number == /\ jpc = "value" /\ At(Skip(p)) \in {"-", "1"}
          /\ LET i == Skip(p)
                 j == NumberEnd(i)
             IN  IF At(j - 1) = "1"
                 THEN /\ p' = j /\ live' = live + 1
                      /\ Return(<<"num", SubSeq(text, i, j - 1)>>, 1)
                      /\ UNCHANGED <<stack, str>>
                 ELSE Fail

NoSuchValue == /\ jpc = "value"
               /\ At(Skip(p)) \notin {"[", "{", "true", "-", "1", "quote"}
               /\ Fail

-----------------------------------------------------------------------------
(* parse_string_raw *)

\* Mutant: the scan stops at the first quote.
ScanEndAtQuote(i) == CHOOSE j \in i .. Len(text) + 1 :
                        /\ At(j) \in {"quote", "NUL"}
                        /\ \A k \in i .. j - 1 : At(k) # "quote"

\* The scan for the closing quote: a backslash hides the byte after it.
ScanNext(j) == CASE At(j) \in {"quote", "NUL"} -> j
                 [] At(j) = "bslash" /\ At(j + 1) # "NUL" -> j + 2
                 [] OTHER -> j + 1

\* Where it ends, which it does after as many rounds as there are bytes.
ScanEnd(i) ==
    LET scan[k \in 0 .. Len(text)] == IF k = 0 THEN i ELSE ScanNext(scan[k - 1])
    IN  scan[Len(text)]

\* A string begins, a value or the key of the object on top.
OpenString(use) ==
    /\ jpc = use
    /\ LET i == Skip(p)
           end == ScanEnd(i + 1)
       IN  IF At(i) = "quote" /\ At(end) = "quote"
           THEN /\ p' = i + 1 /\ jpc' = "string" /\ live' = live + 1
                /\ str' = [use |-> use, begin |-> p', end |-> end, out |-> <<>>]
                /\ UNCHANGED <<stack, ret>>
           ELSE Fail

ValueString == At(Skip(p)) = "quote" /\ OpenString("value")
KeyString == OpenString("key")

\* Two escapes that are the halves of one character.
Pair == At(p + 1) = "uD83D" /\ At(p + 2) = "bslash" /\ At(p + 3) = "uDE00"

Emit(ch, n) == /\ str' = [str EXCEPT !.out = Append(@, ch)]
               /\ p' = p + n
               /\ UNCHANGED <<jpc, stack, ret, live>>

Plain == /\ jpc = "string" /\ At(p) \notin {"quote", "bslash"}
         /\ Emit(At(p), 1)

\* Mutant: a surrogate pair is decoded one half at a time.
UnescapeHalves == /\ jpc = "string" /\ At(p) = "bslash" /\ At(p + 1) \in DOMAIN Escape
                  /\ Emit(Escape[At(p + 1)], 2)

Unescape == /\ jpc = "string" /\ At(p) = "bslash" /\ At(p + 1) \in DOMAIN Escape
            /\ IF Pair THEN Emit("U+1F600", 4) ELSE Emit(Escape[At(p + 1)], 2)

BadEscape == /\ jpc = "string" /\ At(p) = "bslash" /\ At(p + 1) \notin DOMAIN Escape
             /\ live' = live - 1
             /\ jpc' = "unwind"
             /\ UNCHANGED <<p, stack, str, ret>>

-----------------------------------------------------------------------------
Top == Last(stack)

EndString == /\ jpc = "string" /\ At(p) = "quote" /\ str.use = "value"
             /\ p' = p + 1 /\ live' = live + 1
             /\ Return(<<"str", Visible(str.out)>>, 2)
             /\ str' = NoString
             /\ UNCHANGED stack

\* The key is complete: parse_object looks for its colon.
EndKey == /\ jpc = "string" /\ At(p) = "quote" /\ str.use = "key"
          /\ LET i == Skip(p + 1)
             IN  IF At(i) = ":"
                 THEN /\ p' = i + 1 /\ jpc' = "value"
                      /\ stack' = Append(Front(stack),
                            [Top EXCEPT !.key = [name |-> Visible(str.out), blocks |-> 1]])
                      /\ UNCHANGED live
                 ELSE live' = live - 1 /\ jpc' = "unwind" /\ UNCHANGED <<p, stack>>
          /\ str' = NoString
          /\ UNCHANGED ret

\* The call on top has got a value: its arrays grow with the first one.
Filled == LET first == Top.items = <<>>
              item  == IF Top.kind = "array" THEN ret.tree ELSE <<Top.key.name, ret.tree>>
              grown == IF ~first THEN 0 ELSE IF Top.kind = "array" THEN 1 ELSE 2
          IN  [call |-> [Top EXCEPT !.items = Append(@, item), !.key = NoKey,
                                    !.blocks = @ + ret.blocks + Top.key.blocks + grown],
               grown |-> grown]

TakeItem == /\ jpc = "returned" /\ stack # <<>>
            /\ LET i == Skip(p)
                   close == IF Top.kind = "array" THEN "]" ELSE "}"
               IN  /\ live' = live + Filled.grown
                   /\ \/ /\ At(i) = ","
                         /\ p' = i + 1
                         /\ jpc' = IF Top.kind = "array" THEN "value" ELSE "key"
                         /\ stack' = Append(Front(stack), Filled.call)
                         /\ UNCHANGED ret
                      \/ /\ At(i) = close
                         /\ p' = i + 1
                         /\ Return(<<Top.kind, Filled.call.items>>, Filled.call.blocks)
                         /\ stack' = Front(stack)
                      \/ /\ At(i) \notin {",", close}
                         /\ stack' = Append(Front(stack), Filled.call)
                         /\ jpc' = "unwind"
                         /\ UNCHANGED <<p, ret>>
            /\ UNCHANGED str

\* Mutant: the key of the pair that failed is forgotten.
UnwindKeepsKey == /\ jpc = "unwind" /\ stack # <<>>
                  /\ live' = live - Top.blocks
                  /\ stack' = Front(stack)
                  /\ UNCHANGED <<p, jpc, str, ret>>

\* A call that failed frees what it has built and fails its caller.
Unwind == /\ jpc = "unwind" /\ stack # <<>>
          /\ live' = live - Top.blocks - Top.key.blocks
          /\ stack' = Front(stack)
          /\ UNCHANGED <<p, jpc, str, ret>>

\* json_parse
Reject == /\ jpc = "unwind" /\ stack = <<>>
          /\ jpc' = "rejected"
          /\ UNCHANGED <<p, stack, str, ret, live>>

Finish == /\ jpc = "returned" /\ stack = <<>>
          /\ IF At(Skip(p)) = "NUL"
             THEN jpc' = "accepted" /\ UNCHANGED live
             ELSE jpc' = "rejected" /\ live' = live - ret.blocks
          /\ UNCHANGED <<p, stack, str, ret>>

\* json_free
Free == /\ jpc = "accepted"
        /\ live' = live - ret.blocks
        /\ jpc' = "freed"
        /\ UNCHANGED <<p, stack, str, ret>>

Parsed == jpc \in {"rejected", "freed"} /\ UNCHANGED parser

Step == \/ OpenArray \/ OpenObject \/ Literal \/ Number \/ NoSuchValue
        \/ ValueString \/ KeyString \/ Plain \/ Unescape \/ BadEscape
        \/ EndString \/ EndKey \/ TakeItem
        \/ Unwind \/ Reject \/ Finish \/ Free

ParseNext == (Step /\ UNCHANGED text) \/ Parsed

ParseSpec == ParseInit /\ [][ParseNext]_parser

-----------------------------------------------------------------------------
(* Properties *)

\* The unescaped string fits the buffer that was sized by the distance to the
\* closing quote, and the cursor stops at that quote (json.c:60).
DecodedFits ==
    /\ p <= Len(text) + 1
    /\ jpc = "string" => /\ p <= str.end
                         /\ Written(str.out) <= Spelled(Part(text, str.begin, p))

\* Every block allocated on the way is freed, wherever the text goes wrong.
NothingLeaks == jpc \in {"rejected", "freed"} => live = 0
=============
