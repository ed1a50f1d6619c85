----------------------------- MODULE JsonGrammar -----------------------------
(***************************************************************************)
(* Which JSON value a text denotes, as a grammar: sets of values for the   *)
(* part of the text from i up to, not including, j.  It is the reference   *)
(* JsonParser is compared with, by operators that call themselves.         *)
(***************************************************************************)
EXTENDS JsonParser

-----------------------------------------------------------------------------
Blank(t, i, j) == \A k \in i .. j - 1 : t[k] = "blank"

\* The places where the part may be cut in two at e.
Cuts(t, i, j, e) == {k \in i .. j - 1 : t[k] = e}

\* The characters a string's inside stands for.
RECURSIVE Characters(_, _, _)
Characters(t, i, j) ==
    IF i >= j THEN IF i = j THEN {<<>>} ELSE {}
    ELSE IF t[i] = "quote" THEN {}
    ELSE IF t[i] # "bslash" THEN {<<t[i]>> \o s : s \in Characters(t, i + 1, j)}
    ELSE IF i + 4 <= j /\ Part(t, i, i + 4) = <<"bslash", "uD83D", "bslash", "uDE00">>
    THEN {<<"U+1F600">> \o s : s \in Characters(t, i + 4, j)}
    ELSE {<<Escape[t[k]]>> \o s : k \in {n \in {i + 1} : n < j /\ t[n] \in DOMAIN Escape},
                                  s \in Characters(t, i + 2, j)}

Strings(t, i, j) ==
    {Visible(s) : s \in IF j - i >= 2 /\ t[i] = "quote" /\ t[j - 1] = "quote"
                        THEN Characters(t, i + 1, j - 1) ELSE {}}

\* A number, as far as its spelling is modelled.
IsNumber(s) == /\ s # <<>> /\ Last(s) = "1"
               /\ \A k \in 2 .. Len(s) : s[k] = "1"
               /\ s[1] \in {"-", "1"}

RECURSIVE Values(_, _, _), Items(_, _, _), Pairs(_, _, _)

\* The value between i and j, with the white space around it.
Values(t, i, j) ==
    IF i >= j THEN {}
    ELSE IF t[i] = "blank" THEN Values(t, i + 1, j)
    ELSE IF t[j - 1] = "blank" THEN Values(t, i, j - 1)
    ELSE (IF Part(t, i, j) = <<"true">> THEN {<<"bool">>} ELSE {})
      \cup (IF IsNumber(Part(t, i, j)) THEN {<<"num", Part(t, i, j)>>} ELSE {})
      \cup {<<"str", s>> : s \in Strings(t, i, j)}
      \cup (IF t[i] = "[" /\ t[j - 1] = "]" /\ i + 1 < j
            THEN {<<"array", s>> : s \in Items(t, i + 1, j - 1)} ELSE {})
      \cup (IF t[i] = "{" /\ t[j - 1] = "}" /\ i + 1 < j
            THEN {<<"object", s>> : s \in Pairs(t, i + 1, j - 1)} ELSE {})

\* The items of an array.
Items(t, i, j) ==
    IF Blank(t, i, j) THEN {<<>>}
    ELSE {<<v>> : v \in Values(t, i, j)}
      \cup UNION {{<<v>> \o s : v \in Values(t, i, k), s \in Items(t, k + 1, j) \ {<<>>}}
                  : k \in Cuts(t, i, j, ",")}

\* One pair of an object: a string, a colon and a value.
Member(t, i, j) ==
    UNION {{<<name[2], v>> : name \in {n \in Values(t, i, k) : n[1] = "str"},
                             v \in Values(t, k + 1, j)}
           : k \in Cuts(t, i, j, ":")}

\* The pairs of an object.
Pairs(t, i, j) ==
    IF Blank(t, i, j) THEN {<<>>}
    ELSE {<<m>> : m \in Member(t, i, j)}
      \cup UNION {{<<m>> \o s : m \in Member(t, i, k), s \in Pairs(t, k + 1, j) \ {<<>>}}
                  : k \in Cuts(t, i, j, ",")}

\* The values a document denotes: at most one.
Denotes(t) == Values(t, 1, Len(t) + 1)
-----------------------------------------------------------------------------
(* buf_json_escape of src/server.c, the way back. *)

\* Mutant: the backslash is sent as it is.
EscapedNoBackslash(ch) == CASE ch = "LF" -> <<"bslash", "n">>
                            [] ch = "quote" -> <<"bslash", "quote">>
                            [] OTHER -> <<ch>>

Escaped(ch) == CASE ch = "LF" -> <<"bslash", "n">>
                 [] ch \in {"quote", "bslash"} -> <<"bslash", ch>>
                 [] OTHER -> <<ch>>

JsonEscape(s) == FlattenSeq([k \in DOMAIN s |-> Escaped(s[k])])

-----------------------------------------------------------------------------
(* Properties *)

\* A text is accepted exactly if it is JSON, and then the tree is the value it
\* denotes (json.h:28).  Numbers are spelled with a sign and digits; strings
\* end at an escaped NUL, as C strings do.
GrammarDecides ==
    /\ jpc = "accepted" => Denotes(text) = {ret.tree}
    /\ jpc = "rejected" => Denotes(text) = {}

\* A string the server escapes into a reply is read back as it was.
RepliesReadBack ==
    jpc = "accepted" /\ ret.tree[1] = "str" =>
        Denotes(<<"quote">> \o JsonEscape(ret.tree[2]) \o <<"quote">>) = {ret.tree}
=============================================================================
