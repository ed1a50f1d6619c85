---------------------------- MODULE MCJsonParser ----------------------------
(* JsonParser on every short text, on every short string, and on larger      *)
(* documents and everything one edit away from them.                         *)
EXTENDS JsonGrammar

CONSTANTS ShortLen,      \* the longest text of arbitrary elements
          StringLen      \* the longest string of arbitrary elements

\* What strings are made of, besides the elements that are nothing special there.
InString == DOMAIN Escape \cup {"a", "u"}

Documents ==
    {<<"[", "{", "quote", "a", "quote", ":", "1", "}", ",", "true", "]">>,
     <<"{", "quote", "quote", ":", "[", "1", ",", "1", "]", "}">>,
     <<"{", "quote", "a", "quote", ":", "true", ",", "quote", "n", "quote", ":", "{", "}", "}">>,
     <<"[", "[", "-", "1", "]", ",", "[", "]", "]">>,
     <<"[", "quote", "bslash", "quote", "quote", ",", "quote", "]", "quote", "]">>,
     <<"blank", "[", "{", "}", "blank", ",", "blank", "1", "1", "]", "blank">>}

Edited(t) == {t} \cup {RemoveAt(t, k) : k \in DOMAIN t}
                 \cup {ReplaceAt(t, k, e) : k \in DOMAIN t, e \in Elements}
                 \cup {InsertAt(t, k, e) : k \in 1 .. Len(t) + 1, e \in Elements}

MCTexts == SeqOf(Elements, ShortLen)
             \cup {<<"quote">> \o s \o <<"quote">> : s \in SeqOf(InString, StringLen)}
             \cup UNION {Edited(t) : t \in Documents}
=============================================================================
