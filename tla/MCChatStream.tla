---------------------------- MODULE MCChatStream ----------------------------
(* ChatStream with two-letter texts, stop strings that overlap themselves  *)
(* and each other, and an empty one.                                       *)
EXTENDS ChatStream

MCByte      == {"a", "b"}
MCPieces    == {<<>>, <<"a">>, <<"b">>, <<"b", "a">>}
MCStopLists == {{}, {<<"a", "b">>}, {<<"a", "a", "b">>, <<"b">>},
                {<<"a", "b", "a">>, <<"b", "b">>}, {<<>>, <<"a">>}}
=============================================================================
