---------------------------- MODULE MCPromptEditor ----------------------------
(* A letter of one byte and one of three, two columns wide, in a box of        *)
(* four columns, the narrowest there is.                                       *)
EXTENDS PromptEditor

MCChars == {"a", "wide", " ", "nl", "/", "backslash"}
MCBytes == [c \in MCChars |-> CASE c = "wide" -> 3 [] OTHER -> 1]
MCCols == [c \in MCChars |-> CASE c = "wide" -> 2 [] c = "nl" -> 0 [] OTHER -> 1]
MCCommands == {<<"a">>, <<"a", "wide">>}
MCPastes == {<<"wide", "wide", "wide">>, <<"a", "nl", "wide">>}
==============================================================================
