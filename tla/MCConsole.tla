----------------------------- MODULE MCConsole -----------------------------
(***************************************************************************)
(* A screen of two lines of four characters for Console.  The words of the *)
(* commands and the digits are one character each; Rules and one of the    *)
(* outputs have the blank line of the real texts.                          *)
(***************************************************************************)
EXTENDS Console

MCDigits == ("0" :> 0) @@ ("1" :> 1)
MCOutputs == {<<>>, <<"m", NL>>, <<NL, "m">>, <<"m", NL, NL>>}
MCPrompt == <<"/", ">", "_">>
MCUnknown == <<"u">>
MCRules == <<"m", NL, NL>>
MCAsk == <<"m", "?", "_">>
MCMessage == <<"m", NL>>
=============================================================================
