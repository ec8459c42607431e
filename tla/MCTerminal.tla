----------------------------- MODULE MCTerminal -----------------------------
(***************************************************************************)
(* Messages like the kernel's, and texts like the ones it prints for       *)
(* others, among them escape sequences that are wrong or cut off.          *)
(***************************************************************************)
EXTENDS Terminal

MCGlyph == {"a", " ", "[", ";", "m", "0", "1", "2", "3", "4", "5", "6", "8", "drawn esc"}

Prompt  == <<"esc", "[", "3", "4", ";", "1", "m", "a", "esc", "[", "0", "m">>
Panic   == <<"esc", "[", "4", "1", "m", "%s">>
MCFormats == {Prompt, Panic, <<"%s", "nl">>, <<"tab">>, <<"%c">>, <<"bs">>,
              <<"%?", "esc", "a", "esc", "[", "a">>}
MCResetting == {Prompt}
MCArguments == {"a", "drawn esc", "nl", "tab", "bs"}
MCTexts == {<<"a", "bs">>, <<"nl", "tab">>,
            <<"esc", "[", "3", "1", ";", "1", "m", "a">>, <<"esc", "[", "4", "8", "m">>,
            <<"esc", "[", "4">>, <<"esc", "[", "2", "5", "6", "m", "esc", "[", "3", ";", "4">>}
=============================================================================
