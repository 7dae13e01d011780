------------------------------ MODULE MCHexStages ------------------------------
(* Instances of HexStages for TLC.  A text is a few lexemes in a row.      *)
EXTENDS HexStages, SequencesExt

Texts(lexemes, n) == {FlattenSeq(s) : s \in BoundedSeq(lexemes, n)}

(* hex1 sources with names that are also hex digits, and half bytes.       *)
Hex1Texts == Texts({<<":", "a", "SP">>, <<":", "b", "LF">>, <<"%", "a", "SP">>,
                    <<"4", "2">>, <<"8">>, <<"#", "4", "CR", "LF">>,
                    <<";", "b", "LF">>}, 4)

(* hex2 sources.                                                           *)
Hex2Texts == Texts({<<":", "a", "SP">>, <<":", "b", ">", "8", "LF">>, <<"!", "a", "LF">>,
                    <<"@", "a", "TAB">>, <<"$", "b", "LF">>, <<"&", "a", "SP">>,
                    <<"%", "a", ">", "b", "SP">>, <<"8">>}, 4)

(* Anything goes: tokens and comments the text ends in, '~', and carriage  *)
(* returns on their own.                                                   *)
RawTexts == Texts({<<":">>, <<"%">>, <<"@">>, <<">">>, <<"~">>, <<"#">>,
                   <<"CR">>, <<"LF">>, <<"a">>}, 3)

StageTexts == Hex1Texts \cup Hex2Texts \cup RawTexts
=============================================================================
