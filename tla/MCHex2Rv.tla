------------------------------- MODULE MCHex2Rv -------------------------------
(* Instances of Hex2Rv for TLC.  A text is a few lexemes in a row.         *)
EXTENDS Hex2RvSim, SequencesExt

(* One of each operation, every reference terminated; names that are also  *)
(* hex digits, so that a pass that stops early misreads them as code.      *)
Complete == { <<":", "a", "SP">>, <<":", "b", "TAB">>,
              <<"%", "a", "LF">>, <<"&", "b", "LF">>, <<"%", "a", ">", "b", "SP">>,
              <<"!", "b", "LF">>, <<"@", "a", ">", "b", "LF">>,
              <<".", "1", "2", "3", "4", "5", "6", "7", "F">>,
              <<"4", "2">>, <<"#", "4", ":", "a", "LF">> }

Texts(lexemes, n) == {FlattenSeq(s) : s \in BoundedSeq(lexemes, n)}

(* Two labels defined and referenced, without the base of a shift-register *)
(* operation, which the simulator's first pass does not skip.              *)
SimTexts == Texts(Complete \ {<<"@", "a", ">", "b", "LF">>}, 4)

(* Half bytes between the operations, and a definition with a '>'.         *)
PairTexts == Texts((Complete \ {<<"&", "b", "LF">>, <<":", "b", "TAB">>})
                     \cup {<<"8">>, <<":", "a", ">", "b", "SP">>}, 4)

(* Anything goes: unterminated names, dots that swallow operations, and    *)
(* comments inside a dot, after which the passes read different text.      *)
RawTexts == Texts({<<".", "#", "LF", "1", "1", "1", "1", "1", "1">>, <<".">>,
                   <<"%">>, <<":">>, <<">">>, <<"a", "SP">>}, 5)

PassTexts == PairTexts \cup RawTexts \cup SimTexts

(* The name of a reference may have no definition.                         *)
LooseTexts == Texts({<<":", "b", "SP">>, <<"%", "b", "SP">>, <<"@", "b", "SP">>, <<"8">>}, 4)
=============================================================================
