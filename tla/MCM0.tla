----------------------------------- MODULE MCM0 -----------------------------------
(* Instances of M0Expand for TLC.  A text is a few lexemes in a row.        *)
EXTENDS M0Expand

Texts(lexemes, n) == {FlattenSeq(s) : s \in BoundedSeq(lexemes, n)}

(* Words in every order, definitions that lack words among them.          *)
Words == { <<"DEFINE", "SP">>, <<"a", "LF">>, <<"\"", "a", "\"">>, <<"!", "1", "LF">> }

(* Whole definitions and redefinitions of a name, of a number and of the   *)
(* text of a string, and their uses before, between and after them.        *)
Define(name, value) == <<"DEFINE", "SP">> \o name \o <<"SP">> \o value \o <<"LF">>
DefinitionsOfA == { Define(<<"a">>, <<"1">>), Define(<<"a">>, <<"!", "1">>) }
Definitions == DefinitionsOfA \cup
    { Define(<<"!", "1">>, <<"a">>), Define(<<"\"", "a", "\"">>, <<"a">>) }

NameTexts == Texts(Words, 4)
               \cup Texts((Words \ {<<"DEFINE", "SP">>}) \cup Definitions, 3)
               \cup Texts(DefinitionsOfA \cup {<<"a", "LF">>}, 4)

(* Strings of both kinds up to and over the room there is, comments, zero  *)
(* bytes and text that stops anywhere.                                     *)
Fragments == Texts({ <<"\"">>, <<"'">>, <<"a">>, <<"a", "a", "a">>, <<"SP">>, <<"#">>, <<"LF">>,
                     <<"NUL">> }, 4)

(* The prefixes, two in front of the same number, in every form.           *)
Numerals == { <<"0">>, <<"1">>, <<"-", "1">>, <<"2", "0", "4", "7">>, <<"2", "0", "4", "8">>,
              <<"-", "2", "0", "4", "9">>, <<"0", "x", "1", "8", "A", "F">>,
              <<"0", "x", ":">>, <<"0", "x", "f">>, <<>> }
Signs == {"!", "@", "~", "%", "a"}
NumberTexts == { <<p>> \o n \o <<"LF">> \o <<q>> \o n \o <<"LF">> :
                   p \in Signs, q \in Signs, n \in Numerals }

(* A name that looks like a number, for what looks like its digits.        *)
RenamedTexts == { Define(<<p, "1">>, <<".", "1">>) \o <<"~", "1", "LF", "!", "1", "LF">> :
                    p \in {"~", "!"} }

M0Texts == NameTexts \cup Fragments \cup NumberTexts \cup RenamedTexts
==================================================================================
