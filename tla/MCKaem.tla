--------------------------------- MODULE MCKaem ---------------------------------
(* Instances of Kaem for TLC.  A script is a few lines; a word is one      *)
(* character: k is kaem, t a program, d the default script, s another one, *)
(* o what programs write, z no file.                                       *)
EXTENDS KaemImpl

MCDefault == <<"d">>
MCOutputs == {<<"o">>}

Program == [kind |-> "tool", text |-> << >>]
KaemImage == [kind |-> "kaem", text |-> << >>]
Script(text) == [kind |-> "data", text |-> text]
MCProducts == {Program, KaemImage}

Texts(lines, n) == {FlattenSeq(s) : s \in BoundedSeq(lines, n)}

PlainLines == { << "LF" >>, << "#", "t", "SP", "o", "LF" >>,
                << "t", "SP", "o", "LF" >>, << "t", "SP", "a", "SP", "b", "LF" >>,
                << "o", "SP", "s", "LF" >>, << "k", "SP", "s", "LF" >>,
                << "k", "SP", "z", "LF" >> }

(* Lines on which the ports differ: no argument, a comment behind the      *)
(* command or up to a carriage return, a space in front, a script in place *)
(* of a program, a line as long as the buffer.                             *)
OddLines == { << "t", "LF" >>, << "k", "LF" >>, << "t", "SP", "#", "LF" >>,
              << "#", "CR", "t", "SP", "a", "LF" >>, << "SP", "t", "SP", "a", "LF" >>,
              << "s", "SP", "a", "LF" >>,
              << "t", "SP", "a", "SP", "a", "SP", "a", "SP", "LF" >> }

Unended == { << "#" >>, << "t", "SP", "a" >> }

NestedTexts == { << >>, << "#", "LF", "t", "SP", "o", "LF" >>, << "z", "SP", "z", "LF" >> }

MCDisks ==
    { (<<"k">> :> KaemImage) @@ (<<"t">> :> Program) @@ (<<"d">> :> Script(d)) @@ (<<"s">> :> Script(s)) :
        d \in Texts(PlainLines, 3)
                \cup Texts(OddLines \cup {<< "t", "SP", "o", "LF" >>, << "k", "SP", "s", "SP", "z", "LF" >>}, 2)
                \cup {a \o b : a \in Texts(PlainLines, 1), b \in Unended},
        s \in NestedTexts }

(* Started without an argument, and with one that names a missing script.  *)
MCRootOptions == { << "k" >>, << "k", "SP", "s", "SP", "a" >>, << "k", "SP", "z" >> }
=============================================================================
