------------------------------- MODULE MCRvTool -------------------------------
EXTENDS RvTool, TLC

(* Translating drops comments and marks what it keeps, so that a shorter   *)
(* output can meet an older longer one.                                    *)
MCTranslate(tool, text) ==
    LET Kept(b)   == b # "#"
        kept      == SelectSeq(text, Kept)
    IN  [k \in DOMAIN kept |-> tool \o "(" \o kept[k] \o ")"]

MCFiles == {"a", "b", "x", "y"}

Texts == { <<"1">>, <<"#", "2", "3">>, <<"4", "5", "6", "7", "#">> }

(* The sources may be missing, x may be there from an earlier build.       *)
MCDisks ==
    { ("a" :> ta @@ "b" :> tb @@ "x" :> tx @@ "y" :> Missing) :
        ta \in Texts \cup {Missing, << >>}, tb \in Texts \cup {Missing},
        tx \in {Missing, <<"8", "8", "8">>} }

Tool(tool, words) == [tool |-> tool, words |-> words]

(* A line of each kind, and the chains of the bootstrap: sources joined,   *)
(* then translated; what was translated joined with more and translated    *)
(* again.  catm also meets missing inputs, two spaces in a row, the same   *)
(* input twice, and its own output as the first input; the word behind the *)
(* output of a translator is left alone.                                   *)
Translators == {"hex1", "hex2", "M0"}

MCScripts ==
    { << Tool("catm", w), Tool(t, <<"x", "y">>) >> :
         t \in Translators, w \in { <<"x">>, <<"x", "a">>, <<"x", "a", "b">>, <<"x", "a", "a">>,
                                    <<"x", "", "a", "", "b">>, <<"x", "x", "b">>, <<"x", "a", "", "y">> } }
      \cup { << Tool(t, <<"a", "x">>), Tool("catm", <<"y", "b", "x">>), Tool(u, <<"y", "x", "b">>) >> :
             t \in Translators, u \in Translators }
================================================================================
