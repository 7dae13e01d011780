------------------------------- MODULE HexStages -------------------------------
(***************************************************************************)
(* The hex assemblers one after the other over the same text: what each    *)
(* stage of the bootstrap and each port of it makes of a source that an    *)
(* earlier stage, or another port, accepts.                                *)
(***************************************************************************)
EXTENDS Hex0, Hex1, Hex2

CONSTANT
    Inputs       \* the texts to assemble

ASSUME HexStagesAssumption == \A s \in Inputs : s \in Seq(STRING)

VARIABLE
    results      \* what the tools that have stopped left: where, and the output

vars == <<tool, results, toolVars>>

Tools == << "hex0", "hex0.rv", "hex1", "hex1.rv", "hex2", "hex2.c" >>
Stopped == {"done", "failed", "runaway", "wild"}

(* What a tool starts from.                                                *)
Entry(t) == IF t \in Hex0Ports THEN "second" ELSE "first"
Start(t) == IF t \in Hex2Ports THEN Base ELSE 0

Init ==
    /\ input \in Inputs
    /\ tool = Tools[1] /\ phase = Entry(Tools[1])
    /\ pos = 1 /\ ip = Start(Tools[1]) /\ half = FALSE /\ hold = 0
    /\ labels = << >> /\ out = << >> /\ fpIp = 0 /\ split = FALSE
    /\ results = << >>

Run == (Hex0Next \/ Hex1Next \/ Hex2Next) /\ UNCHANGED <<tool, results>>

NextTool ==
    /\ phase \in Stopped /\ Len(results) < Len(Tools)
    /\ results' = Append(results, [end |-> phase, out |-> out, split |-> split])
    /\ IF Len(results) + 1 = Len(Tools)
       THEN UNCHANGED <<tool, toolVars>>
       ELSE LET t == Tools[Len(results) + 2] IN
            /\ tool' = t /\ phase' = Entry(t) /\ ip' = Start(t)
            /\ pos' = 1 /\ half' = FALSE /\ hold' = 0
            /\ labels' = << >> /\ out' = << >> /\ fpIp' = 0 /\ split' = FALSE
            /\ UNCHANGED input

Next == Run \/ NextTool

Spec == Init /\ [][Next]_vars
FairSpec == Spec /\ WF_vars(Next)

-----------------------------------------------------------------------------
(* Texts *)

(* Every comment is closed, and a carriage return is half of a line end.   *)
CommentsClosed ==
    /\ \A p \in DOMAIN input : input[p] = "CR" => p < Len(input) /\ input[p + 1] = "LF"
    /\ \A p \in DOMAIN input : input[p] \in Comment =>
          \E q \in p .. Len(input) : input[q] = "LF"

(* The language of hex0, and that of hex1 as far as hex2 reads it: one     *)
(* character and a blank.                                                  *)
Hex0Text == \A p \in DOMAIN input : input[p] \notin {":", "~"} \cup PointerOps
Hex1Text == \A p \in DOMAIN input :
               /\ input[p] \notin {"~"} \cup (PointerOps \ {"%"})
               /\ input[p] \in {":", "%"} =>
                     p + 2 <= Len(input) /\ input[p + 1] \in {"a", "b"} /\ input[p + 2] \in Blank

(* Every name of hex2 has a blank somewhere behind it.                     *)
NamesEnd == \A p \in DOMAIN input : input[p] \in {":"} \cup PointerOps =>
               \E q \in p + 1 .. Len(input) : input[q] \in Blank

-----------------------------------------------------------------------------
(* Properties *)

TypeOK ==
    /\ tool \in {Tools[k] : k \in DOMAIN Tools}
    /\ phase \in {"first", "second"} \cup Stopped
    /\ pos \in 1 .. Len(input) + 1
    /\ ip \in Nat /\ fpIp \in Nat
    /\ half \in BOOLEAN /\ hold \in 0 .. 15 /\ split \in BOOLEAN
    /\ \A k \in DOMAIN labels : labels[k].target \in Nat /\ labels[k].at \in DOMAIN input
    /\ Len(results) <= Len(Tools)

Result(t) == results[CHOOSE k \in DOMAIN Tools : Tools[k] = t]
Finished  == Len(results) = Len(Tools)

(* A source for hex0 means the same to every later stage and every port:   *)
(* "hex1 is a simple extension of hex0".                                   *)
Hex0Extended ==
    Finished /\ CommentsClosed /\ Hex0Text =>
        \A k \in DOMAIN results : results[k].end = "done" /\ results[k].out = results[1].out

(* A source for hex1, its labels defined, means the same to both ports of  *)
(* hex1 and to hex2; and to hex2.c when no label is inside a byte.         *)
Hex1Extended ==
    Finished /\ CommentsClosed /\ Hex1Text /\ Result("hex2").end = "done" =>
        /\ Result("hex1").out = Result("hex2").out
        /\ Result("hex1.rv").out = Result("hex2").out
        /\ ~Result("hex1").split => Result("hex2.c").out = Result("hex2").out

(* The two forms of hex0 write the same bytes for every text the first one *)
(* returns from.  hex2 and its C twin write the same bytes and stop in the *)
(* same way, as long as tokens and comments end, no label is inside a byte *)
(* and the text has a definition and no '~'.                               *)
PortsAgree ==
    /\ Finished /\ Result("hex0").end = "done" => Result("hex0.rv") = Result("hex0")
    /\ /\ Finished /\ CommentsClosed /\ NamesEnd
       /\ \A p \in DOMAIN input : input[p] # "~"
       /\ Result("hex2").end # "wild" /\ ~Result("hex2").split
       => Result("hex2") = Result("hex2.c")

(* When the second pass meets a definition, it has counted to the address  *)
(* the first pass recorded there; inside a byte, a first pass that counts  *)
(* at the first nibble is one ahead.                                       *)
CountsAhead == half /\ tool # "hex2.c"
LabelsExact ==
    phase = "second" /\ tool \notin Hex0Ports /\ More /\ Char = ":" =>
        \E k \in DOMAIN labels :
            labels[k].at = pos /\ labels[k].target = ip + (IF CountsAhead THEN 1 ELSE 0)

(* "If the file ended (0 bytes read) terminate": hex0 goes through its      *)
(* clean-up with the values it saved for it.                               *)
Hex0Returns == tool = "hex0" => phase # "wild"

(* The second pass has written one byte per address.  The first has ended  *)
(* at the same address; or, if a lone first nibble is left over and it is  *)
(* counted when it is met (all tools but hex2.c), exactly one past it: in  *)
(* gen-hex1-rv64.py, too, whose docstring says that the address advances   *)
(* once per complete pair.                                                 *)
PassesMeet ==
    phase = "done" /\ tool \notin Hex0Ports =>
        /\ fpIp = ip + (IF CountsAhead THEN 1 ELSE 0)
        /\ Len(out) = ip - Start(tool)

(* Every tool comes to an end, on every text, but for the two of amd64,    *)
(* which do when tokens and comments end.                                  *)
Terminates ==
    <>(/\ Finished
       /\ \A k \in DOMAIN Tools : results[k].end = "runaway" =>
             Tools[k] \in {"hex1", "hex2"} /\ ~(CommentsClosed /\ NamesEnd))
=============================================================================
