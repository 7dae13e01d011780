---------------------------------- MODULE Hex2 ----------------------------------
(***************************************************************************)
(* hex2: labels of any length, references of one, two and four bytes, and  *)
(* name>base.  Two ports: "hex2", the linker of amd64, and "hex2.c", the C *)
(* program beside it, which gives the same answers but notices the end of  *)
(* the file.                                                               *)
(***************************************************************************)
EXTENDS HexTool

Hex2Ports == {"hex2", "hex2.c"}
Hex2First  == tool \in Hex2Ports /\ phase = "first"
Hex2Second == tool \in Hex2Ports /\ phase = "second"

Base == 6291456                                 \* 0x600000

PointerOps == {"!", "@", "$", "%", "&"}
Hex2Ops    == PointerOps \cup (IF tool = "hex2.c" THEN {"~"} ELSE {})

Width(c) == CASE c = "!" -> 1 [] c \in {"@", "$"} -> 2 [] c \in {"%", "&"} -> 4

(* A token stops at a blank or at '>', wherever it is read.                *)
TokenEnd(p) == FindFrom(input, p, Blank \cup {">"})

(* hex2 stores end of file for ever; hex2.c stops, and has stored it only  *)
(* when there was no token at all.                                         *)
Token(p) == IF AtEnd(input, p) THEN <<"EOF">> ELSE SubSeq(input, p, TokenEnd(p) - 1)
Endless(p) == tool = "hex2" /\ AtEnd(input, TokenEnd(p))

HasBase(p)      == ~AtEnd(input, TokenEnd(p)) /\ input[TokenEnd(p)] = ">"
BaseStart(p)    == TokenEnd(p) + 1
ReferenceEnd(p) == IF HasBase(p) THEN TokenEnd(BaseStart(p)) ELSE TokenEnd(p)
EndlessBase(p)  == HasBase(p) /\ Endless(BaseStart(p))

Hex2Comment(p) == FindFrom(input, p, {"LF", "CR"})
Hex2After == IF Char \in Comment THEN Skip(input, Hex2Comment(pos + 1), 1) ELSE pos + 1
Hex2Lost  == tool = "hex2" /\ Char \in Comment /\ AtEnd(input, Hex2Comment(pos + 1))

-----------------------------------------------------------------------------
Hex2Label ==
    /\ Hex2First /\ More /\ Char = ":"
    /\ IF Endless(pos + 1) THEN Stop("runaway")
       ELSE /\ Define(Token(pos + 1))
            /\ FpGoto(Skip(input, TokenEnd(pos + 1), 1), ip, half)

Hex2Skip ==
    /\ Hex2First /\ More /\ Char \in PointerOps
    /\ IF Endless(pos + 1) \/ EndlessBase(pos + 1) THEN Stop("runaway")
       ELSE /\ FpGoto(Skip(input, ReferenceEnd(pos + 1), 1), ip + Width(Char), half)
            /\ UNCHANGED <<labels, split>>

(* hex2.c takes '~' for a pointer and then has no size for it.             *)
Hex2Tilde == Hex2First /\ More /\ Char \in Hex2Ops \ PointerOps /\ Stop("failed")

(* The first pass of amd64 counts a byte at its first nibble, that of C at *)
(* its second.                                                             *)
Hex2CountBoth  == ip + 1                                    \* mutant
Hex2CountFirst == IF half THEN ip ELSE ip + 1
Hex2Count == IF tool = "hex2" THEN Hex2CountFirst
             ELSE IF half THEN ip + 1 ELSE ip

Hex2Measure ==
    /\ Hex2First /\ More /\ Char \notin {":"} \cup Hex2Ops
    /\ IF Hex2Lost THEN Stop("runaway")
       ELSE /\ IF Char \in HexDigit THEN FpGoto(Hex2After, Hex2Count, ~half)
                                    ELSE FpGoto(Hex2After, ip, half)
            /\ UNCHANGED <<labels, split>>

Hex2RewindKeepsIp == Hex2First /\ ~More /\ Rewind(ip)       \* mutant
Hex2Rewind        == Hex2First /\ ~More /\ Rewind(Base)

-----------------------------------------------------------------------------
Hex2Drop ==
    /\ Hex2Second /\ More /\ Char = ":"
    /\ IF Endless(pos + 1) THEN Stop("runaway")
       ELSE SpGoto(Skip(input, TokenEnd(pos + 1), 1)) /\ UNCHANGED <<ip, half, hold, out>>

(* GetTarget follows HEAD before it compares; only C tests it first.       *)
Hex2Reference == Hex2Second /\ More /\ Char \in PointerOps
Miss == IF tool = "hex2" /\ labels = << >> THEN "wild" ELSE "failed"

Hex2Stops ==
    /\ Hex2Reference
    /\ \/ Endless(pos + 1) /\ Stop("runaway")
       \/ ~Endless(pos + 1) /\ ~Defined(Token(pos + 1)) /\ Stop(Miss)
       \/ /\ ~Endless(pos + 1) /\ Defined(Token(pos + 1))
          /\ \/ EndlessBase(pos + 1) /\ Stop("runaway")
             \/ /\ HasBase(pos + 1) /\ ~Endless(BaseStart(pos + 1))
                /\ ~Defined(Token(BaseStart(pos + 1)))
                /\ Stop(Miss)

(* %, @ and ! are relative to the base or to the byte behind them, & and $ *)
(* absolute.                                                               *)
Hex2From ==
    IF Char \in {"&", "$"} THEN 0
    ELSE IF HasBase(pos + 1) THEN Target(Token(BaseStart(pos + 1))) ELSE ip + Width(Char)

Hex2Pointer ==
    /\ Hex2Reference
    /\ ~Endless(pos + 1) /\ Defined(Token(pos + 1))
    /\ HasBase(pos + 1) => /\ ~Endless(BaseStart(pos + 1))
                           /\ Defined(Token(BaseStart(pos + 1)))
    /\ out' = out \o PointerBytes(Target(Token(pos + 1)) - Hex2From, Width(Char))
    /\ ip' = ip + Width(Char)
    /\ SpGoto(Skip(input, ReferenceEnd(pos + 1), 1)) /\ UNCHANGED <<half, hold>>

Hex2Write ==
    /\ Hex2Second /\ More /\ Char \notin {":"} \cup Hex2Ops
    /\ IF Hex2Lost THEN Stop("runaway")
       ELSE /\ IF Char \in HexDigit THEN Toggle(Nibble(Char), 1)
                                    ELSE UNCHANGED <<ip, half, hold, out>>
            /\ SpGoto(Hex2After)

Hex2Done == Hex2Second /\ ~More /\ Stop("done")

Hex2Next == \/ Hex2Label \/ Hex2Skip \/ Hex2Tilde \/ Hex2Measure \/ Hex2Rewind
            \/ Hex2Drop \/ Hex2Stops \/ Hex2Pointer \/ Hex2Write \/ Hex2Done
=============================================================================
