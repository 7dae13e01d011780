---------------------------------- MODULE Hex1 ----------------------------------
(***************************************************************************)
(* hex1: labels of one character, and % for the distance to one in four    *)
(* bytes.  Two ports: "hex1", the assembler of amd64, and "hex1.rv", the   *)
(* code gen-hex1-rv64.py emits.                                            *)
(***************************************************************************)
EXTENDS HexTool

Hex1Ports == {"hex1", "hex1.rv"}
Hex1First  == tool \in Hex1Ports /\ phase = "first"
Hex1Second == tool \in Hex1Ports /\ phase = "second"

(* The character of a label; at the end of file neither port notices.  The *)
(* riscv64 port takes its cleared buffer for the character, amd64 the -4   *)
(* of Read_byte, whose slot is in front of the table.                      *)
Hex1Name == IF AtEnd(input, pos + 1) THEN <<"EOF">> ELSE <<input[pos + 1]>>
Hex1OffTable == tool = "hex1" /\ AtEnd(input, pos + 1)

(* A comment on amd64 ends with either half of a line end and hides the    *)
(* end of file; on riscv64 it ends with LF or the file.                    *)
Hex1Comment(p)     == FindFrom(input, p, {"LF", "CR"})
Hex1RvCommentCR(p) == FindFrom(input, p, {"CR"})            \* mutant
Hex1RvComment(p)   == FindFrom(input, p, {"LF"})
Hex1CommentEnd(p)  == IF tool = "hex1" THEN Hex1Comment(p) ELSE Hex1RvComment(p)
Hex1HidesBoth(p)   == AtEnd(input, Hex1CommentEnd(p))       \* mutant
Hex1Hides(p)       == tool = "hex1" /\ AtEnd(input, Hex1Comment(p))

(* Where hex leaves the text when it was called with the character at pos. *)
Hex1After == IF Char \in Comment THEN Skip(input, Hex1CommentEnd(pos + 1), 1)
                                 ELSE pos + 1
Hex1Lost  == Char \in Comment /\ Hex1Hides(pos + 1)

-----------------------------------------------------------------------------
Hex1Label ==
    /\ Hex1First /\ More /\ Char = ":"
    /\ IF Hex1OffTable THEN Stop("wild")
       ELSE Define(Hex1Name) /\ FpGoto(Skip(input, pos, 2), ip, half)

Hex1Skip ==
    /\ Hex1First /\ More /\ Char = "%"
    /\ FpGoto(Skip(input, pos, 2), ip + 4, half)
    /\ UNCHANGED <<labels, split>>

(* The first pass counts a byte at its first nibble.                       *)
Hex1CountBoth == ip + 1                                     \* mutant
Hex1Count     == IF half THEN ip ELSE ip + 1

Hex1Measure ==
    /\ Hex1First /\ More /\ Char \notin {":", "%"}
    /\ IF Hex1Lost THEN Stop("runaway")
       ELSE /\ IF Char \in HexDigit THEN FpGoto(Hex1After, Hex1Count, ~half)
                                    ELSE FpGoto(Hex1After, ip, half)
            /\ UNCHANGED <<labels, split>>

Hex1Rewind == Hex1First /\ ~More /\ Rewind(0)

-----------------------------------------------------------------------------
Hex1DropNothing ==                                          \* mutant
    /\ Hex1Second /\ More /\ Char = ":"
    /\ SpGoto(pos + 1) /\ UNCHANGED <<ip, half, hold, out>>

Hex1Drop ==
    /\ Hex1Second /\ More /\ Char = ":"
    /\ SpGoto(Skip(input, pos, 2)) /\ UNCHANGED <<ip, half, hold, out>>

(* The slot of a label that was never defined, and the one in front of the *)
(* table, hold what memory held.                                           *)
Hex1Distance ==
    IF Defined(Hex1Name) THEN PointerBytes(Target(Hex1Name) - (ip + 4), 4)
    ELSE [k \in 1 .. 4 |-> [slot |-> Hex1Name, byte |-> k]]

Hex1Pointer ==
    /\ Hex1Second /\ More /\ Char = "%"
    /\ out' = out \o Hex1Distance /\ ip' = ip + 4
    /\ SpGoto(Skip(input, pos, 2)) /\ UNCHANGED <<half, hold>>

Hex1Write ==
    /\ Hex1Second /\ More /\ Char \notin {":", "%"}
    /\ IF Hex1Lost THEN Stop("runaway")
       ELSE /\ IF Char \in HexDigit THEN Toggle(Nibble(Char), 1)
                                    ELSE UNCHANGED <<ip, half, hold, out>>
            /\ SpGoto(Hex1After)

Hex1Done == Hex1Second /\ ~More /\ Stop("done")

Hex1Next == \/ Hex1Label \/ Hex1Skip \/ Hex1Measure \/ Hex1Rewind
            \/ Hex1Drop \/ Hex1Pointer \/ Hex1Write \/ Hex1Done
=============================================================================
