---------------------------------- MODULE Hex0 ----------------------------------
(* hex0: one pass, which ends wherever the end of file is read.  Its port   *)
(* to riscv64 is "hex0.rv".                                                *)
EXTENDS HexTool

Hex0Ports == {"hex0", "hex0.rv"}
Hex0Turn  == tool \in Hex0Ports /\ phase = "second"

Hex0Digit ==
    /\ Hex0Turn /\ More /\ Char \in HexDigit
    /\ Toggle(Nibble(Char), 0)
    /\ SpGoto(pos + 1)

Hex0Comment(p) == FindFrom(input, p, {"LF"})

Hex0Purge ==
    /\ Hex0Turn /\ More /\ Char \in Comment
    /\ ~AtEnd(input, Hex0Comment(pos + 1))
    /\ SpGoto(Hex0Comment(pos + 1) + 1) /\ UNCHANGED <<ip, half, hold, out>>

(* On amd64 read_byte goes to terminate itself, which finds what it cleans *)
(* up on the stack; out of purge_comment the toggle and a return address   *)
(* lie above it, and rootdir->close is called through the toggle.  On      *)
(* riscv64 purge_comment returns, and the main loop reads the end of file. *)
Hex0PurgeAtEof ==
    /\ Hex0Turn /\ More /\ Char \in Comment
    /\ AtEnd(input, Hex0Comment(pos + 1))
    /\ IF tool = "hex0" THEN Stop("wild")
       ELSE SpGoto(Len(input) + 1) /\ UNCHANGED <<ip, half, hold, out>>

Hex0Other ==
    /\ Hex0Turn /\ More /\ Char \notin HexDigit \cup Comment
    /\ SpGoto(pos + 1) /\ UNCHANGED <<ip, half, hold, out>>

Hex0Eof == Hex0Turn /\ ~More /\ Stop("done")

Hex0Next == Hex0Digit \/ Hex0Purge \/ Hex0PurgeAtEof \/ Hex0Other \/ Hex0Eof
=============================================================================
