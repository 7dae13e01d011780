-------------------------------- MODULE HexTool --------------------------------
(***************************************************************************)
(* What the hex assemblers of the bootstrap have in common: they read a    *)
(* text one character at a time and write bytes.  hex1 and hex2 read it    *)
(* twice, counting addresses first and writing afterwards; between the     *)
(* passes they keep labels only.                                           *)
(*                                                                         *)
(* A byte of output is a pair of nibbles, one byte of a pointer, or one    *)
(* byte of a table slot nobody has written.                                *)
(***************************************************************************)
EXTENDS HexText

VARIABLES
    tool,        \* whose code runs, see HexStages
    input,       \* the text of fin
    phase,       \* "first", "second" (hex0 has only this one), or where the
                 \* tool stopped: "done"; "failed", with an exit code;
                 \* "runaway", in a loop that ignores the end of file; "wild",
                 \* in a call, a read or a write through a pointer that is none
    pos,         \* the file position of fin
    ip,          \* the instruction pointer
    half, hold,  \* the toggle and the first nibble
    labels,      \* definitions [name, target, at], newest first; at, the
                 \* position of the definition, is history
    out,         \* what was written to fout
    fpIp,        \* history: the instruction pointer the first pass ended at
    split        \* history: a label was defined between two nibbles

toolVars == <<input, phase, pos, ip, half, hold, labels, out, fpIp, split>>

More == ~AtEnd(input, pos)
Char == input[pos]

PointerBytes(value, n) == [k \in 1 .. n |-> [pointer |-> value, byte |-> k]]

(* The newest definition of name.                                          *)
Defined(name) == \E k \in DOMAIN labels : labels[k].name = name
Target(name)  ==
    labels[CHOOSE k \in DOMAIN labels :
              /\ labels[k].name = name
              /\ \A j \in 1 .. k - 1 : labels[j].name # name].target

Define(name) ==
    /\ labels' = <<[name |-> name, target |-> ip, at |-> pos]>> \o labels
    /\ split' = (split \/ half)

(* A character read in the first or the second pass, which leaves the      *)
(* text at p.                                                              *)
FpGoto(p, i, h) == /\ pos' = p /\ ip' = i /\ half' = h
                   /\ UNCHANGED <<input, phase, hold, out, fpIp>>
SpGoto(p)       == /\ pos' = p
                   /\ UNCHANGED <<input, phase, labels, fpIp, split>>

Stop(where) == /\ phase' = where
               /\ UNCHANGED <<input, pos, ip, half, hold, labels, out, fpIp, split>>

(* A nibble in the second pass: kept, or the second half of a byte.        *)
Toggle(n, count) ==
    IF half
    THEN /\ out' = Append(out, [value |-> hold * 16 + n])
         /\ half' = FALSE /\ ip' = ip + count
         /\ UNCHANGED hold
    ELSE /\ half' = TRUE /\ hold' = n
         /\ UNCHANGED <<ip, out>>

(* fin rewound for the second pass.                                        *)
Rewind(base) ==
    /\ phase' = "second" /\ pos' = 1 /\ ip' = base /\ fpIp' = ip
    /\ half' = FALSE /\ hold' = 0
    /\ UNCHANGED <<input, labels, out, split>>
=============================================================================
