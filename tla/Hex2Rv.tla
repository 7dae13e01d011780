-------------------------------- MODULE Hex2Rv --------------------------------
(***************************************************************************)
(* The riscv64 hex2 linker that gen-hex2-rv64.py emits: two passes over    *)
(* one text buffer.  The first pass counts the instruction pointer and     *)
(* prepends every label to a linked list; the second resolves references   *)
(* and writes the output.  The passes never exchange anything but the      *)
(* label list, so each must advance through the text, and count, exactly   *)
(* as the other does.                                                      *)
(*                                                                         *)
(* One action is one turn of a pass's main loop: the character that        *)
(* selects the operation and everything that operation reads.  A byte of   *)
(* output is kept as what it is made of: a pair of nibbles and the set of  *)
(* shift-register words XORed over it, or one byte of a pointer.  XOR of   *)
(* words is then symmetric difference of sets.                             *)
(***************************************************************************)
EXTENDS HexText, FiniteSets

CONSTANT
    Inputs       \* the texts to link

ASSUME Hex2RvAssumption == \A s \in Inputs : s \in Seq(STRING)

VARIABLES
    input,       \* the text between buf_start and buf_end
    phase,       \* "first", "second", "terminate", "returned", or "runaway":
                 \* a token loop at end of file, which never leaves the loop
    pos,         \* s4
    ip,          \* s10
    half,        \* s7: the first nibble of a byte has been read
    hold,        \* s8: that nibble
    labels,      \* the list from HEAD (s11): [name, target, at], newest first;
                 \* at, the position of the definition, is history
    sr,          \* s1: the words XORed into the shift register, with the
                 \* number of their bytes already shifted out
    out,         \* the output buffer
    fpIp,        \* fp_ip_data
    depth,       \* bytes the stack pointer is below the frame of _start
    seen         \* history: what the first pass was at the top of its loop

vars == <<input, phase, pos, ip, half, hold, labels, sr, out, fpIp, depth, seen>>

-----------------------------------------------------------------------------
ShiftOps   == {"~", "!", "@", "$"}
PointerOps == {"%", "&"}

More == ~AtEnd(input, pos)
Char == input[pos]

NameEndAtSpace(p) == FindFrom(input, p, {"SP", "TAB", ">"})   \* mutant

(* Where the name that begins at p stops, and the name itself.             *)
NameEnd(p)     == FindFrom(input, p, Blank \cup {">"})
Name(p, q)     == SubSeq(input, p, q - 1)

(* A reference is a name or name>base; only the second name runs on over   *)
(* further '>' characters.                                                 *)
HasBase(p)      == ~AtEnd(input, NameEnd(p)) /\ input[NameEnd(p)] = ">"
ReferenceEnd(p) == IF HasBase(p) THEN FindFrom(input, NameEnd(p) + 1, Blank) ELSE NameEnd(p)

(* Definitions are read by loops that do not stop at '>'.                  *)
DefinitionEnd(p) == FindFrom(input, p, Blank)

Resolved(name) == \E k \in DOMAIN labels : labels[k].name = name

GetTargetOldest(name) ==                                   \* mutant
    labels[CHOOSE k \in DOMAIN labels :
              /\ labels[k].name = name
              /\ \A j \in k + 1 .. Len(labels) : labels[j].name # name].target

(* GetTarget walks from HEAD: the newest definition of a name.             *)
GetTarget(name) ==
    labels[CHOOSE k \in DOMAIN labels :
              /\ labels[k].name = name
              /\ \A j \in 1 .. k - 1 : labels[j].name # name].target

(* A token loop that meets the end of file reads -4 for ever.              *)
Runaway == phase' = "runaway" /\ UNCHANGED <<pos, ip, half, hold, labels, sr, out, depth>>

-----------------------------------------------------------------------------
Init ==
    /\ input \in Inputs
    /\ phase = "first" /\ pos = 1 /\ ip = 0
    /\ half = FALSE /\ hold = 0
    /\ labels = << >> /\ sr = {} /\ out = << >>
    /\ fpIp = 0 /\ depth = 0
    /\ seen = {<<1, 0, FALSE>>}

-----------------------------------------------------------------------------
(* First pass *)

FirstPass == phase = "first" /\ More
FpGoto(p, i, h) ==
    /\ phase' = phase /\ pos' = p /\ ip' = i /\ half' = h
    /\ seen' = seen \cup {<<p, i, h>>}
    /\ UNCHANGED <<hold, sr, out, depth>>

StoreLabel ==
    /\ FirstPass /\ Char = ":"
    /\ LET q == DefinitionEnd(pos + 1) IN
       IF AtEnd(input, q) THEN Runaway /\ UNCHANGED seen
       ELSE /\ FpGoto(q + 1, ip, half)
            /\ labels' = <<[name |-> Name(pos + 1, q), target |-> ip, at |-> pos]>> \o labels
    /\ UNCHANGED <<input, fpIp>>

FpStepShort(c) == IF c \in PointerOps THEN 2 ELSE 0          \* mutant

(* References that go through the shift register take no room in the       *)
(* output, the others four bytes.                                          *)
FpStep(c) == IF c \in PointerOps THEN 4 ELSE 0

FpReference ==
    /\ FirstPass /\ Char \in ShiftOps \cup PointerOps
    /\ LET q == ReferenceEnd(pos + 1) IN
       IF AtEnd(input, q) THEN Runaway /\ UNCHANGED seen
       ELSE FpGoto(q + 1, ip + FpStep(Char), half) /\ UNCHANGED labels
    /\ UNCHANGED <<input, fpIp>>

(* Eight characters are thrown away whatever they are.                     *)
FpDot ==
    /\ FirstPass /\ Char = "."
    /\ FpGoto(Skip(input, pos, 9), ip, half)
    /\ UNCHANGED <<input, labels, fpIp>>

HexChar(c) == c \notin {":", "."} \cup ShiftOps \cup PointerOps

(* hex_func: where it leaves the text.                                     *)
AfterHex(c, p) == IF c \in Comment THEN AfterComment(input, p) ELSE p

FpCountEarly == ip + (IF half THEN 0 ELSE 1)                \* mutant
(* The instruction pointer moves with the second nibble.                   *)
FpCount == ip + (IF half THEN 1 ELSE 0)

FpHex ==
    /\ FirstPass /\ HexChar(Char)
    /\ IF Char \in HexDigit THEN FpGoto(pos + 1, FpCount, ~half)
                            ELSE FpGoto(AfterHex(Char, pos + 1), ip, half)
    /\ UNCHANGED <<input, labels, fpIp>>

FpDone ==
    /\ phase = "first" /\ ~More
    /\ phase' = "second" /\ pos' = 1 /\ fpIp' = ip /\ ip' = 0
    /\ half' = FALSE /\ hold' = 0 /\ sr' = {}
    /\ UNCHANGED <<input, labels, out, depth, seen>>

-----------------------------------------------------------------------------
(* Second pass *)

SecondPass == phase = "second" /\ More

(* store_pointer fails to find a label: it branches to terminate from      *)
(* inside two or three stack frames of 16 bytes.                           *)
Fail(frames) ==
    /\ phase' = "terminate" /\ depth' = 16 * frames
    /\ UNCHANGED <<half, hold, labels, sr, out>>

SpDrop ==
    /\ SecondPass /\ Char = ":"
    /\ LET q == DefinitionEnd(pos + 1) IN
       IF AtEnd(input, q) THEN Runaway
       ELSE /\ pos' = q + 1
            /\ UNCHANGED <<phase, ip, half, hold, labels, sr, out, depth>>
    /\ UNCHANGED <<input, fpIp, seen>>

(* What each operation puts into its instruction word: upper 20 bits for   *)
(* an AUIPC, the lower 12 for the instruction behind it, and the even      *)
(* displacements of a branch and of a jump.                                *)
Encode(c, disp) ==
    [op |-> c,
     field |-> CASE c = "~" -> ((disp + 2048) \div 4096) % 1048576
                 [] c = "!" -> (disp + 4) % 4096
                 [] c = "@" -> (disp \div 2) % 4096
                 [] c = "$" -> (disp \div 2) % 1048576]

Xor(word) == LET e == [word |-> word, shifted |-> 0]
             IN  (sr \ {e}) \cup ({e} \ sr)

PointerBytesShort(value) == [k \in 1 .. 2 |-> [pointer |-> value, byte |-> k]]  \* mutant
PointerBytes(value) == [k \in 1 .. 4 |-> [pointer |-> value, byte |-> k]]

(* The reference at pos: its name, its base, and the instruction pointer   *)
(* its displacement is measured from (already behind the pointer, for the  *)
(* operations that emit one).                                              *)
RefName == Name(pos + 1, NameEnd(pos + 1))
RefBase == Name(NameEnd(pos + 1) + 1, ReferenceEnd(pos + 1))
Here    == IF Char \in PointerOps THEN ip + 4 ELSE ip

NameEnds == ~AtEnd(input, NameEnd(pos + 1))
RefEnds  == ~AtEnd(input, ReferenceEnd(pos + 1))
BaseOK   == HasBase(pos + 1) => Resolved(RefBase)

SpReference == SecondPass /\ Char \in ShiftOps \cup PointerOps

SpUnterminated ==
    /\ SpReference
    /\ ~NameEnds \/ (Resolved(RefName) /\ ~RefEnds)
    /\ Runaway
    /\ UNCHANGED <<input, fpIp, seen>>

SpUnresolved ==
    /\ SpReference /\ NameEnds
    /\ \/ ~Resolved(RefName) /\ Fail(2)
       \/ Resolved(RefName) /\ RefEnds /\ ~BaseOK /\ Fail(3)
    /\ UNCHANGED <<input, pos, ip, fpIp, seen>>

(* % stores the distance from its base, & the target itself.               *)
SpPointer ==
    /\ SpReference /\ Char \in PointerOps
    /\ NameEnds /\ Resolved(RefName) /\ RefEnds /\ BaseOK
    /\ pos' = ReferenceEnd(pos + 1) + 1
    /\ ip' = Here
    /\ LET from == CASE Char = "&" -> 0
                     [] Char = "%" /\ HasBase(pos + 1) -> GetTarget(RefBase)
                     [] OTHER -> Here
       IN  out' = out \o PointerBytes(GetTarget(RefName) - from)
    /\ UNCHANGED <<input, phase, half, hold, labels, sr, fpIp, depth, seen>>

(* The shift-register operations measure from the instruction pointer even *)
(* when a base is given.                                                   *)
SpEncode ==
    /\ SpReference /\ Char \in ShiftOps
    /\ NameEnds /\ Resolved(RefName) /\ RefEnds /\ BaseOK
    /\ pos' = ReferenceEnd(pos + 1) + 1
    /\ sr' = Xor(Encode(Char, GetTarget(RefName) - Here))
    /\ UNCHANGED <<input, phase, ip, half, hold, labels, out, fpIp, depth, seen>>

(* Each of the eight reads goes through hex_func, so a comment character   *)
(* swallows the rest of its line and counts as one read.                   *)
NextRead(p)  == IF AtEnd(input, p) THEN p ELSE AfterHex(input[p], p + 1)
ReadValue(p) == IF ~AtEnd(input, p) /\ input[p] \in HexDigit THEN Nibble(input[p]) ELSE -1

(* Where n reads from p on end and the nibbles they got, as a singleton.   *)
Reads(p, n) ==
    LET read[k \in 0 .. n] ==
          IF k = 0 THEN {<<p, << >>>>}
          ELSE {<<NextRead(r[1]), Append(r[2], ReadValue(r[1]))>> : r \in read[k - 1]}
    IN  read[n]

SpDot ==
    /\ SecondPass /\ Char = "."
    /\ \E r \in Reads(pos + 1, 8) :
          /\ pos' = r[1]
          /\ sr' = Xor([op |-> ".", field |-> r[2]])
    /\ UNCHANGED <<input, phase, ip, half, hold, labels, out, fpIp, depth, seen>>

(* The lowest byte of every word in the register, and the register without *)
(* it: after four bytes a word is gone.                                    *)
LowByte == {[word |-> e.word, byte |-> e.shifted] : e \in sr}
Shift   == {[e EXCEPT !.shifted = @ + 1] : e \in {x \in sr : x.shifted < 3}}

SpHex ==
    /\ SecondPass /\ HexChar(Char)
    /\ pos' = AfterHex(Char, pos + 1)
    /\ CASE Char \notin HexDigit -> UNCHANGED <<ip, half, hold, sr, out>>
         [] Char \in HexDigit /\ ~half ->
              half' = TRUE /\ hold' = Nibble(Char) /\ UNCHANGED <<ip, sr, out>>
         [] OTHER ->
              /\ out' = Append(out, [value |-> hold * 16 + Nibble(Char), xor |-> LowByte])
              /\ sr' = Shift
              /\ half' = FALSE /\ ip' = ip + 1
              /\ UNCHANGED hold
    /\ UNCHANGED <<input, phase, labels, fpIp, depth, seen>>

SpDone ==
    /\ phase = "second" /\ ~More
    /\ phase' = "terminate"
    /\ UNCHANGED <<input, pos, ip, half, hold, labels, sr, out, fpIp, depth, seen>>

(* The output is written, everything is closed, and the registers of the   *)
(* caller are loaded from the frame the stack pointer points at.           *)
Terminate ==
    /\ phase = "terminate"
    /\ phase' = "returned"
    /\ UNCHANGED <<input, pos, ip, half, hold, labels, sr, out, fpIp, depth, seen>>

Next == \/ StoreLabel \/ FpReference \/ FpDot \/ FpHex \/ FpDone
        \/ SpDrop \/ SpUnterminated \/ SpUnresolved \/ SpPointer \/ SpEncode
        \/ SpDot \/ SpHex \/ SpDone \/ Terminate

Spec == Init /\ [][Next]_vars
FairSpec == Spec /\ WF_vars(Next)

-----------------------------------------------------------------------------
(* Properties *)

Word == [op : {"~", "!", "@", "$"}, field : {n \in Nat : n < 1048576}]
Mask == [op : {"."}, field : [1 .. 8 -> -1 .. 15]]

TypeOK ==
    /\ phase \in {"first", "second", "terminate", "returned", "runaway"}
    /\ pos \in 1 .. Len(input) + 1
    /\ ip \in Nat /\ fpIp \in Nat /\ depth \in Nat
    /\ half \in BOOLEAN /\ hold \in 0 .. 15
    /\ \A k \in DOMAIN labels : /\ labels[k].target \in 0 .. 4 * Len(input)
                               /\ labels[k].at \in DOMAIN input
    /\ \A e \in sr : e.word \in (IF e.word.op = "." THEN Mask ELSE Word) /\ e.shifted \in 0 .. 3
    /\ seen \subseteq (1 .. Len(input) + 1) \X Nat \X BOOLEAN

(* The first pass counts the eight characters of a dot, the second reads   *)
(* them with hex_func, which skips a comment: no comment begins in a dot.  *)
CleanDots == \A p \in DOMAIN input : input[p] = "." =>
                \A q \in (p + 1 .. p + 8) \cap DOMAIN input : input[q] \notin Comment

(* Whenever the second pass meets a definition, it has counted to the      *)
(* address the first pass recorded for that very definition: the passes    *)
(* skip names, references, dots and comments over the same characters.     *)
LabelsExact ==
    CleanDots /\ SecondPass /\ Char = ":" =>
        \E k \in DOMAIN labels : labels[k].at = pos /\ labels[k].target = ip

(* "fp_IP == sp_IP": a link that succeeds ends both passes at the same     *)
(* instruction pointer, over the text between buf_start and buf_end.  The  *)
(* comment at the exit code says otherwise of "every large-input hex2      *)
(* invocation"; the passes themselves cannot differ on one.                *)
PassesMeet ==
    CleanDots /\ phase \in {"terminate", "returned"} /\ depth = 0 => ip = fpIp

(* The instruction pointer is the number of bytes in the output buffer,    *)
(* whichever mixture of pairs and pointers produced them.                  *)
OutputCounted == phase = "second" => Len(out) = ip

(* Every name has a blank behind it.                                       *)
NamesEnd == \A p \in DOMAIN input : input[p] \in {":"} \cup ShiftOps \cup PointerOps =>
               \E q \in p + 1 .. Len(input) : input[q] \in Blank

(* A text whose names are all terminated is linked, or given up, in the    *)
(* end: no token loop of either pass runs past the text, where it would    *)
(* never stop.                                                             *)
Terminates == CleanDots /\ NamesEnd => <>(phase = "returned")

(* "ret to UEFI": when terminate restores the registers of the caller, the *)
(* stack pointer is back at the frame in which _start saved them.          *)
ReturnsToCaller == phase = "returned" => depth = 0
=============================================================================
