-------------------------------- MODULE M0Words --------------------------------
(***************************************************************************)
(* What the two M0 assemblers do with the text of one token: read it as a  *)
(* number and write numbers and strings in hexadecimal.                    *)
(*                                                                         *)
(* A text is a sequence of characters.  The word DEFINE is one character    *)
(* here: M0 only ever compares it as a whole.                              *)
(***************************************************************************)
EXTENDS RvWords, SequencesExt

Ascii == ("LF" :> 10) @@ ("SP" :> 32) @@ ("\"" :> 34) @@ ("#" :> 35) @@ ("'" :> 39)
           @@ ("1" :> 49) @@ ("a" :> 97) @@ ("NUL" :> 0)

hex1 == << "0", "1", "2", "3", "4", "5", "6", "7",
           "8", "9", "A", "B", "C", "D", "E", "F" >>

(* CH - '0', for the characters whose value is below 10.                   *)
Decimal == [c \in {"0", "1", "2", "3", "4", "5", "6", "7", "8", "9"} |->
              CHOOSE d \in 0 .. 9 : hex1[d + 1] = c]

(* The hexadecimal reader subtracts 7 from every character above '9': the  *)
(* punctuation between '9' and 'A' passes for 3 .. 9, lower case fails.    *)
AboveNine == << ":", ";", "<", "=", ">", "?", "@", "A", "B", "C", "D", "E", "F" >>

Hexadecimal ==
    [c \in DOMAIN Decimal \cup Range(AboveNine) |->
        IF c \in DOMAIN Decimal THEN Decimal[c]
        ELSE 2 + CHOOSE k \in DOMAIN AboveNine : AboveNine[k] = c]

Positional(s, base, digit) ==
    LET upTo[k \in 0 .. Len(s)] ==
            IF k = 0 THEN 0 ELSE upTo[k - 1] * base + digit[s[k]]
    IN  IF Range(s) \subseteq DOMAIN digit THEN upTo[Len(s)] ELSE 0

(* The number s spells, or 0.  Only its second character tells hexadecimal *)
(* from decimal; nothing looks at the one before the x.                    *)
numerate_string(s) ==
    IF Len(s) > 1 /\ s[2] = "x" THEN Positional(SubSeq(s, 3, Len(s)), 16, Hexadecimal)
    ELSE IF s # <<>> /\ s[1] = "-" THEN -Positional(Tail(s), 10, Decimal)
    ELSE Positional(s, 10, Decimal)

-----------------------------------------------------------------------------
(* The digits; where amd64 stores them is up to PointerFits (M0).          *)
hex8(byte)    == << hex1[(byte \div 16) + 1], hex1[(byte % 16) + 1] >>
hexBytes(s)   == FlattenSeq([k \in DOMAIN s |-> hex8(s[k])])
hex16l(h)     == hexBytes(Bytes2(h))
hex32l(w)     == hexBytes(Bytes4(w))

(* What riscv64 leaves of a value for each class of instruction, as a word *)
(* that hex2 XORs over the instruction's own encoding.                     *)
ImmediateI(v) == [hi |-> (v % 4096) * 16, lo |-> 0]
ImmediateS(v) == [hi |-> ((v % 4096) \div 32) * 512, lo |-> (v % 32) * 128]

ImmediateUTruncated(v) ==                                           \* mutant
    LET page == v \div 4096 IN [hi |-> (page \div 16) % 65536, lo |-> (page % 16) * 4096]

(* Rounded up when the low twelve bits will be sign extended.              *)
ImmediateU(v) ==
    LET page == (v \div 4096) + (IF v % 4096 >= 2048 THEN 1 ELSE 0)
    IN  [hi |-> (page \div 16) % 65536, lo |-> (page % 16) * 4096]

express_number_rv(v, prefix) ==
    CASE prefix = "%" -> hex32l(WordOf(v))
      [] prefix = "!" -> <<".">> \o hex32l(ImmediateI(v))
      [] prefix = "@" -> <<".">> \o hex32l(ImmediateS(v))
      [] prefix = "~" -> <<".">> \o hex32l(ImmediateU(v))

(* amd64: the width follows from the prefix, any other character is a byte.*)
express_number_amd64(v, prefix) ==
    CASE prefix = "%" -> hex32l(WordOf(v))
      [] prefix = "@" -> hex16l(v % 65536)
      [] OTHER        -> hex8(v % 256)

-----------------------------------------------------------------------------
(* The bytes of a string, each with the separator the port writes, and the *)
(* terminating zero.  s is the text behind the opening quote.              *)
HexString(port, s) ==
    FlattenSeq([k \in 1 .. Len(s) + 1 |->
        hex8(IF k > Len(s) THEN 0 ELSE Ascii[s[k]])
          \o (IF port = "riscv64" THEN <<"SP">> ELSE <<>>)])

(* amd64: the room a text of that length makes for its digits, and what    *)
(* the digits need, with the zero behind them.                             *)
HexifyRoomDown(length) == (length \div 4) * 8                        \* mutant

HexifyRoom(length) == ((length \div 4) + 1) * 8
HexifyNeed(length) == 2 * length + 1
================================================================================
