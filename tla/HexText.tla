-------------------------------- MODULE HexText --------------------------------
(***************************************************************************)
(* The text the hex tools read: a sequence of characters, with the classes *)
(* their scanners tell apart.  A position is the index of the next         *)
(* character to read; reading at Len(s) + 1 is end of file.                *)
(***************************************************************************)
EXTENDS Naturals, Integers, Sequences

Blank   == {"SP", "TAB", "LF"}
Comment == {"#", ";"}

(* The characters that count for each nibble.                              *)
Digits == << {"0"}, {"1"}, {"2"}, {"3"}, {"4"}, {"5"}, {"6"}, {"7"}, {"8"},
             {"9"}, {"A", "a"}, {"B", "b"}, {"C", "c"}, {"D", "d"},
             {"E", "e"}, {"F", "f"} >>
HexDigit  == UNION {Digits[n] : n \in 1 .. 16}
Nibble(c) == (CHOOSE n \in 1 .. 16 : c \in Digits[n]) - 1

AtEnd(s, p) == p > Len(s)

(* The first position from p on that holds a character of Stop, or the end *)
(* of file.                                                                *)
FindFrom(s, p, Stop) ==
    CHOOSE q \in p .. Len(s) + 1 :
        /\ AtEnd(s, q) \/ s[q] \in Stop
        /\ \A r \in p .. q - 1 : s[r] \notin Stop

SkipUncapped(s, p, n) == p + n                              \* mutant

(* n reads from p on; the position stops at the end of file.               *)
Skip(s, p, n) == IF p + n > Len(s) THEN Len(s) + 1 ELSE p + n

(* Behind a comment whose text begins at p.                                *)
AfterComment(s, p) == Skip(s, FindFrom(s, p, {"LF"}), 1)
=============================================================================
