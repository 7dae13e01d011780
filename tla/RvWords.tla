-------------------------------- MODULE RvWords --------------------------------
(***************************************************************************)
(* 32-bit words and their bytes.  A word is a record of two 16-bit halves, *)
(* so that no number exceeds what TLC can hold.                            *)
(***************************************************************************)
EXTENDS Naturals, Integers, Sequences

Half == 0 .. 65535
Word == [hi : Half, lo : Half]

(* v & 0xFFFFFFFF                                                          *)
WordOf(v) == [hi |-> (v \div 65536) % 65536, lo |-> v % 65536]

(* Little-endian.                                                          *)
Bytes2(h) == <<h % 256, h \div 256>>
Bytes4(w) == Bytes2(w.lo) \o Bytes2(w.hi)
================================================================================
