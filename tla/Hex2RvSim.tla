------------------------------- MODULE Hex2RvSim -------------------------------
(* The riscv64 linker against its host-side reference simulator.           *)
EXTENDS Hex2Rv, Hex2Sim

(* Where the two are known to differ, although the simulator says that it  *)
(* "simulates exactly what the UEFI hex2 binary does": a definition inside *)
(* a byte, which the simulator has counted by then and the linker has not; *)
(* a '>' in a definition; a base behind a shift-register reference; and a  *)
(* dot without its eight digits.                                           *)
Similar ==
    /\ \A e \in seen : ~AtEnd(input, e[1]) /\ input[e[1]] = ":" => ~e[3]
    /\ \A p \in DOMAIN input :
          /\ input[p] = ":" => ~HasBase(p + 1)
          /\ input[p] \in ShiftOps => ~HasBase(p + 1)
          /\ input[p] = "." => \A q \in p + 1 .. p + 8 : q <= Len(input) /\ input[q] \in HexDigit

(* Whenever the linker returns from a text in which every name is defined  *)
(* and the two are not known to differ, it has written what the simulator  *)
(* writes: the two agree although one keeps a list of labels and the other *)
(* a dictionary, and their loops over names, dots and comments are written *)
(* differently.                                                            *)
MatchesSim == phase = "returned" /\ depth = 0 /\ Similar => out = Sim(input)
=============================================================================
