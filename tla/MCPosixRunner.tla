---------------------------- MODULE MCPosixRunner ----------------------------
(* Instances of PosixRunner for TLC: the constants that are not numbers.   *)
EXTENDS PosixRunner

(* Guests that break the fork-then-execve discipline in every way, but set *)
(* a break in the area before they fork.                                   *)
BrkBeforeFork == Misuses \ {"fork_before_brk"}

(* A descriptor below the range, stdin, two files and one above the range. *)
SomeFds == {-1, 0, 3, 4, 5}
=============================================================================
