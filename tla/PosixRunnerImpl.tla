---------------------------- MODULE PosixRunnerImpl ----------------------------
(***************************************************************************)
(* PosixRunner implements ForkExec: the processes a guest believes in are  *)
(* reconstructed from the one heap and the pool of saved copies.           *)
(***************************************************************************)
EXTENDS PosixRunner

Unset == -1

(* The cells below break b of memory m, as ForkExec shows them.            *)
CellsIn(b) == IF b = NULL THEN Unset ELSE b - BrkBase
View(m, b) == [c \in Cells |-> IF c < CellsIn(b) THEN m[c] ELSE 0]

(* A suspended process is what the pool and its struct process hold ...    *)
SavedProcess(p) ==
    [brk |-> CellsIn(savedBrk[p]),
     heap |-> [c \in Cells |-> IF c < CellsIn(savedBrk[p]) THEN saved[savedAddr[p] + c] ELSE 0],
     image |-> savedImage[p], status |-> childExit[p]]

(* ... and the running one is what the shared memory holds.  After a       *)
(* failed execve it is still the forked child, whose break and program are *)
(* in its parent's struct process.                                         *)
LiveProcess ==
    [brk |-> CellsIn(brk[Running]), heap |-> View(heap, brk[Running]),
     image |-> image[Running], status |-> childExit[cur]]

ProcessStack ==
    LET depth == IF forked[cur] THEN cur + 1 ELSE cur
    IN  [p \in 1 .. depth |-> IF p < depth THEN SavedProcess(p) ELSE LiveProcess]

Promise == INSTANCE ForkExec WITH stack <- ProcessStack, over <- status # "running"

(* Every step of the runner is a step of separate processes, each with its *)
(* own memory, or changes nothing they can see.                            *)
ImplementsForkExec == Promise!Spec
=============================================================================
