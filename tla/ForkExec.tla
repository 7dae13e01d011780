------------------------------- MODULE ForkExec -------------------------------
(***************************************************************************)
(* What a guest of posix-runner is promised: POSIX fork, execve, brk and   *)
(* exit with a parent that waits for its child.  Every process has memory  *)
(* of its own.  Processes form a stack: fork pushes a copy of the caller,  *)
(* only the top one runs, and its exit pops it and lets the parent go on   *)
(* with exactly the process it was.  PosixRunner keeps all of them in one  *)
(* memory and implements this.                                             *)
(***************************************************************************)
EXTENDS Naturals, Sequences

CONSTANTS
    HeapSize,    \* cells a process may have below its break
    Unset,       \* the break of a process that never asked for it
    Byte,        \* values of a cell
    Images,      \* contents of a program and its stack
    Codes        \* exit values

Cells == 0 .. HeapSize - 1

VARIABLES
    stack,       \* the processes, the running one last
    over         \* the runner has ended

vars == <<stack, over>>

(* A process: its break as a number of cells, the cells below it (the      *)
(* others read 0), its program, and the status its wait would report.      *)
Process == [brk : (0 .. HeapSize) \cup {Unset}, heap : [Cells -> Byte],
            image : Images, status : Codes \cup {0}]

Fresh(i) == [brk |-> Unset, heap |-> [c \in Cells |-> 0], image |-> i, status |-> 0]

Top == stack[Len(stack)]
Replace(p) == stack' = [stack EXCEPT ![Len(stack)] = p]

Init == /\ \E i \in Images : stack = <<Fresh(i)>>
        /\ over = FALSE

Store(c, b) == /\ Top.brk # Unset /\ c < Top.brk
               /\ Replace([Top EXCEPT !.heap[c] = b])

Patch(i) == Replace([Top EXCEPT !.image = i])

(* Cells above the new break are given up; new ones read 0.                *)
Brk(n) == Replace([Top EXCEPT !.brk = n,
                              !.heap = [c \in Cells |-> IF c < n THEN @[c] ELSE 0]])

Fork == stack' = Append(stack, Top)

(* A program that replaces a forked child starts with no heap; one that    *)
(* replaces itself keeps the heap it has.                                  *)
Exec(i) == Replace(Fresh(i)) \/ Patch(i)

(* A child whose execve failed no longer has children to wait for.         *)
ExecFails == Replace([Top EXCEPT !.status = 0])

Exit(value) ==
    /\ Len(stack) > 1
    /\ stack' = [p \in 1 .. Len(stack) - 1 |->
                   IF p = Len(stack) - 1 THEN [stack[p] EXCEPT !.status = value]
                                         ELSE stack[p]]

(* The runner may give up at any time, in the middle of an execve too.     *)
End == over' = TRUE /\ (UNCHANGED stack \/ ExecFails)

Next ==
    /\ ~over
    /\ \/ /\ UNCHANGED over
          /\ \/ \E c \in Cells, b \in Byte : Store(c, b)
             \/ \E i \in Images : Patch(i) \/ Exec(i)
             \/ \E n \in 0 .. HeapSize : Brk(n)
             \/ Fork
             \/ ExecFails
             \/ \E value \in Codes : Exit(value)
       \/ End

Spec == Init /\ [][Next]_vars
=============================================================================
