# A verification of stage0-uefi

stage0-uefi builds a C toolchain on bare UEFI firmware from a few hundred bytes
of machine code. A script runner (kaem) starts one program after the other; each
program is a little more capable than the one that built it (hex0, hex1, hex2,
catm, M0, cc), and what comes out at the end includes a POSIX shim
(posix-runner) that runs ELF programs of later bootstraps. Almost everything
exists twice, for amd64 and for riscv64, and the early tools exist as source, as
generator and as committed hex text.

There are no threads. What makes the system hard is of another kind:

* programs that read their input twice and must advance through it, and count,
  in exactly the same way both times;
* two or three ports of every tool that are compared with nothing but each other;
* hand-written machine code, in which every way out has to undo what the
  stack holds at that place;
* processes emulated in one address space, where a parent is put to sleep in a
  buffer while its descendants overwrite the memory it lived in;
* scripts that start scripts, with a failure that has to travel all the way up.

This directory models the script runner, the hex assemblers, the riscv64 linker,
the macro assembler, the riscv64 tools as users of files, and the POSIX runner
in TLA+, and checks them with TLC on small instances. TLAPS proves, for every
instance, that the POSIX runner keeps its processes' memories apart (it
implements an abstract fork and exec) and gives back its files and, with one
exception, the task priority; that kaem runs scripts line by line as an abstract script runner does,
however deep they nest, leaks nothing and, where the firmware leaves it its
temporaries, loses no failure; that the two passes
of every linker agree on every address, and that the riscv64 linker writes what its
reference simulator writes; that the assemblers, of two processors
and three stages, write the same bytes for the same text; that M0 prints the
expansion of its text in reading order and, with its pool where amd64 can reach
it, stays inside its areas; that a
script of riscv64 tools has the effect of whole lines on the disk and everything
is given back; and that emitted
riscv64 instructions are read back as they were meant.

## Inventory

| component | state it keeps | operations | hard part | what makes it correct | status |
|---|---|---|---|---|---|
| **posix-runner** (`posix-runner/posix-runner.c`, amd64 paths) | chain of `struct process`, one brk area, one pool of saved copies, descriptor maps, task priority | read, write, open, close, lseek, brk, fork, execve, exit, wait4, path calls | fork/exec/exit as copies in one memory; one of several steps failing | a suspended process resumes as it was; copies stay in the pool; no handle leaks; priority restored | modelled, proved |
| **hex2 for riscv64** (`gen-hex2-rv64.py`) and its simulator (`hex2_sim.py`) | text, position, instruction pointer, nibble, label list, shift register, output | two passes: definitions, references, shift-register words, dots, bytes | both passes must agree on every address; no loop may miss the end | the passes meet, the output is the simulator's, it returns | modelled, proved |
| **hex0, hex1** (amd64, riscv64), **hex2** (amd64), `hex2.c` | text, position, address, nibble, labels, output | as above, a smaller language each | ports and stages read the same source | each stage writes what the one before writes; ports agree | core modelled, proved; files for riscv64 hex1 only (`RvTool`) |
| **kaem-optional** (C, amd64, riscv64) | script, position, command buffer, handles, stack; the stack of kaems started by kaems | read a line, start its program, wait for it, stop | one buffer is the line, the file name and the child's options; every way out must clean up | lines run in order and never after a failure; nothing leaks; options are complete | modelled, proved |
| **M0** (amd64, riscv64) | list of tokens, pool or scratch area | tokenise, define, expand, convert, print | passes that rely on each other's marks in shared nodes; unbounded copies; loops without end-of-file test | the output is the expansion of the text in reading order; nothing outside an area is written; it stops | text handling modelled, proved; files for riscv64 only (`RvTool`) |
| **catm and set-up of the tools** (riscv64) | words of the line, open protocols, handles, buffers, the files | find words, open, allocate, read, write, give back | no status is looked at; every tool frees by hand; outputs are not truncated | a line has the effect of a whole, atomic, line; everything is given back | modelled, proved |
| **catm and set-up of the tools** (amd64) | the same | the same | the same | the same | not modelled |
| **posix-runner, riscv64 entry** | trap frame, sscratch, satp, stvec, sie | trap in, dispatch, trap out, exit | firmware state on every way out | the firmware gets its state back | planned |
| **bootstrap scripts** (`*.kaem`, `kaem.run`) | files on the disk | build steps | each step uses what others made | every file exists when used | planned |
| **cc** (`cc_amd64.S`, `cc_*.M1`) | parser stack, symbol lists | compile | size | — | not modelled |
| **encoders and generators** (`rv64enc.py`, `*_helper.py`, `assemble_hex2.py`) | none | emit instructions, address pairs, trampolines, padding | bit fields, sign extension, no check of a range | the processor reads what was meant | encodings modelled, proved |
| **gen-kaem-optional-rv64.py** | none | emit kaem | — | — | not modelled: `verify-gen.sh` calls it historical and the committed hex text authoritative |
| Makefiles, headers, `verify-gen.sh`, empty submodules | none | build | — | — | not modelled |

How the parts meet: kaem passes a line to a tool as its `load_options` and gets an
exit status back; the tools meet only through files, each reading a source that
names the next tool; posix-runner is started by kaem like any tool and hands
control back to the firmware when its first guest exits.

`PROJECT.json` lists the hazards of the code line by line, with the properties
that watch each of them, or why none does yet.

## Modules

### POSIX runner

`PosixRunner` is posix-runner.c on amd64. One action is one system call, from
the table lookup to the return (`SysBrk`, `SysFork`, `SysExecveInPlace`,
`SysExecveForked`, `SysExit`, `SysOpen`, `SysClose`; calls that only reach the
host and leave the runner's state alone share `SysHostCall`), plus `Load` and
`InitSyscalls` for the start (main up to and behind the change of task priority,
either of which may end in exit(1)), `EnterSyscall` for the change of task
priority on the way in and two actions of
the guest that write to its heap and to its own image. Each field of `struct
process` is a function from process number; the parent of process p is p - 1
because the runner only ever has one chain. `brk`, `savedAddr` and `savedLen`
are the addresses and lengths the code computes, so that a copy out of bounds
is one in the model. A fork whose break is NULL or below the area has a copy of negative
length, as the code has it: what memcpy does then is in M2libc, an empty submodule,
so it either copies nothing and goes on with that length in `savedLen`, or runs
away. `status = "undefined"` is what follows a copy or a fill that runs away
out of bounds. What a guest may do that the emulation was not written for
(exit before execve, fork before the first brk, brk in a child whose execve
failed, brk below the area, ...) is switched on by name
with the constant `Misuse`. `atFork` is history: what a process was when it
forked.

`ForkExec` is the promise: processes with memory of their own on a stack. It
knows nothing of pools, regions or copies. `PosixRunnerImpl` maps the runner's
state to it: a suspended process is read out of the pool, the running one out of
the brk area. The theorems are in `PosixRunnerProofs`.

### Hex tools

`HexText` has the character classes and the scanning operators everything else
uses. A text is a sequence of characters; reading behind its end is end of file.

`Hex2Rv` is the linker that `gen-hex2-rv64.py` emits. One action is one turn of a
pass: the character that selects the operation and everything the operation
reads (`StoreLabel`, `FpReference`, `FpDot`, `FpHex`; `SpDrop`, `SpPointer`,
`SpEncode`, `SpDot`, `SpHex`, ...). Output bytes are kept as what they are made
of: a pair of nibbles with the set of shift-register words XORed over it, or one
byte of a pointer. `depth` is how far the stack pointer is below the frame of
`_start`. `Hex2Sim` is `hex2_sim.py`, which keeps
everything in local variables: each of its passes is a recursive function over the
turns of its loop (`FirstTurn`, `SecondTurn`). `Hex2RvSim` compares the two.
`Hex2RvProofs` has the theorems.

`HexTool` has what the assemblers of the early stages share, `Hex0`, `Hex1` and
`Hex2` their turns, each with its ports: `hex0.S` and `riscv64/hex0.hex0`,
`hex1.S` and `gen-hex1-rv64.py`, `hex2.S` and `hex2.c`. `HexStages` composes the
six: they run one after the other over the same text and their results are kept
for comparison. Where several ports do the same, PROJECT.json names the lines of
one of them. `phase` tells how a tool stopped: "done", "failed" (exit status),
"runaway" (a loop that ignores end of file) or "wild" (a call, a read or a
write through something that is no pointer; a `:` as the last character of a text
for hex1 on amd64 is one, because the label is then the -4 of the end of the file
and its address is stored in front of the table, `Hex1OffTable`). `HexStagesProofs` has the theorems about all six,
and about what they make of the same text;
`HexTextProofs` has what the searches of `HexText` return, for every text, which
all proofs about texts rest on.

### Script runner

`Kaem` has the three ports in one module; where they differ the definitions say
so (`CommandLength`, `LineEnd`, `Runs`, `ErrorCode`, `CutOptions`). A frame is one
running kaem; a kaem started by a line of another pushes a frame, and frame 1 is
the firmware. The command buffer is modelled index by index, because it is at
the same time the line, the file name that is cut off it, and the `load_options`
of the child, which the child's own option parser cuts again. `disk` changes: a
program may write a file, and a later line may run it.

The riscv64 port keeps two values in temporary registers across firmware calls,
which may change them: the exit code of a program in t3 while the digit is printed
(kaem-optional.hex0:444-451) and the file_info pointer in t4 across get_info
(357-371). The constant `TempsKept` says whether the firmware leaves them alone.
Where it does not (`TempsLost`), any exit code may be tested in place of the
program's (`TestedCodes`) and the image may be loaded from anywhere
(`LoadBlindly`).

`ScriptRun` is the promise: lines run in order, a nested script runs in the place
of its line, nothing is started after a failure. `KaemImpl` maps the frames to
it: what a frame has still to run (`Todos`) is the line it has read and the
commands of the rest of its script, and a failure (`Outcome`) is an exit code on
its way up. The two are the same for scripts in which all ports read the same
commands (`AllPlain`). `KaemProofs` holds the theorems.

The riscv64 port is mapped to `kaem_helper.py`, whose output is the committed
`riscv64/kaem-optional.hex0` byte for byte; `gen-kaem-optional-rv64.py` has
diverged from it (`verify-gen.sh` says so) and is not modelled.

### Macro assembler

`M0` has both ports. One action is one token read or one node visited by a pass;
`heap` is the list of nodes, and a pass is a walk along it. The texts of
nodes are modelled character by character where M0 looks at them (a prefix, a
number, a string that becomes hex digits). `scratch` is the riscv64 area that
tokens are collected in and that is cleared only up to the first zero byte;
`ScratchSize` and `TokenSize` are the rooms a token has. hex1 of the amd64 port
stores each digit with `mov [ebx], al` (M0.S:863-864), that is through the lower 32
bits of its pointer; the constant `PoolBelow4G` says whether that is the pointer
(`PointerFits`), and where it is not, numbers and strings end as "overrun".
`pc` also tells how M0 failed: "wild", "overrun" or "hung". `M0Words` has the conversions (numbers in
every base, the immediates behind each prefix, strings in hex), `RvWords` 32-bit
words as pairs of halves, since TLC's integers are no wider. `M0Expand` is the
promise: one function that reads the text from left to right, once, and expands
each token in terms of the definitions before it. `M0Proofs` has the theorems.

### Tools on a disk

`RvTool` has the riscv64 hex1, hex2, M0 and catm from `_start` to the return: a
tool is the sequence of firmware calls it makes, one action per call, with
the loops of catm (over its words, over the chunks of a file) unrolled as they
are taken. `held` is what the firmware has given and not got back; a call
through a handle that was never given makes the outcome "lost". What a
translator makes of a text is the operator `Translate`; the modules above are
about it. `Build` is the promise: a line takes effect at once and as a whole.
`RvTool` implements it, so that a script can be read as a sequence of lines.
`RvToolProofs` has the theorems.

### Instruction words

`RvEncode` has the words that `rv64enc.py`, `hex2_helper.py` and the generators
put together, the address pairs of generators and linker, the trampolines of
`hex2_helper.py`, and the processor's reading of such words. It has no state and
no run: `RvEncodeProofs` proves what it is for.

### Instances

`MCPosixRunner`, `MCPosixRunnerImpl`, `MCHex2Rv`, `MCHexStages`, `MCKaem`, `MCM0`
and `MCRvTool` define the sets that the configurations hand to TLC. Definitions marked "mutant"
in a module are the plausible bugs that PROJECT.json pairs with each property:
with one of them in place of the real definition TLC finds the property violated.

## Runs

Passing runs:

| run | question | bounds |
|---|---|---|
| `posix_memory` | Do regions of suspended processes stay apart and inside the pool, do the copies stay what they were, does a parent resume as it was? | 3 nested processes, brk area and pool of 2 cells, 2 cell values, every misuse but fork before brk |
| `posix_files` | Are host handles accounted for and closed, and is the task priority restored on every way out but the one from `init_syscalls`, whatever guests do? | 3 processes, 2 files, 2 free descriptors, every misuse |
| `posix_refines` | Do disciplined guests see processes with memory of their own (`ForkExec`)? | 3 processes, 1 cell, 2 images, 2 values |
| `hex2rv_passes` | Do the two passes agree on every address, does the linker return, is its output the simulator's? | texts of up to 4 or 5 lexemes: definitions, references, bases, dots, half bytes, unterminated names |
| `hex_stages` | Do the stages and ports write the same bytes, do the passes agree, do the tools stop? | six tools over texts of up to 4 lexemes, and of up to 3 odd ones |
| `kaem_scripts` | Do all ports run scripts as `ScriptRun` says, tell the firmware of failures, release everything, keep the stack balanced, and stop? | scripts of up to 3 lines with one level of nested script, buffer of 8 characters, some twenty kinds of line; a firmware that keeps temporaries |
| `m0_passes` | Do the passes over the list print the expansion of the text, stay inside their areas, keep the list whole, and stop? Do an upper and a lower immediate of one number add up to it? | both ports; texts of up to 4 words or definitions, of up to 4 fragments of strings, comments and zero bytes, and two prefixed numbers of ten forms; scratch area of 10 bytes, tokens of 7; a pool below 4 GiB |
| `rv_tools` | Does each tool have the effect of a whole line, call by call, and give back all it took? | scripts of 2 and 3 lines on a disk of 4 files, sources missing, empty or of 1, 3 or 4 blocks, outputs that exist, 2 blocks to a buffer |

Why these bounds are enough. Three processes are a grandparent, a parent and a
child: a region can be wrong with respect to its neighbour or to one further up,
and a longer chain repeats these cases; a pool of two cells is full after two
one-cell forks, so the limit check is met from both sides. Two cells tell a copy
of the wrong length from one of the wrong place. For the assemblers four lexemes
are a definition, something that changes the count, and a reference before and
after it; names are characters that are also hex digits, so that a pass that
stops early reads the rest of a name as code. For kaem three lines are a line
before, the line, and one after, and a nested kaem may itself be started with
the name of a missing script. For M0 four words are a definition, a use before
and a use behind it, and a redefinition; a room of 7 or 10 bytes is met from
both sides by strings of three fragments. For the tools a buffer of two blocks
with files of one to four is a file shorter than a buffer, exactly one or two
buffers, and one with a rest.

Runs that find a violation, each of one property that a comment or a message of the
repository states:

| run | what it shows |
|---|---|
| `posix_fork_exit` | A forked child that exits without execve still runs on its parent's `struct process`. If the parent is the first program, `sys_exit` (posix-runner.c:543) ends the runner, although line 487 says "return as child". |
| `hex2rv_return` | A reference to an undefined name leaves `store_pointer` for `terminate` with 32 or 48 bytes on the stack; the epilogue then loads `ra` from the wrong slot. |
| `kaem_options` | On riscv64 "restore space" overwrites the terminator of a line without arguments; the options of its program then run on into an earlier line. |
| `hex0_eof` | A text that ends inside a comment sends hex0 (amd64) to its clean-up from one call too deep; it takes the toggle for the root directory. |

Further disagreements between the code and what its comments say have no run of
their own. Where the behaviour is in the model, the name is given that switches it
on or that a property excepts:

* `sys_fork` refuses copies that do not fit the pool ("Insufficient memory for saved
  process memory.", posix-runner.c:473-476), but compares their end only. A fork
  before the first brk has a negative length (472): either its memcpy runs away, or
  it copies nothing, the regions of the descendants begin before the pool, and a
  later fork copies there. `Misuse` has it as `fork_before_brk`. `RegionsStacked`
  is false of such a guest, and the theorems about regions except it.
* A child whose execve failed goes on in its parent's program with a break of NULL
  (494-499); its next brk (440-447) clears the cells that program has in use, which
  a simple POSIX program, run "unmodified" (14-15), does not expect. `Misuse` has it
  as `brk_after_failed_exec`; only `ImplementsForkExec` excludes it.
* gen-hex2-rv64.py:776-779 says that `(fp_IP - sp_IP) & 0xFF` is not zero on "every
  large-input hex2 invocation" and that "The off-by-one is tracked separately"; lines
  251-257 speak of "the fp_IP == sp_IP invariant". The two comments contradict each
  other. Of the code, `PassesMeetTheorem` proves that the passes end at the same address
  over every text between `buf_start` and `buf_end` without a comment right behind a
  dot, large ones included. An off-by-one as the first comment has it must come from
  what the firmware puts into that buffer, or from a linker before this one.
* The riscv64 kaem prints the exit code of a program and then tests what the call has
  left in t3 (kaem-optional.hex0:444-451), which the calling convention does not keep;
  454-455 say that the script is aborted when a program "returned non-zero". Under a
  firmware that uses t3 a failure may pass for success and a success for a failure.
  `TempsKept` is that hypothesis about the firmware.
* gen-hex1-rv64.py:23-24 says that the address advances "exactly once per *complete
  pair*" of digits. The second pass does that; the first one advances at the first
  digit of a pair (337-339), so on a text that ends in half a byte it ends one
  address further on. `PassesMeet` of `HexStages` has that case by name (`CountsAhead`).
* hex4 and hex1 of the amd64 M0 "Stores ascii of INT in CHAR*" (M0.S:833-834), but hex1
  writes through `ebx` (863-864), the lower half of that pointer. With a pool above
  4 GiB no digit arrives where it belongs. `PoolBelow4G` is that hypothesis; without it
  the model ends as `overrun`, which `StaysInBounds` allows by name (`PointerFits`).
* Where the linker is compared with its simulator (`Similar` in `Hex2RvSim`): a definition
  between the two nibbles of a byte gets another address from `hex2_sim.py`, which
  counts a byte at its first nibble (161), than from the linker, although its
  docstring (4) says "Simulates exactly what the UEFI hex2 binary does". The
  comparison is over the characters the simulator gets: it opens its input in text
  mode (346-347), where Python makes a line feed of a carriage return, so a text with
  carriage returns is not the same text for the two.

`hex_stages` and `kaem_scripts` also record, in the guards of their properties,
differences that no document rules on. These runs would not notice them
getting worse. hex2 for amd64 counts a byte at its first
nibble in the first pass and at its second in the second, `hex2.c` at the second
in both; hex1 and hex2 for amd64 hang at an end of file inside a comment or a
token, and the riscv64 linker inside a name; hex1 leaves what the pool held in
place of a label nobody defined, and hex2 for amd64 follows NULL when nothing is
defined at all; the C kaem hangs at an end of file inside a comment and runs a command that has a comment
behind it, where the machine-code ports drop the line. The guard of M0's
properties (`WellFormed`) has the texts that make it run out of bounds or hang: an
unterminated string, comment or atom and a text without tokens on amd64, a prefix
without a number on riscv64, a zero byte inside a token, a definition that lacks
words and an overlong token on both (on riscv64 a string takes three bytes of the 4096-byte scratch area per
character).

## Fairness

The only fairness assumed is weak fairness of the whole next-state relation
(`FairSpec` of `Hex2Rv`, `HexStages`, `Kaem` and `M0`, `Spec` of `RvTool` and of
`Build`, which it implements). There is a single thread of
control, interrupts do not run any of this code, and firmware calls are taken to
return, so a program that can take a step takes one. No individual action is
assumed fair: a loop that does not advance is found. `PosixRunner` has no
liveness property, because a guest may run for ever.

## Proofs

### Memory of the POSIX runner

`PosixRunnerProofs` proves, for every number of processes, area and pool size,
set of files, byte values and images:

* `TypeCorrect`: for all guests, every variable keeps its type.
  `Safe`, the types and that what is saved lies in the pool as long as no copy has run
  away (`CopiesFit`), is inductive (`InitSafe`, `StepSafe`, one case
  per action). The types alone are not: the copy back in `sys_exit` yields bytes
  only if the region it reads lies in the pool.
* `RegionsTheorem`, `IntactTheorem`, `ResumeTheorem`: if no guest forks before its
  first brk, the regions of suspended processes are stacked without overlap, no
  step of a descendant changes what a suspended process will be restored from,
  and a parent whose child exits finds its break, image and heap as they were at
  its fork. `RegionsStacked` and `SavedStateIntact` are each too weak to be
  inductive: fork needs to know that the region it writes begins behind those of
  all ancestors, which depends on their saved breaks, and exit needs to know
  that only the running process can be in the state between fork and execve.
  `Kept` adds these two parts, and `CopiesInv == Safe /\ (status = "running" =>
  Kept)` is inductive (`ForkKeeps`, `ExecKeeps`, `ExitKeeps`, `StepCopies`).
  `ResumeTheorem` then follows from the invariant before the step alone.

All but the first assume the named restriction on guests. It is needed: `sys_fork`
computes the length of the copy from a break that is NULL before the first brk.

### Fork and exec as promised

`PosixRunnerProofs` proves `RefinementTheorem`, too: with `Misuse = {}`, that is for
guests that call brk before fork and execve before exit, `Spec =>
ImplementsForkExec`. `InitRefines` and `StepRefines` are the simulation, with one
lemma per action; reads, descriptors and the way into a handler are stutters.
The mapping reads a suspended process out of the pool, so the steps need to know
that the pool still holds what it was when it forked: `SavedIsFork` gets that
from `CopiesInv`. What is missing from `CopiesInv` is `ImageInv`: a suspended
process had a program, and one without a program is a forked child whose execve
failed and that has done nothing since; only then is it right to map its next
execve to the first one. `ImplInv == CopiesInv /\ (status = "running" =>
ImageInv)` is inductive (`StepImpl`).

### Files and task priority of the POSIX runner

`PosixRunnerProofs` also proves, for all guests:

* `HandlesTheorem`, `ExitClosesTheorem`: every open handle belongs to exactly one
  descriptor of one live process, and the exit of the first guest leaves none.
  The properties alone are not inductive: `sys_exit` closes from descriptor 3 up,
  so it has to be known that 0 to 2 never name a file (`StdNeverFiles`).
* `TplTheorem`: the firmware is entered at its caller's priority on every way out of
  main before it raises the priority and of a handler, which lowers it before it does
  anything else. The exit(1) of `init_syscalls` (posix-runner.c:719-722, called
  at 1077 behind the `raise_tpl` of 1033) leaves at the raised one; property and theorem
  except it by name.

### The riscv64 linker

`Hex2RvProofs` proves for every text `TypeOKTheorem`, `LabelsExactTheorem` (the
second pass meets a definition at the address the first one recorded),
`PassesMeetTheorem` and `OutputCountedTheorem` (the instruction pointer is the
length of the output). None is inductive alone, since what the second pass does
next depends on what the first one did at the same place. The history variable
`seen` keeps the track of the first pass, its points <<position, instruction
pointer, toggle>>; `LinkInv` says that each of them but the last leads to another
by one turn of the loop (`Turn`, a function of the point and the text alone), and
that every definition on it is in the list with its address. `FirstTurnKeeps` shows
that a turn of the first pass extends the track, `SecondTurnKeeps` that a turn of the
second is the same function as long as no comment begins behind a dot, where the
passes differ; that is the guard of the two properties about labels. `Reads` of
`Hex2Rv` is a recursive function: that it has a value at all is proved by a least
counterexample (`ChainExists`).

`MatchesSimTheorem` adds that the linker writes what `hex2_sim.py` computes, for every
text without the known differences (`Similar`: a definition inside a byte, a base
behind a definition or a field reference, a dot without eight digits).
The simulator is two recursive functions over
the turns of its loops; `RunExists` gives them values, again from a least
counterexample, and the invariant (`SimInv`) runs linker and simulator side by
side: at any time there is a number of turns after which the simulator stands
where the linker stands. In the first pass the linker counts a byte at its
first nibble and the simulator at its second, so its address is one ahead inside a byte; the simulator
keeps the last definition of a name in a dictionary where the linker
searches a list, newest first, and both find the same address (`Mirrors`,
`TargetIs`). When the linker returns, the simulator has taken its last turn, and the outputs are equal.

### The stages

`HexStagesProofs` proves `TypeOKTheorem`, `LabelsExactTheorem` and
`PassesMeetTheorem` for hex0, hex1 and hex2 in all six ports, over every text:
wherever a tool returns, the address of its second pass is the length of the
output, and that of the first pass is the same, or one more if half a byte is left over
and the first pass counts a byte at its first nibble (all ports with two passes
but `hex2.c`). The
argument is that of the linker, with two differences. There is no history
variable, so the invariant (`StageInv`) says that there is a set of points that is
closed under `Turn` up to its end and has every definition on it in the list; TLC
cannot evaluate that, and checks its consequences. And hex2 for amd64 counts a
byte at its first nibble in the first pass and at its second in the second. In
bytes that are complete (`Early` takes the other one off) a turn is one function
for both passes of every port.

### Stages and ports against each other

`HexStagesProofs` also proves, for every text, `Hex0ExtendedTheorem` (a source for hex0
means the same to all six tools), `Hex1ExtendedTheorem` (a source for hex1 means
the same to hex2) and `PortsAgreeTheorem` (hex0 for amd64 and riscv64, and hex2
and `hex2.c`, leave the same, undefined names included). Each compares
whole runs of different tools, and tools take different turns: hex0 has one pass
and ends a comment at a line feed only, hex1 takes two characters for a label
where hex2 reads a name up to what ends it, and each counts bytes at its own
nibble and from its own start. So they are not compared with each other but with one assembler
(`Measure` for a turn of its first pass, `Write` for one of its second), of which
a turn of a tool is one turn or two. That assembler is a function from point to
point, and a tool is only ever at points it reaches (`MeasuredTo`, `WrittenTo`:
some set of points leads from the beginning to this one and nowhere else). Each
turn ends further on in the text, so there is one point at its end (`OneMeasure`,
`OneText`), and two tools that get there have the same labels and have written
the same. `PortInv` is the invariant: `Hex0Inv` and `LaterInv` for the tool that
runs, `Ended` for the results of those before it; the lemmas named `...Tracks`
show it for each kind of turn. It is about texts a tool speaks (`Spoken`), and
that needs no assumption beyond what the properties themselves say: comments that
end and, for the two forms of hex2, names that end and no `~`.
`LeftPlain` then says that without definitions and references the languages
of hex0 and hex2 have the same meaning.

### kaem

`KaemProofs` proves, for all three ports, whatever is on the disk, whatever the
scripts say and however deep they nest:

* `NothingLeaksTheorem`, `OnlySessionsWaitTheorem`, `StackBalancedTheorem`,
  `ErrorsPropagateTheorem`. The properties speak of the way out and of frames that
  wait; `KaemInv` adds what the machine code relies on in between: what is held at
  each place (`Holds`), that only the top frame runs and the firmware's is on top
  only at the end (`OneRuns`), and that a failure is always just being told to the
  top frame or is the reason why it leaves (`FailureKnown`). `ErrorsPropagateTheorem`
  has the hypothesis `~TempsLost`: the exit code of a program must survive the call
  that prints it. A shape of the frames
  (`IsStack`) stands for a type, since nothing in these depends on what texts are
  made of.
* `TypeOKTheorem`, `OptionsCompleteTheorem`: no kaem reads behind the end of its
  script, and a program started with arguments finds its whole line in its
  options. `LineInv` adds how the position of each frame relates to its script
  (`Reads`) and that the buffer of each frame between reading and starting holds
  the whole line (`Whole`). Its proof needed an assumption the model had not
  named, that no program writes a file that is run as a script, and made a
  condition of the model that two cases of a `CASE` shared exclusive.
* `ImplementsScriptRunTheorem`: on disks of plain scripts, and without lost
  temporaries, each step of each port is
  a step of `ScriptRun` or a stutter. `CommandsFrom`, which the mapping uses, is a
  recursive function of the text; `CommandsFacts` gives its equation, again from a
  least counterexample, and `PlainFacts` says what kaem makes of the next line of
  a plain text. A failure is known exactly while it is on its way up
  (`OutcomeFacts`), a write of a program changes nothing a waiting kaem has still
  to run (`WaitingKept`), and then there is one lemma per kind of step. This is
  the safety part of `ScriptRun`, which has no fairness; `Terminates` stays with TLC.

### The macro assembler

`M0Proofs` proves, for both ports, every room of a token and every size of the
scratch area:

* `TypeOKTheorem`, `ListWholeTheorem`, for every text, well formed or not. What a
  pass may rely on is the shape of the list (`ShapeInv`): newest node first
  while it is read, two halves while it is turned round (`Halved`), and from then on in the
  order of the text and past the two nodes behind each macro (`InOrder`), with the
  pass at a node of the list and macros only behind `Identify_Macros`.
  `LinkedFrom` is a recursive function along links; `LinkedIs` gives it its value
  wherever each link leads to a node of lower rank, from a least counterexample.
* `StaysInBoundsTheorem`, `OutputExactTheorem`, for the texts M0 is for
  (`WellFormed`). That no pass writes past an area has a hypothesis, `PointerFits`, about
  where the firmware has put the pool of the amd64 port; the rest holds without it,
  since M0 is then not taken to print anything. The promise reads the text once, so the invariant keeps two
  sequences at hand: the states of that reading behind each character (`Lexing`), and the
  states of the expansion behind each token (`Expanding`). `ReadInv` says that the
  texts of the list are the tokens read so far and that the scratch area is clear
  between them. `PassInv` says of a pass at node n what each node in front
  of n has (`After`, by pass) and each behind it (what the pass before left), in
  terms of the names known where the token stands; `Print_Hex` at node n has
  written what the expansion has after n - 1 tokens. There is a lemma for each
  pass, and `PassMoves` for going on to the next. TLC checked these invariants
  before they were proved.
* `AddressesAddUpTheorem`, for every text. `KnownInv` says where the expression of a
  token comes from: a name defined above it, its own text, or its own number.
  Then the digits are read back as the word they were written from
  (`FieldRead`), and its bits as page and offset (`PageRead`, `OffsetIRead`,
  `OffsetSRead`, `PageAndOffset`). The attempt to prove it found that the property was too
  strong as first stated: a definition may give `~x` a value of its own, and then
  there is no page to add to.

### The tools on a disk

`RvToolProofs` proves, for every disk, script and size of buffer:

* `AllGivenBackTheorem`, `StraysTheorem`: a tool that returns has given back all
  it took but the stack of M0, and the only call through a handle that it does not
  hold is through the input, where that does not exist. The list of calls a tool
  has still to make is followed as a path (`Path`): each call leads from what is
  held and the stage of the work to the next such state, and the last one leaves
  nothing (`Ending`). `CallsPath` shows it for the whole list of each tool, and
  `HoldInv` says that what is left of the list is such a path, with a detour in
  front while catm goes through its words and chunks.
* `LinesTheorem`: seen from the end of its lines, a build runs them one after the
  other, each with its whole effect on the disk. This is the safety part of
  `ImplementsBuild`. `DataInv` says what disk and buffers are at each stage
  (`DataAt`), and in the loop of catm how much of which input has been copied
  behind the ones before it (`InLoop`); `OneStage` shows that a state has only one
  stage. The theorem has one hypothesis, `TranslatesText`: a translator makes a
  text from a text.

### Instruction words

`RvEncodeProofs` proves of `RvEncode` that the processor reads back the registers
and the immediate of every word in the formats I, S, B and J whose immediate
fits, and which other immediate it reads when one does not, since nothing checks
that when a local branch is resolved (`BRoundTrip`, `JRoundTrip`); that an auipc
and addi emitted for a label reach it at every distance (`GeneratorPairReaches`);
that ~label and !label in two consecutive instructions do so although each is
encoded from its own address (`LinkPairReaches`); that a trampoline lands on its
label with the +4 of its bytes, and not with the -4 of its docstrings in
hex2_helper.py:103-121 (`TrampolineReaches`); and that the padded section holds
the code (`PaddingFits`).

### What is not proved

Assumptions on constants: `ConstantsAssumption` (`PosixRunner`), `KaemAssumption` and
`DisksAssumption` (`Kaem`: buffers are not empty, options fit them, programs do not
write scripts), `Hex2RvAssumption` and `HexStagesAssumption` (inputs are texts), `M0Assumption`
(inputs are texts, rooms are not empty, `PoolBelow4G` is a Boolean),
`RvToolAssumption`, `FilesAssumption` and `ScriptsAssumption` (`RvTool`: what a line
may look like; "Not modelled" has the lines left out), and the restrictions on
guests named above. TLC evaluates each of them on the instances it checks.

Model-checked only is all liveness: `Terminates` of kaem, of the linker, of the
stages and of M0, and the fairness part of `ImplementsBuild`; it is out of the prover's
reach. Every invariant and every safety property of a passing run has its theorem.

## Not modelled

* Firmware calls return, and firmware allocations succeed; the exceptions are
  those of the POSIX runner that its code checks (the arguments, the brk area, the
  program buffer, the syscall table, the saved copies, the process structure), which may
  fail. The malloc of the pool (posix-runner.c:1018) and the copies of the arguments
  (256-275) are not checked, and that they fail is not modelled: every copy of fork
  would then go to address 0 on.
* What becomes of registers that a firmware call may change, but for the two of
  riscv64/kaem-optional.hex0 that matter (`TempsKept`).
* How hex0, the amd64 tools and `hex2.c` open protocols and files and parse their
  arguments; none of them looks at a status there (hex0.S:9 says so).
* Of the riscv64 tools in `RvTool`: failing allocations, reads and writes, the
  watchdog call, and texts above hex2's 8 MiB. The branch of M0 that would return a
  failure (gen-M0-rv64.py:703) cannot be reached, and all four tools return 0.
* Lines `RvTool` is not given: a translator's line that lacks a word or has two
  spaces in a row (hex1, hex2 and M0 then take the empty word for the input and
  the input for the output), and a catm line that names its output as an input
  behind a buffer or more of others, which never ends. No script has such a line.
* hex2 asks GetInfo for the size of its input because, as its comment says
  (gen-hex2-rv64.py:251-257), Read may report a count padded to the cluster;
  catm and M0 trust Read's count, and the model's Read reports the true one.
* What is at the address that amd64 M0 writes its digits to when its pool is above
  4 GiB.
* The 16 MiB pools of the tools are never exhausted, and displacements of hex2 are
  not cut to their width in `Hex2Rv`; `RvEncode` says what happens when they are.
* Instruction formats without immediates, and the two-pass resolution of local
  labels in the helpers.
* File contents beyond what a script or a program kind needs; console output.
* The riscv64 port of posix-runner's entry and exit; the system calls themselves
  are common to both ports.
* cc, the code generators and the build files, as said in the inventory.

## Plan

1. `RvRunner`: trap entry and exit of the riscv64 posix-runner, with satp, stvec,
   sie and sscratch on every way out.
2. The amd64 set-up and catm, as ports of `RvTool`.
3. `Bootstrap`: the actual seed, mini and full scripts as an instance of `Build`,
   under kaem's rule that a line after a failure is not run: every file exists and
   is the newest of its name when a step reads it.
