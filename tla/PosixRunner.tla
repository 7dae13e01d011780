----------------------------- MODULE PosixRunner -----------------------------
(***************************************************************************)
(* posix-runner/posix-runner.c on amd64: a POSIX system-call shim that     *)
(* emulates fork, execve, exit and wait4 inside ONE firmware process.      *)
(*                                                                         *)
(* There is never more than one runnable guest.  fork saves the caller's   *)
(* stack, heap and program into side buffers and returns as the child;     *)
(* execve in the child pushes a new struct process and jumps to it; exit   *)
(* pops that process, copies the parent's saved state back and returns     *)
(* from fork a second time.  The struct process chain linked by "parent"   *)
(* is therefore a stack: process p's parent is p - 1, and current_process  *)
(* is the process numbered cur.                                            *)
(*                                                                         *)
(* Abstractions.  A memory cell stands for a block of guest memory; all    *)
(* processes share the brk area (heap), and all fork copies of it go into  *)
(* one pool (saved).  The program buffer and the guest stack, which are    *)
(* both copied to malloc'd buffers by fork and copied back by exit, are    *)
(* one value per process (image).  Addresses in the brk area are integers  *)
(* starting at BrkBase (the variable _brk); NULL is 0.  Addresses in the   *)
(* pool are offsets from _saved_memory.                                    *)
(***************************************************************************)
EXTENDS Integers, FiniteSets

CONSTANTS
    MaxProcs,    \* longest chain of processes before calloc has to fail
    HeapSize,    \* MAX_MEMORY_PER_PROC, in cells
    SavedSize,   \* MAX_SAVED_PROCESS_MEMORY, in cells
    BrkBase,     \* address of the brk area (_brk)
    FdMax,       \* __FILEDES_MAX
    Files,       \* host handles that open may return (none is 0, 1 or 2)
    CloseFds,    \* descriptors a guest may pass to close
    Byte,        \* values of a cell; 0 is what memset stores
    Images,      \* contents of a program and its stack
    NoImage,     \* the image of a process whose program was never loaded
    Codes,       \* exit values a guest may pass
    Misuse       \* the unusual guest behaviours this instance allows

(* What a guest may do that the emulation was not written for.  Each name  *)
(* switches on one behaviour of the guest, never one of the runner.        *)
Misuses == { "exit_before_exec",        \* the forked child exits, no execve
             "fork_before_exec",        \* the forked child forks again
             "fork_before_brk",         \* fork with no break in the area
             "fork_after_failed_exec",  \* fork by a process with no program
             "brk_after_failed_exec",   \* brk by a process with no program
             "brk_below_area" }         \* brk of an address before _brk

NULL == 0

ASSUME ConstantsAssumption ==
    /\ MaxProcs \in Nat \ {0}
    /\ HeapSize \in Nat
    /\ SavedSize \in Nat
    /\ BrkBase \in Nat \ {0}
    /\ FdMax \in Nat /\ FdMax > 3
    /\ Files \cap {0, 1, 2} = {}
    /\ CloseFds \subseteq Int
    /\ 0 \in Byte
    /\ NoImage \notin Images
    /\ Misuse \subseteq Misuses

Procs   == 1 .. MaxProcs
Cells   == 0 .. HeapSize - 1
Pool    == 0 .. SavedSize - 1
Fds     == 0 .. FdMax - 1
Std     == {0, 1, 2}

(* The breaks a guest may ask for, short of those beyond the area; the     *)
(* address before the area stands for every one below it.                  *)
Address == {NULL} \cup {a \in BrkBase - 1 .. BrkBase + HeapSize :
                          a >= BrkBase \/ "brk_below_area" \in Misuse}

VARIABLES
    status,      \* "running"; "exited" by the root's exit; "aborted" by exit(1)
                 \* in a handler; "undefined" after an out-of-bounds copy
    pc,          \* "main" before and "init" after it raised the TPL, then
                 \* "guest" code or a system call "handler"
    tpl,         \* firmware task priority: "caller" (prev_tpl) or "high"
    cur,         \* current_process
    \* one function per field of struct process
    brk, savedBrk, forked, childExit, fdMap,
    image,       \* program and stack
    savedImage,  \* saved_program and saved_stack
    savedAddr,   \* saved_memory.address, as an offset into the pool
    savedLen,    \* saved_memory.length
    \* memory shared by all processes
    heap,        \* the brk area
    saved,       \* the pool at _saved_memory
    hostOpen,    \* host file handles that are open
    atFork       \* history: what each process was when it last forked

machine  == <<status, pc, tpl>>
forkVars == <<savedBrk, savedImage, savedAddr, savedLen, saved, atFork>>
vars == <<status, pc, tpl, cur, brk, savedBrk, forked, childExit, fdMap, image,
          savedImage, savedAddr, savedLen, heap, saved, hostOpen, atFork>>

-----------------------------------------------------------------------------
(* Helpers *)

(* init_io on a calloc'd fd_map: the standard descriptors map to           *)
(* themselves, every other entry is NULL.                                  *)
StdFds == [f \in Fds |-> IF f \in Std THEN f ELSE NULL]

NeverForked == [heap |-> [c \in Cells |-> 0], brk |-> NULL, image |-> NoImage]

FreeFdsUnchecked == {f \in Fds : f >= 3}                    \* mutant

(* find_free_fd: the free guest descriptors; the scan takes the smallest.  *)
FreeFds == {f \in Fds : f >= 3 /\ fdMap[cur][f] = NULL}

OwnHandlesFrom4(p) ==                                      \* mutant
    {fdMap[p][f] : f \in {g \in Fds : g > 3 /\ fdMap[p][g] # NULL}}

(* The handles sys_exit closes: every mapped descriptor from 3 up.         *)
OwnHandles(p) == {fdMap[p][f] : f \in {g \in Fds : g >= 3 /\ fdMap[p][g] # NULL}}

(* Whose program is executing.  After a failed execve the code is still    *)
(* that of the parent, although current_process is already the child.      *)
Running == IF image[cur] = NoImage /\ cur > 1 THEN cur - 1 ELSE cur

(* A handler that returns: raise_tpl(TPL_HIGH_LEVEL) and back to the guest *)
Return  == status' = status /\ pc' = "guest" /\ tpl' = "high"

(* Code that calls exit(1), and a copy that has no defined result.         *)
Abort     == status' = "aborted" /\ UNCHANGED <<pc, tpl>>
Undefined == status' = "undefined" /\ UNCHANGED <<pc, tpl>>

InHandler == status = "running" /\ pc = "handler"
InGuest   == status = "running" /\ pc = "guest"

-----------------------------------------------------------------------------
(* What the firmware starts: main, at the firmware's own TPL, with the     *)
(* image of the program it is to load.                                     *)
Init ==
    /\ status = "running" /\ pc = "main" /\ tpl = "caller"
    /\ cur = 1
    /\ brk = [p \in Procs |-> NULL]
    /\ savedBrk = [p \in Procs |-> NULL]
    /\ forked = [p \in Procs |-> FALSE]
    /\ childExit = [p \in Procs |-> 0]
    /\ fdMap = [p \in Procs |-> StdFds]
    /\ \E i \in Images : image = [p \in Procs |-> IF p = 1 THEN i ELSE NoImage]
    /\ savedImage = [p \in Procs |-> NoImage]
    /\ savedAddr = [p \in Procs |-> 0]
    /\ savedLen = [p \in Procs |-> 0]
    /\ heap = [c \in Cells |-> 0]
    /\ saved = [c \in Pool |-> 0]
    /\ hostOpen = Std
    /\ atFork = [p \in Procs |-> NeverForked]

-----------------------------------------------------------------------------
(* Start *)

(* main up to raise_tpl: the arguments, the file, the struct process, the  *)
(* brk area or the buffer of load_elf may fail it.                         *)
Load ==
    /\ status = "running" /\ pc = "main"
    /\ \/ Abort
       \/ pc' = "init" /\ tpl' = "high" /\ UNCHANGED status
    /\ UNCHANGED <<cur, brk, forked, childExit, fdMap, image, heap, forkVars, hostOpen>>

(* init_syscalls and the jump to the program: the table may not fit, and   *)
(* exit(1) then leaves with the TPL main has raised.                       *)
InitSyscalls ==
    /\ status = "running" /\ pc = "init"
    /\ \/ Abort
       \/ pc' = "guest" /\ UNCHANGED <<status, tpl>>
    /\ UNCHANGED <<cur, brk, forked, childExit, fdMap, image, heap, forkVars, hostOpen>>

-----------------------------------------------------------------------------
(* Guest code *)

(* Guest stores go anywhere in the brk area: there is no protection, and   *)
(* the memory of a child is the memory of its parent.                      *)
GuestStore(c, b) ==
    /\ InGuest
    /\ heap' = [heap EXCEPT ![c] = b]
    /\ UNCHANGED <<machine, cur, brk, forked, childExit, fdMap, image, forkVars, hostOpen>>

(* The guest modifies its own data segment or stack.                       *)
GuestPatch(i) ==
    /\ InGuest
    /\ image' = [image EXCEPT ![Running] = i]
    /\ UNCHANGED <<machine, cur, brk, forked, childExit, fdMap, heap, forkVars, hostOpen>>

EnterSyscallAtHighTpl ==                                   \* mutant
    /\ InGuest
    /\ pc' = "handler"
    /\ UNCHANGED <<status, tpl, cur, brk, forked, childExit, fdMap, image, heap,
                   forkVars, hostOpen>>

(* SYSCALL: entry_syscall saves the registers and _entry_syscall lowers    *)
(* the TPL to prev_tpl before it calls the handler.  (A number with no     *)
(* handler returns 0 at once and changes nothing.)                         *)
EnterSyscall ==
    /\ InGuest
    /\ pc' = "handler" /\ tpl' = "caller"
    /\ UNCHANGED <<status, cur, brk, forked, childExit, fdMap, image, heap, forkVars, hostOpen>>

-----------------------------------------------------------------------------
(* Descriptors *)

(* resolve_fd: out of range is -1, everything else is what the map holds.  *)
resolve_fd(fd) == IF fd < 0 \/ fd >= FdMax THEN -1 ELSE fdMap[cur][fd]

(* sys_open: the host opens a handle h; with no free descriptor it is      *)
(* closed again and the call fails.                                        *)
SysOpen ==
    /\ InHandler
    /\ Return
    /\ \/ UNCHANGED <<fdMap, hostOpen>>                      \* host open fails
       \/ /\ FreeFds = {}                                    \* opened, closed
          /\ UNCHANGED <<fdMap, hostOpen>>
       \/ \E h \in Files \ hostOpen, fd \in FreeFds :
             /\ \A other \in FreeFds : fd <= other
             /\ hostOpen' = hostOpen \cup {h}
             /\ fdMap' = [fdMap EXCEPT ![cur][fd] = h]
    /\ UNCHANGED <<cur, brk, forked, childExit, image, heap, forkVars>>

(* sys_close: the entry is cleared whatever the host's close returns.      *)
SysClose(fd) ==
    /\ InHandler
    /\ Return
    /\ IF resolve_fd(fd) = -1
       THEN UNCHANGED <<fdMap, hostOpen>>
       ELSE /\ hostOpen' = hostOpen \ {resolve_fd(fd)}
            /\ fdMap' = [fdMap EXCEPT ![cur][fd] = NULL]
    /\ UNCHANGED <<cur, brk, forked, childExit, image, heap, forkVars>>

(* sys_read, sys_write, sys_lseek, sys_fchdir, the path calls and          *)
(* sys_wait4: the host acts, the runner's own state does not change.       *)
SysHostCall ==
    /\ InHandler
    /\ Return
    /\ UNCHANGED <<cur, brk, forked, childExit, fdMap, image, heap, forkVars, hostOpen>>

(* sys_wait4 stores the exit value of the last child, shifted left by 8.   *)
WaitStatus == childExit[cur] * 256

-----------------------------------------------------------------------------
(* Memory *)

(* What sys_brk takes for the current break.                               *)
CurrentBrk == IF brk[cur] = NULL THEN BrkBase ELSE brk[cur]

(* memset(current, 0, addr - current) *)
ZeroFill(from, to) ==
    [c \in Cells |-> IF c >= from - BrkBase /\ c < to - BrkBase THEN 0 ELSE heap[c]]

(* sys_brk: NULL asks for the break; a higher address zero-fills the new   *)
(* cells; a lower one passes memset a negative length, which is either no  *)
(* iteration or a runaway store; no limit is checked, so memset runs off   *)
(* the end of the area for an address beyond it, and starts before the     *)
(* area when the break was put there.                                      *)
SysBrk(addr) ==
    /\ InHandler
    /\ image[cur] = NoImage => "brk_after_failed_exec" \in Misuse
    /\ \/ /\ addr = NULL
          /\ Return
          /\ brk' = [brk EXCEPT ![cur] = CurrentBrk]
          /\ UNCHANGED heap
       \/ /\ addr # NULL /\ addr <= BrkBase + HeapSize
          /\ CurrentBrk >= BrkBase \/ addr <= CurrentBrk
          /\ Return
          /\ heap' = ZeroFill(CurrentBrk, addr)
          /\ brk' = [brk EXCEPT ![cur] = addr]
       \/ /\ addr # NULL
          /\ \/ addr > BrkBase + HeapSize
             \/ addr < CurrentBrk
             \/ CurrentBrk < BrkBase /\ addr > CurrentBrk
          /\ Undefined
          /\ UNCHANGED <<brk, heap>>
    /\ UNCHANGED <<cur, forked, childExit, fdMap, image, forkVars, hostOpen>>

-----------------------------------------------------------------------------
(* Processes *)

RestoreHeapShort(a, n) ==                                  \* mutant
    [c \in Cells |-> IF c < n - 1 THEN saved[a + c] ELSE heap[c]]
HeapInUseShort  == brk[cur] - BrkBase - 1                  \* mutant
PoolUnchecked   == TRUE                                    \* mutant
SameRegion      == savedAddr[cur]                          \* mutant
CallocUnchecked == TRUE                                    \* mutant

(* memcpy into and out of the pool: n cells at offset a.                   *)
SaveHeap(a, n) ==
    [c \in Pool |-> IF c >= a /\ c < a + n THEN heap[c - a] ELSE saved[c]]
RestoreHeap(a, n) ==
    [c \in Cells |-> IF c < n THEN saved[a + c] ELSE heap[c]]

(* What fork copies: current_process->brk - _brk.                          *)
HeapInUse == brk[cur] - BrkBase

(* The check against _saved_memory + MAX_SAVED_PROCESS_MEMORY.             *)
PoolFits == savedAddr[cur] + HeapInUse <= SavedSize

(* Where execve puts the region of a new child: behind its parent's.       *)
NextRegion == savedAddr[cur] + savedLen[cur]

(* calloc for a new struct process may succeed.                            *)
CallocMaySucceed == cur < MaxProcs

(* The copy starts before the pool: only its end is checked.               *)
CopyEscapes == savedAddr[cur] < 0 /\ HeapInUse > 0

(* sys_fork.  Either malloc may fail; a process whose program was never    *)
(* loaded has a stack of negative length.  A break below the area makes    *)
(* the length of the heap negative: the copy does nothing or runs away.    *)
SysFork ==
    /\ InHandler
    /\ forked[cur] => "fork_before_exec" \in Misuse
    /\ brk[cur] < BrkBase => "fork_before_brk" \in Misuse
    /\ image[cur] = NoImage => "fork_after_failed_exec" \in Misuse
    /\ \/ /\ Abort                                           \* malloc or pool
          /\ UNCHANGED <<forked, forkVars>>
       \/ /\ image[cur] = NoImage
          /\ Undefined
          /\ UNCHANGED <<forked, forkVars>>
       \/ /\ image[cur] # NoImage
          /\ PoolFits
          /\ savedBrk' = [savedBrk EXCEPT ![cur] = brk[cur]]
          /\ savedImage' = [savedImage EXCEPT ![cur] = image[cur]]
          /\ savedLen' = [savedLen EXCEPT ![cur] = HeapInUse]
          /\ forked' = [forked EXCEPT ![cur] = TRUE]
          /\ atFork' = [atFork EXCEPT ![cur] =
                          [heap |-> heap, brk |-> brk[cur], image |-> image[cur]]]
          /\ UNCHANGED savedAddr
          /\ \/ /\ ~CopyEscapes
                /\ Return
                /\ saved' = SaveHeap(savedAddr[cur], HeapInUse)
             \/ /\ CopyEscapes \/ HeapInUse < 0
                /\ Undefined
                /\ UNCHANGED saved
    /\ UNCHANGED <<cur, brk, childExit, fdMap, image, heap, hostOpen>>

(* load_elf and jump, for process p: the file is missing or not an ELF and *)
(* the call returns -1, load_elf finds no memory for the file, or the new  *)
(* program starts at once.  jump never returns, so the TPL stays what it   *)
(* is in the handler.                                                      *)
LoadAndJump(p, img) ==
    \/ Return /\ image' = img
    \/ Abort /\ image' = img
    \/ /\ \E i \in Images : image' = [img EXCEPT ![p] = i]
       /\ pc' = "guest"
       /\ UNCHANGED <<status, tpl>>

(* sys_execve outside a forked child: the program is replaced in place;    *)
(* descriptors and break are kept.                                         *)
SysExecveInPlace ==
    /\ InHandler
    /\ ~forked[cur]
    /\ LoadAndJump(cur, image)
    /\ UNCHANGED <<cur, brk, forked, childExit, fdMap, heap, forkVars, hostOpen>>

(* sys_execve in a forked child: a calloc'd struct process becomes the     *)
(* current one BEFORE the file is looked at.                               *)
SysExecveForked ==
    /\ InHandler
    /\ forked[cur]
    /\ \/ /\ Abort                                           \* calloc fails
          /\ UNCHANGED <<cur, brk, forked, childExit, fdMap, image, forkVars>>
       \/ LET new == cur + 1 IN
          /\ CallocMaySucceed
          /\ cur' = new
          /\ brk' = [brk EXCEPT ![new] = NULL]
          /\ savedBrk' = [savedBrk EXCEPT ![new] = NULL]
          /\ savedImage' = [savedImage EXCEPT ![new] = NoImage]
          /\ savedAddr' = [savedAddr EXCEPT ![new] = NextRegion]
          /\ savedLen' = [savedLen EXCEPT ![new] = 0]
          /\ forked' = [forked EXCEPT ![cur] = FALSE, ![new] = FALSE]
          /\ childExit' = [childExit EXCEPT ![new] = 0]
          /\ fdMap' = [fdMap EXCEPT ![new] = StdFds]
          /\ LoadAndJump(new, [image EXCEPT ![new] = NoImage])
          /\ UNCHANGED <<saved, atFork>>
    /\ UNCHANGED <<heap, hostOpen>>

(* sys_exit: close the descriptors; the root ends the runner, any other    *)
(* process is freed and its parent restored to what fork saved.  Freed     *)
(* memory (the child's struct process, the parent's saved program and      *)
(* stack) has no contents: it is put back to its initial value.            *)
SysExit(value) ==
    /\ InHandler
    /\ forked[cur] => "exit_before_exec" \in Misuse
    /\ hostOpen' = hostOpen \ OwnHandles(cur)
    /\ \/ /\ cur = 1
          /\ status' = "exited"
          /\ fdMap' = [fdMap EXCEPT ![1] = [f \in Fds |-> IF f \in Std THEN @[f] ELSE NULL]]
          /\ UNCHANGED <<pc, tpl, cur, brk, forked, childExit, image, heap, forkVars>>
       \/ LET parent == cur - 1 IN
          /\ cur > 1
          /\ Return
          /\ cur' = parent
          /\ childExit' = [childExit EXCEPT ![parent] = value, ![cur] = 0]
          /\ heap' = RestoreHeap(savedAddr[parent], savedLen[parent])
          /\ image' = [image EXCEPT ![parent] = savedImage[parent], ![cur] = NoImage]
          /\ brk' = [brk EXCEPT ![parent] = savedBrk[parent], ![cur] = NULL]
          /\ savedImage' = [savedImage EXCEPT ![parent] = NoImage, ![cur] = NoImage]
          /\ savedBrk' = [savedBrk EXCEPT ![cur] = NULL]
          /\ savedAddr' = [savedAddr EXCEPT ![cur] = 0]
          /\ savedLen' = [savedLen EXCEPT ![cur] = 0]
          /\ forked' = [forked EXCEPT ![cur] = FALSE]
          /\ fdMap' = [fdMap EXCEPT ![cur] = StdFds]
          /\ atFork' = [atFork EXCEPT ![parent] = NeverForked, ![cur] = NeverForked]
          /\ UNCHANGED saved

-----------------------------------------------------------------------------
(* One address past the area stands for every request beyond the limit.    *)
Next ==
    \/ Load
    \/ InitSyscalls
    \/ \E c \in Cells, b \in Byte : GuestStore(c, b)
    \/ \E i \in Images : GuestPatch(i)
    \/ EnterSyscall
    \/ SysOpen
    \/ \E fd \in CloseFds : SysClose(fd)
    \/ SysHostCall
    \/ \E addr \in Address \cup {BrkBase + HeapSize + 1} : SysBrk(addr)
    \/ SysFork
    \/ SysExecveInPlace
    \/ SysExecveForked
    \/ \E value \in Codes : SysExit(value)

Spec == Init /\ [][Next]_vars

-----------------------------------------------------------------------------
(* Properties *)

TypeOK ==
    /\ status \in {"running", "exited", "aborted", "undefined"}
    /\ pc \in {"main", "init", "guest", "handler"}
    /\ tpl \in {"caller", "high"}
    /\ cur \in Procs
    /\ brk \in [Procs -> Address]
    /\ savedBrk \in [Procs -> Address]
    /\ forked \in [Procs -> BOOLEAN]
    /\ childExit \in [Procs -> Codes \cup {0}]
    /\ fdMap \in [Procs -> [Fds -> Files \cup Std]]
    /\ image \in [Procs -> Images \cup {NoImage}]
    /\ savedImage \in [Procs -> Images \cup {NoImage}]
    /\ savedAddr \in [Procs -> Int]
    /\ savedLen \in [Procs -> Int]
    /\ heap \in [Cells -> Byte]
    /\ saved \in [Pool -> Byte]
    /\ hostOpen \subseteq Files \cup Std
    /\ atFork \in [Procs -> [heap : [Cells -> Byte], brk : Address,
                             image : Images \cup {NoImage}]]

(* A process is suspended from the moment it forks until its child exits:  *)
(* first the child runs on its struct process, then on one of its own.     *)
Suspended(p) == p < cur \/ (p = cur /\ forked[p])

(* The pool is a stack of regions.  Every region of a suspended process    *)
(* lies inside the pool and ends where, or before, the regions of all its  *)
(* descendants begin: sys_execve places a child's region after its         *)
(* parent's, and the check in sys_fork keeps it below the limit.           *)
RegionsStacked ==
    status = "running" =>
      \A p \in 1 .. cur :
        /\ savedAddr[p] \in 0 .. SavedSize
        /\ Suspended(p) => /\ savedLen[p] \in 0 .. HeapSize
                           /\ savedAddr[p] + savedLen[p] <= SavedSize
        /\ \A q \in p + 1 .. cur : savedAddr[p] + savedLen[p] <= savedAddr[q]

(* Whatever a child and its own children do to the one shared brk area,    *)
(* the copies from which sys_exit will restore a suspended process are     *)
(* exactly what that process had when it forked.                           *)
SavedStateIntact ==
    status = "running" =>
      \A p \in 1 .. cur : Suspended(p) =>
        /\ savedBrk[p] = atFork[p].brk
        /\ savedImage[p] = atFork[p].image
        /\ savedLen[p] = atFork[p].brk - BrkBase
        /\ \A c \in Cells : c < savedLen[p] => saved[savedAddr[p] + c] = atFork[p].heap[c]

(* When sys_exit returns from the parent's fork a second time, the parent  *)
(* finds its break, its program and stack, and every heap cell below the   *)
(* break as they were at its latest fork.                                  *)
ResumedAsForked ==
    [][cur' < cur =>
         /\ brk'[cur'] = atFork[cur'].brk
         /\ image'[cur'] = atFork[cur'].image
         /\ \A c \in Cells :
              c < atFork[cur'].brk - BrkBase => heap'[c] = atFork[cur'].heap[c]]_vars

(* Host handles: a file opened by a guest is open on the host exactly as   *)
(* long as one descriptor of one live process names it; no other process   *)
(* or descriptor shares it.  A leak, a double close and a handle used      *)
(* after its close all break this.                                         *)
HandlesAccounted ==
    status = "running" =>
      /\ hostOpen \cap Files = (UNION {OwnHandles(p) : p \in 1 .. cur}) \cap Files
      /\ \A p, q \in 1 .. cur, f, g \in Fds :
           fdMap[p][f] \in Files /\ fdMap[q][g] = fdMap[p][f] => p = q /\ f = g

(* When the root guest exits, after whatever chain of children, no file it *)
(* or a child opened is left open in the firmware.                         *)
ExitClosesAllFiles == status = "exited" => hostOpen \cap Files = {}

(* The runner hands control back to the firmware at the TPL it was called  *)
(* with, whether main, a guest's exit or an exit(1) in a handler ends it:  *)
(* main has not raised the TPL yet, a handler has lowered it again.  The   *)
(* one way out that does not is init_syscalls, which fails in between.     *)
FirmwareTplOnExit == status \in {"exited", "aborted"} /\ pc # "init" => tpl = "caller"

(* A process that forked is suspended, not finished, while its child runs: *)
(* the child's exit must resume it ("return as child" in sys_fork, and     *)
(* simple POSIX programs run unmodified).                                  *)
ForkSurvivesChildExit == status = "exited" => ~forked[cur]
=============================================================================
