--------------------------- MODULE PosixRunnerProofs ---------------------------
(***************************************************************************)
(* Theorems about PosixRunner, for every number of processes, descriptors  *)
(* and files, every size of the brk area and of the pool, and every guest. *)
(***************************************************************************)
EXTENDS PosixRunnerImpl, SequenceTheorems, TLAPS

USE ConstantsAssumption DEF NULL

-----------------------------------------------------------------------------
(* Type correctness.  It needs the copies of a runner that goes on to fit: *)
(* what exit copies back into the heap is made of cells only if the copy   *)
(* stays inside the pool.                                                  *)
CopiesFit ==
    \A p \in Procs : savedLen[p] > 0 =>
        /\ savedLen[p] <= HeapSize
        /\ savedAddr[p] >= 0 /\ savedAddr[p] + savedLen[p] <= SavedSize

Safe == TypeOK /\ (status = "running" => CopiesFit)

(* The values main and sys_execve give a new process have its types.       *)
LEMMA FreshTypes ==
  /\ StdFds \in [Fds -> Files \cup Std]
  /\ NeverForked \in [heap : [Cells -> Byte], brk : Address, image : Images \cup {NoImage}]
  BY DEF StdFds, NeverForked, Std, Address

(* main starts in a safe state.                                            *)
LEMMA InitSafe == Init => Safe
  BY FreshTypes DEF Init, Safe, TypeOK, CopiesFit, Std, Procs, Cells, Pool, Address

(* What brk hands out is an address of the area, and what fork copies is   *)
(* never longer than the area.                                             *)
LEMMA HeapTypes ==
  ASSUME TypeOK
  PROVE  /\ CurrentBrk \in Address
         /\ HeapInUse \in Int /\ HeapInUse <= HeapSize
         /\ \A from, to \in Address : ZeroFill(from, to) \in [Cells -> Byte]
  <1>1. brk[cur] \in Address
    BY DEF TypeOK
  <1>2. CurrentBrk \in Address
    BY <1>1 DEF CurrentBrk, Address
  <1>3. HeapInUse \in Int /\ HeapInUse <= HeapSize
    BY <1>1 DEF HeapInUse, Address
  <1>4. \A from, to \in Address : ZeroFill(from, to) \in [Cells -> Byte]
    BY DEF ZeroFill, TypeOK
  <1> QED BY <1>2, <1>3, <1>4

(* Both copies stay inside their arrays.                                   *)
LEMMA SaveHeapType ==
  ASSUME TypeOK, NEW a \in Int, NEW n \in Int, n <= HeapSize
  PROVE  SaveHeap(a, n) \in [Pool -> Byte]
  <1> SUFFICES ASSUME NEW c \in Pool, c >= a, c < a + n PROVE heap[c - a] \in Byte
    BY DEF SaveHeap, TypeOK
  <1>1. c - a \in Cells
    BY DEF Cells, Pool
  <1> QED BY <1>1 DEF TypeOK

(* exit's copy back reads cells of the pool only.                          *)
LEMMA RestoreHeapType ==
  ASSUME Safe, status = "running", NEW p \in Procs
  PROVE  RestoreHeap(savedAddr[p], savedLen[p]) \in [Cells -> Byte]
  <1> SUFFICES ASSUME NEW c \in Cells, c < savedLen[p]
               PROVE  saved[savedAddr[p] + c] \in Byte
    BY DEF RestoreHeap, Safe, TypeOK
  <1>1. savedLen[p] \in Int /\ savedAddr[p] \in Int
    BY DEF Safe, TypeOK
  <1>2. savedAddr[p] + c \in Pool
    BY <1>1 DEF Cells, Pool, Safe, CopiesFit
  <1> QED BY <1>2 DEF Safe, TypeOK

(* No step of a guest or a handler leaves Safe: one case per action.       *)
LEMMA StepSafe == Safe /\ [Next]_vars => Safe'
  <1> SUFFICES ASSUME Safe, [Next]_vars PROVE Safe'
    OBVIOUS
  <1> USE DEF Safe, InHandler, InGuest, Return
  <1>1. ASSUME NEW c \in Cells, NEW b \in Byte, GuestStore(c, b) PROVE Safe'
    BY <1>1 DEF GuestStore, TypeOK, CopiesFit, machine, forkVars
  <1>2. ASSUME NEW i \in Images, GuestPatch(i) PROVE Safe'
    BY <1>2 DEF GuestPatch, TypeOK, CopiesFit, machine, forkVars
  <1>3. CASE EnterSyscall
    BY <1>3 DEF EnterSyscall, TypeOK, CopiesFit, forkVars
  <1>4. CASE SysOpen
    <2>1. \A h \in Files, fd \in FreeFds :
            [fdMap EXCEPT ![cur][fd] = h] \in [Procs -> [Fds -> Files \cup Std]]
      BY DEF TypeOK, FreeFds
    <2>2. /\ fdMap' \in [Procs -> [Fds -> Files \cup Std]]
          /\ hostOpen' \subseteq Files \cup Std
      <3>1. CASE UNCHANGED <<fdMap, hostOpen>>
        BY <3>1 DEF TypeOK
      <3>2. CASE \E h \in Files \ hostOpen, fd \in FreeFds :
                   /\ hostOpen' = hostOpen \cup {h}
                   /\ fdMap' = [fdMap EXCEPT ![cur][fd] = h]
        <4>1. PICK h \in Files \ hostOpen, fd \in FreeFds :
                   /\ hostOpen' = hostOpen \cup {h}
                   /\ fdMap' = [fdMap EXCEPT ![cur][fd] = h]
          BY <3>2
        <4>2. fdMap' \in [Procs -> [Fds -> Files \cup Std]]
          BY <2>1, <4>1
        <4>3. hostOpen' \subseteq Files \cup Std
          BY <4>1 DEF TypeOK
        <4> QED BY <4>2, <4>3
      <3> QED BY <1>4, <3>1, <3>2 DEF SysOpen
    <2>3. Return /\ UNCHANGED <<cur, brk, forked, childExit, image, heap, forkVars>>
      BY <1>4 DEF SysOpen
    <2> QED BY <2>2, <2>3 DEF TypeOK, CopiesFit, forkVars
  <1>5. ASSUME NEW fd \in CloseFds, SysClose(fd) PROVE Safe'
    <2>1. /\ fdMap' \in [Procs -> [Fds -> Files \cup Std]]
          /\ hostOpen' \subseteq Files \cup Std
      <3>1. CASE resolve_fd(fd) = -1
        BY <1>5, <3>1 DEF SysClose, TypeOK
      <3>2. CASE resolve_fd(fd) # -1
        <4>1. fd \in Fds
          BY <3>2 DEF resolve_fd, Fds
        <4>2. 0 \in Std
          BY DEF Std
        <4>3. /\ fdMap' = [fdMap EXCEPT ![cur][fd] = 0]
              /\ hostOpen' = hostOpen \ {resolve_fd(fd)}
          BY <1>5, <3>2 DEF SysClose
        <4> QED BY <4>1, <4>2, <4>3 DEF TypeOK
      <3> QED BY <3>1, <3>2
    <2> QED BY <1>5, <2>1 DEF SysClose, TypeOK, CopiesFit, forkVars
  <1>6. CASE SysHostCall
    BY <1>6 DEF SysHostCall, TypeOK, CopiesFit, forkVars
  <1>7. ASSUME NEW addr \in Address \cup {BrkBase + HeapSize + 1}, SysBrk(addr) PROVE Safe'
    <2>1. CASE addr \in Address
      <3>1. /\ \/ brk' = [brk EXCEPT ![cur] = CurrentBrk] \/ brk' = [brk EXCEPT ![cur] = addr]
               \/ brk' = brk
            /\ heap' = heap \/ heap' = ZeroFill(CurrentBrk, addr)
            /\ Return \/ Undefined
            /\ UNCHANGED <<cur, forked, childExit, fdMap, image, forkVars, hostOpen>>
            /\ status = "running"
        BY <1>7 DEF SysBrk
      <3>2. brk' \in [Procs -> Address] /\ heap' \in [Cells -> Byte]
        <4>1. CurrentBrk \in Address /\ ZeroFill(CurrentBrk, addr) \in [Cells -> Byte]
          BY <2>1, HeapTypes
        <4>2. brk \in [Procs -> Address] /\ heap \in [Cells -> Byte]
          BY DEF TypeOK
        <4> QED BY <2>1, <3>1, <4>1, <4>2
      <3> QED BY <3>1, <3>2 DEF TypeOK, CopiesFit, forkVars, Undefined
    <2>2. CASE addr = BrkBase + HeapSize + 1
      BY <1>7, <2>2, HeapTypes DEF SysBrk, TypeOK, CopiesFit, forkVars, Undefined
    <2> QED BY <2>1, <2>2
  <1>8. CASE SysFork
    <2>1. CASE UNCHANGED <<forked, forkVars>>
      BY <1>8, <2>1 DEF SysFork, TypeOK, CopiesFit, forkVars, Abort, Undefined
    <2>2. CASE ~UNCHANGED <<forked, forkVars>>
      <3> DEFINE n == HeapInUse
      <3>1. /\ savedAddr[cur] + n <= SavedSize
            /\ savedLen' = [savedLen EXCEPT ![cur] = n]
            /\ \/ (savedAddr[cur] >= 0 \/ n <= 0) /\ saved' = SaveHeap(savedAddr[cur], n)
               \/ status' = "undefined" /\ saved' = saved
            /\ savedAddr' = savedAddr
            /\ status = "running"
        <4>1. savedAddr[cur] \in Int /\ n \in Int
          BY HeapTypes DEF TypeOK
        <4> QED BY <1>8, <2>2, <4>1 DEF SysFork, PoolFits, CopyEscapes, Undefined
      <3>2. n \in Int /\ n <= HeapSize
        BY HeapTypes
      <3>3. saved' \in [Pool -> Byte]
        BY <3>1, <3>2, SaveHeapType DEF TypeOK
      <3>4. status' = "running" => CopiesFit'
        BY <3>1, <3>2 DEF CopiesFit, TypeOK
      <3>5. TypeOK'
        <4>1. /\ brk[cur] \in Address /\ image[cur] \in Images \cup {NoImage}
              /\ [heap |-> heap, brk |-> brk[cur], image |-> image[cur]]
                   \in [heap : [Cells -> Byte], brk : Address, image : Images \cup {NoImage}]
          BY DEF TypeOK
        <4>2. /\ savedBrk' = [savedBrk EXCEPT ![cur] = brk[cur]]
              /\ savedImage' = [savedImage EXCEPT ![cur] = image[cur]]
              /\ forked' = [forked EXCEPT ![cur] = TRUE]
              /\ atFork' = [atFork EXCEPT ![cur] =
                   [heap |-> heap, brk |-> brk[cur], image |-> image[cur]]]
              /\ Return \/ Undefined
              /\ UNCHANGED <<cur, brk, childExit, fdMap, image, heap, hostOpen>>
          BY <1>8, <2>2 DEF SysFork
        <4> HIDE DEF n
        <4> QED BY <3>1, <3>2, <3>3, <4>1, <4>2 DEF TypeOK, Undefined
      <3> QED BY <3>4, <3>5
    <2> QED BY <2>1, <2>2
  <1>9. CASE SysExecveInPlace
    BY <1>9 DEF SysExecveInPlace, LoadAndJump, Abort, TypeOK, CopiesFit, forkVars
  <1>10. CASE SysExecveForked
    <2>1. CASE Abort /\ UNCHANGED <<cur, brk, forked, childExit, fdMap, image, forkVars>>
      BY <1>10, <2>1 DEF SysExecveForked, Abort, TypeOK, CopiesFit, forkVars
    <2>2. CASE ~(Abort /\ UNCHANGED <<cur, brk, forked, childExit, fdMap, image, forkVars>>)
      <3>1. cur + 1 \in Procs
        BY <1>10, <2>2 DEF SysExecveForked, CallocMaySucceed, TypeOK, Procs
      <3>2. NextRegion \in Int
        BY DEF NextRegion, TypeOK
      <3>3. TypeOK'
        <4> DEFINE new == cur + 1
        <4>1. /\ cur' = new
              /\ brk' = [brk EXCEPT ![new] = NULL]
              /\ savedBrk' = [savedBrk EXCEPT ![new] = NULL]
              /\ savedImage' = [savedImage EXCEPT ![new] = NoImage]
              /\ savedAddr' = [savedAddr EXCEPT ![new] = NextRegion]
              /\ savedLen' = [savedLen EXCEPT ![new] = 0]
              /\ forked' = [forked EXCEPT ![cur] = FALSE, ![new] = FALSE]
              /\ childExit' = [childExit EXCEPT ![new] = 0]
              /\ fdMap' = [fdMap EXCEPT ![new] = StdFds]
              /\ LoadAndJump(new, [image EXCEPT ![new] = NoImage])
              /\ UNCHANGED <<saved, atFork, heap, hostOpen>>
          BY <1>10, <2>2 DEF SysExecveForked
        <4>2. image' \in [Procs -> Images \cup {NoImage}]
          BY <4>1 DEF LoadAndJump, Abort, TypeOK
        <4>3. /\ status' \in {"running", "exited", "aborted", "undefined"}
              /\ pc' \in {"main", "init", "guest", "handler"} /\ tpl' \in {"caller", "high"}
          BY <4>1 DEF LoadAndJump, Abort, TypeOK
        <4>4. /\ brk' \in [Procs -> Address] /\ savedBrk' \in [Procs -> Address]
              /\ savedImage' \in [Procs -> Images \cup {NoImage}]
              /\ childExit' \in [Procs -> Codes \cup {0}]
          BY <4>1 DEF TypeOK, Address
        <4>5. /\ savedAddr' \in [Procs -> Int] /\ savedLen' \in [Procs -> Int]
          <5>1. savedAddr \in [Procs -> Int] /\ savedLen \in [Procs -> Int]
            BY DEF TypeOK
          <5>2. savedAddr' = [savedAddr EXCEPT ![new] = NextRegion]
            BY <4>1
          <5>3. savedLen' = [savedLen EXCEPT ![new] = 0]
            BY <4>1
          <5>4. \A x, z \in Int : /\ [savedAddr EXCEPT ![x] = z] \in [Procs -> Int]
                                   /\ [savedLen EXCEPT ![x] = z] \in [Procs -> Int]
            BY <5>1
          <5>5. new \in Int
            BY DEF TypeOK, Procs
          <5> QED BY <3>2, <5>2, <5>3, <5>4, <5>5
        <4>8. forked' \in [Procs -> BOOLEAN]
          <5>1. forked \in [Procs -> BOOLEAN]
            BY DEF TypeOK
          <5>2. forked' = [forked EXCEPT ![cur] = FALSE, ![new] = FALSE]
            BY <4>1
          <5> QED BY <5>1, <5>2
        <4>6. fdMap' \in [Procs -> [Fds -> Files \cup Std]]
          BY <4>1, FreshTypes DEF TypeOK
        <4>7. cur' \in Procs /\ UNCHANGED <<saved, atFork, heap, hostOpen>>
          BY <3>1, <4>1
        <4> QED BY <4>2, <4>3, <4>4, <4>5, <4>6, <4>7, <4>8 DEF TypeOK
      <3>4. CopiesFit'
        <4>1. /\ savedLen' = [savedLen EXCEPT ![cur + 1] = 0]
              /\ savedAddr' = [savedAddr EXCEPT ![cur + 1] = NextRegion]
              /\ CopiesFit
          BY <1>10, <2>2 DEF SysExecveForked
        <4> QED BY <3>1, <3>2, <4>1 DEF TypeOK, CopiesFit
      <3> QED BY <3>3, <3>4
    <2> QED BY <2>1, <2>2
  <1>11. ASSUME NEW value \in Codes, SysExit(value) PROVE Safe'
    <2>1. CASE cur = 1
      <3>1. \A f \in Fds : fdMap[1][f] \in Files \cup Std
        BY <2>1 DEF TypeOK
      <3>2. fdMap' \in [Procs -> [Fds -> Files \cup Std]]
        BY <1>11, <2>1, <3>1 DEF SysExit, TypeOK, Std
      <3> QED BY <1>11, <2>1, <3>2 DEF SysExit, TypeOK, CopiesFit, forkVars
    <2>2. CASE cur # 1
      <3> DEFINE parent == cur - 1
      <3>1. parent \in Procs /\ cur \in Procs
        BY <2>2 DEF TypeOK, Procs
      <3>2. heap' \in [Cells -> Byte]
        BY <1>11, <2>2, <3>1, RestoreHeapType DEF SysExit
      <3>3. TypeOK'
        <4>1. /\ cur' = parent
              /\ childExit' = [childExit EXCEPT ![parent] = value, ![cur] = 0]
              /\ image' = [image EXCEPT ![parent] = savedImage[parent], ![cur] = NoImage]
              /\ brk' = [brk EXCEPT ![parent] = savedBrk[parent], ![cur] = NULL]
              /\ savedImage' = [savedImage EXCEPT ![parent] = NoImage, ![cur] = NoImage]
              /\ savedBrk' = [savedBrk EXCEPT ![cur] = NULL]
              /\ savedAddr' = [savedAddr EXCEPT ![cur] = 0]
              /\ savedLen' = [savedLen EXCEPT ![cur] = 0]
              /\ forked' = [forked EXCEPT ![cur] = FALSE]
              /\ fdMap' = [fdMap EXCEPT ![cur] = StdFds]
              /\ atFork' = [atFork EXCEPT ![parent] = NeverForked, ![cur] = NeverForked]
              /\ Return /\ saved' = saved
              /\ hostOpen' = hostOpen \ OwnHandles(cur)
          BY <1>11, <2>2 DEF SysExit
        <4> HIDE DEF parent
        <4>2. /\ brk' \in [Procs -> Address] /\ savedBrk' \in [Procs -> Address]
              /\ savedImage' \in [Procs -> Images \cup {NoImage}]
              /\ image' \in [Procs -> Images \cup {NoImage}]
              /\ childExit' \in [Procs -> Codes \cup {0}]
          BY <3>1, <4>1 DEF TypeOK, Address
        <4>3. /\ savedAddr' \in [Procs -> Int] /\ savedLen' \in [Procs -> Int]
              /\ forked' \in [Procs -> BOOLEAN]
          BY <4>1 DEF TypeOK
        <4>4. fdMap' \in [Procs -> [Fds -> Files \cup Std]]
          BY <4>1, FreshTypes DEF TypeOK
        <4>5. atFork' \in [Procs -> [heap : [Cells -> Byte], brk : Address,
                                     image : Images \cup {NoImage}]]
          BY <4>1, FreshTypes DEF TypeOK
        <4> QED BY <3>1, <3>2, <4>1, <4>2, <4>3, <4>4, <4>5 DEF TypeOK
      <3>4. CopiesFit'
        <4>1. /\ savedLen' = [savedLen EXCEPT ![cur] = 0]
              /\ savedAddr' = [savedAddr EXCEPT ![cur] = 0]
              /\ CopiesFit
          BY <1>11, <2>2 DEF SysExit
        <4> QED BY <3>1, <4>1 DEF TypeOK, CopiesFit
      <3> QED BY <3>3, <3>4
    <2> QED BY <2>1, <2>2
  <1>12. CASE UNCHANGED vars
    BY <1>12 DEF vars, TypeOK, CopiesFit
  <1>13. CASE Load \/ InitSyscalls
    BY <1>13 DEF Load, InitSyscalls, Abort, TypeOK, CopiesFit, forkVars
  <1> QED
    BY <1>1, <1>2, <1>3, <1>4, <1>5, <1>6, <1>7, <1>8, <1>9, <1>10, <1>11, <1>12, <1>13 DEF Next

(* Types and copies are safe in every reachable state, for all guests.     *)
THEOREM SafeAlways == Spec => []Safe
  BY InitSafe, StepSafe, PTL DEF Spec

(* Every variable keeps its type, for all guests.                          *)
THEOREM TypeCorrect == Spec => []TypeOK
  <1>1. Safe => TypeOK
    BY DEF Safe
  <1> QED BY <1>1, SafeAlways, PTL

-----------------------------------------------------------------------------
(* The copies of suspended processes.  RegionsStacked and SavedStateIntact *)
(* speak of the processes up to cur; to get through sys_exit, which makes  *)
(* the parent the running process again, one also needs that a process     *)
(* with a child of its own no longer counts as a forked child.             *)
WaitersNotForked == \A p \in 1 .. cur - 1 : ~forked[p]

Stacked(p) ==
    /\ savedAddr[p] \in 0 .. SavedSize
    /\ Suspended(p) => /\ savedLen[p] \in 0 .. HeapSize
                       /\ savedAddr[p] + savedLen[p] <= SavedSize
    /\ \A q \in p + 1 .. cur : savedAddr[p] + savedLen[p] <= savedAddr[q]

Intact(p) ==
    Suspended(p) =>
      /\ savedBrk[p] = atFork[p].brk
      /\ savedImage[p] = atFork[p].image
      /\ savedLen[p] = atFork[p].brk - BrkBase
      /\ \A c \in Cells : c < savedLen[p] => saved[savedAddr[p] + c] = atFork[p].heap[c]

Kept == WaitersNotForked /\ \A p \in 1 .. cur : Stacked(p) /\ Intact(p)

(* The inductive invariant. *)
CopiesInv == Safe /\ (status = "running" => Kept)

(* Nothing is suspended when the first program starts.                     *)
LEMMA InitKept == Init => Kept
  BY DEF Init, Kept, WaitersNotForked, Stacked, Intact, Suspended, Procs

(* Kept depends on nothing but these variables. *)
LEMMA KeptFrame ==
  ASSUME Kept, UNCHANGED <<cur, forked, forkVars>>
  PROVE  Kept'
  BY DEF Kept, WaitersNotForked, Stacked, Intact, Suspended, forkVars

(* fork writes the region of the running process, which begins where the   *)
(* regions of all its ancestors have ended.                                *)
LEMMA ForkKeeps ==
  ASSUME Safe, Kept, SysFork, status' = "running", "fork_before_brk" \notin Misuse
  PROVE  Kept'
  <1> DEFINE n == HeapInUse
  <1>1. /\ savedAddr[cur] + n <= SavedSize
        /\ savedBrk' = [savedBrk EXCEPT ![cur] = brk[cur]]
        /\ savedImage' = [savedImage EXCEPT ![cur] = image[cur]]
        /\ savedLen' = [savedLen EXCEPT ![cur] = n]
        /\ saved' = SaveHeap(savedAddr[cur], n)
        /\ forked' = [forked EXCEPT ![cur] = TRUE]
        /\ atFork' = [atFork EXCEPT ![cur] =
                        [heap |-> heap, brk |-> brk[cur], image |-> image[cur]]]
        /\ savedAddr' = savedAddr /\ cur' = cur
    BY DEF SysFork, PoolFits, Abort, Undefined
  <1>2. cur \in Procs /\ cur \in 1 .. cur /\ cur \in Int
    BY DEF Safe, TypeOK, Procs
  <1>3. brk[cur] \in BrkBase .. BrkBase + HeapSize
    BY <1>2 DEF SysFork, Safe, TypeOK, Address
  <1>4. n = brk[cur] - BrkBase /\ n \in 0 .. HeapSize
    BY <1>3 DEF HeapInUse
  <1>5. savedAddr[cur] \in 0 .. SavedSize
    BY <1>2 DEF Kept, Stacked
  <1> HIDE DEF n
  <1>6. WaitersNotForked'
    BY <1>1, <1>2 DEF Kept, WaitersNotForked, Safe, TypeOK, Procs
  <1>7. ASSUME NEW p \in 1 .. cur PROVE Stacked(p)' /\ Intact(p)'
    <2>1. p \in Procs
      BY <1>2 DEF Procs
    <2>2. CASE p = cur
      <3>1. Stacked(p)'
        BY <1>1, <1>2, <1>4, <1>5, <2>2 DEF Stacked, Safe, TypeOK
      <3>2. /\ savedLen'[p] = n /\ savedBrk'[p] = brk[cur] /\ savedImage'[p] = image[cur]
            /\ atFork'[p] = [heap |-> heap, brk |-> brk[cur], image |-> image[cur]]
            /\ savedAddr'[p] = savedAddr[cur]
        BY <1>1, <1>2, <2>2 DEF Safe, TypeOK
      <3>3. ASSUME NEW c \in Cells, c < n
            PROVE  saved'[savedAddr[cur] + c] = heap[c]
        <4>1. savedAddr[cur] + c \in Pool
          BY <1>1, <1>4, <1>5, <3>3 DEF Pool, Cells
        <4> QED BY <1>1, <1>4, <1>5, <3>3, <4>1 DEF SaveHeap, Cells
      <3>4. Intact(p)'
        BY <1>4, <3>2, <3>3 DEF Intact
      <3> QED BY <3>1, <3>4
    <2>3. CASE p # cur
      <3>1. p \in Int /\ p < cur /\ Suspended(p) /\ cur \in p + 1 .. cur
        BY <1>2, <2>3 DEF Suspended
      <3>2. Stacked(p) /\ Intact(p)
        BY DEF Kept
      <3>3. savedAddr[p] + savedLen[p] <= savedAddr[cur]
        BY <3>1, <3>2 DEF Stacked
      <3>4. /\ savedLen'[p] = savedLen[p] /\ savedBrk'[p] = savedBrk[p]
            /\ savedImage'[p] = savedImage[p] /\ atFork'[p] = atFork[p]
        BY <1>1, <2>1, <2>3 DEF Safe, TypeOK
      <3>5. Stacked(p)'
        <4>1. Suspended(p)'
          BY <1>1, <3>1 DEF Suspended
        <4> QED BY <1>1, <3>1, <3>2, <3>4 DEF Stacked
      <3>6. ASSUME NEW c \in Cells, c < savedLen[p]
            PROVE  saved'[savedAddr[p] + c] = saved[savedAddr[p] + c]
        <4>1. savedAddr[p] \in 0 .. SavedSize /\ savedLen[p] \in 0 .. HeapSize
              /\ savedAddr[p] + savedLen[p] <= SavedSize
          BY <3>1, <3>2 DEF Stacked
        <4>2. savedAddr[p] + c \in Pool
          BY <3>6, <4>1 DEF Pool, Cells
        <4> QED BY <1>1, <1>5, <3>3, <3>6, <4>1, <4>2 DEF SaveHeap, Cells
      <3>7. Intact(p)'
        BY <1>1, <3>1, <3>2, <3>4, <3>6 DEF Intact
      <3> QED BY <3>5, <3>7
    <2> QED BY <2>2, <2>3
  <1> QED BY <1>1, <1>6, <1>7 DEF Kept

(* A fork the guest may make has a copy that is defined, or ends the       *)
(* runner before anything is recorded.                                     *)
LEMMA ForkDefined ==
  ASSUME TypeOK, Kept, SysFork, "fork_before_brk" \notin Misuse, status' # "running"
  PROVE  UNCHANGED <<forked, forkVars>>
  <1>1. cur \in 1 .. cur /\ cur \in Procs
    BY DEF TypeOK, Procs
  <1>2. savedAddr[cur] >= 0
    BY <1>1 DEF Kept, Stacked
  <1>3. brk[cur] \in Int /\ brk[cur] >= BrkBase
    BY <1>1 DEF SysFork, TypeOK, Address
  <1>4. ~CopyEscapes /\ ~(HeapInUse < 0)
    BY <1>1, <1>2, <1>3 DEF CopyEscapes, HeapInUse, TypeOK
  <1> QED BY <1>4 DEF SysFork, Return, InHandler

(* execve gives the child the region that starts where the region of the   *)
(* process that forked it ends.                                            *)
LEMMA ExecKeeps ==
  ASSUME Safe, Kept, SysExecveForked, status' = "running"
  PROVE  Kept'
  <1>0. PICK new \in Int : new = cur + 1
    BY DEF Safe, TypeOK, Procs
  <1>1. /\ new \in Procs
        /\ cur' = new
        /\ savedBrk' = [savedBrk EXCEPT ![new] = NULL]
        /\ savedImage' = [savedImage EXCEPT ![new] = NoImage]
        /\ savedAddr' = [savedAddr EXCEPT ![new] = NextRegion]
        /\ savedLen' = [savedLen EXCEPT ![new] = 0]
        /\ forked' = [forked EXCEPT ![cur] = FALSE, ![new] = FALSE]
        /\ saved' = saved /\ atFork' = atFork
    BY <1>0 DEF SysExecveForked, Abort, CallocMaySucceed, Safe, TypeOK, Procs
  <1>2. cur \in Procs /\ cur \in 1 .. cur /\ forked[cur] /\ Suspended(cur)
    BY DEF SysExecveForked, Safe, TypeOK, Procs, Suspended
  <1>3. /\ savedAddr[cur] \in 0 .. SavedSize /\ savedLen[cur] \in 0 .. HeapSize
        /\ NextRegion = savedAddr[cur] + savedLen[cur]
        /\ NextRegion \in 0 .. SavedSize
    BY <1>2 DEF Kept, Stacked, NextRegion
  <1>4. ~forked'[new] /\ savedAddr'[new] = NextRegion
    BY <1>1 DEF Safe, TypeOK
  <1>5. ASSUME NEW p \in 1 .. cur
        PROVE  /\ p \in Procs /\ p \in Int /\ p < new
               /\ savedLen'[p] = savedLen[p] /\ savedBrk'[p] = savedBrk[p]
               /\ savedImage'[p] = savedImage[p] /\ savedAddr'[p] = savedAddr[p]
               /\ Suspended(p) /\ Suspended(p)'
    <2>1. p \in Procs /\ p \in Int /\ p < new
      BY <1>0, <1>1, <1>2 DEF Procs
    <2> QED BY <1>1, <1>2, <2>1 DEF Safe, TypeOK, Suspended
  <1>6. WaitersNotForked'
    <2>1. cur' - 1 = cur
      BY <1>0, <1>1, <1>2 DEF Procs
    <2> SUFFICES ASSUME NEW p \in 1 .. cur PROVE ~forked'[p]
      BY <2>1 DEF WaitersNotForked
    <2>2. CASE p = cur
      BY <1>0, <1>1, <1>2, <2>2 DEF Safe, TypeOK, Procs
    <2>3. CASE p # cur
      BY <1>0, <1>1, <1>2, <1>5, <2>3 DEF Kept, WaitersNotForked, Safe, TypeOK, Procs
    <2> QED BY <2>2, <2>3
  <1>7. ASSUME NEW p \in 1 .. cur, NEW q \in p + 1 .. new
        PROVE  savedAddr[p] + savedLen[p] <= savedAddr'[q]
    <2>1. CASE q = new
      <3>1. CASE p = cur
        BY <1>3, <1>4, <2>1, <3>1
      <3>2. CASE p # cur
        <4>1. cur \in p + 1 .. cur
          BY <1>0, <1>2, <1>5, <3>2 DEF Procs
        <4>2. savedAddr[p] + savedLen[p] <= savedAddr[cur]
          BY <4>1 DEF Kept, Stacked
        <4>3. savedAddr[p] \in Int /\ savedLen[p] \in Int
          BY <1>5 DEF Safe, TypeOK
        <4> QED BY <1>3, <1>4, <2>1, <4>2, <4>3
      <3> QED BY <3>1, <3>2
    <2>2. CASE q # new
      <3>1. q \in 1 .. cur /\ q \in p + 1 .. cur
        BY <1>0, <1>2, <1>5, <2>2 DEF Procs
      <3>2. savedAddr'[q] = savedAddr[q]
        BY <1>5, <3>1
      <3> QED BY <3>1, <3>2 DEF Kept, Stacked
    <2> QED BY <2>1, <2>2
  <1>8. ASSUME NEW p \in 1 .. cur PROVE Stacked(p)' /\ Intact(p)'
    <2>1. Stacked(p)'
      BY <1>1, <1>5, <1>7 DEF Kept, Stacked
    <2>2. Intact(p)'
      BY <1>1, <1>5 DEF Kept, Intact
    <2> QED BY <2>1, <2>2
  <1>9. Stacked(new)' /\ Intact(new)'
    <2>1. ~Suspended(new)'
      BY <1>1, <1>4 DEF Suspended, Procs
    <2> QED BY <1>1, <1>3, <1>4, <2>1 DEF Stacked, Intact, Procs
  <1>10. \A p \in 1 .. cur' : p \in 1 .. cur \/ p = new
    BY <1>0, <1>1, <1>2 DEF Procs
  <1> QED BY <1>1, <1>6, <1>8, <1>9, <1>10 DEF Kept

(* exit makes the parent the running process; it no longer has a child, so *)
(* its own copies are free to go, and those of its ancestors are untouched.*)
LEMMA ExitKeeps ==
  ASSUME Safe, Kept, NEW value \in Codes, SysExit(value), status' = "running"
  PROVE  Kept'
  <1> DEFINE parent == cur - 1
  <1>1. /\ cur > 1 /\ cur' = parent
        /\ savedBrk' = [savedBrk EXCEPT ![cur] = NULL]
        /\ savedImage' = [savedImage EXCEPT ![parent] = NoImage, ![cur] = NoImage]
        /\ savedAddr' = [savedAddr EXCEPT ![cur] = 0]
        /\ savedLen' = [savedLen EXCEPT ![cur] = 0]
        /\ forked' = [forked EXCEPT ![cur] = FALSE]
        /\ atFork' = [atFork EXCEPT ![parent] = NeverForked, ![cur] = NeverForked]
        /\ saved' = saved
    BY DEF SysExit
  <1>2. cur \in Procs /\ parent \in 1 .. cur - 1 /\ cur \in Int
    BY <1>1 DEF Safe, TypeOK, Procs
  <1>3. \A p \in 1 .. parent : ~forked'[p]
    BY <1>1, <1>2 DEF Kept, WaitersNotForked, Safe, TypeOK, Procs
  <1>4. ASSUME NEW p \in 1 .. parent PROVE Stacked(p)' /\ Intact(p)'
    <2>1. /\ p \in Procs /\ p \in Int /\ p < cur /\ Suspended(p)
      BY <1>2 DEF Procs, Suspended
    <2>2. /\ savedLen'[p] = savedLen[p] /\ savedBrk'[p] = savedBrk[p]
          /\ savedAddr'[p] = savedAddr[p]
      BY <1>1, <1>2, <2>1 DEF Safe, TypeOK
    <2>3. Stacked(p) /\ Intact(p)
      BY <1>2, <2>1 DEF Kept
    <2>4. \A q \in p + 1 .. parent : q \in p + 1 .. cur /\ savedAddr'[q] = savedAddr[q]
      BY <1>1, <1>2, <2>1 DEF Safe, TypeOK, Procs
    <2>5. Stacked(p)'
      BY <1>1, <2>1, <2>2, <2>3, <2>4 DEF Stacked
    <2>6. CASE p = parent
      <3>1. ~Suspended(p)'
        BY <1>1, <1>2, <1>3, <2>1, <2>6 DEF Suspended
      <3> QED BY <2>5, <3>1 DEF Intact
    <2>7. CASE p # parent
      <3>1. savedImage'[p] = savedImage[p] /\ atFork'[p] = atFork[p]
        BY <1>1, <1>2, <2>1, <2>7 DEF Safe, TypeOK
      <3>2. Intact(p)'
        BY <1>1, <2>1, <2>2, <2>3, <3>1 DEF Intact
      <3> QED BY <2>5, <3>2
    <2> QED BY <2>6, <2>7
  <1>5. WaitersNotForked'
    BY <1>1, <1>2, <1>3 DEF WaitersNotForked
  <1> QED BY <1>1, <1>4, <1>5 DEF Kept

(* The invariant is inductive: one case per action.                        *)
LEMMA StepCopies ==
  ASSUME "fork_before_brk" \notin Misuse, CopiesInv, [Next]_vars
  PROVE  CopiesInv'
  <1>1. Safe /\ Safe'
    BY StepSafe DEF CopiesInv
  <1> SUFFICES ASSUME status' = "running" PROVE Kept'
    BY <1>1 DEF CopiesInv
  <1>2. CASE UNCHANGED vars
    BY <1>2, KeptFrame DEF vars, forkVars, CopiesInv
  <1>3. CASE Next
    <2>1. status = "running"
      BY <1>3 DEF Next, Load, InitSyscalls, GuestStore, GuestPatch, EnterSyscall, SysOpen, SysClose,
           SysHostCall, SysBrk, SysFork, SysExecveInPlace, SysExecveForked,
           SysExit, InHandler, InGuest
    <2>2. Kept
      BY <2>1 DEF CopiesInv
    <2>3. CASE SysFork
      BY <1>1, <2>2, <2>3, ForkKeeps
    <2>4. CASE SysExecveForked
      BY <1>1, <2>2, <2>4, ExecKeeps
    <2>5. CASE \E value \in Codes : SysExit(value)
      BY <1>1, <2>2, <2>5, ExitKeeps
    <2>6. CASE UNCHANGED <<cur, forked, forkVars>>
      BY <2>2, <2>6, KeptFrame
    <2> QED BY <1>3, <2>3, <2>4, <2>5, <2>6
         DEF Next, Load, InitSyscalls, GuestStore, GuestPatch, EnterSyscall, SysOpen, SysClose,
             SysHostCall, SysBrk, SysExecveInPlace
  <1> QED BY <1>2, <1>3

(* The inductive invariant holds in every reachable state.                 *)
THEOREM CopiesAlways == ASSUME "fork_before_brk" \notin Misuse PROVE Spec => []CopiesInv
  <1>1. Init => CopiesInv
    BY InitSafe, InitKept DEF CopiesInv
  <1>2. CopiesInv /\ [Next]_vars => CopiesInv'
    BY StepCopies
  <1> QED BY <1>1, <1>2, PTL DEF Spec

(* The regions of suspended processes never overlap and never leave the    *)
(* pool, as long as no guest forks before its first brk.                   *)
THEOREM RegionsTheorem ==
  ASSUME "fork_before_brk" \notin Misuse PROVE Spec => []RegionsStacked
  <1>1. CopiesInv => RegionsStacked
    BY DEF CopiesInv, Kept, Stacked, RegionsStacked
  <1> QED BY <1>1, CopiesAlways, PTL

(* No step of any descendant disturbs what a suspended process will be     *)
(* restored from.                                                          *)
THEOREM IntactTheorem ==
  ASSUME "fork_before_brk" \notin Misuse PROVE Spec => []SavedStateIntact
  <1>1. CopiesInv => SavedStateIntact
    BY DEF CopiesInv, Kept, Intact, SavedStateIntact
  <1> QED BY <1>1, CopiesAlways, PTL

(* Hence the parent resumes as the process it was when it forked.          *)
Resumes ==
    cur' < cur =>
      /\ brk'[cur'] = atFork[cur'].brk
      /\ image'[cur'] = atFork[cur'].image
      /\ \A c \in Cells :
           c < atFork[cur'].brk - BrkBase => heap'[c] = atFork[cur'].heap[c]

(* From the invariant, one exit copies back exactly what was forked.       *)
LEMMA ExitResumes ==
  ASSUME CopiesInv, Next PROVE Resumes
  <1> SUFFICES ASSUME cur' < cur PROVE Resumes
    BY DEF Resumes
  <1>1. cur \in Int
    BY DEF CopiesInv, Safe, TypeOK, Procs
  <1>2. PICK value \in Codes : SysExit(value)
    BY <1>1 DEF Next, Load, InitSyscalls, GuestStore, GuestPatch, EnterSyscall, SysOpen,
         SysClose, SysHostCall,
         SysBrk, SysFork, SysExecveInPlace, SysExecveForked
  <1> DEFINE parent == cur - 1
  <1>3. /\ cur > 1 /\ cur' = parent /\ status = "running"
        /\ heap' = RestoreHeap(savedAddr[parent], savedLen[parent])
        /\ image' = [image EXCEPT ![parent] = savedImage[parent], ![cur] = NoImage]
        /\ brk' = [brk EXCEPT ![parent] = savedBrk[parent], ![cur] = NULL]
    BY <1>1, <1>2 DEF SysExit, InHandler
  <1>4. parent \in Procs /\ parent \in 1 .. cur /\ Suspended(parent) /\ parent # cur
    BY <1>3 DEF CopiesInv, Safe, TypeOK, Procs, Suspended
  <1>5. /\ savedBrk[parent] = atFork[parent].brk
        /\ savedImage[parent] = atFork[parent].image
        /\ savedLen[parent] = atFork[parent].brk - BrkBase
        /\ \A c \in Cells : c < savedLen[parent] =>
             saved[savedAddr[parent] + c] = atFork[parent].heap[c]
    BY <1>3, <1>4 DEF CopiesInv, Kept, Intact
  <1>6. brk'[parent] = savedBrk[parent] /\ image'[parent] = savedImage[parent]
    BY <1>3, <1>4 DEF CopiesInv, Safe, TypeOK
  <1>7. \A c \in Cells : c < savedLen[parent] => heap'[c] = atFork[parent].heap[c]
    BY <1>3, <1>5 DEF RestoreHeap
  <1> QED BY <1>3, <1>5, <1>6, <1>7 DEF Resumes

(* Whatever its descendants did, a process whose child exits finds its     *)
(* break, its program and stack, and its heap as they were when it forked. *)
THEOREM ResumeTheorem ==
  ASSUME "fork_before_brk" \notin Misuse PROVE Spec => ResumedAsForked
  <1>1. CopiesInv /\ [Next]_vars => [Resumes]_vars
    BY ExitResumes
  <1>2. [Resumes]_vars <=>
        [cur' < cur =>
          /\ brk'[cur'] = atFork[cur'].brk
          /\ image'[cur'] = atFork[cur'].image
          /\ \A c \in Cells :
               c < atFork[cur'].brk - BrkBase => heap'[c] = atFork[cur'].heap[c]]_vars
    BY DEF Resumes
  <1> QED BY <1>1, <1>2, CopiesAlways, PTL DEF Spec, ResumedAsForked

-----------------------------------------------------------------------------
(***************************************************************************)
(* What the runner owes the firmware: the files it opened there and the    *)
(* task priority it found.                                                 *)
(***************************************************************************)

(* Task priority.  The runner leaves a handler only by the return to the   *)
(* guest, which raises the priority, by the jump to a new program, or for  *)
(* good; so it is enough that the priority is the caller's in every        *)
(* handler, and in main until main raises it.                              *)
TplInv == FirmwareTplOnExit /\ (status = "running" /\ pc \in {"main", "handler"} => tpl = "caller")

(* A handler lowers the priority before it does anything else.             *)
LEMMA StepTpl == TplInv /\ [Next]_vars => TplInv'
  <1> SUFFICES ASSUME TplInv, [Next]_vars PROVE TplInv'
    OBVIOUS
  <1>1. CASE UNCHANGED vars
    BY <1>1 DEF vars, TplInv, FirmwareTplOnExit
  <1>2. CASE Load
    BY <1>2 DEF Load, Abort, TplInv, FirmwareTplOnExit
  <1>3. CASE InitSyscalls
    BY <1>3 DEF InitSyscalls, Abort, TplInv, FirmwareTplOnExit
  <1>4. CASE EnterSyscall
    BY <1>4 DEF EnterSyscall, InGuest, TplInv, FirmwareTplOnExit
  <1>5. ASSUME UNCHANGED machine PROVE TplInv'
    BY <1>5 DEF machine, TplInv, FirmwareTplOnExit
  <1>6. ASSUME InHandler, Return \/ Abort \/ Undefined PROVE TplInv'
    BY <1>6 DEF InHandler, Return, Abort, Undefined, TplInv, FirmwareTplOnExit
  <1>7. ASSUME InHandler, pc' = "guest" /\ UNCHANGED <<status, tpl>> PROVE TplInv'
    BY <1>7 DEF InHandler, TplInv, FirmwareTplOnExit
  <1>8. CASE \E value \in Codes : SysExit(value)
    <2>0. PICK value \in Codes : SysExit(value)
      BY <1>8
    <2>1. InHandler /\ (Return \/ (status' = "exited" /\ UNCHANGED <<pc, tpl>>))
      BY <2>0 DEF SysExit
    <2>2. CASE Return
      BY <1>6, <2>1, <2>2
    <2>3. CASE status' = "exited" /\ UNCHANGED <<pc, tpl>>
      BY <2>1, <2>3 DEF InHandler, TplInv, FirmwareTplOnExit
    <2> QED BY <2>1, <2>2, <2>3
  <1>9. CASE SysExecveInPlace \/ SysExecveForked
    BY <1>6, <1>7, <1>9 DEF SysExecveInPlace, SysExecveForked, LoadAndJump
  <1>10. CASE \/ SysOpen
              \/ \E fd \in CloseFds : SysClose(fd)
              \/ SysHostCall \/ SysFork
              \/ \E addr \in Address \cup {BrkBase + HeapSize + 1} : SysBrk(addr)
    BY <1>6, <1>10 DEF SysOpen, SysClose, SysHostCall, SysFork, SysBrk
  <1>11. CASE \/ \E c \in Cells, b \in Byte : GuestStore(c, b)
              \/ \E i \in Images : GuestPatch(i)
    BY <1>5, <1>11 DEF GuestStore, GuestPatch
  <1> QED BY <1>1, <1>2, <1>3, <1>4, <1>8, <1>9, <1>10, <1>11 DEF Next

(* However the runner ends, the firmware is entered at the priority it had *)
(* when it called main, except from the allocation of the syscall table.   *)
THEOREM TplTheorem == Spec => []FirmwareTplOnExit
  <1>1. Init => TplInv
    BY DEF Init, TplInv, FirmwareTplOnExit
  <1>2. TplInv => FirmwareTplOnExit
    BY DEF TplInv
  <1> QED BY <1>1, <1>2, StepTpl, PTL DEF Spec

-----------------------------------------------------------------------------
(* Host handles.  HandlesAccounted alone is not inductive: close on one of *)
(* the descriptors 0 to 2 would have to be known not to name a file, since *)
(* exit closes from descriptor 3 up.                                       *)
StdNeverFiles == \A p \in Procs : \A f \in Std : fdMap[p][f] \notin Files

(* HandlesAccounted, said of one handle at a time. *)
Accounted ==
    /\ \A h \in Files : h \in hostOpen <=> \E p \in 1 .. cur, f \in Fds : fdMap[p][f] = h
    /\ \A h \in Files, p, q \in 1 .. cur, f, g \in Fds :
         fdMap[p][f] = h /\ fdMap[q][g] = h => p = q /\ f = g

FilesInv ==
    /\ TypeOK /\ StdNeverFiles
    /\ status = "running" => Accounted
    /\ ExitClosesAllFiles

(* The descriptors below 3 are never files, so the handles exit closes are *)
(* all a process has.                                                      *)
LEMMA OwnHandlesAll ==
  ASSUME TypeOK, StdNeverFiles, NEW p \in Procs, NEW h \in Files
  PROVE  h \in OwnHandles(p) <=> \E f \in Fds : fdMap[p][f] = h
  <1>1. h # 0
    OBVIOUS
  <1>2. ASSUME NEW f \in Fds, fdMap[p][f] = h PROVE f >= 3 /\ fdMap[p][f] # NULL
    <2>1. f \notin Std
      BY <1>2 DEF StdNeverFiles
    <2> QED BY <1>1, <1>2, <2>1 DEF Std, Fds
  <1> QED BY <1>2 DEF OwnHandles

(* What the handles of the live processes amount to, in both forms.        *)
LEMMA AccountedIsHandlesAccounted ==
  ASSUME TypeOK, StdNeverFiles, status = "running", Accounted
  PROVE  HandlesAccounted
  <1>1. \A p \in 1 .. cur : p \in Procs
    BY DEF TypeOK, Procs
  <1>2. ASSUME NEW h \in Files
        PROVE  h \in hostOpen <=> h \in UNION {OwnHandles(p) : p \in 1 .. cur}
    BY <1>1, OwnHandlesAll DEF Accounted
  <1> QED BY <1>2 DEF HandlesAccounted, Accounted

(* A new process names no file.                                            *)
LEMMA StdFdsNoFiles == \A f \in Fds : StdFds[f] \notin Files
  BY DEF StdFds, Std

(* Accounted depends on the descriptors of the live processes only.        *)
LEMMA AccountedFrame ==
  ASSUME Accounted, UNCHANGED <<cur, fdMap, hostOpen>>
  PROVE  Accounted'
  BY DEF Accounted

(* open takes a free descriptor and a handle that nobody has.              *)
LEMMA OpenKeeps ==
  ASSUME TypeOK, StdNeverFiles, Accounted, SysOpen
  PROVE  StdNeverFiles' /\ Accounted'
  <1>1. cur' = cur /\ cur \in Procs /\ cur \in 1 .. cur
    BY DEF SysOpen, TypeOK, Procs
  <1>2. CASE UNCHANGED <<fdMap, hostOpen>>
    BY <1>1, <1>2, AccountedFrame DEF StdNeverFiles
  <1>3. CASE \E h \in Files \ hostOpen, fd \in FreeFds :
               /\ hostOpen' = hostOpen \cup {h}
               /\ fdMap' = [fdMap EXCEPT ![cur][fd] = h]
    <2>1. PICK h \in Files \ hostOpen, fd \in FreeFds :
               /\ hostOpen' = hostOpen \cup {h}
               /\ fdMap' = [fdMap EXCEPT ![cur][fd] = h]
      BY <1>3
    <2>2. fd \in Fds /\ fd \notin Std /\ fdMap[cur][fd] = 0
      BY DEF FreeFds, Std
    <2>3. \A p \in Procs, f \in Fds :
            fdMap'[p][f] = IF p = cur /\ f = fd THEN h ELSE fdMap[p][f]
      BY <1>1, <2>1, <2>2 DEF TypeOK
    <2>4. StdNeverFiles'
      BY <2>2, <2>3 DEF StdNeverFiles, Std, Fds
    <2>5. \A p \in 1 .. cur : p \in Procs
      BY <1>1 DEF Procs
    <2>6. \A p \in 1 .. cur, f \in Fds : fdMap[p][f] # h
      BY DEF Accounted
    <2>7. ASSUME NEW g \in Files
          PROVE  g \in hostOpen' <=> \E p \in 1 .. cur, f \in Fds : fdMap'[p][f] = g
      <3>1. CASE g = h
        BY <1>1, <2>1, <2>2, <2>3, <3>1
      <3>2. CASE g # h
        <4>1. \A p \in 1 .. cur, f \in Fds : fdMap'[p][f] = g <=> fdMap[p][f] = g
          BY <2>2, <2>3, <2>5, <3>2
        <4> QED BY <2>1, <3>2, <4>1 DEF Accounted
      <3> QED BY <3>1, <3>2
    <2>8. ASSUME NEW g \in Files, NEW p \in 1 .. cur, NEW q \in 1 .. cur,
                 NEW e \in Fds, NEW f \in Fds, fdMap'[p][e] = g, fdMap'[q][f] = g
          PROVE  p = q /\ e = f
      <3>1. CASE g = h
        BY <2>3, <2>5, <2>6, <2>8, <3>1
      <3>2. CASE g # h
        BY <2>2, <2>3, <2>5, <2>8, <3>2 DEF Accounted
      <3> QED BY <3>1, <3>2
    <2> QED BY <1>1, <2>4, <2>7, <2>8 DEF Accounted
  <1> QED BY <1>2, <1>3 DEF SysOpen

(* close forgets the one descriptor that named the handle.                 *)
LEMMA CloseKeeps ==
  ASSUME TypeOK, StdNeverFiles, Accounted, NEW fd \in CloseFds, SysClose(fd)
  PROVE  StdNeverFiles' /\ Accounted'
  <1>1. cur' = cur /\ cur \in Procs /\ cur \in 1 .. cur
    BY DEF SysClose, TypeOK, Procs
  <1>2. CASE resolve_fd(fd) = -1
    BY <1>1, <1>2, AccountedFrame DEF SysClose, StdNeverFiles
  <1>3. CASE resolve_fd(fd) # -1
    <2>0. fd \in Int /\ ~(fd < 0 \/ fd >= FdMax)
      BY <1>3 DEF resolve_fd
    <2>1. fd \in Fds /\ resolve_fd(fd) = fdMap[cur][fd]
      BY <2>0 DEF resolve_fd, Fds
    <2>2. /\ fdMap' = [fdMap EXCEPT ![cur][fd] = 0]
          /\ hostOpen' = hostOpen \ {fdMap[cur][fd]}
      BY <1>3, <2>1 DEF SysClose
    <2>3. \A p \in Procs, f \in Fds :
            fdMap'[p][f] = IF p = cur /\ f = fd THEN 0 ELSE fdMap[p][f]
      BY <1>1, <2>1, <2>2 DEF TypeOK
    <2>4. StdNeverFiles'
      BY <2>3 DEF StdNeverFiles, Std, Fds
    <2>5. \A p \in 1 .. cur : p \in Procs
      BY <1>1 DEF Procs
    <2>6. ASSUME NEW h \in Files
          PROVE  h \in hostOpen' <=> \E p \in 1 .. cur, f \in Fds : fdMap'[p][f] = h
      <3>1. CASE fdMap[cur][fd] = h
        <4>1. ASSUME NEW p \in 1 .. cur, NEW f \in Fds, fdMap[p][f] = h
              PROVE  p = cur /\ f = fd
          BY <1>1, <2>1, <3>1, <4>1 DEF Accounted
        <4> QED BY <2>2, <2>3, <2>5, <3>1, <4>1
      <3>2. CASE fdMap[cur][fd] # h
        <4>1. \A p \in 1 .. cur, f \in Fds : fdMap'[p][f] = h <=> fdMap[p][f] = h
          BY <2>3, <2>5, <3>2
        <4> QED BY <2>2, <3>2, <4>1 DEF Accounted
      <3> QED BY <3>1, <3>2
    <2>7. ASSUME NEW h \in Files, NEW p \in 1 .. cur, NEW q \in 1 .. cur,
                 NEW e \in Fds, NEW f \in Fds, fdMap'[p][e] = h, fdMap'[q][f] = h
          PROVE  p = q /\ e = f
      <3>1. fdMap[p][e] = h /\ fdMap[q][f] = h
        BY <2>3, <2>5, <2>7
      <3> QED BY <3>1 DEF Accounted
    <2> QED BY <1>1, <2>4, <2>6, <2>7 DEF Accounted
  <1> QED BY <1>2, <1>3

(* execve in a forked child starts a process that names no file.           *)
LEMMA ExecveKeepsFiles ==
  ASSUME TypeOK, StdNeverFiles, Accounted, SysExecveForked, status' = "running"
  PROVE  StdNeverFiles' /\ Accounted'
  <1>0. PICK new \in Int : new = cur + 1
    BY DEF TypeOK, Procs
  <1>1. /\ new \in Procs /\ cur' = new /\ hostOpen' = hostOpen
        /\ fdMap' = [fdMap EXCEPT ![new] = StdFds]
    BY <1>0 DEF SysExecveForked, Abort, CallocMaySucceed, TypeOK, Procs
  <1>2. \A p \in Procs, f \in Fds :
          fdMap'[p][f] = IF p = new THEN StdFds[f] ELSE fdMap[p][f]
    BY <1>1 DEF TypeOK
  <1>3. StdNeverFiles'
    BY <1>2, StdFdsNoFiles DEF StdNeverFiles, Std, Fds
  <1>4. \A p \in 1 .. new : p \in Procs /\ (p = new \/ p \in 1 .. cur)
    BY <1>0, <1>1 DEF Procs, TypeOK
  <1>5. \A p \in 1 .. cur : p \in 1 .. new /\ p # new
    BY <1>0 DEF TypeOK, Procs
  <1>6. \A h \in Files, p \in 1 .. new, f \in Fds :
          fdMap'[p][f] = h <=> p \in 1 .. cur /\ fdMap[p][f] = h
    BY <1>2, <1>4, <1>5, StdFdsNoFiles
  <1> QED BY <1>1, <1>3, <1>5, <1>6 DEF Accounted

(* The exit of a child closes all its files and nobody else's.             *)
LEMMA ExitKeepsFiles ==
  ASSUME TypeOK, StdNeverFiles, Accounted, NEW value \in Codes, SysExit(value), cur # 1
  PROVE  StdNeverFiles' /\ Accounted'
  <1>1. /\ cur \in Procs /\ cur \in Int /\ cur > 1 /\ cur' = cur - 1
        /\ hostOpen' = hostOpen \ OwnHandles(cur)
        /\ fdMap' = [fdMap EXCEPT ![cur] = StdFds]
    BY DEF SysExit, TypeOK, Procs
  <1>2. \A p \in Procs, f \in Fds :
          fdMap'[p][f] = IF p = cur THEN StdFds[f] ELSE fdMap[p][f]
    BY <1>1 DEF TypeOK
  <1>3. StdNeverFiles'
    BY <1>2, StdFdsNoFiles DEF StdNeverFiles, Std, Fds
  <1>4. \A p \in 1 .. cur - 1 : p \in Procs /\ p \in 1 .. cur /\ p # cur
    BY <1>1 DEF Procs
  <1>5. \A p \in 1 .. cur : p = cur \/ p \in 1 .. cur - 1
    BY <1>1
  <1>6. cur \in 1 .. cur
    BY <1>1
  <1>7. ASSUME NEW h \in Files
        PROVE  h \in hostOpen' <=> \E p \in 1 .. cur - 1, f \in Fds : fdMap'[p][f] = h
    <2>1. h \in OwnHandles(cur) <=> \E f \in Fds : fdMap[cur][f] = h
      BY <1>1, OwnHandlesAll
    <2>2. h \in hostOpen <=> \E p \in 1 .. cur, f \in Fds : fdMap[p][f] = h
      BY DEF Accounted
    <2>3. \A p \in 1 .. cur - 1, f \in Fds : fdMap'[p][f] = fdMap[p][f]
      BY <1>2, <1>4
    <2>4. \A p \in 1 .. cur - 1, f, g \in Fds : ~(fdMap[cur][f] = h /\ fdMap[p][g] = h)
      BY <1>4, <1>6 DEF Accounted
    <2>5. CASE h \in OwnHandles(cur)
      BY <1>1, <2>1, <2>3, <2>4, <2>5
    <2>6. CASE h \notin OwnHandles(cur)
      BY <1>1, <1>4, <1>5, <2>1, <2>2, <2>3, <2>6
    <2> QED BY <2>5, <2>6
  <1>8. \A h \in Files, p, q \in 1 .. cur - 1, f, g \in Fds :
          fdMap'[p][f] = h /\ fdMap'[q][g] = h => p = q /\ f = g
    BY <1>2, <1>4 DEF Accounted
  <1> QED BY <1>1, <1>3, <1>7, <1>8 DEF Accounted

(* The exit of the root closes all that is left open.                      *)
LEMMA RootExitCloses ==
  ASSUME TypeOK, StdNeverFiles, Accounted, NEW value \in Codes, SysExit(value), cur = 1
  PROVE  StdNeverFiles' /\ hostOpen' \cap Files = {} /\ status' = "exited"
  <1>1. /\ hostOpen' = hostOpen \ OwnHandles(1) /\ status' = "exited"
        /\ fdMap' = [fdMap EXCEPT ![1] = [f \in Fds |-> IF f \in Std THEN @[f] ELSE NULL]]
    BY DEF SysExit
  <1>2. 1 \in Procs /\ \A p \in 1 .. cur : p = 1
    BY DEF TypeOK
  <1>3. StdNeverFiles'
    BY <1>1, <1>2 DEF StdNeverFiles, Std, Fds, TypeOK
  <1>4. ASSUME NEW h \in Files PROVE h \notin hostOpen'
    BY <1>1, <1>2, OwnHandlesAll DEF Accounted
  <1> QED BY <1>1, <1>3, <1>4

(* The invariant is inductive: only four calls touch descriptors.          *)
LEMMA StepFiles == ASSUME FilesInv, Safe, [Next]_vars PROVE FilesInv'
  <1>1. TypeOK'
    BY StepSafe DEF Safe
  <1>2. CASE UNCHANGED vars
    BY <1>1, <1>2, AccountedFrame DEF vars, FilesInv, StdNeverFiles, ExitClosesAllFiles
  <1>3. CASE Next
    <2>1. status = "running" /\ TypeOK /\ StdNeverFiles /\ Accounted
      BY <1>3 DEF FilesInv, Next, Load, InitSyscalls, GuestStore, GuestPatch, EnterSyscall,
           SysOpen, SysClose,
           SysHostCall, SysBrk, SysFork, SysExecveInPlace, SysExecveForked,
           SysExit, InHandler, InGuest
    <2>2. CASE SysOpen
      BY <1>1, <2>1, <2>2, OpenKeeps DEF FilesInv, ExitClosesAllFiles, SysOpen, Return
    <2>3. CASE \E fd \in CloseFds : SysClose(fd)
      BY <1>1, <2>1, <2>3, CloseKeeps DEF FilesInv, ExitClosesAllFiles, SysClose, Return
    <2>4. CASE SysExecveForked
      <3>1. CASE status' = "running"
        BY <1>1, <2>1, <2>4, <3>1, ExecveKeepsFiles DEF FilesInv, ExitClosesAllFiles
      <3>2. CASE status' # "running"
        <4>1. fdMap' = fdMap \/ fdMap' = [fdMap EXCEPT ![cur + 1] = StdFds]
          BY <2>4 DEF SysExecveForked
        <4>2. StdNeverFiles'
          <5>1. \A f \in Std : f \in Fds
            BY DEF Std, Fds
          <5> QED BY <2>1, <4>1, <5>1, StdFdsNoFiles DEF StdNeverFiles, TypeOK
        <4>3. status' # "exited"
          BY <2>1, <2>4 DEF SysExecveForked, Abort, LoadAndJump, Return
        <4> QED BY <1>1, <3>2, <4>2, <4>3 DEF FilesInv, ExitClosesAllFiles
      <3> QED BY <3>1, <3>2
    <2>5. ASSUME NEW value \in Codes, SysExit(value) PROVE FilesInv'
      <3>1. CASE cur = 1
        BY <1>1, <2>1, <2>5, <3>1, RootExitCloses DEF FilesInv, ExitClosesAllFiles
      <3>2. CASE cur # 1
        BY <1>1, <2>1, <2>5, <3>2, ExitKeepsFiles
           DEF FilesInv, ExitClosesAllFiles, SysExit, Return
      <3> QED BY <3>1, <3>2
    <2>6. CASE UNCHANGED <<cur, fdMap, hostOpen>> /\ status' # "exited"
      BY <1>1, <2>1, <2>6, AccountedFrame DEF FilesInv, StdNeverFiles, ExitClosesAllFiles
    <2> QED BY <1>3, <2>1, <2>2, <2>3, <2>4, <2>5, <2>6
         DEF Next, Load, InitSyscalls, GuestStore, GuestPatch, EnterSyscall, SysHostCall,
             SysBrk, SysFork,
             SysExecveInPlace, LoadAndJump, Return, Abort, Undefined, machine
  <1> QED BY <1>2, <1>3

(* The invariant holds in every reachable state, for all guests.           *)
THEOREM FilesAlways == Spec => []FilesInv
  <1>1. Init => FilesInv
    <2> SUFFICES ASSUME Init PROVE FilesInv
      OBVIOUS
    <2>1. TypeOK
      BY InitSafe DEF Safe
    <2>2. \A p \in Procs, f \in Fds : fdMap[p][f] \notin Files
      BY StdFdsNoFiles DEF Init
    <2>3. cur = 1 /\ 1 \in Procs /\ hostOpen = Std /\ status = "running"
      BY DEF Init, Procs
    <2>4. StdNeverFiles
      BY <2>2 DEF StdNeverFiles, Std, Fds
    <2>5. Accounted
      BY <2>2, <2>3 DEF Accounted, Std
    <2> QED BY <2>1, <2>3, <2>4, <2>5 DEF FilesInv, ExitClosesAllFiles
  <1>2. FilesInv /\ Safe /\ [Next]_vars => FilesInv'
    BY StepFiles
  <1> QED BY <1>1, <1>2, SafeAlways, PTL DEF Spec

(* A file is open on the host exactly as long as one descriptor of one     *)
(* live process names it.                                                  *)
THEOREM HandlesTheorem == Spec => []HandlesAccounted
  <1>1. FilesInv => HandlesAccounted
    BY AccountedIsHandlesAccounted DEF FilesInv, HandlesAccounted
  <1> QED BY <1>1, FilesAlways, PTL

(* When the first guest exits, no file is left open in the firmware.       *)
THEOREM ExitClosesTheorem == Spec => []ExitClosesAllFiles
  <1>1. FilesInv => ExitClosesAllFiles
    BY DEF FilesInv
  <1> QED BY <1>1, FilesAlways, PTL

-----------------------------------------------------------------------------
(***************************************************************************)
(* PosixRunner implements ForkExec, for every number of processes and      *)
(* every size of the brk area and the pool: guests that keep to fork, brk  *)
(* and execve in the usual order cannot tell the one memory of the runner  *)
(* from a memory for each of them.                                         *)
(***************************************************************************)

-----------------------------------------------------------------------------
(* The stack of processes as a sequence *)

Depth == IF forked[cur] THEN cur + 1 ELSE cur

(* A function on 1 .. n is a sequence of length n.                         *)
LEMMA LenOfFunction ==
  ASSUME NEW n \in Nat, NEW s, s = [p \in 1 .. n |-> s[p]]
  PROVE  Len(s) = n /\ \E S : s \in Seq(S)
  <1> DEFINE S == {s[p] : p \in 1 .. n}
  <1>1. s \in [1 .. n -> S]
    OBVIOUS
  <1>2. s \in Seq(S)
    BY <1>1, SeqDef
  <1>3. Len(s) \in Nat /\ DOMAIN s = 1 .. Len(s)
    BY <1>2, LenProperties
  <1>4. DOMAIN s = 1 .. n
    BY <1>1
  <1>5. n \in 1 .. n <=> n \in 1 .. Len(s)
    BY <1>3, <1>4
  <1>6. Len(s) \in 1 .. n <=> Len(s) \in 1 .. Len(s)
    BY <1>3, <1>4
  <1>7. Len(s) = n
    <2> HIDE DEF S
    <2> QED BY <1>3, <1>5, <1>6, SMT
  <1> QED BY <1>2, <1>7

(* What the refinement mapping makes of a state and of the next one.       *)
LEMMA Shape ==
  ASSUME cur \in Procs, cur' \in Procs
  PROVE  /\ Depth \in Nat /\ Depth >= 1 /\ Depth' \in Nat /\ Depth' >= 1
         /\ ProcessStack = [p \in 1 .. Depth |->
                              IF p < Depth THEN SavedProcess(p) ELSE LiveProcess]
         /\ ProcessStack' = [p \in 1 .. Depth' |->
                              IF p < Depth' THEN SavedProcess(p)' ELSE LiveProcess']
         /\ Len(ProcessStack) = Depth /\ Len(ProcessStack') = Depth'
         /\ Promise!Top = LiveProcess
         /\ \E S : ProcessStack \in Seq(S)
         /\ \E S : ProcessStack' \in Seq(S)
  <1>0. \A n \in Procs : n \in Nat /\ n >= 1 /\ n + 1 \in Nat /\ n + 1 >= 1
    BY DEF Procs
  <1>1. Depth \in Nat /\ Depth >= 1 /\ Depth' \in Nat /\ Depth' >= 1
    BY <1>0 DEF Depth
  <1>2. ProcessStack = [p \in 1 .. Depth |->
                          IF p < Depth THEN SavedProcess(p) ELSE LiveProcess]
    BY DEF ProcessStack, Depth
  <1>3. ProcessStack' = [p \in 1 .. Depth' |->
                           IF p < Depth' THEN SavedProcess(p)' ELSE LiveProcess']
    BY DEF ProcessStack, Depth
  <1>4. Len(ProcessStack) = Depth /\ \E S : ProcessStack \in Seq(S)
    <2>1. ProcessStack = [p \in 1 .. Depth |-> ProcessStack[p]]
      BY <1>2
    <2> QED BY <1>1, <2>1, LenOfFunction
  <1>5. Len(ProcessStack') = Depth' /\ \E S : ProcessStack' \in Seq(S)
    <2>1. ProcessStack' = [p \in 1 .. Depth' |-> ProcessStack'[p]]
      BY <1>3
    <2> QED BY <1>1, <2>1, LenOfFunction
  <1>6. Promise!Top = LiveProcess
    BY <1>1, <1>2, <1>4 DEF Promise!Top
  <1> QED BY <1>1, <1>2, <1>3, <1>4, <1>5, <1>6

SavedUnchanged(n) == \A p \in 1 .. n - 1 : SavedProcess(p)' = SavedProcess(p)

(* A step that only changes the running process, into q.                   *)
LEMMA ReplaceStep ==
  ASSUME cur \in Procs, cur' \in Procs, Depth' = Depth, SavedUnchanged(Depth),
         NEW q, LiveProcess' = q
  PROVE  Promise!Replace(q)
  <1>1. ProcessStack' = [ProcessStack EXCEPT ![Depth] = q]
    BY Shape DEF SavedUnchanged
  <1> QED BY <1>1, Shape DEF Promise!Replace

(* A step no process can see.                                              *)
LEMMA StutterStep ==
  ASSUME cur \in Procs, cur' \in Procs, Depth' = Depth, SavedUnchanged(Depth),
         LiveProcess' = LiveProcess
  PROVE  ProcessStack' = ProcessStack
  BY Shape DEF SavedUnchanged

(* What is in the pool and in the struct processes stays as it is.         *)
LEMMA SavedFrame ==
  ASSUME UNCHANGED <<forkVars, childExit>>, NEW n PROVE SavedUnchanged(n)
  BY DEF SavedUnchanged, SavedProcess, forkVars, CellsIn

-----------------------------------------------------------------------------
(* What the mapping needs beside CopiesInv: a suspended process had a      *)
(* program, and a process without one is a forked child whose execve       *)
(* failed and which has done nothing since.                                *)
ImageInv ==
    /\ \A p \in 1 .. cur : Suspended(p) => savedImage[p] # NoImage
    /\ image[cur] = NoImage =>
         cur > 1 /\ ~forked[cur] /\ brk[cur] = NULL /\ childExit[cur] = 0

ImplInv == CopiesInv /\ (status = "running" => ImageInv)

(* At the start nothing is suspended.                                      *)
LEMMA InitImpl == Init => ImplInv
  BY InitSafe, InitKept DEF Init, ImplInv, CopiesInv, ImageInv, Suspended, Procs

(* The three steps that matter to it, and all others.                      *)
LEMMA StepImpl ==
  ASSUME Misuse = {}, ImplInv, [Next]_vars PROVE ImplInv'
  <1>1. CopiesInv /\ CopiesInv' /\ TypeOK /\ TypeOK'
    BY StepCopies DEF ImplInv, CopiesInv, Safe
  <1> SUFFICES ASSUME status' = "running" PROVE ImageInv'
    BY <1>1 DEF ImplInv
  <1>2. CASE UNCHANGED vars
    BY <1>2 DEF vars, ImplInv, ImageInv, Suspended
  <1>3. CASE Next
    <2>1. status = "running" /\ ImageInv /\ Kept
      BY <1>3 DEF Next, Load, InitSyscalls, GuestStore, GuestPatch, EnterSyscall, SysOpen, SysClose,
           SysHostCall, SysBrk, SysFork, SysExecveInPlace, SysExecveForked,
           SysExit, InHandler, InGuest, ImplInv, CopiesInv
    <2>2. CASE SysFork
      BY <1>1, <2>1, <2>2 DEF SysFork, Abort, Undefined, ImageInv, Suspended, TypeOK, Procs
    <2>3. CASE SysExecveForked
      <3>0. PICK new \in Int : new = cur + 1 /\ cur \in Int
        BY <1>1 DEF TypeOK, Procs
      <3>1. /\ new \in Procs /\ cur' = new /\ forked[cur]
            /\ savedImage' = [savedImage EXCEPT ![new] = NoImage]
            /\ forked' = [forked EXCEPT ![cur] = FALSE, ![new] = FALSE]
            /\ brk' = [brk EXCEPT ![new] = NULL]
            /\ childExit' = [childExit EXCEPT ![new] = 0]
        BY <1>1, <2>3, <3>0 DEF SysExecveForked, Abort, CallocMaySucceed, TypeOK, Procs
      <3>2. ~forked'[new] /\ brk'[new] = 0 /\ childExit'[new] = 0 /\ new > 1
        BY <1>1, <3>0, <3>1 DEF TypeOK, Procs
      <3>3. ASSUME NEW p \in 1 .. new, Suspended(p)' PROVE savedImage'[p] # NoImage
        <4>1. p # new /\ p \in 1 .. cur /\ Suspended(p)
          BY <3>0, <3>1, <3>2, <3>3 DEF Suspended
        <4>2. savedImage'[p] = savedImage[p]
          BY <1>1, <3>1, <4>1 DEF TypeOK, Procs
        <4> QED BY <2>1, <4>1, <4>2 DEF ImageInv
      <3> QED BY <3>1, <3>2, <3>3 DEF ImageInv
    <2>4. ASSUME NEW value \in Codes, SysExit(value) PROVE ImageInv'
      <3> DEFINE parent == cur - 1
      <3>1. /\ cur > 1 /\ cur' = parent /\ cur \in Procs /\ parent \in Procs
            /\ image' = [image EXCEPT ![parent] = savedImage[parent], ![cur] = NoImage]
            /\ savedImage' = [savedImage EXCEPT ![parent] = NoImage, ![cur] = NoImage]
            /\ forked' = [forked EXCEPT ![cur] = FALSE]
        BY <1>1, <2>4 DEF SysExit, TypeOK, Procs
      <3>2. parent \in 1 .. cur - 1 /\ parent \in 1 .. cur /\ Suspended(parent) /\ parent # cur
        BY <3>1 DEF Procs, Suspended
      <3> HIDE DEF parent
      <3>3. image'[parent] # NoImage
        BY <1>1, <2>1, <3>1, <3>2 DEF TypeOK, ImageInv
      <3>4. ~forked'[parent]
        BY <1>1, <2>1, <3>1, <3>2 DEF TypeOK, Kept, WaitersNotForked
      <3>5. ASSUME NEW p \in 1 .. parent, Suspended(p)' PROVE savedImage'[p] # NoImage
        <4>1. p # parent /\ p \in 1 .. cur /\ Suspended(p) /\ p # cur /\ p \in Procs
          BY <3>1, <3>2, <3>4, <3>5 DEF Suspended, Procs, parent
        <4>2. savedImage'[p] = savedImage[p]
          BY <1>1, <3>1, <4>1 DEF TypeOK
        <4> QED BY <2>1, <4>1, <4>2 DEF ImageInv
      <3> QED BY <3>1, <3>3, <3>5 DEF ImageInv
    <2>5. CASE SysExecveInPlace
      BY <1>1, <2>1, <2>5 DEF SysExecveInPlace, LoadAndJump, ImageInv, Suspended, TypeOK, forkVars
    <2>6. ASSUME NEW i \in Images, GuestPatch(i) PROVE ImageInv'
      BY <1>1, <2>1, <2>6 DEF GuestPatch, ImageInv, Suspended, TypeOK, forkVars, Running
    <2>7. ASSUME NEW addr \in Address \cup {BrkBase + HeapSize + 1}, SysBrk(addr)
          PROVE  ImageInv'
      BY <2>1, <2>7 DEF SysBrk, ImageInv, Suspended, forkVars
    <2>8. CASE UNCHANGED <<cur, forked, image, brk, childExit, forkVars>>
      BY <2>1, <2>8 DEF ImageInv, Suspended, forkVars
    <2> QED BY <1>3, <2>2, <2>3, <2>4, <2>5, <2>6, <2>7, <2>8
         DEF Next, Load, InitSyscalls, GuestStore, EnterSyscall, SysOpen, SysClose, SysHostCall
  <1> QED BY <1>2, <1>3

-----------------------------------------------------------------------------
(* Each action is a step of ForkExec, or of no process.                    *)

(* The fields of a process, updated one by one.                            *)
Proc(b, h, i, st) == [brk |-> b, heap |-> h, image |-> i, status |-> st]

(* Changing one field of a process leaves the others: the program,         *)
LEMMA SetImage ==
  ASSUME NEW b, NEW h, NEW i, NEW st, NEW v
  PROVE  [Proc(b, h, i, st) EXCEPT !.image = v] = Proc(b, h, v, st)
  BY SMT DEF Proc

(* the status it would wait for,                                           *)
LEMMA SetStatus ==
  ASSUME NEW b, NEW h, NEW i, NEW st, NEW v
  PROVE  [Proc(b, h, i, st) EXCEPT !.status = v] = Proc(b, h, i, v)
  BY SMT DEF Proc

(* the break,                                                              *)
LEMMA SetBrk ==
  ASSUME NEW b, NEW h, NEW i, NEW st, NEW v
  PROVE  [Proc(b, h, i, st) EXCEPT !.brk = v] = Proc(v, h, i, st)
  BY SMT DEF Proc

(* the whole heap.                                                         *)
LEMMA SetHeap ==
  ASSUME NEW b, NEW h, NEW i, NEW st, NEW v
  PROVE  [Proc(b, h, i, st) EXCEPT !.heap = v] = Proc(b, v, i, st)
  BY SMT DEF Proc

(* The running process, field by field.                                    *)
LEMMA Live ==
  LiveProcess = Proc(CellsIn(brk[Running]), View(heap, brk[Running]), image[Running],
                     childExit[cur])
  BY DEF LiveProcess, Proc

(* The same of the process that runs after the step.                       *)
LEMMA LiveNext ==
  LiveProcess' = Proc(CellsIn(brk[Running])', View(heap, brk[Running])', image'[Running'],
                      childExit'[cur'])
  BY DEF LiveProcess, Proc

(* The steps that no process can see.                                      *)
LEMMA HostSteps ==
  ASSUME TypeOK, TypeOK',
         UNCHANGED <<cur, brk, forked, childExit, image, heap, forkVars>>
  PROVE  ProcessStack' = ProcessStack
  <1>1. Depth' = Depth /\ LiveProcess' = LiveProcess
    BY DEF Depth, LiveProcess, View, CellsIn, Running
  <1> QED BY <1>1, SavedFrame, StutterStep DEF TypeOK

(* A store below the break is a store; one above it is not seen.           *)
LEMMA StoreStep ==
  ASSUME TypeOK, TypeOK', NEW c \in Cells, NEW b \in Byte, GuestStore(c, b)
  PROVE  ProcessStack' = ProcessStack \/ Promise!Store(c, b)
  <1>1. /\ UNCHANGED <<cur, brk, forked, childExit, image, forkVars>>
        /\ heap' = [heap EXCEPT ![c] = b]
        /\ cur \in Procs /\ cur' \in Procs
    BY DEF GuestStore, TypeOK
  <1>2. Depth' = Depth /\ Running' = Running /\ SavedUnchanged(Depth)
    BY <1>1, SavedFrame DEF Depth, Running
  <1>3. brk[Running] \in Address
    <2>1. Running \in Procs
      BY <1>1 DEF Running, Procs
    <2>2. brk \in [Procs -> Address]
      BY DEF TypeOK
    <2> QED BY <2>1, <2>2, Zenon
  <1>4. CellsIn(brk[Running]) \in Int
    BY <1>3 DEF CellsIn, Address, Unset
  <1>5. CASE c < CellsIn(brk[Running])
    <2>1. View(heap', brk[Running]) = [View(heap, brk[Running]) EXCEPT ![c] = b]
      BY <1>1, <1>4, <1>5 DEF View, TypeOK
    <2>2. LiveProcess' = [LiveProcess EXCEPT !.heap[c] = b]
      <3>1. View(heap, brk[Running])' = View(heap', brk[Running])
        BY <1>1, <1>2 DEF View, CellsIn
      <3>2. CellsIn(brk[Running])' = CellsIn(brk[Running])
        BY <1>1, <1>2 DEF CellsIn
      <3> DEFINE h == View(heap, brk[Running])
                 n == CellsIn(brk[Running])
      <3>3. LiveProcess' = Proc(n, [h EXCEPT ![c] = b], image[Running], childExit[cur])
        BY <1>1, <1>2, <2>1, <3>1, <3>2, LiveNext
      <3>4. LiveProcess = Proc(n, h, image[Running], childExit[cur])
        BY Live
      <3> HIDE DEF h, n
      <3>5. [Proc(n, h, image[Running], childExit[cur]) EXCEPT !.heap[c] = b]
              = Proc(n, [h EXCEPT ![c] = b], image[Running], childExit[cur])
        BY SMT DEF Proc
      <3>6. [LiveProcess EXCEPT !.heap[c] = b]
              = [Proc(n, h, image[Running], childExit[cur]) EXCEPT !.heap[c] = b]
        BY <3>4
      <3> QED BY <3>3, <3>5, <3>6
    <2>3. LiveProcess.brk # Unset /\ c < LiveProcess.brk
      BY <1>5 DEF LiveProcess, Unset, Cells
    <2> QED BY <1>1, <1>2, <2>2, <2>3, Shape, ReplaceStep DEF Promise!Store
  <1>6. CASE ~(c < CellsIn(brk[Running]))
    <2>1. View(heap', brk[Running]) = View(heap, brk[Running])
      BY <1>1, <1>4, <1>6 DEF View, TypeOK
    <2>2. LiveProcess' = LiveProcess
      BY <1>1, <1>2, <2>1 DEF LiveProcess, CellsIn, View
    <2> QED BY <1>1, <1>2, <2>2, StutterStep
  <1> QED BY <1>5, <1>6

(* The guest patches the program that runs.                                *)
LEMMA PatchStep ==
  ASSUME TypeOK, TypeOK', NEW i \in Images, GuestPatch(i) PROVE Promise!Patch(i)
  <1>1. /\ UNCHANGED <<cur, brk, forked, childExit, heap, forkVars>>
        /\ image' = [image EXCEPT ![Running] = i]
        /\ cur \in Procs /\ cur' \in Procs
    BY DEF GuestPatch, TypeOK
  <1>2. Depth' = Depth /\ SavedUnchanged(Depth)
    BY <1>1, SavedFrame DEF Depth
  <1>3. Running \in Procs
    BY <1>1 DEF Running, Procs
  <1>4. Running' = Running /\ image'[Running] = i
    BY <1>1, <1>3 DEF Running, TypeOK
  <1>5. LiveProcess' = [LiveProcess EXCEPT !.image = i]
    <2>1. View(heap, brk[Running])' = View(heap, brk[Running])
      BY <1>1, <1>4 DEF View, CellsIn
    <2>2. CellsIn(brk[Running])' = CellsIn(brk[Running])
      BY <1>1, <1>4 DEF CellsIn
    <2> QED BY <1>1, <1>4, <2>1, <2>2, Live, LiveNext, SetImage
  <1> QED BY <1>1, <1>2, <1>5, Shape, ReplaceStep DEF Promise!Patch

(* What the mapping reads out of the pool is what the process was when it  *)
(* forked; in the state after a step as well.                              *)
AtFork(p) == Proc(CellsIn(atFork[p].brk), View(atFork[p].heap, atFork[p].brk),
                  atFork[p].image, childExit[p])

LEMMA SavedIsFork ==
  ASSUME TypeOK, NEW p \in Procs, Intact(p), Suspended(p)
  PROVE  SavedProcess(p) = AtFork(p)
  <1>1. /\ savedBrk[p] = atFork[p].brk /\ savedImage[p] = atFork[p].image
        /\ savedLen[p] = atFork[p].brk - BrkBase
        /\ atFork[p].brk \in Address
        /\ \A c \in Cells : c < savedLen[p] => saved[savedAddr[p] + c] = atFork[p].heap[c]
    BY DEF Intact, TypeOK
  <1>2. \A c \in Cells : c < CellsIn(atFork[p].brk) => c < savedLen[p]
    BY <1>1 DEF CellsIn, Unset, Cells
  <1>3. View(atFork[p].heap, atFork[p].brk)
          = [c \in Cells |-> IF c < CellsIn(savedBrk[p])
                               THEN saved[savedAddr[p] + c] ELSE 0]
    BY <1>1, <1>2 DEF View
  <1> QED BY <1>1, <1>3 DEF SavedProcess, AtFork, Proc

(* The same after the step.                                                *)
LEMMA SavedIsForkNext ==
  ASSUME TypeOK', NEW p \in Procs, Intact(p)', Suspended(p)'
  PROVE  SavedProcess(p)' = AtFork(p)'
  <1>1. /\ savedBrk'[p] = atFork'[p].brk /\ savedImage'[p] = atFork'[p].image
        /\ savedLen'[p] = atFork'[p].brk - BrkBase
        /\ atFork'[p].brk \in Address
        /\ \A c \in Cells : c < savedLen'[p] => saved'[savedAddr'[p] + c] = atFork'[p].heap[c]
    BY DEF Intact, TypeOK
  <1>2. \A c \in Cells : c < CellsIn(atFork'[p].brk) => c < savedLen'[p]
    BY <1>1 DEF CellsIn, Unset, Cells
  <1>3. View(atFork'[p].heap, atFork'[p].brk)
          = [c \in Cells |-> IF c < CellsIn(savedBrk'[p])
                               THEN saved'[savedAddr'[p] + c] ELSE 0]
    BY <1>1, <1>2 DEF View
  <1>4. SavedProcess(p)' = Proc(CellsIn(savedBrk'[p]),
          [c \in Cells |-> IF c < CellsIn(savedBrk'[p])
                             THEN saved'[savedAddr'[p] + c] ELSE 0],
          savedImage'[p], childExit'[p])
    BY DEF SavedProcess, Proc, CellsIn
  <1>5. AtFork(p)' = Proc(CellsIn(atFork'[p].brk), View(atFork'[p].heap, atFork'[p].brk),
                          atFork'[p].image, childExit'[p])
    BY DEF AtFork, Proc, CellsIn, View
  <1> QED BY <1>1, <1>3, <1>4, <1>5

(* brk gives up the cells above the new break, or adds cells that read 0.  *)
LEMMA BrkStep ==
  ASSUME TypeOK, TypeOK', Misuse = {}, status' = "running",
         NEW addr \in Address \cup {BrkBase + HeapSize + 1}, SysBrk(addr)
  PROVE  \E n \in 0 .. HeapSize : Promise!Brk(n)
  <1>1. /\ UNCHANGED <<cur, forked, childExit, image, forkVars>>
        /\ image[cur] # NoImage /\ cur \in Procs /\ cur' \in Procs
        /\ brk[cur] \in Address /\ brk'[cur] \in Address
    BY DEF SysBrk, TypeOK
  <1>2. Running = cur /\ Running' = cur /\ Depth' = Depth /\ SavedUnchanged(Depth)
    BY <1>1, SavedFrame DEF Running, Depth
  <1>3. \/ addr = NULL /\ brk'[cur] = CurrentBrk /\ heap' = heap
        \/ addr # NULL /\ addr <= BrkBase + HeapSize /\ brk'[cur] = addr
             /\ heap' = ZeroFill(CurrentBrk, addr)
    BY <1>1 DEF SysBrk, Undefined, TypeOK
  <1> DEFINE n == brk'[cur] - BrkBase
             h == View(heap, brk[cur])
             k == View(heap', brk'[cur])
  <1>4. brk'[cur] # NULL /\ n \in 0 .. HeapSize /\ CellsIn(brk'[cur]) = n
    BY <1>1, <1>3 DEF CurrentBrk, Address, CellsIn
  <1>6. \A c \in Cells : c < n => heap'[c] = IF c < CellsIn(brk[cur]) THEN heap[c] ELSE 0
    BY <1>1, <1>3, <1>4 DEF CurrentBrk, Address, CellsIn, Unset, ZeroFill, Cells, TypeOK
  <1>7. k = [c \in Promise!Cells |-> IF c < n THEN h[c] ELSE 0]
    BY <1>4, <1>6 DEF View, Promise!Cells, Cells
  <1>8. LiveProcess' = Proc(n, k, image[cur], childExit[cur])
    <2>1. LiveProcess' = Proc(CellsIn(brk'[cur]), k, image'[cur], childExit'[cur])
      BY <1>1, <1>2 DEF LiveProcess, Proc, CellsIn, View
    <2> QED BY <1>1, <1>4, <2>1
  <1>9. LiveProcess = Proc(CellsIn(brk[cur]), h, image[cur], childExit[cur])
    BY <1>2, Live
  <1>10. LiveProcess.heap = h
    BY <1>9 DEF Proc
  <1> HIDE DEF n, h, k
  <1>11. LiveProcess' = [LiveProcess EXCEPT !.brk = n, !.heap = k]
    <2> DEFINE m == [LiveProcess EXCEPT !.brk = n]
    <2>1. m = Proc(n, h, image[cur], childExit[cur])
      BY <1>9, SetBrk
    <2>2. [LiveProcess EXCEPT !.brk = n, !.heap = k] = [m EXCEPT !.heap = k]
      OBVIOUS
    <2> HIDE DEF m
    <2>3. [m EXCEPT !.heap = k] = Proc(n, k, image[cur], childExit[cur])
      BY <2>1, SetHeap
    <2> QED BY <1>8, <2>2, <2>3
  <1>12. Promise!Brk(n)
    BY <1>1, <1>2, <1>7, <1>10, <1>11, Shape, ReplaceStep DEF Promise!Brk
  <1> QED BY <1>4, <1>12

(* fork: the copy in the pool is the process, and what runs on is the same.*)
LEMMA ForkStep ==
  ASSUME TypeOK, TypeOK', Kept, Kept', ImageInv, Misuse = {}, status' = "running", SysFork
  PROVE  Promise!Fork
  <1>1. /\ UNCHANGED <<cur, brk, childExit, image, heap>>
        /\ ~forked[cur] /\ image[cur] # NoImage
        /\ cur \in Procs /\ cur' \in Procs
        /\ forked' = [forked EXCEPT ![cur] = TRUE]
        /\ atFork' = [atFork EXCEPT ![cur] =
                         [heap |-> heap, brk |-> brk[cur], image |-> image[cur]]]
    BY DEF SysFork, Abort, Undefined, TypeOK
  <1>2. /\ Depth = cur /\ Depth' = cur + 1 /\ Running = cur /\ Running' = cur
        /\ forked'[cur] = TRUE /\ cur \in Nat /\ cur >= 1
    BY <1>1 DEF Depth, Running, TypeOK, Procs
  <1>3. ASSUME NEW p \in 1 .. cur - 1 PROVE SavedProcess(p)' = SavedProcess(p)
    <2>1. p \in Procs /\ p \in 1 .. cur /\ p # cur /\ Suspended(p) /\ Suspended(p)'
      BY <1>1, <1>2 DEF Procs, Suspended
    <2>2. Intact(p) /\ Intact(p)'
      BY <1>1, <2>1 DEF Kept
    <2>3. atFork'[p] = atFork[p] /\ childExit'[p] = childExit[p]
      BY <1>1, <2>1 DEF TypeOK
    <2>4. AtFork(p)' = AtFork(p)
      BY <2>3 DEF AtFork, CellsIn, View
    <2> QED BY <2>1, <2>2, <2>4, SavedIsFork, SavedIsForkNext
  <1>4. SavedProcess(cur)' = LiveProcess
    <2>1. cur \in 1 .. cur /\ Suspended(cur)' /\ Intact(cur)'
      BY <1>1, <1>2 DEF Suspended, Kept
    <2>2. ASSUME NEW c \in Procs, c = cur PROVE SavedProcess(c)' = LiveProcess
      <3>1. Suspended(c)' /\ Intact(c)'
        BY <1>1, <1>2, <2>2 DEF Suspended, Kept
      <3>2. SavedProcess(c)' = AtFork(c)'
        BY <3>1, SavedIsForkNext
      <3>3. atFork'[c] = [heap |-> heap, brk |-> brk[cur], image |-> image[cur]]
        BY <1>1, <2>2 DEF TypeOK
      <3>4. AtFork(c)' = Proc(CellsIn(brk[cur]), View(heap, brk[cur]), image[cur], childExit[cur])
        BY <1>1, <2>2, <3>3 DEF AtFork, CellsIn, View
      <3> QED BY <1>2, <3>2, <3>4, Live
    <2> QED BY <1>1, <2>2 DEF SavedProcess
  <1>5. LiveProcess' = LiveProcess
    BY <1>1, <1>2 DEF LiveProcess, CellsIn, View
  <1> DEFINE s == ProcessStack
             t == ProcessStack'
             x == LiveProcess
  <1>6. /\ Len(s) = cur /\ Len(t) = cur + 1 /\ Promise!Top = x
        /\ \A p \in 1 .. cur : t[p] = s[p]
        /\ t[cur + 1] = x
    <2>1. /\ s = [p \in 1 .. cur |-> IF p < cur THEN SavedProcess(p) ELSE x]
          /\ t = [p \in 1 .. cur + 1 |-> IF p < cur + 1 THEN SavedProcess(p)' ELSE x]
          /\ Len(s) = cur /\ Len(t) = cur + 1 /\ Promise!Top = x
      BY <1>1, <1>2, <1>5, Shape
    <2>2. ASSUME NEW p \in 1 .. cur PROVE t[p] = s[p]
      <3>1. CASE p = cur
        <4>1. s[p] = x /\ t[p] = SavedProcess(p)'
          BY <1>2, <2>1, <3>1
        <4>2. SavedProcess(p)' = x
          BY <1>1, <1>4, <3>1 DEF SavedProcess
        <4> QED BY <4>1, <4>2
      <3>2. CASE p # cur
        <4>1. p \in 1 .. cur - 1
          BY <1>2, <3>2
        <4>2. s[p] = SavedProcess(p) /\ t[p] = SavedProcess(p)'
          BY <1>2, <2>1, <4>1
        <4> QED BY <1>3, <4>1, <4>2
      <3> QED BY <3>1, <3>2
    <2>3. t[cur + 1] = x
      BY <1>2, <2>1
    <2> QED BY <2>1, <2>2, <2>3
  <1>7. PICK S, T : s \in Seq(S) /\ t \in Seq(T)
    BY <1>1, Shape
  <1> HIDE DEF s, t, x
  <1>8. s \in Seq(S \cup T \cup {x}) /\ t \in Seq(S \cup T \cup {x})
    BY <1>7, SeqMonotonic
  <1>9. /\ Append(s, x) \in Seq(S \cup T \cup {x}) /\ Len(Append(s, x)) = cur + 1
        /\ \A p \in 1 .. cur : Append(s, x)[p] = s[p]
        /\ Append(s, x)[cur + 1] = x
    BY <1>6, <1>8, AppendProperties
  <1>10. \A p \in 1 .. cur + 1 : p \in 1 .. cur \/ p = cur + 1
    BY <1>2
  <1>11. t = Append(s, x)
    BY <1>6, <1>8, <1>9, <1>10, SeqEqual
  <1> QED BY <1>6, <1>11 DEF Promise!Fork, s, t

(* execve in a forked child starts a fresh process, or fails, which the    *)
(* child sees as the loss of the status it would wait for.                 *)
LEMMA ExecveStep ==
  ASSUME TypeOK, TypeOK', ImageInv, SysExecveForked,
         ~UNCHANGED <<cur, brk, forked, childExit, image, heap, forkVars>>
  PROVE  \/ status' = "running" /\ \E i \in Images : Promise!Exec(i)
         \/ Promise!ExecFails
  <1>0. PICK new \in Int : new = cur + 1 /\ cur \in Int
    BY DEF TypeOK, Procs
  <1>1. /\ new \in Procs /\ cur \in Procs /\ cur' = new /\ forked[cur] /\ heap' = heap
        /\ brk' = [brk EXCEPT ![new] = NULL]
        /\ savedBrk' = [savedBrk EXCEPT ![new] = NULL]
        /\ savedImage' = [savedImage EXCEPT ![new] = NoImage]
        /\ savedAddr' = [savedAddr EXCEPT ![new] = NextRegion]
        /\ forked' = [forked EXCEPT ![cur] = FALSE, ![new] = FALSE]
        /\ childExit' = [childExit EXCEPT ![new] = 0]
        /\ LoadAndJump(new, [image EXCEPT ![new] = NoImage])
        /\ saved' = saved
    BY <1>0 DEF SysExecveForked, CallocMaySucceed, TypeOK, Procs
  <1>2. /\ ~forked'[new] /\ brk'[new] = NULL /\ childExit'[new] = 0
        /\ new > 1 /\ cur # new /\ image[cur] # NoImage
    BY <1>0, <1>1 DEF TypeOK, Procs, ImageInv
  <1>3. Depth = new /\ Depth' = new /\ Running = cur
    BY <1>0, <1>1, <1>2 DEF Depth, Running
  <1>4. SavedUnchanged(Depth)
    <2> SUFFICES ASSUME NEW p \in 1 .. new - 1 PROVE SavedProcess(p)' = SavedProcess(p)
      BY <1>3 DEF SavedUnchanged
    <2>1. p \in Procs /\ p # new
      BY <1>0, <1>1 DEF Procs
    <2>2. /\ savedBrk'[p] = savedBrk[p] /\ savedImage'[p] = savedImage[p]
          /\ savedAddr'[p] = savedAddr[p] /\ childExit'[p] = childExit[p]
      BY <1>1, <2>1 DEF TypeOK
    <2> QED BY <1>1, <2>2 DEF SavedProcess, CellsIn
  <1>5. ASSUME NEW i \in Images, image' = [[image EXCEPT ![new] = NoImage] EXCEPT ![new] = i]
        PROVE  Promise!Exec(i)
    <2>1. image'[new] = i /\ Running' = new
      BY <1>1, <1>5 DEF TypeOK, Running
    <2>2. View(heap', brk'[new]) = [c \in Promise!Cells |-> 0]
      BY <1>2 DEF View, CellsIn, Unset, Promise!Cells, Cells
    <2>3. LiveProcess' = Promise!Fresh(i)
      <3>1. LiveProcess' = Proc(CellsIn(brk'[new]), View(heap', brk'[new]), i, 0)
        BY <1>1, <1>2, <2>1 DEF LiveProcess, Proc, CellsIn, View
      <3>2. CellsIn(brk'[new]) = Unset
        BY <1>2 DEF CellsIn
      <3> QED BY <2>2, <3>1, <3>2 DEF Proc, Promise!Fresh
    <2> QED BY <1>1, <1>3, <1>4, <2>3, ReplaceStep DEF Promise!Exec
  <1>6. ASSUME image' = [image EXCEPT ![new] = NoImage] PROVE Promise!ExecFails
    <2>1. image'[new] = NoImage /\ image'[cur] = image[cur] /\ brk'[cur] = brk[cur]
      BY <1>1, <1>2, <1>6 DEF TypeOK
    <2>2. Running' = cur
      BY <1>0, <1>1, <1>2, <2>1 DEF Running
    <2>3. LiveProcess' = Proc(CellsIn(brk[cur]), View(heap, brk[cur]), image[cur], 0)
      <3>1. LiveProcess' = Proc(CellsIn(brk'[cur]), View(heap', brk'[cur]), image'[cur],
                                childExit'[new])
        BY <1>1, <2>2 DEF LiveProcess, Proc, CellsIn, View
      <3> QED BY <1>1, <1>2, <2>1, <3>1
    <2>4. LiveProcess = Proc(CellsIn(brk[cur]), View(heap, brk[cur]), image[cur], childExit[cur])
      BY <1>3, Live
    <2>5. LiveProcess' = [LiveProcess EXCEPT !.status = 0]
      BY <2>3, <2>4, SetStatus
    <2> QED BY <1>1, <1>3, <1>4, <2>5, Shape, ReplaceStep DEF Promise!ExecFails
  <1>7. status = "running"
    BY DEF SysExecveForked, InHandler
  <1> QED BY <1>1, <1>5, <1>6, <1>7 DEF LoadAndJump

(* execve in place: a process that had a program gets another one; a child *)
(* whose execve failed before starts at last.                              *)
LEMMA InPlaceStep ==
  ASSUME TypeOK, TypeOK', ImageInv, SysExecveInPlace
  PROVE  ProcessStack' = ProcessStack \/ \E i \in Images : Promise!Exec(i)
  <1>1. /\ UNCHANGED <<cur, brk, forked, childExit, heap, forkVars>>
        /\ cur \in Procs /\ cur' \in Procs
        /\ image' = image \/ \E i \in Images : image' = [image EXCEPT ![cur] = i]
    BY DEF SysExecveInPlace, LoadAndJump, Abort, TypeOK
  <1>2. CASE image' = image
    BY <1>1, <1>2, HostSteps
  <1>3. ASSUME NEW i \in Images, image' = [image EXCEPT ![cur] = i] PROVE Promise!Exec(i)
    <2>1. image'[cur] = i /\ Running' = cur /\ Depth' = Depth /\ SavedUnchanged(Depth)
      BY <1>1, <1>3, SavedFrame DEF TypeOK, Running, Depth
    <2>2. LiveProcess' = Proc(CellsIn(brk[cur]), View(heap, brk[cur]), i, childExit[cur])
      <3>1. LiveProcess' = Proc(CellsIn(brk'[cur]), View(heap', brk'[cur]), image'[cur],
                                childExit'[cur])
        BY <1>1, <2>1 DEF LiveProcess, Proc, CellsIn, View
      <3> QED BY <1>1, <2>1, <3>1
    <2>3. CASE image[cur] # NoImage
      <3>1. LiveProcess = Proc(CellsIn(brk[cur]), View(heap, brk[cur]), image[cur], childExit[cur])
        BY <2>3, Live DEF Running
      <3>2. LiveProcess' = [LiveProcess EXCEPT !.image = i]
        BY <2>2, <3>1, SetImage
      <3> QED BY <1>1, <2>1, <3>2, Shape, ReplaceStep DEF Promise!Exec, Promise!Patch
    <2>4. CASE image[cur] = NoImage
      <3>1. CellsIn(brk[cur]) = Unset /\ childExit[cur] = 0
        BY <2>4 DEF ImageInv, CellsIn
      <3>2. View(heap, brk[cur]) = [c \in Promise!Cells |-> 0]
        BY <3>1 DEF View, Unset, Promise!Cells, Cells
      <3>3. LiveProcess' = Promise!Fresh(i)
        BY <2>2, <3>1, <3>2 DEF Proc, Promise!Fresh
      <3> QED BY <1>1, <2>1, <3>3, ReplaceStep DEF Promise!Exec
    <2> QED BY <2>3, <2>4
  <1> QED BY <1>1, <1>2, <1>3

(* exit: the parent is what was saved of it, and knows the exit value.     *)
LEMMA ExitStep ==
  ASSUME TypeOK, TypeOK', Kept, ImageInv, Misuse = {},
         NEW value \in Codes, SysExit(value), cur # 1
  PROVE  Promise!Exit(value)
  <1>0. PICK parent \in Int : parent = cur - 1 /\ cur \in Int
    BY DEF TypeOK, Procs
  <1>1. /\ cur > 1 /\ cur \in Procs /\ cur' = parent /\ parent \in Procs /\ parent # cur
        /\ parent \in 1 .. cur - 1 /\ parent \in 1 .. cur /\ ~forked[cur]
        /\ childExit' = [childExit EXCEPT ![parent] = value, ![cur] = 0]
        /\ heap' = RestoreHeap(savedAddr[parent], savedLen[parent])
        /\ image' = [image EXCEPT ![parent] = savedImage[parent], ![cur] = NoImage]
        /\ brk' = [brk EXCEPT ![parent] = savedBrk[parent], ![cur] = NULL]
        /\ savedImage' = [savedImage EXCEPT ![parent] = NoImage, ![cur] = NoImage]
        /\ savedBrk' = [savedBrk EXCEPT ![cur] = NULL]
        /\ savedAddr' = [savedAddr EXCEPT ![cur] = 0]
        /\ forked' = [forked EXCEPT ![cur] = FALSE]
        /\ saved' = saved
    BY <1>0, SMTT(30) DEF SysExit, TypeOK, Procs
  <1>2. /\ ~forked'[parent] /\ childExit'[parent] = value
        /\ image'[parent] = savedImage[parent] /\ brk'[parent] = savedBrk[parent]
    BY <1>1 DEF TypeOK, Kept, WaitersNotForked
  <1>3. Suspended(parent) /\ Intact(parent) /\ savedImage[parent] # NoImage
    BY <1>0, <1>1 DEF Suspended, Kept, ImageInv
  <1>4. Depth = cur /\ Depth' = parent /\ Running' = parent
    BY <1>1, <1>2, <1>3 DEF Depth, Running
  <1>5. ASSUME NEW p \in 1 .. parent - 1 PROVE SavedProcess(p)' = SavedProcess(p)
    <2>1. p \in Procs /\ p # cur /\ p # parent
      BY <1>0, <1>1 DEF Procs
    <2>2. /\ savedBrk'[p] = savedBrk[p] /\ savedImage'[p] = savedImage[p]
          /\ savedAddr'[p] = savedAddr[p] /\ childExit'[p] = childExit[p]
      BY <1>1, <2>1 DEF TypeOK
    <2> QED BY <1>1, <2>2 DEF SavedProcess, CellsIn
  <1> DEFINE h == [c \in Cells |-> IF c < CellsIn(savedBrk[parent])
                                     THEN saved[savedAddr[parent] + c] ELSE 0]
  <1>6. View(heap', savedBrk[parent]) = h
    <2>1. /\ savedLen[parent] = savedBrk[parent] - BrkBase /\ savedBrk[parent] \in Address
      BY <1>1, <1>3 DEF Intact, TypeOK
    <2>2. \A c \in Cells : c < CellsIn(savedBrk[parent]) => c < savedLen[parent]
      BY <2>1 DEF CellsIn, Unset, Cells
    <2> QED BY <1>1, <2>2 DEF View, RestoreHeap
  <1>7. LiveProcess' = Proc(CellsIn(savedBrk[parent]), h, savedImage[parent], value)
    <2>1. LiveProcess' = Proc(CellsIn(brk'[parent]), View(heap', brk'[parent]), image'[parent],
                              childExit'[parent])
      BY <1>1, <1>4 DEF LiveProcess, Proc, CellsIn, View
    <2> QED BY <1>2, <1>6, <2>1
  <1>8. SavedProcess(parent) = Proc(CellsIn(savedBrk[parent]), h, savedImage[parent],
                                    childExit[parent])
    BY DEF SavedProcess, Proc
  <1> HIDE DEF h
  <1>9. LiveProcess' = [SavedProcess(parent) EXCEPT !.status = value]
    BY <1>7, <1>8, SetStatus
  <1> DEFINE s == ProcessStack
             t == ProcessStack'
  <1>10. /\ s = [p \in 1 .. cur |-> IF p < cur THEN SavedProcess(p) ELSE LiveProcess]
         /\ t = [p \in 1 .. parent |-> IF p < parent THEN SavedProcess(p)' ELSE LiveProcess']
         /\ Len(s) = cur
    BY <1>1, <1>4, Shape
  <1>11. ASSUME NEW p \in 1 .. parent
         PROVE  t[p] = IF p = parent THEN [s[p] EXCEPT !.status = value] ELSE s[p]
    <2>1. p \in 1 .. cur /\ p < cur
      BY <1>0
    <2>2. s[p] = SavedProcess(p)
      BY <1>10, <2>1
    <2>3. CASE p = parent
      <3>1. t[p] = LiveProcess' /\ s[p] = SavedProcess(parent)
        <4>1. s[parent] = SavedProcess(parent)
          BY <1>1, <1>10
        <4> QED BY <1>10, <2>3, <4>1
      <3> HIDE DEF s, t
      <3> QED BY <1>9, <2>3, <3>1
    <2>4. CASE p # parent
      <3>1. p \in 1 .. parent - 1 /\ p < parent
        BY <2>4
      <3> QED BY <1>5, <1>10, <2>2, <2>4, <3>1
    <2> QED BY <2>3, <2>4
  <1>12. t = [p \in 1 .. parent |->
                IF p = parent THEN [s[p] EXCEPT !.status = value] ELSE s[p]]
    BY <1>10, <1>11
  <1>13. Len(s) - 1 = parent /\ Len(s) > 1
    BY <1>0, <1>1, <1>10
  <1> HIDE DEF s, t
  <1>14. t = [p \in 1 .. Len(s) - 1 |->
                IF p = Len(s) - 1 THEN [s[p] EXCEPT !.status = value] ELSE s[p]]
    BY <1>12, <1>13
  <1> QED BY <1>13, <1>14 DEF Promise!Exit, s, t

-----------------------------------------------------------------------------
(* main starts one process that has not asked for memory.                  *)
LEMMA InitRefines == Init => Promise!Init
  <1> SUFFICES ASSUME Init PROVE Promise!Init
    OBVIOUS
  <1>1. PICK i \in Images : image = [p \in Procs |-> IF p = 1 THEN i ELSE NoImage]
    BY DEF Init
  <1>2. cur = 1 /\ 1 \in Procs /\ ~forked[1] /\ brk[1] = NULL /\ childExit[1] = 0 /\ image[1] = i
    BY <1>1 DEF Init, Procs
  <1>3. Running = 1 /\ Depth = 1
    BY <1>2 DEF Running, Depth
  <1>4. LiveProcess = Promise!Fresh(i)
    <2>1. View(heap, brk[1]) = [c \in Promise!Cells |-> 0]
      BY <1>2 DEF View, CellsIn, Unset, Promise!Cells, Cells
    <2>2. CellsIn(brk[1]) = Unset
      BY <1>2 DEF CellsIn
    <2> QED BY <1>2, <1>3, <2>1, <2>2, Live DEF Proc, Promise!Fresh
  <1> DEFINE s == ProcessStack
             f == Promise!Fresh(i)
  <1>5. s = [p \in 1 .. 1 |-> f]
    BY <1>2, <1>3, <1>4 DEF ProcessStack
  <1> HIDE DEF s, f
  <1>6. s = <<f>>
    <2>1. Len(s) = 1
      BY <1>5, LenOfFunction
    <2>2. s \in [1 .. 1 -> {f}]
      BY <1>5
    <2>3. s \in Seq({f})
      BY <2>2, SeqDef
    <2>5. <<f>> \in Seq({f}) /\ Len(<<f>>) = 1
      OBVIOUS
    <2>4. \A k \in 1 .. 1 : s[k] = <<f>>[k]
      BY <1>5
    <2> QED BY <2>1, <2>3, <2>4, <2>5, SeqEqual
  <1> QED BY <1>6 DEF Promise!Init, Init, s, f

(* One case per action; the end of the runner is the end of everything.    *)
LEMMA StepRefines ==
  ASSUME Misuse = {}, ImplInv, ImplInv', [Next]_vars
  PROVE  [Promise!Next]_(Promise!vars)
  <1>1. TypeOK /\ TypeOK'
    BY DEF ImplInv, CopiesInv, Safe
  <1>2. CASE UNCHANGED vars
    <2>1. ProcessStack' = ProcessStack
      BY <1>1, <1>2, HostSteps DEF vars, forkVars
    <2> QED BY <1>2, <2>1 DEF Promise!vars, vars
  <1>3. CASE Next
    <2>1. status = "running" /\ ImageInv /\ Kept
      BY <1>3 DEF Next, Load, InitSyscalls, GuestStore, GuestPatch, EnterSyscall, SysOpen, SysClose,
           SysHostCall, SysBrk, SysFork, SysExecveInPlace, SysExecveForked,
           SysExit, InHandler, InGuest, ImplInv, CopiesInv
    <2>2. CASE status' # "running"
      <3>1. CASE UNCHANGED <<cur, brk, forked, childExit, image, heap, forkVars>>
        <4>1. ProcessStack' = ProcessStack
          BY <1>1, <3>1, HostSteps
        <4> QED BY <2>1, <2>2, <4>1 DEF Promise!Next, Promise!End
      <3>2. CASE SysExecveForked
        <4>1. CASE ~UNCHANGED <<cur, brk, forked, childExit, image, heap, forkVars>>
          <5>1. Promise!ExecFails
            BY <1>1, <2>1, <2>2, <3>2, <4>1, ExecveStep
          <5> QED BY <2>1, <2>2, <5>1 DEF Promise!Next, Promise!End
        <4> QED BY <3>1, <4>1
      <3>3. CASE SysFork
        <4>1. UNCHANGED <<forked, forkVars>>
          BY <1>1, <2>1, <2>2, <3>3, ForkDefined
        <4> QED BY <3>1, <3>3, <4>1 DEF SysFork
      <3> QED BY <1>3, <2>1, <2>2, <3>1, <3>2, <3>3
           DEF Next, Load, InitSyscalls, GuestStore, GuestPatch, EnterSyscall, SysOpen,
           SysClose, SysHostCall, SysBrk, SysExecveInPlace, SysExit, LoadAndJump, Return,
           Abort, Undefined, machine
    <2>3. CASE status' = "running"
      <3>1. ImageInv' /\ Kept'
        BY <2>3 DEF ImplInv, CopiesInv
      <3> SUFFICES \/ ProcessStack' = ProcessStack
                   \/ \E c \in Promise!Cells, b \in Byte : Promise!Store(c, b)
                   \/ \E i \in Images : Promise!Patch(i) \/ Promise!Exec(i)
                   \/ \E n \in 0 .. HeapSize : Promise!Brk(n)
                   \/ Promise!Fork
                   \/ Promise!ExecFails
                   \/ \E value \in Codes : Promise!Exit(value)
        BY <2>1, <2>3 DEF Promise!Next, Promise!vars
      <3>2. ASSUME NEW c \in Cells, NEW b \in Byte, GuestStore(c, b)
            PROVE  ProcessStack' = ProcessStack
                   \/ \E d \in Promise!Cells, e \in Byte : Promise!Store(d, e)
        BY <1>1, <3>2, StoreStep DEF Cells, Promise!Cells
      <3>3. ASSUME NEW i \in Images, GuestPatch(i) PROVE Promise!Patch(i)
        BY <1>1, <3>3, PatchStep
      <3>4. CASE UNCHANGED <<cur, brk, forked, childExit, image, heap, forkVars>>
        BY <1>1, <3>4, HostSteps
      <3>5. ASSUME NEW addr \in Address \cup {BrkBase + HeapSize + 1}, SysBrk(addr)
            PROVE  \E n \in 0 .. HeapSize : Promise!Brk(n)
        BY <1>1, <2>3, <3>5, BrkStep
      <3>6. CASE SysFork
        BY <1>1, <2>1, <2>3, <3>1, <3>6, ForkStep
      <3>7. CASE SysExecveInPlace
        BY <1>1, <2>1, <3>7, InPlaceStep
      <3>8. CASE SysExecveForked
        BY <1>1, <2>1, <3>4, <3>8, ExecveStep
      <3>9. ASSUME NEW value \in Codes, SysExit(value) PROVE Promise!Exit(value)
        <4>1. cur # 1
          BY <2>3, <3>9 DEF SysExit
        <4> QED BY <1>1, <2>1, <3>9, <4>1, ExitStep
      <3> QED BY <1>3, <3>2, <3>3, <3>4, <3>5, <3>6, <3>7, <3>8, <3>9
           DEF Next, Load, InitSyscalls, EnterSyscall, SysOpen, SysClose, SysHostCall
    <2> QED BY <2>2, <2>3
  <1> QED BY <1>2, <1>3

(* Disciplined guests see separate processes: every behaviour of the       *)
(* runner is one of ForkExec, seen through the refinement mapping.         *)
THEOREM RefinementTheorem ==
  ASSUME Misuse = {} PROVE Spec => ImplementsForkExec
  <1>1. ImplInv /\ [Next]_vars => ImplInv'
    BY StepImpl
  <1>2. ImplInv /\ ImplInv' /\ [Next]_vars => [Promise!Next]_(Promise!vars)
    BY StepRefines
  <1> QED BY InitImpl, InitRefines, <1>1, <1>2, PTL
       DEF Spec, ImplementsForkExec, Promise!Spec
=============================================================================
