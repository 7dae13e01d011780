-------------------------------- MODULE RvTool ---------------------------------
(***************************************************************************)
(* The riscv64 tools as programs under the firmware: how hex1, hex2, M0    *)
(* and catm take their words from load_options, open protocols, volumes    *)
(* and files, allocate, read, write and give back, line after line of a    *)
(* script on one disk.  They are straight-line code between a prologue and *)
(* an epilogue, so a tool is the sequence of its firmware calls, and one   *)
(* action makes the next call.  No tool looks at the status of a call but  *)
(* catm at that of opening an input, and all return 0.  Allocations, reads *)
(* and writes succeed; the passes between reading and writing are external *)
(* here (Translate).                                                       *)
(***************************************************************************)
EXTENDS Naturals, Sequences

CONSTANTS Files, Missing, Translate(_, _), M0Limit,  \* as in Build
          Block,   \* the bytes catm reads at a time: 1 MiB
          Disks,   \* contents of the disk to start from
          Scripts  \* sequences of lines [tool, words]

ASSUME RvToolAssumption == Block \in Nat \ {0} /\ M0Limit \in Nat

ASSUME FilesAssumption ==
    /\ Files \subseteq STRING /\ "" \notin Files /\ Missing \notin Seq(STRING)
    /\ Disks \subseteq [Files -> {Missing} \cup Seq(STRING)]

(* A translator is given its input and its output.  catm is given its      *)
(* output and then its inputs, "" between two spaces in a row; its output  *)
(* may be the first of them, whose contents stay in front, and no other.   *)
ScriptLine == [tool : {"hex1", "hex2", "M0", "catm"}, words : Seq(Files \cup {""})]

WellFormed(line) ==
    /\ line.words # << >> /\ line.words[1] \in Files
    /\ IF line.tool = "catm" THEN \A k \in 3 .. Len(line.words) : line.words[k] # line.words[1]
       ELSE Len(line.words) >= 2 /\ line.words[2] \in Files

ASSUME ScriptsAssumption ==
    \A s \in Scripts : s \in Seq(ScriptLine) /\ \A k \in DOMAIN s : WellFormed(s[k])

VARIABLES
    disk,
    script,   \* the lines still to run, the current one first
    calls,    \* the firmware calls the current tool has still to make
    held,     \* what the firmware has given and not got back: <<thing, line>>,
              \* line being the number of lines left when it was given
    job,      \* the registers of the tool: [before, in, out, arg, rd, wr, text];
              \* before, the disk when the line began, is history
    on,       \* a tool is running
    outcome

vars == <<disk, script, calls, held, job, on, outcome>>

B == INSTANCE Build

-----------------------------------------------------------------------------
Get(x)  == <<"get", x>>
Give(x) == <<"give", x>>
Call(c) == <<c, "">>

Setup        == <<Get("image"), Call("options"), Get("fs"), Get("root")>>
SetupForward == <<Get("image"), Call("forward options"), Get("fs"), Get("root")>>
OpenFiles    == <<Call("open in"), Call("open out"), Get("pool")>>
CloseDown    == <<Give("root"), Give("fs"), Give("image")>>

Hex1Calls ==
    Setup \o OpenFiles \o <<Call("first pass"), Call("rewind"), Call("second pass")>>
      \o <<Give("pool"), Give("in"), Give("out")>> \o CloseDown

Hex2Calls ==
    Setup \o OpenFiles
      \o <<Call("get info"), Call("read all"), Give("in"), Call("write all"), Call("flush")>>
      \o <<Give("pool"), Give("out")>> \o CloseDown

M0ClosedEarly ==                                                    \* mutant
    <<Get("stack")>> \o SetupForward \o OpenFiles
      \o <<Give("in"), Call("read all"), Call("write all")>>
      \o <<Give("pool"), Give("out")>> \o CloseDown

M0Calls ==
    <<Get("stack")>> \o SetupForward \o OpenFiles
      \o <<Call("read all"), Give("in"), Call("write all")>>
      \o <<Give("pool"), Give("out")>> \o CloseDown

CatmUnfreed ==                                                      \* mutant
    SetupForward \o <<Call("open out"), Get("pool"), Call("core"), Give("out")>> \o CloseDown

CatmCalls ==
    SetupForward
      \o <<Call("open out"), Get("pool"), Call("core"), Give("out"), Give("pool")>> \o CloseDown

CallsOf(tool) ==
    CASE tool = "hex1" -> Hex1Calls
      [] tool = "hex2" -> Hex2Calls
      [] tool = "M0"   -> M0Calls
      [] tool = "catm" -> CatmCalls

(* What a call goes through; one that gives something back, through that.  *)
Handles(c) ==
    CASE c \in {"open in", "open out", "core"}                    -> {"root"}
      [] c \in {"first pass", "rewind", "get info", "close arg"}  -> {"in"}
      [] c = "second pass"                                        -> {"in", "out"}
      [] c = "keep"                                               -> {"in", "out", "pool"}
      [] c = "read all"                                           -> {"in", "pool"}
      [] c = "write all"                                          -> {"out", "pool"}
      [] c = "flush"                                              -> {"out"}
      [] OTHER                                                    -> {}

Through(call) ==
    IF call[1] = "give" THEN {call[2]}
    ELSE IF call = Get("root") THEN {"fs"} ELSE Handles(call[1])

Line   == Head(script)
Now    == Len(script)
Has(x) == <<x, Now>> \in held

Busy     == on /\ outcome = "running" /\ calls # << >>
Sound    == \A x \in Through(Head(calls)) : Has(x)
Calls(c) == Busy /\ Head(calls)[1] = c /\ Sound
Done     == calls' = Tail(calls) /\ UNCHANGED <<script, on, outcome>>

-----------------------------------------------------------------------------
Init ==
    /\ disk \in Disks /\ script \in Scripts
    /\ calls = << >> /\ held = {} /\ on = FALSE /\ outcome = "running"
    /\ job = [before |-> disk, in |-> "", out |-> "", arg |-> 1, rd |-> 0, wr |-> 0,
              text |-> << >>]

Start ==
    /\ ~on /\ outcome = "running" /\ script # << >>
    /\ on' = TRUE
    /\ calls' = CallsOf(Line.tool)
    /\ job' = [before |-> disk, in |-> "", out |-> "", arg |-> 1, rd |-> 0, wr |-> 0,
               text |-> << >>]
    /\ UNCHANGED <<disk, script, held, outcome>>

(* Calls that give the tool something, and calls that take it back.        *)
Acquire ==
    /\ Calls("get") /\ Done
    /\ held' = held \cup {<<Head(calls)[2], Now>>}
    /\ UNCHANGED <<disk, job>>

GiveBack ==
    /\ Calls("give") /\ Done
    /\ held' = held \ {<<Head(calls)[2], Now>>}
    /\ UNCHANGED <<disk, job>>

-----------------------------------------------------------------------------
(* hex1 and hex2 read load_options from the end: at every space the word   *)
(* behind it becomes the input and the input so far the output.            *)
BackwardNext(words, k, later) == [in |-> words[k], out |-> later.in]

ScannedBack(words) ==
    LET scanned[k \in 1 .. Len(words) + 1] ==
            IF k > Len(words) THEN [in |-> "", out |-> ""]
            ELSE BackwardNext(words, k, scanned[k + 1])
    IN  scanned[1]

(* M0 walks over the words from the front.  The output of catm is the word *)
(* where the walk of the others finds the input.                           *)
ScannedForward(tool, words) ==
    IF tool = "catm" THEN [in |-> "", out |-> words[1]] ELSE [in |-> words[1], out |-> words[2]]

Options(c, scanned) ==
    /\ Calls(c) /\ Done
    /\ job' = [job EXCEPT !.in = scanned.in, !.out = scanned.out]
    /\ UNCHANGED <<disk, held>>

BackwardOptions == Options("options", ScannedBack(Line.words))
ForwardOptions  == Options("forward options", ScannedForward(Line.tool, Line.words))

(* A missing input is not noticed: the variable for the handle keeps what  *)
(* was on the stack.                                                       *)
OpenIn ==
    /\ Calls("open in") /\ Done
    /\ held' = IF disk[job.in] = Missing THEN held ELSE held \cup {<<"in", Now>>}
    /\ job' = [job EXCEPT !.rd = 0]
    /\ UNCHANGED disk

(* CREATE|READ|WRITE: a file that exists keeps its contents and length.    *)
OpenOut ==
    /\ Calls("open out") /\ Done
    /\ disk' = B!Created(disk, job.out)
    /\ held' = held \cup {<<"out", Now>>}
    /\ job' = [job EXCEPT !.wr = 0, !.arg = 2]

WriteOut(data) ==
    /\ disk' = B!Written(disk, job.out, job.wr, data)
    /\ job' = [job EXCEPT !.wr = @ + Len(data)]

-----------------------------------------------------------------------------
(* hex1 reads through the handle in both passes.                           *)
FirstPass ==
    /\ Calls("first pass") /\ Done
    /\ job' = [job EXCEPT !.rd = Len(disk[job.in])]
    /\ UNCHANGED <<disk, held>>

RewindShort == Calls("rewind") /\ Done /\ UNCHANGED <<disk, held, job>>   \* mutant

Rewind ==
    /\ Calls("rewind") /\ Done
    /\ job' = [job EXCEPT !.rd = 0]
    /\ UNCHANGED <<disk, held>>

SecondPass ==
    /\ Calls("second pass") /\ Done
    /\ WriteOut(Translate("hex1", SubSeq(disk[job.in], job.rd + 1, Len(disk[job.in]))))
    /\ UNCHANGED held

(* GetInfo tells hex2 the length of the file and changes nothing.          *)
GetInfo ==
    /\ Calls("get info") /\ Done
    /\ UNCHANGED <<disk, held, job>>

ReadAll ==
    /\ Calls("read all") /\ Done
    /\ job' = [job EXCEPT !.text = B!Taken(Line.tool, disk[job.in])]
    /\ UNCHANGED <<disk, held>>

WriteAll ==
    /\ Calls("write all") /\ Done
    /\ WriteOut(Translate(Line.tool, job.text))
    /\ UNCHANGED held

Flush == Calls("flush") /\ Done /\ UNCHANGED <<disk, held, job>>

-----------------------------------------------------------------------------
(* catm: the loop over its inputs.                                         *)
Arg == Line.words[job.arg]

CoreStays(next) == calls' = next \o calls /\ UNCHANGED <<disk, script, on, outcome>>

AdvanceNone == job.arg                                              \* mutant
Advance     == job.arg + 1

CoreDone ==
    /\ Calls("core") /\ job.arg > Len(Line.words) /\ Done
    /\ UNCHANGED <<disk, held, job>>

(* Two spaces in a row, or an input that cannot be opened.                 *)
CoreSkip ==
    /\ Calls("core") /\ job.arg <= Len(Line.words)
    /\ IF Arg = "" THEN TRUE ELSE disk[Arg] = Missing
    /\ job' = [job EXCEPT !.arg = Advance]
    /\ CoreStays(<< >>)
    /\ UNCHANGED held

CoreOpen ==
    /\ Calls("core") /\ job.arg <= Len(Line.words)
    /\ IF Arg = "" THEN FALSE ELSE disk[Arg] # Missing
    /\ held' = held \cup {<<"in", Now>>}
    /\ job' = [job EXCEPT !.in = Arg, !.rd = 0]
    /\ CoreStays(<<Call("keep")>>)

Chunk == SubSeq(disk[job.in], job.rd + 1,
                IF job.rd + Block < Len(disk[job.in]) THEN job.rd + Block ELSE Len(disk[job.in]))

FullNever(n) == FALSE                                               \* mutant
Full(n)      == n = Block

(* One turn of reading and writing; only a full buffer asks for another.   *)
Keep ==
    /\ Calls("keep")
    /\ disk' = IF Chunk = << >> THEN disk ELSE B!Written(disk, job.out, job.wr, Chunk)
    /\ job' = [job EXCEPT !.rd = @ + Len(Chunk), !.wr = @ + Len(Chunk)]
    /\ calls' = IF Full(Len(Chunk)) THEN calls ELSE <<Call("close arg")>> \o Tail(calls)
    /\ UNCHANGED <<script, held, on, outcome>>

CloseArg ==
    /\ Calls("close arg") /\ Done
    /\ held' = held \ {<<"in", Now>>}
    /\ job' = [job EXCEPT !.arg = Advance]
    /\ UNCHANGED disk

-----------------------------------------------------------------------------
(* The epilogue returns 0 whatever happened, and kaem takes the next line. *)
Return ==
    /\ on /\ outcome = "running" /\ calls = << >>
    /\ on' = FALSE
    /\ script' = Tail(script)
    /\ UNCHANGED <<disk, calls, held, job, outcome>>

Finish ==
    /\ ~on /\ outcome = "running" /\ script = << >>
    /\ outcome' = "done"
    /\ UNCHANGED <<disk, script, calls, held, job, on>>

(* The next call goes through a handle that was not given.                 *)
Stray ==
    /\ Busy /\ ~Sound
    /\ outcome' = "lost"
    /\ UNCHANGED <<disk, script, calls, held, job, on>>

Next ==
    \/ Start \/ Acquire \/ GiveBack \/ BackwardOptions \/ ForwardOptions
    \/ OpenIn \/ OpenOut \/ FirstPass \/ Rewind \/ SecondPass
    \/ GetInfo \/ ReadAll \/ WriteAll \/ Flush
    \/ CoreDone \/ CoreSkip \/ CoreOpen \/ Keep \/ CloseArg
    \/ Return \/ Finish \/ Stray

(* A tool runs alone on the machine.                                       *)
Spec == Init /\ [][Next]_vars /\ WF_vars(Next)

-----------------------------------------------------------------------------
(* "Free malloc pool", "close output file", "close_protocol": a tool that  *)
(* has returned holds nothing, whichever way it took and whatever its      *)
(* inputs were.  The exception is the 8 MiB stack of M0, which no code     *)
(* frees: a build keeps one for every line that runs M0.                   *)
AllGivenBack ==
    ~on => \A h \in held : h[1] = "stack"

(* Every call goes through a handle that is open at that moment: hex2 and  *)
(* M0 close their input early, hex1 late, catm one input after the other.  *)
(* What can break it is a translator without an input, and nothing else.   *)
StraysOnlyWithoutInput ==
    outcome = "lost" => Line.tool # "catm" /\ job.before[Line.words[1]] = Missing

(* A tool takes effect as a whole: seen from its end, the script ran its   *)
(* lines one by one.  It also ends if every line does.                     *)
Seen  == IF on THEN job.before ELSE disk
Lines == INSTANCE Build WITH disk <- Seen
ImplementsBuild == Lines!Spec
================================================================================
