--------------------------------- MODULE Kaem ---------------------------------
(***************************************************************************)
(* kaem-optional, the script runner of the bootstrap, in its three forms:  *)
(* Development/kaem-optional.c ("c"), amd64/Development/kaem-optional.S    *)
(* ("amd64") and riscv64/kaem-optional.hex0 ("riscv64").                   *)
(*                                                                         *)
(* kaem reads a script byte by byte, and loads and starts the program each *)
(* line names.  That program may be kaem again: the runs form a stack of   *)
(* frames, each with its own registers, handles and command buffer.  Frame *)
(* 1 stands for the firmware that starts the outermost kaem.  The command  *)
(* buffer of a frame is the load_options of the program it starts.         *)
(*                                                                         *)
(* Abstractions.  A word of a script is one character; a file name is a    *)
(* sequence of characters; a file is a program or the text of a script.    *)
(* Allocations succeed.  Programs other than kaem either fail or write a   *)
(* file under the name of their last argument.                             *)
(***************************************************************************)
EXTENDS Naturals, Integers, Sequences, HexText

CONSTANTS
    Ports,        \* the forms of kaem in this instance
    Disks,        \* what the disk may hold: file name -> [kind, text]
    RootOptions,  \* load_options the firmware may pass
    DefaultFile,  \* kaem.amd64 or kaem.riscv64
    BufSize,      \* characters in the command buffer
    Codes,        \* exit codes of programs that fail
    Outputs,      \* names a program may write
    Products,     \* what it may write there
    TempsKept     \* the firmware changes no temporary register (external)

ASSUME KaemAssumption ==
    /\ Ports \subseteq {"c", "amd64", "riscv64"}
    /\ BufSize \in Nat \ {0}
    /\ TempsKept \in BOOLEAN
    /\ Codes \subseteq Nat \ {0}

File == [kind : {"tool", "kaem", "data"}, text : Seq(STRING)]

(* Options fit the buffer, and no program writes a script.                 *)
ASSUME DisksAssumption ==
    /\ \A d \in Disks : \A name \in DOMAIN d :
         d[name] \in File /\ (d[name].kind = "data" => name \notin Outputs)
    /\ \A file \in Products : file \in File /\ file.kind # "data"
    /\ \A options \in RootOptions : options \in Seq(STRING) /\ Len(options) < BufSize

VARIABLES
    port,
    disk,
    frames,      \* the firmware, then every kaem that has not returned
    status,      \* "running", "undefined" (the program has left its code or
                 \* its memory) or "hung"
    started,     \* history: the lines and load_options of programs started
    failed,      \* history: a program failed, or a file could not be opened
    leaked       \* history: what kaems that have returned did not release,
                 \* and whether they had a script

vars == <<port, disk, frames, status, started, failed, leaked>>

-----------------------------------------------------------------------------
(* Frames *)

depth  == Len(frames)
Top    == frames[depth]
Parent == frames[depth - 1]
At(pc) == status = "running" /\ depth > 1 /\ Top.pc = pc

SetTop(f) == frames' = [frames EXCEPT ![depth] = f]

Junk == [k \in 0 .. BufSize - 1 |-> "JUNK"]

NewFrame == [pc |-> "entry", script |-> << >>, pos |-> 1, line |-> << >>,
             buf |-> Junk, len |-> 0, cl |-> 0, code |-> 0, held |-> {}, sp |-> 0]

(* The buffer after a line of characters was stored in it.                 *)
Stored(buf, line) == [k \in DOMAIN buf |-> IF k < Len(line) THEN line[k + 1] ELSE buf[k]]

(* The buffer from index k up to a NUL.                                    *)
StringAt(buf, k) ==
    LET s == [i \in 1 .. BufSize - k |-> buf[k + i - 1]]
    IN  SubSeq(s, 1, FindFrom(s, 1, {"NUL"}) - 1)

(* kaem returns to the frame that started it.                              *)
ReturnToParent(code) ==
    frames' = [SubSeq(frames, 1, depth - 1) EXCEPT
                 ![depth - 1] = [@ EXCEPT !.pc = "returned", !.code = code]]

ErrorCodeLost(code) == IF port = "riscv64" THEN 0 ELSE code   \* mutant

(* What print_error leaves as exit code.                                   *)
ErrorCode(code) == IF port = "riscv64" THEN 1 ELSE code
NotFound == 14

FailsUnpopped(code) == SetTop([Top EXCEPT !.pc = "exit", !.code = ErrorCode(code)])  \* mutant

(* print_error, which on riscv64 gives load_options_size back to the stack. *)
Fails(code) == SetTop([Top EXCEPT !.pc = "exit", !.code = ErrorCode(code), !.sp = 0])

(* The riscv64 port keeps two values in t3 and t4 while it calls the       *)
(* firmware, which the calling convention allows to change both.           *)
TempsLost == port = "riscv64" /\ ~TempsKept

-----------------------------------------------------------------------------
Init ==
    /\ port \in Ports
    /\ disk \in Disks
    /\ \E options \in RootOptions :
         frames = << [NewFrame EXCEPT !.pc = "waits", !.len = Len(options),
                                      !.buf = [Stored(Junk, options) EXCEPT ![Len(options)] = "NUL"]],
                     NewFrame >>
    /\ status = "running" /\ started = << >>
    /\ failed = FALSE /\ leaked = {}

-----------------------------------------------------------------------------
(* Entry: protocols, the name of the script, and the script *)

(* The load_options are the buffer of the parent, of len + 1 characters.   *)
Spaces == {k \in 0 .. Parent.len : Parent.buf[k] = "SP"}

(* The first word behind the name of the program, by index.                *)
Arguments ==
    IF port = "c"
    THEN {k \in 2 .. BufSize - 1 :
            /\ Parent.buf[k - 1] = "SP"
            /\ \A j \in 1 .. k - 2 : Parent.buf[j] \notin {"SP", "NUL"}}
    ELSE {k + 1 : k \in {s \in Spaces : \A t \in Spaces : s <= t}}

(* The two machine-code ports cut the options, and that is the buffer of   *)
(* their parent, at every space.                                           *)
CutOptions == IF port = "c" THEN Parent.buf
              ELSE [k \in DOMAIN Parent.buf |-> IF k \in Spaces THEN "NUL" ELSE Parent.buf[k]]

ScriptName == IF Arguments = {} THEN DefaultFile
              ELSE StringAt(CutOptions, CHOOSE k \in Arguments : TRUE)

OpenVolume ==
    /\ At("entry")
    /\ frames' = [frames EXCEPT
         ![depth] = [@ EXCEPT !.pc = "script", !.script = ScriptName,
                              !.held = {"image", "fs", "rootdir"}],
         ![depth - 1].buf = CutOptions]
    /\ UNCHANGED <<port, disk, status, started, failed, leaked>>

OpenScript ==
    /\ At("script") /\ Top.script \in DOMAIN disk
    /\ SetTop([Top EXCEPT !.pc = "read", !.held = @ \cup {"fin", "command"}])
    /\ UNCHANGED <<port, disk, status, started, failed, leaked>>

(* On this way out only the first two ports close their protocols, and     *)
(* none closes the root directory.                                         *)
NoScript ==
    /\ At("script") /\ Top.script \notin DOMAIN disk
    /\ leaked' = leaked \cup {"no script"} \X
                   (IF port = "riscv64" THEN Top.held ELSE Top.held \ {"image", "fs"})
    /\ ReturnToParent(ErrorCode(NotFound))
    /\ failed' = TRUE
    /\ UNCHANGED <<port, disk, status, started>>

-----------------------------------------------------------------------------
(* Reading a line *)

Text      == disk[Top.script].text
LineStop  == FindFrom(Text, Top.pos, {"LF", "#"})
Body      == SubSeq(Text, Top.pos, LineStop - 1)
Commented == ~AtEnd(Text, LineStop) /\ Text[LineStop] = "#"
LineEndAtHash == LineStop                                  \* mutant
CommentEnds == IF port = "c" THEN {"LF", "CR"} ELSE {"LF"}
LineEnd   == IF Commented THEN FindFrom(Text, LineStop + 1, CommentEnds) ELSE LineStop
LineEndsAnyway == TRUE                                     \* mutant
LineEnds  == ~AtEnd(Text, LineEnd)

(* command_length: the index of the first space, 0 for none or for one at  *)
(* the beginning of the line.                                              *)
FirstSpace ==
    IF Len(Body) < 2 \/ AtEnd(Body, FindFrom(Body, 2, {"SP"})) THEN 0
    ELSE FindFrom(Body, 2, {"SP"}) - 1

(* Only the riscv64 port takes a line without a space for a command.       *)
CommandLength ==
    IF port = "riscv64" /\ FirstSpace = 0 THEN Len(Body) ELSE FirstSpace

(* A comment behind a command hides the line from the machine-code ports;  *)
(* the C port breaks out of its inner loop only, and runs the line.        *)
Runs == LineEnds /\ CommandLength > 0 /\ (Commented => port = "c")

(* Nothing bounds the stores into the command buffer, and a program can be *)
(* opened as a script.                                                     *)
Readable == /\ disk[Top.script].kind = "data"
            /\ Len(Body) + (IF Runs THEN 1 ELSE 0) <= BufSize

(* The riscv64 port keeps load_options_size on the stack from here on.     *)
ReadCommand ==
    /\ At("read") /\ Runs /\ Readable
    /\ SetTop([Top EXCEPT !.pc = "command", !.pos = LineEnd + 1, !.line = Body,
                          !.len = Len(Body), !.cl = CommandLength,
                          !.buf = [Stored(@, Body) EXCEPT ![Len(Body)] = "NUL"],
                          !.sp = IF port = "riscv64" THEN 16 ELSE 0])
    /\ UNCHANGED <<port, disk, status, started, failed, leaked>>

SkipLineStuck ==                                           \* mutant
    /\ At("read") /\ LineEnds /\ ~Runs /\ Readable
    /\ SetTop([Top EXCEPT !.pos = LineEnd, !.buf = Stored(@, Body)])
    /\ UNCHANGED <<port, disk, status, started, failed, leaked>>

SkipLine ==
    /\ At("read") /\ LineEnds /\ ~Runs /\ Readable
    /\ SetTop([Top EXCEPT !.pos = LineEnd + 1, !.buf = Stored(@, Body)])
    /\ UNCHANGED <<port, disk, status, started, failed, leaked>>

(* End of file ends the script, whatever has been read of the last line.   *)
EndOfScript ==
    /\ At("read") /\ ~LineEnds /\ ~(Commented /\ port = "c") /\ Readable
    /\ SetTop([Top EXCEPT !.pc = "exit", !.code = 0])
    /\ UNCHANGED <<port, disk, status, started, failed, leaked>>

(* The comment loop of the C port does not look at the size it has read.   *)
HangInComment ==
    /\ At("read") /\ ~LineEnds /\ Commented /\ port = "c" /\ Readable
    /\ status' = "hung"
    /\ UNCHANGED <<port, disk, frames, started, failed, leaked>>

ReadGarbage ==
    /\ At("read") /\ ~Readable
    /\ status' = "undefined"
    /\ UNCHANGED <<port, disk, frames, started, failed, leaked>>

-----------------------------------------------------------------------------
(* Running a line *)

(* The name is cut off the line while the file is opened.                  *)
CommandName == SubSeq([i \in 1 .. BufSize |-> Top.buf[i - 1]], 1, Top.cl)

OpenExecutableCut ==                                       \* mutant
    /\ At("command") /\ CommandName \in DOMAIN disk
    /\ SetTop([Top EXCEPT !.pc = "load", !.held = @ \cup {"fcmd"}, !.buf[Top.cl] = "NUL"])
    /\ UNCHANGED <<port, disk, status, started, failed, leaked>>

OpenExecutable ==
    /\ At("command") /\ CommandName \in DOMAIN disk
    /\ SetTop([Top EXCEPT !.pc = "load", !.held = @ \cup {"fcmd"}, !.buf[Top.cl] = "SP"])
    /\ UNCHANGED <<port, disk, status, started, failed, leaked>>

NoExecutable ==
    /\ At("command") /\ CommandName \notin DOMAIN disk
    /\ Fails(NotFound)
    /\ failed' = TRUE
    /\ UNCHANGED <<port, disk, status, started, leaked>>

LoadImageUnclosed ==                                       \* mutant
    /\ At("load") /\ disk[CommandName].kind # "data"
    /\ SetTop([Top EXCEPT !.pc = "start"])
    /\ UNCHANGED <<port, disk, status, started, failed, leaked>>

(* The file is read into a pool, closed and loaded, and the pool freed.    *)
LoadImage ==
    /\ At("load") /\ disk[CommandName].kind # "data"
    /\ SetTop([Top EXCEPT !.pc = "start", !.held = @ \ {"fcmd"}])
    /\ UNCHANGED <<port, disk, status, started, failed, leaked>>

(* The status of load_image is not looked at: without an image, the handle *)
(* of the child is whatever was on the stack.  And the address of the file *)
(* information is in t4 while get_info fills it in.                        *)
NoImage == disk[CommandName].kind = "data" \/ TempsLost

LoadBlindly ==
    /\ At("load") /\ NoImage
    /\ status' = "undefined"
    /\ UNCHANGED <<port, disk, frames, started, failed, leaked>>

(* load_options and load_options_size as the child finds them.             *)
LoadOptions == SubSeq([i \in 1 .. BufSize |-> Top.buf[i - 1]], 1, Top.len + 1)

LogStart == started' = Append(started, [line |-> Top.line, options |-> LoadOptions])

Written(out, file) ==
    [name \in DOMAIN disk \cup {out} |-> IF name = out THEN file ELSE disk[name]]

(* Any program but kaem: it fails, or it writes its output.                *)
StartTool ==
    /\ At("start") /\ disk[CommandName].kind = "tool"
    /\ LogStart
    /\ \/ \E code \in Codes :
            /\ SetTop([Top EXCEPT !.pc = "returned", !.code = code])
            /\ failed' = TRUE
            /\ disk' = disk
       \/ /\ SetTop([Top EXCEPT !.pc = "returned", !.code = 0])
          /\ failed' = failed
          /\ LET out == <<Top.line[Top.len]>> IN
             IF out \in Outputs
             THEN \E file \in Products : disk' = Written(out, file)
             ELSE disk' = disk
    /\ UNCHANGED <<port, status, leaked>>

StartKaem ==
    /\ At("start") /\ disk[CommandName].kind = "kaem"
    /\ LogStart
    /\ frames' = Append([frames EXCEPT ![depth].pc = "waits"], NewFrame)
    /\ UNCHANGED <<port, disk, status, failed, leaked>>

(* What is tested of the exit code of the program: on riscv64, what t3 has *)
(* of it once the digit is printed, zero or not.                           *)
TestedCodes == IF TempsLost THEN {0, 1} ELSE {Top.code}

NextCommand ==
    /\ At("returned") /\ 0 \in TestedCodes
    /\ SetTop([Top EXCEPT !.pc = "read", !.sp = 0])
    /\ UNCHANGED <<port, disk, status, started, failed, leaked>>

ChildFailed ==
    /\ At("returned")
    /\ \E code \in TestedCodes : code # 0 /\ Fails(code)
    /\ UNCHANGED <<port, disk, status, started, failed, leaked>>

-----------------------------------------------------------------------------
(* cleanup and return *)

CleanedButRootdir == {"command", "fin", "fs", "image"}      \* mutant
Cleaned == {"command", "fin", "rootdir", "fs", "image"}

(* With the stack pointer off its frame, the riscv64 epilogue loads the    *)
(* return address from the wrong slot.                                     *)
Exit ==
    /\ At("exit")
    /\ leaked' = leaked \cup {"script"} \X (Top.held \ Cleaned)
    /\ IF Top.sp = 0
       THEN ReturnToParent(Top.code) /\ status' = status
       ELSE status' = "undefined" /\ frames' = frames
    /\ UNCHANGED <<port, disk, started, failed>>

-----------------------------------------------------------------------------
Next ==
    \/ OpenVolume \/ OpenScript \/ NoScript
    \/ ReadCommand \/ SkipLine \/ EndOfScript \/ HangInComment \/ ReadGarbage
    \/ OpenExecutable \/ NoExecutable \/ LoadImage \/ LoadBlindly
    \/ StartTool \/ StartKaem \/ NextCommand \/ ChildFailed
    \/ Exit

Spec == Init /\ [][Next]_vars

(* Firmware calls return, so the one thread of control keeps running.      *)
FairSpec == Spec /\ WF_vars(Next)

-----------------------------------------------------------------------------
(* Properties *)

Session == {"image", "fs", "rootdir", "fin", "command"}

TypeOK ==
    /\ status \in {"running", "undefined", "hung"}
    /\ failed \in BOOLEAN
    /\ leaked \subseteq {"script", "no script"} \X Session
    /\ frames # << >>
    /\ \A n \in DOMAIN frames : LET f == frames[n] IN
         /\ f.pc \in {"entry", "script", "read", "command", "load", "start",
                      "waits", "returned", "exit"}
         /\ f.cl \in 0 .. f.len /\ f.len < BufSize
         /\ f.code \in Nat /\ f.sp \in {0, 16}
         /\ f.held \subseteq Session \cup {"fcmd"}
         /\ f.held = Session => f.pos \in 1 .. Len(disk[f.script].text) + 1

(* A kaem whose script could be opened gives back, on every way out and at *)
(* every depth of nesting, whatever it opened or allocated.                *)
NothingLeaks == \A r \in Session \cup {"fcmd"} : <<"script", r>> \notin leaked

(* A kaem that waits for the program of a line, however deep the nest,     *)
(* holds its session and nothing that it needed only to load the program.  *)
OnlySessionsWait ==
    \A n \in 2 .. depth : frames[n].pc = "waits" => frames[n].held = Session

(* The firmware is told of a failure exactly when a program failed or a    *)
(* file was missing, in whatever script of the nest that was; of the       *)
(* riscv64 port this is said for a firmware that leaves t3 alone.          *)
ErrorsPropagate == depth = 1 /\ ~TempsLost => (frames[1].code # 0 <=> failed)

HasArguments(line) == \E k \in 2 .. Len(line) : line[k] = "SP"

(* A program started with arguments finds its whole line in load_options:  *)
(* what was cut off to open its file has been put back.                    *)
OptionsComplete ==
    \A i \in DOMAIN started :
        HasArguments(started[i].line) => started[i].options = Append(started[i].line, "NUL")

(* "load_options_size (including UCS-2 null terminator)": the options of   *)
(* every program end with a NUL.                                           *)
OptionsTerminated ==
    \A i \in DOMAIN started : LET o == started[i].options IN o[Len(o)] = "NUL"

(* "pop load_options_size": whichever line or call of it failed, the stack *)
(* is back at the frame of _start when kaem leaves, so that it can return. *)
StackBalanced == At("exit") => Top.sp = 0

=============================================================================
