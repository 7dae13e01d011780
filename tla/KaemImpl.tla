-------------------------------- MODULE KaemImpl --------------------------------
(* kaem-optional runs scripts as ScriptRun says, on every port.            *)
EXTENDS Kaem, SequencesExt

(* The line that begins at a position.                                     *)
Feed(text, p)   == FindFrom(text, p, {"LF"})
LineAt(text, p) == SubSeq(text, p, Feed(text, p) - 1)

(* The commands from position p of a text on: its complete lines but blank *)
(* ones and comments.                                                      *)
CommandsFrom(text, p) ==
    LET from[q \in 1 .. Len(text) + 1] ==
            IF AtEnd(text, Feed(text, q)) THEN << >>
            ELSE (IF text[q] \in {"LF", "#"} THEN << >> ELSE <<LineAt(text, q)>>)
                   \o from[Feed(text, q) + 1]
    IN  from[p]

(* Lines that mean the same on every port: comments begin at the beginning *)
(* of a line and have no carriage return, commands have an argument, and   *)
(* no word stands behind the last line feed.                               *)
PlainLine(line) ==
    \/ line = << >>
    \/ line[1] = "#" /\ ~Contains(line, "CR")
    \/ line[1] # "SP" /\ Contains(line, "SP") /\ ~Contains(line, "#")

StartsLine(text, p) == p = 1 \/ text[p - 1] = "LF"

Plain(text) ==
    /\ text # << >> => Last(text) = "LF"
    /\ \A p \in DOMAIN text : StartsLine(text, p) => PlainLine(LineAt(text, p))

AllPlain == \A name \in DOMAIN disk : disk[name].kind = "data" => Plain(disk[name].text)

-----------------------------------------------------------------------------
(* The refinement mapping *)

TextOf(d, name) == IF name \in DOMAIN d THEN d[name].text ELSE << >>

(* What a frame has still to run of a script: the line it has read, and    *)
(* what follows.                                                           *)
Todo(f, script, d) ==
    (IF f.pc \in {"command", "load", "start"} THEN <<f.line>> ELSE << >>)
      \o CommandsFrom(TextOf(d, script), f.pos)

Todos == [n \in 1 .. depth - 1 |->
            Todo(frames[n + 1],
                 IF frames[n + 1].pc = "entry" THEN ScriptName ELSE frames[n + 1].script,
                 disk)]

Failure == \/ status # "running"
           \/ \E n \in DOMAIN frames : frames[n].pc \in {"returned", "exit"} /\ frames[n].code # 0

Outcome == IF Failure THEN "failed" ELSE IF depth = 1 THEN "ok" ELSE "running"

Lines == [i \in DOMAIN started |-> started[i].line]

Abs == INSTANCE ScriptRun WITH todo <- Todos, started <- Lines, outcome <- Outcome

(* Every step of every port, on a disk of plain scripts, is a step of the  *)
(* abstract script runner or changes nothing it can see: no line is left   *)
(* out, run twice or out of order, and nothing is started after a failure. *)
(* On riscv64 the last needs a firmware that leaves t3 alone.              *)
ImplementsScriptRun ==
    /\ AllPlain => Abs!Init
    /\ [][AllPlain /\ ~TempsLost => [Abs!Next]_(Abs!vars)]_vars

(* Every nest of scripts comes to its end; of the C port this holds if no  *)
(* comment runs into the end of a file.                                    *)
Terminates == (AllPlain \/ port # "c") => <>(depth = 1 \/ status = "undefined")
=============================================================================
