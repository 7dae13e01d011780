--------------------------------- MODULE Build ---------------------------------
(***************************************************************************)
(* What a script of tool lines promises: the lines take effect one after   *)
(* the other, each at once and as a whole.  A translator (hex1, hex2, M0)  *)
(* writes the translation of its whole input over its output file from the *)
(* beginning; catm writes those of its inputs that exist, one behind the   *)
(* other.  Neither shortens a file that was there before.                  *)
(***************************************************************************)
EXTENDS Naturals, Sequences

CONSTANTS
    Files,           \* file names
    Missing,         \* stands for the contents of a file that is not there
    Translate(_, _), \* what a tool makes of a text: its passes, modelled in
                     \* HexStages, Hex2Rv and M0
    M0Limit          \* the text M0 takes from a file: 4 MiB

VARIABLES
    disk,            \* the contents of the files, block by block
    script,          \* the lines still to run: [tool, words]
    outcome          \* "running", "done", or "lost": a call through a handle
                     \* that the firmware never gave

vars == <<disk, script, outcome>>

-----------------------------------------------------------------------------
Created(d, f) == [d EXCEPT ![f] = IF @ = Missing THEN << >> ELSE @]

(* A file after data was written at a position inside it or at its end:    *)
(* what lies behind the data stays.                                        *)
Overlay(old, at, data) ==
    SubSeq(old, 1, at) \o data \o SubSeq(old, at + Len(data) + 1, Len(old))

Written(d, f, at, data) == [d EXCEPT ![f] = Overlay(@, at, data)]

(* M0 takes what fits its buffer and does not look for more.               *)
Taken(tool, text) ==
    IF tool = "M0" /\ Len(text) > M0Limit THEN SubSeq(text, 1, M0Limit) ELSE text

(* An input that is not there is left out.  The first input may be the     *)
(* output itself, whose contents then stay in front.                       *)
Concatenated(d, words) ==
    LET out == words[1]
        joined[k \in 1 .. Len(words)] ==
            IF k = 1 THEN [disk |-> Created(d, out), end |-> 0]
            ELSE LET so_far == joined[k - 1]
                     data   == IF words[k] = "" THEN Missing ELSE so_far.disk[words[k]]
                 IN  IF data = Missing THEN so_far
                     ELSE [disk |-> Written(so_far.disk, out, so_far.end, data),
                           end  |-> so_far.end + Len(data)]
    IN  joined[Len(words)].disk

Translated(d, tool, words) ==
    Written(Created(d, words[2]), words[2], 0, Translate(tool, Taken(tool, d[words[1]])))

Effect(d, line) ==
    IF line.tool = "catm" THEN Concatenated(d, line.words)
                          ELSE Translated(d, line.tool, line.words)

HasInput(d, line) == line.tool = "catm" \/ d[line.words[1]] # Missing

-----------------------------------------------------------------------------
Init == outcome = "running"

RunLine ==
    /\ outcome = "running" /\ script # << >> /\ HasInput(disk, Head(script))
    /\ disk' = Effect(disk, Head(script))
    /\ script' = Tail(script)
    /\ UNCHANGED outcome

(* A translator does not find out that its input is missing.               *)
Lose ==
    /\ outcome = "running" /\ script # << >> /\ ~HasInput(disk, Head(script))
    /\ outcome' = "lost"
    /\ UNCHANGED <<disk, script>>

Finish ==
    /\ outcome = "running" /\ script = << >>
    /\ outcome' = "done"
    /\ UNCHANGED <<disk, script>>

Next == RunLine \/ Lose \/ Finish

Spec == Init /\ [][Next]_vars /\ WF_vars(Next)
================================================================================
