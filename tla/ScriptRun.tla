------------------------------- MODULE ScriptRun -------------------------------
(***************************************************************************)
(* What kaem promises: it runs the command lines of a script from top to   *)
(* bottom, a line that runs kaem itself contributes the lines of another   *)
(* script at its place, and after the first failure, wherever it happens   *)
(* in the nest of scripts, nothing else is started.                        *)
(***************************************************************************)
EXTENDS Naturals, Sequences, SequencesExt

VARIABLES
    todo,        \* the command lines still to run, one sequence per script
    started,     \* the command lines whose programs were started, in order
    outcome      \* "running", "ok" or "failed"

vars == <<todo, started, outcome>>

Running   == outcome = "running"
Innermost == Last(todo)
Advanced  == Append(Front(todo), Tail(Innermost))

Init == outcome = "running" /\ started = << >> /\ Len(todo) = 1

(* The next program is started.  It may fail at once, and it may be a kaem *)
(* with a script of its own.                                               *)
Run ==
    /\ Running /\ outcome' \in {"running", "failed"}
    /\ Innermost # << >>
    /\ started' = Append(started, Head(Innermost))
    /\ \/ todo' = Advanced
       \/ Len(todo') = Len(todo) + 1 /\ Front(todo') = Advanced

EndScript ==
    /\ Running /\ outcome' = "running"
    /\ Innermost = << >> /\ Len(todo) > 1
    /\ todo' = Front(todo)
    /\ started' = started

Finish ==
    /\ Running /\ outcome' = "ok"
    /\ todo = << << >> >>
    /\ started' = started

Fail == Running /\ outcome' = "failed" /\ started' = started

(* On the way out of the nest of scripts.                                  *)
Unwind == outcome = "failed" /\ outcome' = outcome /\ started' = started

Next == Run \/ EndScript \/ Finish \/ Fail \/ Unwind

Spec == Init /\ [][Next]_vars
=============================================================================
