------------------------------ MODULE KaemProofs ------------------------------
(***************************************************************************)
(* Theorems about Kaem: for all three ports, whatever is on the disk,      *)
(* whatever the scripts say and however deep they nest, no way out of kaem *)
(* leaks a resource, leaves the stack pointer off its frame, or loses or   *)
(* invents a failure; the options of a program are its whole line; and on  *)
(* plain scripts kaem runs what the abstract script runner runs.           *)
(***************************************************************************)
EXTENDS KaemImpl, HexTextProofs, SequenceTheorems

USE KaemAssumption

-----------------------------------------------------------------------------
(* The stack of frames *)

Fields == {"pc", "script", "pos", "line", "buf", "len", "cl", "code", "held", "sp"}

(* The frames are a sequence of records.  No set of frames is named: what  *)
(* the text fields hold does not matter to most of what is proved.         *)
IsStack ==
    /\ \E S : frames \in Seq(S)
    /\ depth >= 1
    /\ \A n \in 1 .. depth : DOMAIN frames[n] = Fields

(* A step that only changes the top frame.                                 *)
LEMMA SetTopFacts ==
  ASSUME IsStack, NEW f, DOMAIN f = Fields, SetTop(f)
  PROVE  /\ IsStack'
         /\ depth \in Nat /\ depth' = depth /\ Top' = f
         /\ \A n \in 1 .. depth - 1 : frames'[n] = frames[n]
  <1>1. PICK S : frames \in Seq(S)
    BY DEF IsStack
  <1>2. depth \in Nat /\ depth \in 1 .. depth
    BY <1>1, LenProperties DEF depth, IsStack
  <1>3. frames \in Seq(S \cup {f})
    BY <1>1, SeqMonotonic
  <1>4. /\ frames' \in Seq(S \cup {f}) /\ depth' = depth
        /\ \A n \in 1 .. depth : frames'[n] = IF n = depth THEN f ELSE frames[n]
    BY <1>2, <1>3, ExceptSeq DEF SetTop, depth
  <1>5. \A n \in 1 .. depth - 1 : n \in 1 .. depth /\ n # depth
    BY <1>2
  <1> QED BY <1>2, <1>4, <1>5 DEF IsStack, Top

(* A step that starts another kaem.                                        *)
LEMMA PushFacts ==
  ASSUME IsStack, NEW f, DOMAIN f = Fields, NEW g, DOMAIN g = Fields,
         frames' = Append([frames EXCEPT ![depth] = f], g)
  PROVE  /\ IsStack'
         /\ depth \in Nat /\ depth' = depth + 1
         /\ frames'[depth + 1] = g /\ frames'[depth] = f
         /\ \A n \in 1 .. depth - 1 : frames'[n] = frames[n]
  <1>1. PICK S : frames \in Seq(S)
    BY DEF IsStack
  <1>2. depth \in Nat /\ depth \in 1 .. depth
    BY <1>1, LenProperties DEF depth, IsStack
  <1> DEFINE fs == [frames EXCEPT ![depth] = f]
             T == S \cup {f, g}
  <1>3. frames \in Seq(T)
    BY <1>1, SeqMonotonic
  <1>4. /\ fs \in Seq(T) /\ Len(fs) = depth
        /\ \A n \in 1 .. depth : fs[n] = IF n = depth THEN f ELSE frames[n]
    BY <1>2, <1>3, ExceptSeq DEF depth
  <1>0. frames' = Append(fs, g) /\ g \in T
    OBVIOUS
  <1> HIDE DEF fs, T
  <1>5. /\ frames' \in Seq(T) /\ depth' = depth + 1
        /\ \A n \in 1 .. depth : frames'[n] = fs[n]
        /\ frames'[depth + 1] = g
    <2>1. /\ Append(fs, g) \in Seq(T) /\ Len(Append(fs, g)) = Len(fs) + 1
          /\ \A n \in 1 .. Len(fs) : Append(fs, g)[n] = fs[n]
          /\ Append(fs, g)[Len(fs) + 1] = g
      BY <1>0, <1>4, AppendProperties
    <2>2. depth' = Len(Append(fs, g))
      BY <1>0 DEF depth
    <2> QED BY <1>0, <1>4, <2>1, <2>2
  <1>6. \A n \in 1 .. depth - 1 : n \in 1 .. depth /\ n # depth
    BY <1>2
  <1>7. \A n \in 1 .. depth + 1 : n = depth + 1 \/ n \in 1 .. depth
    BY <1>2
  <1> QED BY <1>2, <1>4, <1>5, <1>6, <1>7 DEF IsStack

(* A step that returns to the frame below.                                 *)
LEMMA ReturnFacts ==
  ASSUME IsStack, depth > 1, NEW code, ReturnToParent(code)
  PROVE  /\ IsStack'
         /\ depth \in Nat /\ depth' = depth - 1
         /\ Top' = [frames[depth - 1] EXCEPT !.pc = "returned", !.code = code]
         /\ \A n \in 1 .. depth - 2 : frames'[n] = frames[n]
  <1>1. PICK S : frames \in Seq(S)
    BY DEF IsStack
  <1>2. /\ depth \in Nat /\ depth - 1 \in Nat /\ depth - 1 >= 1
        /\ depth - 1 \in 1 .. depth - 1
        /\ \A n \in 1 .. depth - 1 : n \in 1 .. depth
    BY <1>1, LenProperties DEF depth, IsStack
  <1> DEFINE fs == SubSeq(frames, 1, depth - 1)
             f == [frames[depth - 1] EXCEPT !.pc = "returned", !.code = code]
             T == S \cup {f}
  <1>3. \A n \in 1 .. depth - 1 : frames[n] \in T
    BY <1>1, <1>2, ElementOfSeq DEF depth
  <1>4. /\ fs \in Seq(T) /\ Len(fs) = depth - 1
        /\ \A n \in 1 .. depth - 1 : fs[n] = frames[n]
    <2>1. /\ fs \in Seq(T)
          /\ Len(fs) = IF 1 <= depth - 1 THEN depth - 1 - 1 + 1 ELSE 0
          /\ \A n \in 1 .. depth - 1 - 1 + 1 : fs[n] = frames[1 + n - 1]
      BY <1>2, <1>3, SubSeqProperties
    <2> QED BY <1>2, <2>1
  <1>5. frames' = [fs EXCEPT ![depth - 1] = f]
    BY <1>2, <1>4 DEF ReturnToParent
  <1>6. f \in T
    OBVIOUS
  <1> HIDE DEF fs, f, T
  <1>7. /\ frames' \in Seq(T) /\ depth' = depth - 1
        /\ \A n \in 1 .. depth - 1 : frames'[n] = IF n = depth - 1 THEN f ELSE fs[n]
    BY <1>2, <1>4, <1>5, <1>6, ExceptSeq DEF depth
  <1>8. DOMAIN f = Fields
    BY <1>2 DEF f, IsStack
  <1>9. \A n \in 1 .. depth - 2 : n \in 1 .. depth - 1 /\ n # depth - 1
    BY <1>2
  <1> QED BY <1>2, <1>4, <1>7, <1>8, <1>9 DEF IsStack, Top, f

-----------------------------------------------------------------------------
(* The inductive invariant *)

(* What kaem holds at each place.  The properties only speak of "waits"    *)
(* and of the way out; they depend on every place before.                  *)
Holds(f) ==
    CASE f.pc = "entry"  -> {}
      [] f.pc = "script" -> {"image", "fs", "rootdir"}
      [] f.pc = "load"   -> Session \cup {"fcmd"}
      [] OTHER           -> Session

FrameOK(f) ==
    /\ f.held = Holds(f)
    /\ f.pc \in {"entry", "script", "read", "exit"} => f.sp = 0

(* Only the top frame runs; the firmware's frame is the top one only after *)
(* the outermost kaem has returned to it.                                  *)
OneRuns ==
    /\ \A n \in 1 .. depth - 1 : frames[n].pc = "waits"
    /\ Top.pc # "waits"
    /\ depth = 1 => Top.pc = "returned"

(* A failure that has happened is on its way up: the top frame has just    *)
(* been told of it or is leaving because of it.                            *)
Reports(f) == f.pc \in {"returned", "exit"} /\ f.code # 0

FailureKnown == TempsLost \/ (failed <=> Reports(Top))

KaemInv ==
    /\ IsStack /\ OneRuns
    /\ \A n \in 2 .. depth : FrameOK(frames[n])
    /\ failed \in BOOLEAN /\ FailureKnown
    /\ NothingLeaks

(* Most steps change the top frame and nothing else that matters: it is    *)
(* enough to look at the frame they leave.                                 *)
LEMMA TopStep ==
  ASSUME KaemInv, depth > 1, NEW f, DOMAIN f = Fields, SetTop(f),
         FrameOK(f), f.pc # "waits", failed' \in BOOLEAN,
         TempsLost \/ (failed' <=> Reports(f)),
         leaked' = leaked, port' = port
  PROVE  KaemInv'
  <1>1. /\ IsStack' /\ depth \in Nat /\ depth' = depth /\ Top' = f
        /\ \A n \in 1 .. depth - 1 : frames'[n] = frames[n]
    BY SetTopFacts DEF KaemInv
  <1>2. \A n \in 2 .. depth : n = depth \/ n \in 1 .. depth - 1
    BY <1>1
  <1>3. frames'[depth] = f
    BY <1>1 DEF Top
  <1>4. \A n \in 2 .. depth' : FrameOK(frames'[n])
    BY <1>1, <1>2, <1>3 DEF KaemInv
  <1>5. OneRuns'
    BY <1>1 DEF KaemInv, OneRuns
  <1>6. FailureKnown' /\ NothingLeaks'
    BY <1>1 DEF FailureKnown, TempsLost, Reports, KaemInv, NothingLeaks
  <1> QED BY <1>1, <1>4, <1>5, <1>6 DEF KaemInv, FrameOK, Holds, Session

(* A return, with what the caller is told.                                 *)
LEMMA ReturnStep ==
  ASSUME KaemInv, depth > 1, NEW code, ReturnToParent(code),
         failed' \in BOOLEAN, TempsLost \/ (failed' <=> code # 0), NothingLeaks',
         port' = port
  PROVE  KaemInv'
  <1>1. /\ IsStack' /\ depth \in Nat /\ depth' = depth - 1
        /\ Top' = [frames[depth - 1] EXCEPT !.pc = "returned", !.code = code]
        /\ \A n \in 1 .. depth - 2 : frames'[n] = frames[n]
    BY ReturnFacts DEF KaemInv
  <1>2. /\ depth - 1 \in 1 .. depth /\ depth - 1 \in 1 .. depth - 1
        /\ DOMAIN frames[depth - 1] = Fields /\ frames[depth - 1].pc = "waits"
    BY <1>1 DEF KaemInv, OneRuns, IsStack
  <1>3. /\ Top'.pc = "returned" /\ Top'.code = code
        /\ Top'.held = frames[depth - 1].held
    BY <1>1, <1>2 DEF Fields
  <1>4. ASSUME NEW n \in 2 .. depth - 1 PROVE FrameOK(frames'[n])
    <2>1. FrameOK(frames[n])
      BY <1>1 DEF KaemInv
    <2>2. CASE n = depth - 1
      BY <1>1, <1>2, <1>3, <2>1, <2>2 DEF FrameOK, Holds, Top
    <2>3. CASE n # depth - 1
      BY <1>1, <2>1, <2>3
    <2> QED BY <2>2, <2>3
  <1>5. OneRuns'
    BY <1>1, <1>3 DEF KaemInv, OneRuns
  <1>6. FailureKnown'
    BY <1>3 DEF FailureKnown, TempsLost, Reports
  <1> QED BY <1>1, <1>4, <1>5, <1>6 DEF KaemInv, FrameOK, Holds, Session

-----------------------------------------------------------------------------
(* kaem starts with nothing held and nothing failed.                       *)
LEMMA InitKaem == Init => KaemInv
  <1> SUFFICES ASSUME Init PROVE KaemInv
    OBVIOUS
  <1>1. PICK options \in RootOptions :
          frames = << [NewFrame EXCEPT !.pc = "waits", !.len = Len(options),
                        !.buf = [Stored(Junk, options) EXCEPT ![Len(options)] = "NUL"]],
                      NewFrame >>
    BY DEF Init
  <1> DEFINE f == frames[1]
  <1>2. /\ DOMAIN NewFrame = Fields /\ NewFrame.pc = "entry" /\ NewFrame.held = {}
        /\ NewFrame.sp = 0
    BY DEF NewFrame, Fields
  <1>3. /\ DOMAIN f = Fields /\ f.pc = "waits"
    BY <1>1, <1>2 DEF Fields
  <1>4. /\ frames = <<f, NewFrame>> /\ frames \in Seq({f, NewFrame}) /\ depth = 2
    BY <1>1 DEF depth
  <1> HIDE DEF f
  <1>5. frames[1] = f /\ frames[2] = NewFrame
    BY <1>4
  <1>6. \A n \in 1 .. depth : n = 1 \/ n = 2
    BY <1>4
  <1>7. IsStack
    <2>1. \E S : frames \in Seq(S)
      BY <1>4
    <2>2. \A n \in 1 .. depth : DOMAIN frames[n] = Fields
      BY <1>2, <1>3, <1>5, <1>6
    <2> QED BY <1>4, <2>1, <2>2 DEF IsStack
  <1>8. OneRuns /\ FailureKnown
    BY <1>2, <1>3, <1>4, <1>5 DEF OneRuns, FailureKnown, Reports, Top, Init
  <1>9. \A n \in 2 .. depth : FrameOK(frames[n])
    <2>1. FrameOK(NewFrame)
      BY <1>2 DEF FrameOK, Holds
    <2>2. \A n \in 2 .. depth : n = 2
      BY <1>4
    <2> QED BY <1>5, <2>1, <2>2
  <1> QED BY <1>7, <1>8, <1>9 DEF KaemInv, Init, NothingLeaks

(* The options parser cuts the buffer of the frame below, nothing else.    *)
LEMMA OpenVolumeKeeps == KaemInv /\ OpenVolume => KaemInv'
  <1> SUFFICES ASSUME KaemInv, OpenVolume PROVE KaemInv'
    OBVIOUS
  <1>1. PICK S : frames \in Seq(S)
    BY DEF KaemInv, IsStack
  <1>2. /\ depth \in Nat /\ depth > 1 /\ depth - 1 \in 1 .. depth /\ depth \in 1 .. depth
        /\ \A n \in 1 .. depth : DOMAIN frames[n] = Fields
    BY <1>1, LenProperties DEF depth, OpenVolume, At, KaemInv, IsStack
  <1> DEFINE f == [frames[depth] EXCEPT !.pc = "script", !.script = ScriptName,
                                        !.held = {"image", "fs", "rootdir"}]
             g == [frames[depth - 1] EXCEPT !.buf = CutOptions]
             fs == [frames EXCEPT ![depth] = f]
             T == S \cup {f, g}
  <1>3. frames \in Seq(T)
    BY <1>1, SeqMonotonic
  <1>4. /\ fs \in Seq(T) /\ Len(fs) = depth
        /\ \A n \in 1 .. depth : fs[n] = IF n = depth THEN f ELSE frames[n]
    BY <1>2, <1>3, ExceptSeq DEF depth
  <1>5. frames' = [fs EXCEPT ![depth - 1] = g]
    <2>1. frames' = [fs EXCEPT ![depth - 1] = [fs[depth - 1] EXCEPT !.buf = CutOptions]]
      BY DEF OpenVolume
    <2>2. fs[depth - 1] = frames[depth - 1]
      BY <1>2, <1>4
    <2> QED BY <2>1, <2>2
  <1>6. g \in T
    OBVIOUS
  <1>7. /\ DOMAIN f = Fields /\ f.pc = "script" /\ f.held = {"image", "fs", "rootdir"}
        /\ f.sp = frames[depth].sp /\ frames[depth].sp = 0
    <2>1. frames[depth].pc = "entry" /\ FrameOK(frames[depth])
      BY <1>2 DEF OpenVolume, At, Top, KaemInv
    <2> QED BY <1>2, <2>1 DEF Fields, FrameOK
  <1>8. /\ DOMAIN g = Fields /\ g.pc = frames[depth - 1].pc
        /\ g.held = frames[depth - 1].held /\ g.sp = frames[depth - 1].sp
    BY <1>2 DEF Fields
  <1> HIDE DEF f, g, fs, T
  <1>9. /\ frames' \in Seq(T) /\ depth' = depth
        /\ \A n \in 1 .. depth : frames'[n] = IF n = depth - 1 THEN g ELSE fs[n]
    BY <1>2, <1>4, <1>5, <1>6, ExceptSeq DEF depth
  <1>10. /\ frames'[depth] = f /\ frames'[depth - 1] = g
         /\ \A n \in 1 .. depth : n = depth \/ n = depth - 1 \/ frames'[n] = frames[n]
    <2>1. frames'[depth - 1] = g
      BY <1>2, <1>9
    <2>2. \A n \in 1 .. depth : n # depth - 1 => frames'[n] = fs[n]
      BY <1>9
    <2>3. depth # depth - 1
      BY <1>2
    <2> QED BY <1>2, <1>4, <2>1, <2>2, <2>3
  <1>11. IsStack'
    BY <1>2, <1>7, <1>8, <1>9, <1>10 DEF IsStack
  <1>12. OneRuns'
    BY <1>2, <1>7, <1>8, <1>9, <1>10 DEF OneRuns, KaemInv, Top
  <1>13. ASSUME NEW n \in 2 .. depth PROVE FrameOK(frames'[n])
    <2>1. FrameOK(frames[n]) /\ n \in 1 .. depth
      BY <1>2 DEF KaemInv
    <2>2. CASE n = depth
      BY <1>7, <1>10, <2>2 DEF FrameOK, Holds
    <2>3. CASE n = depth - 1
      BY <1>8, <1>10, <2>1, <2>3 DEF FrameOK, Holds
    <2> QED BY <1>10, <2>1, <2>2, <2>3
  <1>14. FailureKnown' /\ NothingLeaks' /\ failed' \in BOOLEAN
    <2>1. TempsLost \/ ~failed
      BY DEF KaemInv, FailureKnown, Reports, OpenVolume, At
    <2> QED BY <1>7, <1>9, <1>10, <2>1
         DEF FailureKnown, TempsLost, Reports, Top, NothingLeaks, KaemInv, OpenVolume
  <1> QED BY <1>9, <1>11, <1>12, <1>13, <1>14 DEF KaemInv, FrameOK, Holds, Session

(* What holds of the top frame when its kaem runs.                         *)
LEMMA TopFacts ==
  ASSUME KaemInv, depth > 1
  PROVE  DOMAIN Top = Fields /\ FrameOK(Top) /\ depth \in Nat
  <1>1. PICK S : frames \in Seq(S)
    BY DEF KaemInv, IsStack
  <1>2. depth \in Nat /\ depth \in 2 .. depth /\ depth \in 1 .. depth
    BY <1>1, LenProperties DEF depth
  <1> QED BY <1>2 DEF KaemInv, IsStack, Top

(* The steps within a line, one by one: each leaves a top frame that holds *)
(* what its place says.                                                    *)
LEMMA LineKeeps ==
  ASSUME KaemInv,
         OpenScript \/ ReadCommand \/ SkipLine \/ EndOfScript
           \/ OpenExecutable \/ LoadImage \/ NextCommand
  PROVE  KaemInv'
  <1>1. /\ depth > 1 /\ leaked' = leaked /\ failed' = failed /\ failed \in BOOLEAN
        /\ port' = port
    BY DEF OpenScript, ReadCommand, SkipLine, EndOfScript, OpenExecutable, LoadImage,
           NextCommand, At, KaemInv
  <1>2. DOMAIN Top = Fields /\ FrameOK(Top)
    BY <1>1, TopFacts
  <1>3. ASSUME NEW f, f.pc \notin {"returned", "exit"} \/ f.code = 0
        PROVE  TempsLost \/ (failed' <=> Reports(f))
    <2>1. TempsLost \/ ~failed
      BY DEF KaemInv, FailureKnown, Reports, TestedCodes, At, OpenScript, ReadCommand,
             SkipLine, EndOfScript, OpenExecutable, LoadImage, NextCommand
    <2> QED BY <1>1, <1>3, <2>1 DEF Reports
  <1>4. CASE OpenScript
    <2> DEFINE f == [Top EXCEPT !.pc = "read", !.held = @ \cup {"fin", "command"}]
    <2>1. SetTop(f) /\ Top.pc = "script"
      BY <1>4 DEF OpenScript, At
    <2>2. /\ DOMAIN f = Fields /\ f.pc = "read" /\ f.sp = Top.sp
          /\ f.held = Top.held \cup {"fin", "command"}
      BY <1>2 DEF Fields
    <2> HIDE DEF f
    <2>3. FrameOK(f)
      BY <1>2, <2>1, <2>2 DEF FrameOK, Holds, Session
    <2> QED BY <1>1, <1>3, <2>1, <2>2, <2>3, TopStep
  <1>5. CASE ReadCommand
    <2> DEFINE f == [Top EXCEPT !.pc = "command", !.pos = LineEnd + 1, !.line = Body,
                          !.len = Len(Body), !.cl = CommandLength,
                          !.buf = [Stored(@, Body) EXCEPT ![Len(Body)] = "NUL"],
                          !.sp = IF port = "riscv64" THEN 16 ELSE 0]
    <2>1. SetTop(f) /\ Top.pc = "read"
      BY <1>5 DEF ReadCommand, At
    <2>2. DOMAIN f = Fields /\ f.pc = "command" /\ f.held = Top.held
      BY <1>2 DEF Fields
    <2> HIDE DEF f
    <2>3. FrameOK(f)
      BY <1>2, <2>1, <2>2 DEF FrameOK, Holds
    <2> QED BY <1>1, <1>3, <2>1, <2>2, <2>3, TopStep
  <1>6. CASE SkipLine
    <2> DEFINE f == [Top EXCEPT !.pos = LineEnd + 1, !.buf = Stored(@, Body)]
    <2>1. SetTop(f) /\ Top.pc = "read"
      BY <1>6 DEF SkipLine, At
    <2>2. DOMAIN f = Fields /\ f.pc = Top.pc /\ f.held = Top.held /\ f.sp = Top.sp
      BY <1>2 DEF Fields
    <2> HIDE DEF f
    <2>3. FrameOK(f)
      BY <1>2, <2>1, <2>2 DEF FrameOK, Holds
    <2> QED BY <1>1, <1>3, <2>1, <2>2, <2>3, TopStep
  <1>7. CASE EndOfScript
    <2> DEFINE f == [Top EXCEPT !.pc = "exit", !.code = 0]
    <2>1. SetTop(f) /\ Top.pc = "read"
      BY <1>7 DEF EndOfScript, At
    <2>2. /\ DOMAIN f = Fields /\ f.pc = "exit" /\ f.code = 0
          /\ f.held = Top.held /\ f.sp = Top.sp
      BY <1>2 DEF Fields
    <2> HIDE DEF f
    <2>3. FrameOK(f)
      BY <1>2, <2>1, <2>2 DEF FrameOK, Holds
    <2> QED BY <1>1, <1>3, <2>1, <2>2, <2>3, TopStep
  <1>8. CASE OpenExecutable
    <2> DEFINE f == [Top EXCEPT !.pc = "load", !.held = @ \cup {"fcmd"}, !.buf[Top.cl] = "SP"]
    <2>1. SetTop(f) /\ Top.pc = "command"
      BY <1>8 DEF OpenExecutable, At
    <2>2. DOMAIN f = Fields /\ f.pc = "load" /\ f.held = Top.held \cup {"fcmd"}
      BY <1>2 DEF Fields
    <2> HIDE DEF f
    <2>3. FrameOK(f)
      BY <1>2, <2>1, <2>2 DEF FrameOK, Holds
    <2> QED BY <1>1, <1>3, <2>1, <2>2, <2>3, TopStep
  <1>9. CASE LoadImage
    <2> DEFINE f == [Top EXCEPT !.pc = "start", !.held = @ \ {"fcmd"}]
    <2>1. SetTop(f) /\ Top.pc = "load"
      BY <1>9 DEF LoadImage, At
    <2>2. DOMAIN f = Fields /\ f.pc = "start" /\ f.held = Top.held \ {"fcmd"}
      BY <1>2 DEF Fields
    <2> HIDE DEF f
    <2>3. FrameOK(f)
      BY <1>2, <2>1, <2>2 DEF FrameOK, Holds, Session
    <2> QED BY <1>1, <1>3, <2>1, <2>2, <2>3, TopStep
  <1>10. CASE NextCommand
    <2> DEFINE f == [Top EXCEPT !.pc = "read", !.sp = 0]
    <2>1. SetTop(f) /\ Top.pc = "returned"
      BY <1>10 DEF NextCommand, At
    <2>2. DOMAIN f = Fields /\ f.pc = "read" /\ f.held = Top.held /\ f.sp = 0
      BY <1>2 DEF Fields
    <2> HIDE DEF f
    <2>3. FrameOK(f)
      BY <1>2, <2>1, <2>2 DEF FrameOK, Holds
    <2> QED BY <1>1, <1>3, <2>1, <2>2, <2>3, TopStep
  <1> QED BY <1>4, <1>5, <1>6, <1>7, <1>8, <1>9, <1>10

(* A missing program and a program that failed: print_error gives the      *)
(* stack back and keeps the code.                                          *)
LEMMA FailKeeps ==
  ASSUME KaemInv, depth > 1, Top.pc \in {"command", "returned"},
         NEW code, ErrorCode(code) # 0, Fails(code), failed' \in BOOLEAN,
         TempsLost \/ failed', leaked' = leaked, port' = port
  PROVE  KaemInv'
  <1> DEFINE f == [Top EXCEPT !.pc = "exit", !.code = ErrorCode(code), !.sp = 0]
  <1>1. DOMAIN Top = Fields /\ FrameOK(Top)
    BY TopFacts
  <1>2. SetTop(f)
    BY DEF Fails
  <1>3. /\ DOMAIN f = Fields /\ f.pc = "exit" /\ f.code = ErrorCode(code)
        /\ f.held = Top.held /\ f.sp = 0
    BY <1>1 DEF Fields
  <1> HIDE DEF f
  <1>4. FrameOK(f)
    BY <1>1, <1>3 DEF FrameOK, Holds
  <1>5. TempsLost \/ (failed' <=> Reports(f))
    BY <1>3 DEF Reports
  <1> QED BY <1>2, <1>3, <1>4, <1>5, TopStep

(* The program of a line runs: a tool leaves its exit code in the frame,   *)
(* another kaem gets a frame of its own while this one waits.              *)
LEMMA StartToolKeeps == ASSUME KaemInv, StartTool PROVE KaemInv'
  <1>1. depth > 1 /\ leaked' = leaked /\ port' = port /\ Top.pc = "start"
    BY DEF StartTool, At
  <1>2. DOMAIN Top = Fields /\ FrameOK(Top)
    BY <1>1, TopFacts
  <1>0. (TempsLost \/ ~failed) /\ failed \in BOOLEAN
    BY <1>1 DEF KaemInv, FailureKnown, Reports
  <1>3. PICK code : /\ SetTop([Top EXCEPT !.pc = "returned", !.code = code])
                    /\ failed' \in BOOLEAN /\ (TempsLost \/ (failed' <=> code # 0))
    <2>1. CASE \E code \in Codes :
                 /\ SetTop([Top EXCEPT !.pc = "returned", !.code = code])
                 /\ failed' = TRUE
      BY <2>1
    <2>2. CASE /\ SetTop([Top EXCEPT !.pc = "returned", !.code = 0])
               /\ failed' = failed
      BY <1>0, <2>2
    <2> QED BY <2>1, <2>2 DEF StartTool
  <1> DEFINE f == [Top EXCEPT !.pc = "returned", !.code = code]
  <1>4. /\ DOMAIN f = Fields /\ f.pc = "returned" /\ f.code = code
        /\ f.held = Top.held
    BY <1>2 DEF Fields
  <1>5. SetTop(f)
    BY <1>3
  <1> HIDE DEF f
  <1>6. FrameOK(f)
    BY <1>1, <1>2, <1>4 DEF FrameOK, Holds
  <1>8. failed' \in BOOLEAN /\ (TempsLost \/ (failed' <=> Reports(f)))
    BY <1>3, <1>4 DEF Reports
  <1> QED BY <1>1, <1>4, <1>5, <1>6, <1>8, TopStep

(* A line that starts a kaem: its frame begins with nothing held.          *)
LEMMA StartKaemKeeps == ASSUME KaemInv, StartKaem PROVE KaemInv'
  <1>1. depth > 1 /\ leaked' = leaked /\ failed' = failed /\ Top.pc = "start"
    BY DEF StartKaem, At
  <1>2. DOMAIN Top = Fields /\ FrameOK(Top) /\ depth \in Nat
    BY <1>1, TopFacts
  <1> DEFINE f == [Top EXCEPT !.pc = "waits"]
  <1>3. frames' = Append([frames EXCEPT ![depth] = f], NewFrame)
    BY DEF StartKaem, Top
  <1>4. DOMAIN f = Fields /\ f.pc = "waits" /\ f.held = Top.held
    BY <1>2 DEF Fields
  <1>5. /\ DOMAIN NewFrame = Fields /\ NewFrame.pc = "entry" /\ NewFrame.held = {}
        /\ NewFrame.sp = 0
    BY DEF NewFrame, Fields
  <1> HIDE DEF f
  <1>6. /\ IsStack' /\ depth' = depth + 1
        /\ frames'[depth + 1] = NewFrame /\ frames'[depth] = f
        /\ \A n \in 1 .. depth - 1 : frames'[n] = frames[n]
    BY <1>3, <1>4, <1>5, PushFacts DEF KaemInv
  <1>7. ASSUME NEW n \in 2 .. depth + 1 PROVE FrameOK(frames'[n])
    <2>1. CASE n = depth + 1
      BY <1>5, <1>6, <2>1 DEF FrameOK, Holds
    <2>2. CASE n = depth
      BY <1>1, <1>2, <1>4, <1>6, <2>2 DEF FrameOK, Holds
    <2>3. CASE n < depth
      BY <1>2, <1>6, <2>3 DEF KaemInv
    <2> QED BY <1>2, <2>1, <2>2, <2>3
  <1>8. OneRuns'
    <2>1. \A n \in 1 .. depth : n = depth \/ n \in 1 .. depth - 1
      BY <1>2
    <2>2. depth' - 1 = depth /\ depth' # 1 /\ Top' = NewFrame
      BY <1>1, <1>2, <1>6 DEF Top
    <2>3. \A n \in 1 .. depth - 1 : frames'[n].pc = "waits"
      BY <1>6 DEF KaemInv, OneRuns
    <2> QED BY <1>4, <1>5, <1>6, <2>1, <2>2, <2>3 DEF OneRuns
  <1>9. FailureKnown' /\ NothingLeaks'
    <2>1. TempsLost \/ ~failed
      BY <1>1 DEF KaemInv, FailureKnown, Reports
    <2>2. ~Reports(Top')
      BY <1>5, <1>6 DEF Top, Reports
    <2>3. port' = port
      BY DEF StartKaem
    <2> QED BY <1>1, <2>1, <2>2, <2>3 DEF FailureKnown, TempsLost, Reports, KaemInv, NothingLeaks
  <1> QED BY <1>1, <1>6, <1>7, <1>8, <1>9 DEF KaemInv, FrameOK, Holds, Session

(* The two ways out of kaem.                                               *)
LEMMA NoScriptKeeps == ASSUME KaemInv, NoScript PROVE KaemInv'
  <1>1. /\ depth > 1 /\ failed' = TRUE /\ port' = port
        /\ ReturnToParent(ErrorCode(NotFound))
    BY DEF NoScript, At
  <1>2. ErrorCode(NotFound) # 0
    BY DEF ErrorCode, NotFound
  <1>3. NothingLeaks'
    BY DEF NoScript, KaemInv, NothingLeaks
  <1> QED BY <1>1, <1>2, <1>3, ReturnStep

(* The exit gives back what the run took and hands on the code.            *)
LEMMA ExitKeeps == ASSUME KaemInv, Exit PROVE KaemInv'
  <1>1. /\ depth > 1 /\ failed' = failed /\ Top.pc = "exit" /\ failed \in BOOLEAN
        /\ port' = port
    BY DEF Exit, At, KaemInv
  <1>2. FrameOK(Top)
    BY <1>1, TopFacts
  <1>3. Top.sp = 0 /\ Top.held = Session
    BY <1>1, <1>2 DEF FrameOK, Holds
  <1>4. ReturnToParent(Top.code)
    BY <1>3 DEF Exit
  <1>5. NothingLeaks'
    BY <1>3 DEF Exit, KaemInv, NothingLeaks, Cleaned, Session
  <1>6. TempsLost \/ (failed <=> Top.code # 0)
    BY <1>1 DEF KaemInv, FailureKnown, Reports
  <1> QED BY <1>1, <1>4, <1>5, <1>6, ReturnStep

-----------------------------------------------------------------------------
(* One case per action. *)
LEMMA StepKaem == KaemInv /\ [Next]_vars => KaemInv'
  <1> SUFFICES ASSUME KaemInv, [Next]_vars PROVE KaemInv'
    OBVIOUS
  <1>1. CASE UNCHANGED <<port, frames, failed, leaked>>
    BY <1>1 DEF KaemInv, IsStack, OneRuns, FrameOK, Holds, FailureKnown, TempsLost, Reports,
                NothingLeaks, Top, depth, Session
  <1>2. CASE OpenVolume
    BY <1>2, OpenVolumeKeeps
  <1>3. CASE NoScript
    BY <1>3, NoScriptKeeps
  <1>4. CASE \/ OpenScript \/ ReadCommand \/ SkipLine \/ EndOfScript
             \/ OpenExecutable \/ LoadImage \/ NextCommand
    BY <1>4, LineKeeps
  <1>5. CASE NoExecutable
    <2>1. ErrorCode(NotFound) # 0
      BY DEF ErrorCode, NotFound
    <2> QED BY <1>5, <2>1, FailKeeps DEF NoExecutable, At
  <1>6. CASE ChildFailed
    <2>1. /\ depth > 1 /\ Top.pc = "returned" /\ failed' = failed
          /\ leaked' = leaked /\ port' = port
      BY <1>6 DEF ChildFailed, At
    <2>2. PICK code \in TestedCodes : code # 0 /\ Fails(code)
      BY <1>6 DEF ChildFailed
    <2>3. failed' \in BOOLEAN /\ (TempsLost \/ failed')
      BY <2>1, <2>2 DEF KaemInv, FailureKnown, Reports, TestedCodes
    <2>4. ErrorCode(code) # 0
      BY <2>2 DEF ErrorCode
    <2> QED BY <2>1, <2>2, <2>3, <2>4, FailKeeps
  <1>7. CASE StartTool
    BY <1>7, StartToolKeeps
  <1>8. CASE StartKaem
    BY <1>8, StartKaemKeeps
  <1>9. CASE Exit
    BY <1>9, ExitKeeps
  <1> QED BY <1>1, <1>2, <1>3, <1>4, <1>5, <1>6, <1>7, <1>8, <1>9
       DEF Next, vars, HangInComment, ReadGarbage, LoadBlindly

(* The invariant holds in every reachable state, on every disk.            *)
THEOREM KaemAlways == Spec => []KaemInv
  BY InitKaem, StepKaem, PTL DEF Spec

(* A kaem that had a script gives back all it opened or allocated.         *)
THEOREM NothingLeaksTheorem == Spec => []NothingLeaks
  <1>1. KaemInv => NothingLeaks
    BY DEF KaemInv
  <1> QED BY <1>1, KaemAlways, PTL

(* Whatever waits in the nest holds its session and no more.               *)
THEOREM OnlySessionsWaitTheorem == Spec => []OnlySessionsWait
  <1>1. KaemInv => OnlySessionsWait
    BY DEF KaemInv, OnlySessionsWait, FrameOK, Holds
  <1> QED BY <1>1, KaemAlways, PTL

(* The stack pointer is on its frame wherever kaem leaves from.            *)
THEOREM StackBalancedTheorem == Spec => []StackBalanced
  <1>1. KaemInv => StackBalanced
    BY TopFacts DEF StackBalanced, At, FrameOK
  <1> QED BY <1>1, KaemAlways, PTL

(* The firmware is told of a failure exactly when there was one: on both   *)
(* other ports always, on riscv64 if the firmware leaves t3 alone.         *)
THEOREM ErrorsPropagateTheorem == Spec => []ErrorsPropagate
  <1>1. KaemInv => ErrorsPropagate
    BY DEF KaemInv, ErrorsPropagate, FailureKnown, Reports, OneRuns, Top
  <1> QED BY <1>1, KaemAlways, PTL
-----------------------------------------------------------------------------
(* Lines, scripts and options *)

Places == {"entry", "script", "read", "command", "load", "start", "waits", "returned", "exit"}

(* The registers and the command buffer of a frame.                        *)
FrameTyped(f) ==
    /\ f.pc \in Places
    /\ f.len \in 0 .. BufSize - 1 /\ f.cl \in 0 .. f.len
    /\ f.code \in Nat /\ f.sp \in {0, 16}
    /\ DOMAIN f.buf = 0 .. BufSize - 1

(* In a plain text kaem stands where a line starts, and leaves without a   *)
(* failure only at its end.                                                *)
InScript(f, text) ==
    Plain(text) => /\ StartsLine(text, f.pos)
                   /\ f.pc = "exit" /\ f.code = 0 => f.pos = Len(text) + 1

(* A kaem that has a script stands in it; one that was given a program for *)
(* a script has not read from it.                                          *)
Reads(f, d) ==
    \/ f.pos = 1 /\ f.pc \in {"entry", "script"}
    \/ f.pos = 1 /\ f.pc = "read" /\ f.script \in DOMAIN d
    \/ /\ f.pc \notin {"entry", "script"}
       /\ f.script \in DOMAIN d /\ d[f.script].kind = "data"
       /\ f.pos \in 1 .. Len(d[f.script].text) + 1
       /\ InScript(f, d[f.script].text)

(* Until the program of a line with arguments is started, the buffer has   *)
(* the whole line, and its name ends at the space that is put back.        *)
Whole(f) ==
    f.pc \in {"command", "load", "start"} /\ HasArguments(f.line) =>
        /\ f.line \in Seq(STRING) /\ Len(f.line) = f.len
        /\ f.cl < f.len /\ f.line[f.cl + 1] = "SP"
        /\ \A k \in 0 .. f.len - 1 : f.buf[k] = f.line[k + 1]
        /\ f.buf[f.len] = "NUL"

DiskOK(d) ==
    \A name \in DOMAIN d :
        d[name] \in File /\ (d[name].kind = "data" => name \notin Outputs)

LineInv ==
    /\ status \in {"running", "undefined", "hung"}
    /\ leaked \subseteq {"script", "no script"} \X Session
    /\ DiskOK(disk)
    /\ frames[1].held = {}
    /\ \A n \in 1 .. depth : FrameTyped(frames[n])
    /\ \A n \in 2 .. depth : Reads(frames[n], disk) /\ Whole(frames[n])
    /\ \E S : started \in Seq(S)
    /\ OptionsComplete

(* What a program writes is a file, and replaces no script.                *)
DiskKept ==
    /\ DiskOK(disk')
    /\ \A name \in DOMAIN disk :
         name \in DOMAIN disk' /\ (disk[name].kind = "data" => disk'[name] = disk[name])

LEMMA ReadsKept ==
  ASSUME DiskKept, NEW f, Reads(f, disk)
  PROVE  Reads(f, disk')
  BY DEF DiskKept, Reads

LEMMA DiskSame == LineInv /\ UNCHANGED disk => DiskKept
  BY DEF LineInv, DiskKept

(* What the other variables of a step may do.                              *)
RestKept ==
    /\ status' \in {"running", "undefined", "hung"}
    /\ leaked' \subseteq {"script", "no script"} \X Session
    /\ \E S : started' \in Seq(S)
    /\ OptionsComplete'

LEMMA RestSame ==
  ASSUME LineInv, UNCHANGED <<status, leaked, started>>
  PROVE  RestKept
  BY DEF LineInv, RestKept, OptionsComplete

(* The invariant holds after a step if its parts do.                       *)
LEMMA LinePrimed ==
  ASSUME RestKept, DiskOK(disk'), frames'[1].held = {},
         \A n \in 1 .. depth' : FrameTyped(frames'[n]),
         \A n \in 2 .. depth' : Reads(frames'[n], disk') /\ Whole(frames'[n])
  PROVE  LineInv'
  BY DEF LineInv, RestKept, FrameTyped, Places, Reads, InScript, Plain, PlainLine, LineAt, Feed,
         FindFrom, AtEnd, StartsLine, Last, Contains, Whole, HasArguments, DiskOK, File, Session

(* Steps of the top frame.                                                 *)
LEMMA TopLine ==
  ASSUME KaemInv, LineInv, depth > 1, NEW f, DOMAIN f = Fields, SetTop(f),
         FrameTyped(f), Reads(f, disk'), Whole(f), DiskKept, RestKept
  PROVE  LineInv'
  <1>1. /\ depth \in Nat /\ depth' = depth /\ Top' = f
        /\ \A n \in 1 .. depth - 1 : frames'[n] = frames[n]
    BY SetTopFacts DEF KaemInv
  <1>2. /\ \A n \in 1 .. depth : n = depth \/ n \in 1 .. depth - 1
        /\ \A n \in 2 .. depth : n = depth \/ n \in 1 .. depth - 1
    BY <1>1
  <1>3. frames'[depth] = f
    BY <1>1 DEF Top
  <1>4. \A n \in 1 .. depth' : FrameTyped(frames'[n])
    BY <1>1, <1>2, <1>3 DEF LineInv
  <1>5. \A n \in 2 .. depth' : Reads(frames'[n], disk') /\ Whole(frames'[n])
    BY <1>1, <1>2, <1>3, ReadsKept DEF LineInv
  <1>6. frames'[1].held = {}
    <2>1. frames[1].held = {}
      BY DEF LineInv
    <2>2. 1 \in 1 .. depth - 1
      BY <1>1
    <2> QED BY <1>1, <2>1, <2>2
  <1> QED BY <1>4, <1>5, <1>6, LinePrimed DEF DiskKept

(* Returns.                                                                *)
LEMMA ReturnLine ==
  ASSUME KaemInv, LineInv, depth > 1, NEW code \in Nat, ReturnToParent(code), DiskKept, RestKept
  PROVE  LineInv'
  <1>1. /\ depth \in Nat /\ depth' = depth - 1
        /\ Top' = [frames[depth - 1] EXCEPT !.pc = "returned", !.code = code]
        /\ \A n \in 1 .. depth - 2 : frames'[n] = frames[n]
    BY ReturnFacts DEF KaemInv
  <1>2. /\ depth - 1 \in 1 .. depth /\ depth - 1 \in 1 .. depth - 1
        /\ DOMAIN frames[depth - 1] = Fields /\ frames[depth - 1].pc = "waits"
    BY <1>1 DEF KaemInv, OneRuns, IsStack
  <1> DEFINE e == frames[depth - 1]
             f == [e EXCEPT !.pc = "returned", !.code = code]
  <1>3. /\ f.pc = "returned" /\ f.code = code /\ f.held = e.held /\ f.len = e.len
        /\ f.cl = e.cl /\ f.sp = e.sp /\ f.buf = e.buf /\ f.script = e.script /\ f.pos = e.pos
    BY <1>2 DEF Fields
  <1>4. frames'[depth - 1] = f
    BY <1>1 DEF Top
  <1>0. FrameTyped(e) /\ e.pc = "waits"
    BY <1>2 DEF LineInv
  <1> HIDE DEF f, e
  <1>5. FrameTyped(f)
    BY <1>0, <1>3 DEF FrameTyped, Places
  <1>6. ASSUME NEW n \in 1 .. depth - 1
        PROVE  FrameTyped(frames'[n])
    <2>1. n = depth - 1 \/ n \in 1 .. depth - 2
      BY <1>1
    <2>2. n \in 1 .. depth
      BY <1>1
    <2> QED BY <1>1, <1>4, <1>5, <2>1, <2>2 DEF LineInv
  <1>7. ASSUME NEW n \in 2 .. depth - 1
        PROVE  Reads(frames'[n], disk') /\ Whole(frames'[n])
    <2>1. n = depth - 1 \/ n \in 1 .. depth - 2
      BY <1>1
    <2>2. n \in 2 .. depth
      BY <1>1
    <2>3. Reads(frames[n], disk') /\ Whole(frames[n])
      BY <2>2, ReadsKept DEF LineInv
    <2>4. CASE n = depth - 1
      BY <1>0, <1>3, <1>4, <2>3, <2>4 DEF Reads, InScript, Whole, e
    <2> QED BY <1>1, <2>1, <2>3, <2>4
  <1>8. frames'[1].held = {}
    <2>1. CASE depth - 1 = 1
      BY <1>3, <1>4, <2>1 DEF LineInv, e
    <2>2. CASE depth - 1 # 1
      <3>1. frames[1].held = {}
        BY DEF LineInv
      <3>2. 1 \in 1 .. depth - 2
        BY <1>1, <2>2
      <3> QED BY <1>1, <3>1, <3>2
    <2> QED BY <2>1, <2>2
  <1> QED BY <1>1, <1>6, <1>7, <1>8, LinePrimed DEF DiskKept

(* What holds of the top frame when its kaem runs.                         *)
LEMMA TopLineFacts ==
  ASSUME KaemInv, LineInv, depth > 1
  PROVE  /\ depth \in Nat /\ DOMAIN Top = Fields /\ FrameOK(Top)
         /\ FrameTyped(Top) /\ Reads(Top, disk) /\ Whole(Top)
  <1>1. DOMAIN Top = Fields /\ FrameOK(Top) /\ depth \in Nat
    BY TopFacts
  <1>2. depth \in 1 .. depth /\ depth \in 2 .. depth
    BY <1>1
  <1> QED BY <1>1, <1>2 DEF LineInv, Top

(* What is read of a script: the searches stay in it, and the name of a    *)
(* line with arguments ends at a space of it.                              *)
LEMMA LineFacts ==
  ASSUME KaemInv, LineInv, At("read"), disk[Top.script].kind = "data"
  PROVE  /\ Body \in Seq(STRING) /\ Len(Body) \in Nat
         /\ LineEnds => LineEnd + 1 \in 1 .. Len(Text) + 1
         /\ CommandLength \in 0 .. Len(Body)
         /\ HasArguments(Body) =>
              CommandLength < Len(Body) /\ Body[CommandLength + 1] = "SP"
  <1>1. depth > 1 /\ Top.pc = "read" /\ depth \in Nat /\ Reads(Top, disk)
    BY TopLineFacts DEF At
  <1>2. Top.script \in DOMAIN disk
    BY <1>1 DEF Reads
  <1>3. disk[Top.script].text \in Seq(STRING)
    BY <1>2 DEF LineInv, DiskOK, File
  <1>4. Text \in Seq(STRING) /\ Len(Text) \in Nat /\ \A r \in 1 .. Len(Text) : Text[r] \in STRING
    BY <1>3, LenProperties, ElementOfSeq DEF Text
  <1>5. Top.pos \in 1 .. Len(Text) + 1
    BY <1>1, <1>4 DEF Reads, Text
  <1>6. LineStop \in Top.pos .. Len(Text) + 1
    BY <1>4, <1>5, FindFromFacts DEF LineStop
  <1>7. Body \in Seq(STRING) /\ Len(Body) \in Nat
    <2>1. \A r \in Top.pos .. LineStop - 1 : Text[r] \in STRING
      BY <1>4, <1>5, <1>6
    <2>2. Top.pos \in Int /\ LineStop - 1 \in Int
      BY <1>5, <1>6
    <2>3. SubSeq(Text, Top.pos, LineStop - 1) \in Seq(STRING)
      BY <2>1, <2>2, SubSeqProperties
    <2> QED BY <2>3, LenProperties DEF Body
  <1>8. LineEnds => LineEnd + 1 \in 1 .. Len(Text) + 1
    <2>1. LineStop \in 1 .. Len(Text) + 1
      BY <1>5, <1>6
    <2>2. Commented => LineStop + 1 \in 1 .. Len(Text) + 1
      BY <1>4, <2>1 DEF Commented, AtEnd
    <2>3. LineEnd \in 1 .. Len(Text) + 1
      <3>1. CASE ~Commented
        <4>1. LineEnd = LineStop
          BY <3>1 DEF LineEnd
        <4> QED BY <2>1, <4>1
      <3>2. CASE Commented
        <4>1. FindFrom(Text, LineStop + 1, CommentEnds) \in LineStop + 1 .. Len(Text) + 1
          BY <1>4, <2>2, <3>2, FindFromFacts
        <4>2. LineEnd \in LineStop + 1 .. Len(Text) + 1
          BY <3>2, <4>1 DEF LineEnd
        <4> QED BY <1>4, <2>1, <4>2
      <3> QED BY <3>1, <3>2
    <2> QED BY <1>4, <2>3 DEF LineEnds, AtEnd
  <1> DEFINE q == FindFrom(Body, 2, {"SP"})
  <1>9. Len(Body) >= 2 => /\ q \in 2 .. Len(Body) + 1
                          /\ AtEnd(Body, q) \/ Body[q] = "SP"
                          /\ \A r \in 2 .. q - 1 : Body[r] # "SP"
    <2>1. Len(Body) >= 2 => 2 \in 1 .. Len(Body) + 1
      BY <1>7
    <2> QED BY <1>7, <2>1, FindFromFacts
  <1>10. FirstSpace = IF Len(Body) < 2 \/ AtEnd(Body, q) THEN 0 ELSE q - 1
    BY DEF FirstSpace
  <1> HIDE DEF q
  <1>11. FirstSpace \in 0 .. Len(Body)
    BY <1>7, <1>9, <1>10 DEF AtEnd
  <1>12. CommandLength \in 0 .. Len(Body)
    BY <1>7, <1>11 DEF CommandLength
  <1>13. ASSUME HasArguments(Body)
         PROVE  CommandLength < Len(Body) /\ Body[CommandLength + 1] = "SP"
    <2>1. PICK k \in 2 .. Len(Body) : Body[k] = "SP"
      BY <1>13 DEF HasArguments
    <2>2. Len(Body) >= 2 /\ ~ AtEnd(Body, q)
      BY <1>7, <1>9, <2>1 DEF AtEnd
    <2>3. FirstSpace = q - 1 /\ q \in 2 .. Len(Body) /\ Body[q] = "SP"
      BY <1>7, <1>9, <1>10, <2>2 DEF AtEnd
    <2>4. CommandLength = q - 1
      BY <2>3 DEF CommandLength
    <2> QED BY <1>7, <2>3, <2>4
  <1> QED BY <1>7, <1>8, <1>12, <1>13

(* A search ends where a first character that it looks for is known.       *)
LEMMA FindFromIs ==
  ASSUME NEW s, Len(s) \in Nat, NEW p \in 1 .. Len(s) + 1, NEW Stop,
         NEW q \in p .. Len(s) + 1, AtEnd(s, q) \/ s[q] \in Stop,
         \A r \in p .. q - 1 : s[r] \notin Stop
  PROVE  FindFrom(s, p, Stop) = q
  <1> DEFINE f == FindFrom(s, p, Stop)
  <1>1. f \in p .. Len(s) + 1
    BY FindFromFacts
  <1>2. AtEnd(s, f) \/ s[f] \in Stop
    BY FindFromFacts
  <1>3. \A r \in p .. f - 1 : s[r] \notin Stop
    BY FindFromFacts
  <1>4. f \in Int /\ q \in Int /\ p \in Int
    BY <1>1
  <1>5. ASSUME f < q PROVE FALSE
    <2>1. f \in p .. q - 1 /\ f <= Len(s)
      BY <1>1, <1>4, <1>5
    <2>2. s[f] \notin Stop
      BY <2>1
    <2>3. ~ AtEnd(s, f)
      BY <1>4, <2>1 DEF AtEnd
    <2> QED BY <1>2, <2>2, <2>3
  <1>6. ASSUME q < f PROVE FALSE
    <2>1. q \in p .. f - 1 /\ q <= Len(s)
      BY <1>1, <1>4, <1>6
    <2>2. s[q] \notin Stop
      BY <1>3, <2>1
    <2>3. ~ AtEnd(s, q)
      BY <1>4, <2>1 DEF AtEnd
    <2> QED BY <2>2, <2>3
  <1> HIDE DEF f
  <1>7. f = q
    BY <1>4, <1>5, <1>6
  <1> QED BY <1>7 DEF f

(* Where a line starts in a plain text, a whole line is read, and it is    *)
(* run exactly if it is neither blank nor a comment.                       *)
LEMMA PlainFacts ==
  ASSUME KaemInv, LineInv, At("read"), disk[Top.script].kind = "data", Plain(Text)
  PROVE  /\ Text \in Seq(STRING) /\ Len(Text) \in Nat /\ Top.pos \in 1 .. Len(Text) + 1
         /\ LineEnds <=> Top.pos # Len(Text) + 1
         /\ LineEnds =>
              /\ ~AtEnd(Text, Feed(Text, Top.pos)) /\ LineEnd = Feed(Text, Top.pos)
              /\ StartsLine(Text, LineEnd + 1)
              /\ Runs <=> Text[Top.pos] \notin {"LF", "#"}
              /\ Runs => Body = LineAt(Text, Top.pos)
         /\ ~LineEnds => ~Commented
  <1> DEFINE p == Top.pos
             q == Feed(Text, p)
             line == LineAt(Text, p)
  <1>1. depth > 1 /\ Top.pc = "read" /\ Reads(Top, disk)
    BY TopLineFacts DEF At
  <1>2. Top.script \in DOMAIN disk
    BY <1>1 DEF Reads
  <1>3. Text \in Seq(STRING)
    BY <1>2 DEF LineInv, DiskOK, File, Text
  <1>4. Len(Text) \in Nat /\ DOMAIN Text = 1 .. Len(Text)
    BY <1>3, LenProperties
  <1>5. p \in 1 .. Len(Text) + 1 /\ StartsLine(Text, p)
    <2>1. CASE Top.pos = 1
      BY <1>4, <2>1 DEF StartsLine
    <2>2. CASE Top.pos # 1
      <3>1. /\ Top.pos \in 1 .. Len(disk[Top.script].text) + 1
            /\ InScript(Top, disk[Top.script].text)
        BY <1>1, <2>2 DEF Reads
      <3> QED BY <3>1 DEF InScript, Text
    <2> QED BY <2>1, <2>2
  <1> HIDE DEF p
  <1>6. CASE p = Len(Text) + 1
    <2>1. AtEnd(Text, p) /\ \A r \in p .. p - 1 : FALSE
      BY <1>4, <1>6 DEF AtEnd
    <2>2. LineStop = p
      <3>1. FindFrom(Text, p, {"LF", "#"}) = p
        <4>1. p \in p .. Len(Text) + 1
          BY <1>4, <1>5
        <4>2. \A r \in p .. p - 1 : Text[r] \notin {"LF", "#"}
          BY <2>1
        <4> QED BY <1>4, <1>5, <2>1, <4>1, <4>2, FindFromIs
      <3>2. LineStop = FindFrom(Text, p, {"LF", "#"})
        BY DEF LineStop, p
      <3> QED BY <3>1, <3>2
    <2>3. ~Commented
      BY <2>1, <2>2 DEF Commented
    <2>4. ~LineEnds
      BY <2>1, <2>2, <2>3 DEF LineEnd, LineEnds
    <2> QED BY <1>3, <1>4, <1>5, <1>6, <2>3, <2>4 DEF p
  <1>7. CASE p # Len(Text) + 1
    <2>1. /\ p \in 1 .. Len(Text) /\ Len(Text) \in p .. Len(Text)
          /\ Len(Text) \in Int /\ p \in Int
      BY <1>4, <1>5, <1>7
    <2>0. Text # << >>
      <3>1. Len(Text) # 0
        BY <2>1
      <3> QED BY <3>1
    <2>2. Text[Len(Text)] = "LF" /\ PlainLine(line)
      BY <1>4, <1>5, <2>0, <2>1 DEF Plain, Last
    <2>3. /\ q \in p .. Len(Text) + 1
          /\ \A r \in p .. q - 1 : Text[r] # "LF"
      BY <1>4, <1>5, FindFromFacts DEF Feed
    <2>10. AtEnd(Text, q) \/ Text[q] = "LF"
      BY <1>4, <1>5, FindFromFacts DEF Feed
    <2> HIDE DEF q, line
    <2>4. q \in p .. Len(Text) /\ ~ AtEnd(Text, q) /\ Text[q] = "LF"
      <3>1. q # Len(Text) + 1
        <4> SUFFICES ASSUME q = Len(Text) + 1 PROVE FALSE
          OBVIOUS
        <4>1. Len(Text) \in p .. q - 1
          BY <1>4, <2>1
        <4> QED BY <2>2, <2>3, <4>1
      <3>2. q \in p .. Len(Text) /\ ~ AtEnd(Text, q)
        BY <1>4, <2>1, <2>3, <3>1 DEF AtEnd
      <3> QED BY <2>10, <3>2
    <2>5. /\ line \in Seq(STRING) /\ Len(line) = q - p
          /\ \A i \in 1 .. q - p : line[i] = Text[p + i - 1]
      <3>1. \A r \in p .. q - 1 : Text[r] \in STRING
        BY <1>3, <1>4, <2>1, <2>4, ElementOfSeq
      <3>2. p \in Int /\ q - 1 \in Int
        BY <2>1, <2>4
      <3>3. /\ SubSeq(Text, p, q - 1) \in Seq(STRING)
            /\ Len(SubSeq(Text, p, q - 1)) = IF p <= q - 1 THEN q - 1 - p + 1 ELSE 0
            /\ \A i \in 1 .. q - 1 - p + 1 : SubSeq(Text, p, q - 1)[i] = Text[p + i - 1]
        BY <3>1, <3>2, SubSeqProperties
      <3>4. line = SubSeq(Text, p, q - 1)
        BY DEF line, q, LineAt
      <3> QED BY <2>1, <2>4, <3>3, <3>4
    <2>6. \A r \in p .. q - 1 : \E i \in 1 .. Len(line) : line[i] = Text[r]
      <3> SUFFICES ASSUME NEW r \in p .. q - 1
                   PROVE  \E i \in 1 .. Len(line) : line[i] = Text[r]
        OBVIOUS
      <3>1. r - p + 1 \in 1 .. q - p /\ p + (r - p + 1) - 1 = r
        BY <2>1, <2>4
      <3> QED BY <2>5, <3>1
    <2>7. StartsLine(Text, q + 1)
      BY <2>1, <2>4 DEF StartsLine
    <2>8. CASE line = << >> \/ (line[1] = "#" /\ ~Contains(line, "CR"))
      <3>1. Text[p] \in {"LF", "#"}
        <4>1. CASE line = << >>
          <5>1. q = p
            BY <2>1, <2>4, <2>5, <4>1, EmptySeq
          <5> QED BY <2>4, <5>1
        <4>2. CASE line # << >> /\ line[1] = "#"
          <5>1. 1 \in 1 .. q - p /\ p + 1 - 1 = p
            BY <2>1, <2>4, <2>5, <4>2, EmptySeq
          <5>2. line[1] = Text[p + 1 - 1]
            BY <2>5, <5>1
          <5> QED BY <4>2, <5>1, <5>2
        <4> QED BY <2>8, <4>1, <4>2
      <3>2. LineStop = p
        <4>1. p \in p .. Len(Text) + 1 /\ \A r \in p .. p - 1 : FALSE
          BY <1>4, <2>1
        <4>2. FindFrom(Text, p, {"LF", "#"}) = p
          BY <1>4, <1>5, <3>1, <4>1, FindFromIs
        <4> QED BY <4>2 DEF LineStop, p
      <3>3. ~Runs
        <4>1. p \in Int /\ p - 1 \in Int /\ p - 1 < p
          BY <2>1
        <4>2. SubSeq(Text, p, p - 1) = << >>
          BY <4>1, SubSeqEmpty
        <4>3. Body = << >>
          BY <3>2, <4>2 DEF Body, p
        <4>4. Len(Body) = 0
          BY <4>3
        <4>5. CommandLength = 0
          BY <4>4 DEF CommandLength, FirstSpace
        <4> QED BY <4>5 DEF Runs
      <3>4. LineEnd = q
        <4>1. CASE Text[p] = "LF"
          <5>1. ~Commented
            BY <3>2, <4>1 DEF Commented
          <5>2. q = p
            <6>1. p \notin p .. q - 1
              BY <2>3, <4>1
            <6> QED BY <2>1, <2>4, <6>1
          <5> QED BY <3>2, <5>1, <5>2 DEF LineEnd
        <4>2. CASE Text[p] = "#"
          <5>1. Commented
            BY <2>1, <3>2, <4>2 DEF Commented, AtEnd
          <5>2. q # p
            BY <2>4, <4>2
          <5>3. p + 1 \in 1 .. Len(Text) + 1 /\ q \in p + 1 .. Len(Text) + 1 /\ p \in p .. q - 1
            BY <2>1, <2>4, <5>2
          <5>4. line # << >>
            <6>1. Len(line) # 0
              BY <2>1, <2>4, <2>5, <5>2
            <6> QED BY <6>1
          <5>5. ~Contains(line, "CR")
            BY <2>8, <5>4
          <5>6. \A r \in p + 1 .. q - 1 : Text[r] \notin CommentEnds
            <6> SUFFICES ASSUME NEW r \in p + 1 .. q - 1
                         PROVE  Text[r] \notin {"LF", "CR"}
              BY DEF CommentEnds
            <6>1. r \in p .. q - 1
              BY <2>1, <2>4
            <6> QED BY <2>3, <2>6, <5>5, <6>1 DEF Contains
          <5>7. Text[q] \in CommentEnds
            BY <2>4 DEF CommentEnds
          <5>8. FindFrom(Text, p + 1, CommentEnds) = q
            BY <1>4, <5>3, <5>6, <5>7, FindFromIs
          <5> QED BY <3>2, <5>1, <5>8 DEF LineEnd
        <4> QED BY <3>1, <4>1, <4>2
      <3>5. LineEnds
        BY <2>4, <3>4 DEF LineEnds
      <3> QED BY <1>3, <1>4, <1>5, <1>7, <2>4, <2>7, <3>1, <3>3, <3>4, <3>5 DEF p, q
    <2>9. CASE line[1] # "SP" /\ Contains(line, "SP") /\ ~Contains(line, "#")
      <3>1. PICK i \in 1 .. Len(line) : line[i] = "SP"
        BY <2>9 DEF Contains
      <3>2. i \in 2 .. Len(line) /\ p \in p .. q - 1
        BY <2>1, <2>4, <2>5, <2>9, <3>1
      <3>3. \A r \in p .. q - 1 : Text[r] \notin {"LF", "#"}
        BY <2>3, <2>6, <2>9 DEF Contains
      <3>4. LineStop = q
        <4>1. q \in p .. Len(Text) + 1 /\ Text[q] \in {"LF", "#"}
          BY <1>4, <2>4
        <4>2. FindFrom(Text, p, {"LF", "#"}) = q
          BY <1>4, <1>5, <3>3, <4>1, FindFromIs
        <4> QED BY <4>2 DEF LineStop, p
      <3>5. ~Commented
        BY <2>4, <3>4 DEF Commented
      <3>6. LineEnd = q /\ LineEnds
        BY <2>4, <3>4, <3>5 DEF LineEnd, LineEnds
      <3>7. Body = line
        BY <3>4 DEF Body, line, LineAt, q, p
      <3>8. HasArguments(Body)
        BY <3>1, <3>2, <3>7 DEF HasArguments
      <3>9. CommandLength \in 0 .. Len(Body) /\ Body[CommandLength + 1] = "SP"
        BY <3>8, LineFacts
      <3>10. CommandLength # 0
        BY <2>9, <3>7, <3>9
      <3>11. Len(Body) \in Nat
        BY LineFacts
      <3>12. Runs
        BY <3>5, <3>6, <3>9, <3>10, <3>11 DEF Runs
      <3>13. Text[p] \notin {"LF", "#"}
        BY <3>2, <3>3
      <3> QED BY <1>3, <1>4, <1>5, <1>7, <2>4, <2>7, <3>6, <3>7, <3>12, <3>13 DEF p, q, line
    <2>11. \/ line = << >>
           \/ line[1] = "#" /\ ~Contains(line, "CR")
           \/ line[1] # "SP" /\ Contains(line, "SP") /\ ~Contains(line, "#")
      BY <2>2 DEF PlainLine, Contains
    <2> QED BY <2>8, <2>9, <2>11
  <1> QED BY <1>6, <1>7

(* A started program is logged with the line and what the buffer holds.    *)
LEMMA LogFacts ==
  ASSUME KaemInv, LineInv, At("start"), LogStart
  PROVE  (\E S : started' \in Seq(S)) /\ OptionsComplete'
  <1>1. depth > 1 /\ Top.pc = "start" /\ depth \in Nat /\ Whole(Top) /\ FrameTyped(Top)
    BY TopLineFacts DEF At
  <1> DEFINE entry == [line |-> Top.line, options |-> LoadOptions]
  <1>2. PICK S : started \in Seq(S)
    BY DEF LineInv
  <1>3. started \in Seq(S \cup {entry}) /\ started' = Append(started, entry)
    BY <1>2, SeqMonotonic DEF LogStart
  <1>4. entry.line = Top.line /\ entry.options = LoadOptions
    OBVIOUS
  <1> HIDE DEF entry
  <1>5. /\ started' \in Seq(S \cup {entry}) /\ Len(started') = Len(started) + 1
        /\ \A i \in 1 .. Len(started) : started'[i] = started[i]
        /\ started'[Len(started) + 1] = entry
    BY <1>3, AppendProperties
  <1>6. DOMAIN started = 1 .. Len(started) /\ DOMAIN started' = 1 .. Len(started) + 1 /\ Len(started) \in Nat
    <2>1. Len(started) \in Nat /\ DOMAIN started = 1 .. Len(started)
      BY <1>2, LenProperties
    <2>2. DOMAIN started' = 1 .. Len(started')
      BY <1>5, LenProperties
    <2> QED BY <1>5, <2>1, <2>2
  <1>7. HasArguments(Top.line) => LoadOptions = Append(Top.line, "NUL")
    <2> SUFFICES ASSUME HasArguments(Top.line)
                 PROVE  LoadOptions = Append(Top.line, "NUL")
      OBVIOUS
    <2> DEFINE line == Top.line
               n == Top.len
               b == [i \in 1 .. BufSize |-> Top.buf[i - 1]]
               V == STRING \cup {"NUL"}
    <2>1. /\ line \in Seq(STRING) /\ Len(line) = n /\ n \in 0 .. BufSize - 1
          /\ \A k \in 0 .. n - 1 : Top.buf[k] = line[k + 1]
          /\ Top.buf[n] = "NUL"
      BY <1>1 DEF Whole, FrameTyped
    <2>2. \A i \in 1 .. BufSize : b[i] = Top.buf[i - 1]
      OBVIOUS
    <2>3. LoadOptions = SubSeq(b, 1, n + 1)
      BY DEF LoadOptions
    <2> HIDE DEF line, n, b
    <2>4. line \in Seq(V)
      BY <2>1, SeqMonotonic
    <2>5. /\ Append(line, "NUL") \in Seq(V) /\ Len(Append(line, "NUL")) = n + 1
          /\ \A i \in 1 .. n : Append(line, "NUL")[i] = line[i]
          /\ Append(line, "NUL")[n + 1] = "NUL"
      BY <2>1, <2>4, AppendProperties
    <2>6. \A i \in 1 .. n + 1 : b[i] = Append(line, "NUL")[i]
      <3> SUFFICES ASSUME NEW i \in 1 .. n + 1
                   PROVE  b[i] = Append(line, "NUL")[i]
        OBVIOUS
      <3>1. b[i] = Top.buf[i - 1]
        BY <2>1, <2>2
      <3>2. CASE i = n + 1
        BY <2>1, <2>5, <3>1, <3>2
      <3>3. CASE i # n + 1
        <4>1. i - 1 \in 0 .. n - 1 /\ i \in 1 .. n
          BY <2>1, <3>3
        <4>2. Top.buf[i - 1] = line[i - 1 + 1]
          BY <2>1, <4>1
        <4> QED BY <2>5, <3>1, <4>1, <4>2
      <3> QED BY <3>2, <3>3
    <2>7. \A i \in 1 .. n + 1 : Append(line, "NUL")[i] \in V
      BY <2>5, ElementOfSeq
    <2>8. /\ SubSeq(b, 1, n + 1) \in Seq(V) /\ Len(SubSeq(b, 1, n + 1)) = n + 1
          /\ \A i \in 1 .. n + 1 : SubSeq(b, 1, n + 1)[i] = b[i]
      <3>1. 1 \in Int /\ n + 1 \in Int /\ 1 <= n + 1 /\ n + 1 - 1 + 1 = n + 1
        BY <2>1
      <3>2. \A i \in 1 .. n + 1 : b[i] \in V
        BY <2>6, <2>7
      <3>3. /\ SubSeq(b, 1, n + 1) \in Seq(V)
            /\ Len(SubSeq(b, 1, n + 1)) = IF 1 <= n + 1 THEN n + 1 - 1 + 1 ELSE 0
            /\ \A i \in 1 .. n + 1 - 1 + 1 : SubSeq(b, 1, n + 1)[i] = b[1 + i - 1]
        BY <3>1, <3>2, SubSeqProperties
      <3> QED BY <3>1, <3>3
    <2>9. SubSeq(b, 1, n + 1) = Append(line, "NUL")
      BY <2>5, <2>6, <2>8, SeqEqual
    <2> QED BY <2>3, <2>9 DEF line
  <1>8. OptionsComplete'
    <2> SUFFICES ASSUME NEW i \in DOMAIN started', HasArguments(started'[i].line)
                 PROVE  started'[i].options = Append(started'[i].line, "NUL")
      BY DEF OptionsComplete, HasArguments
    <2>1. CASE i \in 1 .. Len(started)
      BY <1>5, <1>6, <2>1 DEF LineInv, OptionsComplete
    <2>2. CASE i = Len(started) + 1
      BY <1>4, <1>5, <1>7, <2>2
    <2> QED BY <1>6, <2>1, <2>2
  <1> QED BY <1>5, <1>8

(* The first kaem has the options of the firmware.                         *)
LEMMA InitLine == Init => LineInv
  <1> SUFFICES ASSUME Init PROVE LineInv
    OBVIOUS
  <1>1. PICK options \in RootOptions :
          frames = << [NewFrame EXCEPT !.pc = "waits", !.len = Len(options),
                        !.buf = [Stored(Junk, options) EXCEPT ![Len(options)] = "NUL"]],
                      NewFrame >>
    BY DEF Init
  <1> DEFINE f == frames[1]
  <1>2. /\ NewFrame.pc = "entry" /\ NewFrame.held = {} /\ NewFrame.len = 0
        /\ NewFrame.cl = 0 /\ NewFrame.code = 0 /\ NewFrame.sp = 0 /\ NewFrame.buf = Junk
        /\ NewFrame.pos = 1
        /\ DOMAIN NewFrame = Fields
    BY DEF NewFrame, Fields
  <1>3. /\ f.pc = "waits" /\ f.held = {} /\ f.len = Len(options) /\ f.cl = 0
        /\ f.code = 0 /\ f.sp = 0
        /\ f.buf = [Stored(Junk, options) EXCEPT ![Len(options)] = "NUL"]
    BY <1>1, <1>2 DEF Fields
  <1>4. frames = <<f, NewFrame>> /\ depth = 2
    BY <1>1 DEF depth
  <1>5. Len(options) \in 0 .. BufSize - 1
    BY DisksAssumption, LenProperties
  <1>6. DOMAIN Junk = 0 .. BufSize - 1 /\ DOMAIN f.buf = 0 .. BufSize - 1
    BY <1>3 DEF Junk, Stored
  <1> HIDE DEF f
  <1>7. FrameTyped(f) /\ FrameTyped(NewFrame)
    BY <1>2, <1>3, <1>5, <1>6 DEF FrameTyped, Places
  <1>8. frames[1] = f /\ frames[2] = NewFrame
    BY <1>4
  <1>9. (\A n \in 1 .. depth : n = 1 \/ n = 2) /\ (\A n \in 2 .. depth : n = 2)
    BY <1>4
  <1>10. Reads(NewFrame, disk) /\ Whole(NewFrame)
    BY <1>2 DEF Reads, Whole
  <1>11. DiskOK(disk)
    BY DisksAssumption DEF Init, DiskOK
  <1>12. (\E S : started \in Seq(S)) /\ OptionsComplete
    <2>1. started = << >>
      BY DEF Init
    <2>2. DOMAIN started = {}
      BY <2>1
    <2> QED BY <2>1, <2>2, EmptySeq DEF OptionsComplete
  <1> QED BY <1>3, <1>7, <1>8, <1>9, <1>10, <1>11, <1>12 DEF Init, LineInv

(* Opening the volume cuts the options of the frame below.                 *)
LEMMA OpenVolumeLine == ASSUME KaemInv, LineInv, OpenVolume PROVE LineInv'
  <1>1. PICK S : frames \in Seq(S)
    BY DEF KaemInv, IsStack
  <1>2. /\ depth \in Nat /\ depth > 1 /\ depth - 1 \in 1 .. depth /\ depth \in 1 .. depth
        /\ \A n \in 1 .. depth : DOMAIN frames[n] = Fields
    BY <1>1, LenProperties DEF depth, OpenVolume, At, KaemInv, IsStack
  <1> DEFINE f == [frames[depth] EXCEPT !.pc = "script", !.script = ScriptName,
                                        !.held = {"image", "fs", "rootdir"}]
             e == frames[depth - 1]
             g == [e EXCEPT !.buf = CutOptions]
             fs == [frames EXCEPT ![depth] = f]
             T == S \cup {f, g}
  <1>3. frames \in Seq(T)
    BY <1>1, SeqMonotonic
  <1>4. /\ fs \in Seq(T) /\ Len(fs) = depth
        /\ \A n \in 1 .. depth : fs[n] = IF n = depth THEN f ELSE frames[n]
    BY <1>2, <1>3, ExceptSeq DEF depth
  <1>5. frames' = [fs EXCEPT ![depth - 1] = g]
    <2>1. frames' = [fs EXCEPT ![depth - 1] = [fs[depth - 1] EXCEPT !.buf = CutOptions]]
      BY DEF OpenVolume
    <2>2. fs[depth - 1] = e
      BY <1>2, <1>4
    <2> QED BY <2>1, <2>2
  <1>6. g \in T
    OBVIOUS
  <1>7. /\ f.pc = "script" /\ f.len = frames[depth].len /\ f.cl = frames[depth].cl
        /\ f.code = frames[depth].code /\ f.sp = frames[depth].sp /\ f.buf = frames[depth].buf
        /\ f.pos = frames[depth].pos
    BY <1>2 DEF Fields
  <1>8. /\ g.pc = e.pc /\ g.len = e.len /\ g.cl = e.cl /\ g.code = e.code /\ g.sp = e.sp
        /\ g.held = e.held /\ g.script = e.script /\ g.pos = e.pos /\ g.buf = CutOptions
    BY <1>2 DEF Fields
  <1>9. e.pc = "waits" /\ FrameTyped(e) /\ FrameTyped(frames[depth]) /\ frames[depth].pos = 1
    <2>1. depth - 1 \in 1 .. depth - 1 /\ depth \in 2 .. depth
      BY <1>2
    <2>2. frames[depth].pc = "entry"
      BY DEF OpenVolume, At, Top
    <2> QED BY <1>2, <2>1, <2>2 DEF KaemInv, OneRuns, LineInv, Reads
  <1>10. DOMAIN CutOptions = DOMAIN e.buf
    BY DEF CutOptions, Parent
  <1> HIDE DEF f, e, g, fs, T
  <1>11. FrameTyped(f) /\ Reads(f, disk) /\ Whole(f)
    BY <1>7, <1>9 DEF FrameTyped, Places, Reads, Whole
  <1>12. FrameTyped(g) /\ g.pc = "waits"
    BY <1>8, <1>9, <1>10 DEF FrameTyped
  <1>13. /\ depth' = depth
         /\ \A n \in 1 .. depth : frames'[n] = IF n = depth - 1 THEN g ELSE fs[n]
    BY <1>2, <1>4, <1>5, <1>6, ExceptSeq DEF depth
  <1>14. \A n \in 1 .. depth : \/ n = depth /\ frames'[n] = f
                               \/ n = depth - 1 /\ frames'[n] = g
                               \/ n < depth - 1 /\ frames'[n] = frames[n]
    BY <1>2, <1>4, <1>13
  <1>15. \A n \in 1 .. depth : FrameTyped(frames'[n])
    BY <1>11, <1>12, <1>14 DEF LineInv
  <1>16. ASSUME NEW n \in 2 .. depth
         PROVE  Reads(frames'[n], disk) /\ Whole(frames'[n])
    <2>1. n \in 1 .. depth /\ Reads(frames[n], disk) /\ Whole(frames[n])
      <3>1. \A k \in 2 .. depth : Reads(frames[k], disk) /\ Whole(frames[k])
        BY DEF LineInv
      <3> QED BY <1>2, <3>1
    <2>2. CASE n = depth - 1 /\ frames'[n] = g
      BY <1>8, <1>9, <2>1, <2>2 DEF Reads, InScript, Whole, e
    <2> QED BY <1>11, <1>14, <2>1, <2>2
  <1>17. frames'[1].held = {}
    <2>1. 1 \in 1 .. depth /\ 1 # depth /\ frames[1].held = {}
      <3>1. frames[1].held = {}
        BY DEF LineInv
      <3> QED BY <1>2, <3>1
    <2>2. CASE depth - 1 = 1
      BY <1>8, <1>14, <2>1, <2>2 DEF e
    <2> QED BY <1>2, <1>14, <2>1, <2>2
  <1>18. disk' = disk /\ DiskOK(disk) /\ RestKept
    BY RestSame DEF LineInv, OpenVolume
  <1> QED BY <1>13, <1>15, <1>16, <1>17, <1>18, LinePrimed

(* Before a line is run: the script is opened, and lines are read.         *)
LEMMA OpenScriptLine == ASSUME KaemInv, LineInv, OpenScript PROVE LineInv'
  <1> DEFINE f == [Top EXCEPT !.pc = "read", !.held = @ \cup {"fin", "command"}]
  <1>1. depth > 1 /\ SetTop(f) /\ DiskKept /\ RestKept /\ disk' = disk
    BY DiskSame, RestSame DEF OpenScript, At
  <1>2. DOMAIN Top = Fields /\ FrameTyped(Top) /\ Top.script \in DOMAIN disk
    BY <1>1, TopLineFacts DEF OpenScript
  <1>3. /\ DOMAIN f = Fields /\ f.pc = "read" /\ f.len = Top.len /\ f.cl = Top.cl
        /\ f.code = Top.code /\ f.sp = Top.sp /\ f.buf = Top.buf
        /\ f.script = Top.script /\ f.pos = Top.pos
    BY <1>2 DEF Fields
  <1> HIDE DEF f
  <1>4. Top.pos = 1
    BY <1>1, TopLineFacts DEF OpenScript, At, Reads
  <1>5. FrameTyped(f) /\ Reads(f, disk') /\ Whole(f)
    BY <1>1, <1>2, <1>3, <1>4 DEF FrameTyped, Places, Reads, Whole
  <1> QED BY <1>1, <1>3, <1>5, TopLine

(* A line to run is in the buffer up to its terminator, and its name ends  *)
(* in it.                                                                  *)
LEMMA ReadCommandLine == ASSUME KaemInv, LineInv, ReadCommand PROVE LineInv'
  <1> DEFINE b == [Stored(Top.buf, Body) EXCEPT ![Len(Body)] = "NUL"]
             f == [Top EXCEPT !.pc = "command", !.pos = LineEnd + 1, !.line = Body,
                          !.len = Len(Body), !.cl = CommandLength, !.buf = b,
                          !.sp = IF port = "riscv64" THEN 16 ELSE 0]
  <1>1. /\ depth > 1 /\ SetTop(f) /\ DiskKept /\ RestKept /\ disk' = disk
        /\ At("read") /\ Runs /\ Readable
    BY DiskSame, RestSame DEF ReadCommand, At
  <1>2. /\ DOMAIN Top = Fields /\ FrameTyped(Top) /\ Reads(Top, disk)
        /\ Top.pc = "read"
    BY <1>1, TopLineFacts DEF At
  <1>3. /\ DOMAIN f = Fields /\ f.pc = "command" /\ f.len = Len(Body) /\ f.cl = CommandLength
        /\ f.code = Top.code /\ f.sp \in {0, 16} /\ f.buf = b /\ f.line = Body
        /\ f.script = Top.script /\ f.pos = LineEnd + 1
    BY <1>2 DEF Fields
  <1>4. /\ disk[Top.script].kind = "data" /\ Len(Body) + 1 <= BufSize /\ LineEnds
        /\ CommandLength > 0
    BY <1>1 DEF Readable, Runs
  <1>5. /\ Body \in Seq(STRING) /\ Len(Body) \in Nat
        /\ LineEnd + 1 \in 1 .. Len(Text) + 1
        /\ CommandLength \in 0 .. Len(Body)
        /\ HasArguments(Body) =>
             CommandLength < Len(Body) /\ Body[CommandLength + 1] = "SP"
    BY <1>1, <1>4, LineFacts
  <1>6. /\ DOMAIN b = 0 .. BufSize - 1
        /\ \A k \in 0 .. BufSize - 1 :
             b[k] = IF k = Len(Body) THEN "NUL" ELSE IF k < Len(Body) THEN Body[k + 1] ELSE Top.buf[k]
    <2>1. DOMAIN Top.buf = 0 .. BufSize - 1
      BY <1>2 DEF FrameTyped
    <2> QED BY <2>1 DEF Stored
  <1> HIDE DEF f, b
  <1>7. FrameTyped(f)
    BY <1>2, <1>3, <1>4, <1>5, <1>6 DEF FrameTyped, Places
  <1>8. Reads(f, disk')
    <2>1. Top.script \in DOMAIN disk
      BY <1>2 DEF Reads
    <2>2. Plain(Text) => StartsLine(Text, LineEnd + 1)
      BY <1>1, <1>4, PlainFacts
    <2> QED BY <1>1, <1>3, <1>4, <1>5, <2>1, <2>2 DEF Reads, InScript, Text
  <1>9. Whole(f)
    <2> SUFFICES ASSUME HasArguments(Body)
                 PROVE  /\ CommandLength < Len(Body) /\ Body[CommandLength + 1] = "SP"
                        /\ \A k \in 0 .. Len(Body) - 1 : b[k] = Body[k + 1]
                        /\ b[Len(Body)] = "NUL"
      BY <1>3, <1>5 DEF Whole
    <2>1. \A k \in 0 .. Len(Body) - 1 : k \in 0 .. BufSize - 1 /\ k # Len(Body) /\ k < Len(Body)
      BY <1>4, <1>5
    <2>2. Len(Body) \in 0 .. BufSize - 1
      BY <1>4, <1>5
    <2> QED BY <1>5, <1>6, <2>1, <2>2
  <1> QED BY <1>1, <1>3, <1>7, <1>8, <1>9, TopLine

(* A line that is not run is in the buffer as well.                        *)
LEMMA SkipLineLine == ASSUME KaemInv, LineInv, SkipLine PROVE LineInv'
  <1> DEFINE f == [Top EXCEPT !.pos = LineEnd + 1, !.buf = Stored(@, Body)]
  <1>1. /\ depth > 1 /\ SetTop(f) /\ DiskKept /\ RestKept /\ disk' = disk
        /\ At("read") /\ disk[Top.script].kind = "data" /\ LineEnds
    BY DiskSame, RestSame DEF SkipLine, At, Readable
  <1>2. /\ DOMAIN Top = Fields /\ FrameTyped(Top) /\ Reads(Top, disk)
        /\ Top.pc = "read"
    BY <1>1, TopLineFacts DEF At
  <1>3. /\ DOMAIN f = Fields /\ f.pc = "read" /\ f.len = Top.len /\ f.cl = Top.cl
        /\ f.code = Top.code /\ f.sp = Top.sp /\ f.buf = Stored(Top.buf, Body)
        /\ f.script = Top.script /\ f.pos = LineEnd + 1
    BY <1>2 DEF Fields
  <1>4. /\ LineEnd + 1 \in 1 .. Len(Text) + 1
        /\ Plain(Text) => StartsLine(Text, LineEnd + 1)
    BY <1>1, LineFacts, PlainFacts
  <1>5. DOMAIN Stored(Top.buf, Body) = DOMAIN Top.buf
    BY DEF Stored
  <1> HIDE DEF f
  <1>6. FrameTyped(f) /\ Whole(f)
    BY <1>2, <1>3, <1>5 DEF FrameTyped, Places, Whole
  <1>7. Reads(f, disk')
    <2>1. Top.script \in DOMAIN disk
      BY <1>2 DEF Reads
    <2> QED BY <1>1, <1>3, <1>4, <2>1 DEF Reads, InScript, Text
  <1> QED BY <1>1, <1>3, <1>6, <1>7, TopLine

(* Opening the program puts a space back where the name was cut off; in a  *)
(* line with arguments there was one.                                      *)
LEMMA OpenExecutableLine == ASSUME KaemInv, LineInv, OpenExecutable PROVE LineInv'
  <1> DEFINE b == [Top.buf EXCEPT ![Top.cl] = "SP"]
             f == [Top EXCEPT !.pc = "load", !.held = @ \cup {"fcmd"}, !.buf = b]
  <1>1. depth > 1 /\ DiskKept /\ RestKept /\ disk' = disk /\ Top.pc = "command"
    BY DiskSame, RestSame DEF OpenExecutable, At
  <1>2. SetTop(f)
    BY DEF OpenExecutable
  <1>3. DOMAIN Top = Fields /\ FrameTyped(Top) /\ Reads(Top, disk) /\ Whole(Top)
    BY <1>1, TopLineFacts
  <1>4. /\ DOMAIN f = Fields /\ f.pc = "load" /\ f.len = Top.len /\ f.cl = Top.cl
        /\ f.code = Top.code /\ f.sp = Top.sp /\ f.buf = b /\ f.line = Top.line
        /\ f.script = Top.script /\ f.pos = Top.pos
    BY <1>3 DEF Fields
  <1>5. /\ DOMAIN b = DOMAIN Top.buf
        /\ \A k \in DOMAIN Top.buf : b[k] = IF k = Top.cl THEN "SP" ELSE Top.buf[k]
    OBVIOUS
  <1> HIDE DEF f, b
  <1>6. FrameTyped(f) /\ Reads(f, disk')
    BY <1>1, <1>3, <1>4, <1>5 DEF FrameTyped, Places, Reads, InScript
  <1>7. Whole(f)
    <2> SUFFICES ASSUME HasArguments(Top.line)
                 PROVE  /\ Top.line \in Seq(STRING) /\ Len(Top.line) = Top.len
                        /\ Top.cl < Top.len /\ Top.line[Top.cl + 1] = "SP"
                        /\ \A k \in 0 .. Top.len - 1 : b[k] = Top.line[k + 1]
                        /\ b[Top.len] = "NUL"
      BY <1>4 DEF Whole
    <2>1. /\ Top.line \in Seq(STRING) /\ Len(Top.line) = Top.len
          /\ Top.cl < Top.len /\ Top.line[Top.cl + 1] = "SP"
          /\ \A k \in 0 .. Top.len - 1 : Top.buf[k] = Top.line[k + 1]
          /\ Top.buf[Top.len] = "NUL"
      BY <1>1, <1>3 DEF Whole
    <2>2. /\ Top.len \in 0 .. BufSize - 1 /\ Top.cl \in 0 .. Top.len
          /\ DOMAIN Top.buf = 0 .. BufSize - 1
      BY <1>3 DEF FrameTyped
    <2>3. \A k \in 0 .. Top.len : k \in DOMAIN Top.buf
      BY <2>2
    <2>4. \A k \in 0 .. Top.len - 1 : k \in 0 .. Top.len
      BY <2>2
    <2>5. Top.len \in 0 .. Top.len /\ Top.len # Top.cl
      BY <2>1, <2>2
    <2> QED BY <1>5, <2>1, <2>3, <2>4, <2>5
  <1> QED BY <1>1, <1>2, <1>4, <1>6, <1>7, TopLine

(* Steps that change neither the script's place nor the line in the        *)
(* buffer: a program is loaded, a line is done, or kaem is about to leave. *)
LEMMA PlaceLine ==
  ASSUME KaemInv, LineInv, depth > 1, Top.pc \notin {"entry", "script"},
         NEW f, DOMAIN f = Fields, SetTop(f),
         f.pc \in {"start", "read", "exit", "returned"}, f.pc = "start" => Top.pc = "load",
         Top.pc = "read" => disk[Top.script].kind = "data",
         f.pc = "exit" /\ f.code = 0 /\ Plain(Text) => Top.pos = Len(Text) + 1,
         f.code \in Nat, f.sp \in {0, 16},
         f.len = Top.len, f.cl = Top.cl, f.buf = Top.buf, f.line = Top.line,
         f.script = Top.script, f.pos = Top.pos, DiskKept, RestKept
  PROVE  LineInv'
  <1>1. FrameTyped(Top) /\ Reads(Top, disk) /\ Whole(Top)
    BY TopLineFacts
  <1>2. FrameTyped(f)
    BY <1>1 DEF FrameTyped, Places
  <1>3. Reads(f, disk)
    <2>1. Top.script \in DOMAIN disk /\ disk[Top.script].kind = "data"
      BY <1>1 DEF Reads
    <2>2. disk[Top.script].text \in Seq(STRING)
      BY <2>1 DEF LineInv, DiskOK, File
    <2>3. Len(disk[Top.script].text) \in Nat
      BY <2>2, LenProperties
    <2>4. /\ Top.pos \in 1 .. Len(disk[Top.script].text) + 1
          /\ Plain(disk[Top.script].text) => StartsLine(disk[Top.script].text, Top.pos)
      BY <1>1, <2>3 DEF Reads, InScript, StartsLine
    <2> QED BY <2>1, <2>4 DEF Reads, InScript, Text
  <1>4. Reads(f, disk')
    BY <1>3, ReadsKept
  <1>5. Whole(f)
    BY <1>1 DEF Whole
  <1> QED BY <1>2, <1>4, <1>5, TopLine

LEMMA PlaceSteps ==
  ASSUME KaemInv, LineInv, LoadImage \/ EndOfScript \/ NextCommand
  PROVE  LineInv'
  <1>1. /\ depth > 1 /\ DiskKept /\ RestKept /\ disk' = disk
        /\ Top.pc \notin {"entry", "script"}
    BY DiskSame, RestSame DEF LoadImage, EndOfScript, NextCommand, At
  <1>2. DOMAIN Top = Fields /\ FrameTyped(Top)
    BY <1>1, TopLineFacts
  <1>3. Top.code \in Nat /\ Top.sp \in {0, 16}
    BY <1>2 DEF FrameTyped
  <1>4. CASE LoadImage
    <2> DEFINE f == [Top EXCEPT !.pc = "start", !.held = @ \ {"fcmd"}]
    <2>1. SetTop(f) /\ Top.pc = "load"
      BY <1>4 DEF LoadImage, At
    <2>2. /\ DOMAIN f = Fields /\ f.pc = "start" /\ f.code = Top.code /\ f.sp = Top.sp
          /\ f.len = Top.len /\ f.cl = Top.cl /\ f.buf = Top.buf /\ f.line = Top.line
          /\ f.script = Top.script /\ f.pos = Top.pos
      BY <1>2 DEF Fields
    <2> HIDE DEF f
    <2> QED BY <1>1, <1>3, <2>1, <2>2, PlaceLine
  <1>5. CASE EndOfScript
    <2> DEFINE f == [Top EXCEPT !.pc = "exit", !.code = 0]
    <2>1. SetTop(f)
      BY <1>5 DEF EndOfScript
    <2>2. /\ DOMAIN f = Fields /\ f.pc = "exit" /\ f.code = 0 /\ f.sp = Top.sp
          /\ f.len = Top.len /\ f.cl = Top.cl /\ f.buf = Top.buf /\ f.line = Top.line
          /\ f.script = Top.script /\ f.pos = Top.pos
      BY <1>2 DEF Fields
    <2>3. /\ At("read") /\ disk[Top.script].kind = "data" /\ ~LineEnds /\ ~(Commented /\ port = "c")
      BY <1>5 DEF EndOfScript, Readable
    <2>4. Plain(Text) => Top.pos = Len(Text) + 1
      BY <2>3, PlainFacts
    <2> HIDE DEF f
    <2> QED BY <1>1, <1>3, <2>1, <2>2, <2>3, <2>4, PlaceLine DEF At
  <1>6. CASE NextCommand
    <2> DEFINE f == [Top EXCEPT !.pc = "read", !.sp = 0]
    <2>1. SetTop(f)
      BY <1>6 DEF NextCommand
    <2>2. /\ DOMAIN f = Fields /\ f.pc = "read" /\ f.code = Top.code /\ f.sp = 0
          /\ f.len = Top.len /\ f.cl = Top.cl /\ f.buf = Top.buf /\ f.line = Top.line
          /\ f.script = Top.script /\ f.pos = Top.pos
      BY <1>2 DEF Fields
    <2> HIDE DEF f
    <2>3. Top.pc # "read" /\ f.pc # "exit"
      BY <1>6, <2>2 DEF NextCommand, At
    <2> QED BY <1>1, <1>3, <2>1, <2>2, <2>3, PlaceLine
  <1> QED BY <1>4, <1>5, <1>6

(* A program is missing, or has failed.                                    *)
LEMMA FailLine ==
  ASSUME KaemInv, LineInv, NoExecutable \/ ChildFailed
  PROVE  LineInv'
  <1>1. /\ depth > 1 /\ DiskKept /\ RestKept /\ disk' = disk
        /\ Top.pc \notin {"entry", "script"}
    BY DiskSame, RestSame DEF NoExecutable, ChildFailed, At
  <1>2. DOMAIN Top = Fields /\ FrameTyped(Top)
    BY <1>1, TopLineFacts
  <1>3. PICK code \in Nat \ {0} : Fails(code)
    BY <1>2 DEF NoExecutable, ChildFailed, TestedCodes, NotFound, FrameTyped
  <1> DEFINE f == [Top EXCEPT !.pc = "exit", !.code = ErrorCode(code), !.sp = 0]
  <1>3a. Top.pc # "read"
    BY DEF NoExecutable, ChildFailed, At
  <1>3b. ErrorCode(code) \in Nat \ {0}
    BY <1>3 DEF ErrorCode
  <1>4. SetTop(f) /\ ErrorCode(code) \in Nat \ {0} /\ Top.pc # "read"
    BY <1>3, <1>3a, <1>3b DEF Fails
  <1>5. /\ DOMAIN f = Fields /\ f.pc = "exit" /\ f.code = ErrorCode(code) /\ f.sp = 0
        /\ f.len = Top.len /\ f.cl = Top.cl /\ f.buf = Top.buf /\ f.line = Top.line
        /\ f.script = Top.script /\ f.pos = Top.pos
    BY <1>2 DEF Fields
  <1> HIDE DEF f
  <1> QED BY <1>1, <1>4, <1>5, PlaceLine

(* What a tool writes is no script.                                        *)
LEMMA StartToolDisk == ASSUME LineInv, StartTool PROVE DiskKept
  <1>1. DiskOK(disk)
    BY DEF LineInv
  <1>2. CASE disk' = disk
    BY <1>1, <1>2 DEF DiskKept
  <1>3. ASSUME NEW out \in Outputs, NEW file \in Products, disk' = Written(out, file)
        PROVE  DiskKept
    <2>1. /\ DOMAIN disk' = DOMAIN disk \cup {out} /\ disk'[out] = file
          /\ \A name \in DOMAIN disk : name # out => disk'[name] = disk[name]
      BY <1>3 DEF Written
    <2>2. file \in File /\ file.kind # "data"
      BY DisksAssumption
    <2>3. \A name \in DOMAIN disk : disk[name].kind = "data" => name # out
      BY <1>1 DEF DiskOK
    <2>4. DiskOK(disk')
      BY <1>1, <2>1, <2>2 DEF DiskOK
    <2> QED BY <2>1, <2>3, <2>4 DEF DiskKept
  <1> QED BY <1>2, <1>3 DEF StartTool

(* A tool runs.                                                            *)
LEMMA StartToolLine == ASSUME KaemInv, LineInv, StartTool PROVE LineInv'
  <1>1. depth > 1 /\ Top.pc = "start" /\ At("start") /\ LogStart /\ UNCHANGED <<status, leaked>>
    BY DEF StartTool, At
  <1>2. DOMAIN Top = Fields /\ FrameTyped(Top)
    BY <1>1, TopLineFacts
  <1>3. RestKept
    BY <1>1, LogFacts DEF RestKept, LineInv
  <1>4. DiskKept
    BY StartToolDisk
  <1>5. PICK code \in Nat : SetTop([Top EXCEPT !.pc = "returned", !.code = code])
    <2>1. Codes \subseteq Nat
      OBVIOUS
    <2> QED BY <2>1 DEF StartTool
  <1> DEFINE f == [Top EXCEPT !.pc = "returned", !.code = code]
  <1>6. SetTop(f)
    BY <1>5
  <1>7. /\ DOMAIN f = Fields /\ f.pc = "returned" /\ f.code = code /\ f.sp = Top.sp
        /\ f.len = Top.len /\ f.cl = Top.cl /\ f.buf = Top.buf /\ f.line = Top.line
        /\ f.script = Top.script /\ f.pos = Top.pos
    BY <1>2 DEF Fields
  <1>8. Top.sp \in {0, 16}
    BY <1>2 DEF FrameTyped
  <1> HIDE DEF f
  <1> QED BY <1>1, <1>3, <1>4, <1>6, <1>7, <1>8, PlaceLine

(* A kaem runs: this one waits, and the new frame is at its entry.         *)
LEMMA StartKaemLine == ASSUME KaemInv, LineInv, StartKaem PROVE LineInv'
  <1>1. /\ depth > 1 /\ Top.pc = "start" /\ At("start") /\ LogStart
        /\ UNCHANGED <<status, leaked, disk>>
    BY DEF StartKaem, At
  <1>2. /\ DOMAIN Top = Fields /\ FrameTyped(Top) /\ Reads(Top, disk) /\ depth \in Nat
    BY <1>1, TopLineFacts
  <1> DEFINE f == [Top EXCEPT !.pc = "waits"]
  <1>3. frames' = Append([frames EXCEPT ![depth] = f], NewFrame)
    BY DEF StartKaem, Top
  <1>4. /\ DOMAIN f = Fields /\ f.pc = "waits" /\ f.code = Top.code /\ f.sp = Top.sp
        /\ f.len = Top.len /\ f.cl = Top.cl /\ f.buf = Top.buf
        /\ f.script = Top.script /\ f.pos = Top.pos
    BY <1>2 DEF Fields
  <1>5. /\ NewFrame.pc = "entry" /\ NewFrame.pos = 1 /\ NewFrame.len = 0
        /\ NewFrame.cl = 0 /\ NewFrame.code = 0 /\ NewFrame.sp = 0 /\ NewFrame.buf = Junk
        /\ DOMAIN NewFrame = Fields
    BY DEF NewFrame, Fields
  <1> HIDE DEF f
  <1>6. /\ depth' = depth + 1
        /\ frames'[depth + 1] = NewFrame /\ frames'[depth] = f
        /\ \A n \in 1 .. depth - 1 : frames'[n] = frames[n]
    BY <1>3, <1>4, <1>5, PushFacts DEF KaemInv
  <1>7. FrameTyped(f) /\ Reads(f, disk) /\ Whole(f)
    BY <1>1, <1>2, <1>4 DEF FrameTyped, Places, Reads, InScript, Whole
  <1>8. FrameTyped(NewFrame) /\ Reads(NewFrame, disk) /\ Whole(NewFrame)
    <2>1. DOMAIN Junk = 0 .. BufSize - 1
      BY DEF Junk
    <2>2. 0 \in 0 .. BufSize - 1
      OBVIOUS
    <2> QED BY <1>5, <2>1, <2>2 DEF FrameTyped, Places, Reads, Whole
  <1>9. /\ \A n \in 1 .. depth + 1 : n = depth + 1 \/ n = depth \/ n \in 1 .. depth - 1
        /\ \A n \in 1 .. depth - 1 : n \in 1 .. depth
        /\ 1 \in 1 .. depth - 1
    BY <1>1, <1>2
  <1>10. \A n \in 1 .. depth + 1 : FrameTyped(frames'[n])
    BY <1>6, <1>7, <1>8, <1>9 DEF LineInv
  <1>11. \A n \in 2 .. depth + 1 : Reads(frames'[n], disk) /\ Whole(frames'[n])
    <2>1. \A n \in 2 .. depth : Reads(frames[n], disk) /\ Whole(frames[n])
      BY DEF LineInv
    <2>2. \A n \in 2 .. depth + 1 : \/ n = depth + 1 \/ n = depth
                                    \/ n \in 1 .. depth - 1 /\ n \in 2 .. depth
      BY <1>2
    <2> QED BY <1>6, <1>7, <1>8, <2>1, <2>2
  <1>12. frames'[1].held = {}
    <2>1. frames[1].held = {}
      BY DEF LineInv
    <2> QED BY <1>6, <1>9, <2>1
  <1>13. RestKept /\ disk' = disk /\ DiskOK(disk)
    BY <1>1, LogFacts DEF RestKept, LineInv
  <1> QED BY <1>6, <1>10, <1>11, <1>12, <1>13, LinePrimed

(* The ways out.  Only the session can stay behind.                        *)
LEMMA LeaveLine ==
  ASSUME KaemInv, LineInv, NoScript \/ Exit
  PROVE  LineInv'
  <1>1. /\ depth > 1 /\ DiskKept
    BY DiskSame DEF NoScript, Exit, At
  <1>2. FrameOK(Top) /\ FrameTyped(Top)
    BY <1>1, TopLineFacts
  <1>3. (\E S : started' \in Seq(S)) /\ OptionsComplete'
    BY DEF NoScript, Exit, LineInv, OptionsComplete
  <1>4. leaked' \subseteq {"script", "no script"} \X Session
    <2>1. leaked \subseteq {"script", "no script"} \X Session
      BY DEF LineInv
    <2>2. CASE NoScript
      <3>1. Top.held \subseteq Session
        BY <1>2, <2>2 DEF NoScript, At, FrameOK, Holds, Session
      <3> QED BY <2>1, <2>2, <3>1 DEF NoScript
    <2>3. CASE Exit
      <3>1. Top.held \ Cleaned = {}
        BY <1>2, <2>3 DEF Exit, At, FrameOK, Holds, Session, Cleaned
      <3> QED BY <2>1, <2>3, <3>1 DEF Exit
    <2> QED BY <2>2, <2>3
  <1>5. PICK code \in Nat : ReturnToParent(code) /\ status' = status
    <2>1. CASE NoScript
      <3>1. ErrorCode(NotFound) \in Nat
        BY DEF ErrorCode, NotFound
      <3> QED BY <2>1, <3>1 DEF NoScript
    <2>2. CASE Exit
      <3>1. Top.sp = 0 /\ Top.code \in Nat
        BY <1>2, <2>2 DEF Exit, At, FrameOK, FrameTyped
      <3> QED BY <2>2, <3>1 DEF Exit
    <2> QED BY <2>1, <2>2
  <1>6. RestKept
    BY <1>3, <1>4, <1>5 DEF RestKept, LineInv
  <1> QED BY <1>1, <1>5, <1>6, ReturnLine

(* One case per action.                                                    *)
LEMMA StepLine == KaemInv /\ LineInv /\ [Next]_vars => LineInv'
  <1> SUFFICES ASSUME KaemInv, LineInv, [Next]_vars PROVE LineInv'
    OBVIOUS
  <1>1. CASE /\ UNCHANGED <<frames, leaked, started, disk>>
             /\ status' \in {"running", "undefined", "hung"}
    <2>1. RestKept
      BY <1>1 DEF LineInv, RestKept, OptionsComplete
    <2>2. /\ DiskOK(disk) /\ frames[1].held = {}
          /\ \A n \in 1 .. depth : FrameTyped(frames[n])
          /\ \A n \in 2 .. depth : Reads(frames[n], disk) /\ Whole(frames[n])
      BY DEF LineInv
    <2>3. depth' = depth
      BY <1>1 DEF depth
    <2> QED BY <1>1, <2>1, <2>2, <2>3, LinePrimed
  <1>2. CASE HangInComment \/ ReadGarbage \/ LoadBlindly
    BY <1>1, <1>2 DEF HangInComment, ReadGarbage, LoadBlindly
  <1>3. CASE UNCHANGED vars
    BY <1>1, <1>3 DEF vars, LineInv
  <1>4. CASE OpenVolume \/ OpenScript \/ ReadCommand \/ SkipLine \/ OpenExecutable
    BY <1>4, OpenVolumeLine, OpenScriptLine, ReadCommandLine, SkipLineLine, OpenExecutableLine
  <1>5. CASE LoadImage \/ EndOfScript \/ NextCommand
    BY <1>5, PlaceSteps
  <1>6. CASE NoExecutable \/ ChildFailed
    BY <1>6, FailLine
  <1>7. CASE StartTool \/ StartKaem
    BY <1>7, StartToolLine, StartKaemLine
  <1>8. CASE NoScript \/ Exit
    BY <1>8, LeaveLine
  <1> QED BY <1>2, <1>3, <1>4, <1>5, <1>6, <1>7, <1>8 DEF Next

(* The lines are whole in every reachable state.                           *)
THEOREM LineAlways == Spec => []LineInv
  BY InitLine, KaemAlways, StepLine, PTL DEF Spec

(* Every variable keeps its type, and no kaem reads behind its script.     *)
THEOREM TypeOKTheorem == Spec => []TypeOK
  <1>1. KaemInv /\ LineInv => TypeOK
    <2> SUFFICES ASSUME KaemInv, LineInv PROVE TypeOK
      OBVIOUS
    <2>1. PICK S : frames \in Seq(S)
      BY DEF KaemInv, IsStack
    <2>2. DOMAIN frames = 1 .. depth /\ depth \in Nat /\ depth >= 1 /\ frames # << >>
      BY <2>1, LenProperties, EmptySeq DEF KaemInv, IsStack, depth
    <2>3. ASSUME NEW n \in 1 .. depth
          PROVE  LET f == frames[n] IN
                 /\ f.pc \in Places
                 /\ f.cl \in 0 .. f.len /\ f.len < BufSize
                 /\ f.code \in Nat /\ f.sp \in {0, 16}
                 /\ f.held \subseteq Session \cup {"fcmd"}
                 /\ f.held = Session => f.pos \in 1 .. Len(disk[f.script].text) + 1
      <3> DEFINE f == frames[n]
      <3>1. FrameTyped(f)
        BY DEF LineInv
      <3> HIDE DEF f
      <3>2. f.pc \in Places /\ f.cl \in 0 .. f.len /\ f.len < BufSize /\ f.code \in Nat /\ f.sp \in {0, 16}
        BY <3>1 DEF FrameTyped
      <3>3. CASE n = 1
        <4>1. f.held = {}
          BY <3>3 DEF LineInv, f
        <4> QED BY <3>2, <4>1 DEF Session, f
      <3>4. CASE n # 1
        <4>1. n \in 2 .. depth
          BY <2>2, <3>4
        <4>2. FrameOK(f) /\ Reads(f, disk) /\ DiskOK(disk)
          BY <4>1 DEF KaemInv, LineInv, f
        <4>3. f.held \subseteq Session \cup {"fcmd"}
          BY <4>2 DEF FrameOK, Holds, Session
        <4>4. ASSUME f.held = Session
              PROVE  f.pos \in 1 .. Len(disk[f.script].text) + 1
          <5>1. f.pc \notin {"entry", "script"}
            BY <4>2, <4>4 DEF FrameOK, Holds, Session
          <5>2. f.script \in DOMAIN disk
            BY <4>2, <5>1 DEF Reads
          <5>3. Len(disk[f.script].text) \in Nat
            BY <4>2, <5>2, LenProperties DEF DiskOK, File
          <5> QED BY <4>2, <5>1, <5>3 DEF Reads
        <4> QED BY <3>2, <4>3, <4>4 DEF f
      <3> QED BY <3>3, <3>4
    <2>4. failed \in BOOLEAN
      BY DEF KaemInv
    <2>5. status \in {"running", "undefined", "hung"} /\ leaked \subseteq {"script", "no script"} \X Session
      BY DEF LineInv
    <2> QED BY <2>2, <2>3, <2>4, <2>5 DEF TypeOK, Places
  <1> QED BY <1>1, KaemAlways, LineAlways, PTL

(* A program started with arguments finds its whole line in its options.   *)
THEOREM OptionsCompleteTheorem == Spec => []OptionsComplete
  <1>1. LineInv => OptionsComplete
    BY DEF LineInv
  <1> QED BY <1>1, LineAlways, PTL

-----------------------------------------------------------------------------
(* The commands of a text *)

(* What CommandsFrom says of one position, given what follows.             *)
CommandsAt(text, q, rest) ==
    (IF text[q] \in {"LF", "#"} THEN << >> ELSE <<LineAt(text, q)>>) \o rest

IsTail(j, text, n) ==
    j = [q \in n .. Len(text) + 1 |->
           IF AtEnd(text, Feed(text, q)) THEN << >>
           ELSE CommandsAt(text, q, j[Feed(text, q) + 1])]

LEMMA FeedFacts ==
  ASSUME NEW text \in Seq(STRING), NEW p \in 1 .. Len(text) + 1
  PROVE  /\ Feed(text, p) \in p .. Len(text) + 1
         /\ ~AtEnd(text, Feed(text, p)) => /\ Feed(text, p) + 1 \in p + 1 .. Len(text) + 1
                                           /\ LineAt(text, p) \in Seq(STRING)
  <1>1. Len(text) \in Nat
    BY LenProperties
  <1>2. Feed(text, p) \in p .. Len(text) + 1
    BY <1>1, FindFromFacts DEF Feed
  <1> DEFINE q == Feed(text, p)
  <1> HIDE DEF q
  <1>3. q \in p .. Len(text) + 1
    BY <1>2 DEF q
  <1>4. ~AtEnd(text, q) => q + 1 \in p + 1 .. Len(text) + 1
    BY <1>1, <1>3 DEF AtEnd
  <1>5. ASSUME ~AtEnd(text, q)
        PROVE  SubSeq(text, p, q - 1) \in Seq(STRING)
    <2>1. \A r \in p .. q - 1 : r \in 1 .. Len(text)
      BY <1>1, <1>3
    <2>2. \A r \in p .. q - 1 : text[r] \in STRING
      BY <2>1, ElementOfSeq
    <2>3. p \in Int /\ q - 1 \in Int
      BY <1>1, <1>3
    <2> QED BY <2>2, <2>3, SubSeqProperties
  <1> QED BY <1>3, <1>4, <1>5 DEF q, LineAt

(* There is one for every position: else there were a last one without.    *)
LEMMA TailExists ==
  ASSUME NEW text \in Seq(STRING), NEW n \in 1 .. Len(text) + 1
  PROVE  \E j : IsTail(j, text, n)
  <1> DEFINE L == Len(text)
             T == {k \in 0 .. L + 1 : ~ \E j : IsTail(j, text, L + 2 - k)}
  <1>1. L \in Nat
    BY LenProperties
  <1> SUFFICES ASSUME T # {}
               PROVE  FALSE
    <2>1. L + 2 - n \in 0 .. L + 1 /\ L + 2 - (L + 2 - n) = n
      BY <1>1
    <2> QED BY <2>1
  <1>2. T \subseteq Nat
    BY <1>1
  <1>3. PICK m \in T : \A k \in T : m <= k
    BY <1>2, Least
  <1>4. m # 0
    <2> DEFINE none == [q \in L + 2 .. L + 1 |-> << >>]
    <2>1. L + 2 .. L + 1 = {}
      BY <1>1
    <2>2. L + 2 - 0 = L + 2
      BY <1>1
    <2>3. IsTail(none, text, L + 2)
      BY <2>1 DEF IsTail
    <2>4. 0 \notin T
      BY <2>2, <2>3
    <2> QED BY <2>4
  <1>5. m \in Nat /\ m - 1 \in 0 .. L + 1 /\ m - 1 \notin T /\ m \in 0 .. L + 1
    BY <1>1, <1>2, <1>3, <1>4, SMTT(30)
  <1>6. PICK n0 \in 1 .. L + 1 : n0 = L + 2 - m
    <2>1. L + 2 - m \in 1 .. L + 1
      <3> HIDE DEF T
      <3> QED BY <1>1, <1>4, <1>5
    <2> QED BY <2>1
  <1>7. L + 2 - (m - 1) = n0 + 1
    BY <1>1, <1>5, <1>6
  <1>8. PICK f : IsTail(f, text, n0 + 1)
    BY <1>5, <1>7
  <1> DEFINE At0(q, rest) == IF AtEnd(text, Feed(text, q)) THEN << >> ELSE CommandsAt(text, q, rest)
             g == [q \in n0 .. L + 1 |->
                     IF q = n0 THEN At0(n0, f[Feed(text, n0) + 1]) ELSE f[q]]
  <1>9. \A q \in n0 + 1 .. L + 1 : f[q] = At0(q, f[Feed(text, q) + 1])
    BY <1>8 DEF IsTail
  <1>10. \A q \in n0 .. L + 1 : ~AtEnd(text, Feed(text, q)) =>
           Feed(text, q) + 1 \in n0 + 1 .. L + 1 /\ g[Feed(text, q) + 1] = f[Feed(text, q) + 1]
    <2> SUFFICES ASSUME NEW q \in n0 .. L + 1, ~AtEnd(text, Feed(text, q))
                 PROVE  /\ Feed(text, q) + 1 \in n0 + 1 .. L + 1
                        /\ g[Feed(text, q) + 1] = f[Feed(text, q) + 1]
      OBVIOUS
    <2>1. q \in 1 .. L + 1
      BY <1>1
    <2>2. Feed(text, q) + 1 \in q + 1 .. L + 1
      BY <2>1, FeedFacts
    <2> DEFINE r == Feed(text, q) + 1
    <2> HIDE DEF r
    <2>3. r \in q + 1 .. L + 1
      BY <2>2 DEF r
    <2>4. r \in n0 + 1 .. L + 1 /\ r # n0 /\ r \in n0 .. L + 1
      BY <1>1, <2>1, <2>3
    <2>5. g[r] = f[r]
      BY <2>4
    <2> QED BY <2>4, <2>5 DEF r
  <1>11. \A q \in n0 .. L + 1 : g[q] = At0(q, g[Feed(text, q) + 1])
    <2> SUFFICES ASSUME NEW q \in n0 .. L + 1
                 PROVE  g[q] = At0(q, g[Feed(text, q) + 1])
      OBVIOUS
    <2>1. At0(q, g[Feed(text, q) + 1]) = At0(q, f[Feed(text, q) + 1])
      <3> HIDE DEF g
      <3> QED BY <1>10
    <2>2. CASE q = n0
      BY <2>1, <2>2
    <2>3. CASE q # n0
      <3>1. q \in n0 + 1 .. L + 1
        BY <1>1, <2>3
      <3>2. g[q] = f[q]
        BY <2>3
      <3> HIDE DEF g
      <3> QED BY <1>9, <2>1, <3>1, <3>2
    <2> QED BY <2>2, <2>3
  <1>12. g = [q \in n0 .. L + 1 |-> At0(q, g[Feed(text, q) + 1])]
    <2>1. g = [q \in n0 .. L + 1 |-> g[q]]
      OBVIOUS
    <2> HIDE DEF g, At0
    <2> QED BY <1>11, <2>1
  <1>13. IsTail(g, text, n0)
    <2> HIDE DEF g
    <2> QED BY <1>12 DEF IsTail
  <1> QED BY <1>3, <1>6, <1>13

(* What is to be run from a position on: the line there, if it is a        *)
(* command, and what is to be run from the next line on.                   *)
LEMMA CommandsFacts ==
  ASSUME NEW text \in Seq(STRING), NEW p \in 1 .. Len(text) + 1
  PROVE  /\ CommandsFrom(text, p) \in Seq(Seq(STRING))
         /\ CommandsFrom(text, p) =
              IF AtEnd(text, Feed(text, p)) THEN << >>
              ELSE CommandsAt(text, p, CommandsFrom(text, Feed(text, p) + 1))
  <1> DEFINE L == Len(text)
             j == CHOOSE f : IsTail(f, text, 1)
  <1>1. L \in Nat /\ 1 \in 1 .. L + 1
    BY LenProperties
  <1>2. IsTail(j, text, 1)
    BY <1>1, TailExists
  <1>3. \A q : CommandsFrom(text, q) = j[q]
    BY DEF CommandsFrom, IsTail, CommandsAt
  <1> HIDE DEF j
  <1>4. \A q \in 1 .. L + 1 :
          j[q] = IF AtEnd(text, Feed(text, q)) THEN << >> ELSE CommandsAt(text, q, j[Feed(text, q) + 1])
    BY <1>2 DEF IsTail
  <1> DEFINE T == {k \in Nat : k <= L /\ j[L + 1 - k] \notin Seq(Seq(STRING))}
  <1>5. T = {}
    <2> SUFFICES ASSUME T # {}
                 PROVE  FALSE
      OBVIOUS
    <2>1. T \subseteq Nat
      OBVIOUS
    <2>2. PICK m \in T : \A k \in T : m <= k
      BY <2>1, Least
    <2>3. PICK q \in 1 .. L + 1 : q = L + 1 - m
      BY <1>1, <2>2
    <2>4. j[q] \notin Seq(Seq(STRING))
      BY <2>2, <2>3
    <2>5. CASE AtEnd(text, Feed(text, q))
      <3>1. j[q] = << >>
        BY <1>4, <2>5
      <3> QED BY <2>4, <3>1
    <2>6. CASE ~AtEnd(text, Feed(text, q))
      <3> DEFINE r == Feed(text, q) + 1
      <3>1. r \in q + 1 .. L + 1 /\ LineAt(text, q) \in Seq(STRING)
        BY <2>6, FeedFacts
      <3>2. j[q] = CommandsAt(text, q, j[r])
        BY <1>4, <2>6
      <3> HIDE DEF r
      <3>3. L + 1 - r \in Nat /\ L + 1 - r <= L /\ ~ (m <= L + 1 - r) /\ L + 1 - (L + 1 - r) = r
        BY <1>1, <2>2, <2>3, <3>1
      <3>4. j[r] \in Seq(Seq(STRING))
        <4>1. L + 1 - r \notin T
          BY <2>2, <3>3
        <4> QED BY <3>3, <4>1
      <3>5. CommandsAt(text, q, j[r]) \in Seq(Seq(STRING))
        <4> DEFINE head == IF text[q] \in {"LF", "#"} THEN << >> ELSE <<LineAt(text, q)>>
        <4>1. head \in Seq(Seq(STRING))
          <5>1. CASE text[q] \in {"LF", "#"}
            <6>1. head = << >>
              BY <5>1
            <6> HIDE DEF head
            <6> QED BY <6>1, EmptySeq
          <5>2. CASE text[q] \notin {"LF", "#"}
            <6>1. head = <<LineAt(text, q)>>
              BY <5>2
            <6> DEFINE line == LineAt(text, q)
            <6>2. line \in Seq(STRING)
              BY <3>1
            <6> HIDE DEF head, line
            <6>3. <<line>> \in Seq(Seq(STRING))
              BY <6>2
            <6> QED BY <6>1, <6>3 DEF line
          <5> QED BY <5>1, <5>2
        <4> HIDE DEF head
        <4>2. head \o j[r] \in Seq(Seq(STRING))
          BY <3>4, <4>1, ConcatProperties
        <4> QED BY <4>2 DEF CommandsAt, head
      <3> QED BY <2>4, <3>2, <3>5
    <2> QED BY <2>5, <2>6
  <1>6. j[p] \in Seq(Seq(STRING))
    <2>1. L + 1 - p \in Nat /\ L + 1 - p <= L /\ L + 1 - (L + 1 - p) = p
      BY <1>1
    <2> QED BY <1>5, <2>1
  <1> QED BY <1>3, <1>4, <1>6

-----------------------------------------------------------------------------
(* What the abstract script runner sees *)

(* A failure is known exactly as long as it is on its way up.              *)
LEMMA OutcomeFacts ==
  KaemInv /\ ~TempsLost
    => Outcome = IF status # "running" \/ failed THEN "failed"
                 ELSE IF depth = 1 THEN "ok" ELSE "running"
  <1> SUFFICES ASSUME KaemInv, ~TempsLost PROVE Failure <=> status # "running" \/ failed
    BY DEF Outcome
  <1>1. PICK S : frames \in Seq(S)
    BY DEF KaemInv, IsStack
  <1>2. DOMAIN frames = 1 .. depth /\ depth \in Nat /\ depth \in 1 .. depth
    BY <1>1, LenProperties DEF KaemInv, IsStack, depth
  <1>3. \A n \in 1 .. depth : n = depth \/ frames[n].pc = "waits"
    <2>1. \A n \in 1 .. depth : n = depth \/ n \in 1 .. depth - 1
      BY <1>2
    <2> QED BY <2>1 DEF KaemInv, OneRuns
  <1>4. (\E n \in DOMAIN frames : frames[n].pc \in {"returned", "exit"} /\ frames[n].code # 0)
          <=> Top.pc \in {"returned", "exit"} /\ Top.code # 0
    BY <1>2, <1>3 DEF Top
  <1>5. failed <=> Top.pc \in {"returned", "exit"} /\ Top.code # 0
    BY DEF KaemInv, FailureKnown, Reports
  <1> QED BY <1>4, <1>5 DEF Failure

LEMMA OutcomeNext ==
  (KaemInv /\ ~TempsLost
     => Outcome = IF status # "running" \/ failed THEN "failed"
                  ELSE IF depth = 1 THEN "ok" ELSE "running")'
  BY OutcomeFacts, PTL

(* The steps of the abstract script runner.                                *)
LEMMA AbsStutter ==
  ASSUME Todos' = Todos, Lines' = Lines, Outcome' = Outcome
  PROVE  [Abs!Next]_(Abs!vars)
  BY DEF Abs!vars

LEMMA AbsFail ==
  ASSUME Outcome \in {"running", "failed"}, Outcome' = "failed", Lines' = Lines
  PROVE  Abs!Next
  BY DEF Abs!Next, Abs!Fail, Abs!Unwind, Abs!Running

LEMMA AbsRun ==
  ASSUME Outcome = "running", Outcome' \in {"running", "failed"}, Last(Todos) # << >>,
         Lines' = Append(Lines, Head(Last(Todos))),
         \/ Todos' = Append(Front(Todos), Tail(Last(Todos)))
         \/ /\ Len(Todos') = Len(Todos) + 1
            /\ Front(Todos') = Append(Front(Todos), Tail(Last(Todos)))
  PROVE  Abs!Next
  BY DEF Abs!Next, Abs!Run, Abs!Running, Abs!Innermost, Abs!Advanced,
         Last, Front, Abs!Last, Abs!Front

LEMMA AbsEnd ==
  ASSUME Outcome = "running", Last(Todos) = << >>, Lines' = Lines,
         \/ Outcome' = "running" /\ Len(Todos) > 1 /\ Todos' = Front(Todos)
         \/ Outcome' = "ok" /\ Todos = << << >> >>
  PROVE  Abs!Next
  BY DEF Abs!Next, Abs!EndScript, Abs!Finish, Abs!Running, Abs!Innermost,
         Last, Front, Abs!Last, Abs!Front

-----------------------------------------------------------------------------
(* What is left to run *)

(* Of a frame that has its script.                                         *)
Left(f, d) == Todo(f, f.script, d)

LEMMA TodosFacts ==
  ASSUME KaemInv
  PROVE  /\ depth \in Nat /\ depth >= 1
         /\ Len(Todos) = depth - 1 /\ \E S : Todos \in Seq(S)
         /\ \A n \in 1 .. depth - 1 :
              frames[n + 1].pc # "entry" => Todos[n] = Left(frames[n + 1], disk)
  <1>1. PICK S : frames \in Seq(S)
    BY DEF KaemInv, IsStack
  <1>2. depth \in Nat /\ depth >= 1
    BY <1>1, LenProperties DEF KaemInv, IsStack, depth
  <1> DEFINE T == {Todos[n] : n \in 1 .. depth - 1}
  <1>3. Todos = [n \in 1 .. depth - 1 |-> Todos[n]]
    BY DEF Todos
  <1>4. \A n \in 1 .. depth - 1 : Todos[n] \in T
    OBVIOUS
  <1>5. depth - 1 \in Nat
    BY <1>2
  <1> DEFINE t == Todos
  <1>6. t \in [1 .. depth - 1 -> T]
    <2> HIDE DEF T
    <2> QED BY <1>3, <1>4
  <1> HIDE DEF T, t
  <1>7. t \in Seq(T) /\ Len(t) = depth - 1
    BY <1>5, <1>6, SeqDef, LenProperties
  <1>8. \A n \in 1 .. depth - 1 :
          frames[n + 1].pc # "entry" => Todos[n] = Left(frames[n + 1], disk)
    BY DEF Todos, Left
  <1> QED BY <1>2, <1>7, <1>8 DEF t

LEMMA TodosNext ==
  ASSUME KaemInv'
  PROVE  /\ depth' \in Nat /\ depth' >= 1
         /\ Len(Todos') = depth' - 1 /\ \E S : Todos' \in Seq(S)
         /\ \A n \in 1 .. depth' - 1 :
              frames'[n + 1].pc # "entry" => Todos'[n] = Left(frames'[n + 1], disk')
  <1>1. PICK S : frames' \in Seq(S)
    BY DEF KaemInv, IsStack
  <1>2. depth' \in Nat /\ depth' >= 1
    BY <1>1, LenProperties DEF KaemInv, IsStack, depth
  <1>3. PICK t : t = Todos'
    OBVIOUS
  <1>4. PICK k \in Nat : k = depth' - 1
    <2>1. \A d \in Nat : d >= 1 => d - 1 \in Nat
      OBVIOUS
    <2> QED BY <1>2, <2>1
  <1>5. t = [n \in 1 .. k |-> t[n]]
    BY <1>3, <1>4 DEF Todos
  <1> DEFINE T == {t[n] : n \in 1 .. k}
  <1>6. t \in [1 .. k -> T]
    <2>1. \A n \in 1 .. k : t[n] \in T
      OBVIOUS
    <2> HIDE DEF T
    <2> QED BY <1>5, <2>1
  <1> HIDE DEF T
  <1>7. t \in Seq(T) /\ Len(t) = depth' - 1
    BY <1>4, <1>6, SeqDef, LenProperties
  <1>8. \A n \in 1 .. depth' - 1 :
          frames'[n + 1].pc # "entry" => Todos'[n] = Left(frames'[n + 1], disk')
    BY DEF Todos, Left
  <1> QED BY <1>2, <1>3, <1>7, <1>8

(* No step changes the text of a script.                                   *)
LEMMA TextKept ==
  ASSUME DiskKept, NEW name, name \in DOMAIN disk,
         disk[name].kind = "data" \/ disk' = disk
  PROVE  TextOf(disk', name) = TextOf(disk, name)
  BY DEF DiskKept, TextOf

(* So a frame that stays where it is, as the ones that wait do, has the    *)
(* same lines to run after a step.                                         *)
LEMMA LeftKept ==
  ASSUME NEW f, NEW g, g.script = f.script, g.pos = f.pos, g.line = f.line,
         f.pc \in {"command", "load", "start"} <=> g.pc \in {"command", "load", "start"},
         TextOf(disk', f.script) = TextOf(disk, f.script)
  PROVE  Left(g, disk') = Left(f, disk)
  BY DEF Left, Todo

LEMMA WaitingKept ==
  ASSUME KaemInv, LineInv, KaemInv', DiskKept,
         NEW n \in 1 .. depth - 2, n <= depth' - 1,
         frames'[n + 1].pc \in {"waits", "returned"},
         frames'[n + 1].pos = frames[n + 1].pos,
         frames'[n + 1].script = frames[n + 1].script
  PROVE  Todos'[n] = Todos[n]
  <1> DEFINE f == frames[n + 1]
             g == frames'[n + 1]
  <1>1. /\ depth \in Nat /\ n \in 1 .. depth - 1 /\ n \in 1 .. depth' - 1
        /\ n + 1 \in 1 .. depth - 1 /\ n + 1 \in 2 .. depth
    BY TodosFacts, TodosNext
  <1>2. f.pc = "waits" /\ Reads(f, disk)
    BY <1>1 DEF KaemInv, OneRuns, LineInv
  <1>3. f.script \in DOMAIN disk /\ disk[f.script].kind = "data"
    BY <1>2 DEF Reads
  <1>4. Todos[n] = Left(f, disk) /\ Todos'[n] = Left(g, disk')
    BY <1>1, <1>2, TodosFacts, TodosNext
  <1>5. TextOf(disk', f.script) = TextOf(disk, f.script)
    BY <1>3, TextKept
  <1>6. Left(g, disk') = Left(f, disk)
    BY <1>2, <1>5 DEF Left, Todo
  <1> QED BY <1>4, <1>6

(* The lines to run after a step of the top frame.                         *)
LEMMA TopTodos ==
  ASSUME KaemInv, LineInv, KaemInv', DiskKept, depth > 1,
         NEW f, DOMAIN f = Fields, SetTop(f), f.pc # "entry"
  PROVE  /\ depth \in Nat /\ depth' = depth
         /\ \A n \in 1 .. depth - 2 : Todos'[n] = Todos[n]
         /\ Todos'[depth - 1] = Left(f, disk')
  <1>1. /\ depth \in Nat /\ depth' = depth /\ Top' = f
        /\ \A n \in 1 .. depth - 1 : frames'[n] = frames[n]
    BY SetTopFacts DEF KaemInv
  <1>2. ASSUME NEW n \in 1 .. depth - 2
        PROVE  Todos'[n] = Todos[n]
    <2>1. n + 1 \in 1 .. depth - 1 /\ n <= depth' - 1
      BY <1>1
    <2>2. frames'[n + 1] = frames[n + 1] /\ frames[n + 1].pc = "waits"
      BY <1>1, <2>1 DEF KaemInv, OneRuns
    <2> QED BY <2>1, <2>2, WaitingKept
  <1>3. Todos'[depth - 1] = Left(f, disk')
    <2>1. depth - 1 \in 1 .. depth' - 1 /\ depth - 1 + 1 = depth'
      BY <1>1
    <2>2. frames'[depth - 1 + 1] = f
      BY <1>1, <2>1 DEF Top
    <2> QED BY <2>1, <2>2, TodosNext
  <1> QED BY <1>1, <1>2, <1>3

(* Steps that the abstract script runner does not see.                     *)
LEMMA SameTodos ==
  ASSUME KaemInv, depth' = depth, \A n \in 1 .. depth - 1 : Todos'[n] = Todos[n]
  PROVE  Todos' = Todos
  <1>1. Todos = [n \in 1 .. depth - 1 |-> Todos[n]]
    BY DEF Todos
  <1>2. PICK t : t = Todos'
    OBVIOUS
  <1>3. t = [n \in 1 .. depth - 1 |-> t[n]]
    BY <1>2 DEF Todos
  <1> QED BY <1>1, <1>2, <1>3

LEMMA TopStutter ==
  ASSUME KaemInv, LineInv, KaemInv', ~TempsLost, (~TempsLost)', depth > 1,
         NEW f, DOMAIN f = Fields, SetTop(f), f.pc # "entry",
         Left(f, disk) = Todos[depth - 1], UNCHANGED <<disk, status, failed, started>>
  PROVE  [Abs!Next]_(Abs!vars)
  <1>1. /\ depth \in Nat /\ depth' = depth
        /\ \A n \in 1 .. depth - 2 : Todos'[n] = Todos[n]
        /\ Todos'[depth - 1] = Left(f, disk')
    BY TopTodos, DiskSame
  <1>2. \A n \in 1 .. depth - 1 : n = depth - 1 \/ n \in 1 .. depth - 2
    BY <1>1
  <1>3. Todos' = Todos
    BY <1>1, <1>2, SameTodos
  <1>4. Lines' = Lines
    BY DEF Lines
  <1>5. Outcome' = Outcome
    BY <1>1, OutcomeFacts, OutcomeNext
  <1> QED BY <1>3, <1>4, <1>5, AbsStutter

LEMMA QuietSteps ==
  ASSUME KaemInv, LineInv, KaemInv', ~TempsLost, (~TempsLost)',
         OpenScript \/ OpenExecutable \/ LoadImage \/ EndOfScript \/ NextCommand
  PROVE  [Abs!Next]_(Abs!vars)
  <1>1. /\ depth > 1 /\ UNCHANGED <<disk, status, failed, started>>
        /\ Top.pc # "entry"
    BY DEF OpenScript, OpenExecutable, LoadImage, EndOfScript, NextCommand, At
  <1>2. DOMAIN Top = Fields /\ depth \in Nat
    BY <1>1, TopLineFacts
  <1>3. Todos[depth - 1] = Left(Top, disk)
    <2>1. depth - 1 \in 1 .. depth - 1 /\ depth - 1 + 1 = depth
      BY <1>1, <1>2
    <2> QED BY <1>1, <2>1, TodosFacts DEF Top
  <1>4. ASSUME NEW f, DOMAIN f = Fields, SetTop(f), f.pc # "entry",
               f.script = Top.script, f.pos = Top.pos, f.line = Top.line,
               f.pc \in {"command", "load", "start"} <=> Top.pc \in {"command", "load", "start"}
        PROVE  [Abs!Next]_(Abs!vars)
    <2>1. Left(f, disk) = Left(Top, disk)
      BY <1>4 DEF Left, Todo
    <2> QED BY <1>1, <1>3, <1>4, <2>1, TopStutter
  <1>5. CASE OpenScript
    <2> DEFINE f == [Top EXCEPT !.pc = "read", !.held = @ \cup {"fin", "command"}]
    <2>1. SetTop(f) /\ Top.pc = "script"
      BY <1>5 DEF OpenScript, At
    <2>2. /\ DOMAIN f = Fields /\ f.pc = "read" /\ f.line = Top.line
          /\ f.script = Top.script /\ f.pos = Top.pos
      BY <1>2 DEF Fields
    <2> HIDE DEF f
    <2> QED BY <1>4, <2>1, <2>2
  <1>6. CASE OpenExecutable
    <2> DEFINE f == [Top EXCEPT !.pc = "load", !.held = @ \cup {"fcmd"}, !.buf[Top.cl] = "SP"]
    <2>1. SetTop(f) /\ Top.pc = "command"
      BY <1>6 DEF OpenExecutable, At
    <2>2. /\ DOMAIN f = Fields /\ f.pc = "load" /\ f.line = Top.line
          /\ f.script = Top.script /\ f.pos = Top.pos
      BY <1>2 DEF Fields
    <2> HIDE DEF f
    <2> QED BY <1>4, <2>1, <2>2
  <1>7. CASE LoadImage
    <2> DEFINE f == [Top EXCEPT !.pc = "start", !.held = @ \ {"fcmd"}]
    <2>1. SetTop(f) /\ Top.pc = "load"
      BY <1>7 DEF LoadImage, At
    <2>2. /\ DOMAIN f = Fields /\ f.pc = "start" /\ f.line = Top.line
          /\ f.script = Top.script /\ f.pos = Top.pos
      BY <1>2 DEF Fields
    <2> HIDE DEF f
    <2> QED BY <1>4, <2>1, <2>2
  <1>8. CASE EndOfScript
    <2> DEFINE f == [Top EXCEPT !.pc = "exit", !.code = 0]
    <2>1. SetTop(f) /\ Top.pc = "read"
      BY <1>8 DEF EndOfScript, At
    <2>2. /\ DOMAIN f = Fields /\ f.pc = "exit" /\ f.line = Top.line
          /\ f.script = Top.script /\ f.pos = Top.pos
      BY <1>2 DEF Fields
    <2> HIDE DEF f
    <2> QED BY <1>4, <2>1, <2>2
  <1>9. CASE NextCommand
    <2> DEFINE f == [Top EXCEPT !.pc = "read", !.sp = 0]
    <2>1. SetTop(f) /\ Top.pc = "returned"
      BY <1>9 DEF NextCommand, At
    <2>2. /\ DOMAIN f = Fields /\ f.pc = "read" /\ f.line = Top.line
          /\ f.script = Top.script /\ f.pos = Top.pos
      BY <1>2 DEF Fields
    <2> HIDE DEF f
    <2> QED BY <1>4, <2>1, <2>2
  <1> QED BY <1>5, <1>6, <1>7, <1>8, <1>9

(* A line that is read moves from the text to the frame; one that is       *)
(* skipped was none to run.                                                *)
LEMMA ReadSteps ==
  ASSUME KaemInv, LineInv, KaemInv', ~TempsLost, (~TempsLost)', AllPlain, ReadCommand \/ SkipLine
  PROVE  [Abs!Next]_(Abs!vars)
  <1>1. /\ depth > 1 /\ UNCHANGED <<disk, status, failed, started>>
        /\ Top.pc = "read" /\ At("read") /\ LineEnds /\ disk[Top.script].kind = "data"
    BY DEF ReadCommand, SkipLine, At, Runs, Readable
  <1>2. DOMAIN Top = Fields /\ depth \in Nat /\ Reads(Top, disk)
    BY <1>1, TopLineFacts
  <1>3. Todos[depth - 1] = Left(Top, disk)
    <2>1. depth - 1 \in 1 .. depth - 1 /\ depth - 1 + 1 = depth
      BY <1>1, <1>2
    <2> QED BY <1>1, <2>1, TodosFacts DEF Top
  <1>4. TextOf(disk, Top.script) = Text /\ Plain(Text)
    <2>1. Top.script \in DOMAIN disk
      BY <1>1, <1>2 DEF Reads
    <2> QED BY <1>1, <2>1 DEF TextOf, Text, AllPlain
  <1> DEFINE p == Top.pos
             C(q) == CommandsFrom(Text, q)
             n == LineEnd + 1
  <1>5. /\ Text \in Seq(STRING) /\ Len(Text) \in Nat /\ p \in 1 .. Len(Text) + 1
        /\ ~AtEnd(Text, Feed(Text, p)) /\ LineEnd = Feed(Text, p)
        /\ Runs <=> Text[p] \notin {"LF", "#"}
        /\ Runs => Body = LineAt(Text, p)
    BY <1>1, <1>4, PlainFacts
  <1>6. C(p) = CommandsAt(Text, p, C(n)) /\ C(p) \in Seq(Seq(STRING))
    BY <1>5, CommandsFacts
  <1>7. C(n) \in Seq(Seq(STRING))
    <2>1. n \in 1 .. Len(Text) + 1
      BY <1>1, LineFacts
    <2> QED BY <1>5, <2>1, CommandsFacts
  <1>8. << >> \o C(p) = C(p) /\ << >> \o C(n) = C(n)
    BY <1>6, <1>7, ConcatEmptySeq
  <1>9. Left(Top, disk) = C(p)
    <2>1. Left(Top, disk) = << >> \o C(p)
      BY <1>1, <1>4 DEF Left, Todo
    <2> QED BY <1>8, <2>1
  <1> HIDE DEF p, C, n
  <1>10. CASE ReadCommand
    <2> DEFINE f == [Top EXCEPT !.pc = "command", !.pos = LineEnd + 1, !.line = Body,
                          !.len = Len(Body), !.cl = CommandLength,
                          !.buf = [Stored(@, Body) EXCEPT ![Len(Body)] = "NUL"],
                          !.sp = IF port = "riscv64" THEN 16 ELSE 0]
    <2>1. SetTop(f) /\ Runs
      BY <1>10 DEF ReadCommand
    <2>2. /\ DOMAIN f = Fields /\ f.pc = "command" /\ f.line = Body
          /\ f.script = Top.script /\ f.pos = n
      BY <1>2 DEF Fields, n
    <2> HIDE DEF f
    <2>3. Left(f, disk) = <<Body>> \o C(n)
      BY <1>4, <2>2 DEF Left, Todo, C
    <2>4. C(p) = <<Body>> \o C(n)
      BY <1>5, <1>6, <2>1 DEF CommandsAt, p
    <2> QED BY <1>1, <1>3, <1>9, <2>1, <2>2, <2>3, <2>4, TopStutter
  <1>11. CASE SkipLine
    <2> DEFINE f == [Top EXCEPT !.pos = LineEnd + 1, !.buf = Stored(@, Body)]
    <2>1. SetTop(f) /\ ~Runs
      BY <1>11 DEF SkipLine
    <2>2. /\ DOMAIN f = Fields /\ f.pc = "read" /\ f.line = Top.line
          /\ f.script = Top.script /\ f.pos = n
      BY <1>1, <1>2 DEF Fields, n
    <2> HIDE DEF f
    <2>3. Left(f, disk) = << >> \o C(n)
      BY <1>4, <2>2 DEF Left, Todo, C
    <2>4. C(p) = << >> \o C(n)
      BY <1>5, <1>6, <2>1 DEF CommandsAt, p
    <2> QED BY <1>1, <1>3, <1>8, <1>9, <2>1, <2>2, <2>3, <2>4, TopStutter
  <1> QED BY <1>10, <1>11

(* Opening the volume settles which script a new frame runs.               *)
LEMMA OpenVolumeStep ==
  ASSUME KaemInv, LineInv, KaemInv', ~TempsLost, (~TempsLost)', OpenVolume
  PROVE  [Abs!Next]_(Abs!vars)
  <1>1. PICK S : frames \in Seq(S)
    BY DEF KaemInv, IsStack
  <1>2. /\ depth \in Nat /\ depth > 1 /\ depth - 1 \in 1 .. depth /\ depth \in 1 .. depth
        /\ \A n \in 1 .. depth : DOMAIN frames[n] = Fields
    BY <1>1, LenProperties DEF depth, OpenVolume, At, KaemInv, IsStack
  <1> DEFINE f == [frames[depth] EXCEPT !.pc = "script", !.script = ScriptName,
                                        !.held = {"image", "fs", "rootdir"}]
             e == frames[depth - 1]
             g == [e EXCEPT !.buf = CutOptions]
             fs == [frames EXCEPT ![depth] = f]
             T == S \cup {f, g}
  <1>3. frames \in Seq(T)
    BY <1>1, SeqMonotonic
  <1>4. /\ fs \in Seq(T) /\ Len(fs) = depth
        /\ \A n \in 1 .. depth : fs[n] = IF n = depth THEN f ELSE frames[n]
    BY <1>2, <1>3, ExceptSeq DEF depth
  <1>5. frames' = [fs EXCEPT ![depth - 1] = g]
    <2>1. frames' = [fs EXCEPT ![depth - 1] = [fs[depth - 1] EXCEPT !.buf = CutOptions]]
      BY DEF OpenVolume
    <2>2. fs[depth - 1] = e
      BY <1>2, <1>4
    <2> QED BY <2>1, <2>2
  <1>6. g \in T
    OBVIOUS
  <1>7. /\ f.pc = "script" /\ f.script = ScriptName /\ f.pos = frames[depth].pos
        /\ f.line = frames[depth].line
    BY <1>2 DEF Fields
  <1>8. g.pc = e.pc /\ g.script = e.script /\ g.pos = e.pos
    BY <1>2 DEF Fields
  <1>9. e.pc = "waits" /\ frames[depth].pc = "entry"
    <2>1. depth - 1 \in 1 .. depth - 1
      BY <1>2
    <2> QED BY <2>1 DEF KaemInv, OneRuns, OpenVolume, At, Top
  <1> HIDE DEF f, e, g, fs, T
  <1>10. /\ depth' = depth
         /\ \A n \in 1 .. depth : frames'[n] = IF n = depth - 1 THEN g ELSE fs[n]
    BY <1>2, <1>4, <1>5, <1>6, ExceptSeq DEF depth
  <1>11. \A n \in 1 .. depth : \/ n = depth /\ frames'[n] = f
                               \/ n = depth - 1 /\ frames'[n] = g
                               \/ n < depth - 1 /\ frames'[n] = frames[n]
    BY <1>2, <1>4, <1>10
  <1>12. DiskKept /\ UNCHANGED <<disk, status, failed, started>>
    BY DiskSame DEF OpenVolume
  <1>13. ASSUME NEW n \in 1 .. depth - 2
         PROVE  Todos'[n] = Todos[n]
    <2>1. n + 1 \in 1 .. depth - 1 /\ n + 1 \in 1 .. depth /\ n + 1 # depth /\ n <= depth' - 1
      BY <1>2, <1>10
    <2>2. frames[n + 1].pc = "waits"
      BY <2>1 DEF KaemInv, OneRuns
    <2>3. CASE n + 1 = depth - 1 /\ frames'[n + 1] = g
      BY <1>8, <1>9, <1>12, <2>1, <2>3, WaitingKept DEF e
    <2>4. CASE frames'[n + 1] = frames[n + 1]
      BY <1>12, <2>1, <2>2, <2>4, WaitingKept
    <2> QED BY <1>11, <2>1, <2>3, <2>4
  <1>14. Todos'[depth - 1] = Todos[depth - 1]
    <2>1. /\ depth - 1 \in 1 .. depth - 1 /\ depth - 1 \in 1 .. depth' - 1
          /\ depth - 1 + 1 = depth /\ depth # depth - 1
      BY <1>2, <1>10
    <2>2. frames'[depth - 1 + 1] = f
      BY <1>2, <1>11, <2>1
    <2>3. Todos'[depth - 1] = Left(f, disk')
      BY <1>7, <2>1, <2>2, TodosNext
    <2>4. Todos[depth - 1] = Todo(frames[depth], ScriptName, disk)
      BY <1>9, <2>1 DEF Todos
    <2>5. Left(f, disk) = Todo(frames[depth], ScriptName, disk)
      BY <1>7, <1>9 DEF Left, Todo
    <2> QED BY <1>12, <2>3, <2>4, <2>5
  <1>15. \A n \in 1 .. depth - 1 : n = depth - 1 \/ n \in 1 .. depth - 2
    BY <1>2
  <1>16. Todos' = Todos
    BY <1>10, <1>13, <1>14, <1>15, SameTodos
  <1>17. Lines' = Lines
    BY <1>12 DEF Lines
  <1>18. Outcome' = Outcome
    BY <1>10, <1>12, OutcomeFacts, OutcomeNext
  <1> QED BY <1>16, <1>17, <1>18, AbsStutter

(* A missing file, a file of the wrong kind, and a failure handed on.      *)
LEMMA FailSteps ==
  ASSUME KaemInv, KaemInv', ~TempsLost, (~TempsLost)',
         NoScript \/ NoExecutable \/ ReadGarbage \/ LoadBlindly \/ ChildFailed
  PROVE  Abs!Next
  <1>1. Lines' = Lines
    BY DEF Lines, NoScript, NoExecutable, ReadGarbage, LoadBlindly, ChildFailed
  <1>2. Outcome' = "failed"
    <2>1. status' # "running" \/ failed'
      BY DEF NoScript, NoExecutable, ReadGarbage, LoadBlindly, ChildFailed, At, KaemInv,
             FailureKnown, Reports, TestedCodes
    <2> QED BY <2>1, OutcomeNext
  <1>3. Outcome \in {"running", "failed"}
    <2>1. depth > 1 /\ depth \in Nat
      BY TodosFacts DEF NoScript, NoExecutable, ReadGarbage, LoadBlindly, ChildFailed, At
    <2> QED BY <2>1, OutcomeFacts
  <1> QED BY <1>1, <1>2, <1>3, AbsFail

(* A comment of a plain script does not run into its end.                  *)
LEMMA NoHang == KaemInv /\ LineInv /\ AllPlain => ~HangInComment
  <1> SUFFICES ASSUME KaemInv, LineInv, AllPlain, HangInComment PROVE FALSE
    OBVIOUS
  <1>1. At("read") /\ disk[Top.script].kind = "data" /\ ~LineEnds /\ Commented
    BY DEF HangInComment, Readable
  <1>2. depth > 1 /\ Top.pc = "read" /\ Reads(Top, disk)
    BY <1>1, TopLineFacts DEF At
  <1>3. Top.script \in DOMAIN disk
    BY <1>2 DEF Reads
  <1>4. Plain(Text)
    BY <1>1, <1>3 DEF AllPlain, Text
  <1> QED BY <1>1, <1>4, PlainFacts

(* A kaem leaves: after a failure that is on its way up, or with nothing   *)
(* left to run.                                                            *)
LEMMA ExitStep ==
  ASSUME KaemInv, LineInv, KaemInv', ~TempsLost, (~TempsLost)', AllPlain, Exit
  PROVE  Abs!Next
  <1>1. /\ depth > 1 /\ UNCHANGED <<disk, failed, started>>
        /\ Top.pc = "exit" /\ status = "running"
    BY DEF Exit, At
  <1>2. DOMAIN Top = Fields /\ depth \in Nat /\ Reads(Top, disk) /\ FrameOK(Top) /\ FrameTyped(Top)
    BY <1>1, TopLineFacts
  <1>3. /\ ReturnToParent(Top.code) /\ status' = status
        /\ failed <=> Top.code # 0
    BY <1>1, <1>2 DEF Exit, FrameOK, KaemInv, FailureKnown, Reports
  <1>4. Lines' = Lines
    BY <1>1 DEF Lines
  <1>5. CASE Top.code # 0
    <2>1. Outcome = "failed" /\ Outcome' = "failed"
      BY <1>1, <1>3, <1>5, OutcomeFacts, OutcomeNext
    <2> QED BY <1>4, <2>1, AbsFail
  <1>6. CASE Top.code = 0
    <2>1. ~failed /\ ~failed' /\ Outcome = "running"
      BY <1>1, <1>3, <1>6, OutcomeFacts
    <2> DEFINE e == frames[depth - 1]
               g == [e EXCEPT !.pc = "returned", !.code = Top.code]
    <2>2. /\ depth' = depth - 1 /\ Top' = g
          /\ \A n \in 1 .. depth - 2 : frames'[n] = frames[n]
      BY <1>1, <1>3, ReturnFacts DEF KaemInv
    <2>3. g.pc = "returned" /\ g.pos = e.pos /\ g.script = e.script
      <3>1. depth - 1 \in 1 .. depth
        BY <1>1, <1>2
      <3>2. DOMAIN e = Fields
        BY <3>1 DEF KaemInv, IsStack
      <3> QED BY <3>2 DEF Fields
    <2> HIDE DEF e, g
    <2>4. DiskKept
      BY <1>1, DiskSame
    <2>5. ASSUME NEW n \in 1 .. depth - 2
          PROVE  Todos'[n] = Todos[n]
      <3>1. /\ n <= depth' - 1 /\ n + 1 \in 1 .. depth - 1
            /\ n + 1 = depth - 1 \/ n + 1 \in 1 .. depth - 2
        BY <1>2, <2>2
      <3>2. frames[n + 1].pc = "waits"
        BY <3>1 DEF KaemInv, OneRuns
      <3>3. CASE n + 1 = depth - 1
        <4>1. frames'[n + 1] = g /\ frames[n + 1] = e
          BY <2>2, <3>3 DEF Top, e
        <4> QED BY <2>3, <2>4, <3>1, <4>1, WaitingKept
      <3>4. CASE n + 1 \in 1 .. depth - 2
        BY <2>2, <2>4, <3>1, <3>2, <3>4, WaitingKept
      <3> QED BY <3>1, <3>3, <3>4
    <2>6. Todos[depth - 1] = << >>
      <3>1. depth - 1 \in 1 .. depth - 1 /\ depth - 1 + 1 = depth
        BY <1>1, <1>2
      <3>2. Todos[depth - 1] = Left(Top, disk)
        BY <1>1, <3>1, TodosFacts DEF Top
      <3>3. /\ Top.script \in DOMAIN disk /\ disk[Top.script].kind = "data"
            /\ Top.pos \in 1 .. Len(Text) + 1 /\ InScript(Top, Text)
        BY <1>1, <1>2 DEF Reads, Text
      <3>4. TextOf(disk, Top.script) = Text /\ Plain(Text)
        BY <3>3 DEF TextOf, Text, AllPlain
      <3>5. Top.pos = Len(Text) + 1
        BY <1>1, <1>6, <3>3, <3>4 DEF InScript
      <3>6. Text \in Seq(STRING)
        BY <3>3 DEF LineInv, DiskOK, File, Text
      <3> DEFINE p == Top.pos
      <3>7. Len(Text) \in Nat /\ Feed(Text, p) \in p .. Len(Text) + 1
        BY <3>3, <3>6, FeedFacts, LenProperties
      <3>8. AtEnd(Text, Feed(Text, p))
        BY <3>5, <3>7 DEF AtEnd
      <3>9. CommandsFrom(Text, p) = << >>
        BY <3>3, <3>6, <3>8, CommandsFacts
      <3>10. Left(Top, disk) = << >> \o CommandsFrom(Text, p)
        BY <1>1, <3>4 DEF Left, Todo
      <3>11. << >> \o << >> = << >>
        BY EmptySeq, ConcatEmptySeq
      <3> QED BY <3>2, <3>9, <3>10, <3>11
    <2>7. PICK S : Todos \in Seq(S) /\ Len(Todos) = depth - 1
      BY TodosFacts
    <2>8. Last(Todos) = << >>
      BY <2>6, <2>7 DEF Last
    <2>9. CASE depth = 2
      <3>1. Outcome' = "ok"
        BY <1>1, <1>3, <2>1, <2>2, <2>9, OutcomeNext
      <3>2. Todos = << << >> >>
        <4>1. Todos \in Seq(S \cup {<< >>}) /\ << << >> >> \in Seq(S \cup {<< >>})
          BY <2>7, SeqMonotonic
        <4>2. Len(Todos) = 1 /\ Todos[1] = << >>
          BY <2>6, <2>7, <2>9
        <4> QED BY <4>1, <4>2, SeqEqual
      <3> QED BY <1>4, <2>1, <2>8, <3>1, <3>2, AbsEnd
    <2>10. CASE depth # 2
      <3>1. Outcome' = "running"
        BY <1>1, <1>2, <1>3, <2>1, <2>2, <2>10, OutcomeNext
      <3>2. PICK R : Todos' \in Seq(R) /\ Len(Todos') = depth - 2
        <4>1. PICK R : Todos' \in Seq(R) /\ Len(Todos') = depth' - 1
          BY TodosNext
        <4> QED BY <1>2, <2>2, <4>1
      <3>3. Todos' = Front(Todos)
        <4>1. /\ depth - 2 \in Int /\ 1 \in Int /\ depth - 2 \in Nat /\ depth - 1 - 1 = depth - 2
              /\ depth - 2 - 1 + 1 = depth - 2 /\ 1 <= depth - 2
          BY <1>1, <1>2, <2>10
        <4>2. \A i \in 1 .. depth - 2 : Todos[i] \in S
          <5>1. \A i \in 1 .. depth - 2 : i \in 1 .. Len(Todos)
            BY <1>2, <2>7
          <5> QED BY <2>7, <5>1, ElementOfSeq
        <4>3. /\ SubSeq(Todos, 1, depth - 2) \in Seq(S)
              /\ Len(SubSeq(Todos, 1, depth - 2)) = depth - 2
              /\ \A i \in 1 .. depth - 2 : SubSeq(Todos, 1, depth - 2)[i] = Todos[i]
          <5>1. /\ SubSeq(Todos, 1, depth - 2) \in Seq(S)
                /\ Len(SubSeq(Todos, 1, depth - 2)) = IF 1 <= depth - 2 THEN depth - 2 - 1 + 1 ELSE 0
                /\ \A i \in 1 .. depth - 2 - 1 + 1 : SubSeq(Todos, 1, depth - 2)[i] = Todos[1 + i - 1]
            BY <4>1, <4>2, SubSeqProperties
          <5> QED BY <4>1, <5>1
        <4>4. Front(Todos) = SubSeq(Todos, 1, depth - 2)
          BY <2>7, <4>1 DEF Front
        <4> DEFINE s == SubSeq(Todos, 1, depth - 2)
                   U == R \cup S
        <4>5. PICK t : t = Todos'
          OBVIOUS
        <4>6. /\ t \in Seq(U) /\ s \in Seq(U) /\ Len(t) = depth - 2 /\ Len(s) = depth - 2
              /\ \A i \in 1 .. depth - 2 : t[i] = s[i]
          BY <2>5, <3>2, <4>3, <4>5, SeqMonotonic
        <4> HIDE DEF s, U
        <4>7. t = s
          BY <4>6, SeqEqual
        <4> QED BY <4>4, <4>5, <4>7 DEF s
      <3>4. Len(Todos) > 1
        BY <1>1, <1>2, <2>7, <2>10
      <3> QED BY <1>4, <2>1, <2>8, <3>1, <3>3, <3>4, AbsEnd
    <2> QED BY <2>9, <2>10
  <1> QED BY <1>2, <1>5, <1>6 DEF FrameTyped

(* A program is logged with the line that names it.                        *)
LEMMA LinesLogged ==
  ASSUME LineInv, LogStart
  PROVE  Lines' = Append(Lines, Top.line)
  <1>1. PICK S : started \in Seq(S)
    BY DEF LineInv
  <1> DEFINE entry == [line |-> Top.line, options |-> LoadOptions]
             k == Len(started)
  <1>2. entry.line = Top.line /\ started' = Append(started, entry)
    BY DEF LogStart
  <1> HIDE DEF entry
  <1>3. started \in Seq(S \cup {entry}) /\ k \in Nat
    BY <1>1, SeqMonotonic, LenProperties
  <1>4. /\ started' \in Seq(S \cup {entry}) /\ Len(started') = k + 1
        /\ \A i \in 1 .. k : started'[i] = started[i]
        /\ started'[k + 1] = entry
    BY <1>2, <1>3, AppendProperties
  <1>5. DOMAIN started = 1 .. k /\ DOMAIN started' = 1 .. k + 1
    BY <1>3, <1>4, LenProperties
  <1> DEFINE T == {started[i].line : i \in 1 .. k} \cup {Top.line}
             a == [i \in 1 .. k |-> started[i].line]
  <1>6. a \in Seq(T) /\ Len(a) = k /\ Lines = a
    <2>1. a \in [1 .. k -> T]
      OBVIOUS
    <2>2. Lines = a
      BY <1>5 DEF Lines
    <2> HIDE DEF a, T
    <2> QED BY <1>3, <2>1, <2>2, SeqDef, LenProperties
  <1>7. /\ Append(a, Top.line) \in Seq(T) /\ Len(Append(a, Top.line)) = k + 1
        /\ \A i \in 1 .. k : Append(a, Top.line)[i] = a[i]
        /\ Append(a, Top.line)[k + 1] = Top.line
    <2>1. Top.line \in T
      OBVIOUS
    <2> HIDE DEF a, T
    <2> QED BY <1>6, <2>1, AppendProperties
  <1> DEFINE b == Append(a, Top.line)
  <1>8. PICK c : c = started'
    OBVIOUS
  <1>9. Lines' = [i \in 1 .. k + 1 |-> c[i].line]
    BY <1>5, <1>8 DEF Lines
  <1>10. b = [i \in 1 .. k + 1 |-> b[i]]
    <2> HIDE DEF b, T
    <2>1. b \in [1 .. k + 1 -> T]
      <3>1. b \in Seq(T) /\ Len(b) = k + 1
        BY <1>7 DEF b
      <3>2. b \in [1 .. Len(b) -> T]
        BY <3>1, LenProperties
      <3> QED BY <3>1, <3>2
    <2> QED BY <2>1
  <1>11. ASSUME NEW i \in 1 .. k + 1
         PROVE  b[i] = c[i].line
    <2>1. i = k + 1 \/ i \in 1 .. k
      BY <1>3
    <2>2. CASE i = k + 1
      BY <1>2, <1>4, <1>7, <1>8, <2>2
    <2>3. CASE i \in 1 .. k
      BY <1>4, <1>7, <1>8, <2>3
    <2> QED BY <2>1, <2>2, <2>3
  <1> HIDE DEF b
  <1>12. Lines' = b
    BY <1>9, <1>10, <1>11
  <1> QED BY <1>6, <1>12 DEF b

LEMMA HeadTailOfConcat ==
  ASSUME NEW S, NEW e \in S, NEW c \in Seq(S)
  PROVE  LET s == <<e>> \o c IN s # << >> /\ Head(s) = e /\ Tail(s) = c
  <1> DEFINE s == <<e>> \o c
  <1>1. <<e>> \in Seq(S) /\ Len(<<e>>) = 1 /\ <<e>>[1] = e /\ Len(c) \in Nat
    BY LenProperties
  <1>2. /\ s \in Seq(S) /\ Len(s) = 1 + Len(c)
        /\ \A i \in 1 .. 1 + Len(c) : s[i] = IF i <= 1 THEN <<e>>[i] ELSE c[i - 1]
    BY <1>1, ConcatProperties
  <1> HIDE DEF s
  <1>3. s # << >> /\ 1 \in 1 .. 1 + Len(c)
    <2>1. Len(s) # 0
      BY <1>1, <1>2
    <2> QED BY <1>1, <2>1
  <1>4. Head(s) = e
    <2>1. Head(s) = s[1]
      BY <1>2, <1>3
    <2> QED BY <1>1, <1>2, <1>3, <2>1
  <1>5. /\ Tail(s) \in Seq(S) /\ Len(Tail(s)) = Len(s) - 1
        /\ \A i \in 1 .. Len(Tail(s)) : Tail(s)[i] = s[i + 1]
    BY <1>2, <1>3, HeadTailProperties
  <1>6. ASSUME NEW i \in 1 .. Len(c)
        PROVE  Tail(s)[i] = c[i]
    <2>1. i + 1 \in 1 .. 1 + Len(c) /\ ~ (i + 1 <= 1) /\ i + 1 - 1 = i /\ i \in 1 .. Len(Tail(s))
      BY <1>1, <1>2, <1>5
    <2>2. s[i + 1] = c[i + 1 - 1]
      BY <1>2, <2>1
    <2> QED BY <1>5, <2>1, <2>2
  <1>7. Len(Tail(s)) = Len(c)
    BY <1>1, <1>2, <1>5
  <1>8. Tail(s) = c
    BY <1>5, <1>6, <1>7, SeqEqual
  <1> QED BY <1>3, <1>4, <1>8 DEF s

(* A sequence with another last element.                                   *)
LEMMA Replaced ==
  ASSUME NEW S, NEW s \in Seq(S), NEW t \in Seq(S), NEW k \in Nat, k >= 1,
         Len(s) = k, Len(t) = k, \A i \in 1 .. k - 1 : t[i] = s[i]
  PROVE  t = Append(Front(s), t[k])
  <1>1. \A i \in 1 .. k : s[i] \in S /\ t[i] \in S
    BY ElementOfSeq
  <1>2. 1 \in Int /\ k - 1 \in Int /\ k - 1 \in Nat /\ k - 1 - 1 + 1 = k - 1 /\ k - 1 + 1 = k
    OBVIOUS
  <1>3. \A i \in 1 .. k - 1 : i \in 1 .. k
    OBVIOUS
  <1> DEFINE r == SubSeq(s, 1, k - 1)
  <1>4. /\ r \in Seq(S) /\ Len(r) = k - 1
        /\ \A i \in 1 .. k - 1 : r[i] = s[i]
    <2>1. /\ r \in Seq(S) /\ Len(r) = IF 1 <= k - 1 THEN k - 1 - 1 + 1 ELSE 0
          /\ \A i \in 1 .. k - 1 - 1 + 1 : r[i] = s[1 + i - 1]
      BY <1>1, <1>2, <1>3, SubSeqProperties
    <2> HIDE DEF r
    <2> QED BY <1>2, <2>1
  <1>5. Front(s) = r
    BY DEF Front
  <1> HIDE DEF r
  <1> DEFINE a == Append(r, t[k])
  <1>6. t[k] \in S
    BY <1>1
  <1>7. /\ a \in Seq(S) /\ Len(a) = k - 1 + 1 /\ a[k - 1 + 1] = t[k]
        /\ \A i \in 1 .. k - 1 : a[i] = r[i]
    BY <1>4, <1>6, AppendProperties
  <1> HIDE DEF a
  <1>8. ASSUME NEW i \in 1 .. k
        PROVE  t[i] = a[i]
    <2>1. i = k \/ i \in 1 .. k - 1
      OBVIOUS
    <2> QED BY <1>2, <1>4, <1>7, <2>1
  <1>9. t = a
    BY <1>2, <1>7, <1>8, SeqEqual
  <1> QED BY <1>5, <1>9 DEF a

(* What a frame has to run whose program is about to start, and has left   *)
(* once it runs.                                                           *)
LEMMA StartFacts ==
  ASSUME KaemInv, LineInv, At("start"), DiskKept
  PROVE  /\ depth \in Nat /\ depth > 1
         /\ Last(Todos) # << >> /\ Head(Last(Todos)) = Top.line
         /\ \A f : f.pc \in {"returned", "waits"} /\ f.script = Top.script /\ f.pos = Top.pos =>
              Left(f, disk') = Tail(Last(Todos))
  <1>1. depth > 1 /\ Top.pc = "start"
    BY DEF At
  <1>2. depth \in Nat /\ Reads(Top, disk)
    BY <1>1, TopLineFacts
  <1>3. /\ Top.script \in DOMAIN disk /\ disk[Top.script].kind = "data"
        /\ Top.pos \in 1 .. Len(disk[Top.script].text) + 1
    BY <1>1, <1>2 DEF Reads
  <1> DEFINE text == TextOf(disk, Top.script)
             C == CommandsFrom(text, Top.pos)
             Z == Seq(STRING) \cup {Top.line}
  <1>4. text \in Seq(STRING) /\ Top.pos \in 1 .. Len(text) + 1
    BY <1>3 DEF LineInv, DiskOK, File, TextOf
  <1>5. TextOf(disk', Top.script) = text
    BY <1>3, TextKept
  <1> HIDE DEF text
  <1>6. C \in Seq(Seq(STRING))
    BY <1>4, CommandsFacts
  <1>7. << >> \o C = C
    <2> HIDE DEF C
    <2> QED BY <1>6, ConcatEmptySeq
  <1>8. Left(Top, disk) = <<Top.line>> \o C
    BY <1>1 DEF Left, Todo, text
  <1>9. ASSUME NEW f, f.pc \in {"returned", "waits"}, f.script = Top.script, f.pos = Top.pos
        PROVE  Left(f, disk') = C
    BY <1>5, <1>7, <1>9 DEF Left, Todo
  <1> HIDE DEF C
  <1>10. C \in Seq(Z)
    <2>1. Seq(STRING) \subseteq Z
      OBVIOUS
    <2> HIDE DEF Z
    <2> QED BY <1>6, <2>1, SeqMonotonic
  <1> DEFINE s == <<Top.line>> \o C
  <1>11. s # << >> /\ Head(s) = Top.line /\ Tail(s) = C
    <2>1. Top.line \in Z
      OBVIOUS
    <2> HIDE DEF Z
    <2> QED BY <1>10, <2>1, HeadTailOfConcat
  <1>12. Last(Todos) = s
    <2>1. depth - 1 \in 1 .. depth - 1 /\ depth - 1 + 1 = depth
      BY <1>1, <1>2
    <2>2. Todos[depth - 1] = Left(Top, disk) /\ Len(Todos) = depth - 1
      BY <1>1, <2>1, TodosFacts DEF Top
    <2> QED BY <1>8, <2>2 DEF Last
  <1> HIDE DEF s
  <1> QED BY <1>1, <1>2, <1>9, <1>11, <1>12

(* A tool runs: its line is done.                                          *)
LEMMA StartToolStep ==
  ASSUME KaemInv, LineInv, KaemInv', ~TempsLost, (~TempsLost)', StartTool
  PROVE  Abs!Next
  <1>1. At("start") /\ LogStart /\ status' = status /\ status = "running" /\ Top.pc = "start"
    BY DEF StartTool, At
  <1>2. DiskKept
    BY StartToolDisk
  <1>3. depth > 1 /\ DOMAIN Top = Fields /\ depth \in Nat
    BY <1>1, TopLineFacts DEF At
  <1>4. PICK code : SetTop([Top EXCEPT !.pc = "returned", !.code = code])
    BY DEF StartTool
  <1> DEFINE f == [Top EXCEPT !.pc = "returned", !.code = code]
  <1>5. SetTop(f)
    BY <1>4
  <1>6. DOMAIN f = Fields /\ f.pc = "returned" /\ f.script = Top.script /\ f.pos = Top.pos
    BY <1>3 DEF Fields
  <1> HIDE DEF f
  <1>7. /\ Last(Todos) # << >> /\ Head(Last(Todos)) = Top.line
        /\ Left(f, disk') = Tail(Last(Todos))
    BY <1>1, <1>2, <1>6, StartFacts
  <1>8. /\ depth' = depth
        /\ \A n \in 1 .. depth - 2 : Todos'[n] = Todos[n]
        /\ Todos'[depth - 1] = Left(f, disk')
    BY <1>2, <1>3, <1>5, <1>6, TopTodos
  <1>9. Todos' = Append(Front(Todos), Tail(Last(Todos)))
    <2>1. PICK t : t = Todos'
      OBVIOUS
    <2>2. PICK S : Todos \in Seq(S) /\ Len(Todos) = depth - 1
      BY TodosFacts
    <2>3. PICK R : t \in Seq(R) /\ Len(t) = depth - 1
      BY <1>8, <2>1, TodosNext
    <2> DEFINE U == S \cup R
               k == depth - 1
    <2>4. k \in Nat /\ k >= 1 /\ k - 1 = depth - 2
      BY <1>3
    <2>5. Todos \in Seq(U) /\ t \in Seq(U)
      BY <2>2, <2>3, SeqMonotonic
    <2>6. \A i \in 1 .. k - 1 : t[i] = Todos[i]
      BY <1>8, <2>1, <2>4
    <2> HIDE DEF U, k
    <2>7. t = Append(Front(Todos), t[k])
      BY <2>2, <2>3, <2>4, <2>5, <2>6, Replaced DEF k
    <2>8. t[k] = Tail(Last(Todos))
      BY <1>7, <1>8, <2>1 DEF k
    <2> QED BY <2>1, <2>7, <2>8
  <1>10. Outcome = "running"
    <2>1. ~failed
      BY <1>1 DEF KaemInv, FailureKnown, Reports
    <2> QED BY <1>1, <1>3, <2>1, OutcomeFacts
  <1>11. Outcome' \in {"running", "failed"}
    BY <1>1, <1>3, <1>8, OutcomeNext
  <1>12. Lines' = Append(Lines, Head(Last(Todos)))
    BY <1>1, <1>7, LinesLogged
  <1> QED BY <1>7, <1>9, <1>10, <1>11, <1>12, AbsRun

(* A kaem is started: the lines of its script come first.                  *)
LEMMA StartKaemStep ==
  ASSUME KaemInv, LineInv, KaemInv', ~TempsLost, (~TempsLost)', StartKaem
  PROVE  Abs!Next
  <1>1. /\ At("start") /\ LogStart /\ UNCHANGED <<status, failed, disk>>
        /\ status = "running" /\ Top.pc = "start"
    BY DEF StartKaem, At
  <1>2. DiskKept
    BY <1>1, DiskSame
  <1>3. depth > 1 /\ DOMAIN Top = Fields /\ depth \in Nat
    BY <1>1, TopLineFacts DEF At
  <1> DEFINE f == [Top EXCEPT !.pc = "waits"]
  <1>4. frames' = Append([frames EXCEPT ![depth] = f], NewFrame)
    BY DEF StartKaem, Top
  <1>5. DOMAIN f = Fields /\ f.pc = "waits" /\ f.script = Top.script /\ f.pos = Top.pos
    BY <1>3 DEF Fields
  <1> HIDE DEF f
  <1>6. DOMAIN NewFrame = Fields
    BY DEF NewFrame, Fields
  <1>7. /\ depth' = depth + 1 /\ frames'[depth] = f
        /\ \A n \in 1 .. depth - 1 : frames'[n] = frames[n]
    BY <1>4, <1>5, <1>6, PushFacts DEF KaemInv
  <1>8. /\ Last(Todos) # << >> /\ Head(Last(Todos)) = Top.line
        /\ Left(f, disk') = Tail(Last(Todos))
    BY <1>1, <1>2, <1>5, StartFacts
  <1>9. ASSUME NEW n \in 1 .. depth - 2
        PROVE  Todos'[n] = Todos[n]
    <2>1. n + 1 \in 1 .. depth - 1 /\ n <= depth' - 1
      BY <1>3, <1>7
    <2>2. frames'[n + 1] = frames[n + 1] /\ frames[n + 1].pc = "waits"
      BY <1>7, <2>1 DEF KaemInv, OneRuns
    <2> QED BY <1>2, <2>1, <2>2, WaitingKept
  <1>10. Todos'[depth - 1] = Left(f, disk')
    <2>1. depth - 1 \in 1 .. depth' - 1 /\ depth - 1 + 1 = depth
      BY <1>3, <1>7
    <2> QED BY <1>5, <1>7, <2>1, TodosNext
  <1>11. /\ Len(Todos') = Len(Todos) + 1
         /\ Front(Todos') = Append(Front(Todos), Tail(Last(Todos)))
    <2>1. PICK t : t = Todos'
      OBVIOUS
    <2>2. PICK S : Todos \in Seq(S) /\ Len(Todos) = depth - 1
      BY TodosFacts
    <2>3. PICK R : t \in Seq(R) /\ Len(t) = depth
      <3>1. PICK R : t \in Seq(R) /\ Len(t) = depth' - 1
        BY <2>1, TodosNext
      <3>2. depth' - 1 = depth
        BY <1>3, <1>7
      <3> QED BY <3>1, <3>2
    <2> DEFINE U == S \cup R
               k == depth - 1
               u == SubSeq(t, 1, k)
    <2>4. k \in Nat /\ k >= 1 /\ k - 1 = depth - 2 /\ k + 1 = depth /\ 1 \in Int /\ k \in Int
      BY <1>3
    <2>5. Todos \in Seq(U) /\ t \in Seq(U)
      BY <2>2, <2>3, SeqMonotonic
    <2>6. Front(t) = u
      BY <2>3 DEF Front
    <2>7. u \in Seq(U) /\ Len(u) = k /\ \A i \in 1 .. k : u[i] = t[i]
      <3> HIDE DEF U, k
      <3>1. \A i \in 1 .. k : i \in 1 .. Len(t)
        BY <2>3, <2>4
      <3>2. \A i \in 1 .. k : t[i] \in U
        BY <2>5, <3>1, ElementOfSeq
      <3>3. /\ u \in Seq(U) /\ Len(u) = IF 1 <= k THEN k - 1 + 1 ELSE 0
            /\ \A i \in 1 .. k - 1 + 1 : u[i] = t[1 + i - 1]
        BY <2>4, <3>2, SubSeqProperties
      <3> HIDE DEF u
      <3> QED BY <2>4, <3>3
    <2>8. \A i \in 1 .. k - 1 : t[i] = Todos[i]
      BY <1>9, <2>1, <2>4
    <2>9. t[k] = Tail(Last(Todos))
      BY <1>8, <1>10, <2>1
    <2> HIDE DEF U, u
    <2>10. \A i \in 1 .. k - 1 : u[i] = Todos[i]
      BY <2>4, <2>7, <2>8
    <2>11. u[k] = Tail(Last(Todos))
      BY <2>4, <2>7, <2>9
    <2>12. Len(Todos) = k /\ Len(t) = Len(Todos) + 1
      BY <1>3, <2>2, <2>3
    <2> HIDE DEF k
    <2>13. u = Append(Front(Todos), u[k])
      BY <2>4, <2>5, <2>7, <2>10, <2>12, Replaced
    <2> QED BY <2>1, <2>6, <2>11, <2>12, <2>13
  <1>12. Outcome = "running" /\ Outcome' = "running"
    <2>1. ~failed /\ depth' # 1
      BY <1>1, <1>3, <1>7 DEF KaemInv, FailureKnown, Reports
    <2> QED BY <1>1, <1>3, <2>1, OutcomeFacts, OutcomeNext
  <1>13. Lines' = Append(Lines, Head(Last(Todos)))
    BY <1>1, <1>8, LinesLogged
  <1> QED BY <1>8, <1>11, <1>12, <1>13, AbsRun

(* The outermost kaem is started with its script before it.                *)
LEMMA InitRefines == Init => Abs!Init
  <1> SUFFICES ASSUME Init PROVE Abs!Init
    OBVIOUS
  <1>1. KaemInv
    BY InitKaem
  <1>2. PICK a, b : frames = <<a, b>>
    BY DEF Init
  <1>3. depth = 2
    BY <1>2 DEF depth
  <1>4. Outcome = "running"
    <2>1. frames[1].pc = "waits" /\ Top.pc = "entry"
      BY <1>1, <1>3 DEF KaemInv, OneRuns, Top, Init, NewFrame
    <2>2. \A n \in DOMAIN frames : n = 1 \/ n = 2
      BY <1>2
    <2>3. ~Failure
      BY <1>3, <2>1, <2>2 DEF Failure, Top, Init
    <2> QED BY <1>3, <2>3 DEF Outcome
  <1>5. Lines = << >>
    <2>1. DOMAIN started = {} /\ started = << >>
      BY DEF Init
    <2> QED BY <2>1 DEF Lines
  <1>6. Len(Todos) = 1
    BY <1>1, <1>3, TodosFacts
  <1> QED BY <1>4, <1>5, <1>6 DEF Abs!Init

(* Every step on a disk of plain scripts.                                  *)
LEMMA StepRefines ==
  ASSUME KaemInv, LineInv, KaemInv', AllPlain, ~TempsLost, Next
  PROVE  [Abs!Next]_(Abs!vars)
  <1>0. (~TempsLost)'
    <2>1. port' = port
      BY DEF Next, OpenVolume, OpenScript, NoScript, ReadCommand, SkipLine, EndOfScript,
             HangInComment, ReadGarbage, OpenExecutable, NoExecutable, LoadImage, LoadBlindly,
             StartTool, StartKaem, NextCommand, ChildFailed, Exit
    <2> QED BY <2>1 DEF TempsLost
  <1>1. CASE OpenVolume
    BY <1>0, <1>1, OpenVolumeStep
  <1>2. CASE OpenScript \/ OpenExecutable \/ LoadImage \/ EndOfScript \/ NextCommand
    BY <1>0, <1>2, QuietSteps
  <1>3. CASE ReadCommand \/ SkipLine
    BY <1>0, <1>3, ReadSteps
  <1>4. CASE NoScript \/ NoExecutable \/ ReadGarbage \/ LoadBlindly \/ ChildFailed
    BY <1>0, <1>4, FailSteps
  <1>5. CASE StartTool \/ StartKaem
    BY <1>0, <1>5, StartToolStep, StartKaemStep
  <1>6. CASE Exit
    BY <1>0, <1>6, ExitStep
  <1> QED BY <1>1, <1>2, <1>3, <1>4, <1>5, <1>6, NoHang DEF Next

(* On every port, and however deep the scripts nest: the lines of plain    *)
(* scripts are run from top to bottom, each exactly once, a nested script  *)
(* at the place of its line, and nothing is started after a failure; on    *)
(* riscv64, the last is said for a firmware that leaves t3 alone.          *)
THEOREM ImplementsScriptRunTheorem == Spec => ImplementsScriptRun
  <1>1. Init => (AllPlain => Abs!Init)
    BY InitRefines
  <1>2. KaemInv /\ LineInv /\ KaemInv' /\ [Next]_vars
          => [AllPlain /\ ~TempsLost => [Abs!Next]_(Abs!vars)]_vars
    BY StepRefines
  <1> QED BY <1>1, <1>2, KaemAlways, LineAlways, PTL DEF Spec, ImplementsScriptRun
=============================================================================
