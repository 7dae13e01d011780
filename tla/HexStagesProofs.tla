---------------------------- MODULE HexStagesProofs ----------------------------
(***************************************************************************)
(* The two passes of hex1 and hex2 agree in all four ports, for every      *)
(* text.                                                                   *)
(*                                                                         *)
(* What a pass does at a position depends on the text, the tool and what   *)
(* it carries there: how many bytes lie behind it, and whether a nibble    *)
(* does.  Three of the tools count a byte at its first nibble while they   *)
(* measure and at its second while they write; in bytes that are complete  *)
(* a turn of either pass is the same function.  The invariant says that    *)
(* there is a set of points, the track of the first pass, that is closed   *)
(* under that function up to its end, with every definition on it in the   *)
(* list; the second pass stays on it.                                      *)
(***************************************************************************)
EXTENDS HexStages, HexTextProofs, SequenceTheorems

-----------------------------------------------------------------------------
(* The tools *)

ToolSet == {"hex0", "hex0.rv", "hex1", "hex1.rv", "hex2", "hex2.c"}

(* The six tools are the ports of the three assemblers.                    *)
LEMMA ToolFacts ==
  /\ DOMAIN Tools = 1 .. 6 /\ Len(Tools) = 6
  /\ \A k \in 1 .. 6 : Tools[k] \in ToolSet
  /\ ToolSet \ Hex0Ports = Hex1Ports \cup Hex2Ports
  /\ Hex1Ports \cap Hex2Ports = {} /\ Hex1Ports \cap Hex0Ports = {} /\ Hex2Ports \cap Hex0Ports = {}
  <1>1. DOMAIN Tools = 1 .. 6 /\ Len(Tools) = 6
    BY DEF Tools
  <1>2. /\ Tools[1] \in ToolSet /\ Tools[2] \in ToolSet /\ Tools[3] \in ToolSet
        /\ Tools[4] \in ToolSet /\ Tools[5] \in ToolSet /\ Tools[6] \in ToolSet
    BY DEF Tools, ToolSet
  <1>3. \A k \in 1 .. 6 : k = 1 \/ k = 2 \/ k = 3 \/ k = 4 \/ k = 5 \/ k = 6
    OBVIOUS
  <1>4. \A k \in 1 .. 6 : Tools[k] \in ToolSet
    BY <1>2, <1>3
  <1>5. /\ ToolSet \ Hex0Ports = Hex1Ports \cup Hex2Ports
        /\ Hex1Ports \cap Hex2Ports = {} /\ Hex1Ports \cap Hex0Ports = {}
        /\ Hex2Ports \cap Hex0Ports = {}
    BY DEF ToolSet, Hex0Ports, Hex1Ports, Hex2Ports
  <1> QED BY <1>1, <1>4, <1>5

-----------------------------------------------------------------------------
(* Tokens of the text *)

TextOK == input \in Seq(STRING)
Name   == Seq(STRING \cup {"EOF"})
Label  == [name : Name, target : Nat, at : 1 .. Len(input)]

(* A sequence of one element.                                              *)
LEMMA OneIsSeq ==
  ASSUME NEW V, NEW c \in V
  PROVE  <<c>> \in Seq(V) /\ Len(<<c>>) = 1 /\ <<c>>[1] = c
  OBVIOUS

(* Every search that begins in the text or at its end goes no farther.     *)
LEMMA EndFacts ==
  ASSUME TextOK, NEW p \in 1 .. Len(input) + 1
  PROVE  /\ TokenEnd(p) \in p .. Len(input) + 1
         /\ ReferenceEnd(p) \in p .. Len(input) + 1
         /\ Hex0Comment(p) \in p .. Len(input) + 1
         /\ Hex1CommentEnd(p) \in p .. Len(input) + 1
         /\ Hex2Comment(p) \in p .. Len(input) + 1
  <1>1. Len(input) \in Nat
    BY LenProperties DEF TextOK
  <1>2. /\ TokenEnd(p) \in p .. Len(input) + 1
        /\ Hex0Comment(p) \in p .. Len(input) + 1
        /\ Hex1CommentEnd(p) \in p .. Len(input) + 1
        /\ Hex2Comment(p) \in p .. Len(input) + 1
    BY <1>1, FindFromFacts
       DEF TokenEnd, Hex0Comment, Hex1CommentEnd, Hex1Comment, Hex1RvComment, Hex2Comment
  <1>3. CASE HasBase(p)
    <2>1. BaseStart(p) \in p .. Len(input) + 1 /\ BaseStart(p) \in 1 .. Len(input) + 1
      BY <1>1, <1>2, <1>3 DEF HasBase, BaseStart, AtEnd
    <2>2. TokenEnd(BaseStart(p)) \in BaseStart(p) .. Len(input) + 1
      BY <1>1, <2>1, FindFromFacts DEF TokenEnd
    <2> QED BY <1>1, <1>2, <1>3, <2>1, <2>2 DEF ReferenceEnd
  <1>4. CASE ~HasBase(p)
    BY <1>2, <1>4 DEF ReferenceEnd
  <1> QED BY <1>2, <1>3, <1>4

(* What a token is read from lies in the text.                             *)
LEMMA NameFacts ==
  ASSUME TextOK, NEW p \in 1 .. Len(input) + 1
  PROVE  (p = pos + 1 => Hex1Name \in Name) /\ Token(p) \in Name
  <1> DEFINE V == STRING \cup {"EOF"}
  <1>1. Len(input) \in Nat /\ \A k \in 1 .. Len(input) : input[k] \in V
    BY LenProperties, ElementOfSeq DEF TextOK
  <1>2. "EOF" \in V /\ Name = Seq(V)
    BY DEF Name
  <1> HIDE DEF V
  <1>3. \A c \in V : <<c>> \in Name
    BY <1>2, OneIsSeq
  <1>4. p = pos + 1 => Hex1Name \in Name
    <2>1. CASE AtEnd(input, pos + 1)
      BY <1>2, <1>3, <2>1 DEF Hex1Name
    <2>2. CASE ~AtEnd(input, pos + 1)
      <3>1. p = pos + 1 => input[pos + 1] \in V
        BY <1>1, <2>2 DEF AtEnd
      <3> QED BY <1>3, <2>2, <3>1 DEF Hex1Name
    <2> QED BY <2>1, <2>2
  <1>5. CASE AtEnd(input, p)
    BY <1>2, <1>3, <1>4, <1>5 DEF Token
  <1>6. CASE ~AtEnd(input, p)
    <2>1. TokenEnd(p) \in p .. Len(input) + 1
      BY EndFacts
    <2>2. p \in Int /\ TokenEnd(p) - 1 \in Int /\ \A k \in p .. TokenEnd(p) - 1 : input[k] \in V
      BY <1>1, <2>1
    <2>3. SubSeq(input, p, TokenEnd(p) - 1) \in Seq(V)
      BY <2>2, SubSeqProperties
    <2> QED BY <1>2, <1>4, <1>6, <2>3 DEF Token
  <1> QED BY <1>5, <1>6

(* The bytes of a pointer, or of the slot of an undefined label.           *)
LEMMA BytesFacts ==
  ASSUME NEW n \in Nat
  PROVE  /\ \A value : \E T : PointerBytes(value, n) \in Seq(T) /\ Len(PointerBytes(value, n)) = n
         /\ n = 4 => \E T : Hex1Distance \in Seq(T) /\ Len(Hex1Distance) = 4
  <1>1. ASSUME NEW s, NEW T, s \in [1 .. n -> T]
        PROVE  s \in Seq(T) /\ Len(s) = n
    BY <1>1
  <1>2. ASSUME NEW value
        PROVE  \E T : PointerBytes(value, n) \in Seq(T) /\ Len(PointerBytes(value, n)) = n
    <2> DEFINE T == {[pointer |-> value, byte |-> k] : k \in 1 .. n}
    <2>1. PointerBytes(value, n) \in [1 .. n -> T]
      BY DEF PointerBytes
    <2> HIDE DEF T
    <2> QED BY <1>1, <2>1
  <1>3. ASSUME n = 4
        PROVE  \E T : Hex1Distance \in Seq(T) /\ Len(Hex1Distance) = 4
    <2>1. CASE Defined(Hex1Name)
      BY <1>2, <1>3, <2>1 DEF Hex1Distance
    <2>2. CASE ~Defined(Hex1Name)
      <3> DEFINE T == {[slot |-> Hex1Name, byte |-> k] : k \in 1 .. 4}
      <3>1. Hex1Distance \in [1 .. 4 -> T]
        BY <2>2 DEF Hex1Distance
      <3> HIDE DEF T
      <3> QED BY <1>1, <1>3, <3>1
    <2> QED BY <2>1, <2>2
  <1> QED BY <1>2, <1>3

(* A pointer takes one, two or four bytes.                                 *)
LEMMA WidthFacts ==
  ASSUME NEW c \in PointerOps
  PROVE  Width(c) \in {1, 2, 4}
  <1>1. c = "!" \/ c = "@" \/ c = "$" \/ c = "%" \/ c = "&"
    BY DEF PointerOps
  <1>2. /\ Width("!") = 1 /\ Width("@") = 2 /\ Width("$") = 2
        /\ Width("%") = 4 /\ Width("&") = 4
    BY DEF Width
  <1> QED BY <1>1, <1>2

-----------------------------------------------------------------------------
(* The inductive invariant *)

(* Where a turn of either pass that begins at p leaves the text, and what  *)
(* room a pointer takes.                                                   *)
Behind(p) == LET c == input[p] IN
    IF tool \in Hex1Ports
    THEN IF c \in {":", "%"} THEN Skip(input, p, 2)
         ELSE IF c \in Comment THEN Skip(input, Hex1CommentEnd(p + 1), 1) ELSE p + 1
    ELSE IF c = ":" THEN Skip(input, TokenEnd(p + 1), 1)
         ELSE IF c \in PointerOps THEN Skip(input, ReferenceEnd(p + 1), 1)
         ELSE IF c \in Comment THEN Skip(input, Hex2Comment(p + 1), 1) ELSE p + 1

Pointers == IF tool \in Hex1Ports THEN {"%"} ELSE PointerOps

(* A point of a pass is the position, the address of the next byte and how *)
(* many nibbles of that byte have been read.                               *)
Turn(t) == LET c == input[t[1]] IN
    IF c = ":" THEN <<Behind(t[1]), t[2], t[3]>>
    ELSE IF c \in Pointers THEN <<Behind(t[1]), t[2] + Width(c), t[3]>>
    ELSE IF c \in HexDigit THEN <<Behind(t[1]), t[2] + t[3], 1 - t[3]>>
    ELSE <<Behind(t[1]), t[2], t[3]>>

Nibbles == IF half THEN 1 ELSE 0

(* What the first pass has counted too early.                              *)
Early(n) == IF tool = "hex2.c" THEN 0 ELSE n

Measured == <<pos, ip - Early(Nibbles), Nibbles>>
Written  == <<pos, ip, Nibbles>>

LabelledAt(p, i) == \E k \in DOMAIN labels : labels[k].at = p /\ labels[k].target = i

(* The first pass was in t and has gone on from there, in S.               *)
Recorded(t, S) ==
    /\ t[1] <= Len(input) /\ Turn(t) \in S
    /\ input[t[1]] = ":" => LabelledAt(t[1], t[2] + Early(t[3]))

Types ==
    /\ TextOK
    /\ tool \in ToolSet
    /\ phase \in {"first", "second"} \cup Stopped
    /\ pos \in 1 .. Len(input) + 1
    /\ ip \in Nat /\ fpIp \in Nat
    /\ half \in BOOLEAN /\ hold \in 0 .. 15 /\ split \in BOOLEAN
    /\ labels \in Seq(Label)
    /\ \E S : out \in Seq(S)
    /\ \E S : results \in Seq(S)
    /\ Len(results) <= 6

(* The first pass leaves a track: every point of it but the last leads to  *)
(* the next, and every definition on it is in the list.                    *)
FirstInv ==
    phase = "first" =>
        /\ out = << >>
        /\ \E S : /\ <<1, Start(tool), 0>> \in S /\ Measured \in S
                  /\ \A t \in S : t = Measured \/ Recorded(t, S)

(* The second pass follows that track, whose end is where the first pass   *)
(* counted to fpIp.                                                        *)
SecondInv ==
    phase = "second" /\ tool \notin Hex0Ports =>
        /\ Len(out) = ip - Start(tool)
        /\ \E S : /\ Written \in S
                  /\ \A t \in S : \/ Recorded(t, S)
                                  \/ t[1] > Len(input) /\ fpIp = t[2] + Early(t[3])

StageInv == Types /\ FirstInv /\ SecondInv /\ PassesMeet

(* Nothing a pass reads from the text changes while the text and the tool  *)
(* stay.                                                                   *)
LEMMA SameText ==
  ASSUME UNCHANGED <<tool, input>>
  PROVE  /\ TextOK' <=> TextOK
         /\ Label' = Label
         /\ \A t : Turn(t)' = Turn(t)
         /\ \A n : Early(n)' = Early(n)
  <1>1. (TextOK' <=> TextOK) /\ Label' = Label /\ \A n : Early(n)' = Early(n)
    BY DEF TextOK, Label, Early
  <1>2. \A p : /\ TokenEnd(p)' = TokenEnd(p) /\ Hex1CommentEnd(p)' = Hex1CommentEnd(p)
               /\ Hex2Comment(p)' = Hex2Comment(p)
    BY DEF TokenEnd, Hex1CommentEnd, Hex1Comment, Hex1RvComment, Hex2Comment
  <1>3. \A p : ReferenceEnd(p)' = ReferenceEnd(p)
    BY <1>2 DEF ReferenceEnd, HasBase, BaseStart
  <1>4. \A p : Behind(p)' = Behind(p)
    BY <1>2, <1>3 DEF Behind
  <1>5. Pointers' = Pointers
    BY DEF Pointers
  <1>6. \A t : Turn(t)' = Turn(t)
    BY <1>4, <1>5 DEF Turn
  <1> QED BY <1>1, <1>6

(* A point that was recorded stays so while no label is forgotten.         *)
LEMMA StaysRecorded ==
  ASSUME UNCHANGED <<tool, input>>, NEW S, NEW R, S \subseteq R,
         \A p, i : LabelledAt(p, i) => LabelledAt(p, i)'
  PROVE  \A t : Recorded(t, S) => Recorded(t, R)'
  BY SameText DEF Recorded

(* The types of a step that takes a tool from one state to another.        *)
LEMMA TypesKeep ==
  ASSUME Types, UNCHANGED <<tool, input, results>>,
         phase' \in {"first", "second"} \cup Stopped, pos' \in 1 .. Len(input) + 1,
         ip' \in Nat, fpIp' \in Nat, half' \in BOOLEAN, hold' \in 0 .. 15, split' \in BOOLEAN,
         labels' \in Seq(Label), NEW S, out' \in Seq(S)
  PROVE  Types'
  BY SameText DEF Types

(* The invariant holds of every text before the first tool runs.           *)
LEMMA InitStages == Init => StageInv
  <1> SUFFICES ASSUME Init
               PROVE  StageInv
    OBVIOUS
  <1>1. TextOK /\ Len(input) \in Nat
    BY HexStagesAssumption, LenProperties DEF Init, TextOK
  <1>2. Tools[1] \in ToolSet /\ tool = "hex0" /\ phase = "second"
    <2>1. Tools[1] = "hex0" /\ "hex0" \in Hex0Ports /\ 1 \in 1 .. 6
      BY DEF Tools, Hex0Ports
    <2> QED BY <2>1, ToolFacts DEF Init, Entry
  <1>3. ip \in Nat
    BY DEF Init, Start, Base
  <1>4. << >> \in Seq(Label) /\ << >> \in Seq({}) /\ Len(<< >>) = 0
    BY EmptySeq
  <1>5. Types
    <2>1. (\E S : out \in Seq(S)) /\ (\E S : results \in Seq(S)) /\ Len(results) <= 6
      BY <1>4 DEF Init
    <2>2. labels \in Seq(Label) /\ hold \in 0 .. 15 /\ pos \in 1 .. Len(input) + 1 /\ fpIp \in Nat
      BY <1>1, <1>4 DEF Init
    <2> QED BY <1>1, <1>2, <1>3, <2>1, <2>2 DEF Init, Types
  <1>6. tool \in Hex0Ports
    BY <1>2 DEF Hex0Ports
  <1> QED BY <1>2, <1>5, <1>6 DEF StageInv, FirstInv, SecondInv, PassesMeet

-----------------------------------------------------------------------------
(* The steps all passes are made of *)

(* Where a pass is while it has text to read.                              *)
LEMMA PassFacts ==
  ASSUME StageInv
  PROVE  /\ Len(input) \in Nat /\ TextOK /\ pos \in 1 .. Len(input) + 1
         /\ More => pos \in 1 .. Len(input) /\ pos + 1 \in 1 .. Len(input) + 1
         /\ ip \in Nat /\ half \in BOOLEAN /\ hold \in 0 .. 15 /\ split \in BOOLEAN
         /\ labels \in Seq(Label)
         /\ \E S : out \in Seq(S)
         /\ Nibbles \in {0, 1}
  BY LenProperties DEF StageInv, Types, TextOK, More, AtEnd, Nibbles

(* A tool stops without having finished.                                   *)
LEMMA StopKeeps ==
  ASSUME StageInv, UNCHANGED <<tool, results>>,
         NEW where \in Stopped, Stop(where), where = "done" => tool \in Hex0Ports
  PROVE  StageInv'
  <1>1. where \notin {"first", "second"}
    BY DEF Stopped
  <1>2. Types'
    <2>1. (TextOK' <=> TextOK) /\ Label' = Label
      BY SameText DEF Stop
    <2> QED BY <2>1 DEF StageInv, Types, Stop
  <1> QED BY <1>1, <1>2 DEF StageInv, FirstInv, SecondInv, PassesMeet, Stop

(* A turn of the first pass.                                               *)
LEMMA FirstTurn ==
  ASSUME StageInv, phase = "first", More, UNCHANGED <<tool, input, results, phase, hold, out, fpIp>>,
         pos' \in 1 .. Len(input) + 1, ip' \in Nat, half' \in BOOLEAN, split' \in BOOLEAN,
         labels' \in Seq(Label), \A p, i : LabelledAt(p, i) => LabelledAt(p, i)',
         \A p, i : Char = ":" /\ p = pos /\ i = ip => LabelledAt(p, i)',
         Measured' = Turn(Measured)
  PROVE  StageInv'
  <1>1. Types'
    <2>1. PICK S : out' \in Seq(S)
      BY PassFacts
    <2>2. /\ phase' \in {"first", "second"} \cup Stopped
          /\ fpIp' \in Nat /\ hold' \in 0 .. 15
      BY DEF StageInv, Types
    <2> QED BY <2>1, <2>2, TypesKeep DEF StageInv
  <1>2. PICK S : /\ <<1, Start(tool), 0>> \in S /\ Measured \in S
                 /\ \A t \in S : t = Measured \/ Recorded(t, S)
    BY DEF StageInv, FirstInv
  <1>3. PICK here, there : here = Measured /\ there = Turn(Measured)
    OBVIOUS
  <1> DEFINE R == S \cup {there}
  <1>4. S \subseteq R /\ there \in R
    OBVIOUS
  <1>5. \A t : Recorded(t, S) => Recorded(t, R)'
    BY <1>4, StaysRecorded
  <1>6. Recorded(here, R)'
    <2>1. pos <= Len(input) /\ here[1] = pos
      BY <1>3, PassFacts DEF More, AtEnd, Measured
    <2>2. here[2] + Early(here[3]) = ip
      <3>1. here[2] = ip - Early(Nibbles) /\ here[3] = Nibbles
        BY <1>3 DEF Measured
      <3>2. Early(Nibbles) \in Int /\ ip \in Int
        BY PassFacts DEF Early
      <3> QED BY <3>1, <3>2
    <2>3. Turn(here)' = there /\ Early(here[3])' = Early(here[3])
      BY <1>3, SameText
    <2>4. \A n : here[2] + Early(here[3]) = n /\ Char = ":" => LabelledAt(here[1], n)'
      BY <2>1, <2>2
    <2>5. input'[here[1]] = ":" => LabelledAt(here[1], here[2] + Early(here[3]))'
      BY <2>1, <2>3, <2>4 DEF Char
    <2> QED BY <1>4, <2>1, <2>3, <2>5 DEF Recorded
  <1>7. Measured' = there
    BY <1>3
  <1>8. \A t \in R : t = there \/ Recorded(t, R)'
    BY <1>2, <1>3, <1>5, <1>6
  <1>9. <<1, Start(tool)', 0>> \in R
    BY <1>2 DEF Start
  <1> HIDE DEF R
  <1>10. FirstInv'
    BY <1>4, <1>7, <1>8, <1>9 DEF StageInv, FirstInv
  <1> QED BY <1>1, <1>10 DEF StageInv, SecondInv, PassesMeet

(* The first pass ends at the end of the track, and the second begins at   *)
(* its beginning.                                                          *)
LEMMA RewindKeeps ==
  ASSUME StageInv, phase = "first", ~More, UNCHANGED <<tool, results>>,
         Rewind(Start(tool)), Start(tool) \in Nat
  PROVE  StageInv'
  <1>1. Types'
    <2>1. PICK S : out' \in Seq(S)
      BY PassFacts DEF Rewind
    <2>2. /\ fpIp' \in Nat /\ hold' \in 0 .. 15 /\ ip' \in Nat /\ pos' \in 1 .. Len(input) + 1
          /\ labels' \in Seq(Label) /\ UNCHANGED <<tool, input, results>>
      BY PassFacts DEF Rewind
    <2>3. half' \in BOOLEAN /\ split' \in BOOLEAN
      BY PassFacts, Zenon DEF Rewind
    <2>4. phase' \in {"first", "second"} \cup Stopped
      BY DEF Rewind
    <2> QED BY <2>1, <2>2, <2>3, <2>4, TypesKeep DEF StageInv
  <1>2. PICK S : /\ <<1, Start(tool), 0>> \in S /\ Measured \in S
                 /\ \A t \in S : t = Measured \/ Recorded(t, S)
    BY DEF StageInv, FirstInv
  <1>3. PICK here : here = Measured
    OBVIOUS
  <1>4. \A t : Recorded(t, S) => Recorded(t, S)'
    BY StaysRecorded DEF Rewind, LabelledAt
  <1>5. here[1] > Len(input)' /\ fpIp' = here[2] + Early(here[3])'
    <2>1. here[1] > Len(input)'
      BY <1>3 DEF More, AtEnd, Rewind, Measured
    <2>2. here[2] = ip - Early(Nibbles) /\ here[3] = Nibbles
      BY <1>3 DEF Measured
    <2>3. Early(Nibbles) \in Int /\ ip \in Int
      BY PassFacts DEF Early
    <2>4. Early(here[3])' = Early(here[3])
      BY SameText DEF Rewind
    <2> QED BY <2>1, <2>2, <2>3, <2>4 DEF Rewind
  <1>6. \A t \in S : \/ Recorded(t, S)'
                     \/ t[1] > Len(input)' /\ fpIp' = t[2] + Early(t[3])'
    BY <1>2, <1>3, <1>4, <1>5
  <1>7. Written' = <<1, Start(tool), 0>>
    BY DEF Rewind, Written, Nibbles
  <1>8. Len(out') = ip' - Start(tool)'
    <2>1. out' = << >> /\ ip' = Start(tool) /\ Start(tool)' = Start(tool)
      BY DEF Rewind, StageInv, FirstInv, Start
    <2> QED BY <2>1
  <1>9. SecondInv'
    BY <1>2, <1>6, <1>7, <1>8 DEF SecondInv
  <1> QED BY <1>1, <1>9 DEF StageInv, FirstInv, PassesMeet, Rewind

(* A turn of the second pass.                                              *)
LEMMA SecondTurn ==
  ASSUME StageInv, phase = "second", tool \notin Hex0Ports, More,
         UNCHANGED <<tool, input, results, phase, labels, fpIp, split>>,
         pos' \in 1 .. Len(input) + 1, ip' \in Nat, half' \in BOOLEAN, hold' \in 0 .. 15,
         NEW V, out' \in Seq(V), Len(out') - ip' = Len(out) - ip, Written' = Turn(Written)
  PROVE  StageInv'
  <1>1. Types'
    <2>1. /\ phase' \in {"first", "second"} \cup Stopped
          /\ fpIp' \in Nat /\ split' \in BOOLEAN /\ labels' \in Seq(Label)
      BY DEF StageInv, Types
    <2> QED BY <2>1, TypesKeep DEF StageInv
  <1>2. PICK S : /\ Written \in S
                 /\ \A t \in S : \/ Recorded(t, S)
                                 \/ t[1] > Len(input) /\ fpIp = t[2] + Early(t[3])
    BY DEF StageInv, SecondInv
  <1>3. PICK here : here = Written
    OBVIOUS
  <1>4. \A t : Recorded(t, S) => Recorded(t, S)'
    BY StaysRecorded DEF LabelledAt
  <1>5. \A n : Early(n)' = Early(n)
    BY SameText
  <1>6. \A t \in S : \/ Recorded(t, S)'
                     \/ t[1] > Len(input)' /\ fpIp' = t[2] + Early(t[3])'
    BY <1>2, <1>4, <1>5
  <1>7. Written' \in S
    <2>1. ~ (here[1] > Len(input))
      BY <1>3, PassFacts DEF More, AtEnd, Written
    <2>2. Recorded(here, S)
      BY <1>2, <1>3, <2>1
    <2> QED BY <1>3, <2>2 DEF Recorded
  <1>8. Len(out') = ip' - Start(tool)'
    <2>1. Len(out) = ip - Start(tool) /\ Start(tool)' = Start(tool)
      BY DEF StageInv, SecondInv, Start
    <2>2. Len(out) \in Nat /\ Len(out') \in Nat /\ ip \in Nat /\ Start(tool) \in Nat
      BY PassFacts, LenProperties DEF Start, Base
    <2> QED BY <2>1, <2>2
  <1>9. SecondInv'
    BY <1>6, <1>7, <1>8 DEF SecondInv
  <1> QED BY <1>1, <1>9 DEF StageInv, FirstInv, PassesMeet

(* The second pass ends where the first did.                               *)
LEMMA DoneKeeps ==
  ASSUME StageInv, phase = "second", tool \notin Hex0Ports, ~More,
         UNCHANGED <<tool, results>>, Stop("done")
  PROVE  StageInv'
  <1>1. Types'
    <2>1. (TextOK' <=> TextOK) /\ Label' = Label
      BY SameText DEF Stop
    <2> QED BY <2>1 DEF StageInv, Types, Stop, Stopped
  <1>2. PICK S : /\ Written \in S
                 /\ \A t \in S : \/ Recorded(t, S)
                                 \/ t[1] > Len(input) /\ fpIp = t[2] + Early(t[3])
    BY DEF StageInv, SecondInv
  <1>3. ~Recorded(Written, S)
    BY PassFacts DEF Recorded, Written, More, AtEnd
  <1>4. fpIp = Written[2] + Early(Written[3])
    BY <1>2, <1>3
  <1>5. fpIp = ip + Early(Nibbles)
    BY <1>4 DEF Written
  <1>6. Early(Nibbles) = IF CountsAhead THEN 1 ELSE 0
    BY DEF Early, Nibbles, CountsAhead
  <1>7. PassesMeet'
    <2>1. fpIp' = ip' + (IF CountsAhead' THEN 1 ELSE 0)
      BY <1>5, <1>6 DEF Stop, CountsAhead
    <2>2. Len(out') = ip' - Start(tool)'
      BY DEF StageInv, SecondInv, Stop, Start
    <2> QED BY <2>1, <2>2 DEF PassesMeet
  <1> QED BY <1>1, <1>7 DEF StageInv, FirstInv, SecondInv, Stop

-----------------------------------------------------------------------------
(* The first pass *)

(* A turn that leaves the toggle alone takes a pass n bytes on.            *)
LEMMA Plain ==
  ASSUME StageInv, UNCHANGED tool, half' = half, NEW n \in Nat, ip' = ip + n,
         pos' = Behind(pos),
         \/ Char = ":" /\ n = 0
         \/ Char # ":" /\ Char \in Pointers /\ n = Width(Char)
         \/ Char # ":" /\ Char \notin Pointers \cup HexDigit /\ n = 0
  PROVE  Measured' = Turn(Measured) /\ Written' = Turn(Written)
  <1>1. \A t : t[1] = pos /\ t[2] \in Int => Turn(t) = <<Behind(pos), t[2] + n, t[3]>>
    BY DEF Turn, Char
  <1>2. ip \in Int /\ Early(Nibbles) \in Int /\ Nibbles' = Nibbles
        /\ Early(Nibbles)' = Early(Nibbles)
    BY PassFacts DEF Early, Nibbles
  <1>3. Written' = Turn(Written)
    <2>1. Written[1] = pos /\ Written[2] = ip /\ Written[3] = Nibbles
      BY DEF Written
    <2>2. Turn(Written) = <<Behind(pos), ip + n, Nibbles>>
      BY <1>1, <1>2, <2>1
    <2> QED BY <1>2, <2>2 DEF Written
  <1>4. Measured' = Turn(Measured)
    <2>1. Measured[1] = pos /\ Measured[2] = ip - Early(Nibbles) /\ Measured[3] = Nibbles
      BY DEF Measured
    <2>2. Turn(Measured) = <<Behind(pos), ip - Early(Nibbles) + n, Nibbles>>
      BY <1>1, <1>2, <2>1
    <2>3. ip' - Early(Nibbles)' = ip - Early(Nibbles) + n
      BY <1>2
    <2>4. Measured' = <<pos', ip' - Early(Nibbles)', Nibbles'>>
      BY DEF Measured
    <2> QED BY <1>2, <2>2, <2>3, <2>4
  <1> QED BY <1>3, <1>4

(* A nibble: the second one completes a byte.                              *)
LEMMA Digit ==
  ASSUME StageInv, UNCHANGED tool, half' = ~half, pos' = Behind(pos),
         Char # ":", Char \notin Pointers, Char \in HexDigit
  PROVE  /\ ip' = (IF half THEN ip + 1 ELSE ip) => Written' = Turn(Written)
         /\ ip' = (IF half /\ tool # "hex2.c" THEN ip
                   ELSE IF half \/ tool # "hex2.c" THEN ip + 1 ELSE ip)
               => Measured' = Turn(Measured)
  <1>1. \A t : t[1] = pos => Turn(t) = <<Behind(pos), t[2] + t[3], 1 - t[3]>>
    BY DEF Turn, Char
  <1>2. ip \in Int /\ Nibbles' = 1 - Nibbles
        /\ (half => Nibbles = 1) /\ (~half => Nibbles = 0)
    <2>1. (half => Nibbles = 1) /\ (~half => Nibbles = 0)
      BY DEF Nibbles
    <2>2. (half => Nibbles' = 0) /\ (~half => Nibbles' = 1)
      BY DEF Nibbles
    <2> QED BY <2>1, <2>2, PassFacts
  <1>3. Early(Nibbles) = (IF half /\ tool # "hex2.c" THEN 1 ELSE 0)
        /\ Early(Nibbles)' = (IF ~half /\ tool # "hex2.c" THEN 1 ELSE 0)
    BY PassFacts DEF Early, Nibbles
  <1>4. ASSUME ip' = IF half THEN ip + 1 ELSE ip
        PROVE  Written' = Turn(Written)
    <2>1. Written[1] = pos /\ Written[2] = ip /\ Written[3] = Nibbles
      BY DEF Written
    <2>2. Turn(Written) = <<Behind(pos), ip + Nibbles, 1 - Nibbles>>
      BY <1>1, <2>1
    <2>3. ip' = ip + Nibbles
      BY <1>2, <1>4
    <2> QED BY <1>2, <2>2, <2>3 DEF Written
  <1>5. ASSUME ip' = IF half /\ tool # "hex2.c" THEN ip
                     ELSE IF half \/ tool # "hex2.c" THEN ip + 1 ELSE ip
        PROVE  Measured' = Turn(Measured)
    <2>1. Measured[1] = pos /\ Measured[2] = ip - Early(Nibbles) /\ Measured[3] = Nibbles
      BY DEF Measured
    <2>2. Turn(Measured) = <<Behind(pos), ip - Early(Nibbles) + Nibbles, 1 - Nibbles>>
      BY <1>1, <2>1
    <2>3. ip' - Early(Nibbles)' = ip - Early(Nibbles) + Nibbles
      BY <1>2, <1>3, <1>5
    <2>4. Measured' = <<pos', ip' - Early(Nibbles)', Nibbles'>>
      BY DEF Measured
    <2> QED BY <1>2, <2>2, <2>3, <2>4
  <1> QED BY <1>4, <1>5

(* A label is put in front of the list, with the address counted so far.   *)
LEMMA DefineFacts ==
  ASSUME StageInv, More, NEW name \in Name, Define(name)
  PROVE  /\ labels' \in Seq(Label) /\ split' \in BOOLEAN
         /\ \A p, i : LabelledAt(p, i) => LabelledAt(p, i)'
         /\ \A p, i : p = pos /\ i = ip => LabelledAt(p, i)'
  <1> DEFINE new == [name |-> name, target |-> ip, at |-> pos]
  <1>1. new \in Label
    BY PassFacts DEF Label
  <1>2. labels' = <<new>> \o labels /\ split' = (split \/ half)
    BY DEF Define
  <1>3. new.at = pos /\ new.target = ip
    OBVIOUS
  <1> HIDE DEF new
  <1>4. <<new>> \in Seq(Label) /\ Len(<<new>>) = 1 /\ <<new>>[1] = new
    BY <1>1, OneIsSeq
  <1>5. labels \in Seq(Label)
    BY PassFacts
  <1>6. /\ labels' \in Seq(Label) /\ Len(labels') = 1 + Len(labels) /\ Len(labels) \in Nat
        /\ \A k \in 1 .. 1 + Len(labels) : labels'[k] = IF k <= 1 THEN new ELSE labels[k - 1]
    BY <1>2, <1>4, <1>5, ConcatProperties, LenProperties
  <1>7. DOMAIN labels' = 1 .. 1 + Len(labels) /\ DOMAIN labels = 1 .. Len(labels)
    BY <1>5, <1>6, LenProperties
  <1>8. ASSUME NEW p, NEW i, LabelledAt(p, i)
        PROVE  LabelledAt(p, i)'
    <2>1. PICK k \in DOMAIN labels : labels[k].at = p /\ labels[k].target = i
      BY <1>8 DEF LabelledAt
    <2>2. k + 1 \in DOMAIN labels' /\ labels'[k + 1] = labels[k]
      BY <1>6, <1>7, <2>1
    <2> QED BY <2>1, <2>2 DEF LabelledAt
  <1>9. ASSUME NEW p, NEW i, p = pos, i = ip
        PROVE  LabelledAt(p, i)'
    <2>1. 1 \in DOMAIN labels' /\ labels'[1] = new
      BY <1>6, <1>7
    <2> QED BY <1>3, <1>9, <2>1 DEF LabelledAt
  <1>10. split' \in BOOLEAN
    BY <1>2, PassFacts, Zenon
  <1> QED BY <1>6, <1>8, <1>9, <1>10

(* Where a turn leaves the text.                                           *)
LEMMA BehindFacts ==
  ASSUME StageInv, More
  PROVE  /\ Behind(pos) \in 1 .. Len(input) + 1
         /\ tool \in Hex1Ports => Behind(pos) = IF Char \in {":", "%"} THEN Skip(input, pos, 2)
                                               ELSE Hex1After
         /\ tool \in Hex2Ports =>
               Behind(pos) = IF Char = ":" THEN Skip(input, TokenEnd(pos + 1), 1)
                             ELSE IF Char \in PointerOps THEN Skip(input, ReferenceEnd(pos + 1), 1)
                             ELSE Hex2After
  <1>1. /\ Len(input) \in Nat /\ TextOK /\ pos \in 1 .. Len(input) /\ pos + 1 \in 1 .. Len(input) + 1
    BY PassFacts
  <1>2. ASSUME NEW q \in 1 .. Len(input) + 1
        PROVE  Skip(input, q, 1) \in 1 .. Len(input) + 1 /\ Skip(input, q, 2) \in 1 .. Len(input) + 1
    <2>1. Skip(input, q, 1) \in q .. Len(input) + 1 /\ Skip(input, q, 2) \in q .. Len(input) + 1
      BY <1>1, SkipFacts
    <2> QED BY <1>1, <2>1
  <1>3. /\ TokenEnd(pos + 1) \in 1 .. Len(input) + 1
        /\ ReferenceEnd(pos + 1) \in 1 .. Len(input) + 1
        /\ Hex1CommentEnd(pos + 1) \in 1 .. Len(input) + 1
        /\ Hex2Comment(pos + 1) \in 1 .. Len(input) + 1
    <2> DEFINE p == pos + 1
    <2>1. p \in 1 .. Len(input) + 1 /\ \A q \in p .. Len(input) + 1 : q \in 1 .. Len(input) + 1
      BY <1>1
    <2> HIDE DEF p
    <2>2. /\ TokenEnd(p) \in p .. Len(input) + 1
          /\ ReferenceEnd(p) \in p .. Len(input) + 1
          /\ Hex1CommentEnd(p) \in p .. Len(input) + 1
          /\ Hex2Comment(p) \in p .. Len(input) + 1
      BY <1>1, <2>1, EndFacts
    <2> QED BY <2>1, <2>2 DEF p
  <1>4. Behind(pos) \in 1 .. Len(input) + 1
    <2> DEFINE T == 1 .. Len(input) + 1
    <2>1. pos \in T /\ pos + 1 \in T
      BY <1>1
    <2>2. /\ Skip(input, pos, 2) \in T
          /\ Skip(input, TokenEnd(pos + 1), 1) \in T /\ Skip(input, ReferenceEnd(pos + 1), 1) \in T
          /\ Skip(input, Hex1CommentEnd(pos + 1), 1) \in T
          /\ Skip(input, Hex2Comment(pos + 1), 1) \in T
      BY <1>2, <1>3, <2>1
    <2> HIDE DEF T
    <2>3. Behind(pos) \in T
      BY <2>1, <2>2 DEF Behind
    <2> QED BY <2>3 DEF T
  <1>5. tool \in Hex2Ports => tool \notin Hex1Ports
    BY ToolFacts
  <1> QED BY <1>4, <1>5 DEF Behind, Hex1After, Hex2After, Char

(* The steps of the first passes: what a turn of any of them has to show.  *)
LEMMA PlainFirst ==
  ASSUME StageInv, phase = "first", More, UNCHANGED <<tool, results, labels, split>>,
         NEW n \in Nat, FpGoto(Behind(pos), ip + n, half),
         \/ Char # ":" /\ Char \in Pointers /\ n = Width(Char)
         \/ Char # ":" /\ Char \notin Pointers \cup HexDigit /\ n = 0
  PROVE  StageInv'
  <1>1. /\ UNCHANGED <<tool, input, results, phase, hold, out, fpIp>>
        /\ pos' = Behind(pos) /\ ip' = ip + n /\ half' = half
    BY DEF FpGoto
  <1>2. /\ pos' \in 1 .. Len(input) + 1 /\ ip' \in Nat /\ half' \in BOOLEAN /\ split' \in BOOLEAN
        /\ labels' \in Seq(Label)
    BY <1>1, PassFacts, BehindFacts
  <1>3. Measured' = Turn(Measured)
    BY <1>1, Plain
  <1>4. \A p, i : LabelledAt(p, i) => LabelledAt(p, i)'
    BY DEF LabelledAt
  <1>5. Char # ":"
    OBVIOUS
  <1> QED BY <1>1, <1>2, <1>3, <1>4, <1>5, FirstTurn

(* A definition.                                                           *)
LEMMA LabelFirst ==
  ASSUME StageInv, phase = "first", More, UNCHANGED <<tool, results>>, Char = ":",
         NEW name \in Name, Define(name), FpGoto(Behind(pos), ip, half)
  PROVE  StageInv'
  <1>1. /\ UNCHANGED <<tool, input, results, phase, hold, out, fpIp>>
        /\ pos' = Behind(pos) /\ ip' = ip + 0 /\ half' = half
    BY PassFacts DEF FpGoto
  <1>2. pos' \in 1 .. Len(input) + 1 /\ ip' \in Nat /\ half' \in BOOLEAN
    BY <1>1, PassFacts, BehindFacts
  <1>3. Measured' = Turn(Measured)
    BY <1>1, Plain
  <1> QED BY <1>1, <1>2, <1>3, DefineFacts, FirstTurn

(* A nibble.                                                               *)
LEMMA DigitFirst ==
  ASSUME StageInv, phase = "first", More, UNCHANGED <<tool, results, labels, split>>,
         Char # ":", Char \notin Pointers, Char \in HexDigit,
         FpGoto(Behind(pos), IF half /\ tool # "hex2.c" THEN ip
                             ELSE IF half \/ tool # "hex2.c" THEN ip + 1 ELSE ip, ~half)
  PROVE  StageInv'
  <1>1. /\ UNCHANGED <<tool, input, results, phase, hold, out, fpIp>>
        /\ pos' = Behind(pos) /\ half' = ~half
        /\ ip' = IF half /\ tool # "hex2.c" THEN ip
                 ELSE IF half \/ tool # "hex2.c" THEN ip + 1 ELSE ip
    BY DEF FpGoto
  <1>2. /\ pos' \in 1 .. Len(input) + 1 /\ ip' \in Nat /\ half' \in BOOLEAN /\ split' \in BOOLEAN
        /\ labels' \in Seq(Label)
    BY <1>1, PassFacts, BehindFacts
  <1>3. Measured' = Turn(Measured)
    BY <1>1, Digit
  <1>4. \A p, i : LabelledAt(p, i) => LabelledAt(p, i)'
    BY DEF LabelledAt
  <1> QED BY <1>1, <1>2, <1>3, <1>4, FirstTurn

(* hex1 measures.                                                          *)
LEMMA Hex1FirstKeeps ==
  ASSUME StageInv, Hex1Label \/ Hex1Skip \/ Hex1Measure, UNCHANGED <<tool, results>>
  PROVE  StageInv'
  <1>1. /\ tool \in Hex1Ports /\ tool # "hex2.c" /\ phase = "first" /\ More
        /\ Pointers = {"%"} /\ ip \in Nat
    BY PassFacts DEF Hex1Label, Hex1Skip, Hex1Measure, Hex1First, Hex1Ports, Pointers
  <1>2. Behind(pos) = IF Char \in {":", "%"} THEN Skip(input, pos, 2) ELSE Hex1After
    BY <1>1, BehindFacts
  <1>3. CASE Hex1Label
    <2>1. Hex1Name \in Name
      BY <1>1, PassFacts, NameFacts
    <2>2. CASE Hex1OffTable
      <3>1. Stop("wild") /\ "wild" \in Stopped
        BY <1>3, <2>2 DEF Hex1Label, Stopped
      <3> QED BY <3>1, StopKeeps
    <2>3. CASE ~Hex1OffTable
      <3>1. Char = ":" /\ Define(Hex1Name) /\ FpGoto(Behind(pos), ip, half)
        BY <1>2, <1>3, <2>3 DEF Hex1Label
      <3> QED BY <1>1, <2>1, <3>1, LabelFirst
    <2> QED BY <2>2, <2>3
  <1>4. CASE Hex1Skip
    <2>1. /\ Char = "%" /\ FpGoto(Behind(pos), ip + 4, half) /\ UNCHANGED <<labels, split>>
      BY <1>2, <1>4 DEF Hex1Skip
    <2>2. Width("%") = 4 /\ "%" # ":"
      BY DEF Width
    <2> QED BY <1>1, <2>1, <2>2, PlainFirst
  <1>5. CASE Hex1Measure /\ Hex1Lost
    <2>1. Stop("runaway") /\ "runaway" \in Stopped
      BY <1>5 DEF Hex1Measure, Stopped
    <2> QED BY <2>1, StopKeeps
  <1>6. CASE Hex1Measure /\ ~Hex1Lost
    <2>1. Char \notin {":", "%"} /\ Behind(pos) = Hex1After /\ UNCHANGED <<labels, split>>
      BY <1>2, <1>6 DEF Hex1Measure
    <2>2. CASE Char \in HexDigit
      <3>1. FpGoto(Behind(pos), IF half THEN ip ELSE ip + 1, ~half)
        BY <1>6, <2>1, <2>2 DEF Hex1Measure, Hex1Count
      <3>2. (IF half THEN ip ELSE ip + 1) = IF half /\ tool # "hex2.c" THEN ip
                                            ELSE IF half \/ tool # "hex2.c" THEN ip + 1 ELSE ip
        BY <1>1
      <3> QED BY <1>1, <2>1, <2>2, <3>1, <3>2, DigitFirst
    <2>3. CASE Char \notin HexDigit
      <3>1. FpGoto(Behind(pos), ip + 0, half)
        BY <1>1, <1>6, <2>1, <2>3 DEF Hex1Measure
      <3> QED BY <1>1, <2>1, <2>3, <3>1, PlainFirst
    <2> QED BY <2>2, <2>3
  <1> QED BY <1>3, <1>4, <1>5, <1>6

(* So does hex2.                                                           *)
LEMMA Hex2FirstKeeps ==
  ASSUME StageInv, Hex2Label \/ Hex2Skip \/ Hex2Tilde \/ Hex2Measure, UNCHANGED <<tool, results>>
  PROVE  StageInv'
  <1>1. /\ tool \in Hex2Ports /\ phase = "first" /\ More /\ Pointers = PointerOps /\ ip \in Nat
    <2>1. tool \in Hex2Ports /\ phase = "first" /\ More
      BY DEF Hex2Label, Hex2Skip, Hex2Tilde, Hex2Measure, Hex2First
    <2> QED BY <2>1, PassFacts, ToolFacts DEF Pointers
  <1>2. Behind(pos) = IF Char = ":" THEN Skip(input, TokenEnd(pos + 1), 1)
                      ELSE IF Char \in PointerOps THEN Skip(input, ReferenceEnd(pos + 1), 1)
                      ELSE Hex2After
    BY <1>1, BehindFacts
  <1>3. ASSUME Stop("runaway") \/ Stop("failed")
        PROVE  StageInv'
    <2>1. "runaway" \in Stopped /\ "failed" \in Stopped
      BY DEF Stopped
    <2> QED BY <1>3, <2>1, StopKeeps
  <1>4. CASE Hex2Label /\ ~Endless(pos + 1)
    <2>1. Token(pos + 1) \in Name
      BY <1>1, PassFacts, NameFacts
    <2>2. Char = ":" /\ Define(Token(pos + 1)) /\ FpGoto(Behind(pos), ip, half)
      BY <1>2, <1>4 DEF Hex2Label
    <2> QED BY <1>1, <2>1, <2>2, LabelFirst
  <1>5. CASE Hex2Skip /\ ~ (Endless(pos + 1) \/ EndlessBase(pos + 1))
    <2>1. Char \in PointerOps /\ Char # ":" /\ Width(Char) \in Nat
      BY <1>5, WidthFacts DEF Hex2Skip, PointerOps
    <2>2. FpGoto(Behind(pos), ip + Width(Char), half) /\ UNCHANGED <<labels, split>>
      BY <1>2, <1>5, <2>1 DEF Hex2Skip
    <2> QED BY <1>1, <2>1, <2>2, PlainFirst
  <1>6. CASE Hex2Measure /\ ~Hex2Lost
    <2>1. Char # ":" /\ Char \notin PointerOps /\ Behind(pos) = Hex2After /\ UNCHANGED <<labels, split>>
      BY <1>2, <1>6 DEF Hex2Measure, Hex2Ops
    <2>2. CASE Char \in HexDigit
      <3>1. FpGoto(Behind(pos), Hex2Count, ~half)
        BY <1>6, <2>1, <2>2 DEF Hex2Measure
      <3>2. tool = "hex2" \/ tool = "hex2.c"
        BY <1>1 DEF Hex2Ports
      <3>3. Hex2Count = IF half /\ tool # "hex2.c" THEN ip
                        ELSE IF half \/ tool # "hex2.c" THEN ip + 1 ELSE ip
        BY <3>2 DEF Hex2Count, Hex2CountFirst
      <3> QED BY <1>1, <2>1, <2>2, <3>1, <3>3, DigitFirst
    <2>3. CASE Char \notin HexDigit
      <3>1. FpGoto(Behind(pos), ip + 0, half)
        BY <1>1, <1>6, <2>1, <2>3 DEF Hex2Measure
      <3> QED BY <1>1, <2>1, <2>3, <3>1, PlainFirst
    <2> QED BY <2>2, <2>3
  <1>7. CASE \/ Hex2Label /\ Endless(pos + 1)
             \/ Hex2Skip /\ (Endless(pos + 1) \/ EndlessBase(pos + 1))
             \/ Hex2Tilde
             \/ Hex2Measure /\ Hex2Lost
    BY <1>3, <1>7 DEF Hex2Label, Hex2Skip, Hex2Tilde, Hex2Measure
  <1> QED BY <1>4, <1>5, <1>6, <1>7

-----------------------------------------------------------------------------
(* The second pass *)

(* A turn that writes nothing, or a pointer.                               *)
LEMMA PlainSecond ==
  ASSUME StageInv, phase = "second", tool \notin Hex0Ports, More, UNCHANGED <<tool, results>>,
         SpGoto(Behind(pos)), UNCHANGED <<half, hold>>,
         NEW n \in Nat, ip' = ip + n, NEW V, out' \in Seq(V), Len(out') = Len(out) + n,
         \/ Char = ":" /\ n = 0
         \/ Char # ":" /\ Char \in Pointers /\ n = Width(Char)
         \/ Char # ":" /\ Char \notin Pointers \cup HexDigit /\ n = 0
  PROVE  StageInv'
  <1>1. UNCHANGED <<tool, input, results, phase, labels, fpIp, split>> /\ pos' = Behind(pos)
    BY DEF SpGoto
  <1>2. /\ pos' \in 1 .. Len(input) + 1 /\ ip' \in Nat /\ half' \in BOOLEAN /\ hold' \in 0 .. 15
        /\ Len(out) \in Nat
    BY <1>1, PassFacts, BehindFacts, LenProperties
  <1>3. Written' = Turn(Written)
    BY <1>1, Plain
  <1>4. Len(out') - ip' = Len(out) - ip
    BY <1>2, PassFacts
  <1> QED BY <1>1, <1>2, <1>3, <1>4, SecondTurn

(* A nibble, a comment, or a character that counts for nothing.            *)
LEMMA HexSecond ==
  ASSUME StageInv, phase = "second", tool \notin Hex0Ports, More, UNCHANGED <<tool, results>>,
         SpGoto(Behind(pos)), Char # ":", Char \notin Pointers,
         IF Char \in HexDigit THEN Toggle(Nibble(Char), 1) ELSE UNCHANGED <<ip, half, hold, out>>
  PROVE  StageInv'
  <1>1. UNCHANGED <<tool, input, results, phase, labels, fpIp, split>> /\ pos' = Behind(pos)
    BY DEF SpGoto
  <1>2. PICK V : out \in Seq(V)
    BY PassFacts
  <1>3. Len(out) \in Nat /\ ip \in Nat /\ pos' \in 1 .. Len(input) + 1
    BY <1>1, <1>2, PassFacts, BehindFacts, LenProperties
  <1>4. CASE Char \in HexDigit /\ half
    <2> DEFINE byte == [value |-> hold * 16 + Nibble(Char)]
               W == V \cup {byte}
    <2>1. out' = Append(out, byte) /\ half' = FALSE /\ ip' = ip + 1 /\ hold' = hold
      BY <1>4 DEF Toggle
    <2> HIDE DEF byte
    <2>2. out \in Seq(W) /\ byte \in W
      <3>1. V \subseteq W /\ byte \in W
        OBVIOUS
      <3> HIDE DEF W
      <3>2. \A k \in 1 .. Len(out) : out[k] \in W
        BY <1>2, <3>1, ElementOfSeq
      <3>3. out \in Seq(W)
        BY <1>2, <3>2
      <3> QED BY <3>1, <3>3
    <2> HIDE DEF W
    <2>3. out' \in Seq(W) /\ Len(out') = Len(out) + 1
      BY <2>1, <2>2, AppendProperties
    <2>4. half' = ~half /\ half' \in BOOLEAN
      BY <1>4, <2>1, Zenon
    <2>5. Written' = Turn(Written)
      BY <1>1, <1>4, <2>1, <2>4, Digit
    <2>6. ip' \in Nat /\ Len(out') - ip' = Len(out) - ip /\ hold' \in 0 .. 15
      BY <1>3, <2>1, <2>3, PassFacts
    <2> QED BY <1>1, <1>3, <2>3, <2>4, <2>5, <2>6, SecondTurn
  <1>5. CASE Char \in HexDigit /\ ~half
    <2>1. out' = out /\ half' = TRUE /\ ip' = ip /\ hold' = Nibble(Char)
      BY <1>5 DEF Toggle
    <2>2. half' = ~half /\ half' \in BOOLEAN
      BY <1>5, <2>1, Zenon
    <2>3. Written' = Turn(Written)
      BY <1>1, <1>5, <2>1, <2>2, Digit
    <2>4. hold' \in 0 .. 15
      BY <1>5, <2>1, DigitFacts
    <2>5. ip' \in Nat /\ Len(out') - ip' = Len(out) - ip /\ out' \in Seq(V)
      BY <1>2, <1>3, <2>1
    <2> QED BY <1>1, <1>3, <2>2, <2>3, <2>4, <2>5, SecondTurn
  <1>6. CASE Char \notin HexDigit
    <2>1. UNCHANGED <<ip, half, hold, out>>
      BY <1>6
    <2>2. ip' = ip + 0 /\ Len(out') = Len(out) + 0 /\ out' \in Seq(V)
      BY <1>2, <1>3, <2>1
    <2> QED BY <1>6, <2>1, <2>2, PlainSecond
  <1> QED BY <1>4, <1>5, <1>6

(* What is written goes behind the output.                                 *)
LEMMA OutFacts ==
  ASSUME StageInv, NEW T, NEW bytes \in Seq(T)
  PROVE  \E V : out \o bytes \in Seq(V) /\ Len(out \o bytes) = Len(out) + Len(bytes)
  <1>1. PICK U : out \in Seq(U)
    BY PassFacts
  <1> DEFINE V == U \cup T
  <1>2. U \subseteq V /\ T \subseteq V
    OBVIOUS
  <1> HIDE DEF V
  <1>3. out \in Seq(V) /\ bytes \in Seq(V)
    <2>1. (\A k \in 1 .. Len(out) : out[k] \in V) /\ \A k \in 1 .. Len(bytes) : bytes[k] \in V
      BY <1>1, <1>2, ElementOfSeq
    <2> QED BY <1>1, <2>1
  <1> QED BY <1>3, ConcatProperties

(* hex1 writes.                                                            *)
LEMMA Hex1SecondKeeps ==
  ASSUME StageInv, Hex1Drop \/ Hex1Pointer \/ Hex1Write, UNCHANGED <<tool, results>>
  PROVE  StageInv'
  <1>1. /\ tool \in Hex1Ports /\ tool \notin Hex0Ports /\ phase = "second" /\ More
        /\ Pointers = {"%"} /\ ip \in Nat
    <2>1. tool \in Hex1Ports /\ phase = "second" /\ More
      BY DEF Hex1Drop, Hex1Pointer, Hex1Write, Hex1Second
    <2> QED BY <2>1, PassFacts, ToolFacts DEF Pointers
  <1>2. Behind(pos) = IF Char \in {":", "%"} THEN Skip(input, pos, 2) ELSE Hex1After
    BY <1>1, BehindFacts
  <1>3. CASE Hex1Drop
    <2>1. /\ Char = ":" /\ SpGoto(Behind(pos)) /\ UNCHANGED <<ip, half, hold, out>>
      BY <1>2, <1>3 DEF Hex1Drop
    <2>2. PICK V : out \in Seq(V)
      BY PassFacts
    <2>3. ip' = ip + 0 /\ Len(out') = Len(out) + 0 /\ out' \in Seq(V)
      BY <1>1, <2>1, <2>2, LenProperties
    <2> QED BY <1>1, <2>1, <2>3, PlainSecond
  <1>4. CASE Hex1Pointer
    <2>1. /\ Char = "%" /\ SpGoto(Behind(pos)) /\ UNCHANGED <<half, hold>>
          /\ out' = out \o Hex1Distance /\ ip' = ip + 4
      BY <1>2, <1>4 DEF Hex1Pointer
    <2>2. PICK T : Hex1Distance \in Seq(T) /\ Len(Hex1Distance) = 4
      BY BytesFacts
    <2>3. PICK V : out' \in Seq(V) /\ Len(out') = Len(out) + 4
      BY <2>1, <2>2, OutFacts
    <2>4. Width("%") = 4 /\ "%" # ":"
      BY DEF Width
    <2> QED BY <1>1, <2>1, <2>3, <2>4, PlainSecond
  <1>5. CASE Hex1Write /\ Hex1Lost
    <2>1. Stop("runaway") /\ "runaway" \in Stopped
      BY <1>5 DEF Hex1Write, Stopped
    <2> QED BY <2>1, StopKeeps
  <1>6. CASE Hex1Write /\ ~Hex1Lost
    <2>1. Char \notin {":", "%"} /\ SpGoto(Behind(pos))
      BY <1>2, <1>6 DEF Hex1Write
    <2>2. IF Char \in HexDigit THEN Toggle(Nibble(Char), 1) ELSE UNCHANGED <<ip, half, hold, out>>
      BY <1>6 DEF Hex1Write
    <2> QED BY <1>1, <2>1, <2>2, HexSecond
  <1> QED BY <1>3, <1>4, <1>5, <1>6

(* So does hex2.                                                           *)
LEMMA Hex2SecondKeeps ==
  ASSUME StageInv, Hex2Drop \/ Hex2Stops \/ Hex2Pointer \/ Hex2Write, UNCHANGED <<tool, results>>
  PROVE  StageInv'
  <1>1. /\ tool \in Hex2Ports /\ tool \notin Hex0Ports /\ phase = "second" /\ More
        /\ Pointers = PointerOps /\ ip \in Nat
    <2>1. tool \in Hex2Ports /\ phase = "second" /\ More
      BY DEF Hex2Drop, Hex2Stops, Hex2Pointer, Hex2Write, Hex2Reference, Hex2Second
    <2> QED BY <2>1, PassFacts, ToolFacts DEF Pointers
  <1>2. Behind(pos) = IF Char = ":" THEN Skip(input, TokenEnd(pos + 1), 1)
                      ELSE IF Char \in PointerOps THEN Skip(input, ReferenceEnd(pos + 1), 1)
                      ELSE Hex2After
    BY <1>1, BehindFacts
  <1>3. ASSUME Stop("runaway") \/ Stop(Miss)
        PROVE  StageInv'
    <2>1. "runaway" \in Stopped /\ Miss \in Stopped /\ "runaway" # "done" /\ Miss # "done"
      BY DEF Stopped, Miss
    <2> QED BY <1>3, <2>1, StopKeeps
  <1>4. CASE Hex2Drop /\ ~Endless(pos + 1)
    <2>1. /\ Char = ":" /\ SpGoto(Behind(pos)) /\ UNCHANGED <<ip, half, hold, out>>
      BY <1>2, <1>4 DEF Hex2Drop
    <2>2. PICK V : out \in Seq(V)
      BY PassFacts
    <2>3. ip' = ip + 0 /\ Len(out') = Len(out) + 0 /\ out' \in Seq(V)
      BY <1>1, <2>1, <2>2, LenProperties
    <2> QED BY <1>1, <2>1, <2>3, PlainSecond
  <1>5. CASE Hex2Pointer
    <2> DEFINE n == Width(Char)
               bytes == PointerBytes(Target(Token(pos + 1)) - Hex2From, n)
    <2>1. Char \in PointerOps /\ Char # ":" /\ n \in Nat
      BY <1>5, WidthFacts DEF Hex2Pointer, Hex2Reference, PointerOps
    <2>2. /\ SpGoto(Behind(pos)) /\ UNCHANGED <<half, hold>> /\ out' = out \o bytes /\ ip' = ip + n
      BY <1>2, <1>5, <2>1 DEF Hex2Pointer
    <2>3. PICK T : bytes \in Seq(T) /\ Len(bytes) = n
      BY <2>1, BytesFacts
    <2> HIDE DEF bytes
    <2>4. PICK V : out' \in Seq(V) /\ Len(out') = Len(out) + n
      BY <2>2, <2>3, OutFacts
    <2> QED BY <1>1, <2>1, <2>2, <2>4, PlainSecond
  <1>6. CASE Hex2Write /\ ~Hex2Lost
    <2>1. Char # ":" /\ Char \notin PointerOps /\ SpGoto(Behind(pos))
      BY <1>2, <1>6 DEF Hex2Write, Hex2Ops
    <2>2. IF Char \in HexDigit THEN Toggle(Nibble(Char), 1) ELSE UNCHANGED <<ip, half, hold, out>>
      BY <1>6 DEF Hex2Write
    <2> QED BY <1>1, <2>1, <2>2, HexSecond
  <1>7. CASE \/ Hex2Drop /\ Endless(pos + 1)
             \/ Hex2Stops
             \/ Hex2Write /\ Hex2Lost
    BY <1>3, <1>7 DEF Hex2Drop, Hex2Stops, Hex2Write
  <1> QED BY <1>4, <1>5, <1>6, <1>7

-----------------------------------------------------------------------------
(* The other steps *)

(* Between the passes, and behind the second.                              *)
LEMMA EndsKeep ==
  ASSUME StageInv, Hex1Rewind \/ Hex2Rewind \/ Hex1Done \/ Hex2Done, UNCHANGED <<tool, results>>
  PROVE  StageInv'
  <1>1. CASE Hex1Rewind \/ Hex2Rewind
    <2>1. phase = "first" /\ ~More /\ Rewind(Start(tool)) /\ Start(tool) \in Nat
      BY <1>1, ToolFacts DEF Hex1Rewind, Hex2Rewind, Hex1First, Hex2First, Start, Base
    <2> QED BY <2>1, RewindKeeps
  <1>2. CASE Hex1Done \/ Hex2Done
    <2>1. phase = "second" /\ tool \notin Hex0Ports /\ ~More /\ Stop("done")
      BY <1>2, ToolFacts DEF Hex1Done, Hex2Done, Hex1Second, Hex2Second
    <2> QED BY <2>1, DoneKeeps
  <1> QED BY <1>1, <1>2

(* hex0, which has one pass.                                               *)
LEMMA Hex0Keeps ==
  ASSUME StageInv, Hex0Next, UNCHANGED <<tool, results>>
  PROVE  StageInv'
  <1>1. tool \in Hex0Ports /\ phase = "second"
    BY DEF Hex0Next, Hex0Digit, Hex0Purge, Hex0PurgeAtEof, Hex0Other, Hex0Eof, Hex0Turn
  <1>2. PICK V : out \in Seq(V)
    BY PassFacts
  <1>3. ASSUME NEW p \in 1 .. Len(input) + 1, SpGoto(p), ip' \in Nat, half' \in BOOLEAN,
               hold' \in 0 .. 15, NEW W, out' \in Seq(W)
        PROVE  StageInv'
    <2>1. /\ UNCHANGED <<tool, input, results, phase, labels, fpIp, split>>
          /\ pos' \in 1 .. Len(input) + 1
      BY <1>3 DEF SpGoto
    <2>2. /\ phase' \in {"first", "second"} \cup Stopped
          /\ fpIp' \in Nat /\ split' \in BOOLEAN /\ labels' \in Seq(Label)
      BY <2>1 DEF StageInv, Types
    <2>3. Types'
      BY <1>3, <2>1, <2>2, TypesKeep DEF StageInv
    <2> QED BY <1>1, <2>1, <2>3 DEF StageInv, FirstInv, SecondInv, PassesMeet
  <1>4. ASSUME NEW p \in 1 .. Len(input) + 1, SpGoto(p), UNCHANGED <<ip, half, hold, out>>
        PROVE  StageInv'
    BY <1>2, <1>3, <1>4, PassFacts
  <1>5. CASE Hex0Digit
    <2>1. More /\ Char \in HexDigit /\ Toggle(Nibble(Char), 0) /\ SpGoto(pos + 1)
      BY <1>5 DEF Hex0Digit
    <2>2. pos + 1 \in 1 .. Len(input) + 1 /\ Nibble(Char) \in 0 .. 15
      BY <2>1, PassFacts, DigitFacts
    <2>3. ip' \in Nat /\ hold' \in 0 .. 15
      BY <2>1, <2>2, PassFacts DEF Toggle
    <2>4. half' \in BOOLEAN
      BY <2>1, Zenon DEF Toggle
    <2>5. \E W : out' \in Seq(W)
      <3>1. CASE half
        <4> DEFINE byte == [value |-> hold * 16 + Nibble(Char)]
        <4>1. out' = Append(out, byte)
          BY <2>1, <3>1 DEF Toggle
        <4> HIDE DEF byte
        <4>2. <<byte>> \in Seq({byte}) /\ Append(out, byte) = out \o <<byte>>
          BY <1>2
        <4> QED BY <4>1, <4>2, OutFacts
      <3>2. CASE ~half
        BY <1>2, <2>1, <3>2 DEF Toggle
      <3> QED BY <3>1, <3>2
    <2> QED BY <1>3, <2>1, <2>2, <2>3, <2>4, <2>5
  <1>6. CASE Hex0Purge \/ Hex0Other
    <2>1. /\ More /\ UNCHANGED <<ip, half, hold, out>>
          /\ \/ SpGoto(pos + 1)
             \/ ~AtEnd(input, Hex0Comment(pos + 1)) /\ SpGoto(Hex0Comment(pos + 1) + 1)
      BY <1>6 DEF Hex0Purge, Hex0Other
    <2>2. pos + 1 \in 1 .. Len(input) + 1
      BY <2>1, PassFacts
    <2>3. ~AtEnd(input, Hex0Comment(pos + 1)) => Hex0Comment(pos + 1) + 1 \in 1 .. Len(input) + 1
      <3>1. Hex0Comment(pos + 1) \in pos + 1 .. Len(input) + 1
        BY <2>2, PassFacts, EndFacts
      <3> QED BY <2>2, <3>1, PassFacts DEF AtEnd
    <2> QED BY <1>4, <2>1, <2>2, <2>3
  <1>7. CASE Hex0PurgeAtEof \/ Hex0Eof
    <2>1. \/ Stop("wild") \/ Stop("done")
          \/ SpGoto(Len(input) + 1) /\ UNCHANGED <<ip, half, hold, out>>
      BY <1>7 DEF Hex0PurgeAtEof, Hex0Eof
    <2>2. "wild" \in Stopped /\ "done" \in Stopped /\ Len(input) + 1 \in 1 .. Len(input) + 1
      BY PassFacts DEF Stopped
    <2> QED BY <1>1, <1>4, <2>1, <2>2, StopKeeps
  <1> QED BY <1>5, <1>6, <1>7 DEF Hex0Next

(* The next tool starts, or the last has run.                              *)
LEMMA NextToolKeeps == ASSUME StageInv, NextTool PROVE StageInv'
  <1> DEFINE r == [end |-> phase, out |-> out, split |-> split]
  <1>1. phase \in Stopped /\ Len(results) < 6 /\ results' = Append(results, r)
    BY ToolFacts DEF NextTool
  <1> HIDE DEF r
  <1>2. (\E W : results' \in Seq(W)) /\ Len(results') <= 6 /\ Len(results) \in Nat
    <2>1. PICK U : results \in Seq(U)
      BY DEF StageInv, Types
    <2> DEFINE W == U \cup {r}
    <2>2. U \subseteq W /\ r \in W
      OBVIOUS
    <2> HIDE DEF W
    <2>3. results \in Seq(W) /\ Len(results) \in Nat
      <3>1. \A k \in 1 .. Len(results) : results[k] \in W
        BY <2>1, <2>2, ElementOfSeq
      <3> QED BY <2>1, <3>1, LenProperties
    <2>4. results' \in Seq(W) /\ Len(results') = Len(results) + 1
      BY <1>1, <2>2, <2>3, AppendProperties
    <2> QED BY <1>1, <2>3, <2>4
  <1>3. CASE Len(results) + 1 = 6
    <2>1. UNCHANGED <<tool, toolVars>>
      BY <1>3, ToolFacts DEF NextTool
    <2>2. UNCHANGED <<tool, input, phase, pos, ip, half, hold, labels, out, fpIp, split>>
      BY <2>1 DEF toolVars
    <2>3. (TextOK' <=> TextOK) /\ Label' = Label
      BY <2>2, SameText
    <2>4. Types'
      BY <1>2, <2>2, <2>3 DEF StageInv, Types
    <2>5. phase' \notin {"first", "second"}
      BY <1>1, <2>2 DEF Stopped
    <2>6. PassesMeet'
      BY <2>2 DEF StageInv, PassesMeet, CountsAhead, Start
    <2> QED BY <2>4, <2>5, <2>6 DEF StageInv, FirstInv, SecondInv
  <1>4. CASE Len(results) + 1 # 6
    <2> DEFINE t == Tools[Len(results) + 2]
    <2>1. /\ tool' = t /\ phase' = Entry(t) /\ ip' = Start(t) /\ pos' = 1 /\ half' = FALSE
          /\ hold' = 0 /\ labels' = << >> /\ out' = << >> /\ fpIp' = 0 /\ split' = FALSE
          /\ input' = input
      BY <1>4, ToolFacts DEF NextTool
    <2>2. t \in ToolSet
      <3>1. Len(results) + 2 \in 1 .. 6
        BY <1>1, <1>2, <1>4
      <3> QED BY <3>1, ToolFacts
    <2>3. Start(t) \in Nat /\ Entry(t) \in {"first", "second"}
          /\ (Entry(t) = "second" => t \in Hex0Ports)
      BY DEF Start, Base, Entry
    <2> HIDE DEF t
    <2>4. TextOK' /\ 1 \in 1 .. Len(input') + 1
      <3>1. TextOK' /\ Len(input') = Len(input)
        BY <2>1 DEF StageInv, Types, TextOK
      <3> QED BY <3>1, PassFacts
    <2>5. << >> \in Seq(Label') /\ << >> \in Seq({})
      BY EmptySeq
    <2>6. /\ phase' \in {"first", "second"} \cup Stopped /\ hold' \in 0 .. 15 /\ fpIp' \in Nat
          /\ ip' \in Nat /\ labels' \in Seq(Label') /\ \E W : out' \in Seq(W)
      BY <2>1, <2>3, <2>5
    <2>7. half' \in BOOLEAN /\ split' \in BOOLEAN
      BY <2>1, Zenon
    <2>8. Types'
      BY <1>2, <2>1, <2>2, <2>4, <2>6, <2>7 DEF Types
    <2>9. FirstInv'
      <3>1. ip' = Start(tool)'
        BY <2>1 DEF Start
      <3> DEFINE here == <<1, Start(tool), 0>>
      <3>2. Measured' = here'
        <4>1. Nibbles' = 0
          BY <2>1 DEF Nibbles
        <4>2. ip' - Early(0)' = ip'
          BY <2>1, <2>3 DEF Early
        <4>3. Measured' = <<pos', ip' - Early(Nibbles)', Nibbles'>>
          BY DEF Measured
        <4>4. Early(Nibbles)' = Early(0)'
          BY <4>1 DEF Early
        <4> QED BY <2>1, <3>1, <4>1, <4>2, <4>3, <4>4
      <3>3. PICK S : S = {here'}
        OBVIOUS
      <3>4. /\ <<1, Start(tool), 0>>' \in S /\ Measured' \in S
            /\ \A x \in S : (x = Measured)' \/ Recorded(x, S)'
        BY <3>2, <3>3
      <3> QED BY <2>1, <3>4 DEF FirstInv
    <2>10. phase' = "second" => tool' \in Hex0Ports
      BY <2>1, <2>3
    <2>11. phase' # "done"
      BY <2>1, <2>3
    <2> QED BY <2>8, <2>9, <2>10, <2>11 DEF StageInv, SecondInv, PassesMeet
  <1> QED BY <1>3, <1>4

(* Every step of every tool keeps the invariant.                           *)
LEMMA StepStages == StageInv /\ [Next]_vars => StageInv'
  <1> SUFFICES ASSUME StageInv, [Next]_vars
               PROVE  StageInv'
    OBVIOUS
  <1>1. CASE Hex0Next /\ UNCHANGED <<tool, results>>
    BY <1>1, Hex0Keeps
  <1>2. CASE Hex1Next /\ UNCHANGED <<tool, results>>
    BY <1>2, Hex1FirstKeeps, Hex1SecondKeeps, EndsKeep DEF Hex1Next
  <1>3. CASE Hex2Next /\ UNCHANGED <<tool, results>>
    BY <1>3, Hex2FirstKeeps, Hex2SecondKeeps, EndsKeep DEF Hex2Next
  <1>4. CASE NextTool
    BY <1>4, NextToolKeeps
  <1>5. CASE UNCHANGED vars
    <2>1. UNCHANGED <<tool, results, input, phase, pos, ip, half, hold, labels, out, fpIp, split>>
      BY <1>5 DEF vars, toolVars
    <2>2. /\ (TextOK' <=> TextOK) /\ Label' = Label
          /\ (\A t : Turn(t)' = Turn(t)) /\ (\A n : Early(n)' = Early(n))
      BY <2>1, SameText
    <2>3. Types'
      BY <2>1, <2>2 DEF StageInv, Types
    <2>4. \A t, S : Recorded(t, S)' <=> Recorded(t, S)
      BY <2>1, <2>2 DEF Recorded, LabelledAt
    <2>5. Measured' = Measured /\ Written' = Written /\ Start(tool)' = Start(tool)
      BY <2>1 DEF Measured, Written, Nibbles, Early, Start
    <2>6. FirstInv'
      BY <2>1, <2>4, <2>5 DEF StageInv, FirstInv
    <2>7. SecondInv'
      BY <2>1, <2>2, <2>4, <2>5 DEF StageInv, SecondInv
    <2>8. PassesMeet'
      BY <2>1, <2>5 DEF StageInv, PassesMeet, CountsAhead
    <2> QED BY <2>3, <2>6, <2>7, <2>8 DEF StageInv
  <1> QED BY <1>1, <1>2, <1>3, <1>4, <1>5 DEF Next, Run

-----------------------------------------------------------------------------
(* The theorems *)

(* The invariant holds of every run over every set of texts.               *)
THEOREM StagesAlways == Spec => []StageInv
  BY InitStages, StepStages, PTL DEF Spec

(* Whatever the text, no tool leaves it, and every label was defined in    *)
(* it, at an address.                                                      *)
THEOREM TypeOKTheorem == Spec => []TypeOK
  <1>1. StageInv => TypeOK
    <2> SUFFICES ASSUME StageInv
                 PROVE  TypeOK
      OBVIOUS
    <2>1. tool \in {Tools[k] : k \in DOMAIN Tools}
      <3>1. /\ Tools[1] = "hex0" /\ Tools[2] = "hex0.rv" /\ Tools[3] = "hex1"
            /\ Tools[4] = "hex1.rv" /\ Tools[5] = "hex2" /\ Tools[6] = "hex2.c"
        BY DEF Tools
      <3>2. tool \in ToolSet
        BY DEF StageInv, Types
      <3>3. {1, 2, 3, 4, 5, 6} \subseteq DOMAIN Tools
        BY ToolFacts
      <3> QED BY <3>1, <3>2, <3>3 DEF ToolSet
    <2>2. \A k \in DOMAIN labels : labels[k].target \in Nat /\ labels[k].at \in DOMAIN input
      <3> SUFFICES ASSUME NEW k \in DOMAIN labels
                   PROVE  labels[k].target \in Nat /\ labels[k].at \in DOMAIN input
        OBVIOUS
      <3>1. labels \in Seq(Label) /\ DOMAIN labels = 1 .. Len(labels) /\ DOMAIN input = 1 .. Len(input)
        BY PassFacts, LenProperties DEF TextOK
      <3>2. labels[k] \in Label
        BY <3>1, ElementOfSeq
      <3> QED BY <3>1, <3>2 DEF Label
    <2>3. Len(results) <= Len(Tools)
      BY ToolFacts DEF StageInv, Types
    <2> QED BY <2>1, <2>2, <2>3 DEF StageInv, Types, TypeOK
  <1> QED BY <1>1, StagesAlways, PTL

(* When the second pass of a tool meets a definition, it has counted to    *)
(* the address that the first pass recorded there, ahead by one where the  *)
(* first pass counts at the first nibble and the label is inside a byte.   *)
THEOREM LabelsExactTheorem == Spec => []LabelsExact
  <1>1. StageInv => LabelsExact
    <2> SUFFICES ASSUME StageInv, phase = "second", tool \notin Hex0Ports, More, Char = ":"
                 PROVE  \E k \in DOMAIN labels :
                           labels[k].at = pos
                           /\ labels[k].target = ip + (IF CountsAhead THEN 1 ELSE 0)
      BY DEF LabelsExact
    <2>1. PICK S : /\ Written \in S
                   /\ \A t \in S : \/ Recorded(t, S)
                                   \/ t[1] > Len(input) /\ fpIp = t[2] + Early(t[3])
      BY DEF StageInv, SecondInv
    <2>2. Written[1] = pos /\ Written[2] = ip /\ Written[3] = Nibbles /\ ~ (pos > Len(input))
      BY PassFacts DEF Written, More, AtEnd
    <2>3. Recorded(Written, S)
      BY <2>1, <2>2
    <2>4. LabelledAt(pos, ip + Early(Nibbles))
      BY <2>2, <2>3 DEF Recorded, Char
    <2>5. Early(Nibbles) = IF CountsAhead THEN 1 ELSE 0
      BY DEF Early, Nibbles, CountsAhead
    <2> QED BY <2>4, <2>5 DEF LabelledAt
  <1> QED BY <1>1, StagesAlways, PTL

(* The second pass of a tool that returns has written one byte for each    *)
(* address, and the first has ended at the same address, or exactly one    *)
(* past it if a lone first nibble is left over that it has counted.        *)
THEOREM PassesMeetTheorem == Spec => []PassesMeet
  <1>1. StageInv => PassesMeet
    BY DEF StageInv
  <1> QED BY <1>1, StagesAlways, PTL

-----------------------------------------------------------------------------
(***************************************************************************)
(* The stages extend each other and their ports agree, for every text.     *)
(*                                                                         *)
(* All six tools are compared with one assembler, of which they are forms: *)
(* a pass of it is a function from one point to the next (Measure, Write), *)
(* and a point is reached if some set of points leads from the beginning   *)
(* to it and nowhere else.  A turn of a tool is one or two turns of it, so *)
(* what a tool has read and written is a point it reaches.  It ends in     *)
(* one point only (OneMeasure, OneText): tools that end have written the   *)
(* same.                                                                   *)
(***************************************************************************)

-----------------------------------------------------------------------------
(* The assembler *)

(* The languages: that of hex0, where a comment ends with LF, and that of  *)
(* hex2, where it ends with either half of a line end.                     *)
Defs(k) == IF k = "hex0" THEN {} ELSE {":"}
Refs(k) == IF k = "hex0" THEN {} ELSE PointerOps
Ends(k) == IF k = "hex0" THEN {"LF"} ELSE {"LF", "CR"}

(* A name, and what may be behind it.                                      *)
NameEnd(x, p) == FindFrom(x, p, Blank \cup {">"})
Named(x, p)   == SubSeq(x, p, NameEnd(x, p) - 1)
Based(x, p)   == ~AtEnd(x, NameEnd(x, p)) /\ x[NameEnd(x, p)] = ">"
RefEnd(x, p)  == IF Based(x, p) THEN NameEnd(x, NameEnd(x, p) + 1) ELSE NameEnd(x, p)

(* Where the turn at p leaves the text: in front of what ended a name,     *)
(* behind what ended a comment.                                            *)
Leaves(x, k, p) ==
    IF x[p] \in Comment THEN Skip(x, FindFrom(x, p + 1, Ends(k)), 1)
    ELSE IF x[p] \in Defs(k) THEN NameEnd(x, p + 1)
    ELSE IF x[p] \in Refs(k) THEN RefEnd(x, p + 1)
    ELSE p + 1

(* A point of the first pass: the position, the complete bytes, the        *)
(* nibbles of the next one, the definitions, and whether one was met       *)
(* inside a byte.  A definition inside a byte is ahead by one.             *)
Measure(x, m) == LET c == x[m[1]]
                     q == Leaves(x, "hex2", m[1]) IN
    IF c = ":" THEN <<q, m[2], m[3],
                      <<[name |-> Named(x, m[1] + 1), target |-> m[2] + m[3]]>> \o m[4],
                      IF m[3] = 1 THEN 1 ELSE m[5]>>
    ELSE IF c \in PointerOps THEN <<q, m[2] + Width(c), m[3], m[4], m[5]>>
    ELSE IF c \in HexDigit THEN <<q, m[2] + m[3], 1 - m[3], m[4], m[5]>>
    ELSE <<q, m[2], m[3], m[4], m[5]>>

Found(L, name)   == \E j \in DOMAIN L : L[j].name = name
Address(L, name) ==
    L[CHOOSE j \in DOMAIN L :
         L[j].name = name /\ \A i \in 1 .. j - 1 : L[i].name # name].target

(* The value of the reference at a point of the second pass: the position, *)
(* the complete bytes, the nibbles of the next one, the first of them, and *)
(* the output.                                                             *)
Value(x, L, w) == LET c == x[w[1]]
                      p == w[1] + 1 IN
    Address(L, Named(x, p)) -
      (IF c \in {"&", "$"} THEN 0 - Base
       ELSE IF Based(x, p) THEN Address(L, Named(x, NameEnd(x, p) + 1))
       ELSE w[2] + Width(c))

Write(x, k, L, w) == LET c == x[w[1]]
                         q == Leaves(x, k, w[1]) IN
    IF c \in Refs(k)
    THEN <<q, w[2] + Width(c), w[3], w[4], w[5] \o PointerBytes(Value(x, L, w), Width(c))>>
    ELSE IF c \notin HexDigit THEN <<q, w[2], w[3], w[4], w[5]>>
    ELSE IF w[3] = 1
         THEN <<q, w[2] + 1, 0, w[4], Append(w[5], [value |-> w[4] * 16 + Nibble(c)])>>
         ELSE <<q, w[2], 1, Nibble(c), w[5]>>

(* A reference to a name that is not defined.                              *)
Fails(x, k, L, w) == LET p == w[1] + 1 IN
    /\ w[1] <= Len(x) /\ x[w[1]] \in Refs(k)
    /\ ~Found(L, Named(x, p)) \/ (Based(x, p) /\ ~Found(L, Named(x, NameEnd(x, p) + 1)))

(* What the passes reach.                                                  *)
MeasuredTo(x, m) ==
    \E S : /\ <<1, 0, 0, << >>, 0>> \in S /\ m \in S
           /\ \A u \in S : /\ u[1] \in 1 .. Len(x) + 1
                           /\ u = m \/ (u[1] <= Len(x) /\ Measure(x, u) \in S)

WrittenTo(x, k, L, w) ==
    \E S : /\ <<1, 0, 0, 0, << >>>> \in S /\ w \in S
           /\ \A u \in S : /\ u[1] \in 1 .. Len(x) + 1
                           /\ u = w \/ (/\ u[1] <= Len(x) /\ ~Fails(x, k, L, u)
                                        /\ Write(x, k, L, u) \in S)

-----------------------------------------------------------------------------
(* What it reaches *)

(* A turn goes on in the text, and ends in it.                             *)
LEMMA LeavesFacts ==
  ASSUME NEW x \in Seq(STRING), NEW k, NEW p \in 1 .. Len(x)
  PROVE  Leaves(x, k, p) \in p + 1 .. Len(x) + 1
  <1>1. Len(x) \in Nat /\ p + 1 \in 1 .. Len(x) + 1
    BY LenProperties
  <1>2. \A Z, q : q \in 1 .. Len(x) + 1 => FindFrom(x, q, Z) \in q .. Len(x) + 1
    BY <1>1, FindFromFacts
  <1>3. FindFrom(x, p + 1, Ends(k)) \in p + 1 .. Len(x) + 1
    BY <1>1, <1>2
  <1>4. Skip(x, FindFrom(x, p + 1, Ends(k)), 1) \in p + 1 .. Len(x) + 1
    <2>1. \A q \in p + 1 .. Len(x) + 1 : Skip(x, q, 1) \in p + 1 .. Len(x) + 1
      BY <1>1 DEF Skip
    <2> QED BY <1>3, <2>1
  <1>5. NameEnd(x, p + 1) \in p + 1 .. Len(x) + 1
    BY <1>1, <1>2 DEF NameEnd
  <1>6. RefEnd(x, p + 1) \in p + 1 .. Len(x) + 1
    <2>1. CASE Based(x, p + 1)
      <3>1. PICK e : e = NameEnd(x, p + 1)
        OBVIOUS
      <3>2. e + 1 \in p + 1 .. Len(x) + 1
        BY <1>1, <1>5, <2>1, <3>1 DEF Based, AtEnd
      <3>3. NameEnd(x, e + 1) \in e + 1 .. Len(x) + 1
        BY <1>1, <1>2, <3>2 DEF NameEnd
      <3> QED BY <1>1, <2>1, <3>1, <3>2, <3>3 DEF RefEnd
    <2>2. CASE ~Based(x, p + 1)
      BY <1>5, <2>2 DEF RefEnd
    <2> QED BY <2>1, <2>2
  <1>7. p + 1 \in p + 1 .. Len(x) + 1
    BY <1>1
  <1> DEFINE T == p + 1 .. Len(x) + 1
  <1> HIDE DEF T
  <1> QED BY <1>4, <1>5, <1>6, <1>7 DEF Leaves, T

(* Where the two passes leave the text.                                    *)
LEMMA PositionFacts ==
  ASSUME NEW x, NEW k, NEW L
  PROVE  /\ \A m : Measure(x, m)[1] = Leaves(x, "hex2", m[1])
         /\ \A w : Write(x, k, L, w)[1] = Leaves(x, k, w[1])
  BY DEF Measure, Write

(* The first pass goes on.                                                 *)
LEMMA MeasureOn ==
  ASSUME NEW x \in Seq(STRING), NEW m, MeasuredTo(x, m), m[1] <= Len(x)
  PROVE  MeasuredTo(x, Measure(x, m))
  <1>1. PICK S : /\ <<1, 0, 0, << >>, 0>> \in S /\ m \in S
                 /\ \A u \in S : /\ u[1] \in 1 .. Len(x) + 1
                                 /\ u = m \/ (u[1] <= Len(x) /\ Measure(x, u) \in S)
    BY DEF MeasuredTo
  <1>2. PICK n : n = Measure(x, m)
    OBVIOUS
  <1>3. PICK R : R = S \cup {n}
    OBVIOUS
  <1>4. n[1] \in 1 .. Len(x) + 1
    <2>1. m[1] \in 1 .. Len(x) /\ Len(x) \in Nat
      BY <1>1, LenProperties
    <2>2. n[1] = Leaves(x, "hex2", m[1])
      BY <1>2, PositionFacts
    <2>3. Leaves(x, "hex2", m[1]) \in m[1] + 1 .. Len(x) + 1
      BY <2>1, LeavesFacts
    <2> QED BY <2>1, <2>2, <2>3
  <1>5. \A u \in R : /\ u[1] \in 1 .. Len(x) + 1
                     /\ u = n \/ (u[1] <= Len(x) /\ Measure(x, u) \in R)
    BY <1>1, <1>2, <1>3, <1>4
  <1>6. <<1, 0, 0, << >>, 0>> \in R /\ n \in R
    BY <1>1, <1>3
  <1> QED BY <1>2, <1>5, <1>6 DEF MeasuredTo

(* So does the second, if it does not fail.                                *)
LEMMA WriteOn ==
  ASSUME NEW x \in Seq(STRING), NEW k, NEW L, NEW w,
         WrittenTo(x, k, L, w), w[1] <= Len(x), ~Fails(x, k, L, w)
  PROVE  WrittenTo(x, k, L, Write(x, k, L, w))
  <1>1. PICK S : /\ <<1, 0, 0, 0, << >>>> \in S /\ w \in S
                 /\ \A u \in S : /\ u[1] \in 1 .. Len(x) + 1
                                 /\ u = w \/ (/\ u[1] <= Len(x) /\ ~Fails(x, k, L, u)
                                              /\ Write(x, k, L, u) \in S)
    BY DEF WrittenTo
  <1>2. PICK n : n = Write(x, k, L, w)
    OBVIOUS
  <1>3. PICK R : R = S \cup {n}
    OBVIOUS
  <1>4. n[1] \in 1 .. Len(x) + 1
    <2>1. w[1] \in 1 .. Len(x) /\ Len(x) \in Nat
      BY <1>1, LenProperties
    <2>2. n[1] = Leaves(x, k, w[1])
      BY <1>2, PositionFacts
    <2>3. Leaves(x, k, w[1]) \in w[1] + 1 .. Len(x) + 1
      BY <2>1, LeavesFacts
    <2> QED BY <2>1, <2>2, <2>3
  <1>5. \A u \in R : /\ u[1] \in 1 .. Len(x) + 1
                     /\ u = n \/ (/\ u[1] <= Len(x) /\ ~Fails(x, k, L, u)
                                  /\ Write(x, k, L, u) \in R)
    BY <1>1, <1>2, <1>3, <1>4
  <1>6. <<1, 0, 0, 0, << >>>> \in R /\ n \in R
    BY <1>1, <1>3
  <1> QED BY <1>2, <1>5, <1>6 DEF WrittenTo

(* Positions that only grow come to an end.                                *)
LEMMA NoLoop ==
  ASSUME NEW n \in Nat, NEW S, S # {}, NEW f,
         \A u \in S : /\ u[1] \in 1 .. n /\ f[u] \in S
                      /\ f[u][1] \in Int /\ f[u][1] > u[1]
  PROVE  FALSE
  <1> DEFINE T == {n - u[1] : u \in S}
  <1>1. T \subseteq Nat /\ T # {}
    OBVIOUS
  <1>2. PICK i \in T : \A j \in T : i <= j
    BY <1>1, Least
  <1>3. PICK u \in S : i = n - u[1]
    BY <1>2
  <1>4. n - f[u][1] \in T
    OBVIOUS
  <1>5. u[1] \in Int /\ f[u][1] \in Int /\ f[u][1] > u[1] /\ i \in Int
    BY <1>1, <1>2
  <1>6. i <= n - f[u][1]
    BY <1>2, <1>4
  <1> HIDE DEF T
  <1> QED BY <1>3, <1>5, <1>6

(* The first pass ends in one point.                                       *)
LEMMA OneMeasure ==
  ASSUME NEW x \in Seq(STRING), NEW m, NEW n, MeasuredTo(x, m), MeasuredTo(x, n),
         m[1] > Len(x), n[1] > Len(x)
  PROVE  m = n
  <1>1. PICK S : /\ <<1, 0, 0, << >>, 0>> \in S /\ m \in S
                 /\ \A u \in S : /\ u[1] \in 1 .. Len(x) + 1
                                 /\ u = m \/ (u[1] <= Len(x) /\ Measure(x, u) \in S)
    BY DEF MeasuredTo
  <1>2. PICK R : /\ <<1, 0, 0, << >>, 0>> \in R /\ n \in R
                 /\ \A u \in R : /\ u[1] \in 1 .. Len(x) + 1
                                 /\ u = n \/ (u[1] <= Len(x) /\ Measure(x, u) \in R)
    BY DEF MeasuredTo
  <1> SUFFICES ASSUME m # n
               PROVE  FALSE
    OBVIOUS
  <1>3. Len(x) \in Nat
    BY LenProperties
  <1>4. m \notin R /\ n \notin S
    BY <1>1, <1>2, <1>3
  <1>5. PICK B : B = S \cap R
    OBVIOUS
  <1>6. PICK f : f = [u \in B |-> Measure(x, u)]
    OBVIOUS
  <1>7. ASSUME NEW u \in B
        PROVE  u[1] \in 1 .. Len(x) + 1 /\ f[u] \in B /\ f[u][1] \in Int /\ f[u][1] > u[1]
    <2>1. u[1] \in 1 .. Len(x) /\ Measure(x, u) \in B /\ f[u] = Measure(x, u)
      BY <1>1, <1>2, <1>3, <1>4, <1>5, <1>6
    <2>2. Measure(x, u)[1] = Leaves(x, "hex2", u[1])
      BY PositionFacts
    <2>3. Leaves(x, "hex2", u[1]) \in u[1] + 1 .. Len(x) + 1
      BY <2>1, LeavesFacts
    <2> QED BY <1>3, <2>1, <2>2, <2>3
  <1>8. B # {} /\ Len(x) + 1 \in Nat
    BY <1>1, <1>2, <1>3, <1>5
  <1> QED BY <1>7, <1>8, NoLoop

(* The second pass ends in one point.                                      *)
LEMMA OneText ==
  ASSUME NEW x \in Seq(STRING), NEW k, NEW L, NEW v, NEW w,
         WrittenTo(x, k, L, v), WrittenTo(x, k, L, w),
         v[1] > Len(x) \/ Fails(x, k, L, v), w[1] > Len(x) \/ Fails(x, k, L, w)
  PROVE  v = w
  <1>1. PICK S : /\ <<1, 0, 0, 0, << >>>> \in S /\ v \in S
                 /\ \A u \in S : /\ u[1] \in 1 .. Len(x) + 1
                                 /\ u = v \/ (/\ u[1] <= Len(x) /\ ~Fails(x, k, L, u)
                                              /\ Write(x, k, L, u) \in S)
    BY DEF WrittenTo
  <1>2. PICK R : /\ <<1, 0, 0, 0, << >>>> \in R /\ w \in R
                 /\ \A u \in R : /\ u[1] \in 1 .. Len(x) + 1
                                 /\ u = w \/ (/\ u[1] <= Len(x) /\ ~Fails(x, k, L, u)
                                              /\ Write(x, k, L, u) \in R)
    BY DEF WrittenTo
  <1> SUFFICES ASSUME v # w
               PROVE  FALSE
    OBVIOUS
  <1>3. Len(x) \in Nat
    BY LenProperties
  <1>4. v \notin R /\ w \notin S
    BY <1>1, <1>2, <1>3
  <1>5. PICK B : B = S \cap R
    OBVIOUS
  <1>6. PICK f : f = [u \in B |-> Write(x, k, L, u)]
    OBVIOUS
  <1>7. ASSUME NEW u \in B
        PROVE  u[1] \in 1 .. Len(x) + 1 /\ f[u] \in B /\ f[u][1] \in Int /\ f[u][1] > u[1]
    <2>1. u[1] \in 1 .. Len(x) /\ Write(x, k, L, u) \in B /\ f[u] = Write(x, k, L, u)
      BY <1>1, <1>2, <1>3, <1>4, <1>5, <1>6
    <2>2. Write(x, k, L, u)[1] = Leaves(x, k, u[1])
      BY PositionFacts
    <2>3. Leaves(x, k, u[1]) \in u[1] + 1 .. Len(x) + 1
      BY <2>1, LeavesFacts
    <2> QED BY <1>3, <2>1, <2>2, <2>3
  <1>8. B # {} /\ Len(x) + 1 \in Nat
    BY <1>1, <1>2, <1>3, <1>5
  <1> QED BY <1>7, <1>8, NoLoop

-----------------------------------------------------------------------------
(* Turns of the tools as turns of the assembler *)

(* What ends a name, or a comment, is no character a pass looks at.        *)
LEMMA CharFacts ==
  ASSUME NEW c \in Blank \cup {">", "CR", ":"} \cup PointerOps
  PROVE  c \notin HexDigit /\ c \notin Comment /\ (c \notin {":"} \cup PointerOps \/ c \notin Blank \cup {">", "CR"})
  <1> DEFINE T == Blank \cup {">", "CR", ":"} \cup PointerOps
  <1>1. /\ Digits[1] \cap T = {} /\ Digits[2] \cap T = {}
        /\ Digits[3] \cap T = {} /\ Digits[4] \cap T = {}
    BY DEF Digits, Blank, PointerOps
  <1>2. /\ Digits[5] \cap T = {} /\ Digits[6] \cap T = {}
        /\ Digits[7] \cap T = {} /\ Digits[8] \cap T = {}
    BY DEF Digits, Blank, PointerOps
  <1>3. /\ Digits[9] \cap T = {} /\ Digits[10] \cap T = {}
        /\ Digits[11] \cap T = {} /\ Digits[12] \cap T = {}
    BY DEF Digits, Blank, PointerOps
  <1>4. /\ Digits[13] \cap T = {} /\ Digits[14] \cap T = {}
        /\ Digits[15] \cap T = {} /\ Digits[16] \cap T = {}
    BY DEF Digits, Blank, PointerOps
  <1>5. c \in T /\ c \notin Comment
        /\ (c \notin {":"} \cup PointerOps \/ c \notin Blank \cup {">", "CR"})
    BY DEF Blank, PointerOps, Comment
  <1> HIDE DEF T
  <1>6. \A n \in 1 .. 16 : c \notin Digits[n]
    <2> SUFFICES ASSUME NEW n \in 1 .. 16
                 PROVE  c \notin Digits[n]
      OBVIOUS
    <2>1. n \in {1, 2, 3, 4, 5, 6, 7, 8, 9, 10, 11, 12, 13, 14, 15, 16}
      OBVIOUS
    <2> QED BY <1>1, <1>2, <1>3, <1>4, <1>5, <2>1
  <1> QED BY <1>5, <1>6 DEF HexDigit

(* A character that means nothing.                                         *)
LEMMA IdleOn ==
  ASSUME NEW x \in Seq(STRING), NEW p, p <= Len(x),
         x[p] \notin HexDigit \cup Comment \cup {":"} \cup PointerOps
  PROVE  /\ \A i, n, L, s : MeasuredTo(x, <<p, i, n, L, s>>) => MeasuredTo(x, <<p + 1, i, n, L, s>>)
         /\ \A k, L, i, n, h, o : WrittenTo(x, k, L, <<p, i, n, h, o>>)
                                    => WrittenTo(x, k, L, <<p + 1, i, n, h, o>>)
  <1>1. \A k : Leaves(x, k, p) = p + 1 /\ x[p] \notin Refs(k)
    BY DEF Leaves, Defs, Refs
  <1>2. ASSUME NEW i, NEW n, NEW L, NEW s, MeasuredTo(x, <<p, i, n, L, s>>)
        PROVE  MeasuredTo(x, <<p + 1, i, n, L, s>>)
    <2>1. PICK m : m = <<p, i, n, L, s>>
      OBVIOUS
    <2>2. Measure(x, m) = <<p + 1, i, n, L, s>>
      BY <1>1, <2>1 DEF Measure
    <2> QED BY <1>2, <2>1, <2>2, MeasureOn
  <1>3. ASSUME NEW k, NEW L, NEW i, NEW n, NEW h, NEW o, WrittenTo(x, k, L, <<p, i, n, h, o>>)
        PROVE  WrittenTo(x, k, L, <<p + 1, i, n, h, o>>)
    <2>1. PICK w : w = <<p, i, n, h, o>>
      OBVIOUS
    <2>2. Write(x, k, L, w) = <<p + 1, i, n, h, o>> /\ ~Fails(x, k, L, w)
      BY <1>1, <2>1 DEF Write, Fails
    <2> QED BY <1>3, <2>1, <2>2, WriteOn
  <1> QED BY <1>2, <1>3

(* A comment that is closed.                                               *)
LEMMA CommentOn ==
  ASSUME NEW x \in Seq(STRING), NEW p \in 1 .. Len(x), x[p] \in Comment,
         NEW q \in p + 1 .. Len(x), NEW k, q = FindFrom(x, p + 1, Ends(k))
  PROVE  /\ \A i, n, L, s : k = "hex2" /\ MeasuredTo(x, <<p, i, n, L, s>>)
                              => MeasuredTo(x, <<q + 1, i, n, L, s>>)
         /\ \A L, i, n, h, o : WrittenTo(x, k, L, <<p, i, n, h, o>>)
                                 => WrittenTo(x, k, L, <<q + 1, i, n, h, o>>)
  <1>1. Len(x) \in Nat /\ Leaves(x, k, p) = q + 1
    BY LenProperties DEF Leaves, Skip
  <1>2. x[p] \notin HexDigit /\ x[p] \notin {":"} \cup PointerOps
    BY DigitFacts DEF Comment, PointerOps
  <1>3. x[p] \notin Refs(k)
    BY <1>2 DEF Refs
  <1>4. ASSUME NEW i, NEW n, NEW L, NEW s, k = "hex2", MeasuredTo(x, <<p, i, n, L, s>>)
        PROVE  MeasuredTo(x, <<q + 1, i, n, L, s>>)
    <2>1. PICK m : m = <<p, i, n, L, s>>
      OBVIOUS
    <2>2. Measure(x, m) = <<q + 1, i, n, L, s>>
      BY <1>1, <1>2, <1>4, <2>1 DEF Measure
    <2>3. m[1] <= Len(x) /\ MeasuredTo(x, m)
      BY <1>1, <1>4, <2>1
    <2>4. MeasuredTo(x, Measure(x, m))
      BY <2>3, MeasureOn
    <2> QED BY <2>2, <2>4
  <1>5. ASSUME NEW L, NEW i, NEW n, NEW h, NEW o, WrittenTo(x, k, L, <<p, i, n, h, o>>)
        PROVE  WrittenTo(x, k, L, <<q + 1, i, n, h, o>>)
    <2>1. PICK w : w = <<p, i, n, h, o>>
      OBVIOUS
    <2>2. Write(x, k, L, w) = <<q + 1, i, n, h, o>> /\ ~Fails(x, k, L, w)
      BY <1>1, <1>2, <1>3, <2>1 DEF Write, Fails
    <2> QED BY <1>5, <2>1, <2>2, WriteOn
  <1> QED BY <1>4, <1>5

(* A nibble.                                                               *)
LEMMA NibbleOn ==
  ASSUME NEW x \in Seq(STRING), NEW p, p <= Len(x), x[p] \in HexDigit
  PROVE  /\ \A i, L, s : /\ MeasuredTo(x, <<p, i, 0, L, s>>) /\ i \in Int => MeasuredTo(x, <<p + 1, i, 1, L, s>>)
                         /\ MeasuredTo(x, <<p, i, 1, L, s>>) => MeasuredTo(x, <<p + 1, i + 1, 0, L, s>>)
         /\ \A k, L, i, h, o :
              /\ WrittenTo(x, k, L, <<p, i, 0, h, o>>)
                   => WrittenTo(x, k, L, <<p + 1, i, 1, Nibble(x[p]), o>>)
              /\ WrittenTo(x, k, L, <<p, i, 1, h, o>>)
                   => WrittenTo(x, k, L, <<p + 1, i + 1, 0, h,
                                           Append(o, [value |-> h * 16 + Nibble(x[p])])>>)
  <1>1. x[p] \notin Comment /\ x[p] # ":" /\ x[p] \notin PointerOps
    BY DigitFacts, CharFacts
  <1>2. \A k : Leaves(x, k, p) = p + 1 /\ x[p] \notin Refs(k)
    BY <1>1 DEF Leaves, Defs, Refs
  <1>3. ASSUME NEW i, NEW n, NEW L, NEW s, MeasuredTo(x, <<p, i, n, L, s>>)
        PROVE  /\ n = 0 /\ i \in Int => MeasuredTo(x, <<p + 1, i, 1, L, s>>)
               /\ n = 1 => MeasuredTo(x, <<p + 1, i + 1, 0, L, s>>)
    <2>1. PICK m : m = <<p, i, n, L, s>>
      OBVIOUS
    <2>2. /\ n = 0 /\ i \in Int => Measure(x, m) = <<p + 1, i, 1, L, s>>
          /\ n = 1 => Measure(x, m) = <<p + 1, i + 1, 0, L, s>>
      BY <1>1, <1>2, <2>1 DEF Measure
    <2>3. MeasuredTo(x, Measure(x, m))
      BY <1>3, <2>1, MeasureOn
    <2> QED BY <2>2, <2>3
  <1>4. ASSUME NEW k, NEW L, NEW i, NEW n, NEW h, NEW o, WrittenTo(x, k, L, <<p, i, n, h, o>>)
        PROVE  /\ n = 0 => WrittenTo(x, k, L, <<p + 1, i, 1, Nibble(x[p]), o>>)
               /\ n = 1 => WrittenTo(x, k, L, <<p + 1, i + 1, 0, h,
                                                Append(o, [value |-> h * 16 + Nibble(x[p])])>>)
    <2>1. PICK w : w = <<p, i, n, h, o>>
      OBVIOUS
    <2>2. /\ n = 0 => Write(x, k, L, w) = <<p + 1, i, 1, Nibble(x[p]), o>>
          /\ n = 1 => Write(x, k, L, w) = <<p + 1, i + 1, 0, h,
                                            Append(o, [value |-> h * 16 + Nibble(x[p])])>>
      BY <1>2, <2>1 DEF Write
    <2>3. ~Fails(x, k, L, w) /\ w[1] <= Len(x)
      BY <1>2, <2>1 DEF Fails
    <2>4. WrittenTo(x, k, L, Write(x, k, L, w))
      BY <1>4, <2>1, <2>3, WriteOn
    <2> QED BY <2>2, <2>4
  <1> QED BY <1>3, <1>4

(* A name with a blank somewhere behind it ends in the text.               *)
LEMMA NameEnds ==
  ASSUME NEW x \in Seq(STRING), NEW p \in 1 .. Len(x), NEW b \in p + 1 .. Len(x), x[b] \in Blank
  PROVE  /\ NameEnd(x, p + 1) \in p + 1 .. b /\ x[NameEnd(x, p + 1)] \in Blank \cup {">"}
         /\ RefEnd(x, p + 1) \in p + 1 .. b /\ x[RefEnd(x, p + 1)] \in Blank \cup {">"}
         /\ Named(x, p + 1) \in Seq(STRING)
         /\ Based(x, p + 1) => /\ NameEnd(x, p + 1) + 1 \in p + 2 .. b
                               /\ NameEnd(x, NameEnd(x, p + 1) + 1) \in NameEnd(x, p + 1) + 1 .. b
                               /\ Named(x, NameEnd(x, p + 1) + 1) \in Seq(STRING)
  <1>1. Len(x) \in Nat /\ p \in Int /\ b \in Int /\ ">" \notin Blank
    BY LenProperties DEF Blank
  <1>2. ASSUME NEW q \in 1 .. b
        PROVE  NameEnd(x, q) \in q .. b /\ x[NameEnd(x, q)] \in Blank \cup {">"}
               /\ Named(x, q) \in Seq(STRING)
    <2>1. q \in 1 .. Len(x) + 1
      BY <1>1
    <2>2. PICK e : e = NameEnd(x, q)
      OBVIOUS
    <2>3. /\ e \in q .. Len(x) + 1 /\ (AtEnd(x, e) \/ x[e] \in Blank \cup {">"})
          /\ \A r \in q .. e - 1 : x[r] \notin Blank \cup {">"}
      BY <1>1, <2>1, <2>2, FindFromFacts DEF NameEnd
    <2>4. e \in q .. b
      BY <1>1, <2>3
    <2>5. x[e] \in Blank \cup {">"}
      BY <1>1, <2>3, <2>4 DEF AtEnd
    <2>6. \A r \in q .. e - 1 : x[r] \in STRING
      BY <1>1, <2>4, ElementOfSeq
    <2>7. SubSeq(x, q, e - 1) \in Seq(STRING)
      BY <1>1, <2>4, <2>6, SubSeqProperties
    <2> QED BY <2>2, <2>4, <2>5, <2>7 DEF Named
  <1>3. PICK e : e = NameEnd(x, p + 1)
    OBVIOUS
  <1>4. e \in p + 1 .. b /\ x[e] \in Blank \cup {">"} /\ Named(x, p + 1) \in Seq(STRING)
    <2>1. p + 1 \in 1 .. b
      BY <1>1
    <2> QED BY <1>2, <1>3, <2>1
  <1>5. ASSUME Based(x, p + 1)
        PROVE  /\ e + 1 \in p + 2 .. b /\ NameEnd(x, e + 1) \in e + 1 .. b
               /\ Named(x, e + 1) \in Seq(STRING) /\ x[NameEnd(x, e + 1)] \in Blank \cup {">"}
    <2>1. x[e] = ">"
      BY <1>3, <1>5 DEF Based
    <2>2. e # b
      BY <1>1, <2>1
    <2>3. e + 1 \in p + 2 .. b /\ e + 1 \in 1 .. b
      BY <1>1, <1>4, <2>2
    <2> QED BY <1>2, <2>3
  <1>6. RefEnd(x, p + 1) \in p + 1 .. b /\ x[RefEnd(x, p + 1)] \in Blank \cup {">"}
    <2>1. CASE Based(x, p + 1)
      <3>1. NameEnd(x, e + 1) \in p + 1 .. b
        BY <1>1, <1>4, <1>5, <2>1
      <3> QED BY <1>3, <1>5, <2>1, <3>1 DEF RefEnd
    <2>2. CASE ~Based(x, p + 1)
      BY <1>3, <1>4, <2>2 DEF RefEnd
    <2> QED BY <2>1, <2>2
  <1> QED BY <1>3, <1>4, <1>5, <1>6

(* A name of one character, as hex1 reads it.                              *)
LEMMA ShortName ==
  ASSUME NEW x \in Seq(STRING), NEW p \in 1 .. Len(x), p + 2 <= Len(x),
         x[p + 1] \in {"a", "b"}, x[p + 2] \in Blank
  PROVE  /\ NameEnd(x, p + 1) = p + 2 /\ RefEnd(x, p + 1) = p + 2
         /\ Named(x, p + 1) = <<x[p + 1]>> /\ ~Based(x, p + 1)
  <1>1. Len(x) \in Nat /\ p \in Int /\ p + 1 \in 1 .. Len(x) + 1
    BY LenProperties
  <1>2. x[p + 1] \notin Blank \cup {">"} /\ x[p + 2] # ">"
    BY DEF Blank
  <1>3. PICK e : e = NameEnd(x, p + 1)
    OBVIOUS
  <1>4. /\ e \in p + 1 .. Len(x) + 1 /\ (AtEnd(x, e) \/ x[e] \in Blank \cup {">"})
        /\ \A r \in p + 1 .. e - 1 : x[r] \notin Blank \cup {">"}
    BY <1>1, <1>3, FindFromFacts DEF NameEnd
  <1>5. e = p + 2
    <2>1. e # p + 1
      BY <1>1, <1>2, <1>4 DEF AtEnd
    <2>2. ~ (p + 2 \in p + 1 .. e - 1)
      BY <1>4
    <2> QED BY <1>1, <1>4, <2>1, <2>2
  <1>6. ~Based(x, p + 1)
    BY <1>2, <1>3, <1>5 DEF Based
  <1>7. SubSeq(x, p + 1, p + 1) = <<x[p + 1]>>
    <2>1. PICK s : s = SubSeq(x, p + 1, p + 1)
      OBVIOUS
    <2>2. \A r \in p + 1 .. p + 1 : x[r] \in STRING
      BY <1>1, ElementOfSeq
    <2>3. /\ s \in Seq(STRING) /\ Len(s) = 1 /\ s[1] = x[p + 1]
      BY <1>1, <2>1, <2>2, SubSeqProperties
    <2>4. s = <<s[1]>>
      BY <2>3
    <2> QED BY <2>1, <2>3, <2>4
  <1>8. Named(x, p + 1) = SubSeq(x, p + 1, p + 1)
    <2>1. e - 1 = p + 1
      BY <1>1, <1>5
    <2>2. Named(x, p + 1) = SubSeq(x, p + 1, e - 1)
      BY <1>3 DEF Named
    <2> QED BY <2>1, <2>2
  <1> QED BY <1>3, <1>5, <1>6, <1>7, <1>8 DEF RefEnd

(* A comment in a text where comments are closed: at LF, or at CR and LF.  *)
LEMMA CommentCloses ==
  ASSUME NEW x \in Seq(STRING), NEW p \in 1 .. Len(x),
         \A r \in DOMAIN x : x[r] = "CR" => r < Len(x) /\ x[r + 1] = "LF",
         NEW b \in p .. Len(x), x[b] = "LF", b # p
  PROVE  /\ FindFrom(x, p + 1, {"LF"}) \in p + 1 .. Len(x)
         /\ FindFrom(x, p + 1, {"LF", "CR"}) \in p + 1 .. Len(x)
         /\ x[FindFrom(x, p + 1, {"LF"})] = "LF"
         /\ \/ FindFrom(x, p + 1, {"LF"}) = FindFrom(x, p + 1, {"LF", "CR"})
            \/ FindFrom(x, p + 1, {"LF"}) = FindFrom(x, p + 1, {"LF", "CR"}) + 1
  <1>1. Len(x) \in Nat /\ p \in Int /\ p + 1 \in 1 .. Len(x) + 1 /\ b \in p + 1 .. Len(x)
        /\ DOMAIN x = 1 .. Len(x)
    BY LenProperties
  <1>2. PICK e : e = FindFrom(x, p + 1, {"LF"})
    OBVIOUS
  <1>3. PICK c : c = FindFrom(x, p + 1, {"LF", "CR"})
    OBVIOUS
  <1>4. /\ e \in p + 1 .. Len(x) + 1 /\ (AtEnd(x, e) \/ x[e] = "LF")
        /\ \A r \in p + 1 .. e - 1 : x[r] # "LF"
    BY <1>1, <1>2, FindFromFacts
  <1>5. /\ c \in p + 1 .. Len(x) + 1 /\ (AtEnd(x, c) \/ x[c] = "LF" \/ x[c] = "CR")
        /\ \A r \in p + 1 .. c - 1 : x[r] # "LF" /\ x[r] # "CR"
    BY <1>1, <1>3, FindFromFacts
  <1>6. e \in p + 1 .. b /\ c \in p + 1 .. b
    BY <1>1, <1>4, <1>5
  <1>7. e \in 1 .. Len(x) /\ c \in 1 .. Len(x) /\ x[e] = "LF" /\ (x[c] = "LF" \/ x[c] = "CR")
    BY <1>1, <1>4, <1>5, <1>6 DEF AtEnd
  <1>8. c <= e
    BY <1>1, <1>5, <1>6, <1>7
  <1>9. CASE x[c] = "LF"
    <2>1. e = c
      BY <1>1, <1>4, <1>6, <1>8, <1>9
    <2> QED BY <1>1, <1>2, <1>3, <1>6, <1>7, <2>1
  <1>10. CASE x[c] = "CR"
    <2>1. c < Len(x) /\ x[c + 1] = "LF"
      BY <1>1, <1>7, <1>10
    <2>2. c # e
      BY <1>7, <1>10
    <2>3. e = c + 1
      <3>1. ~ (c + 1 \in p + 1 .. e - 1)
        BY <1>4, <2>1
      <3> QED BY <1>1, <1>6, <1>8, <2>2, <3>1
    <2> QED BY <1>1, <1>2, <1>3, <1>6, <1>7, <2>3
  <1> QED BY <1>7, <1>9, <1>10

(* A definition.                                                           *)
LEMMA DefineOn ==
  ASSUME NEW x \in Seq(STRING), NEW p, p <= Len(x), x[p] = ":",
         NEW e, e = NameEnd(x, p + 1)
  PROVE  /\ \A i, n, L, s : MeasuredTo(x, <<p, i, n, L, s>>) =>
              MeasuredTo(x, <<e, i, n, <<[name |-> Named(x, p + 1), target |-> i + n]>> \o L,
                              IF n = 1 THEN 1 ELSE s>>)
         /\ \A L, i, n, h, o : WrittenTo(x, "hex2", L, <<p, i, n, h, o>>) =>
              WrittenTo(x, "hex2", L, <<e, i, n, h, o>>)
  <1>1. x[p] \notin Comment /\ x[p] \notin HexDigit /\ x[p] \notin PointerOps
    <2>1. ":" \notin HexDigit
      BY CharFacts
    <2> QED BY <2>1 DEF Comment, PointerOps
  <1>2. Leaves(x, "hex2", p) = e /\ x[p] \notin Refs("hex2")
    BY <1>1 DEF Leaves, Defs, Refs
  <1>3. ASSUME NEW i, NEW n, NEW L, NEW s, MeasuredTo(x, <<p, i, n, L, s>>)
        PROVE  MeasuredTo(x, <<e, i, n, <<[name |-> Named(x, p + 1), target |-> i + n]>> \o L,
                               IF n = 1 THEN 1 ELSE s>>)
    <2>1. PICK m : m = <<p, i, n, L, s>>
      OBVIOUS
    <2>2. Measure(x, m) = <<e, i, n, <<[name |-> Named(x, p + 1), target |-> i + n]>> \o L,
                            IF n = 1 THEN 1 ELSE s>>
      BY <1>2, <2>1 DEF Measure
    <2>3. m[1] <= Len(x) /\ MeasuredTo(x, m)
      BY <1>3, <2>1
    <2>4. MeasuredTo(x, Measure(x, m))
      BY <2>3, MeasureOn
    <2> QED BY <2>2, <2>4
  <1>4. ASSUME NEW L, NEW i, NEW n, NEW h, NEW o, WrittenTo(x, "hex2", L, <<p, i, n, h, o>>)
        PROVE  WrittenTo(x, "hex2", L, <<e, i, n, h, o>>)
    <2>1. PICK w : w = <<p, i, n, h, o>>
      OBVIOUS
    <2>2. Write(x, "hex2", L, w) = <<e, i, n, h, o>> /\ ~Fails(x, "hex2", L, w)
      BY <1>1, <1>2, <2>1 DEF Write, Fails
    <2> QED BY <1>4, <2>1, <2>2, WriteOn
  <1> QED BY <1>3, <1>4

(* A reference.                                                            *)
LEMMA ReferOn ==
  ASSUME NEW x \in Seq(STRING), NEW p, p <= Len(x), NEW c, c = x[p], c \in PointerOps,
         NEW e, e = RefEnd(x, p + 1)
  PROVE  /\ \A i, n, L, s : MeasuredTo(x, <<p, i, n, L, s>>) =>
              MeasuredTo(x, <<e, i + Width(c), n, L, s>>)
         /\ \A L, i, n, h, o :
              LET w == <<p, i, n, h, o>> IN
              WrittenTo(x, "hex2", L, w) /\ ~Fails(x, "hex2", L, w) =>
                WrittenTo(x, "hex2", L, <<e, i + Width(c), n, h,
                                          o \o PointerBytes(Value(x, L, w), Width(c))>>)
  <1>1. c \notin Comment /\ c # ":"
    BY DEF Comment, PointerOps
  <1>2. Leaves(x, "hex2", p) = e /\ c \in Refs("hex2")
    BY <1>1 DEF Leaves, Defs, Refs
  <1>3. ASSUME NEW i, NEW n, NEW L, NEW s, MeasuredTo(x, <<p, i, n, L, s>>)
        PROVE  MeasuredTo(x, <<e, i + Width(c), n, L, s>>)
    <2>1. PICK m : m = <<p, i, n, L, s>>
      OBVIOUS
    <2>2. Measure(x, m) = <<e, i + Width(c), n, L, s>>
      BY <1>1, <1>2, <2>1 DEF Measure
    <2>3. m[1] <= Len(x) /\ MeasuredTo(x, m)
      BY <1>3, <2>1
    <2>4. MeasuredTo(x, Measure(x, m))
      BY <2>3, MeasureOn
    <2> QED BY <2>2, <2>4
  <1>4. ASSUME NEW L, NEW i, NEW n, NEW h, NEW o, NEW w, w = <<p, i, n, h, o>>,
               WrittenTo(x, "hex2", L, w), ~Fails(x, "hex2", L, w)
        PROVE  WrittenTo(x, "hex2", L, <<e, i + Width(c), n, h,
                                         o \o PointerBytes(Value(x, L, w), Width(c))>>)
    <2>1. Write(x, "hex2", L, w) = <<e, i + Width(c), n, h,
                                     o \o PointerBytes(Value(x, L, w), Width(c))>>
      BY <1>2, <1>4 DEF Write
    <2> QED BY <1>4, <2>1, WriteOn
  <1> QED BY <1>3, <1>4

(* A comment that is closed, left behind LF or behind either half of a     *)
(* line end.                                                               *)
LEMMA ClosedOn ==
  ASSUME NEW x \in Seq(STRING), NEW p \in 1 .. Len(x), x[p] \in Comment,
         \A r \in DOMAIN x : x[r] = "CR" => r < Len(x) /\ x[r + 1] = "LF",
         NEW b \in p .. Len(x), x[b] = "LF",
         NEW e \in {FindFrom(x, p + 1, {"LF"}), FindFrom(x, p + 1, {"LF", "CR"})}
  PROVE  /\ e \in p + 1 .. Len(x)
         /\ \A i, n, L, s : MeasuredTo(x, <<p, i, n, L, s>>) => MeasuredTo(x, <<e + 1, i, n, L, s>>)
         /\ \A L, i, n, h, o : WrittenTo(x, "hex2", L, <<p, i, n, h, o>>)
                                 => WrittenTo(x, "hex2", L, <<e + 1, i, n, h, o>>)
  <1>1. b # p /\ Len(x) \in Nat
    BY LenProperties DEF Comment
  <1>2. PICK q : q = FindFrom(x, p + 1, {"LF", "CR"})
    OBVIOUS
  <1>3. PICK f : f = FindFrom(x, p + 1, {"LF"})
    OBVIOUS
  <1>4. /\ f \in p + 1 .. Len(x) /\ q \in p + 1 .. Len(x) /\ x[f] = "LF"
        /\ f = q \/ f = q + 1
    BY <1>1, <1>2, <1>3, CommentCloses
  <1>5. e = q \/ (e = f /\ f = q + 1)
    BY <1>2, <1>3, <1>4
  <1>6. Ends("hex2") = {"LF", "CR"}
    BY DEF Ends
  <1>7. /\ \A i, n, L, s : MeasuredTo(x, <<p, i, n, L, s>>) => MeasuredTo(x, <<q + 1, i, n, L, s>>)
        /\ \A L, i, n, h, o : WrittenTo(x, "hex2", L, <<p, i, n, h, o>>)
                                => WrittenTo(x, "hex2", L, <<q + 1, i, n, h, o>>)
    BY <1>2, <1>4, <1>6, CommentOn, ZenonT(30)
  <1>8. f <= Len(x) /\ x[f] \notin HexDigit \cup Comment \cup {":"} \cup PointerOps
    <2>1. "LF" \in Blank \cup {">", "CR", ":"} \cup PointerOps /\ "LF" \notin {":"} \cup PointerOps
      BY DEF Blank, PointerOps
    <2> QED BY <1>1, <1>4, <2>1, CharFacts
  <1>9. /\ \A i, n, L, s : MeasuredTo(x, <<f, i, n, L, s>>) => MeasuredTo(x, <<f + 1, i, n, L, s>>)
        /\ \A L, i, n, h, o : WrittenTo(x, "hex2", L, <<f, i, n, h, o>>)
                                => WrittenTo(x, "hex2", L, <<f + 1, i, n, h, o>>)
    BY <1>8, IdleOn
  <1>10. CASE e = q
    BY <1>4, <1>7, <1>10
  <1>11. CASE e = f /\ f = q + 1
    BY <1>4, <1>7, <1>9, <1>11
  <1> QED BY <1>5, <1>10, <1>11

(* Behind what ends a name.                                                *)
LEMMA DelimiterOn ==
  ASSUME NEW x \in Seq(STRING), NEW p, p <= Len(x), x[p] \in Blank \cup {">"}
  PROVE  /\ \A i, n, L, s : MeasuredTo(x, <<p, i, n, L, s>>) => MeasuredTo(x, <<p + 1, i, n, L, s>>)
         /\ \A L, i, n, h, o : WrittenTo(x, "hex2", L, <<p, i, n, h, o>>)
                                 => WrittenTo(x, "hex2", L, <<p + 1, i, n, h, o>>)
  <1>1. x[p] \in Blank \cup {">", "CR", ":"} \cup PointerOps /\ x[p] \in Blank \cup {">", "CR"}
    OBVIOUS
  <1>2. x[p] \notin HexDigit \cup Comment \cup {":"} \cup PointerOps
    BY <1>1, CharFacts
  <1> QED BY <1>2, IdleOn

-----------------------------------------------------------------------------
(* The tools as forms of it *)

(* Texts that mean the same to all tools that read them: every comment and *)
(* name ends, and there is no '~'.                                         *)
Fit == CommentsClosed /\ NamesEnd /\ \A p \in DOMAIN input : input[p] # "~"

Spoken(t) == Fit /\ (t \in Hex0Ports => Hex0Text) /\ (t \in Hex1Ports => Hex1Text)

(* hex2.c records other addresses than the rest once a label is inside a   *)
(* byte.                                                                   *)
Apart  == tool = "hex2.c" /\ split
Splits == IF split THEN 1 ELSE 0

(* The definitions of a tool, seen from the address it starts at.          *)
Entries          == [name : Name, target : Int]
Shifted(f, L, b) == /\ Len(f) = Len(L)
                    /\ \A j \in 1 .. Len(L) : /\ f[j].name = L[j].name
                                              /\ f[j].target = L[j].target + b

(* Where the tool is.                                                      *)
Point1(L) == <<pos, ip - Start(tool) - Early(Nibbles), Nibbles, L, Splits>>
Point2    == <<pos, ip - Start(tool), Nibbles, hold, out>>

MissWord(t, L) == IF t = "hex2" /\ L = << >> THEN "wild" ELSE "failed"

(* hex0: the same output in either language, whatever the text is for the  *)
(* one, and if it is in the language of hex0 for the other.                *)
Hex0Inv ==
    tool \in Hex0Ports =>
        /\ ~split /\ phase \in {"second", "done", "wild"}
        /\ phase = "wild" => tool = "hex0" /\ ~Spoken(tool)
        /\ phase = "done" => ~More
        /\ \A k \in {"hex0", "hex2"} : (k = "hex2" => Spoken(tool)) =>
              \E i : WrittenTo(input, k, << >>, <<pos, i, Nibbles, hold, out>>)

(* hex1 and hex2 do what the assembler does, until hex1 meets a name that  *)
(* is not defined, where hex2 stops.                                       *)
Follows(L) ==
    /\ ~Apart => Shifted(labels, L, Start(tool))
    /\ phase = "first" => MeasuredTo(input, Point1(L))
    /\ phase # "first" =>
          /\ \E i, n : MeasuredTo(input, <<Len(input) + 1, i, n, L, Splits>>)
          /\ ~Apart =>
                \/ WrittenTo(input, "hex2", L, Point2)
                \/ /\ tool \in Hex1Ports
                   /\ \E w : WrittenTo(input, "hex2", L, w) /\ Fails(input, "hex2", L, w)
    /\ phase \in {"failed", "wild"} /\ ~Apart =>
          Fails(input, "hex2", L, Point2) /\ phase = MissWord(tool, L)

LaterInv ==
    tool \notin Hex0Ports /\ Spoken(tool) =>
        /\ phase # "runaway" /\ (phase = "done" => ~More)
        /\ phase \in {"failed", "wild"} => tool \in Hex2Ports
        /\ \E L \in Seq(Entries) : Follows(L)

(* What a tool has left: the output of the assembler, or of as much of it  *)
(* as there is in front of a name that is not defined.                     *)
WrittenAll(x, k, o) == \E w : WrittenTo(x, k, << >>, w) /\ AtEnd(x, w[1]) /\ o = w[5]

Left(x, t, r) ==
    \E i, n, s : \E L \in Seq(Entries) :
       /\ MeasuredTo(x, <<Len(x) + 1, i, n, L, s>>)
       /\ r.split = (s = 1)
       /\ t \in Hex1Ports => r.end = "done"
       /\ ~ (t = "hex2.c" /\ s = 1) =>
          \E w : /\ WrittenTo(x, "hex2", L, w)
                 /\ AtEnd(x, w[1]) \/ Fails(x, "hex2", L, w)
                 /\ AtEnd(x, w[1]) => r.end = "done" /\ r.out = w[5]
                 /\ t \in Hex2Ports /\ ~AtEnd(x, w[1]) =>
                       r.end = MissWord(t, L) /\ r.out = w[5]

Ended(t, r) ==
    /\ r = [end |-> r.end, out |-> r.out, split |-> r.split]
    /\ t \in Hex0Ports =>
          /\ t = "hex0.rv" \/ Spoken(t) => r.end = "done"
          /\ r.end = "done" => r.split = FALSE
          /\ r.end = "done" => WrittenAll(input, "hex0", r.out)
          /\ r.end = "done" /\ Spoken(t) => WrittenAll(input, "hex2", r.out)
    /\ t \notin Hex0Ports /\ Spoken(t) => Left(input, t, r)

PortInv ==
    /\ tool = Tools[IF Len(results) = 6 THEN 6 ELSE Len(results) + 1]
    /\ Hex0Inv /\ LaterInv
    /\ \A j \in 1 .. Len(results) : Ended(Tools[j], results[j])

(* A text means what it meant.                                             *)
LEMMA SameLanguage ==
  ASSUME UNCHANGED input
  PROVE  \A t : Spoken(t)' <=> Spoken(t)
  BY DEF Spoken, Fit, CommentsClosed, NamesEnd, Hex0Text, Hex1Text

(* hex0 has read on.                                                       *)
LEMMA Hex0On ==
  ASSUME tool \in Hex0Ports, Hex0Inv, phase = "second", UNCHANGED <<tool, input, split, phase>>,
         \A k \in {"hex0", "hex2"} : \A i :
            (k = "hex2" => Spoken(tool)) /\ WrittenTo(input, k, << >>, <<pos, i, Nibbles, hold, out>>)
              => \E j : WrittenTo(input, k, << >>, <<pos', j, Nibbles', hold', out'>>)
  PROVE  Hex0Inv'
  <1>1. Spoken(tool)' <=> Spoken(tool)
    BY SameLanguage
  <1>2. ASSUME NEW k \in {"hex0", "hex2"}, k = "hex2" => Spoken(tool)
        PROVE  \E j : WrittenTo(input', k, << >>, <<pos', j, Nibbles', hold', out'>>)
    <2>1. PICK i : WrittenTo(input, k, << >>, <<pos, i, Nibbles, hold, out>>)
      BY <1>2 DEF Hex0Inv
    <2> QED BY <1>2, <2>1
  <1>3. ~split' /\ phase' = "second" /\ tool' \in Hex0Ports
    BY DEF Hex0Inv
  <1> QED BY <1>1, <1>2, <1>3 DEF Hex0Inv

(* Where a comment of hex0 ends, in either language.                       *)
LEMMA Hex0CommentOn ==
  ASSUME StageInv, More, Char \in Comment, tool \in Hex0Ports,
         NEW e, e = Hex0Comment(pos + 1)
  PROVE  /\ e \in pos + 1 .. Len(input) + 1
         /\ Spoken(tool) => e <= Len(input)
         /\ \A i, n, h, o : WrittenTo(input, "hex0", << >>, <<pos, i, n, h, o>>) =>
               WrittenTo(input, "hex0", << >>, <<Skip(input, e, 1), i, n, h, o>>)
         /\ \A i, n, h, o : Spoken(tool) /\ WrittenTo(input, "hex2", << >>, <<pos, i, n, h, o>>) =>
               WrittenTo(input, "hex2", << >>, <<e + 1, i, n, h, o>>)
  <1>1. /\ Len(input) \in Nat /\ input \in Seq(STRING) /\ pos \in 1 .. Len(input)
        /\ pos + 1 \in 1 .. Len(input) + 1 /\ input[pos] \in Comment
    BY PassFacts DEF TextOK, Char
  <1>2. e = FindFrom(input, pos + 1, {"LF"}) /\ e \in pos + 1 .. Len(input) + 1
    BY <1>1, EndFacts DEF Hex0Comment, TextOK
  <1>3. ASSUME NEW i, NEW n, NEW h, NEW o, NEW w, w = <<pos, i, n, h, o>>,
               WrittenTo(input, "hex0", << >>, w)
        PROVE  WrittenTo(input, "hex0", << >>, <<Skip(input, e, 1), i, n, h, o>>)
    <2>1. Leaves(input, "hex0", pos) = Skip(input, e, 1)
      BY <1>1, <1>2 DEF Leaves, Ends
    <2>2. input[pos] \notin HexDigit
      BY <1>1, DigitFacts
    <2>3. Write(input, "hex0", << >>, w) = <<Skip(input, e, 1), i, n, h, o>>
      BY <1>3, <2>1, <2>2 DEF Write, Refs
    <2>4. w[1] <= Len(input) /\ ~Fails(input, "hex0", << >>, w)
      BY <1>1, <1>3 DEF Fails, Refs
    <2> QED BY <1>1, <1>3, <2>3, <2>4, WriteOn
  <1>4. ASSUME Spoken(tool)
        PROVE  /\ e <= Len(input)
               /\ \A i, n, h, o : WrittenTo(input, "hex2", << >>, <<pos, i, n, h, o>>) =>
                     WrittenTo(input, "hex2", << >>, <<e + 1, i, n, h, o>>)
    <2>1. /\ \A r \in DOMAIN input : input[r] = "CR" => r < Len(input) /\ input[r + 1] = "LF"
          /\ \E b \in pos .. Len(input) : input[b] = "LF"
      <3>1. pos \in DOMAIN input
        BY <1>1
      <3> QED BY <1>1, <1>4, <3>1 DEF Spoken, Fit, CommentsClosed
    <2>2. PICK b \in pos .. Len(input) : input[b] = "LF"
      BY <2>1
    <2>3. /\ e \in pos + 1 .. Len(input)
          /\ \A L, i, n, h, o : WrittenTo(input, "hex2", L, <<pos, i, n, h, o>>)
                                  => WrittenTo(input, "hex2", L, <<e + 1, i, n, h, o>>)
      BY <1>1, <1>2, <2>1, <2>2, ClosedOn
    <2> QED BY <1>1, <2>3
  <1> QED BY <1>2, <1>3, <1>4

(* Every step of hex0.                                                     *)
LEMMA Hex0Tracks ==
  ASSUME StageInv, Hex0Inv, Hex0Next, UNCHANGED tool
  PROVE  Hex0Inv'
  <1>1. tool \in Hex0Ports /\ phase = "second"
    BY DEF Hex0Next, Hex0Digit, Hex0Purge, Hex0PurgeAtEof, Hex0Other, Hex0Eof, Hex0Turn
  <1>2. Len(input) \in Nat /\ input \in Seq(STRING) /\ (More => pos \in 1 .. Len(input))
    BY PassFacts DEF TextOK
  <1>3. ASSUME More, Spoken(tool)
        PROVE  Char \notin {":"} \cup PointerOps
    <2>1. pos \in DOMAIN input /\ Hex0Text
      BY <1>1, <1>2, <1>3 DEF Spoken
    <2> QED BY <2>1 DEF Hex0Text, Char
  <1>4. CASE Hex0Digit
    <2>1. More /\ Char \in HexDigit /\ Toggle(Nibble(Char), 0) /\ SpGoto(pos + 1)
      BY <1>4 DEF Hex0Digit
    <2>2. UNCHANGED <<tool, input, split, phase>> /\ pos' = pos + 1
      BY <2>1 DEF SpGoto
    <2>3. ASSUME NEW k \in {"hex0", "hex2"}, NEW i,
                 WrittenTo(input, k, << >>, <<pos, i, Nibbles, hold, out>>)
          PROVE  \E j : WrittenTo(input, k, << >>, <<pos', j, Nibbles', hold', out'>>)
      <3>1. pos <= Len(input) /\ input[pos] \in HexDigit
        BY <1>2, <2>1 DEF Char
      <3>2. \A h, o :
              /\ WrittenTo(input, k, << >>, <<pos, i, 0, h, o>>)
                   => WrittenTo(input, k, << >>, <<pos + 1, i, 1, Nibble(input[pos]), o>>)
              /\ WrittenTo(input, k, << >>, <<pos, i, 1, h, o>>)
                   => WrittenTo(input, k, << >>, <<pos + 1, i + 1, 0, h,
                                     Append(o, [value |-> h * 16 + Nibble(input[pos])])>>)
        BY <1>2, <3>1, NibbleOn
      <3>3. CASE half
        <4>1. Nibbles = 1 /\ Nibbles' = 0 /\ hold' = hold
              /\ out' = Append(out, [value |-> hold * 16 + Nibble(input[pos])])
          BY <2>1, <3>3 DEF Toggle, Nibbles, Char
        <4> QED BY <2>2, <2>3, <3>2, <4>1
      <3>4. CASE ~half
        <4>1. Nibbles = 0 /\ Nibbles' = 1 /\ hold' = Nibble(input[pos]) /\ out' = out
          BY <2>1, <3>4 DEF Toggle, Nibbles, Char
        <4> QED BY <2>2, <2>3, <3>2, <4>1
      <3> QED BY <3>3, <3>4
    <2> QED BY <1>1, <2>2, <2>3, Hex0On
  <1>5. ASSUME NEW p, SpGoto(p), UNCHANGED <<ip, half, hold, out>>,
               \A i, n, h, o : WrittenTo(input, "hex0", << >>, <<pos, i, n, h, o>>) =>
                  WrittenTo(input, "hex0", << >>, <<p, i, n, h, o>>),
               \A i, n, h, o : Spoken(tool) /\ WrittenTo(input, "hex2", << >>, <<pos, i, n, h, o>>) =>
                  WrittenTo(input, "hex2", << >>, <<p, i, n, h, o>>)
        PROVE  Hex0Inv'
    <2>1. UNCHANGED <<tool, input, split, phase>> /\ pos' = p /\ hold' = hold /\ out' = out
          /\ Nibbles' = Nibbles
      BY <1>5 DEF SpGoto, Nibbles
    <2>2. ASSUME NEW k \in {"hex0", "hex2"}, NEW i, k = "hex2" => Spoken(tool),
                 WrittenTo(input, k, << >>, <<pos, i, Nibbles, hold, out>>)
          PROVE  \E j : WrittenTo(input, k, << >>, <<pos', j, Nibbles', hold', out'>>)
      BY <1>5, <2>1, <2>2
    <2> QED BY <1>1, <2>1, <2>2, Hex0On
  <1>6. CASE Hex0Other
    <2>1. More /\ Char \notin HexDigit \cup Comment /\ SpGoto(pos + 1) /\ UNCHANGED <<ip, half, hold, out>>
      BY <1>6 DEF Hex0Other
    <2>2. ASSUME NEW i, NEW n, NEW h, NEW o, NEW w, w = <<pos, i, n, h, o>>,
                 WrittenTo(input, "hex0", << >>, w)
          PROVE  WrittenTo(input, "hex0", << >>, <<pos + 1, i, n, h, o>>)
      <3>1. Write(input, "hex0", << >>, w) = <<pos + 1, i, n, h, o>> /\ ~Fails(input, "hex0", << >>, w)
        BY <2>1, <2>2 DEF Write, Fails, Refs, Defs, Leaves, Char
      <3>2. w[1] <= Len(input)
        BY <1>2, <2>1, <2>2
      <3>3. WrittenTo(input, "hex0", << >>, Write(input, "hex0", << >>, w))
        BY <1>2, <2>2, <3>1, <3>2, WriteOn
      <3> QED BY <3>1, <3>3
    <2>3. ASSUME Spoken(tool)
          PROVE  \A i, n, h, o : WrittenTo(input, "hex2", << >>, <<pos, i, n, h, o>>) =>
                    WrittenTo(input, "hex2", << >>, <<pos + 1, i, n, h, o>>)
      <3>1. pos <= Len(input) /\ input[pos] \notin HexDigit \cup Comment \cup {":"} \cup PointerOps
        BY <1>2, <1>3, <2>1, <2>3 DEF Char
      <3> QED BY <1>2, <3>1, IdleOn
    <2> QED BY <1>5, <2>1, <2>2, <2>3
  <1>7. CASE Hex0Purge
    <2>1. PICK e : e = Hex0Comment(pos + 1)
      OBVIOUS
    <2>2. More /\ Char \in Comment /\ e <= Len(input) /\ SpGoto(e + 1) /\ UNCHANGED <<ip, half, hold, out>>
      <3>1. More /\ Char \in Comment /\ ~AtEnd(input, e) /\ SpGoto(e + 1) /\ UNCHANGED <<ip, half, hold, out>>
        BY <1>7, <2>1 DEF Hex0Purge
      <3>2. e \in pos + 1 .. Len(input) + 1
        BY <1>1, <2>1, <3>1, Hex0CommentOn
      <3> QED BY <1>2, <3>1, <3>2 DEF AtEnd
    <2>3. Skip(input, e, 1) = e + 1
      <3>1. e \in Int
        BY <1>1, <1>2, <2>1, <2>2, Hex0CommentOn
      <3> QED BY <1>2, <2>2, <3>1 DEF Skip
    <2> QED BY <1>1, <1>5, <2>1, <2>2, <2>3, Hex0CommentOn
  <1>8. CASE Hex0PurgeAtEof
    <2>1. PICK e : e = Hex0Comment(pos + 1)
      OBVIOUS
    <2>2. More /\ Char \in Comment /\ AtEnd(input, e)
          /\ IF tool = "hex0" THEN Stop("wild")
             ELSE SpGoto(Len(input) + 1) /\ UNCHANGED <<ip, half, hold, out>>
      BY <1>8, <2>1 DEF Hex0PurgeAtEof
    <2>3. e = Len(input) + 1 /\ ~Spoken(tool)
      BY <1>1, <1>2, <2>1, <2>2, Hex0CommentOn DEF AtEnd
    <2>4. Skip(input, e, 1) = Len(input) + 1
      BY <1>2, <2>3 DEF Skip
    <2>5. CASE tool # "hex0"
      BY <1>1, <1>5, <2>1, <2>2, <2>3, <2>4, <2>5, Hex0CommentOn
    <2>6. CASE tool = "hex0"
      <3>1. phase' = "wild" /\ UNCHANGED <<tool, input, pos, half, hold, out, split>>
        BY <2>2, <2>6 DEF Stop
      <3>2. ~Spoken(tool)' /\ Nibbles' = Nibbles
        BY <2>3, <3>1, SameLanguage DEF Nibbles
      <3>3. \E i : WrittenTo(input', "hex0", << >>, <<pos', i, Nibbles', hold', out'>>)
        BY <1>1, <3>1, <3>2 DEF Hex0Inv
      <3> QED BY <1>1, <2>6, <3>1, <3>2, <3>3 DEF Hex0Inv
    <2> QED BY <2>5, <2>6
  <1>9. CASE Hex0Eof
    <2>1. ~More /\ phase' = "done" /\ UNCHANGED <<tool, input, pos, half, hold, out, split>>
      BY <1>9 DEF Hex0Eof, Stop
    <2>2. (Spoken(tool)' <=> Spoken(tool)) /\ Nibbles' = Nibbles /\ ~More'
      BY <2>1, SameLanguage DEF Nibbles, More
    <2>3. \A k \in {"hex0", "hex2"} : (k = "hex2" => Spoken(tool)) =>
              \E i : WrittenTo(input', k, << >>, <<pos', i, Nibbles', hold', out'>>)
      BY <1>1, <2>1, <2>2 DEF Hex0Inv
    <2> QED BY <1>1, <2>1, <2>2, <2>3 DEF Hex0Inv
  <1> QED BY <1>4, <1>6, <1>7, <1>8, <1>9 DEF Hex0Next

-----------------------------------------------------------------------------
(* The passes of hex1 and hex2 *)

(* What a tool that is neither may meet in a text it shares.               *)
LEMMA TextFacts ==
  ASSUME StageInv, More, Spoken(tool), tool \notin Hex0Ports
  PROVE  /\ input \in Seq(STRING) /\ pos \in 1 .. Len(input) /\ Len(input) \in Nat
         /\ tool \in Hex1Ports \/ (tool \in Hex2Ports /\ tool \notin Hex1Ports)
         /\ tool \in Hex1Ports => Char \notin PointerOps \ {"%"}
         /\ Char # "~"
         /\ Char \in Comment =>
               /\ \A r \in DOMAIN input : input[r] = "CR" => r < Len(input) /\ input[r + 1] = "LF"
               /\ \E b \in pos .. Len(input) : input[b] = "LF"
         /\ Char \in {":"} \cup PointerOps => \E b \in pos + 1 .. Len(input) : input[b] \in Blank
         /\ tool \in Hex1Ports /\ Char \in {":", "%"} =>
               /\ pos + 2 <= Len(input) /\ input[pos + 1] \in {"a", "b"} /\ input[pos + 2] \in Blank
  <1>1. input \in Seq(STRING) /\ pos \in 1 .. Len(input) /\ Len(input) \in Nat /\ pos \in DOMAIN input
    BY PassFacts DEF TextOK
  <1>2. tool \in Hex1Ports \/ (tool \in Hex2Ports /\ tool \notin Hex1Ports)
    BY ToolFacts DEF StageInv, Types
  <1>3. Char # "~" /\ (Char \in {":"} \cup PointerOps => \E b \in pos + 1 .. Len(input) : input[b] \in Blank)
    BY <1>1 DEF Spoken, Fit, NamesEnd, Char
  <1>4. Char \in Comment =>
               /\ \A r \in DOMAIN input : input[r] = "CR" => r < Len(input) /\ input[r + 1] = "LF"
               /\ \E b \in pos .. Len(input) : input[b] = "LF"
    BY <1>1 DEF Spoken, Fit, CommentsClosed, Char
  <1>5. tool \in Hex1Ports =>
          /\ Char \notin PointerOps \ {"%"}
          /\ Char \in {":", "%"} =>
               /\ pos + 2 <= Len(input) /\ input[pos + 1] \in {"a", "b"} /\ input[pos + 2] \in Blank
    BY <1>1 DEF Spoken, Hex1Text, Char
  <1> QED BY <1>1, <1>2, <1>3, <1>4, <1>5

(* The names of the tools.                                                 *)
LEMMA TokenFactsHere ==
  ASSUME StageInv, More, Spoken(tool), tool \notin Hex0Ports, Char \in {":"} \cup PointerOps
  PROVE  /\ NameEnd(input, pos + 1) \in pos + 1 .. Len(input)
         /\ RefEnd(input, pos + 1) \in pos + 1 .. Len(input)
         /\ input[NameEnd(input, pos + 1)] \in Blank \cup {">"}
         /\ input[RefEnd(input, pos + 1)] \in Blank \cup {">"}
         /\ Named(input, pos + 1) \in Seq(STRING)
         /\ tool \in Hex1Ports /\ Char \in {":", "%"} =>
               /\ Hex1Name = Named(input, pos + 1) /\ ~Based(input, pos + 1)
               /\ Skip(input, pos, 2) = NameEnd(input, pos + 1)
               /\ Skip(input, pos, 2) = RefEnd(input, pos + 1)
         /\ tool \in Hex2Ports =>
               /\ ~Endless(pos + 1) /\ ~EndlessBase(pos + 1)
               /\ Token(pos + 1) = Named(input, pos + 1)
               /\ HasBase(pos + 1) <=> Based(input, pos + 1)
               /\ HasBase(pos + 1) =>
                     /\ ~Endless(BaseStart(pos + 1))
                     /\ Token(BaseStart(pos + 1)) = Named(input, NameEnd(input, pos + 1) + 1)
               /\ Skip(input, TokenEnd(pos + 1), 1) = NameEnd(input, pos + 1) + 1
               /\ Skip(input, ReferenceEnd(pos + 1), 1) = RefEnd(input, pos + 1) + 1
  <1>1. /\ input \in Seq(STRING) /\ pos \in 1 .. Len(input) /\ Len(input) \in Nat
        /\ \E b \in pos + 1 .. Len(input) : input[b] \in Blank
    BY TextFacts
  <1>2. PICK b \in pos + 1 .. Len(input) : input[b] \in Blank
    BY <1>1
  <1>3. PICK e : e = NameEnd(input, pos + 1)
    OBVIOUS
  <1>4. /\ e \in pos + 1 .. b /\ input[e] \in Blank \cup {">"}
        /\ RefEnd(input, pos + 1) \in pos + 1 .. b
        /\ input[RefEnd(input, pos + 1)] \in Blank \cup {">"}
        /\ Named(input, pos + 1) \in Seq(STRING)
        /\ Based(input, pos + 1) => /\ e + 1 \in pos + 2 .. b
                                    /\ NameEnd(input, e + 1) \in e + 1 .. b
    BY <1>1, <1>2, <1>3, NameEnds
  <1>5. /\ e \in pos + 1 .. Len(input) /\ RefEnd(input, pos + 1) \in pos + 1 .. Len(input)
        /\ Based(input, pos + 1) => e + 1 <= Len(input) /\ NameEnd(input, e + 1) <= Len(input)
    BY <1>1, <1>2, <1>4
  <1>6. ASSUME tool \in Hex1Ports, Char \in {":", "%"}
        PROVE  /\ Hex1Name = Named(input, pos + 1) /\ ~Based(input, pos + 1)
               /\ Skip(input, pos, 2) = NameEnd(input, pos + 1)
               /\ Skip(input, pos, 2) = RefEnd(input, pos + 1)
    <2>1. pos + 2 <= Len(input) /\ input[pos + 1] \in {"a", "b"} /\ input[pos + 2] \in Blank
      BY <1>6, TextFacts
    <2>2. /\ NameEnd(input, pos + 1) = pos + 2 /\ RefEnd(input, pos + 1) = pos + 2
          /\ Named(input, pos + 1) = <<input[pos + 1]>> /\ ~Based(input, pos + 1)
      BY <1>1, <2>1, ShortName
    <2>3. Skip(input, pos, 2) = pos + 2 /\ Hex1Name = <<input[pos + 1]>>
      BY <1>1, <2>1 DEF Skip, Hex1Name, AtEnd
    <2> QED BY <2>2, <2>3
  <1>7. TokenEnd(pos + 1) = e /\ (HasBase(pos + 1) <=> Based(input, pos + 1))
        /\ ReferenceEnd(pos + 1) = RefEnd(input, pos + 1)
        /\ BaseStart(pos + 1) = e + 1 /\ TokenEnd(e + 1) = NameEnd(input, e + 1)
    BY <1>3 DEF TokenEnd, NameEnd, HasBase, Based, ReferenceEnd, RefEnd, BaseStart
  <1>8. Token(pos + 1) = Named(input, pos + 1) /\ ~Endless(pos + 1)
    <2>1. ~AtEnd(input, pos + 1) /\ ~AtEnd(input, e)
      BY <1>1, <1>5 DEF AtEnd
    <2> QED BY <1>3, <1>7, <2>1 DEF Token, Named, Endless
  <1>9. ASSUME HasBase(pos + 1)
        PROVE  ~Endless(e + 1) /\ Token(e + 1) = Named(input, e + 1)
    <2>1. ~AtEnd(input, e + 1) /\ ~AtEnd(input, NameEnd(input, e + 1))
      <3>1. NameEnd(input, e + 1) \in Int
        BY <1>4, <1>7, <1>9
      <3> QED BY <1>1, <1>5, <1>7, <1>9, <3>1 DEF AtEnd
    <2> QED BY <1>7, <2>1 DEF Token, Named, Endless
  <1>10. Skip(input, e, 1) = e + 1
         /\ Skip(input, RefEnd(input, pos + 1), 1) = RefEnd(input, pos + 1) + 1
    BY <1>1, <1>5 DEF Skip
  <1> QED BY <1>3, <1>4, <1>5, <1>6, <1>7, <1>8, <1>9, <1>10 DEF EndlessBase

(* Where a turn of hex1 or hex2 goes that meets no name.                   *)
After == IF tool \in Hex1Ports THEN Hex1After ELSE Hex2After

LEMMA AfterFacts ==
  ASSUME StageInv, More, Spoken(tool), tool \notin Hex0Ports
  PROVE  /\ tool \in Hex1Ports => ~Hex1Lost
         /\ ~Hex2Lost
         /\ Char \notin Comment => After = pos + 1
         /\ Char \notin HexDigit \cup {":"} \cup PointerOps =>
              /\ \A i, n, L, s : MeasuredTo(input, <<pos, i, n, L, s>>)
                                   => MeasuredTo(input, <<After, i, n, L, s>>)
              /\ \A L, i, n, h, o : WrittenTo(input, "hex2", L, <<pos, i, n, h, o>>)
                                      => WrittenTo(input, "hex2", L, <<After, i, n, h, o>>)
  <1>1. input \in Seq(STRING) /\ pos \in 1 .. Len(input) /\ Len(input) \in Nat /\ Char = input[pos]
    BY TextFacts DEF Char
  <1>2. CASE Char \in Comment
    <2> DEFINE E == {FindFrom(input, pos + 1, {"LF"}), FindFrom(input, pos + 1, {"LF", "CR"})}
    <2>1. /\ \A r \in DOMAIN input : input[r] = "CR" => r < Len(input) /\ input[r + 1] = "LF"
          /\ \E b \in pos .. Len(input) : input[b] = "LF"
      BY <1>2, TextFacts
    <2>2. PICK b \in pos .. Len(input) : input[b] = "LF"
      BY <2>1
    <2>3. \A e \in E :
            /\ e \in pos + 1 .. Len(input)
            /\ \A i, n, L, s : MeasuredTo(input, <<pos, i, n, L, s>>)
                                 => MeasuredTo(input, <<e + 1, i, n, L, s>>)
            /\ \A L, i, n, h, o : WrittenTo(input, "hex2", L, <<pos, i, n, h, o>>)
                                    => WrittenTo(input, "hex2", L, <<e + 1, i, n, h, o>>)
      BY <1>1, <1>2, <2>1, <2>2, ClosedOn
    <2>4. Hex1CommentEnd(pos + 1) \in E /\ Hex2Comment(pos + 1) \in E /\ Hex1Comment(pos + 1) \in E
      BY DEF Hex1CommentEnd, Hex1Comment, Hex1RvComment, Hex2Comment
    <2> HIDE DEF E
    <2>5. PICK e \in E : After = Skip(input, e, 1)
      BY <1>2, <2>4 DEF After, Hex1After, Hex2After
    <2>6. e \in pos + 1 .. Len(input)
      BY <2>3
    <2>7. After = e + 1
      BY <1>1, <2>5, <2>6 DEF Skip
    <2>8. ~Hex2Lost /\ ~Hex1Lost
      <3>1. Hex1Comment(pos + 1) \in pos + 1 .. Len(input) /\ Hex2Comment(pos + 1) \in pos + 1 .. Len(input)
        BY <2>3, <2>4
      <3>2. ~AtEnd(input, Hex1Comment(pos + 1)) /\ ~AtEnd(input, Hex2Comment(pos + 1))
        BY <1>1, <3>1 DEF AtEnd
      <3> QED BY <3>2 DEF Hex2Lost, Hex1Lost, Hex1Hides
    <2>9. /\ \A i, n, L, s : MeasuredTo(input, <<pos, i, n, L, s>>)
                               => MeasuredTo(input, <<e + 1, i, n, L, s>>)
          /\ \A L, i, n, h, o : WrittenTo(input, "hex2", L, <<pos, i, n, h, o>>)
                                  => WrittenTo(input, "hex2", L, <<e + 1, i, n, h, o>>)
      BY <2>3
    <2> QED BY <1>2, <2>7, <2>8, <2>9
  <1>3. CASE Char \notin Comment
    <2>1. After = pos + 1 /\ ~Hex1Lost /\ ~Hex2Lost
      BY <1>3 DEF After, Hex1After, Hex2After, Hex1Lost, Hex2Lost
    <2>2. ASSUME Char \notin HexDigit \cup {":"} \cup PointerOps
          PROVE  /\ \A i, n, L, s : MeasuredTo(input, <<pos, i, n, L, s>>)
                                   => MeasuredTo(input, <<pos + 1, i, n, L, s>>)
                 /\ \A L, i, n, h, o : WrittenTo(input, "hex2", L, <<pos, i, n, h, o>>)
                                      => WrittenTo(input, "hex2", L, <<pos + 1, i, n, h, o>>)
      <3>1. pos <= Len(input) /\ input[pos] \notin HexDigit \cup Comment \cup {":"} \cup PointerOps
        BY <1>1, <1>3, <2>2
      <3> QED BY <1>1, <3>1, IdleOn
    <2> QED BY <2>1, <2>2
  <1> QED BY <1>2, <1>3


-----------------------------------------------------------------------------
(* The first passes *)

(* A turn of a first pass is a turn of the assembler, or two.              *)
LEMMA FirstOn ==
  ASSUME LaterInv, phase = "first", UNCHANGED <<tool, input, phase>>,
         Spoken(tool) => \A L \in Seq(Entries) :
            MeasuredTo(input, Point1(L)) /\ (~Apart => Shifted(labels, L, Start(tool))) =>
              \E M \in Seq(Entries) :
                /\ MeasuredTo(input, <<pos', ip' - Start(tool) - Early(Nibbles)', Nibbles', M, Splits'>>)
                /\ ~Apart' => Shifted(labels', M, Start(tool))
  PROVE  LaterInv'
  <1>1. phase' = "first" /\ phase' \notin {"failed", "wild", "done", "runaway"} /\ tool' = tool
        /\ input' = input
    OBVIOUS
  <1>2. Spoken(tool)' <=> Spoken(tool)
    BY SameLanguage
  <1>3. ASSUME tool \notin Hex0Ports, Spoken(tool)
        PROVE  \E M \in Seq(Entries) : Follows(M)'
    <2>1. PICK L \in Seq(Entries) : Follows(L)
      BY <1>3 DEF LaterInv
    <2>2. MeasuredTo(input, Point1(L)) /\ (~Apart => Shifted(labels, L, Start(tool)))
      BY <2>1 DEF Follows
    <2>3. PICK M \in Seq(Entries) :
                /\ MeasuredTo(input, <<pos', ip' - Start(tool) - Early(Nibbles)', Nibbles', M, Splits'>>)
                /\ ~Apart' => Shifted(labels', M, Start(tool))
      BY <1>3, <2>2
    <2>4. Point1(M)' = <<pos', ip' - Start(tool) - Early(Nibbles)', Nibbles', M, Splits'>>
      BY <1>1 DEF Point1
    <2>5. MeasuredTo(input, Point1(M))'
      BY <1>1, <2>3, <2>4
    <2>6. Follows(M)'
      BY <1>1, <2>3, <2>5 DEF Follows
    <2> QED BY <2>6
  <1> QED BY <1>1, <1>2, <1>3 DEF LaterInv

(* A definition in front of both lists.                                    *)
LEMMA PrependOn ==
  ASSUME NEW F, NEW G, NEW f \in Seq(F), NEW L \in Seq(G), NEW b,
         NEW a \in F, NEW e \in G, a.name = e.name, a.target = e.target + b
  PROVE  <<e>> \o L \in Seq(G) /\ (Shifted(f, L, b) => Shifted(<<a>> \o f, <<e>> \o L, b))
  <1>1. <<a>> \in Seq(F) /\ Len(<<a>>) = 1 /\ <<a>>[1] = a
        /\ <<e>> \in Seq(G) /\ Len(<<e>>) = 1 /\ <<e>>[1] = e
    BY OneIsSeq
  <1>2. PICK g : g = <<a>> \o f
    OBVIOUS
  <1>3. PICK M : M = <<e>> \o L
    OBVIOUS
  <1>4. /\ Len(g) = 1 + Len(f) /\ Len(f) \in Nat
        /\ \A k \in 1 .. 1 + Len(f) : g[k] = IF k <= 1 THEN a ELSE f[k - 1]
    BY <1>1, <1>2, ConcatProperties, LenProperties
  <1>5. /\ M \in Seq(G) /\ Len(M) = 1 + Len(L) /\ Len(L) \in Nat
        /\ \A k \in 1 .. 1 + Len(L) : M[k] = IF k <= 1 THEN e ELSE L[k - 1]
    BY <1>1, <1>3, ConcatProperties, LenProperties
  <1>6. ASSUME Shifted(f, L, b)
        PROVE  Shifted(g, M, b)
    <2>1. Len(f) = Len(L) /\ \A j \in 1 .. Len(L) : f[j].name = L[j].name /\ f[j].target = L[j].target + b
      BY <1>6 DEF Shifted
    <2>2. ASSUME NEW k \in 1 .. Len(M)
          PROVE  g[k].name = M[k].name /\ g[k].target = M[k].target + b
      <3>1. CASE k = 1
        BY <1>4, <1>5, <2>1, <3>1
      <3>2. CASE k # 1
        <4>1. k - 1 \in 1 .. Len(L)
          BY <1>5, <3>2
        <4>2. g[k] = f[k - 1] /\ M[k] = L[k - 1]
          BY <1>4, <1>5, <2>1, <3>2
        <4> QED BY <2>1, <4>1, <4>2
      <3> QED BY <3>1, <3>2
    <2> QED BY <1>4, <1>5, <2>1, <2>2 DEF Shifted
  <1> QED BY <1>2, <1>3, <1>5, <1>6

(* A definition, left in front of what ends the name or behind it.         *)
LEMMA DefineTracks ==
  ASSUME StageInv, LaterInv, phase = "first", More, tool \notin Hex0Ports, UNCHANGED tool, Char = ":",
         NEW name, Define(name), NEW p, FpGoto(p, ip, half),
         Spoken(tool) => /\ name = Named(input, pos + 1)
                         /\ p \in {NameEnd(input, pos + 1), NameEnd(input, pos + 1) + 1}
  PROVE  LaterInv'
  <1>1. /\ UNCHANGED <<tool, input, phase>> /\ pos' = p /\ ip' = ip /\ half' = half
        /\ labels' = <<[name |-> name, target |-> ip, at |-> pos]>> \o labels
        /\ split' = (split \/ half)
    BY DEF FpGoto, Define
  <1>2. ip \in Nat /\ half \in BOOLEAN /\ split \in BOOLEAN /\ labels \in Seq(Label) /\ Start(tool) \in Int
    BY PassFacts DEF Start, Base
  <1>3. Nibbles' = Nibbles /\ Early(Nibbles)' = Early(Nibbles) /\ Early(Nibbles) \in Int /\ Nibbles \in {0, 1}
    BY <1>1, <1>2 DEF Nibbles, Early
  <1>4. Splits' = IF Nibbles = 1 THEN 1 ELSE Splits
    <2>1. CASE half
      <3>1. split' = TRUE
        BY <1>1, <1>2, <2>1, Zenon
      <3> QED BY <2>1, <3>1 DEF Nibbles, Splits
    <2>2. CASE ~half
      <3>1. split' <=> split
        BY <1>1, <1>2, <2>2, Zenon
      <3> QED BY <2>2, <3>1 DEF Nibbles, Splits
    <2> QED BY <2>1, <2>2
  <1>5. ~Apart' => ~Apart /\ Early(Nibbles) = Nibbles
    <2>1. CASE tool = "hex2.c"
      <3>1. ~Apart' => ~split /\ ~half
        BY <1>1, <1>2, <2>1, Zenon DEF Apart
      <3> QED BY <3>1 DEF Apart, Early, Nibbles
    <2>2. CASE tool # "hex2.c"
      BY <1>1, <2>2 DEF Apart, Early
    <2> QED BY <2>1, <2>2
  <1>6. ASSUME Spoken(tool), NEW L \in Seq(Entries), MeasuredTo(input, Point1(L)),
               ~Apart => Shifted(labels, L, Start(tool))
        PROVE  \E M \in Seq(Entries) :
                /\ MeasuredTo(input, <<pos', ip' - Start(tool) - Early(Nibbles)', Nibbles', M, Splits'>>)
                /\ ~Apart' => Shifted(labels', M, Start(tool))
    <2>1. /\ input \in Seq(STRING) /\ pos \in 1 .. Len(input) /\ Len(input) \in Nat
          /\ NameEnd(input, pos + 1) \in pos + 1 .. Len(input)
          /\ input[NameEnd(input, pos + 1)] \in Blank \cup {">"}
          /\ name = Named(input, pos + 1) /\ name \in Seq(STRING)
      BY <1>6, TextFacts, TokenFactsHere
    <2>2. PICK e : e = NameEnd(input, pos + 1)
      OBVIOUS
    <2>3. PICK i : i = ip - Start(tool) - Early(Nibbles)
      OBVIOUS
    <2>4. PICK a : a = [name |-> name, target |-> ip, at |-> pos]
      OBVIOUS
    <2>5. PICK d : d = [name |-> name, target |-> i + Nibbles]
      OBVIOUS
    <2>6. a \in Label /\ d \in Entries
      <3>1. name \in Name
        <4>1. \A k \in 1 .. Len(name) : name[k] \in STRING \cup {"EOF"}
          BY <2>1, ElementOfSeq
        <4> QED BY <2>1, <4>1, LenProperties DEF Name
      <3>2. i + Nibbles \in Int
        BY <1>2, <1>3, <2>3
      <3> QED BY <1>2, <2>1, <2>4, <2>5, <3>1, <3>2 DEF Label, Entries
    <2>7. PICK M : M = <<d>> \o L
      OBVIOUS
    <2>8. M \in Seq(Entries) /\ (~Apart' => Shifted(labels', M, Start(tool)))
      <3>1. a.name = name /\ d.name = name /\ a.target = ip /\ d.target = i + Nibbles
        BY <2>4, <2>5
      <3>2. labels' = <<a>> \o labels
        BY <1>1, <2>4
      <3>3. \A b : a.target = d.target + b =>
               M \in Seq(Entries) /\ (Shifted(labels, L, b) => Shifted(labels', M, b))
        BY <1>2, <1>6, <2>6, <2>7, <3>1, <3>2, PrependOn
      <3>4. a.target = d.target + (ip - (i + Nibbles))
        BY <1>2, <1>3, <2>3, <3>1
      <3>5. ~Apart' => a.target = d.target + Start(tool)
        BY <1>2, <1>3, <1>5, <2>3, <3>1
      <3> QED BY <1>5, <1>6, <3>3, <3>4, <3>5
    <2>9. MeasuredTo(input, <<e, i, Nibbles, M, Splits'>>)
      <3>1. pos <= Len(input) /\ input[pos] = ":"
        BY <2>1 DEF Char
      <3>2. MeasuredTo(input, <<pos, i, Nibbles, L, Splits>>)
        BY <1>6, <2>3 DEF Point1
      <3>3. MeasuredTo(input, <<e, i, Nibbles, <<[name |-> Named(input, pos + 1), target |-> i + Nibbles]>> \o L,
                                IF Nibbles = 1 THEN 1 ELSE Splits>>)
        BY <2>1, <2>2, <3>1, <3>2, DefineOn
      <3> QED BY <1>4, <2>1, <2>5, <2>7, <3>3
    <2>10. MeasuredTo(input, <<p, i, Nibbles, M, Splits'>>)
      <3>1. MeasuredTo(input, <<e + 1, i, Nibbles, M, Splits'>>)
        BY <2>1, <2>2, <2>9, DelimiterOn
      <3> QED BY <1>6, <2>2, <2>9, <3>1
    <2>11. i = ip' - Start(tool) - Early(Nibbles)'
      BY <1>1, <1>3, <2>3
    <2> QED BY <1>1, <1>3, <2>8, <2>10, <2>11
  <1> QED BY <1>1, <1>6, FirstOn

(* A turn that defines nothing.                                            *)
LEMMA MeasureTracks ==
  ASSUME StageInv, LaterInv, phase = "first", tool \notin Hex0Ports,
         UNCHANGED <<tool, labels, split>>, NEW p, NEW j, NEW h \in BOOLEAN, FpGoto(p, j, h),
         NEW n, n = (IF h THEN 1 ELSE 0),
         Spoken(tool) => \A L : MeasuredTo(input, Point1(L)) =>
            MeasuredTo(input, <<p, j - Start(tool) - Early(n), n, L, Splits>>)
  PROVE  LaterInv'
  <1>1. UNCHANGED <<tool, input, phase, labels, split>> /\ pos' = p /\ ip' = j /\ half' = h
    BY DEF FpGoto
  <1>2. Nibbles' = n /\ Early(Nibbles)' = Early(n) /\ Splits' = Splits /\ (Apart' <=> Apart)
    BY <1>1 DEF Nibbles, Early, Splits, Apart
  <1>3. ASSUME Spoken(tool), NEW L \in Seq(Entries), MeasuredTo(input, Point1(L)),
               ~Apart => Shifted(labels, L, Start(tool))
        PROVE  /\ MeasuredTo(input, <<pos', ip' - Start(tool) - Early(Nibbles)', Nibbles', L, Splits'>>)
               /\ ~Apart' => Shifted(labels', L, Start(tool))
    <2>1. MeasuredTo(input, <<p, j - Start(tool) - Early(n), n, L, Splits>>)
      BY <1>3
    <2> QED BY <1>1, <1>2, <1>3, <2>1
  <1> QED BY <1>1, <1>3, FirstOn

(* A reference, left in front of what ends the name or behind it.          *)
LEMMA ReferTracks ==
  ASSUME StageInv, LaterInv, phase = "first", More, tool \notin Hex0Ports,
         UNCHANGED <<tool, labels, split>>, Char \in PointerOps,
         NEW p, FpGoto(p, ip + Width(Char), half),
         Spoken(tool) => p \in {RefEnd(input, pos + 1), RefEnd(input, pos + 1) + 1}
  PROVE  LaterInv'
  <1>1. ip \in Nat /\ half \in BOOLEAN /\ Start(tool) \in Int /\ Width(Char) \in Int
        /\ Early(Nibbles) \in Int /\ Nibbles \in {0, 1}
    BY PassFacts, WidthFacts DEF Start, Base, Early
  <1>2. ASSUME Spoken(tool), NEW L, MeasuredTo(input, Point1(L))
        PROVE  MeasuredTo(input, <<p, ip + Width(Char) - Start(tool) - Early(Nibbles), Nibbles, L, Splits>>)
    <2>1. /\ input \in Seq(STRING) /\ pos \in 1 .. Len(input) /\ Len(input) \in Nat
          /\ RefEnd(input, pos + 1) \in pos + 1 .. Len(input)
          /\ input[RefEnd(input, pos + 1)] \in Blank \cup {">"}
      BY <1>2, TextFacts, TokenFactsHere
    <2>2. PICK e : e = RefEnd(input, pos + 1)
      OBVIOUS
    <2>3. PICK i : i = ip - Start(tool) - Early(Nibbles)
      OBVIOUS
    <2>4. MeasuredTo(input, <<e, i + Width(Char), Nibbles, L, Splits>>)
      <3>1. pos <= Len(input) /\ Char = input[pos]
        BY <2>1 DEF Char
      <3>2. MeasuredTo(input, <<pos, i, Nibbles, L, Splits>>)
        BY <1>2, <2>3 DEF Point1
      <3> QED BY <2>1, <2>2, <3>1, <3>2, ReferOn
    <2>5. MeasuredTo(input, <<e + 1, i + Width(Char), Nibbles, L, Splits>>)
      BY <2>1, <2>2, <2>4, DelimiterOn
    <2>6. i + Width(Char) = ip + Width(Char) - Start(tool) - Early(Nibbles)
      BY <1>1, <2>3
    <2> QED BY <1>2, <2>2, <2>4, <2>5, <2>6
  <1>3. Nibbles = IF half THEN 1 ELSE 0
    BY DEF Nibbles
  <1> QED BY <1>1, <1>2, <1>3, MeasureTracks

(* A nibble.                                                               *)
LEMMA DigitTracks ==
  ASSUME StageInv, LaterInv, phase = "first", More, tool \notin Hex0Ports,
         UNCHANGED <<tool, labels, split>>, Char \in HexDigit,
         NEW p, Spoken(tool) => p = pos + 1,
         FpGoto(p, IF half /\ tool # "hex2.c" THEN ip
                   ELSE IF half \/ tool # "hex2.c" THEN ip + 1 ELSE ip, ~half)
  PROVE  LaterInv'
  <1>1. ip \in Nat /\ Start(tool) \in Int
    BY PassFacts DEF Start, Base
  <1>6. half \in BOOLEAN /\ (~half) \in BOOLEAN
    BY PassFacts, Zenon
  <1>2. PICK j : j = IF half /\ tool # "hex2.c" THEN ip
                     ELSE IF half \/ tool # "hex2.c" THEN ip + 1 ELSE ip
    OBVIOUS
  <1>3. PICK n : n = IF ~half THEN 1 ELSE 0
    OBVIOUS
  <1>4. ASSUME Spoken(tool), NEW L, MeasuredTo(input, Point1(L))
        PROVE  MeasuredTo(input, <<p, j - Start(tool) - Early(n), n, L, Splits>>)
    <2>1. input \in Seq(STRING) /\ pos <= Len(input) /\ input[pos] \in HexDigit
      BY <1>4, TextFacts DEF Char
    <2>2. PICK i : i = ip - Start(tool) - Early(Nibbles)
      OBVIOUS
    <2>3. MeasuredTo(input, <<pos, i, Nibbles, L, Splits>>)
      BY <1>4, <2>2 DEF Point1
    <2>4. CASE half
      <3>1. Nibbles = 1 /\ n = 0 /\ j - Start(tool) - Early(n) = i + 1
        BY <1>1, <1>2, <1>3, <2>2, <2>4 DEF Nibbles, Early
      <3>2. MeasuredTo(input, <<pos + 1, i + 1, 0, L, Splits>>)
        BY <2>1, <2>3, <3>1, NibbleOn
      <3> QED BY <1>4, <3>1, <3>2
    <2>5. CASE ~half
      <3>1. Nibbles = 0 /\ n = 1 /\ j - Start(tool) - Early(n) = i /\ i \in Int
        BY <1>1, <1>2, <1>3, <2>2, <2>5 DEF Nibbles, Early
      <3>2. MeasuredTo(input, <<pos + 1, i, 1, L, Splits>>)
        BY <2>1, <2>3, <3>1, NibbleOn
      <3> QED BY <1>4, <3>1, <3>2
    <2> QED BY <2>4, <2>5
  <1>5. FpGoto(p, j, ~half)
    BY <1>2
  <1> QED BY <1>3, <1>4, <1>5, <1>6, MeasureTracks

(* A comment, or a character that means nothing.                           *)
LEMMA SkipTracks ==
  ASSUME StageInv, LaterInv, phase = "first", More, tool \notin Hex0Ports,
         UNCHANGED <<tool, labels, split>>,
         Spoken(tool) => Char \notin HexDigit \cup {":"} \cup PointerOps,
         NEW p, p = After, FpGoto(p, ip, half)
  PROVE  LaterInv'
  <1>1. half \in BOOLEAN /\ Nibbles = IF half THEN 1 ELSE 0
    BY PassFacts DEF Nibbles
  <1>2. ASSUME Spoken(tool), NEW L, MeasuredTo(input, Point1(L))
        PROVE  MeasuredTo(input, <<p, ip - Start(tool) - Early(Nibbles), Nibbles, L, Splits>>)
    BY <1>2, AfterFacts DEF Point1
  <1> QED BY <1>1, <1>2, MeasureTracks

(* Behind the first pass.                                                  *)
LEMMA RewindTracks ==
  ASSUME StageInv, LaterInv, phase = "first", ~More, tool \notin Hex0Ports, UNCHANGED tool,
         Rewind(Start(tool))
  PROVE  LaterInv'
  <1>1. /\ UNCHANGED <<tool, input, labels, out, split>> /\ phase' = "second"
        /\ pos' = 1 /\ ip' = Start(tool) /\ half' = FALSE /\ hold' = 0
    BY DEF Rewind
  <1>2. (Spoken(tool)' <=> Spoken(tool)) /\ (Apart' <=> Apart) /\ Splits' = Splits
    BY <1>1, SameLanguage DEF Apart, Splits
  <1>3. ASSUME Spoken(tool)
        PROVE  \E L \in Seq(Entries) : Follows(L)'
    <2>1. PICK L \in Seq(Entries) : Follows(L)
      BY <1>3 DEF LaterInv
    <2>2. MeasuredTo(input, Point1(L)) /\ (~Apart => Shifted(labels, L, Start(tool)))
      BY <2>1 DEF Follows
    <2>3. pos = Len(input) + 1
      BY PassFacts DEF More, AtEnd
    <2>4. \E i, n : MeasuredTo(input, <<Len(input) + 1, i, n, L, Splits>>)
      BY <2>2, <2>3 DEF Point1
    <2>5. Point2' = <<1, 0, 0, 0, << >>>>
      <3>1. out = << >>
        BY DEF StageInv, FirstInv
      <3>2. Start(tool)' = Start(tool) /\ Start(tool) - Start(tool) = 0
        BY <1>1 DEF Start, Base
      <3>3. Nibbles' = 0 /\ Point2' = <<pos', ip' - Start(tool)', Nibbles', hold', out'>>
        BY <1>1 DEF Nibbles, Point2
      <3> QED BY <1>1, <3>1, <3>2, <3>3
    <2>6. WrittenTo(input, "hex2", L, <<1, 0, 0, 0, << >>>>)
      <3>1. PICK w : w = <<1, 0, 0, 0, << >>>>
        OBVIOUS
      <3>2. PICK S : S = {w}
        OBVIOUS
      <3>3. w[1] \in 1 .. Len(input) + 1
        BY <3>1, PassFacts
      <3> QED BY <3>1, <3>2, <3>3 DEF WrittenTo
    <2>7. phase' # "first" /\ phase' \notin {"failed", "wild"}
      BY <1>1
    <2>8. \E i, n : MeasuredTo(input', <<Len(input') + 1, i, n, L, Splits'>>)
      BY <1>1, <1>2, <2>4
    <2>9. WrittenTo(input', "hex2", L, Point2')
      BY <1>1, <2>5, <2>6
    <2>10. ~Apart' => Shifted(labels', L, Start(tool)')
      BY <1>1, <1>2, <2>2 DEF Start
    <2> QED BY <2>1, <2>7, <2>8, <2>9, <2>10 DEF Follows
  <1>4. phase' \notin {"failed", "wild", "done", "runaway"} /\ tool' = tool
    BY <1>1
  <1> QED BY <1>2, <1>3, <1>4 DEF LaterInv

(* A text that is not shared promises nothing.                             *)
LEMMA NotSpoken ==
  ASSUME UNCHANGED <<tool, input>>, ~Spoken(tool)
  PROVE  LaterInv'
  BY SameLanguage DEF LaterInv

(* Every step of the first passes, and to the second.                      *)
LEMMA FirstTracks ==
  ASSUME StageInv, LaterInv, UNCHANGED tool,
         \/ Hex1Label \/ Hex1Skip \/ Hex1Measure \/ Hex1Rewind
         \/ Hex2Label \/ Hex2Skip \/ Hex2Tilde \/ Hex2Measure \/ Hex2Rewind
  PROVE  LaterInv'
  <1>1. phase = "first" /\ tool \notin Hex0Ports /\ UNCHANGED input
    <2>1. phase = "first" /\ tool \in Hex1Ports \cup Hex2Ports
      BY DEF Hex1Label, Hex1Skip, Hex1Measure, Hex1Rewind, Hex1First,
             Hex2Label, Hex2Skip, Hex2Tilde, Hex2Measure, Hex2Rewind, Hex2First
    <2>2. UNCHANGED input
      BY DEF Hex1Label, Hex1Skip, Hex1Measure, Hex1Rewind, FpGoto, Stop, Rewind,
             Hex2Label, Hex2Skip, Hex2Tilde, Hex2Measure, Hex2Rewind
    <2> QED BY <2>1, <2>2, ToolFacts
  <1> SUFFICES ASSUME Spoken(tool)
               PROVE  LaterInv'
    BY <1>1, NotSpoken
  <1>2. CASE Hex1Label
    <2>0. ~Hex1OffTable
      <3>1. More /\ Char = ":"
        BY <1>2 DEF Hex1Label
      <3>2. NameEnd(input, pos + 1) \in pos + 1 .. Len(input)
        BY <1>1, <3>1, TokenFactsHere
      <3>3. Len(input) \in Nat /\ pos + 1 \in Nat
        BY <3>1, PassFacts
      <3> QED BY <3>2, <3>3 DEF Hex1OffTable, AtEnd
    <2>1. /\ More /\ Char = ":" /\ tool \in Hex1Ports
          /\ Define(Hex1Name) /\ FpGoto(Skip(input, pos, 2), ip, half)
      BY <1>2, <2>0 DEF Hex1Label, Hex1First
    <2>2. Hex1Name = Named(input, pos + 1) /\ Skip(input, pos, 2) = NameEnd(input, pos + 1)
      BY <1>1, <2>1, TokenFactsHere
    <2> QED BY <1>1, <2>1, <2>2, DefineTracks
  <1>3. CASE Hex1Skip
    <2>1. /\ More /\ Char = "%" /\ tool \in Hex1Ports
          /\ FpGoto(Skip(input, pos, 2), ip + 4, half) /\ UNCHANGED <<labels, split>>
      BY <1>3 DEF Hex1Skip, Hex1First
    <2>2. Char \in PointerOps /\ Width(Char) = 4
      BY <2>1 DEF PointerOps, Width
    <2>3. Skip(input, pos, 2) = RefEnd(input, pos + 1)
      BY <1>1, <2>1, <2>2, TokenFactsHere
    <2> QED BY <1>1, <2>1, <2>2, <2>3, ReferTracks
  <1>4. CASE Hex1Measure
    <2>1. More /\ Char \notin {":", "%"} /\ tool \in Hex1Ports /\ tool # "hex2.c"
      BY <1>4 DEF Hex1Measure, Hex1First, Hex1Ports
    <2>2. Char \notin {":"} \cup PointerOps /\ ~Hex1Lost /\ Hex1After = After
      BY <1>1, <2>1, TextFacts, AfterFacts DEF After
    <2>3. CASE Char \in HexDigit
      <3>1. After = pos + 1
        BY <1>1, <2>1, <2>3, AfterFacts, DigitFacts
      <3>2. FpGoto(After, IF half /\ tool # "hex2.c" THEN ip
                          ELSE IF half \/ tool # "hex2.c" THEN ip + 1 ELSE ip, ~half)
            /\ UNCHANGED <<labels, split>>
        <4>1. FpGoto(After, IF half THEN ip ELSE ip + 1, ~half) /\ UNCHANGED <<labels, split>>
          BY <1>4, <2>2, <2>3 DEF Hex1Measure, Hex1Count
        <4>2. (IF half THEN ip ELSE ip + 1) = IF half /\ tool # "hex2.c" THEN ip
                                              ELSE IF half \/ tool # "hex2.c" THEN ip + 1 ELSE ip
          BY <2>1
        <4> QED BY <4>1, <4>2
      <3> QED BY <1>1, <2>1, <2>3, <3>1, <3>2, DigitTracks
    <2>4. CASE Char \notin HexDigit
      <3>1. FpGoto(After, ip, half) /\ UNCHANGED <<labels, split>>
        BY <1>4, <2>2, <2>4 DEF Hex1Measure
      <3> QED BY <1>1, <2>1, <2>2, <2>4, <3>1, SkipTracks
    <2> QED BY <2>3, <2>4
  <1>5. CASE Hex2Label
    <2>1. More /\ Char = ":" /\ tool \in Hex2Ports
      BY <1>5 DEF Hex2Label, Hex2First
    <2>2. /\ ~Endless(pos + 1) /\ Token(pos + 1) = Named(input, pos + 1)
          /\ Skip(input, TokenEnd(pos + 1), 1) = NameEnd(input, pos + 1) + 1
      BY <1>1, <2>1, TokenFactsHere
    <2>3. Define(Token(pos + 1)) /\ FpGoto(Skip(input, TokenEnd(pos + 1), 1), ip, half)
      BY <1>5, <2>2 DEF Hex2Label
    <2> QED BY <1>1, <2>1, <2>2, <2>3, DefineTracks
  <1>6. CASE Hex2Skip
    <2>1. More /\ Char \in PointerOps /\ tool \in Hex2Ports
      BY <1>6 DEF Hex2Skip, Hex2First
    <2>2. /\ ~Endless(pos + 1) /\ ~EndlessBase(pos + 1)
          /\ Skip(input, ReferenceEnd(pos + 1), 1) = RefEnd(input, pos + 1) + 1
      BY <1>1, <2>1, TokenFactsHere
    <2>3. FpGoto(Skip(input, ReferenceEnd(pos + 1), 1), ip + Width(Char), half)
          /\ UNCHANGED <<labels, split>>
      BY <1>6, <2>2 DEF Hex2Skip
    <2> QED BY <1>1, <2>1, <2>2, <2>3, ReferTracks
  <1>7. CASE Hex2Tilde
    <2>1. More /\ Char = "~"
      BY <1>7 DEF Hex2Tilde, Hex2Ops
    <2> QED BY <1>1, <2>1, TextFacts
  <1>8. CASE Hex2Measure
    <2>1. More /\ Char \notin {":"} \cup PointerOps /\ tool \in Hex2Ports /\ tool \notin Hex1Ports
      BY <1>8, ToolFacts DEF Hex2Measure, Hex2First, Hex2Ops
    <2>2. ~Hex2Lost /\ Hex2After = After
      BY <1>1, <2>1, AfterFacts DEF After
    <2>3. CASE Char \in HexDigit
      <3>1. After = pos + 1
        BY <1>1, <2>1, <2>3, AfterFacts, DigitFacts
      <3>2. FpGoto(After, IF half /\ tool # "hex2.c" THEN ip
                          ELSE IF half \/ tool # "hex2.c" THEN ip + 1 ELSE ip, ~half)
            /\ UNCHANGED <<labels, split>>
        <4>1. FpGoto(After, Hex2Count, ~half) /\ UNCHANGED <<labels, split>>
          BY <1>8, <2>2, <2>3 DEF Hex2Measure
        <4>2. tool = "hex2" \/ tool = "hex2.c"
          BY <2>1 DEF Hex2Ports
        <4>3. Hex2Count = IF half /\ tool # "hex2.c" THEN ip
                          ELSE IF half \/ tool # "hex2.c" THEN ip + 1 ELSE ip
          BY <4>2 DEF Hex2Count, Hex2CountFirst
        <4> QED BY <4>1, <4>3
      <3> QED BY <1>1, <2>1, <2>3, <3>1, <3>2, DigitTracks
    <2>4. CASE Char \notin HexDigit
      <3>1. FpGoto(After, ip, half) /\ UNCHANGED <<labels, split>>
        BY <1>8, <2>2, <2>4 DEF Hex2Measure
      <3> QED BY <1>1, <2>1, <2>2, <2>4, <3>1, SkipTracks
    <2> QED BY <2>3, <2>4
  <1>9. CASE Hex1Rewind \/ Hex2Rewind
    <2>1. ~More /\ Rewind(Start(tool))
      BY <1>9, ToolFacts DEF Hex1Rewind, Hex2Rewind, Hex1First, Hex2First, Start
    <2> QED BY <1>1, <2>1, RewindTracks
  <1> QED BY <1>2, <1>3, <1>4, <1>5, <1>6, <1>7, <1>8, <1>9

-----------------------------------------------------------------------------
(* The second passes *)

(* Names are found in both lists or in none, at the same place.            *)
LEMMA LookupOn ==
  ASSUME labels \in Seq(Label), NEW L \in Seq(Entries), NEW b, Shifted(labels, L, b), NEW name
  PROVE  /\ Defined(name) <=> Found(L, name)
         /\ Found(L, name) => Address(L, name) \in Int /\ Target(name) = Address(L, name) + b
  <1>1. /\ DOMAIN labels = 1 .. Len(L) /\ DOMAIN L = 1 .. Len(L) /\ Len(L) \in Nat
        /\ \A j \in 1 .. Len(L) : labels[j].name = L[j].name /\ labels[j].target = L[j].target + b
    BY LenProperties DEF Shifted
  <1>2. Defined(name) <=> Found(L, name)
    BY <1>1 DEF Defined, Found
  <1> DEFINE P(j) == L[j].name = name /\ \A i \in 1 .. j - 1 : L[i].name # name
             Q(j) == labels[j].name = name /\ \A i \in 1 .. j - 1 : labels[i].name # name
  <1>3. ASSUME Found(L, name)
        PROVE  Address(L, name) \in Int /\ Target(name) = Address(L, name) + b
    <2>1. \E j \in DOMAIN L : P(j)
      <3> DEFINE T == {j \in 1 .. Len(L) : L[j].name = name}
      <3>1. T \subseteq Nat /\ T # {}
        BY <1>1, <1>3 DEF Found
      <3>2. PICK m \in T : \A k \in T : m <= k
        BY <3>1, Least
      <3>3. \A i \in 1 .. m - 1 : L[i].name # name
        <4> SUFFICES ASSUME NEW i \in 1 .. m - 1, L[i].name = name
                     PROVE  FALSE
          OBVIOUS
        <4>1. m \in 1 .. Len(L)
          OBVIOUS
        <4>2. i \in 1 .. Len(L)
          BY <1>1, <4>1
        <4>3. i \in T
          BY <4>2
        <4>4. m <= i
          BY <3>2, <4>3
        <4> HIDE DEF T
        <4> QED BY <4>1, <4>4
      <3> QED BY <1>1, <3>3
    <2>2. \A j \in DOMAIN L : P(j) <=> Q(j)
      <3> SUFFICES ASSUME NEW j \in DOMAIN L
                   PROVE  P(j) <=> Q(j)
        OBVIOUS
      <3>1. \A i \in 1 .. j - 1 : i \in 1 .. Len(L)
        BY <1>1
      <3>2. \A i \in 1 .. j - 1 : L[i].name # name <=> labels[i].name # name
        BY <1>1, <3>1
      <3> QED BY <1>1, <3>2
    <2>3. \A i, j \in DOMAIN L : P(i) /\ P(j) => i = j
      <3> SUFFICES ASSUME NEW i \in DOMAIN L, NEW j \in DOMAIN L, P(i), P(j), i # j
                   PROVE  FALSE
        OBVIOUS
      <3>1. i \in 1 .. j - 1 \/ j \in 1 .. i - 1
        BY <1>1
      <3> QED BY <3>1
    <2>4. PICK x : x = CHOOSE j \in DOMAIN L : P(j)
      OBVIOUS
    <2>5. PICK y : y = CHOOSE j \in DOMAIN labels : Q(j)
      OBVIOUS
    <2>6. Address(L, name) = L[x].target
      BY <2>4 DEF Address
    <2>7. Target(name) = labels[y].target
      BY <2>5 DEF Target
    <2> HIDE DEF P, Q
    <2>8. x \in DOMAIN L /\ P(x)
      BY <2>1, <2>4
    <2>9. y \in DOMAIN L /\ P(y)
      BY <1>1, <2>1, <2>2, <2>5
    <2>10. x = y
      BY <2>3, <2>8, <2>9
    <2>11. L[x].target \in Int
      <3>1. L[x] \in Entries
        BY <1>1, <2>8, ElementOfSeq
      <3> QED BY <3>1 DEF Entries
    <2> QED BY <1>1, <2>6, <2>7, <2>8, <2>10, <2>11
  <1> QED BY <1>2, <1>3

(* A turn of a second pass is a turn of the assembler, or two; or hex1     *)
(* goes on where the assembler fails.                                      *)
LEMMA SecondOn ==
  ASSUME LaterInv, phase = "second", UNCHANGED <<tool, input, phase, labels, split>>,
         Spoken(tool) /\ ~Apart => \A L \in Seq(Entries) :
            Shifted(labels, L, Start(tool)) /\ WrittenTo(input, "hex2", L, Point2) =>
              \/ WrittenTo(input, "hex2", L, <<pos', ip' - Start(tool), Nibbles', hold', out'>>)
              \/ tool \in Hex1Ports /\ Fails(input, "hex2", L, Point2)
  PROVE  LaterInv'
  <1>1. phase' # "first" /\ phase' \notin {"failed", "wild", "done", "runaway"} /\ tool' = tool
        /\ input' = input /\ Splits' = Splits /\ (Apart' <=> Apart)
    BY DEF Splits, Apart
  <1>2. Spoken(tool)' <=> Spoken(tool)
    BY SameLanguage
  <1>3. ASSUME tool \notin Hex0Ports, Spoken(tool)
        PROVE  \E M \in Seq(Entries) : Follows(M)'
    <2>1. PICK L \in Seq(Entries) : Follows(L)
      BY <1>3 DEF LaterInv
    <2>2. \E i, n : MeasuredTo(input', <<Len(input') + 1, i, n, L, Splits'>>)
      BY <1>1, <2>1 DEF Follows
    <2>3. ~Apart' => Shifted(labels', L, Start(tool)')
      BY <1>1, <2>1 DEF Follows, Start
    <2>4. ASSUME ~Apart'
          PROVE  \/ WrittenTo(input', "hex2", L, Point2')
                 \/ /\ tool' \in Hex1Ports
                    /\ \E w : WrittenTo(input', "hex2", L, w) /\ Fails(input', "hex2", L, w)
      <3>1. Shifted(labels, L, Start(tool))
            /\ \/ WrittenTo(input, "hex2", L, Point2)
               \/ /\ tool \in Hex1Ports
                  /\ \E w : WrittenTo(input, "hex2", L, w) /\ Fails(input, "hex2", L, w)
        BY <1>1, <2>1, <2>4 DEF Follows
      <3>2. Point2' = <<pos', ip' - Start(tool), Nibbles', hold', out'>>
        BY <1>1 DEF Point2, Start
      <3> QED BY <1>1, <1>3, <2>4, <3>1, <3>2
    <2> QED BY <1>1, <2>1, <2>2, <2>3, <2>4 DEF Follows
  <1> QED BY <1>1, <1>2, <1>3 DEF LaterInv

(* A tool has stopped.                                                     *)
LEMMA StopTracks ==
  ASSUME LaterInv, phase = "second", tool \notin Hex0Ports, UNCHANGED tool,
         NEW where, Stop(where), where \notin {"first", "runaway"}, where = "done" => ~More,
         where \in {"failed", "wild"} =>
            /\ tool \in Hex2Ports
            /\ Spoken(tool) /\ ~Apart => \A L \in Seq(Entries) : Shifted(labels, L, Start(tool)) =>
                  Fails(input, "hex2", L, Point2) /\ where = MissWord(tool, L)
  PROVE  LaterInv'
  <1>1. UNCHANGED <<tool, input, pos, ip, half, hold, labels, out, split>> /\ phase' = where
    BY DEF Stop
  <1>2. /\ Splits' = Splits /\ (Apart' <=> Apart) /\ Point2' = Point2 /\ (More' <=> More)
        /\ (Spoken(tool)' <=> Spoken(tool)) /\ Start(tool)' = Start(tool)
    BY <1>1, SameLanguage DEF Splits, Apart, Point2, Nibbles, More, Start
  <1>3. ASSUME Spoken(tool)
        PROVE  \E M \in Seq(Entries) : Follows(M)'
    <2>1. PICK L \in Seq(Entries) : Follows(L)
      BY <1>3 DEF LaterInv
    <2>2. /\ \E i, n : MeasuredTo(input, <<Len(input) + 1, i, n, L, Splits>>)
          /\ ~Apart =>
                /\ Shifted(labels, L, Start(tool))
                /\ \/ WrittenTo(input, "hex2", L, Point2)
                   \/ /\ tool \in Hex1Ports
                      /\ \E w : WrittenTo(input, "hex2", L, w) /\ Fails(input, "hex2", L, w)
      BY <2>1 DEF Follows
    <2>3. phase' \in {"failed", "wild"} /\ ~Apart' =>
             Fails(input', "hex2", L, Point2') /\ phase' = MissWord(tool', L)
      BY <1>1, <1>2, <1>3, <2>2
    <2>4. phase' # "first"
      BY <1>1
    <2> QED BY <1>1, <1>2, <2>1, <2>2, <2>3, <2>4 DEF Follows
  <1>4. phase' \in {"failed", "wild"} => tool' \in Hex2Ports
    BY <1>1
  <1> QED BY <1>1, <1>2, <1>3, <1>4 DEF LaterInv

(* A definition is passed over.                                            *)
LEMMA DropTracks ==
  ASSUME StageInv, LaterInv, phase = "second", More, tool \notin Hex0Ports, UNCHANGED tool,
         Char = ":", NEW p, SpGoto(p), UNCHANGED <<ip, half, hold, out>>,
         Spoken(tool) => p \in {NameEnd(input, pos + 1), NameEnd(input, pos + 1) + 1}
  PROVE  LaterInv'
  <1>1. UNCHANGED <<tool, input, phase, labels, split>> /\ pos' = p /\ Nibbles' = Nibbles
    BY DEF SpGoto, Nibbles
  <1>2. ASSUME Spoken(tool), NEW L \in Seq(Entries), WrittenTo(input, "hex2", L, Point2)
        PROVE  WrittenTo(input, "hex2", L, <<pos', ip' - Start(tool), Nibbles', hold', out'>>)
    <2>1. /\ input \in Seq(STRING) /\ pos <= Len(input) /\ Len(input) \in Nat /\ input[pos] = ":"
          /\ NameEnd(input, pos + 1) \in pos + 1 .. Len(input)
          /\ input[NameEnd(input, pos + 1)] \in Blank \cup {">"}
      BY <1>2, TextFacts, TokenFactsHere DEF Char
    <2>2. PICK e : e = NameEnd(input, pos + 1)
      OBVIOUS
    <2>3. PICK i : i = ip - Start(tool)
      OBVIOUS
    <2>4. WrittenTo(input, "hex2", L, <<pos, i, Nibbles, hold, out>>)
      BY <1>2, <2>3 DEF Point2
    <2>5. WrittenTo(input, "hex2", L, <<e, i, Nibbles, hold, out>>)
      BY <2>1, <2>2, <2>4, DefineOn
    <2>6. WrittenTo(input, "hex2", L, <<e + 1, i, Nibbles, hold, out>>)
      BY <2>1, <2>2, <2>5, DelimiterOn
    <2> QED BY <1>1, <1>2, <2>2, <2>3, <2>5, <2>6
  <1> QED BY <1>1, <1>2, SecondOn

(* A nibble, a comment or a character that means nothing.                  *)
LEMMA HexTracks ==
  ASSUME StageInv, LaterInv, phase = "second", More, tool \notin Hex0Ports, UNCHANGED tool,
         Spoken(tool) => Char \notin {":"} \cup PointerOps, SpGoto(After),
         IF Char \in HexDigit THEN Toggle(Nibble(Char), 1) ELSE UNCHANGED <<ip, half, hold, out>>
  PROVE  LaterInv'
  <1>1. UNCHANGED <<tool, input, phase, labels, split>> /\ pos' = After
    BY DEF SpGoto
  <1>2. ASSUME Spoken(tool), NEW L \in Seq(Entries), WrittenTo(input, "hex2", L, Point2)
        PROVE  WrittenTo(input, "hex2", L, <<pos', ip' - Start(tool), Nibbles', hold', out'>>)
    <2>1. /\ input \in Seq(STRING) /\ pos <= Len(input) /\ Char = input[pos]
          /\ ip \in Int /\ Start(tool) \in Int
      BY <1>2, TextFacts, PassFacts DEF Char, Start, Base
    <2>2. PICK i : i = ip - Start(tool)
      OBVIOUS
    <2>3. WrittenTo(input, "hex2", L, <<pos, i, Nibbles, hold, out>>)
      BY <1>2, <2>2 DEF Point2
    <2>4. CASE Char \notin HexDigit
      <3>1. Nibbles' = Nibbles /\ UNCHANGED <<ip, hold, out>>
        BY <2>4 DEF Nibbles
      <3>2. WrittenTo(input, "hex2", L, <<After, i, Nibbles, hold, out>>)
        BY <1>2, <2>3, <2>4, AfterFacts
      <3> QED BY <1>1, <2>2, <3>1, <3>2
    <2>5. CASE Char \in HexDigit /\ half
      <3>1. /\ Nibbles = 1 /\ Nibbles' = 0 /\ ip' = ip + 1 /\ hold' = hold
            /\ out' = Append(out, [value |-> hold * 16 + Nibble(input[pos])])
        BY <2>1, <2>5 DEF Nibbles, Toggle
      <3>2. WrittenTo(input, "hex2", L, <<pos + 1, i + 1, 0, hold,
                                          Append(out, [value |-> hold * 16 + Nibble(input[pos])])>>)
        BY <2>1, <2>3, <2>5, <3>1, NibbleOn
      <3>3. pos' = pos + 1
        BY <1>1, <1>2, <2>5, AfterFacts, DigitFacts
      <3>4. ip' - Start(tool) = i + 1
        BY <2>1, <2>2, <3>1
      <3> QED BY <3>1, <3>2, <3>3, <3>4
    <2>6. CASE Char \in HexDigit /\ ~half
      <3>1. Nibbles = 0 /\ Nibbles' = 1 /\ ip' = ip /\ hold' = Nibble(input[pos]) /\ out' = out
        BY <2>1, <2>6 DEF Nibbles, Toggle
      <3>2. WrittenTo(input, "hex2", L, <<pos + 1, i, 1, Nibble(input[pos]), out>>)
        BY <2>1, <2>3, <2>6, <3>1, NibbleOn
      <3>3. pos' = pos + 1
        BY <1>1, <1>2, <2>6, AfterFacts, DigitFacts
      <3> QED BY <2>2, <3>1, <3>2, <3>3
    <2> QED BY <2>4, <2>5, <2>6
  <1> QED BY <1>1, <1>2, SecondOn

(* A reference: its value is that of the assembler, or hex1 has met a name *)
(* that is not defined.                                                    *)
LEMMA PointerTracks ==
  ASSUME StageInv, LaterInv, phase = "second", More, tool \notin Hex0Ports, UNCHANGED tool,
         Char \in PointerOps, NEW p, SpGoto(p), ip' = ip + Width(Char), UNCHANGED <<half, hold>>,
         Spoken(tool) =>
            /\ p \in {RefEnd(input, pos + 1), RefEnd(input, pos + 1) + 1}
            /\ \A L \in Seq(Entries) : Shifted(labels, L, Start(tool)) =>
                 \/ tool \in Hex1Ports /\ Fails(input, "hex2", L, Point2)
                 \/ /\ ~Fails(input, "hex2", L, Point2)
                    /\ out' = out \o PointerBytes(Value(input, L, Point2), Width(Char))
  PROVE  LaterInv'
  <1>1. UNCHANGED <<tool, input, phase, labels, split>> /\ pos' = p /\ Nibbles' = Nibbles
    BY DEF SpGoto, Nibbles
  <1>2. ASSUME Spoken(tool), NEW L \in Seq(Entries), Shifted(labels, L, Start(tool)),
               WrittenTo(input, "hex2", L, Point2), ~Fails(input, "hex2", L, Point2)
        PROVE  WrittenTo(input, "hex2", L, <<pos', ip' - Start(tool), Nibbles', hold', out'>>)
    <2>1. /\ input \in Seq(STRING) /\ pos <= Len(input) /\ Len(input) \in Nat /\ Char = input[pos]
          /\ RefEnd(input, pos + 1) \in pos + 1 .. Len(input)
          /\ input[RefEnd(input, pos + 1)] \in Blank \cup {">"}
      BY <1>2, TextFacts, TokenFactsHere DEF Char
    <2>2. PICK e : e = RefEnd(input, pos + 1)
      OBVIOUS
    <2>3. PICK i : i = ip - Start(tool)
      OBVIOUS
    <2>4. PICK w : w = <<pos, i, Nibbles, hold, out>>
      OBVIOUS
    <2>5. w = Point2
      BY <2>3, <2>4 DEF Point2
    <2>6. out' = out \o PointerBytes(Value(input, L, w), Width(Char))
      BY <1>2, <2>5
    <2>7. WrittenTo(input, "hex2", L, <<e, i + Width(Char), Nibbles, hold, out'>>)
      <3>1. WrittenTo(input, "hex2", L, <<e, i + Width(Char), Nibbles, hold,
                                          out \o PointerBytes(Value(input, L, w), Width(Char))>>)
        <4>1. WrittenTo(input, "hex2", L, w) /\ ~Fails(input, "hex2", L, w)
          BY <1>2, <2>5
        <4>2. \A n, h, o, v : v = <<pos, i, n, h, o>> =>
                (WrittenTo(input, "hex2", L, v) /\ ~Fails(input, "hex2", L, v) =>
                   WrittenTo(input, "hex2", L, <<e, i + Width(Char), n, h,
                                                 o \o PointerBytes(Value(input, L, v), Width(Char))>>))
          BY <2>1, <2>2, ReferOn
        <4> QED BY <2>4, <4>1, <4>2
      <3> QED BY <2>6, <3>1
    <2>8. WrittenTo(input, "hex2", L, <<e + 1, i + Width(Char), Nibbles, hold, out'>>)
      BY <2>1, <2>2, <2>7, DelimiterOn
    <2>9. i + Width(Char) = ip' - Start(tool)
      <3>1. ip \in Int /\ Start(tool) \in Int /\ Width(Char) \in Int
        BY PassFacts, WidthFacts DEF Start, Base
      <3> QED BY <2>3, <3>1
    <2> QED BY <1>1, <1>2, <2>2, <2>7, <2>8, <2>9
  <1> QED BY <1>1, <1>2, SecondOn

(* What hex1 writes for a reference.                                       *)
LEMMA DistanceOn ==
  ASSUME StageInv, More, Spoken(tool), tool \in Hex1Ports, Char = "%",
         NEW L \in Seq(Entries), Shifted(labels, L, Start(tool))
  PROVE  \/ Fails(input, "hex2", L, Point2)
         \/ /\ ~Fails(input, "hex2", L, Point2)
            /\ Hex1Distance = PointerBytes(Value(input, L, Point2), 4)
  <1>1. tool \notin Hex0Ports /\ Char \in PointerOps /\ Width(Char) = 4 /\ Start(tool) = 0
    BY ToolFacts DEF PointerOps, Width, Start
  <1>2. Hex1Name = Named(input, pos + 1) /\ ~Based(input, pos + 1)
    BY <1>1, TokenFactsHere
  <1>3. PICK name : name = Named(input, pos + 1)
    OBVIOUS
  <1>4. labels \in Seq(Label) /\ ip \in Int
    BY PassFacts
  <1>5. /\ Defined(name) <=> Found(L, name)
        /\ Found(L, name) => Address(L, name) \in Int /\ Target(name) = Address(L, name) + Start(tool)
    BY <1>4, LookupOn
  <1>6. Point2[1] = pos /\ Point2[2] = ip - Start(tool)
    BY DEF Point2
  <1>7. ASSUME ~Fails(input, "hex2", L, Point2)
        PROVE  Hex1Distance = PointerBytes(Value(input, L, Point2), 4)
    <2>1. Found(L, name)
      <3>1. Point2[1] <= Len(input) /\ input[Point2[1]] \in Refs("hex2")
        BY <1>1, <1>6, TextFacts DEF Refs, Char
      <3> QED BY <1>3, <1>6, <1>7, <3>1 DEF Fails
    <2>2. Value(input, L, Point2) = Address(L, name) - (ip - Start(tool) + 4)
      <3>1. Char = input[pos] /\ Char \notin {"&", "$"}
        BY DEF Char
      <3> QED BY <1>1, <1>2, <1>3, <1>6, <3>1 DEF Value
    <2>3. Target(name) - (ip + 4) = Value(input, L, Point2)
      BY <1>1, <1>4, <1>5, <2>1, <2>2
    <2> QED BY <1>2, <1>3, <1>5, <2>1, <2>3 DEF Hex1Distance
  <1> QED BY <1>7

(* Where hex2 stops, and what it writes otherwise.                         *)
LEMMA ReferenceOn ==
  ASSUME StageInv, More, Spoken(tool), tool \in Hex2Ports, Char \in PointerOps,
         NEW L \in Seq(Entries), Shifted(labels, L, Start(tool))
  PROVE  /\ Fails(input, "hex2", L, Point2) <=>
               \/ ~Defined(Token(pos + 1))
               \/ HasBase(pos + 1) /\ ~Defined(Token(BaseStart(pos + 1)))
         /\ ~Fails(input, "hex2", L, Point2) =>
               Target(Token(pos + 1)) - Hex2From = Value(input, L, Point2)
  <1>1. tool \notin Hex0Ports /\ Start(tool) = Base /\ Base \in Int
    BY ToolFacts DEF Start, Base
  <1>2. /\ Token(pos + 1) = Named(input, pos + 1)
        /\ HasBase(pos + 1) <=> Based(input, pos + 1)
        /\ HasBase(pos + 1) =>
              Token(BaseStart(pos + 1)) = Named(input, NameEnd(input, pos + 1) + 1)
    BY <1>1, TokenFactsHere
  <1>3. PICK name : name = Named(input, pos + 1)
    OBVIOUS
  <1>4. PICK base : base = Named(input, NameEnd(input, pos + 1) + 1)
    OBVIOUS
  <1>5. labels \in Seq(Label) /\ ip \in Int /\ Width(Char) \in Int
    BY PassFacts, WidthFacts
  <1>6. \A n : /\ Defined(n) <=> Found(L, n)
               /\ Found(L, n) => Address(L, n) \in Int /\ Target(n) = Address(L, n) + Base
    BY <1>1, <1>5, LookupOn
  <1>7. Point2[1] = pos /\ Point2[2] = ip - Base
    BY <1>1 DEF Point2
  <1>8. Fails(input, "hex2", L, Point2) <=>
           ~Found(L, name) \/ (Based(input, pos + 1) /\ ~Found(L, base))
    <2>1. pos <= Len(input) /\ input[pos] \in Refs("hex2")
      BY <1>1, TextFacts DEF Refs, Char
    <2> QED BY <1>3, <1>4, <1>7, <2>1 DEF Fails
  <1>9. Fails(input, "hex2", L, Point2) <=>
               \/ ~Defined(Token(pos + 1))
               \/ HasBase(pos + 1) /\ ~Defined(Token(BaseStart(pos + 1)))
    BY <1>2, <1>3, <1>4, <1>6, <1>8
  <1>10. ASSUME ~Fails(input, "hex2", L, Point2)
         PROVE  Target(Token(pos + 1)) - Hex2From = Value(input, L, Point2)
    <2>1. Found(L, name) /\ (Based(input, pos + 1) => Found(L, base))
      BY <1>8, <1>10
    <2>2. Target(name) = Address(L, name) + Base /\ Address(L, name) \in Int
      BY <1>6, <2>1
    <2>3. Based(input, pos + 1) => Target(base) = Address(L, base) + Base /\ Address(L, base) \in Int
      BY <1>6, <2>1
    <2>4. Value(input, L, Point2) = Address(L, name) -
            (IF Char \in {"&", "$"} THEN 0 - Base
             ELSE IF Based(input, pos + 1) THEN Address(L, base)
             ELSE ip - Base + Width(Char))
      BY <1>3, <1>4, <1>7 DEF Value, Char
    <2>5. Hex2From = (IF Char \in {"&", "$"} THEN 0
                      ELSE IF Based(input, pos + 1) THEN Target(base)
                      ELSE ip + Width(Char))
      BY <1>2, <1>4 DEF Hex2From
    <2>6. CASE Char \in {"&", "$"}
      BY <1>1, <1>2, <1>3, <2>2, <2>4, <2>5, <2>6
    <2>7. CASE Char \notin {"&", "$"} /\ Based(input, pos + 1)
      BY <1>1, <1>2, <1>3, <2>2, <2>3, <2>4, <2>5, <2>7
    <2>8. CASE Char \notin {"&", "$"} /\ ~Based(input, pos + 1)
      BY <1>1, <1>2, <1>3, <1>5, <2>2, <2>4, <2>5, <2>8
    <2> QED BY <2>6, <2>7, <2>8
  <1> QED BY <1>9, <1>10

(* Every step of the second passes.                                        *)
LEMMA SecondTracks ==
  ASSUME StageInv, LaterInv, UNCHANGED tool,
         \/ Hex1Drop \/ Hex1Pointer \/ Hex1Write \/ Hex1Done
         \/ Hex2Drop \/ Hex2Stops \/ Hex2Pointer \/ Hex2Write \/ Hex2Done
  PROVE  LaterInv'
  <1>1. phase = "second" /\ tool \notin Hex0Ports /\ UNCHANGED input
    <2>1. phase = "second" /\ tool \in Hex1Ports \cup Hex2Ports
      BY DEF Hex1Drop, Hex1Pointer, Hex1Write, Hex1Done, Hex1Second, Hex2Reference,
             Hex2Drop, Hex2Stops, Hex2Pointer, Hex2Write, Hex2Done, Hex2Second
    <2>2. UNCHANGED input
      BY DEF Hex1Drop, Hex1Pointer, Hex1Write, Hex1Done, SpGoto, Stop,
             Hex2Drop, Hex2Stops, Hex2Pointer, Hex2Write, Hex2Done
    <2> QED BY <2>1, <2>2, ToolFacts
  <1> SUFFICES ASSUME Spoken(tool)
               PROVE  LaterInv'
    BY <1>1, NotSpoken
  <1>2. CASE Hex1Drop
    <2>1. /\ More /\ Char = ":" /\ tool \in Hex1Ports
          /\ SpGoto(Skip(input, pos, 2)) /\ UNCHANGED <<ip, half, hold, out>>
      BY <1>2 DEF Hex1Drop, Hex1Second
    <2>2. Skip(input, pos, 2) = NameEnd(input, pos + 1)
      BY <1>1, <2>1, TokenFactsHere
    <2> QED BY <1>1, <2>1, <2>2, DropTracks
  <1>3. CASE Hex1Pointer
    <2>1. /\ More /\ Char = "%" /\ tool \in Hex1Ports
          /\ out' = out \o Hex1Distance /\ ip' = ip + 4
          /\ SpGoto(Skip(input, pos, 2)) /\ UNCHANGED <<half, hold>>
      BY <1>3 DEF Hex1Pointer, Hex1Second
    <2>2. Char \in PointerOps /\ Width(Char) = 4
      BY <2>1 DEF PointerOps, Width
    <2>3. Skip(input, pos, 2) = RefEnd(input, pos + 1)
      BY <1>1, <2>1, <2>2, TokenFactsHere
    <2>4. \A L \in Seq(Entries) : Shifted(labels, L, Start(tool)) =>
                 \/ tool \in Hex1Ports /\ Fails(input, "hex2", L, Point2)
                 \/ /\ ~Fails(input, "hex2", L, Point2)
                    /\ out' = out \o PointerBytes(Value(input, L, Point2), Width(Char))
      BY <2>1, <2>2, DistanceOn
    <2> QED BY <1>1, <2>1, <2>2, <2>3, <2>4, PointerTracks
  <1>4. CASE Hex1Write
    <2>1. More /\ Char \notin {":", "%"} /\ tool \in Hex1Ports
      BY <1>4 DEF Hex1Write, Hex1Second
    <2>2. Char \notin {":"} \cup PointerOps /\ ~Hex1Lost /\ Hex1After = After
      BY <1>1, <2>1, TextFacts, AfterFacts DEF After
    <2>3. /\ SpGoto(After)
          /\ IF Char \in HexDigit THEN Toggle(Nibble(Char), 1) ELSE UNCHANGED <<ip, half, hold, out>>
      BY <1>4, <2>2 DEF Hex1Write
    <2> QED BY <1>1, <2>1, <2>2, <2>3, HexTracks
  <1>5. CASE Hex1Done \/ Hex2Done
    <2>1. ~More /\ Stop("done")
      BY <1>5 DEF Hex1Done, Hex2Done
    <2> QED BY <1>1, <2>1, StopTracks
  <1>6. CASE Hex2Drop
    <2>1. More /\ Char = ":" /\ tool \in Hex2Ports
      BY <1>6 DEF Hex2Drop, Hex2Second
    <2>2. /\ ~Endless(pos + 1)
          /\ Skip(input, TokenEnd(pos + 1), 1) = NameEnd(input, pos + 1) + 1
      BY <1>1, <2>1, TokenFactsHere
    <2>3. SpGoto(Skip(input, TokenEnd(pos + 1), 1)) /\ UNCHANGED <<ip, half, hold, out>>
      BY <1>6, <2>2 DEF Hex2Drop
    <2> QED BY <1>1, <2>1, <2>2, <2>3, DropTracks
  <1>7. CASE Hex2Stops
    <2>1. More /\ Char \in PointerOps /\ tool \in Hex2Ports
      BY <1>7 DEF Hex2Stops, Hex2Reference, Hex2Second
    <2>2. ~Endless(pos + 1) /\ ~EndlessBase(pos + 1)
      BY <1>1, <2>1, TokenFactsHere
    <2>3. /\ Stop(Miss)
          /\ \/ ~Defined(Token(pos + 1))
             \/ HasBase(pos + 1) /\ ~Defined(Token(BaseStart(pos + 1)))
      BY <1>7, <2>2 DEF Hex2Stops
    <2>4. \A L \in Seq(Entries) : Shifted(labels, L, Start(tool)) =>
             Fails(input, "hex2", L, Point2) /\ Miss = MissWord(tool, L)
      <3> SUFFICES ASSUME NEW L \in Seq(Entries), Shifted(labels, L, Start(tool))
                   PROVE  Fails(input, "hex2", L, Point2) /\ Miss = MissWord(tool, L)
        OBVIOUS
      <3>1. Fails(input, "hex2", L, Point2)
        BY <2>1, <2>3, ReferenceOn
      <3>2. labels = << >> <=> L = << >>
        <4>1. Len(labels) = Len(L) /\ labels \in Seq(Label)
          BY PassFacts DEF Shifted
        <4> QED BY <4>1, EmptySeq
      <3> QED BY <3>1, <3>2 DEF Miss, MissWord
    <2>5. Miss \in {"failed", "wild"}
      BY DEF Miss
    <2>6. Miss \notin {"first", "runaway", "done"}
      BY <2>5
    <2> QED BY <1>1, <2>1, <2>3, <2>4, <2>6, StopTracks
  <1>8. CASE Hex2Pointer
    <2>1. More /\ Char \in PointerOps /\ tool \in Hex2Ports
      BY <1>8 DEF Hex2Pointer, Hex2Reference, Hex2Second
    <2>2. Skip(input, ReferenceEnd(pos + 1), 1) = RefEnd(input, pos + 1) + 1
      BY <1>1, <2>1, TokenFactsHere
    <2>3. /\ Defined(Token(pos + 1))
          /\ HasBase(pos + 1) => Defined(Token(BaseStart(pos + 1)))
          /\ out' = out \o PointerBytes(Target(Token(pos + 1)) - Hex2From, Width(Char))
          /\ ip' = ip + Width(Char)
          /\ SpGoto(Skip(input, ReferenceEnd(pos + 1), 1)) /\ UNCHANGED <<half, hold>>
      BY <1>8 DEF Hex2Pointer
    <2>4. \A L \in Seq(Entries) : Shifted(labels, L, Start(tool)) =>
             /\ ~Fails(input, "hex2", L, Point2)
             /\ out' = out \o PointerBytes(Value(input, L, Point2), Width(Char))
      <3> SUFFICES ASSUME NEW L \in Seq(Entries), Shifted(labels, L, Start(tool))
                   PROVE  /\ ~Fails(input, "hex2", L, Point2)
                          /\ out' = out \o PointerBytes(Value(input, L, Point2), Width(Char))
        OBVIOUS
      <3>1. ~Fails(input, "hex2", L, Point2)
        BY <2>1, <2>3, ReferenceOn
      <3>2. Target(Token(pos + 1)) - Hex2From = Value(input, L, Point2)
        BY <2>1, <3>1, ReferenceOn
      <3> QED BY <2>3, <3>1, <3>2
    <2> QED BY <1>1, <2>1, <2>2, <2>3, <2>4, PointerTracks
  <1>9. CASE Hex2Write
    <2>1. More /\ Char \notin {":"} \cup PointerOps /\ tool \in Hex2Ports /\ tool \notin Hex1Ports
      BY <1>9, ToolFacts DEF Hex2Write, Hex2Second, Hex2Ops
    <2>2. ~Hex2Lost /\ Hex2After = After
      BY <1>1, <2>1, AfterFacts DEF After
    <2>3. /\ SpGoto(After)
          /\ IF Char \in HexDigit THEN Toggle(Nibble(Char), 1) ELSE UNCHANGED <<ip, half, hold, out>>
      BY <1>9, <2>2 DEF Hex2Write
    <2> QED BY <1>1, <2>1, <2>3, HexTracks
  <1> QED BY <1>2, <1>3, <1>4, <1>5, <1>6, <1>7, <1>8, <1>9

-----------------------------------------------------------------------------
(* From tool to tool *)

(* Where every pass begins.                                                *)
LEMMA BeginsThere ==
  ASSUME NEW x \in Seq(STRING)
  PROVE  /\ MeasuredTo(x, <<1, 0, 0, << >>, 0>>)
         /\ \A k, L : WrittenTo(x, k, L, <<1, 0, 0, 0, << >>>>)
  <1>1. 1 \in 1 .. Len(x) + 1
    BY LenProperties
  <1>2. MeasuredTo(x, <<1, 0, 0, << >>, 0>>)
    <2>1. PICK m : m = <<1, 0, 0, << >>, 0>>
      OBVIOUS
    <2>2. PICK S : S = {m}
      OBVIOUS
    <2>3. m[1] \in 1 .. Len(x) + 1
      BY <1>1, <2>1
    <2> QED BY <2>1, <2>2, <2>3 DEF MeasuredTo
  <1>3. ASSUME NEW k, NEW L
        PROVE  WrittenTo(x, k, L, <<1, 0, 0, 0, << >>>>)
    <2>1. PICK w : w = <<1, 0, 0, 0, << >>>>
      OBVIOUS
    <2>2. PICK S : S = {w}
      OBVIOUS
    <2>3. w[1] \in 1 .. Len(x) + 1
      BY <1>1, <2>1
    <2> QED BY <2>1, <2>2, <2>3 DEF WrittenTo
  <1> QED BY <1>2, <1>3

(* A tool that has just started.                                           *)
Fresh == /\ TextOK /\ tool \in ToolSet /\ phase = Entry(tool) /\ ip = Start(tool)
         /\ pos = 1 /\ half = FALSE /\ hold = 0 /\ labels = << >> /\ out = << >> /\ split = FALSE

LEMMA FreshTool == Fresh => Hex0Inv /\ LaterInv
  <1> SUFFICES ASSUME Fresh
               PROVE  Hex0Inv /\ LaterInv
    OBVIOUS
  <1>1. input \in Seq(STRING) /\ Nibbles = 0 /\ Start(tool) \in Int /\ ~split
    BY DEF Fresh, TextOK, Nibbles, Start, Base
  <1>2. ASSUME tool \in Hex0Ports
        PROVE  Hex0Inv
    <2>1. phase = "second"
      BY <1>2 DEF Fresh, Entry
    <2>2. \A k : WrittenTo(input, k, << >>, <<pos, 0, Nibbles, hold, out>>)
      BY <1>1, BeginsThere DEF Fresh
    <2> QED BY <1>1, <2>1, <2>2 DEF Hex0Inv
  <1>3. ASSUME tool \notin Hex0Ports
        PROVE  LaterInv
    <2>1. phase = "first" /\ Early(Nibbles) = 0 /\ Splits = 0
      BY <1>1, <1>3 DEF Fresh, Entry, Early, Splits
    <2>2. ip - Start(tool) - Early(Nibbles) = 0
      BY <1>1, <2>1 DEF Fresh
    <2>3. MeasuredTo(input, Point1(<< >>))
      BY <1>1, <2>1, <2>2, BeginsThere DEF Point1, Fresh
    <2>4. << >> \in Seq(Entries) /\ Shifted(labels, << >>, Start(tool))
      BY EmptySeq DEF Fresh, Shifted
    <2>5. Follows(<< >>)
      BY <2>1, <2>3, <2>4 DEF Follows
    <2> QED BY <2>1, <2>4, <2>5 DEF LaterInv
  <1> QED BY <1>2, <1>3 DEF Hex0Inv, LaterInv

(* A tool that has stopped.                                                *)
LEMMA EndedNow ==
  ASSUME StageInv, Hex0Inv, LaterInv, phase \in Stopped, NEW t, t = tool,
         NEW r, r = [end |-> phase, out |-> out, split |-> split]
  PROVE  Ended(t, r)
  <1>1. r.end = phase /\ r.out = out /\ r.split = split
    OBVIOUS
  <1>2. split \in BOOLEAN /\ Len(input) \in Nat /\ pos \in Int
    BY PassFacts
  <1>3. ASSUME t \in Hex0Ports
        PROVE  /\ t = "hex0.rv" \/ Spoken(t) => r.end = "done"
               /\ r.end = "done" => r.split = FALSE
               /\ r.end = "done" => WrittenAll(input, "hex0", r.out)
               /\ r.end = "done" /\ Spoken(t) => WrittenAll(input, "hex2", r.out)
    <2>1. phase \in {"done", "wild"}
      BY <1>3 DEF Hex0Inv, Stopped
    <2>2. t = "hex0.rv" \/ Spoken(t) => r.end = "done"
      BY <1>1, <1>3, <2>1 DEF Hex0Inv
    <2>3. r.split = FALSE
      <3>1. ~split
        BY <1>3 DEF Hex0Inv
      <3> QED BY <1>1, <1>2, <3>1, Zenon
    <2>4. ASSUME NEW k \in {"hex0", "hex2"}, r.end = "done", k = "hex2" => Spoken(t)
          PROVE  WrittenAll(input, k, r.out)
      <3>1. PICK i : WrittenTo(input, k, << >>, <<pos, i, Nibbles, hold, out>>)
        BY <1>3, <2>4 DEF Hex0Inv
      <3>2. PICK w : w = <<pos, i, Nibbles, hold, out>>
        OBVIOUS
      <3>3. AtEnd(input, pos)
        BY <1>1, <1>3, <2>4 DEF Hex0Inv, More
      <3> QED BY <1>1, <3>1, <3>2, <3>3 DEF WrittenAll
    <2> QED BY <2>2, <2>3, <2>4
  <1>4. ASSUME t \notin Hex0Ports, Spoken(t)
        PROVE  Left(input, t, r)
    <2>1. /\ phase \in {"done", "failed", "wild"} /\ (phase = "done" => AtEnd(input, pos))
          /\ phase \in {"failed", "wild"} => tool \in Hex2Ports
      BY <1>4 DEF LaterInv, Stopped, More
    <2>2. PICK L \in Seq(Entries) : Follows(L)
      BY <1>4 DEF LaterInv
    <2>3. PICK i, n : MeasuredTo(input, <<Len(input) + 1, i, n, L, Splits>>)
      BY <2>1, <2>2 DEF Follows
    <2>4. r.split = (Splits = 1)
      <3>1. CASE split
        <4>1. Splits = 1 /\ split = TRUE
          <5>1. Splits = 1
            BY <3>1 DEF Splits
          <5> QED BY <1>2, <3>1, <5>1, Zenon
        <4> QED BY <1>1, <4>1
      <3>2. CASE ~split
        <4>1. Splits # 1 /\ split = FALSE
          <5>1. Splits = 0
            BY <3>2 DEF Splits
          <5>2. split = FALSE
            BY <1>2, <3>2, Zenon
          <5> QED BY <5>1, <5>2
        <4> QED BY <1>1, <4>1
      <3> QED BY <3>1, <3>2
    <2>5. t \in Hex1Ports => r.end = "done"
      BY <1>1, <2>1, ToolFacts
    <2>6. ASSUME ~ (t = "hex2.c" /\ Splits = 1)
          PROVE  \E w : /\ WrittenTo(input, "hex2", L, w)
                        /\ AtEnd(input, w[1]) \/ Fails(input, "hex2", L, w)
                        /\ AtEnd(input, w[1]) => r.end = "done" /\ r.out = w[5]
                        /\ t \in Hex2Ports /\ ~AtEnd(input, w[1]) =>
                              r.end = MissWord(t, L) /\ r.out = w[5]
      <3>1. ~Apart
        BY <2>6 DEF Apart, Splits
      <3>2. /\ \/ WrittenTo(input, "hex2", L, Point2)
               \/ /\ tool \in Hex1Ports
                  /\ \E w : WrittenTo(input, "hex2", L, w) /\ Fails(input, "hex2", L, w)
            /\ phase \in {"failed", "wild"} =>
                  Fails(input, "hex2", L, Point2) /\ phase = MissWord(tool, L)
        BY <2>1, <2>2, <3>1 DEF Follows
      <3>3. PICK w : w = Point2
        OBVIOUS
      <3>4. w[1] = pos /\ w[5] = out
        BY <3>3 DEF Point2
      <3>5. \A v : WrittenTo(input, "hex2", L, v) /\ Fails(input, "hex2", L, v) => ~AtEnd(input, v[1])
        <4>1. \A v : WrittenTo(input, "hex2", L, v) => v[1] \in 1 .. Len(input) + 1
          BY DEF WrittenTo
        <4>2. \A v : Fails(input, "hex2", L, v) => v[1] <= Len(input)
          BY DEF Fails
        <4> QED BY <1>2, <4>1, <4>2 DEF AtEnd
      <3>6. CASE phase = "done" /\ WrittenTo(input, "hex2", L, w)
        BY <1>1, <2>1, <3>4, <3>6
      <3>7. CASE phase # "done"
        <4>1. /\ WrittenTo(input, "hex2", L, w) /\ Fails(input, "hex2", L, w)
              /\ phase = MissWord(t, L)
          BY <2>1, <3>2, <3>3, <3>7, ToolFacts
        <4> QED BY <1>1, <3>4, <3>5, <4>1
      <3>8. CASE /\ tool \in Hex1Ports
                 /\ \E v : WrittenTo(input, "hex2", L, v) /\ Fails(input, "hex2", L, v)
        <4>1. PICK v : WrittenTo(input, "hex2", L, v) /\ Fails(input, "hex2", L, v)
          BY <3>8
        <4>2. t \notin Hex2Ports /\ ~AtEnd(input, v[1])
          BY <3>5, <3>8, <4>1, ToolFacts
        <4> QED BY <4>1, <4>2
      <3> QED BY <2>1, <3>2, <3>3, <3>6, <3>7, <3>8
    <2> QED BY <2>2, <2>3, <2>4, <2>5, <2>6 DEF Left
  <1>5. r = [end |-> r.end, out |-> r.out, split |-> r.split]
    BY <1>1
  <1> QED BY <1>3, <1>4, <1>5 DEF Ended

(* What a tool has left stays.                                             *)
LEMMA EndedStays ==
  ASSUME UNCHANGED input, NEW t, NEW r, Ended(t, r)
  PROVE  Ended(t, r)'
  <1>1. Spoken(t)' <=> Spoken(t)
    BY SameLanguage
  <1> QED BY <1>1 DEF Ended

(* A tool that rests.                                                      *)
LEMMA QuietTracks ==
  ASSUME Hex0Inv, LaterInv,
         UNCHANGED <<tool, input, phase, pos, ip, half, hold, labels, out, fpIp, split>>
  PROVE  Hex0Inv' /\ LaterInv'
  <1>1. /\ (Spoken(tool)' <=> Spoken(tool)) /\ (More' <=> More) /\ (Apart' <=> Apart)
        /\ Nibbles' = Nibbles /\ Splits' = Splits /\ Start(tool)' = Start(tool) /\ Point2' = Point2
    BY SameLanguage DEF More, Apart, Nibbles, Splits, Start, Point2
  <1>2. ASSUME NEW L, Follows(L)
        PROVE  Follows(L)'
    <2>1. Point1(L)' = Point1(L)
      BY <1>1 DEF Point1, Early
    <2> QED BY <1>1, <1>2, <2>1 DEF Follows
  <1>3. Hex0Inv'
    BY <1>1 DEF Hex0Inv
  <1>4. LaterInv'
    BY <1>1, <1>2 DEF LaterInv
  <1> QED BY <1>3, <1>4

(* The invariant holds before the first tool runs.                         *)
LEMMA InitPorts == Init => PortInv
  <1> SUFFICES ASSUME Init
               PROVE  PortInv
    OBVIOUS
  <1>1. StageInv
    BY InitStages
  <1>2. tool = Tools[1] /\ results = << >>
    BY DEF Init
  <1>3. Fresh
    BY <1>1 DEF Init, Fresh, StageInv, Types
  <1>4. Len(results) = 0 /\ 1 .. Len(results) = {}
    BY <1>2
  <1> QED BY <1>2, <1>3, <1>4, FreshTool DEF PortInv

(* The next tool starts, or the last has run.                              *)
LEMMA NextToolTracks == ASSUME StageInv, PortInv, NextTool PROVE PortInv'
  <1>1. PICK t, r : t = tool /\ r = [end |-> phase, out |-> out, split |-> split]
    OBVIOUS
  <1>2. phase \in Stopped /\ Len(results) < 6 /\ results' = Append(results, r)
    BY <1>1, ToolFacts DEF NextTool
  <1>3. PICK U : results \in Seq(U)
    BY DEF StageInv, Types
  <1>4. PICK n : n = Len(results)
    OBVIOUS
  <1>5. /\ Len(results) \in Nat /\ Len(results') = n + 1 /\ results'[n + 1] = r
        /\ \A j \in 1 .. n : results'[j] = results[j]
    <2>1. PICK W : W = U \cup {r}
      OBVIOUS
    <2>2. results \in Seq(W)
      <3>1. \A k \in 1 .. Len(results) : results[k] \in W
        BY <1>3, <2>1, ElementOfSeq
      <3> QED BY <1>3, <3>1, LenProperties
    <2> QED BY <1>2, <1>4, <2>1, <2>2, AppendProperties, LenProperties
  <1>6. t = Tools[n + 1] /\ UNCHANGED input
    <2>1. t = Tools[n + 1]
      BY <1>1, <1>2, <1>4, <1>5 DEF PortInv
    <2>2. UNCHANGED input
      BY DEF NextTool, toolVars
    <2> QED BY <2>1, <2>2
  <1>7. Ended(t, r)
    BY <1>1, <1>2, EndedNow DEF PortInv
  <1>8. ASSUME NEW j \in 1 .. n + 1
        PROVE  Ended(Tools[j], results[j])'
    <2>1. PICK u, s : u = Tools[j] /\ s = results'[j]
      OBVIOUS
    <2>2. Ended(u, s)
      <3>1. CASE j = n + 1
        BY <1>5, <1>6, <1>7, <2>1, <3>1
      <3>2. CASE j # n + 1
        <4>1. j \in 1 .. Len(results) /\ results'[j] = results[j]
          BY <1>4, <1>5, <3>2
        <4> QED BY <2>1, <4>1 DEF PortInv
      <3> QED BY <3>1, <3>2
    <2>3. Ended(u, s)'
      BY <1>6, <2>2, EndedStays
    <2> QED BY <2>1, <2>3
  <1>9. \A j \in 1 .. Len(results') : Ended(Tools[j], results[j])'
    BY <1>5, <1>8
  <1>10. CASE n + 1 = 6
    <2>1. UNCHANGED <<tool, input, phase, pos, ip, half, hold, labels, out, fpIp, split>>
      BY <1>4, <1>10, ToolFacts DEF NextTool, toolVars
    <2>2. Hex0Inv' /\ LaterInv'
      BY <2>1, QuietTracks DEF PortInv
    <2>3. tool' = Tools[IF Len(results') = 6 THEN 6 ELSE Len(results') + 1]
      BY <1>1, <1>5, <1>6, <1>10, <2>1
    <2> QED BY <1>9, <2>2, <2>3 DEF PortInv
  <1>11. CASE n + 1 # 6
    <2>1. /\ tool' = Tools[n + 2] /\ phase' = Entry(tool)' /\ ip' = Start(tool)' /\ pos' = 1
          /\ half' = FALSE /\ hold' = 0 /\ labels' = << >> /\ out' = << >> /\ split' = FALSE
      <3> DEFINE new == Tools[Len(results) + 2]
      <3>1. /\ tool' = new /\ phase' = Entry(new) /\ ip' = Start(new) /\ pos' = 1
            /\ half' = FALSE /\ hold' = 0 /\ labels' = << >> /\ out' = << >> /\ split' = FALSE
        BY <1>4, <1>11, ToolFacts DEF NextTool
      <3>2. new = Tools[n + 2]
        BY <1>4
      <3> HIDE DEF new
      <3> QED BY <3>1, <3>2 DEF Entry, Start
    <2>2. Fresh'
      <3>1. n + 2 \in 1 .. 6
        BY <1>2, <1>4, <1>5, <1>11
      <3>2. tool' \in ToolSet
        BY <2>1, <3>1, ToolFacts
      <3>3. TextOK'
        BY <1>6 DEF TextOK, StageInv, Types
      <3> QED BY <2>1, <3>2, <3>3 DEF Fresh
    <2>3. (Fresh => Hex0Inv /\ LaterInv)'
      BY FreshTool, PTL
    <2>4. tool' = Tools[IF Len(results') = 6 THEN 6 ELSE Len(results') + 1]
      <3>1. n + 1 + 1 = n + 2
        BY <1>4, <1>5
      <3> QED BY <1>5, <1>11, <2>1, <3>1
    <2> QED BY <1>9, <2>2, <2>3, <2>4 DEF PortInv
  <1> QED BY <1>10, <1>11

(* Every step of every tool keeps the invariant.                           *)
LEMMA StepPorts == StageInv /\ PortInv /\ [Next]_vars => PortInv'
  <1> SUFFICES ASSUME StageInv, PortInv, [Next]_vars
               PROVE  PortInv'
    OBVIOUS
  <1>1. ASSUME UNCHANGED <<tool, results, input>>, Hex0Inv', LaterInv'
        PROVE  PortInv'
    <2>1. \A j \in 1 .. Len(results) : Ended(Tools[j], results[j])'
      <3> SUFFICES ASSUME NEW j \in 1 .. Len(results)
                   PROVE  Ended(Tools[j], results[j])'
        OBVIOUS
      <3>1. PICK u, s : u = Tools[j] /\ s = results[j]
        OBVIOUS
      <3>2. Ended(u, s)
        BY <3>1 DEF PortInv
      <3>3. Ended(u, s)' /\ results'[j] = s
        BY <1>1, <3>1, <3>2, EndedStays
      <3> QED BY <3>1, <3>3
    <2> QED BY <1>1, <2>1 DEF PortInv
  <1>2. CASE Hex0Next /\ UNCHANGED <<tool, results>>
    <2>1. Hex0Inv' /\ tool \in Hex0Ports
      BY <1>2, Hex0Tracks
         DEF PortInv, Hex0Next, Hex0Digit, Hex0Purge, Hex0PurgeAtEof, Hex0Other, Hex0Eof, Hex0Turn
    <2>2. UNCHANGED input
      BY <1>2
         DEF Hex0Next, Hex0Digit, Hex0Purge, Hex0PurgeAtEof, Hex0Other, Hex0Eof, SpGoto, Stop
    <2>3. LaterInv'
      BY <1>2, <2>1 DEF LaterInv
    <2> QED BY <1>1, <1>2, <2>1, <2>2, <2>3
  <1>3. CASE (Hex1Next \/ Hex2Next) /\ UNCHANGED <<tool, results>>
    <2>1. LaterInv'
      BY <1>3, FirstTracks, SecondTracks DEF PortInv, Hex1Next, Hex2Next
    <2>2. tool \notin Hex0Ports
      <3>1. tool \in Hex1Ports \cup Hex2Ports
        BY <1>3 DEF Hex1Next, Hex1Label, Hex1Skip, Hex1Measure, Hex1Rewind, Hex1First,
                    Hex1Drop, Hex1Pointer, Hex1Write, Hex1Done, Hex1Second, Hex2Next,
                    Hex2Label, Hex2Skip, Hex2Tilde, Hex2Measure, Hex2Rewind, Hex2First,
                    Hex2Drop, Hex2Stops, Hex2Pointer, Hex2Reference, Hex2Write, Hex2Done, Hex2Second
      <3> QED BY <3>1, ToolFacts
    <2>3. Hex0Inv'
      BY <1>3, <2>2 DEF Hex0Inv
    <2>4. UNCHANGED input
      BY <1>3 DEF Hex1Next, Hex1Label, Hex1Skip, Hex1Measure, Hex1Rewind,
                  Hex1Drop, Hex1Pointer, Hex1Write, Hex1Done, Hex2Next,
                  Hex2Label, Hex2Skip, Hex2Tilde, Hex2Measure, Hex2Rewind,
                  Hex2Drop, Hex2Stops, Hex2Pointer, Hex2Write, Hex2Done, FpGoto, SpGoto, Stop, Rewind
    <2> QED BY <1>1, <1>3, <2>1, <2>3, <2>4
  <1>4. CASE NextTool
    BY <1>4, NextToolTracks
  <1>5. CASE UNCHANGED vars
    <2>1. UNCHANGED <<tool, results, input, phase, pos, ip, half, hold, labels, out, fpIp, split>>
      BY <1>5 DEF vars, toolVars
    <2> QED BY <1>1, <2>1, QuietTracks DEF PortInv
  <1> QED BY <1>2, <1>3, <1>4, <1>5 DEF Next, Run

(* The invariant holds of every run over every set of texts.               *)
THEOREM PortsAlways == Spec => [](StageInv /\ PortInv)
  <1>1. Init => StageInv /\ PortInv
    BY InitStages, InitPorts
  <1>2. StageInv /\ PortInv /\ [Next]_vars => (StageInv /\ PortInv)'
    BY StepStages, StepPorts
  <1> QED BY <1>1, <1>2, PTL DEF Spec

-----------------------------------------------------------------------------
(* What the tools leave *)

(* There is one output.                                                    *)
LEMMA OneOutput ==
  ASSUME NEW x \in Seq(STRING), NEW k, NEW o, NEW q, WrittenAll(x, k, o), WrittenAll(x, k, q)
  PROVE  o = q
  <1>1. PICK v : WrittenTo(x, k, << >>, v) /\ AtEnd(x, v[1]) /\ o = v[5]
    BY DEF WrittenAll
  <1>2. PICK w : WrittenTo(x, k, << >>, w) /\ AtEnd(x, w[1]) /\ q = w[5]
    BY DEF WrittenAll
  <1>3. v[1] > Len(x) /\ w[1] > Len(x)
    BY <1>1, <1>2 DEF AtEnd
  <1>4. v = w
    BY <1>1, <1>2, <1>3, OneText
  <1> QED BY <1>1, <1>2, <1>4

(* Two tools that share a text leave the same, but for the words in which  *)
(* they fail.                                                              *)
LEMMA LeftSame ==
  ASSUME NEW x \in Seq(STRING), NEW t, NEW r, NEW u, NEW q, Left(x, t, r), Left(x, u, q)
  PROVE  /\ r.split = q.split
         /\ t \in Hex2Ports /\ t # "hex2.c" /\ (u = "hex2.c" => ~r.split) =>
              /\ r.end = "done" => q.end = "done" /\ q.out = r.out
              /\ r.end # "done" /\ u \in Hex2Ports =>
                    /\ q.out = r.out
                    /\ \E L : r.end = MissWord(t, L) /\ q.end = MissWord(u, L)
  <1>1. Len(x) \in Nat
    BY LenProperties
  <1>2. PICK i, n, s : \E L \in Seq(Entries) :
           /\ MeasuredTo(x, <<Len(x) + 1, i, n, L, s>>)
           /\ r.split = (s = 1)
           /\ t \in Hex1Ports => r.end = "done"
           /\ ~ (t = "hex2.c" /\ s = 1) =>
              \E w : /\ WrittenTo(x, "hex2", L, w)
                     /\ AtEnd(x, w[1]) \/ Fails(x, "hex2", L, w)
                     /\ AtEnd(x, w[1]) => r.end = "done" /\ r.out = w[5]
                     /\ t \in Hex2Ports /\ ~AtEnd(x, w[1]) =>
                           r.end = MissWord(t, L) /\ r.out = w[5]
    BY Zenon DEF Left
  <1>3. PICK L \in Seq(Entries) :
           /\ MeasuredTo(x, <<Len(x) + 1, i, n, L, s>>)
           /\ r.split = (s = 1)
           /\ ~ (t = "hex2.c" /\ s = 1) =>
              \E w : /\ WrittenTo(x, "hex2", L, w)
                     /\ AtEnd(x, w[1]) \/ Fails(x, "hex2", L, w)
                     /\ AtEnd(x, w[1]) => r.end = "done" /\ r.out = w[5]
                     /\ t \in Hex2Ports /\ ~AtEnd(x, w[1]) =>
                           r.end = MissWord(t, L) /\ r.out = w[5]
    BY <1>2
  <1>4. PICK j, h, z : \E M \in Seq(Entries) :
           /\ MeasuredTo(x, <<Len(x) + 1, j, h, M, z>>)
           /\ q.split = (z = 1)
           /\ u \in Hex1Ports => q.end = "done"
           /\ ~ (u = "hex2.c" /\ z = 1) =>
              \E w : /\ WrittenTo(x, "hex2", M, w)
                     /\ AtEnd(x, w[1]) \/ Fails(x, "hex2", M, w)
                     /\ AtEnd(x, w[1]) => q.end = "done" /\ q.out = w[5]
                     /\ u \in Hex2Ports /\ ~AtEnd(x, w[1]) =>
                           q.end = MissWord(u, M) /\ q.out = w[5]
    BY Zenon DEF Left
  <1>5. PICK M \in Seq(Entries) :
           /\ MeasuredTo(x, <<Len(x) + 1, j, h, M, z>>)
           /\ q.split = (z = 1)
           /\ ~ (u = "hex2.c" /\ z = 1) =>
              \E w : /\ WrittenTo(x, "hex2", M, w)
                     /\ AtEnd(x, w[1]) \/ Fails(x, "hex2", M, w)
                     /\ AtEnd(x, w[1]) => q.end = "done" /\ q.out = w[5]
                     /\ u \in Hex2Ports /\ ~AtEnd(x, w[1]) =>
                           q.end = MissWord(u, M) /\ q.out = w[5]
    BY <1>4
  <1>6. L = M /\ s = z
    <2>1. PICK a, b : a = <<Len(x) + 1, i, n, L, s>> /\ b = <<Len(x) + 1, j, h, M, z>>
      OBVIOUS
    <2>2. a[1] > Len(x) /\ b[1] > Len(x) /\ MeasuredTo(x, a) /\ MeasuredTo(x, b)
      BY <1>1, <1>3, <1>5, <2>1
    <2>3. a = b
      BY <2>2, OneMeasure
    <2> QED BY <2>1, <2>3
  <1>7. r.split = q.split
    BY <1>3, <1>5, <1>6
  <1>8. ASSUME t \in Hex2Ports, t # "hex2.c", u = "hex2.c" => ~r.split
        PROVE  /\ r.end = "done" => q.end = "done" /\ q.out = r.out
               /\ r.end # "done" /\ u \in Hex2Ports =>
                    /\ q.out = r.out
                    /\ \E N : r.end = MissWord(t, N) /\ q.end = MissWord(u, N)
    <2>1. ~ (u = "hex2.c" /\ z = 1)
      BY <1>3, <1>6, <1>8
    <2>2. PICK v : /\ WrittenTo(x, "hex2", L, v)
                   /\ AtEnd(x, v[1]) \/ Fails(x, "hex2", L, v)
                   /\ AtEnd(x, v[1]) => r.end = "done" /\ r.out = v[5]
                   /\ ~AtEnd(x, v[1]) => r.end = MissWord(t, L) /\ r.out = v[5]
      BY <1>3, <1>8
    <2>3. PICK w : /\ WrittenTo(x, "hex2", L, w)
                   /\ AtEnd(x, w[1]) \/ Fails(x, "hex2", L, w)
                   /\ AtEnd(x, w[1]) => q.end = "done" /\ q.out = w[5]
                   /\ u \in Hex2Ports /\ ~AtEnd(x, w[1]) => q.end = MissWord(u, L) /\ q.out = w[5]
      BY <1>5, <1>6, <2>1
    <2>4. v = w
      <3>1. v[1] > Len(x) \/ Fails(x, "hex2", L, v)
        BY <2>2 DEF AtEnd
      <3>2. w[1] > Len(x) \/ Fails(x, "hex2", L, w)
        BY <2>3 DEF AtEnd
      <3> QED BY <2>2, <2>3, <3>1, <3>2, OneText
    <2>5. MissWord(t, L) # "done"
      BY DEF MissWord
    <2> QED BY <2>2, <2>3, <2>4, <2>5
  <1> QED BY <1>7, <1>8

(* A text without definitions and references is written as it is.          *)
LEMMA LeftPlain ==
  ASSUME NEW x \in Seq(STRING), \A p \in 1 .. Len(x) : x[p] \notin {":"} \cup PointerOps,
         NEW t, NEW r, Left(x, t, r)
  PROVE  r.end = "done" /\ WrittenAll(x, "hex2", r.out)
  <1>1. Len(x) \in Nat
    BY LenProperties
  <1>2. PICK i, n, s : \E L \in Seq(Entries) :
           /\ MeasuredTo(x, <<Len(x) + 1, i, n, L, s>>)
           /\ ~ (t = "hex2.c" /\ s = 1) =>
              \E w : /\ WrittenTo(x, "hex2", L, w)
                     /\ AtEnd(x, w[1]) \/ Fails(x, "hex2", L, w)
                     /\ AtEnd(x, w[1]) => r.end = "done" /\ r.out = w[5]
    BY DEF Left
  <1>3. PICK L \in Seq(Entries) :
           /\ MeasuredTo(x, <<Len(x) + 1, i, n, L, s>>)
           /\ ~ (t = "hex2.c" /\ s = 1) =>
              \E w : /\ WrittenTo(x, "hex2", L, w)
                     /\ AtEnd(x, w[1]) \/ Fails(x, "hex2", L, w)
                     /\ AtEnd(x, w[1]) => r.end = "done" /\ r.out = w[5]
    BY <1>2
  <1>4. L = << >> /\ s = 0
    <2> SUFFICES ASSUME ~ (L = << >> /\ s = 0)
                 PROVE  FALSE
      OBVIOUS
    <2>1. PICK m : m = <<Len(x) + 1, i, n, L, s>>
      OBVIOUS
    <2>2. PICK b : b = <<1, 0, 0, << >>, 0>>
      OBVIOUS
    <2>3. PICK S : /\ b \in S /\ m \in S
                   /\ \A u \in S : /\ u[1] \in 1 .. Len(x) + 1
                                   /\ u = m \/ (u[1] <= Len(x) /\ Measure(x, u) \in S)
      BY <1>3, <2>1, <2>2 DEF MeasuredTo
    <2>4. PICK B : B = {u \in S : u[4] = << >> /\ u[5] = 0}
      OBVIOUS
    <2>5. PICK f : f = [u \in B |-> Measure(x, u)]
      OBVIOUS
    <2>6. b \in B /\ m \notin B
      BY <2>1, <2>2, <2>3, <2>4
    <2>7. ASSUME NEW u \in B
          PROVE  u[1] \in 1 .. Len(x) + 1 /\ f[u] \in B /\ f[u][1] \in Int /\ f[u][1] > u[1]
      <3>1. u[1] \in 1 .. Len(x) /\ Measure(x, u) \in S /\ u[4] = << >> /\ u[5] = 0
            /\ f[u] = Measure(x, u)
        BY <1>1, <2>3, <2>4, <2>5, <2>6
      <3>2. x[u[1]] \notin {":"} \cup PointerOps
        BY <3>1
      <3>3. Measure(x, u)[4] = << >> /\ Measure(x, u)[5] = 0
        BY <3>1, <3>2 DEF Measure
      <3>4. Measure(x, u)[1] = Leaves(x, "hex2", u[1])
        BY PositionFacts
      <3>5. Leaves(x, "hex2", u[1]) \in u[1] + 1 .. Len(x) + 1
        BY <3>1, LeavesFacts
      <3> QED BY <1>1, <2>4, <3>1, <3>3, <3>4, <3>5
    <2>8. B # {} /\ Len(x) + 1 \in Nat
      BY <1>1, <2>6
    <2> QED BY <2>7, <2>8, NoLoop
  <1>5. PICK w : /\ WrittenTo(x, "hex2", << >>, w)
                 /\ AtEnd(x, w[1]) \/ Fails(x, "hex2", << >>, w)
                 /\ AtEnd(x, w[1]) => r.end = "done" /\ r.out = w[5]
    BY <1>3, <1>4
  <1>6. ~Fails(x, "hex2", << >>, w)
    <2>1. w[1] \in 1 .. Len(x) + 1
      BY <1>5 DEF WrittenTo
    <2>2. Refs("hex2") = PointerOps
      BY DEF Refs
    <2>3. w[1] <= Len(x) => w[1] \in 1 .. Len(x)
      BY <1>1, <2>1
    <2> QED BY <2>2, <2>3 DEF Fails
  <1> QED BY <1>5, <1>6 DEF WrittenAll

(* The results of the tools, in their order.                               *)
LEMMA ResultFacts ==
  /\ Result("hex0") = results[1] /\ Result("hex0.rv") = results[2]
  /\ Result("hex1") = results[3] /\ Result("hex1.rv") = results[4]
  /\ Result("hex2") = results[5] /\ Result("hex2.c") = results[6]
  <1>1. /\ Tools[1] = "hex0" /\ Tools[2] = "hex0.rv" /\ Tools[3] = "hex1"
        /\ Tools[4] = "hex1.rv" /\ Tools[5] = "hex2" /\ Tools[6] = "hex2.c"
    BY DEF Tools
  <1>2. DOMAIN Tools = {1, 2, 3, 4, 5, 6}
    BY ToolFacts
  <1>3. ASSUME NEW j \in DOMAIN Tools, NEW t, t = Tools[j]
        PROVE  Result(t) = results[j]
    <2>1. PICK c : c = CHOOSE k \in DOMAIN Tools : Tools[k] = t
      OBVIOUS
    <2>2. c \in DOMAIN Tools /\ Tools[c] = t
      BY <1>3, <2>1
    <2>3. c = j
      BY <1>1, <1>2, <1>3, <2>2
    <2> QED BY <2>1, <2>3 DEF Result
  <1> QED BY <1>1, <1>2, <1>3

(* What they have left once all have stopped.                              *)
LEMMA FinishedFacts ==
  ASSUME StageInv, PortInv, Finished
  PROVE  /\ input \in Seq(STRING) /\ Len(input) \in Nat /\ DOMAIN input = 1 .. Len(input)
         /\ DOMAIN results = {1, 2, 3, 4, 5, 6}
         /\ Ended("hex0", results[1]) /\ Ended("hex0.rv", results[2])
         /\ \A j \in {1, 2} : results[j] = [end |-> results[j].end, out |-> results[j].out,
                                            split |-> results[j].split]
         /\ Fit => /\ Left(input, "hex2", results[5]) /\ Left(input, "hex2.c", results[6])
                   /\ results[5] = [end |-> results[5].end, out |-> results[5].out,
                                    split |-> results[5].split]
                   /\ results[6] = [end |-> results[6].end, out |-> results[6].out,
                                    split |-> results[6].split]
         /\ Fit /\ Hex1Text => Left(input, "hex1", results[3]) /\ Left(input, "hex1.rv", results[4])
  <1>1. input \in Seq(STRING) /\ Len(input) \in Nat /\ DOMAIN input = 1 .. Len(input)
    BY PassFacts, LenProperties DEF TextOK
  <1>2. Len(results) = 6
    BY ToolFacts DEF Finished
  <1>3. DOMAIN results = {1, 2, 3, 4, 5, 6}
    <2>1. PICK U : results \in Seq(U)
      BY DEF StageInv, Types
    <2>2. DOMAIN results = 1 .. 6
      BY <1>2, <2>1, LenProperties
    <2> QED BY <2>2
  <1>4. /\ Tools[1] = "hex0" /\ Tools[2] = "hex0.rv" /\ Tools[3] = "hex1"
        /\ Tools[4] = "hex1.rv" /\ Tools[5] = "hex2" /\ Tools[6] = "hex2.c"
    BY DEF Tools
  <1>5. \A j \in 1 .. 6 : Ended(Tools[j], results[j])
    BY <1>2 DEF PortInv
  <1>6. /\ Ended("hex0", results[1]) /\ Ended("hex0.rv", results[2])
        /\ Ended("hex1", results[3]) /\ Ended("hex1.rv", results[4])
        /\ Ended("hex2", results[5]) /\ Ended("hex2.c", results[6])
    BY <1>4, <1>5
  <1>7. /\ "hex1" \notin Hex0Ports /\ "hex1.rv" \notin Hex0Ports
        /\ "hex2" \notin Hex0Ports /\ "hex2.c" \notin Hex0Ports
        /\ "hex2" \notin Hex1Ports /\ "hex2.c" \notin Hex1Ports
    BY DEF Hex0Ports, Hex1Ports
  <1>8. Fit => Left(input, "hex2", results[5]) /\ Left(input, "hex2.c", results[6])
    BY <1>6, <1>7 DEF Ended, Spoken
  <1>9. Fit /\ Hex1Text => Left(input, "hex1", results[3]) /\ Left(input, "hex1.rv", results[4])
    BY <1>6, <1>7 DEF Ended, Spoken
  <1>10. \A j \in {1, 2, 5, 6} :
           results[j] = [end |-> results[j].end, out |-> results[j].out, split |-> results[j].split]
    <2>1. \A t, r : Ended(t, r) => r = [end |-> r.end, out |-> r.out, split |-> r.split]
      BY DEF Ended
    <2> QED BY <1>6, <2>1
  <1> QED BY <1>1, <1>3, <1>6, <1>8, <1>9, <1>10

-----------------------------------------------------------------------------
(* The theorems *)

(* A source for hex0, its comments closed, means the same to every stage   *)
(* and to every port.                                                      *)
THEOREM Hex0ExtendedTheorem == Spec => []Hex0Extended
  <1>1. StageInv /\ PortInv => Hex0Extended
    <2> SUFFICES ASSUME StageInv, PortInv, Finished, CommentsClosed, Hex0Text,
                        NEW k \in DOMAIN results
                 PROVE  results[k].end = "done" /\ results[k].out = results[1].out
      BY DEF Hex0Extended
    <2>1. \A p \in 1 .. Len(input) : input[p] \notin {":", "~"} \cup PointerOps
      BY FinishedFacts DEF Hex0Text
    <2>2. Fit /\ Hex1Text
      BY <2>1, FinishedFacts DEF Fit, NamesEnd, Hex1Text, PointerOps
    <2>3. Spoken("hex0") /\ Spoken("hex0.rv")
      BY <2>2 DEF Spoken, Hex0Ports, Hex1Ports
    <2>4. \A j \in {1, 2} : results[j].end = "done" /\ WrittenAll(input, "hex2", results[j].out)
      <3>1. "hex0" \in Hex0Ports /\ "hex0.rv" \in Hex0Ports
        BY DEF Hex0Ports
      <3>2. Ended("hex0", results[1]) /\ Ended("hex0.rv", results[2])
        BY FinishedFacts
      <3> QED BY <2>3, <3>1, <3>2 DEF Ended
    <2>5. \A j \in {3, 4, 5, 6} : results[j].end = "done" /\ WrittenAll(input, "hex2", results[j].out)
      <3>1. /\ input \in Seq(STRING) /\ \A p \in 1 .. Len(input) : input[p] \notin {":"} \cup PointerOps
            /\ Left(input, "hex1", results[3]) /\ Left(input, "hex1.rv", results[4])
            /\ Left(input, "hex2", results[5]) /\ Left(input, "hex2.c", results[6])
        BY <2>1, <2>2, FinishedFacts
      <3> QED BY <3>1, LeftPlain
    <2>6. k \in {1, 2, 3, 4, 5, 6} /\ input \in Seq(STRING)
      BY FinishedFacts
    <2>7. results[k].end = "done" /\ WrittenAll(input, "hex2", results[k].out)
      BY <2>4, <2>5, <2>6
    <2> QED BY <2>4, <2>6, <2>7, OneOutput
  <1> QED BY <1>1, PortsAlways, PTL

(* A source for hex1, its labels defined, means the same to both ports of  *)
(* hex1 and to hex2; and to hex2.c when no label is inside a byte.         *)
THEOREM Hex1ExtendedTheorem == Spec => []Hex1Extended
  <1>1. StageInv /\ PortInv => Hex1Extended
    <2> SUFFICES ASSUME StageInv, PortInv, Finished, CommentsClosed, Hex1Text,
                        Result("hex2").end = "done"
                 PROVE  /\ Result("hex1").out = Result("hex2").out
                        /\ Result("hex1.rv").out = Result("hex2").out
                        /\ ~Result("hex1").split => Result("hex2.c").out = Result("hex2").out
      BY DEF Hex1Extended
    <2>1. input \in Seq(STRING) /\ Len(input) \in Nat /\ DOMAIN input = 1 .. Len(input)
      BY FinishedFacts
    <2>2. Fit
      <3>1. \A p \in DOMAIN input : input[p] # "~"
        BY DEF Hex1Text
      <3>2. NamesEnd
        <4> SUFFICES ASSUME NEW p \in DOMAIN input, input[p] \in {":"} \cup PointerOps
                     PROVE  \E q \in p + 1 .. Len(input) : input[q] \in Blank
          BY DEF NamesEnd
        <4>1. p + 2 <= Len(input) /\ input[p + 2] \in Blank
          BY DEF Hex1Text
        <4>2. p + 2 \in p + 1 .. Len(input)
          BY <2>1, <4>1
        <4> QED BY <4>1, <4>2
      <3> QED BY <3>1, <3>2 DEF Fit
    <2>3. /\ Left(input, "hex1", results[3]) /\ Left(input, "hex1.rv", results[4])
          /\ Left(input, "hex2", results[5]) /\ Left(input, "hex2.c", results[6])
      BY <2>2, FinishedFacts
    <2>4. "hex2" \in Hex2Ports /\ results[5].end = "done"
      BY ResultFacts DEF Hex2Ports
    <2>5. results[3].out = results[5].out /\ results[4].out = results[5].out
      BY <2>1, <2>3, <2>4, LeftSame
    <2>6. ASSUME ~results[3].split
          PROVE  results[6].out = results[5].out
      <3>1. results[5].split = results[3].split
        BY <2>1, <2>3, LeftSame
      <3>2. ~results[5].split
        BY <2>6, <3>1
      <3> QED BY <2>1, <2>3, <2>4, <3>2, LeftSame
    <2> QED BY <2>5, <2>6, ResultFacts
  <1> QED BY <1>1, PortsAlways, PTL

(* The two forms of hex0 write the same for every text the first one       *)
(* returns from; hex2 and its C twin write the same and stop in the same   *)
(* way when tokens and comments end, no label is inside a byte and the     *)
(* text has a definition and no '~'.                                       *)
THEOREM PortsAgreeTheorem == Spec => []PortsAgree
  <1>1. StageInv /\ PortInv => PortsAgree
    <2> SUFFICES ASSUME StageInv, PortInv, Finished
                 PROVE  /\ Result("hex0").end = "done" => Result("hex0.rv") = Result("hex0")
                        /\ Fit /\ Result("hex2").end # "wild" /\ ~Result("hex2").split =>
                              Result("hex2") = Result("hex2.c")
      BY DEF PortsAgree, Fit
    <2>1. input \in Seq(STRING)
      BY FinishedFacts
    <2>2. ASSUME results[1].end = "done"
          PROVE  results[2] = results[1]
      <3>1. "hex0" \in Hex0Ports /\ "hex0.rv" \in Hex0Ports
        BY DEF Hex0Ports
      <3>2. Ended("hex0", results[1]) /\ Ended("hex0.rv", results[2])
        BY FinishedFacts
      <3>3. /\ results[2].end = "done" /\ results[1].split = FALSE /\ results[2].split = FALSE
            /\ WrittenAll(input, "hex0", results[1].out) /\ WrittenAll(input, "hex0", results[2].out)
        BY <2>2, <3>1, <3>2 DEF Ended
      <3>4. results[1].out = results[2].out
        BY <2>1, <3>3, OneOutput
      <3>5. \A j \in {1, 2} : results[j] = [end |-> results[j].end, out |-> results[j].out,
                                            split |-> results[j].split]
        BY FinishedFacts
      <3> QED BY <2>2, <3>3, <3>4, <3>5
    <2>3. ASSUME Fit, results[5].end # "wild", ~results[5].split
          PROVE  results[5] = results[6]
      <3>1. /\ Left(input, "hex2", results[5]) /\ Left(input, "hex2.c", results[6])
            /\ results[5] = [end |-> results[5].end, out |-> results[5].out,
                             split |-> results[5].split]
            /\ results[6] = [end |-> results[6].end, out |-> results[6].out,
                             split |-> results[6].split]
        BY <2>3, FinishedFacts
      <3>2. "hex2" \in Hex2Ports /\ "hex2.c" \in Hex2Ports
        BY DEF Hex2Ports
      <3>3. /\ results[5].split = results[6].split
            /\ results[5].end = "done" => results[6].end = "done" /\ results[6].out = results[5].out
            /\ results[5].end # "done" =>
                  /\ results[6].out = results[5].out
                  /\ \E L : results[5].end = MissWord("hex2", L) /\ results[6].end = MissWord("hex2.c", L)
        BY <2>1, <2>3, <3>1, <3>2, LeftSame
      <3>4. results[5].end = results[6].end /\ results[5].out = results[6].out
        BY <2>3, <3>3 DEF MissWord
      <3> QED BY <3>1, <3>3, <3>4
    <2> QED BY <2>2, <2>3, ResultFacts
  <1> QED BY <1>1, PortsAlways, PTL
================================================================================
