----------------------------- MODULE Hex2RvProofs -----------------------------
(***************************************************************************)
(* The two passes of the riscv64 linker agree, for every text.             *)
(*                                                                         *)
(* What a pass does at a position depends on the text and on what it       *)
(* carries there, its instruction pointer and its toggle.  The invariant   *)
(* keeps the track of the first pass (the history variable seen): every    *)
(* point of it but the last leads, by one turn of the loop, to another,    *)
(* and every definition on it is in the list with the address counted      *)
(* there.  A turn of the second pass is shown to be the same function of   *)
(* the point it is taken in (as long as no comment begins behind a dot),   *)
(* so the second pass stays on the track, meets each definition with its   *)
(* recorded address, and ends where the first pass ended.                  *)
(*                                                                         *)
(* Reads and the passes of the simulator are recursive functions: that     *)
(* they have values, and which, follows from the lemma Least by a least    *)
(* counterexample.                                                         *)
(*                                                                         *)
(* The second half proves that the linker writes what the reference        *)
(* simulator writes.  SimInv runs the two side by side: where the linker   *)
(* stands, the simulator has stood after some number of turns, inside a    *)
(* byte one address ahead in the first pass and level in the second; its   *)
(* dictionary is the linker's list read backwards; and after the last turn *)
(* its output is the linker's.                                             *)
(***************************************************************************)
EXTENDS Hex2RvSim, HexTextProofs, SequenceTheorems

-----------------------------------------------------------------------------
(* Tokens of the text *)

TextOK == input \in Seq(STRING)
Label  == [name : Seq(STRING), target : 0 .. 4 * Len(input), at : 1 .. Len(input)]

(* Names, references and definitions end in the text or at its end.        *)
LEMMA TokenFacts ==
  ASSUME TextOK, NEW p \in 1 .. Len(input) + 1
  PROVE  /\ DefinitionEnd(p) \in p .. Len(input) + 1
         /\ NameEnd(p) \in p .. Len(input) + 1
         /\ ReferenceEnd(p) \in p .. Len(input) + 1
  <1>1. Len(input) \in Nat
    BY LenProperties DEF TextOK
  <1>2. /\ DefinitionEnd(p) \in p .. Len(input) + 1
        /\ NameEnd(p) \in p .. Len(input) + 1
    BY <1>1, FindFromFacts DEF DefinitionEnd, NameEnd
  <1>3. ASSUME HasBase(p)
        PROVE  FindFrom(input, NameEnd(p) + 1, Blank) \in NameEnd(p) + 1 .. Len(input) + 1
    <2>1. NameEnd(p) + 1 \in 1 .. Len(input) + 1
      BY <1>1, <1>2, <1>3 DEF HasBase, AtEnd
    <2> QED BY <1>1, <2>1, FindFromFacts
  <1>4. CASE HasBase(p)
    BY <1>1, <1>2, <1>3, <1>4 DEF ReferenceEnd
  <1>5. CASE ~HasBase(p)
    BY <1>2, <1>5 DEF ReferenceEnd
  <1> QED BY <1>2, <1>4, <1>5

(* What a name is read from lies in the text.                              *)
LEMMA NameFacts ==
  ASSUME TextOK, NEW p \in 1 .. Len(input) + 1, NEW q \in p .. Len(input) + 1
  PROVE  Name(p, q) \in Seq(STRING)
  <1>1. Len(input) \in Nat /\ \A k \in 1 .. Len(input) : input[k] \in STRING
    BY LenProperties, ElementOfSeq DEF TextOK
  <1>2. p \in Int /\ q - 1 \in Int /\ \A k \in p .. q - 1 : input[k] \in STRING
    BY <1>1
  <1> QED BY <1>2, SubSeqProperties DEF Name

(* A name that is defined has a newest definition, whose target GetTarget  *)
(* finds.                                                                  *)
LEMMA GetTargetFacts ==
  ASSUME TextOK, labels \in Seq(Label), NEW name, Resolved(name)
  PROVE  GetTarget(name) \in Nat
  <1>1. DOMAIN labels = 1 .. Len(labels) /\ Len(labels) \in Nat
    BY LenProperties
  <1>2. \A k \in DOMAIN labels : labels[k] \in Label
    BY <1>1, ElementOfSeq
  <1> DEFINE T == {k \in DOMAIN labels : labels[k].name = name}
  <1>3. T \subseteq Nat /\ T # {}
    BY <1>1 DEF Resolved
  <1>4. PICK m \in T : \A k \in T : m <= k
    BY <1>3, Least
  <1>5. \A j \in 1 .. m - 1 : labels[j].name # name
    <2> SUFFICES ASSUME NEW j \in 1 .. m - 1, labels[j].name = name
                 PROVE  FALSE
      OBVIOUS
    <2>1. j \in T
      BY <1>1
    <2> QED BY <1>4, <2>1
  <1> DEFINE Newest(k) == /\ labels[k].name = name
                          /\ \A j \in 1 .. k - 1 : labels[j].name # name
  <1>6. \E k \in DOMAIN labels : Newest(k)
    BY <1>4, <1>5
  <1>7. (CHOOSE k \in DOMAIN labels : Newest(k)) \in DOMAIN labels
    BY <1>6
  <1>8. labels[CHOOSE k \in DOMAIN labels : Newest(k)].target \in Nat
    <2>1. Len(input) \in Nat
      BY LenProperties DEF TextOK
    <2> QED BY <1>2, <1>7, <2>1 DEF Label
  <1> QED BY <1>8 DEF GetTarget

(* The words of the shift-register operations fit their fields.            *)
LEMMA EncodeFacts ==
  ASSUME NEW c \in ShiftOps, NEW disp \in Int
  PROVE  Encode(c, disp) \in Word
  <1>1. c \in {"~", "!", "@", "$"}
    BY DEF ShiftOps
  <1>2. \A n \in Int : 0 <= n % 1048576 /\ n % 1048576 < 1048576
    BY SMT
  <1>3. \A n \in Int : 0 <= n % 4096 /\ n % 4096 < 4096
    BY SMT
  <1>4. (disp + 2048) \div 4096 \in Int /\ disp + 4 \in Int /\ disp \div 2 \in Int
    BY SMT
  <1> DEFINE Fits(n) == n \in Nat /\ n < 1048576
  <1>5. /\ Fits(((disp + 2048) \div 4096) % 1048576)
        /\ Fits((disp + 4) % 4096)
        /\ Fits((disp \div 2) % 4096)
        /\ Fits((disp \div 2) % 1048576)
    BY <1>2, <1>3, <1>4, SMT
  <1>6. CASE c = "~"
    <2>1. Encode(c, disp) = [op |-> c, field |-> ((disp + 2048) \div 4096) % 1048576]
      BY <1>6, SMT DEF Encode
    <2> QED BY <1>5, <1>6, <2>1, SMT DEF Word
  <1>7. CASE c = "!"
    <2>1. Encode(c, disp) = [op |-> c, field |-> (disp + 4) % 4096]
      BY <1>7, SMT DEF Encode
    <2> QED BY <1>5, <1>7, <2>1, SMT DEF Word
  <1>8. CASE c = "@"
    <2>1. Encode(c, disp) = [op |-> c, field |-> (disp \div 2) % 4096]
      BY <1>8, SMT DEF Encode
    <2> QED BY <1>5, <1>8, <2>1, SMT DEF Word
  <1>9. CASE c = "$"
    <2>1. Encode(c, disp) = [op |-> c, field |-> (disp \div 2) % 1048576]
      BY <1>9, SMT DEF Encode
    <2> QED BY <1>5, <1>9, <2>1, SMT DEF Word
  <1> HIDE DEF Fits
  <1> QED BY <1>1, <1>6, <1>7, <1>8, <1>9

-----------------------------------------------------------------------------
(* The eight reads of a dot *)

(* One read moves on, or stays at the end, and gets a nibble or none.      *)
LEMMA NextReadFacts ==
  ASSUME TextOK, NEW p \in 1 .. Len(input) + 1
  PROVE  /\ NextRead(p) \in p .. Len(input) + 1
         /\ ReadValue(p) \in -1 .. 15
         /\ AtEnd(input, p) => NextRead(p) = p
         /\ ~AtEnd(input, p) /\ input[p] \notin Comment => NextRead(p) = p + 1
  <1>1. Len(input) \in Nat
    BY LenProperties DEF TextOK
  <1>2. ReadValue(p) \in -1 .. 15
    <2>1. CASE ~AtEnd(input, p) /\ input[p] \in HexDigit
      <3>1. Nibble(input[p]) \in 0 .. 15
        BY <2>1, DigitFacts
      <3> QED BY <2>1, <3>1 DEF ReadValue
    <2>2. CASE ~(~AtEnd(input, p) /\ input[p] \in HexDigit)
      BY <2>2 DEF ReadValue
    <2> QED BY <2>1, <2>2
  <1>3. CASE AtEnd(input, p)
    BY <1>1, <1>2, <1>3 DEF NextRead
  <1>4. CASE ~AtEnd(input, p)
    <2>1. p + 1 \in 1 .. Len(input) + 1
      BY <1>1, <1>4 DEF AtEnd
    <2>2. AfterComment(input, p + 1) \in p + 1 .. Len(input) + 1
      BY <1>1, <2>1, AfterCommentFacts
    <2> QED BY <1>1, <1>2, <1>4, <2>1, <2>2 DEF NextRead, AfterHex
  <1> QED BY <1>3, <1>4

(* Where n reads from p on end when no comment is met.                     *)
Straight(p, n) == IF p + n > Len(input) THEN Len(input) + 1 ELSE p + n

(* The chain of reads that Reads looks up its result in.                   *)
IsChain(f, p, n) ==
    f = [k \in 0 .. n |->
           IF k = 0 THEN {<<p, << >>>>}
           ELSE {<<NextRead(r[1]), Append(r[2], ReadValue(r[1]))>> : r \in f[k - 1]}]

(* There is a chain of any length.                                         *)
LEMMA ChainExists ==
  ASSUME NEW p, NEW n \in Nat
  PROVE  \E f : IsChain(f, p, n)
  <1> DEFINE T == {k \in Nat : ~ \E f : IsChain(f, p, k)}
  <1> SUFFICES ASSUME T # {}
               PROVE  FALSE
    OBVIOUS
  <1>1. T \subseteq Nat
    OBVIOUS
  <1>2. PICK m \in T : \A k \in T : m <= k
    BY <1>1, Least
  <1>3. m # 0
    <2>1. IsChain([k \in 0 .. 0 |-> {<<p, << >>>>}], p, 0)
      BY DEF IsChain
    <2> QED BY <2>1
  <1>4. m \in Nat /\ m - 1 \in Nat /\ m - 1 \notin T
    BY <1>2, <1>3
  <1>5. PICK f : IsChain(f, p, m - 1)
    BY <1>4
  <1> DEFINE next(S) == {<<NextRead(r[1]), Append(r[2], ReadValue(r[1]))>> : r \in S}
             g == [k \in 0 .. m |-> IF k = m THEN next(f[m - 1]) ELSE f[k]]
  <1>6. \A k \in 0 .. m - 1 : f[k] = IF k = 0 THEN {<<p, << >>>>} ELSE next(f[k - 1])
    BY <1>4, <1>5 DEF IsChain
  <1> HIDE DEF next
  <1>7. \A k \in 0 .. m : g[k] = IF k = 0 THEN {<<p, << >>>>} ELSE next(g[k - 1])
    <2> SUFFICES ASSUME NEW k \in 0 .. m
                 PROVE  g[k] = IF k = 0 THEN {<<p, << >>>>} ELSE next(g[k - 1])
      OBVIOUS
    <2>1. CASE k = m
      BY <1>3, <1>4, <2>1
    <2>2. CASE k # m
      <3>1. k \in 0 .. m - 1 /\ (k # 0 => k - 1 \in 0 .. m /\ k - 1 # m)
        BY <1>4, <2>2
      <3>2. g[k] = f[k] /\ (k # 0 => g[k - 1] = f[k - 1])
        BY <2>2, <3>1
      <3>3. f[k] = IF k = 0 THEN {<<p, << >>>>} ELSE next(f[k - 1])
        BY <1>6, <3>1
      <3> QED BY <3>2, <3>3
    <2> QED BY <2>1, <2>2
  <1>8. g = [k \in 0 .. m |-> IF k = 0 THEN {<<p, << >>>>} ELSE next(g[k - 1])]
    BY <1>7
  <1>9. IsChain(g, p, m)
    BY <1>8 DEF IsChain, next
  <1> QED BY <1>2, <1>9

(* Eight reads give eight nibbles, and without a comment among them they   *)
(* end where the first pass goes.                                          *)
LEMMA ReadsFacts ==
  ASSUME TextOK, NEW p \in 1 .. Len(input) + 1, NEW r \in Reads(p, 8)
  PROVE  /\ r[1] \in p .. Len(input) + 1
         /\ r[2] \in [1 .. 8 -> -1 .. 15]
         /\ (\A q \in (p .. p + 7) \cap (1 .. Len(input)) : input[q] \notin Comment)
               => r[1] = Straight(p, 8)
  <1>1. Len(input) \in Nat
    BY LenProperties DEF TextOK
  <1> DEFINE f == CHOOSE g : IsChain(g, p, 8)
             Clean == \A q \in (p .. p + 7) \cap (1 .. Len(input)) : input[q] \notin Comment
             Good(e, k) == /\ e[1] \in p .. Len(input) + 1
                           /\ e[2] \in Seq(-1 .. 15) /\ Len(e[2]) = k
                           /\ Clean => e[1] = Straight(p, k)
  <1>2. IsChain(f, p, 8)
    BY ChainExists
  <1>3. Reads(p, 8) = f[8]
    BY DEF Reads, IsChain
  <1> HIDE DEF f
  <1>4. \A k \in 0 .. 8 : f[k] =
           IF k = 0 THEN {<<p, << >>>>}
           ELSE {<<NextRead(e[1]), Append(e[2], ReadValue(e[1]))>> : e \in f[k - 1]}
    BY <1>2 DEF IsChain
  <1>5. \A e \in f[0] : Good(e, 0)
    <2>1. f[0] = {<<p, << >>>>}
      BY <1>4
    <2>2. Good(<<p, << >>>>, 0)
      BY <1>1 DEF Straight
    <2> QED BY <2>1, <2>2
  <1>6. ASSUME NEW k \in 0 .. 7, \A e \in f[k] : Good(e, k)
        PROVE  \A e \in f[k + 1] : Good(e, k + 1)
    <2> SUFFICES ASSUME NEW e \in f[k + 1]
                 PROVE  Good(e, k + 1)
      OBVIOUS
    <2>1. k + 1 \in 0 .. 8 /\ k + 1 # 0 /\ (k + 1) - 1 = k
      OBVIOUS
    <2>2. PICK d \in f[k] : e = <<NextRead(d[1]), Append(d[2], ReadValue(d[1]))>>
      <3>1. f[k + 1] = {<<NextRead(d[1]), Append(d[2], ReadValue(d[1]))>> : d \in f[k]}
        BY <1>4, <2>1
      <3> QED BY <3>1
    <2>3. Good(d, k) /\ d[1] \in 1 .. Len(input) + 1
      BY <1>1, <1>6
    <2>4. /\ NextRead(d[1]) \in d[1] .. Len(input) + 1
          /\ ReadValue(d[1]) \in -1 .. 15
          /\ AtEnd(input, d[1]) => NextRead(d[1]) = d[1]
          /\ ~AtEnd(input, d[1]) /\ input[d[1]] \notin Comment => NextRead(d[1]) = d[1] + 1
      BY <2>3, NextReadFacts
    <2>5. e[2] \in Seq(-1 .. 15) /\ Len(e[2]) = k + 1
      BY <2>2, <2>3, <2>4, AppendProperties
    <2>6. e[1] \in p .. Len(input) + 1
      BY <1>1, <2>2, <2>3, <2>4
    <2>7. ASSUME Clean
          PROVE  e[1] = Straight(p, k + 1)
      <3>1. d[1] = Straight(p, k)
        BY <2>3, <2>7
      <3>2. ~AtEnd(input, d[1]) => input[d[1]] \notin Comment
        BY <1>1, <2>7, <3>1 DEF Straight, AtEnd
      <3> QED BY <1>1, <2>2, <2>4, <3>1, <3>2 DEF Straight, AtEnd
    <2> QED BY <2>5, <2>6, <2>7
  <1> HIDE DEF Good
  <1>7. \A e \in f[4] : Good(e, 4)
    BY <1>5, <1>6
  <1>8. \A e \in f[8] : Good(e, 8)
    BY <1>6, <1>7
  <1>9. Good(r, 8)
    BY <1>3, <1>8
  <1>10. r[2] \in [1 .. 8 -> -1 .. 15]
    BY <1>9, LenProperties DEF Good
  <1> QED BY <1>9, <1>10 DEF Good

-----------------------------------------------------------------------------
(* The inductive invariant *)

(* A turn of the main loop, as both passes take it: where it leaves the    *)
(* text, the instruction pointer and the toggle, when it was entered in t. *)
Turn(t) ==
    LET p == t[1]  i == t[2]  h == t[3]  c == input[p] IN
    IF c = ":" THEN <<DefinitionEnd(p + 1) + 1, i, h>>
    ELSE IF c \in ShiftOps \cup PointerOps THEN <<ReferenceEnd(p + 1) + 1, i + FpStep(c), h>>
    ELSE IF c = "." THEN <<Skip(input, p, 9), i, h>>
    ELSE IF c \in HexDigit THEN <<p + 1, i + (IF h THEN 1 ELSE 0), ~h>>
    ELSE <<AfterHex(c, p + 1), i, h>>

Now == <<pos, ip, half>>

LabelledAt(p, i) == \E k \in DOMAIN labels : labels[k].at = p /\ labels[k].target = i

(* The first pass was in t and has gone on from there.                     *)
Recorded(t) ==
    /\ t[1] <= Len(input) /\ Turn(t) \in seen
    /\ input[t[1]] = ":" => LabelledAt(t[1], t[2])

Types ==
    /\ TextOK
    /\ phase \in {"first", "second", "terminate", "returned", "runaway"}
    /\ pos \in 1 .. Len(input) + 1
    /\ ip \in Nat /\ fpIp \in Nat /\ depth \in Nat
    /\ half \in BOOLEAN /\ hold \in 0 .. 15
    /\ labels \in Seq(Label)
    /\ sr \subseteq [word : Mask \cup Word, shifted : 0 .. 3]
    /\ \E S : out \in Seq(S)
    /\ seen \subseteq (1 .. Len(input) + 1) \X Nat \X BOOLEAN
    /\ <<1, 0, FALSE>> \in seen

(* The first pass leaves a track: every point of it but the last leads to  *)
(* the next, and every definition on it is in the list.                    *)
FirstInv ==
    phase = "first" =>
        /\ depth = 0 /\ out = << >> /\ ip <= 4 * (pos - 1)
        /\ Now \in seen
        /\ \A t \in seen : t = Now \/ Recorded(t)

(* The second pass follows that track, whose end is where the first pass   *)
(* counted to fpIp.                                                        *)
SecondInv ==
    phase = "second" =>
        /\ depth = 0 /\ Len(out) = ip
        /\ \A t \in seen : Recorded(t) \/ (t[1] > Len(input) /\ t[2] = fpIp)
        /\ CleanDots => Now \in seen

LinkInv == Types /\ FirstInv /\ SecondInv /\ PassesMeet

(* The invariant holds of every text before the first turn.                *)
LEMMA InitLink == Init => LinkInv
  <1> SUFFICES ASSUME Init
               PROVE  LinkInv
    OBVIOUS
  <1>1. TextOK
    BY Hex2RvAssumption DEF Init, TextOK
  <1>2. Len(input) \in Nat
    BY <1>1, LenProperties DEF TextOK
  <1>3. labels \in Seq(Label) /\ out \in Seq({})
    BY EmptySeq DEF Init
  <1>4. seen \subseteq (1 .. Len(input) + 1) \X Nat \X BOOLEAN /\ <<1, 0, FALSE>> \in seen
    <2>1. seen = {<<1, 0, FALSE>>}
      BY DEF Init
    <2>2. 1 \in 1 .. Len(input) + 1 /\ 0 \in Nat /\ FALSE \in BOOLEAN
      BY <1>2
    <2>3. <<1, 0, FALSE>> \in (1 .. Len(input) + 1) \X Nat \X BOOLEAN
      BY <2>2, Zenon
    <2> QED BY <2>1, <2>3, Zenon
  <1>5. Types
    <2>1. pos \in 1 .. Len(input) + 1 /\ hold \in 0 .. 15 /\ ip \in Nat
      BY <1>2 DEF Init
    <2>2. sr \subseteq [word : Mask \cup Word, shifted : 0 .. 3]
      BY DEF Init
    <2>3. \E S : out \in Seq(S)
      BY <1>3
    <2> QED BY <1>1, <1>3, <1>4, <2>1, <2>2, <2>3 DEF Init, Types
  <1>6. FirstInv
    <2>1. Now = <<1, 0, FALSE>>
      BY Zenon DEF Init, Now
    <2>2. ip <= 4 * (pos - 1)
      BY DEF Init
    <2> QED BY <2>1, <2>2 DEF Init, FirstInv
  <1> QED BY <1>5, <1>6 DEF Init, LinkInv, SecondInv, PassesMeet

(* Nothing an operator reads from the text changes while the text stays.   *)
LEMMA SameText ==
  ASSUME input' = input
  PROVE  /\ TextOK' <=> TextOK
         /\ Label' = Label
         /\ CleanDots' <=> CleanDots
         /\ \A t : Turn(t)' = Turn(t)
  <1>1. /\ TextOK' <=> TextOK
        /\ Label' = Label
        /\ CleanDots' <=> CleanDots
    BY DEF TextOK, Label, CleanDots
  <1>2. \A p : DefinitionEnd(p)' = DefinitionEnd(p)
    BY DEF DefinitionEnd
  <1>3. \A p : NameEnd(p)' = NameEnd(p) /\ (HasBase(p)' <=> HasBase(p))
    BY DEF NameEnd, HasBase
  <1>4. \A p : ReferenceEnd(p)' = ReferenceEnd(p)
    BY <1>3 DEF ReferenceEnd
  <1>5. \A c, p : AfterHex(c, p)' = AfterHex(c, p)
    BY DEF AfterHex
  <1>6. \A t : Turn(t)' = Turn(t)
    BY <1>2, <1>4, <1>5 DEF Turn
  <1> QED BY <1>1, <1>6

(* A step that leaves the text, the labels and the first pass's track as   *)
(* they are, or adds to them, forgets no turn that was recorded.           *)
LEMMA StaysRecorded ==
  ASSUME input' = input, seen \subseteq seen',
         \A p, i : LabelledAt(p, i) => LabelledAt(p, i)'
  PROVE  \A t : Recorded(t) => Recorded(t)'
  BY SameText DEF Recorded

(* A turn of the first pass.                                               *)
LEMMA FirstTurnKeeps ==
  ASSUME LinkInv, FirstPass, UNCHANGED <<input, fpIp>>,
         NEW p \in pos + 1 .. Len(input) + 1, NEW i \in Nat, NEW h \in BOOLEAN,
         FpGoto(p, i, h), Turn(Now) = <<p, i, h>>, i <= 4 * (p - 1),
         labels' \in Seq(Label),
         \A q, a : LabelledAt(q, a) => LabelledAt(q, a)',
         \A q, a : Char = ":" /\ q = pos /\ a = ip => LabelledAt(q, a)'
  PROVE  LinkInv'
  <1>1. Len(input) \in Nat /\ Len(input)' = Len(input)
    BY LenProperties DEF LinkInv, Types, TextOK
  <1>2. phase = "first" /\ phase' = "first" /\ pos <= Len(input) /\ Now \in seen
    BY <1>1 DEF LinkInv, Types, FirstPass, More, AtEnd, FpGoto, FirstInv
  <1>3. Types'
    <2>1. TextOK' /\ labels' \in Seq(Label')
      BY SameText DEF LinkInv, Types
    <2>2. seen' \subseteq (1 .. Len(input) + 1) \X Nat \X BOOLEAN
      BY <1>1, SMTT(30) DEF FpGoto, LinkInv, Types
    <2>3. \E S : out' \in Seq(S)
      BY DEF FpGoto, LinkInv, Types
    <2> QED BY <1>1, <1>2, <2>1, <2>2, <2>3 DEF FpGoto, LinkInv, Types
  <1>4. \A t : Recorded(t) => Recorded(t)'
    BY StaysRecorded DEF FpGoto
  <1>5. ASSUME NEW t, t = Now
        PROVE  Recorded(t)'
    <2>1. t[1] = pos /\ t[2] = ip
      BY <1>5 DEF Now
    <2>2. Turn(t) \in seen' /\ Turn(t)' = Turn(t)
      BY <1>5, SameText DEF FpGoto
    <2>3. input'[t[1]] = ":" => LabelledAt(t[1], t[2])'
      BY <2>1 DEF Char
    <2> QED BY <1>1, <1>2, <2>1, <2>2, <2>3 DEF Recorded
  <1>6. \A t \in seen' : t = <<p, i, h>> \/ Recorded(t)'
    BY <1>2, <1>4, <1>5 DEF FpGoto, FirstInv, LinkInv
  <1>7. Now' = <<p, i, h>> /\ Now' \in seen'
    BY DEF FpGoto, Now
  <1>8. FirstInv'
    BY <1>2, <1>6, <1>7 DEF FpGoto, FirstInv, LinkInv
  <1> QED BY <1>2, <1>3, <1>8 DEF LinkInv, SecondInv, PassesMeet

(* A token loop that never ends changes nothing but the phase.             *)
LEMMA RunawayKeeps ==
  ASSUME LinkInv, Runaway, UNCHANGED <<input, fpIp, seen>>
  PROVE  LinkInv'
  <1>1. Types'
    <2>1. TextOK' /\ Label' = Label
      BY SameText DEF LinkInv, Types
    <2> QED BY <2>1 DEF LinkInv, Types, Runaway
  <1> QED BY <1>1 DEF Runaway, LinkInv, FirstInv, SecondInv, PassesMeet

(* A label is put in front of the list, with the address counted so far.   *)
LEMMA StoreLabelKeeps == ASSUME LinkInv, StoreLabel PROVE LinkInv'
  <1> DEFINE q == DefinitionEnd(pos + 1)
  <1>1. Len(input) \in Nat /\ TextOK /\ pos \in 1 .. Len(input) /\ phase = "first"
    BY LenProperties DEF LinkInv, Types, TextOK, StoreLabel, FirstPass, More, AtEnd
  <1>2. pos + 1 \in 1 .. Len(input) + 1 /\ q \in pos + 1 .. Len(input) + 1
    BY <1>1, TokenFacts
  <1>3. CASE AtEnd(input, q)
    BY <1>3, RunawayKeeps DEF StoreLabel
  <1>4. CASE ~AtEnd(input, q)
    <2> DEFINE new == [name |-> Name(pos + 1, q), target |-> ip, at |-> pos]
    <2>1. FpGoto(q + 1, ip, half) /\ labels' = <<new>> \o labels
      BY <1>4 DEF StoreLabel
    <2>2. Turn(Now) = <<q + 1, ip, half>>
      BY DEF StoreLabel, Turn, Now, Char
    <2>3. q + 1 \in pos + 1 .. Len(input) + 1
      BY <1>1, <1>2, <1>4 DEF AtEnd
    <2>4. ip \in Nat /\ half \in BOOLEAN /\ ip <= 4 * (pos - 1) /\ labels \in Seq(Label)
      BY <1>1 DEF LinkInv, Types, FirstInv
    <2>5. ip \in 0 .. 4 * Len(input) /\ ip <= 4 * (q + 1 - 1)
      BY <1>1, <1>2, <2>4
    <2>6. new \in Label
      BY <1>1, <1>2, <2>5, NameFacts DEF Label
    <2> HIDE DEF new, q
    <2>7. <<new>> \in Seq(Label) /\ Len(<<new>>) = 1 /\ <<new>>[1] = new
      BY <2>6
    <2>8. /\ labels' \in Seq(Label) /\ Len(labels') = 1 + Len(labels) /\ Len(labels) \in Nat
          /\ \A k \in 1 .. 1 + Len(labels) : labels'[k] = IF k <= 1 THEN new ELSE labels[k - 1]
      BY <2>1, <2>4, <2>7, ConcatProperties, LenProperties
    <2>9. DOMAIN labels' = 1 .. 1 + Len(labels) /\ DOMAIN labels = 1 .. Len(labels)
      BY <2>4, <2>8, LenProperties
    <2>10. \A r, a : LabelledAt(r, a) => LabelledAt(r, a)'
      <3> SUFFICES ASSUME NEW r, NEW a, LabelledAt(r, a)
                   PROVE  LabelledAt(r, a)'
        OBVIOUS
      <3>1. PICK k \in DOMAIN labels : labels[k].at = r /\ labels[k].target = a
        BY DEF LabelledAt
      <3>2. k + 1 \in DOMAIN labels' /\ labels'[k + 1] = labels[k]
        BY <2>8, <2>9, <3>1
      <3> QED BY <3>1, <3>2 DEF LabelledAt
    <2>11. \A r, a : Char = ":" /\ r = pos /\ a = ip => LabelledAt(r, a)'
      <3>1. 1 \in DOMAIN labels' /\ labels'[1] = new
        BY <2>8, <2>9
      <3>2. new.at = pos /\ new.target = ip
        BY DEF new
      <3> QED BY <3>1, <3>2 DEF LabelledAt
    <2>12. FirstPass /\ UNCHANGED <<input, fpIp>>
      BY DEF StoreLabel
    <2> DEFINE p == q + 1
    <2>13. p \in pos + 1 .. Len(input) + 1 /\ ip <= 4 * (p - 1)
      BY <1>1, <1>2, <2>3, <2>5
    <2>14. FpGoto(p, ip, half) /\ Turn(Now) = <<p, ip, half>>
      BY <2>1, <2>2, Zenon
    <2> HIDE DEF p
    <2> QED BY <2>4, <2>8, <2>10, <2>11, <2>12, <2>13, <2>14, FirstTurnKeeps
  <1> QED BY <1>3, <1>4

(* A turn of the first pass that defines nothing.                          *)
LEMMA FirstTurnPlain ==
  ASSUME LinkInv, FirstPass, Char # ":", UNCHANGED <<input, labels, fpIp>>,
         NEW p \in pos + 1 .. Len(input) + 1, NEW i \in Nat, NEW h \in BOOLEAN,
         FpGoto(p, i, h), Turn(Now) = <<p, i, h>>, i <= ip + 4 * (p - pos)
  PROVE  LinkInv'
  <1>1. Len(input) \in Nat /\ pos \in Nat /\ ip \in Nat /\ ip <= 4 * (pos - 1)
    BY LenProperties DEF LinkInv, Types, TextOK, FirstPass, FirstInv
  <1>2. i <= 4 * (p - 1)
    BY <1>1
  <1>3. labels' \in Seq(Label)
    BY DEF LinkInv, Types
  <1>4. \A q, a : LabelledAt(q, a) => LabelledAt(q, a)'
    BY DEF LabelledAt
  <1> QED BY <1>2, <1>3, <1>4, FirstTurnKeeps

(* A reference, counted but not resolved.                                  *)
LEMMA FpReferenceKeeps == ASSUME LinkInv, FpReference PROVE LinkInv'
  <1> DEFINE q == ReferenceEnd(pos + 1)
  <1>1. Len(input) \in Nat /\ TextOK /\ pos \in 1 .. Len(input)
    BY LenProperties DEF LinkInv, Types, TextOK, FpReference, FirstPass, More, AtEnd
  <1>2. pos + 1 \in 1 .. Len(input) + 1 /\ q \in pos + 1 .. Len(input) + 1
    BY <1>1, TokenFacts
  <1>3. CASE AtEnd(input, q)
    BY <1>3, RunawayKeeps DEF FpReference
  <1>4. CASE ~AtEnd(input, q)
    <2>1. FpGoto(q + 1, ip + FpStep(Char), half) /\ UNCHANGED <<input, labels, fpIp>> /\ FirstPass
      BY <1>4 DEF FpReference
    <2>2. Char # ":" /\ Turn(Now) = <<q + 1, ip + FpStep(Char), half>>
      BY DEF FpReference, Turn, Now, Char, ShiftOps, PointerOps
    <2>3. FpStep(Char) \in 0 .. 4 /\ ip \in Nat /\ half \in BOOLEAN
      BY DEF FpStep, LinkInv, Types
    <2>4. q + 1 \in pos + 1 .. Len(input) + 1
      BY <1>1, <1>2, <1>4 DEF AtEnd
    <2> HIDE DEF q
    <2> DEFINE p == q + 1
               i == ip + FpStep(Char)
    <2>5. /\ p \in pos + 1 .. Len(input) + 1 /\ i \in Nat
          /\ FpGoto(p, i, half) /\ Turn(Now) = <<p, i, half>>
      BY <2>1, <2>2, <2>3, <2>4
    <2>6. i <= ip + 4 * (p - pos)
      <3>1. p - pos \in Nat /\ p - pos >= 1
        BY <1>1, <2>5
      <3>2. i <= ip + 4
        BY <2>3
      <3> HIDE DEF p, i
      <3> QED BY <1>1, <2>3, <2>5, <3>1, <3>2
    <2> HIDE DEF p, i
    <2> QED BY <2>1, <2>2, <2>3, <2>5, <2>6, FirstTurnPlain
  <1> QED BY <1>3, <1>4

(* The eight characters behind a dot.                                      *)
LEMMA FpDotKeeps == ASSUME LinkInv, FpDot PROVE LinkInv'
  <1>1. Len(input) \in Nat /\ pos \in 1 .. Len(input) /\ ip \in Nat /\ half \in BOOLEAN
    BY LenProperties DEF LinkInv, Types, TextOK, FpDot, FirstPass, More, AtEnd
  <1>2. Skip(input, pos, 9) \in pos + 1 .. Len(input) + 1
    BY <1>1 DEF Skip
  <1>3. Char # ":" /\ Turn(Now) = <<Skip(input, pos, 9), ip, half>>
    BY DEF FpDot, Turn, Now, Char, ShiftOps, PointerOps
  <1>4. ip <= ip + 4 * (Skip(input, pos, 9) - pos)
    BY <1>1, <1>2
  <1> QED BY <1>1, <1>2, <1>3, <1>4, FirstTurnPlain DEF FpDot

(* A nibble, a comment, or a character that counts for nothing.            *)
LEMMA FpHexKeeps == ASSUME LinkInv, FpHex PROVE LinkInv'
  <1>1. Len(input) \in Nat /\ pos \in 1 .. Len(input) /\ ip \in Nat /\ half \in BOOLEAN
    BY LenProperties DEF LinkInv, Types, TextOK, FpHex, FirstPass, More, AtEnd
  <1>2. FirstPass /\ UNCHANGED <<input, labels, fpIp>> /\ HexChar(Char)
    BY DEF FpHex
  <1>3. Char # ":" /\ Char # "." /\ Char \notin ShiftOps \cup PointerOps
    BY <1>2 DEF HexChar
  <1>4. CASE Char \in HexDigit
    <2>1. FpGoto(pos + 1, FpCount, ~half)
      BY <1>4 DEF FpHex
    <2>2. Turn(Now) = <<pos + 1, FpCount, ~half>>
      BY <1>3, <1>4, Zenon DEF Turn, Now, Char, FpCount
    <2> DEFINE p == pos + 1
    <2>3. FpCount \in Nat /\ FpCount <= ip + 4 * (p - pos) /\ p \in pos + 1 .. Len(input) + 1
      BY <1>1 DEF FpCount
    <2>4. FpGoto(p, FpCount, ~half) /\ Turn(Now) = <<p, FpCount, ~half>>
      BY <2>1, <2>2, Zenon
    <2>5. (~half) \in BOOLEAN
      BY <1>1
    <2> HIDE DEF p
    <2> QED BY <1>2, <1>3, <2>3, <2>4, <2>5, FirstTurnPlain
  <1>5. CASE Char \notin HexDigit
    <2> DEFINE p == AfterHex(Char, pos + 1)
    <2>1. FpGoto(p, ip, half)
      BY <1>5 DEF FpHex
    <2>2. Turn(Now) = <<p, ip, half>>
      BY <1>3, <1>5, Zenon DEF Turn, Now, Char
    <2>3. p \in pos + 1 .. Len(input) + 1
      BY <1>1, AfterCommentFacts DEF AfterHex
    <2> HIDE DEF p
    <2>4. ip <= ip + 4 * (p - pos)
      BY <1>1, <2>3
    <2> QED BY <1>1, <1>2, <1>3, <2>1, <2>2, <2>3, <2>4, FirstTurnPlain
  <1> QED BY <1>4, <1>5

(* The end of the first pass: the track ends behind the text, and all of   *)
(* it is recorded.                                                         *)
LEMMA FpDoneKeeps == ASSUME LinkInv, FpDone PROVE LinkInv'
  <1>1. Len(input) \in Nat /\ Len(input)' = Len(input) /\ pos > Len(input)
    BY LenProperties DEF LinkInv, Types, TextOK, FpDone, More, AtEnd
  <1>2. Types'
    <2>1. TextOK' /\ Label' = Label
      BY SameText DEF LinkInv, Types, FpDone
    <2>2. pos' \in 1 .. Len(input) + 1 /\ hold' \in 0 .. 15
      BY <1>1 DEF FpDone
    <2>3. sr' \subseteq [word : Mask \cup Word, shifted : 0 .. 3]
      BY DEF FpDone
    <2> QED BY <1>1, <2>1, <2>2, <2>3 DEF LinkInv, Types, FpDone
  <1>3. \A t : Recorded(t) => Recorded(t)'
    BY StaysRecorded DEF FpDone, LabelledAt
  <1>4. \A t \in seen' : Recorded(t)' \/ (t[1] > Len(input)' /\ t[2] = fpIp')
    <2> SUFFICES ASSUME NEW t \in seen, ~Recorded(t)
                 PROVE  t[1] > Len(input) /\ t[2] = ip
      BY <1>1, <1>3 DEF FpDone
    <2>1. t = Now
      BY DEF FpDone, LinkInv, FirstInv
    <2> QED BY <1>1, <2>1 DEF Now
  <1>5. depth' = 0 /\ Len(out') = ip'
    BY DEF FpDone, LinkInv, FirstInv
  <1>6. Now' \in seen'
    <2>1. Now' = <<1, 0, FALSE>>
      BY Zenon DEF FpDone, Now
    <2> QED BY <2>1 DEF FpDone, LinkInv, Types
  <1>7. SecondInv'
    BY <1>4, <1>5, <1>6 DEF SecondInv
  <1> QED BY <1>2, <1>7 DEF LinkInv, FpDone, FirstInv, PassesMeet

-----------------------------------------------------------------------------
(* The second pass *)

(* The position is in the text or behind it.                               *)
LEMMA PosFacts ==
  ASSUME LinkInv
  PROVE  Len(input) \in Nat /\ pos \in 1 .. Len(input) + 1
  BY LenProperties DEF LinkInv, Types, TextOK

(* A turn of the second pass that goes where the first pass went.          *)
LEMMA SecondTurnKeeps ==
  ASSUME LinkInv, SecondPass,
         UNCHANGED <<input, phase, labels, fpIp, depth, seen>>,
         pos' \in 1 .. Len(input) + 1, ip' \in Nat, half' \in BOOLEAN, hold' \in 0 .. 15,
         sr' \subseteq [word : Mask \cup Word, shifted : 0 .. 3],
         NEW S, out' \in Seq(S), Len(out') = ip',
         CleanDots => Now' = Turn(Now)
  PROVE  LinkInv'
  <1>1. Len(input) \in Nat /\ Len(input)' = Len(input) /\ phase = "second" /\ pos <= Len(input)
    BY LenProperties DEF LinkInv, Types, TextOK, SecondPass, More, AtEnd
  <1>2. Types'
    <2>1. TextOK' /\ Label' = Label
      BY SameText DEF LinkInv, Types
    <2>2. \E T : out' \in Seq(T)
      OBVIOUS
    <2> QED BY <1>1, <2>1, <2>2 DEF LinkInv, Types
  <1>3. \A t : Recorded(t) => Recorded(t)'
    BY StaysRecorded DEF LabelledAt
  <1>4. ASSUME CleanDots
        PROVE  Now' \in seen'
    <2>1. Now \in seen /\ Now[1] = pos
      BY <1>1, <1>4 DEF LinkInv, SecondInv, Now
    <2>2. \A t \in seen : Recorded(t) \/ t[1] > Len(input)
      BY <1>1 DEF LinkInv, SecondInv
    <2>3. ~ (Now[1] > Len(input))
      BY <1>1, <2>1, PosFacts
    <2>4. Recorded(Now)
      BY <2>1, <2>2, <2>3, Zenon
    <2>5. Turn(Now) \in seen
      BY <2>4 DEF Recorded
    <2> QED BY <1>4, <2>5
  <1>5. SecondInv'
    <2>1. depth' = 0 /\ Len(out') = ip'
      BY <1>1 DEF LinkInv, SecondInv
    <2>2. \A t \in seen' : Recorded(t)' \/ (t[1] > Len(input)' /\ t[2] = fpIp')
      BY <1>1, <1>3 DEF LinkInv, SecondInv
    <2> QED BY <1>4, <2>1, <2>2, SameText DEF SecondInv
  <1> QED BY <1>1, <1>2, <1>5 DEF LinkInv, FirstInv, PassesMeet

(* Where the second pass is, and what it holds.                            *)
LEMMA SecondFacts ==
  ASSUME LinkInv, SecondPass
  PROVE  /\ Len(input) \in Nat /\ TextOK /\ pos \in 1 .. Len(input)
         /\ pos + 1 \in 1 .. Len(input) + 1
         /\ ip \in Nat /\ half \in BOOLEAN /\ hold \in 0 .. 15
         /\ sr \subseteq [word : Mask \cup Word, shifted : 0 .. 3]
         /\ labels \in Seq(Label)
         /\ \E S : out \in Seq(S)
         /\ Len(out) = ip
  BY LenProperties DEF LinkInv, Types, TextOK, SecondInv, SecondPass, More, AtEnd

(* A definition is passed over.                                            *)
LEMMA SpDropKeeps == ASSUME LinkInv, SpDrop PROVE LinkInv'
  <1> DEFINE q == DefinitionEnd(pos + 1)
  <1>1. SecondPass
    BY DEF SpDrop
  <1>2. pos + 1 \in 1 .. Len(input) + 1 /\ q \in pos + 1 .. Len(input) + 1
    BY <1>1, SecondFacts, TokenFacts
  <1>3. CASE AtEnd(input, q)
    BY <1>3, RunawayKeeps DEF SpDrop
  <1>4. CASE ~AtEnd(input, q)
    <2>1. pos' = q + 1 /\ UNCHANGED <<ip, half>>
      BY <1>4 DEF SpDrop
    <2>2. Now' = Turn(Now)
      BY <2>1 DEF SpDrop, Turn, Now, Char
    <2>3. pos' \in 1 .. Len(input) + 1
      BY <1>1, <1>2, <1>4, <2>1, SecondFacts DEF AtEnd
    <2>4. UNCHANGED <<input, phase, labels, fpIp, depth, seen, hold, sr, out, ip, half>>
      BY <1>4 DEF SpDrop
    <2>5. PICK S : out \in Seq(S)
      BY <1>1, SecondFacts
    <2> HIDE DEF q
    <2> QED BY <1>1, <2>2, <2>3, <2>4, <2>5, SecondFacts, SecondTurnKeeps
  <1> QED BY <1>3, <1>4

(* A reference that never ends.                                            *)
LEMMA SpUnterminatedKeeps == ASSUME LinkInv, SpUnterminated PROVE LinkInv'
  BY RunawayKeeps DEF SpUnterminated

(* A reference whose name, or base, is defined nowhere.                    *)
LEMMA SpUnresolvedKeeps == ASSUME LinkInv, SpUnresolved PROVE LinkInv'
  <1>1. phase' = "terminate" /\ depth' \in {32, 48}
        /\ UNCHANGED <<input, pos, ip, half, hold, labels, sr, out, fpIp, seen>>
    BY DEF SpUnresolved, Fail
  <1>2. Types'
    <2>1. TextOK' /\ Label' = Label
      BY <1>1, SameText DEF LinkInv, Types
    <2> QED BY <1>1, <2>1 DEF LinkInv, Types
  <1> QED BY <1>1, <1>2 DEF LinkInv, FirstInv, SecondInv, PassesMeet

(* Where a reference ends that both passes could read.                     *)
LEMMA RefFacts ==
  ASSUME LinkInv, SpReference, NameEnds, RefEnds
  PROVE  /\ ReferenceEnd(pos + 1) + 1 \in 1 .. Len(input) + 1
         /\ Turn(Now) = <<ReferenceEnd(pos + 1) + 1, ip + FpStep(Char), half>>
  <1>1. SecondPass
    BY DEF SpReference
  <1>2. ReferenceEnd(pos + 1) \in pos + 1 .. Len(input) + 1
    BY <1>1, SecondFacts, TokenFacts
  <1>3. ReferenceEnd(pos + 1) + 1 \in 1 .. Len(input) + 1
    BY <1>1, <1>2, SecondFacts DEF RefEnds, AtEnd
  <1>4. Turn(Now) = <<ReferenceEnd(pos + 1) + 1, ip + FpStep(Char), half>>
    BY DEF SpReference, Turn, Now, Char, ShiftOps, PointerOps
  <1> QED BY <1>3, <1>4

(* The four bytes of a pointer.                                            *)
LEMMA PointerBytesFacts ==
  ASSUME NEW value
  PROVE  \E T : PointerBytes(value) \in Seq(T) /\ Len(PointerBytes(value)) = 4
  <1> DEFINE T == {[pointer |-> value, byte |-> k] : k \in 1 .. 4}
  <1>1. PointerBytes(value) \in [1 .. 4 -> T]
    BY DEF PointerBytes
  <1>2. PointerBytes(value) \in Seq(T)
    BY <1>1, SeqDef
  <1>3. DOMAIN PointerBytes(value) = 1 .. 4
    BY DEF PointerBytes
  <1>4. Len(PointerBytes(value)) = 4
    <2> DEFINE n == Len(PointerBytes(value))
    <2>1. n \in Nat /\ 1 .. n = 1 .. 4
      BY <1>2, <1>3, LenProperties
    <2> HIDE DEF n
    <2>2. 4 \in 1 .. n /\ (n >= 1 => n \in 1 .. 4)
      BY <2>1
    <2>3. n = 4
      BY <2>1, <2>2
    <2> QED BY <2>3 DEF n
  <1> HIDE DEF T
  <1> QED BY <1>2, <1>4

(* A pointer is written and counted.                                       *)
LEMMA SpPointerKeeps == ASSUME LinkInv, SpPointer PROVE LinkInv'
  <1>1. SecondPass /\ SpReference /\ NameEnds /\ RefEnds /\ Char \in PointerOps
    BY DEF SpPointer, SpReference
  <1>2. PICK value : out' = out \o PointerBytes(value)
    BY DEF SpPointer
  <1>3. PICK S : out \in Seq(S)
    BY <1>1, SecondFacts
  <1>4. PICK T : PointerBytes(value) \in Seq(T) /\ Len(PointerBytes(value)) = 4
    BY PointerBytesFacts
  <1>5. out \in Seq(S \cup T) /\ PointerBytes(value) \in Seq(S \cup T)
    BY <1>3, <1>4, SeqMonotonic
  <1>6. out' \in Seq(S \cup T) /\ Len(out') = ip + 4
    <2>1. Len(out) = ip
      BY <1>1, SecondFacts
    <2> DEFINE more == PointerBytes(value)
               U == S \cup T
    <2>2. out \in Seq(U) /\ more \in Seq(U) /\ Len(more) = 4 /\ out' = out \o more
      BY <1>2, <1>4, <1>5
    <2> HIDE DEF more, U
    <2>3. out' \in Seq(U) /\ Len(out') = Len(out) + Len(more)
      BY <2>2, ConcatProperties
    <2> QED BY <2>1, <2>2, <2>3 DEF U
  <1>7. ip' = ip + 4 /\ FpStep(Char) = 4
    BY <1>1 DEF SpPointer, Here, FpStep
  <1>8. UNCHANGED <<input, phase, half, hold, labels, sr, fpIp, depth, seen>>
    BY DEF SpPointer
  <1>9. pos' \in 1 .. Len(input) + 1 /\ Now' = Turn(Now)
    <2>1. pos' = ReferenceEnd(pos + 1) + 1
      BY DEF SpPointer
    <2> QED BY <1>1, <1>7, <1>8, <2>1, RefFacts DEF Now
  <1>10. ip' \in Nat
    BY <1>1, <1>7, SecondFacts
  <1> QED BY <1>1, <1>6, <1>7, <1>8, <1>9, <1>10, SecondFacts, SecondTurnKeeps

(* The register holds words of the two kinds, each shifted out in part.    *)
LEMMA XorFacts ==
  ASSUME sr \subseteq [word : Mask \cup Word, shifted : 0 .. 3], NEW w \in Mask \cup Word
  PROVE  Xor(w) \subseteq [word : Mask \cup Word, shifted : 0 .. 3]
  <1> DEFINE e == [word |-> w, shifted |-> 0]
             Both == Mask \cup Word
  <1> HIDE DEF Both
  <1>1. e \in [word : Both, shifted : 0 .. 3]
    BY DEF Both
  <1> QED BY <1>1 DEF Xor, Both

(* An instruction field goes into the shift register, and counts nothing.  *)
LEMMA SpEncodeKeeps == ASSUME LinkInv, SpEncode PROVE LinkInv'
  <1>1. SecondPass /\ SpReference /\ NameEnds /\ RefEnds /\ Char \in ShiftOps /\ Resolved(RefName)
    BY DEF SpEncode, SpReference
  <1>2. GetTarget(RefName) - Here \in Int
    BY <1>1, SecondFacts, GetTargetFacts DEF Here
  <1>3. Encode(Char, GetTarget(RefName) - Here) \in Mask \cup Word
    BY <1>1, <1>2, EncodeFacts
  <1>4. sr' \subseteq [word : Mask \cup Word, shifted : 0 .. 3]
    BY <1>1, <1>3, SecondFacts, XorFacts DEF SpEncode
  <1>5. FpStep(Char) = 0
    BY <1>1 DEF FpStep, ShiftOps, PointerOps
  <1>6. UNCHANGED <<input, phase, ip, half, hold, labels, out, fpIp, depth, seen>>
    BY DEF SpEncode
  <1>7. pos' \in 1 .. Len(input) + 1 /\ Now' = Turn(Now)
    <2>1. pos' = ReferenceEnd(pos + 1) + 1
      BY DEF SpEncode
    <2>2. ip + FpStep(Char) = ip
      BY <1>1, <1>5, SecondFacts
    <2> QED BY <1>1, <1>6, <2>1, <2>2, RefFacts DEF Now
  <1>8. PICK S : out \in Seq(S)
    BY <1>1, SecondFacts
  <1> QED BY <1>1, <1>4, <1>6, <1>7, <1>8, SecondFacts, SecondTurnKeeps

(* The eight nibbles of a dot, read over the characters the first pass     *)
(* skips.                                                                  *)
LEMMA SpDotKeeps == ASSUME LinkInv, SpDot PROVE LinkInv'
  <1>1. SecondPass /\ Char = "."
    BY DEF SpDot
  <1>2. UNCHANGED <<input, phase, ip, half, hold, labels, out, fpIp, depth, seen>>
    BY DEF SpDot
  <1>3. PICK r \in Reads(pos + 1, 8) :
           pos' = r[1] /\ sr' = Xor([op |-> ".", field |-> r[2]])
    BY DEF SpDot
  <1>4. /\ Len(input) \in Nat /\ TextOK /\ pos \in 1 .. Len(input)
        /\ pos + 1 \in 1 .. Len(input) + 1
    BY <1>1, SecondFacts
  <1> DEFINE p == pos + 1
             Clean == \A q \in (p .. p + 7) \cap (1 .. Len(input)) : input[q] \notin Comment
  <1>5. p \in 1 .. Len(input) + 1 /\ r \in Reads(p, 8)
    BY <1>4
  <1>6. CleanDots => Clean
    <2> SUFFICES ASSUME CleanDots, NEW q \in p .. p + 7, q \in 1 .. Len(input)
                 PROVE  input[q] \notin Comment
      OBVIOUS
    <2>1. DOMAIN input = 1 .. Len(input)
      BY LenProperties DEF TextOK, LinkInv, Types
    <2>2. pos \in DOMAIN input /\ input[pos] = "."
      BY <1>1, <1>4, <2>1 DEF Char
    <2>3. q \in (pos + 1 .. pos + 8) \cap DOMAIN input
      BY <1>4, <2>1
    <2> QED BY <2>2, <2>3 DEF CleanDots
  <1> HIDE DEF p
  <1>7. /\ r[1] \in p .. Len(input) + 1
        /\ r[2] \in [1 .. 8 -> -1 .. 15]
        /\ Clean => r[1] = Straight(p, 8)
    BY <1>4, <1>5, ReadsFacts
  <1>8. [op |-> ".", field |-> r[2]] \in Mask \cup Word
    <2>1. [op |-> ".", field |-> r[2]] \in Mask
      BY <1>7 DEF Mask
    <2> QED BY <2>1
  <1>9. sr' \subseteq [word : Mask \cup Word, shifted : 0 .. 3]
    BY <1>1, <1>3, <1>8, SecondFacts, XorFacts
  <1>10. pos' \in 1 .. Len(input) + 1
    BY <1>3, <1>4, <1>7 DEF p
  <1>11. ASSUME CleanDots
         PROVE  Now' = Turn(Now)
    <2>1. pos' = Straight(p, 8)
      BY <1>3, <1>6, <1>7, <1>11
    <2>2. Straight(p, 8) = Skip(input, pos, 9)
      BY <1>4 DEF Straight, Skip, p
    <2>3. Turn(Now) = <<Skip(input, pos, 9), ip, half>>
      BY <1>1 DEF Turn, Now, Char, ShiftOps, PointerOps
    <2> QED BY <1>2, <2>1, <2>2, <2>3 DEF Now
  <1>12. PICK S : out \in Seq(S)
    BY <1>1, SecondFacts
  <1> QED BY <1>1, <1>2, <1>9, <1>10, <1>11, <1>12, SecondFacts, SecondTurnKeeps

(* A word leaves the register with the last of its bytes.                  *)
LEMMA ShiftFacts ==
  ASSUME sr \subseteq [word : Mask \cup Word, shifted : 0 .. 3]
  PROVE  Shift \subseteq [word : Mask \cup Word, shifted : 0 .. 3]
  <1> DEFINE Both == Mask \cup Word
  <1> HIDE DEF Both
  <1>1. sr \subseteq [word : Both, shifted : 0 .. 3]
    BY DEF Both
  <1>2. ASSUME NEW e \in sr, e.shifted < 3
        PROVE  [e EXCEPT !.shifted = @ + 1] \in [word : Both, shifted : 0 .. 3]
    BY <1>1, <1>2
  <1>3. Shift \subseteq [word : Both, shifted : 0 .. 3]
    BY <1>2 DEF Shift
  <1> QED BY <1>3 DEF Both

(* A pair of nibbles becomes a byte, and is counted, with the second.      *)
LEMMA SpHexKeeps == ASSUME LinkInv, SpHex PROVE LinkInv'
  <1>1. SecondPass /\ HexChar(Char) /\ UNCHANGED <<input, phase, labels, fpIp, depth, seen>>
    BY DEF SpHex
  <1>2. /\ Len(input) \in Nat /\ pos \in 1 .. Len(input) /\ pos + 1 \in 1 .. Len(input) + 1
        /\ ip \in Nat /\ half \in BOOLEAN /\ hold \in 0 .. 15
        /\ sr \subseteq [word : Mask \cup Word, shifted : 0 .. 3]
        /\ Len(out) = ip
    BY <1>1, SecondFacts
  <1>3. PICK S : out \in Seq(S)
    BY <1>1, SecondFacts
  <1>4. Char # ":" /\ Char # "." /\ Char \notin ShiftOps \cup PointerOps
    BY <1>1 DEF HexChar
  <1>5. pos' = AfterHex(Char, pos + 1) /\ pos' \in 1 .. Len(input) + 1
    <2>1. pos' = AfterHex(Char, pos + 1)
      BY DEF SpHex
    <2>2. AfterHex(Char, pos + 1) \in 1 .. Len(input) + 1
      BY <1>2, AfterCommentFacts DEF AfterHex
    <2> QED BY <2>1, <2>2
  <1>6. CASE Char \notin HexDigit
    <2>1. UNCHANGED <<ip, half, hold, sr, out>>
      BY <1>6 DEF SpHex
    <2>2. Turn(Now) = <<AfterHex(Char, pos + 1), ip, half>>
      BY <1>4, <1>6, Zenon DEF Turn, Now, Char
    <2>3. Now' = Turn(Now)
      BY <1>5, <2>1, <2>2, Zenon DEF Now
    <2> QED BY <1>1, <1>2, <1>3, <1>5, <2>1, <2>3, SecondTurnKeeps
  <1>7. CASE Char \in HexDigit
    <2>1. pos' = pos + 1 /\ Nibble(Char) \in 0 .. 15
      BY <1>5, <1>7, DigitFacts DEF AfterHex
    <2>2. Turn(Now) = <<pos + 1, ip + (IF half THEN 1 ELSE 0), ~half>>
      BY <1>4, <1>7, Zenon DEF Turn, Now, Char
    <2>3. CASE ~half
      <3>1. half' = TRUE /\ hold' = Nibble(Char) /\ UNCHANGED <<ip, sr, out>>
        BY <1>7, <2>3 DEF SpHex
      <3>2. ip' = ip + (IF half THEN 1 ELSE 0)
        BY <1>2, <2>3, <3>1
      <3>3. half' = (~half)
        BY <2>3, <3>1
      <3>4. Now' = Turn(Now)
        BY <2>1, <2>2, <3>2, <3>3, Zenon DEF Now
      <3>5. ip' \in Nat /\ half' \in BOOLEAN /\ hold' \in 0 .. 15
        BY <1>2, <2>1, <3>1
      <3> QED BY <1>1, <1>2, <1>3, <1>5, <3>1, <3>4, <3>5, SecondTurnKeeps
    <2>4. CASE half
      <3> DEFINE byte == [value |-> hold * 16 + Nibble(Char), xor |-> LowByte]
                 U == S \cup {byte}
      <3>1. out' = Append(out, byte) /\ sr' = Shift /\ half' = FALSE /\ ip' = ip + 1 /\ hold' = hold
        BY <1>7, <2>4 DEF SpHex
      <3> HIDE DEF byte
      <3>2. out \in Seq(U) /\ byte \in U
        BY <1>3, SeqMonotonic
      <3> HIDE DEF U
      <3>3. out' \in Seq(U) /\ Len(out') = Len(out) + 1
        BY <3>1, <3>2, AppendProperties
      <3>4. ip' \in Nat /\ Len(out') = ip'
        BY <1>2, <3>1, <3>3
      <3>5. sr' \subseteq [word : Mask \cup Word, shifted : 0 .. 3]
        BY <1>2, <3>1, ShiftFacts
      <3>6. ip' = ip + (IF half THEN 1 ELSE 0)
        BY <2>4, <3>1
      <3>7. half' = (~half)
        BY <2>4, <3>1
      <3>8. Now' = Turn(Now)
        BY <2>1, <2>2, <3>6, <3>7, Zenon DEF Now
      <3>9. half' \in BOOLEAN /\ hold' \in 0 .. 15
        BY <1>2, <3>1
      <3> QED BY <1>1, <1>5, <3>3, <3>4, <3>5, <3>8, <3>9, SecondTurnKeeps
    <2> QED BY <1>2, <2>3, <2>4
  <1> QED BY <1>6, <1>7

(* The end of the second pass: it stands at the end of the track, where    *)
(* the first pass counted to fpIp.                                         *)
LEMMA SpDoneKeeps == ASSUME LinkInv, SpDone PROVE LinkInv'
  <1>1. /\ phase = "second" /\ phase' = "terminate"
        /\ UNCHANGED <<input, pos, ip, half, hold, labels, sr, out, fpIp, depth, seen>>
    BY DEF SpDone
  <1>2. Types'
    <2>1. TextOK' /\ Label' = Label
      BY <1>1, SameText DEF LinkInv, Types
    <2> QED BY <1>1, <2>1 DEF LinkInv, Types
  <1>3. ASSUME CleanDots
        PROVE  ip = fpIp
    <2>1. pos > Len(input)
      BY PosFacts DEF SpDone, More, AtEnd
    <2>2. Now \in seen /\ Now[1] = pos /\ Now[2] = ip
      BY <1>1, <1>3 DEF LinkInv, SecondInv, Now
    <2>3. Recorded(Now) \/ Now[2] = fpIp
      BY <1>1, <2>2 DEF LinkInv, SecondInv
    <2>4. ~Recorded(Now)
      BY <2>1, <2>2, PosFacts DEF Recorded
    <2> QED BY <2>2, <2>3, <2>4
  <1>4. CleanDots' <=> CleanDots
    BY <1>1, SameText
  <1>5. PassesMeet'
    BY <1>1, <1>3, <1>4 DEF PassesMeet
  <1> QED BY <1>1, <1>2, <1>5 DEF LinkInv, FirstInv, SecondInv

(* Returning changes nothing but the phase.                                *)
LEMMA TerminateKeeps == ASSUME LinkInv, Terminate PROVE LinkInv'
  <1>1. /\ phase = "terminate" /\ phase' = "returned"
        /\ UNCHANGED <<input, pos, ip, half, hold, labels, sr, out, fpIp, depth, seen>>
    BY DEF Terminate
  <1>2. TextOK' /\ Label' = Label /\ (CleanDots' <=> CleanDots)
    BY <1>1, SameText DEF LinkInv, Types
  <1>3. Types'
    BY <1>1, <1>2 DEF LinkInv, Types
  <1>4. PassesMeet'
    BY <1>1, <1>2 DEF LinkInv, PassesMeet
  <1> QED BY <1>1, <1>3, <1>4 DEF LinkInv, FirstInv, SecondInv

-----------------------------------------------------------------------------
(* Theorems *)

(* Every step keeps the invariant.                                         *)
LEMMA StepLink == LinkInv /\ [Next]_vars => LinkInv'
  <1> SUFFICES ASSUME LinkInv, [Next]_vars
               PROVE  LinkInv'
    OBVIOUS
  <1>1. CASE StoreLabel
    BY <1>1, StoreLabelKeeps
  <1>2. CASE FpReference
    BY <1>2, FpReferenceKeeps
  <1>3. CASE FpDot
    BY <1>3, FpDotKeeps
  <1>4. CASE FpHex
    BY <1>4, FpHexKeeps
  <1>5. CASE FpDone
    BY <1>5, FpDoneKeeps
  <1>6. CASE SpDrop
    BY <1>6, SpDropKeeps
  <1>7. CASE SpUnterminated
    BY <1>7, SpUnterminatedKeeps
  <1>8. CASE SpUnresolved
    BY <1>8, SpUnresolvedKeeps
  <1>9. CASE SpPointer
    BY <1>9, SpPointerKeeps
  <1>10. CASE SpEncode
    BY <1>10, SpEncodeKeeps
  <1>11. CASE SpDot
    BY <1>11, SpDotKeeps
  <1>12. CASE SpHex
    BY <1>12, SpHexKeeps
  <1>13. CASE SpDone
    BY <1>13, SpDoneKeeps
  <1>14. CASE Terminate
    BY <1>14, TerminateKeeps
  <1>15. CASE UNCHANGED vars
    <2>1. UNCHANGED <<input, phase, pos, ip, half, hold, labels, sr, out, fpIp, depth, seen>>
      BY <1>15 DEF vars
    <2>2. TextOK' /\ Label' = Label /\ (CleanDots' <=> CleanDots)
      BY <2>1, SameText DEF LinkInv, Types
    <2>3. Types'
      BY <2>1, <2>2 DEF LinkInv, Types
    <2>4. Now' = Now /\ \A t : Recorded(t) => Recorded(t)'
      BY <2>1, StaysRecorded DEF Now, LabelledAt
    <2>5. FirstInv' /\ SecondInv'
      BY <2>1, <2>2, <2>4 DEF LinkInv, FirstInv, SecondInv
    <2>6. PassesMeet'
      BY <2>1, <2>2 DEF LinkInv, PassesMeet
    <2> QED BY <2>3, <2>5, <2>6 DEF LinkInv
  <1> QED BY <1>1, <1>2, <1>3, <1>4, <1>5, <1>6, <1>7, <1>8, <1>9, <1>10, <1>11, <1>12,
             <1>13, <1>14, <1>15, Zenon DEF Next

(* The track the first pass left is followed by the second, for every      *)
(* text: what the theorems below rest on.                                  *)
THEOREM LinkAlways == Spec => []LinkInv
  BY InitLink, StepLink, PTL DEF Spec

(* A word is a mask exactly when its operation is the dot.                 *)
LEMMA WordKinds ==
  ASSUME NEW w \in Mask \cup Word
  PROVE  w \in (IF w.op = "." THEN Mask ELSE Word)
  <1>1. CASE w \in Mask
    <2>1. w.op = "."
      BY <1>1, SMT DEF Mask
    <2> QED BY <1>1, <2>1, SMT
  <1>2. CASE w \in Word
    <2>1. w.op # "."
      BY <1>2, SMT DEF Word
    <2> QED BY <1>2, <2>1, SMT
  <1> QED BY <1>1, <1>2

(* What the linker holds is what its registers and its list can hold: the  *)
(* address of a label never exceeds four bytes per character of the text,  *)
(* a word of the shift register fits its field, and no pass leaves the     *)
(* text.                                                                   *)
THEOREM TypeOKTheorem == Spec => []TypeOK
  <1>1. LinkInv => TypeOK
    <2> SUFFICES ASSUME LinkInv
                 PROVE  TypeOK
      OBVIOUS
    <2>1. DOMAIN labels = 1 .. Len(labels) /\ DOMAIN input = 1 .. Len(input)
      BY LenProperties DEF LinkInv, Types, TextOK
    <2>2. \A k \in DOMAIN labels : labels[k] \in Label
      BY <2>1, ElementOfSeq DEF LinkInv, Types
    <2>3. \A k \in DOMAIN labels : /\ labels[k].target \in 0 .. 4 * Len(input)
                                   /\ labels[k].at \in DOMAIN input
      BY <2>1, <2>2 DEF Label
    <2>4. \A e \in sr : /\ e.word \in (IF e.word.op = "." THEN Mask ELSE Word)
                        /\ e.shifted \in 0 .. 3
      <3> DEFINE Both == Mask \cup Word
      <3>1. \A w \in Both : w \in (IF w.op = "." THEN Mask ELSE Word)
        BY WordKinds
      <3>2. sr \subseteq [word : Both, shifted : 0 .. 3]
        BY DEF LinkInv, Types
      <3> HIDE DEF Both
      <3>3. \A e \in sr : e.word \in Both /\ e.shifted \in 0 .. 3
        BY <3>2
      <3> QED BY <3>1, <3>3, Zenon
    <2>5. /\ phase \in {"first", "second", "terminate", "returned", "runaway"}
          /\ pos \in 1 .. Len(input) + 1
          /\ ip \in Nat /\ fpIp \in Nat /\ depth \in Nat
          /\ half \in BOOLEAN /\ hold \in 0 .. 15
          /\ seen \subseteq (1 .. Len(input) + 1) \X Nat \X BOOLEAN
      BY DEF LinkInv, Types
    <2> QED BY <2>3, <2>4, <2>5, Zenon DEF TypeOK
  <1> QED BY <1>1, LinkAlways, PTL

(* The second pass meets every definition with the address the first pass  *)
(* recorded for it.                                                        *)
THEOREM LabelsExactTheorem == Spec => []LabelsExact
  <1>1. LinkInv => LabelsExact
    <2> SUFFICES ASSUME LinkInv, CleanDots, SecondPass, Char = ":"
                 PROVE  \E k \in DOMAIN labels : labels[k].at = pos /\ labels[k].target = ip
      BY DEF LabelsExact
    <2>1. Now \in seen /\ Now[1] = pos /\ Now[2] = ip
      BY DEF LinkInv, SecondInv, SecondPass, Now
    <2>2. \A t \in seen : Recorded(t) \/ t[1] > Len(input)
      BY DEF LinkInv, SecondInv, SecondPass
    <2>3. ~ (Now[1] > Len(input))
      BY <2>1, PosFacts DEF SecondPass, More, AtEnd
    <2>4. Recorded(Now)
      BY <2>1, <2>2, <2>3, Zenon
    <2>5. LabelledAt(pos, ip)
      BY <2>1, <2>4 DEF Recorded, Char
    <2> QED BY <2>5 DEF LabelledAt
  <1> QED BY <1>1, LinkAlways, PTL

(* A link that succeeds ends both passes at the same instruction pointer.  *)
THEOREM PassesMeetTheorem == Spec => []PassesMeet
  <1>1. LinkInv => PassesMeet
    BY DEF LinkInv
  <1> QED BY <1>1, LinkAlways, PTL

(* The instruction pointer of the second pass is the number of bytes       *)
(* written, pairs of nibbles and pointers alike.                           *)
THEOREM OutputCountedTheorem == Spec => []OutputCounted
  <1>1. LinkInv => OutputCounted
    BY DEF LinkInv, SecondInv, OutputCounted
  <1> QED BY <1>1, LinkAlways, PTL

-----------------------------------------------------------------------------
(* The simulator's loops *)

(* The loops of the simulator's passes, and of its dot, iterate a function *)
(* of what they carry.                                                     *)
Turned(loop, s, defs, st) ==
    IF loop = "first" THEN FirstTurn(s, st)
    ELSE IF loop = "second" THEN SecondTurn(s, defs, st) ELSE ReadNibble(s, st)

IsRun(f, loop, s, defs, start, m) ==
    f = [n \in 0 .. m |-> IF n = 0 THEN start ELSE Turned(loop, s, defs, f[n - 1])]

(* A loop can be run for any number of turns.                              *)
LEMMA RunExists ==
  ASSUME NEW loop, NEW s, NEW defs, NEW start, NEW n \in Nat
  PROVE  \E f : IsRun(f, loop, s, defs, start, n)
  <1> DEFINE T == {k \in Nat : ~ \E f : IsRun(f, loop, s, defs, start, k)}
  <1> SUFFICES ASSUME T # {}
               PROVE  FALSE
    OBVIOUS
  <1>1. T \subseteq Nat
    OBVIOUS
  <1>2. PICK m \in T : \A k \in T : m <= k
    BY <1>1, Least
  <1>3. m # 0
    <2>1. IsRun([k \in 0 .. 0 |-> start], loop, s, defs, start, 0)
      BY DEF IsRun
    <2> QED BY <2>1
  <1>4. m \in Nat /\ m - 1 \in Nat /\ m - 1 \notin T
    BY <1>2, <1>3
  <1>5. PICK f : IsRun(f, loop, s, defs, start, m - 1)
    BY <1>4
  <1> DEFINE next(x) == Turned(loop, s, defs, x)
             g == [k \in 0 .. m |-> IF k = m THEN next(f[m - 1]) ELSE f[k]]
  <1>6. \A k \in 0 .. m - 1 : f[k] = IF k = 0 THEN start ELSE next(f[k - 1])
    BY <1>4, <1>5 DEF IsRun
  <1> HIDE DEF next
  <1>7. \A k \in 0 .. m : g[k] = IF k = 0 THEN start ELSE next(g[k - 1])
    <2> SUFFICES ASSUME NEW k \in 0 .. m
                 PROVE  g[k] = IF k = 0 THEN start ELSE next(g[k - 1])
      OBVIOUS
    <2>1. CASE k = m
      BY <1>3, <1>4, <2>1
    <2>2. CASE k # m
      <3>1. k \in 0 .. m - 1 /\ (k # 0 => k - 1 \in 0 .. m /\ k - 1 # m)
        BY <1>4, <2>2
      <3>2. g[k] = f[k] /\ (k # 0 => g[k - 1] = f[k - 1])
        BY <2>2, <3>1
      <3>3. f[k] = IF k = 0 THEN start ELSE next(f[k - 1])
        BY <1>6, <3>1
      <3> QED BY <3>2, <3>3
    <2> QED BY <2>1, <2>2
  <1>8. g = [k \in 0 .. m |-> IF k = 0 THEN start ELSE next(g[k - 1])]
    BY <1>7
  <1>9. IsRun(g, loop, s, defs, start, m)
    BY <1>8 DEF IsRun, next
  <1> QED BY <1>2, <1>9

FirstStart  == [pos |-> 1, ip |-> 0, half |-> FALSE, defs |-> << >>]
SecondStart == [pos |-> 1, ip |-> 0, acc |-> -1, sr |-> {}, out |-> << >>]

FirstRun(s)        == CHOOSE f : IsRun(f, "first", s, 0, FirstStart, Len(s))
SecondRun(s, defs) == CHOOSE f : IsRun(f, "second", s, defs, SecondStart, Len(s))
DotRun(s, p)       == CHOOSE f : IsRun(f, "dot", s, 0, [pos |-> p, nibbles |-> << >>], 8)

(* The first pass turn by turn.                                            *)
LEMMA FirstRunFacts ==
  ASSUME NEW s, Len(s) \in Nat
  PROVE  /\ FirstRun(s)[0] = FirstStart
         /\ \A n \in 0 .. Len(s) - 1 : FirstRun(s)[n + 1] = FirstTurn(s, FirstRun(s)[n])
         /\ first_pass(s) = FirstRun(s)[Len(s)].defs
  <1>1. PICK f : f = FirstRun(s)
    OBVIOUS
  <1>2. IsRun(f, "first", s, 0, FirstStart, Len(s))
    BY <1>1, RunExists DEF FirstRun
  <1>3. f = [n \in 0 .. Len(s) |-> IF n = 0 THEN FirstStart ELSE FirstTurn(s, f[n - 1])]
    BY <1>2 DEF IsRun, Turned
  <1>4. ASSUME NEW n \in 0 .. Len(s) - 1
        PROVE  f[n + 1] = FirstTurn(s, f[n])
    <2>1. n + 1 \in 0 .. Len(s) /\ n + 1 # 0 /\ (n + 1) - 1 = n
      OBVIOUS
    <2>2. f[n + 1] = FirstTurn(s, f[(n + 1) - 1])
      BY <1>3, <2>1
    <2> QED BY <2>1, <2>2
  <1>5. first_pass(s) = FirstRun(s)[Len(s)].defs
    <2>1. \A g : g = [n \in 0 .. Len(s) |-> IF n = 0 THEN FirstStart ELSE FirstTurn(s, g[n - 1])]
                 <=> IsRun(g, "first", s, 0, FirstStart, Len(s))
      BY DEF IsRun, Turned
    <2>2. FirstRun(s) = CHOOSE g : g = [n \in 0 .. Len(s) |->
                           IF n = 0 THEN FirstStart ELSE FirstTurn(s, g[n - 1])]
      BY <2>1, Zenon DEF FirstRun
    <2> QED BY <2>2 DEF first_pass, FirstStart
  <1>6. f[0] = FirstStart
    BY <1>3
  <1> QED BY <1>1, <1>4, <1>5, <1>6

(* The second pass turn by turn.                                           *)
LEMMA SecondRunFacts ==
  ASSUME NEW s, Len(s) \in Nat, NEW defs
  PROVE  /\ SecondRun(s, defs)[0] = SecondStart
         /\ \A n \in 0 .. Len(s) - 1 :
               SecondRun(s, defs)[n + 1] = SecondTurn(s, defs, SecondRun(s, defs)[n])
         /\ second_pass(s, defs) = SecondRun(s, defs)[Len(s)].out
  <1>1. PICK f : f = SecondRun(s, defs)
    OBVIOUS
  <1>2. IsRun(f, "second", s, defs, SecondStart, Len(s))
    BY <1>1, RunExists DEF SecondRun
  <1>3. f = [n \in 0 .. Len(s) |-> IF n = 0 THEN SecondStart ELSE SecondTurn(s, defs, f[n - 1])]
    BY <1>2 DEF IsRun, Turned
  <1>4. ASSUME NEW n \in 0 .. Len(s) - 1
        PROVE  f[n + 1] = SecondTurn(s, defs, f[n])
    <2>1. n + 1 \in 0 .. Len(s) /\ n + 1 # 0 /\ (n + 1) - 1 = n
      OBVIOUS
    <2>2. f[n + 1] = SecondTurn(s, defs, f[(n + 1) - 1])
      BY <1>3, <2>1
    <2> QED BY <2>1, <2>2
  <1>5. second_pass(s, defs) = SecondRun(s, defs)[Len(s)].out
    <2>1. \A g : g = [n \in 0 .. Len(s) |-> IF n = 0 THEN SecondStart ELSE SecondTurn(s, defs, g[n - 1])]
                 <=> IsRun(g, "second", s, defs, SecondStart, Len(s))
      BY DEF IsRun, Turned
    <2>2. SecondRun(s, defs) = CHOOSE g : g = [n \in 0 .. Len(s) |->
                           IF n = 0 THEN SecondStart ELSE SecondTurn(s, defs, g[n - 1])]
      BY <2>1, Zenon DEF SecondRun
    <2> QED BY <2>2 DEF second_pass, SecondStart
  <1>6. f[0] = SecondStart
    BY <1>3
  <1> QED BY <1>1, <1>4, <1>5, <1>6

(* A dot nibble by nibble.                                                 *)
LEMMA DotRunFacts ==
  ASSUME NEW s, NEW p
  PROVE  /\ DotRun(s, p)[0] = [pos |-> p, nibbles |-> << >>]
         /\ \A n \in 0 .. 7 : DotRun(s, p)[n + 1] = ReadNibble(s, DotRun(s, p)[n])
         /\ ReadDot(s, p) = DotRun(s, p)[8]
  <1> DEFINE start == [pos |-> p, nibbles |-> << >>]
  <1>1. PICK f : f = DotRun(s, p)
    OBVIOUS
  <1>2. IsRun(f, "dot", s, 0, start, 8)
    BY <1>1, RunExists DEF DotRun
  <1>3. f = [n \in 0 .. 8 |-> IF n = 0 THEN start ELSE ReadNibble(s, f[n - 1])]
    BY <1>2 DEF IsRun, Turned
  <1>4. ASSUME NEW n \in 0 .. 7
        PROVE  f[n + 1] = ReadNibble(s, f[n])
    <2>1. n + 1 \in 0 .. 8 /\ n + 1 # 0 /\ (n + 1) - 1 = n
      OBVIOUS
    <2>2. f[n + 1] = ReadNibble(s, f[(n + 1) - 1])
      BY <1>3, <2>1
    <2> QED BY <2>1, <2>2
  <1>5. ReadDot(s, p) = DotRun(s, p)[8]
    <2>1. \A g : g = [n \in 0 .. 8 |-> IF n = 0 THEN start ELSE ReadNibble(s, g[n - 1])]
                 <=> IsRun(g, "dot", s, 0, start, 8)
      BY DEF IsRun, Turned
    <2>2. DotRun(s, p) = CHOOSE g : g = [n \in 0 .. 8 |->
                           IF n = 0 THEN start ELSE ReadNibble(s, g[n - 1])]
      BY <2>1, Zenon DEF DotRun
    <2> QED BY <2>2 DEF ReadDot
  <1>6. f[0] = start
    BY <1>3
  <1> QED BY <1>1, <1>4, <1>5, <1>6

-----------------------------------------------------------------------------
(* The same text to both *)

(* There is one position a search can end at.                              *)
LEMMA FindFromIs ==
  ASSUME NEW s, Len(s) \in Nat, NEW p \in 1 .. Len(s) + 1, NEW Stop, NEW q \in p .. Len(s) + 1,
         AtEnd(s, q) \/ s[q] \in Stop, \A r \in p .. q - 1 : s[r] \notin Stop
  PROVE  FindFrom(s, p, Stop) = q
  <1>1. PICK f : f = FindFrom(s, p, Stop)
    OBVIOUS
  <1>2. /\ f \in p .. Len(s) + 1 /\ (AtEnd(s, f) \/ s[f] \in Stop)
        /\ \A r \in p .. f - 1 : s[r] \notin Stop
    BY <1>1, FindFromFacts
  <1>3. ~ (f < q)
    <2> SUFFICES ASSUME f < q
                 PROVE  FALSE
      OBVIOUS
    <2>1. f \in p .. q - 1 /\ ~AtEnd(s, f)
      BY <1>2 DEF AtEnd
    <2> QED BY <1>2, <2>1
  <1>4. ~ (q < f)
    <2> SUFFICES ASSUME q < f
                 PROVE  FALSE
      OBVIOUS
    <2>1. q \in p .. f - 1 /\ ~AtEnd(s, q)
      BY <1>2 DEF AtEnd
    <2> QED BY <1>2, <2>1
  <1> QED BY <1>1, <1>2, <1>3, <1>4

(* The names, references and bases the simulator reads are the linker's,   *)
(* definitions too when no '>' stops the simulator.                        *)
LEMMA SameNames ==
  ASSUME TextOK, NEW p \in 1 .. Len(input) + 1
  PROVE  /\ TokenEnd(input, p) = NameEnd(p)
         /\ WithBase(input, p) <=> HasBase(p)
         /\ RefEnd(input, p) = ReferenceEnd(p)
         /\ \A q : Token(input, p, q) = Name(p, q)
         /\ ~HasBase(p) => TokenEnd(input, p) = DefinitionEnd(p)
         /\ \A q \in 1 .. Len(input) : Behind(input, q) = q + 1
  <1>1. Len(input) \in Nat
    BY LenProperties DEF TextOK
  <1>2. TokenEnd(input, p) = NameEnd(p) /\ (WithBase(input, p) <=> HasBase(p))
    BY DEF TokenEnd, NameEnd, WithBase, HasBase
  <1>3. RefEnd(input, p) = ReferenceEnd(p)
    BY <1>2 DEF RefEnd, ReferenceEnd, WordEnd
  <1>4. ASSUME ~HasBase(p)
        PROVE  TokenEnd(input, p) = DefinitionEnd(p)
    <2>1. PICK e : e = NameEnd(p)
      OBVIOUS
    <2>2. /\ e \in p .. Len(input) + 1
          /\ AtEnd(input, e) \/ input[e] \in Blank \cup {">"}
          /\ \A r \in p .. e - 1 : input[r] \notin Blank \cup {">"}
      BY <1>1, <2>1, FindFromFacts DEF NameEnd
    <2>3. AtEnd(input, e) \/ input[e] \in Blank
      BY <1>4, <2>1, <2>2 DEF HasBase
    <2>4. FindFrom(input, p, Blank) = e
      BY <1>1, <2>2, <2>3, FindFromIs
    <2> QED BY <1>2, <2>1, <2>4 DEF DefinitionEnd
  <1>5. \A q : Token(input, p, q) = Name(p, q)
    BY DEF Token, Name
  <1>6. \A q \in 1 .. Len(input) : Behind(input, q) = q + 1
    BY <1>1 DEF Behind, Skip
  <1> QED BY <1>2, <1>3, <1>4, <1>5, <1>6

(* A digit is the next nibble wherever the simulator looks for one.        *)
LEMMA NextNibbleIs ==
  ASSUME TextOK, NEW p \in 1 .. Len(input), input[p] \in HexDigit
  PROVE  NextNibble(input, p) = p
  <1>1. Len(input) \in Nat
    BY LenProperties DEF TextOK
  <1>2. IsNibble(input, p, p)
    BY DEF IsNibble, InComment
  <1>3. PICK q : q = NextNibble(input, p)
    OBVIOUS
  <1>4. /\ p \in p .. Len(input) + 1
        /\ \A r \in p .. p - 1 : ~IsNibble(input, p, r)
    BY <1>1
  <1>5. q \in p .. Len(input) + 1 /\ \A r \in p .. q - 1 : ~IsNibble(input, p, r)
    BY <1>2, <1>3, <1>4 DEF NextNibble
  <1> QED BY <1>1, <1>2, <1>3, <1>5

(* Eight digits behind a dot are read alike.                               *)
LEMMA SameDot ==
  ASSUME TextOK, NEW p \in 1 .. Len(input) + 1, NEW r \in Reads(p, 8),
         \A q \in p .. p + 7 : q <= Len(input) /\ input[q] \in HexDigit
  PROVE  ReadDot(input, p) = [pos |-> r[1], nibbles |-> r[2]]
  <1>1. Len(input) \in Nat
    BY LenProperties DEF TextOK
  <1>2. PICK d : d = DotRun(input, p)
    OBVIOUS
  <1>3. d[0] = [pos |-> p, nibbles |-> << >>] /\ \A n \in 0 .. 7 : d[n + 1] = ReadNibble(input, d[n])
    BY <1>2, DotRunFacts
  <1> DEFINE f == CHOOSE g : IsChain(g, p, 8)
             Same(k) == /\ d[k] = [pos |-> p + k, nibbles |-> d[k].nibbles]
                        /\ f[k] = {<<p + k, d[k].nibbles>>}
  <1>4. IsChain(f, p, 8)
    BY ChainExists
  <1>5. Reads(p, 8) = f[8]
    BY DEF Reads, IsChain
  <1> HIDE DEF f
  <1>6. \A k \in 0 .. 8 : f[k] =
           IF k = 0 THEN {<<p, << >>>>}
           ELSE {<<NextRead(e[1]), Append(e[2], ReadValue(e[1]))>> : e \in f[k - 1]}
    BY <1>4 DEF IsChain
  <1>7. Same(0)
    <2>1. f[0] = {<<p, << >>>>}
      BY <1>6
    <2> QED BY <1>3, <2>1
  <1>8. ASSUME NEW k \in 0 .. 7, Same(k)
        PROVE  Same(k + 1)
    <2>1. k + 1 \in 0 .. 8 /\ k + 1 # 0 /\ (k + 1) - 1 = k /\ p + k \in p .. p + 7
      OBVIOUS
    <2>2. p + k \in 1 .. Len(input) /\ input[p + k] \in HexDigit
      BY <1>1, <2>1
    <2>3. ~AtEnd(input, p + k) /\ Skip(input, p + k, 1) = p + (k + 1) /\ (p + k) + 1 = p + (k + 1)
      BY <1>1, <2>2 DEF AtEnd, Skip
    <2>4. NextRead(p + k) = p + (k + 1) /\ ReadValue(p + k) = Nibble(input[p + k])
      BY <2>2, <2>3, DigitFacts DEF NextRead, ReadValue, AfterHex
    <2>5. d[k].pos = p + k
      BY <1>8
    <2>6. d[k + 1] = [pos     |-> Skip(input, p + k, 1),
                      nibbles |-> Append(d[k].nibbles, Nibble(input[p + k]))]
      <3>1. NextNibble(input, d[k].pos) = p + k
        BY <2>2, <2>5, NextNibbleIs
      <3>2. d[k + 1] = ReadNibble(input, d[k])
        BY <1>3
      <3> QED BY <2>3, <3>1, <3>2 DEF ReadNibble
    <2>7. f[k + 1] = {<<NextRead(e[1]), Append(e[2], ReadValue(e[1]))>> : e \in {<<p + k, d[k].nibbles>>}}
      BY <1>6, <1>8, <2>1
    <2>8. f[k + 1] = {<<p + (k + 1), Append(d[k].nibbles, Nibble(input[p + k]))>>}
      BY <2>4, <2>7
    <2>9. PICK v : v = Append(d[k].nibbles, Nibble(input[p + k]))
      OBVIOUS
    <2>10. d[k + 1] = [pos |-> p + (k + 1), nibbles |-> v] /\ f[k + 1] = {<<p + (k + 1), v>>}
      BY <2>3, <2>6, <2>8, <2>9
    <2>11. d[k + 1].nibbles = v
      BY <2>10
    <2> QED BY <2>10, <2>11
  <1> HIDE DEF Same
  <1>9. Same(4)
    BY <1>7, <1>8
  <1>10. Same(8)
    BY <1>8, <1>9
  <1>11. r = <<p + 8, d[8].nibbles>> /\ d[8] = [pos |-> p + 8, nibbles |-> d[8].nibbles]
    BY <1>5, <1>10 DEF Same
  <1> QED BY <1>2, <1>11, DotRunFacts

-----------------------------------------------------------------------------
(* The same labels to both *)

(* A dictionary in the order of its definitions, and the list that has the *)
(* newest in front.                                                        *)
Mirrors(defs, list) ==
    /\ defs \in Seq([name : Seq(STRING), target : Nat])
    /\ Len(defs) = Len(list)
    /\ \A k \in 1 .. Len(list) :
          /\ defs[Len(list) + 1 - k].name = list[k].name
          /\ defs[Len(list) + 1 - k].target = list[k].target

(* The latest definition of the one is the first of the other.             *)
LEMMA TargetIs ==
  ASSUME TextOK, labels \in Seq(Label), NEW defs, Mirrors(defs, labels), NEW name, Resolved(name)
  PROVE  Target(defs, name) = GetTarget(name)
  <1> DEFINE N == Len(labels)
  <1>1. DOMAIN labels = 1 .. N /\ N \in Nat /\ DOMAIN defs = 1 .. N /\ Len(defs) = N
    BY LenProperties DEF Mirrors
  <1>2. /\ \A k \in 1 .. N : /\ defs[N + 1 - k].name = labels[k].name
                             /\ defs[N + 1 - k].target = labels[k].target
    BY DEF Mirrors
  <1> HIDE DEF N
  <1> DEFINE T == {k \in 1 .. N : labels[k].name = name}
  <1>3. T \subseteq Nat /\ T # {}
    BY <1>1 DEF Resolved
  <1>4. PICK m \in T : \A k \in T : m <= k
    BY <1>3, Least
  <1>5. m \in 1 .. N /\ labels[m].name = name /\ \A k \in 1 .. m - 1 : labels[k].name # name
    <2>1. ASSUME NEW k \in 1 .. m - 1, labels[k].name = name
          PROVE  FALSE
      <3>1. k \in T
        BY <1>1, <1>4, <2>1
      <3> QED BY <1>4, <3>1
    <2> QED BY <1>4, <2>1
  <1> DEFINE First(k) == labels[k].name = name /\ \A j \in 1 .. k - 1 : labels[j].name # name
             Last(k)  == defs[k].name = name /\ \A j \in k + 1 .. N : defs[j].name # name
             l == N + 1 - m
  <1>6. \A k \in 1 .. N : First(k) => k = m
    <2> SUFFICES ASSUME NEW k \in 1 .. N, First(k), k # m
                 PROVE  FALSE
      OBVIOUS
    <2>1. k \in T
      OBVIOUS
    <2>2. m \in 1 .. k - 1
      BY <1>1, <1>4, <1>5, <2>1
    <2> QED BY <1>5, <2>2
  <1>7. First(m) /\ (CHOOSE k \in 1 .. N : First(k)) = m
    <2>1. First(m)
      BY <1>5
    <2> HIDE DEF First
    <2> QED BY <1>5, <1>6, <2>1
  <1>8. GetTarget(name) = labels[m].target
    <2>1. GetTarget(name) = labels[CHOOSE k \in 1 .. N : First(k)].target
      BY <1>1 DEF GetTarget
    <2> QED BY <1>7, <2>1
  <1>9. l \in 1 .. N /\ Last(l)
    <2>1. l \in 1 .. N /\ defs[l].name = name
      BY <1>1, <1>2, <1>5
    <2>2. ASSUME NEW j \in l + 1 .. N
          PROVE  defs[j].name # name
      <3>1. N + 1 - j \in 1 .. m - 1 /\ N + 1 - j \in 1 .. N /\ N + 1 - (N + 1 - j) = j
        BY <1>1, <1>5
      <3> QED BY <1>2, <1>5, <3>1
    <2> QED BY <2>1, <2>2
  <1>10. \A k \in 1 .. N : Last(k) => k = l
    <2> SUFFICES ASSUME NEW k \in 1 .. N, Last(k), k # l
                 PROVE  FALSE
      OBVIOUS
    <2>1. k \in l + 1 .. N \/ l \in k + 1 .. N
      BY <1>1, <1>9
    <2> QED BY <1>9, <2>1
  <1>11. (CHOOSE k \in 1 .. N : Last(k)) = l
    <2> HIDE DEF Last, l
    <2> QED BY <1>9, <1>10
  <1>12. Target(defs, name) = defs[l].target
    <2>1. \E k \in DOMAIN defs : defs[k].name = name
      BY <1>1, <1>9
    <2>2. Target(defs, name) = defs[CHOOSE k \in 1 .. N : Last(k)].target
      BY <1>1, <2>1 DEF Target
    <2> HIDE DEF Last, l
    <2> QED BY <1>11, <2>2
  <1>13. defs[l].target = labels[m].target
    BY <1>2, <1>5
  <1> QED BY <1>8, <1>12, <1>13

(* A new definition goes to the end of the one and the front of the other. *)
LEMMA MirrorsOn ==
  ASSUME NEW list \in Seq(Label), NEW defs, Mirrors(defs, list), TextOK,
         NEW name \in Seq(STRING), NEW target \in Nat, NEW at
  PROVE  Mirrors(Append(defs, [name |-> name, target |-> target]),
                 <<[name |-> name, target |-> target, at |-> at]>> \o list)
  <1> DEFINE Def == [name : Seq(STRING), target : Nat]
  <1>1. PICK e : e = [name |-> name, target |-> target]
    OBVIOUS
  <1>2. PICK l : l = [name |-> name, target |-> target, at |-> at]
    OBVIOUS
  <1>3. /\ defs \in Seq(Def) /\ e \in Def /\ Len(defs) = Len(list) /\ Len(list) \in Nat
        /\ \A k \in 1 .. Len(list) : /\ defs[Len(list) + 1 - k].name = list[k].name
                                     /\ defs[Len(list) + 1 - k].target = list[k].target
    BY <1>1, LenProperties DEF Mirrors
  <1>4. e.name = l.name /\ e.target = l.target
    BY <1>1, <1>2
  <1> HIDE DEF Def
  <1>5. PICK d : d = Append(defs, e)
    OBVIOUS
  <1>6. /\ d \in Seq(Def) /\ Len(d) = Len(list) + 1 /\ d[Len(list) + 1] = e
        /\ \A k \in 1 .. Len(list) : d[k] = defs[k]
    BY <1>3, <1>5, AppendProperties
  <1>7. PICK m : m = <<l>> \o list
    OBVIOUS
  <1>8. Len(m) = Len(list) + 1 /\ m[1] = l /\ \A k \in 1 .. Len(list) : m[k + 1] = list[k]
    <2>1. PICK S : S = Label \cup {l}
      OBVIOUS
    <2>2. <<l>> \in Seq(S) /\ list \in Seq(S) /\ Len(<<l>>) = 1 /\ <<l>>[1] = l
      BY <2>1
    <2> QED BY <1>3, <1>7, <2>2, ConcatProperties
  <1>9. ASSUME NEW k \in 1 .. Len(m)
        PROVE  d[Len(m) + 1 - k].name = m[k].name /\ d[Len(m) + 1 - k].target = m[k].target
    <2>1. CASE k = 1
      BY <1>3, <1>4, <1>6, <1>8, <2>1
    <2>2. CASE k # 1
      <3>1. /\ k - 1 \in 1 .. Len(list) /\ (k - 1) + 1 = k
            /\ Len(m) + 1 - k = Len(list) + 1 - (k - 1) /\ Len(m) + 1 - k \in 1 .. Len(list)
        BY <1>3, <1>8, <2>2
      <3>2. m[k] = list[k - 1] /\ d[Len(m) + 1 - k] = defs[Len(list) + 1 - (k - 1)]
        BY <1>6, <1>8, <3>1
      <3> QED BY <1>3, <3>1, <3>2
    <2> QED BY <2>1, <2>2
  <1>10. Mirrors(d, m)
    BY <1>6, <1>8, <1>9 DEF Mirrors, Def
  <1> QED BY <1>1, <1>2, <1>5, <1>7, <1>10

-----------------------------------------------------------------------------
(* The turns of the simulator's loops *)

(* What hex_decode gives for a character that no operation begins with.    *)
LEMMA DecodeIs ==
  ASSUME TextOK, NEW p \in 1 .. Len(input)
  PROVE  /\ input[p] \in HexDigit =>
              hex_decode(input, p) = <<Nibble(input[p]), p + 1>> /\ Nibble(input[p]) \in 0 .. 15
         /\ input[p] \notin HexDigit =>
              hex_decode(input, p) = <<-1, AfterHex(input[p], p + 1)>>
  <1>1. CASE input[p] \in HexDigit
    <2>1. Nibble(input[p]) \in 0 .. 15 /\ input[p] \notin Comment
      BY <1>1, DigitFacts
    <2> QED BY <1>1, <2>1 DEF hex_decode
  <1>2. CASE input[p] \notin HexDigit
    BY <1>2 DEF hex_decode, AfterHex
  <1> QED BY <1>1, <1>2

(* A turn of first_pass, by the character it is taken for.                 *)
FirstCases(p, i, h, d, t) ==
    LET c == input[p]
        e == TokenEnd(input, p + 1)
    IN
    /\ c = ":" => t = [pos |-> Behind(input, e), ip |-> i, half |-> h,
                       defs |-> Append(d, [name |-> Token(input, p + 1, e), target |-> i])]
    /\ c \in ShiftOps => t = [pos |-> Behind(input, e), ip |-> i, half |-> h, defs |-> d]
    /\ c \in PointerOps => t =
         [pos |-> Behind(input, RefEnd(input, p + 1)), ip |-> i + 4, half |-> h, defs |-> d]
    /\ c = "." => t = [pos |-> Skip(input, p, 9), ip |-> i, half |-> h, defs |-> d]
    /\ HexChar(c) /\ c \in HexDigit => t =
         [pos |-> p + 1, ip |-> IF h THEN i ELSE i + 1, half |-> ~h, defs |-> d]
    /\ HexChar(c) /\ c \notin HexDigit => t =
         [pos |-> AfterHex(c, p + 1), ip |-> i, half |-> h, defs |-> d]

LEMMA FirstTurnIs ==
  ASSUME TextOK, NEW p \in 1 .. Len(input), NEW i, NEW h \in BOOLEAN, NEW d,
         NEW st, st = [pos |-> p, ip |-> i, half |-> h, defs |-> d]
  PROVE  FirstCases(p, i, h, d, FirstTurn(input, st))
  <1> PICK c, e : c = input[p] /\ e = TokenEnd(input, p + 1)
    OBVIOUS
  <1>1. Len(input) \in Nat /\ ~AtEnd(input, p)
    BY LenProperties DEF TextOK, AtEnd
  <1>2. st.pos = p /\ st.ip = i /\ st.half = h /\ st.defs = d
    OBVIOUS
  <1> DEFINE x == hex_decode(input, p)
  <1>3. CASE c = ":"
    <2>1. FirstTurn(input, st) =
            [st EXCEPT !.pos = Behind(input, e),
                       !.defs = Append(@, [name |-> Token(input, p + 1, e), target |-> st.ip])]
      BY <1>1, <1>2, <1>3 DEF FirstTurn
    <2> QED BY <1>3, <2>1 DEF FirstCases, HexChar, ShiftOps, PointerOps
  <1>4. CASE c \in ShiftOps
    <2>1. FirstTurn(input, st) = [st EXCEPT !.pos = Behind(input, e)]
      BY <1>1, <1>2, <1>4 DEF FirstTurn, ShiftOps
    <2> QED BY <1>4, <2>1 DEF FirstCases, HexChar, ShiftOps, PointerOps
  <1>5. CASE c \in PointerOps
    <2>1. FirstTurn(input, st) = [st EXCEPT !.pos = Behind(input, RefEnd(input, p + 1)), !.ip = @ + 4]
      BY <1>1, <1>2, <1>5 DEF FirstTurn, PointerOps
    <2> QED BY <1>5, <2>1 DEF FirstCases, HexChar, ShiftOps, PointerOps
  <1>6. CASE c = "."
    <2>1. FirstTurn(input, st) = [st EXCEPT !.pos = Skip(input, p, 9)]
      BY <1>1, <1>2, <1>6 DEF FirstTurn
    <2> QED BY <1>6, <2>1 DEF FirstCases, HexChar, ShiftOps, PointerOps
  <1>7. CASE HexChar(c)
    <2>1. FirstTurn(input, st) =
            IF x[1] < 0 THEN [st EXCEPT !.pos = x[2]]
            ELSE [st EXCEPT !.pos = x[2], !.ip = IF st.half THEN @ ELSE @ + 1, !.half = ~@]
      BY <1>1, <1>2, <1>7 DEF FirstTurn, HexChar, ShiftOps, PointerOps
    <2> HIDE DEF x
    <2>2. CASE c \in HexDigit
      <3>1. x[1] = Nibble(c) /\ x[2] = p + 1 /\ Nibble(c) \in 0 .. 15
        BY <2>2, DecodeIs DEF x
      <3>3. FirstTurn(input, st) = [st EXCEPT !.pos = x[2], !.ip = IF st.half THEN @ ELSE @ + 1, !.half = ~@]
        BY <2>1, <3>1
      <3>4. st.ip = i /\ st.half = h /\ x[2] = p + 1
        BY <1>2, <3>1
      <3>5. FirstTurn(input, st) = [st EXCEPT !.pos = p + 1, !.ip = IF h THEN i ELSE i + 1, !.half = ~h]
        BY <3>3, <3>4
      <3>2. FirstTurn(input, st) = [pos |-> p + 1, ip |-> IF h THEN i ELSE i + 1, half |-> ~h, defs |-> d]
        BY <3>5
      <3> QED BY <1>7, <2>2, <3>2 DEF FirstCases, HexChar, ShiftOps, PointerOps
    <2>3. CASE c \notin HexDigit
      <3>1. x[1] < 0 /\ x[2] = AfterHex(c, p + 1)
        BY <2>3, DecodeIs DEF x
      <3> QED BY <1>7, <2>1, <2>3, <3>1 DEF FirstCases, HexChar, ShiftOps, PointerOps
    <2> QED BY <2>2, <2>3
  <1> QED BY <1>3, <1>4, <1>5, <1>6, <1>7 DEF FirstCases, HexChar, ShiftOps, PointerOps

(* A turn of second_pass, by the character it is taken for.                *)
SecondCases(p, i, a, w, o, defs, t) ==
    LET c == input[p]
        e == TokenEnd(input, p + 1)
        q == RefEnd(input, p + 1)
        target == Target(defs, Token(input, p + 1, e))
        base == IF WithBase(input, p + 1) THEN Target(defs, Token(input, e + 1, q)) ELSE i + 4
        d == ReadDot(input, p + 1)
    IN
    /\ c = ":" => t = [pos |-> Behind(input, e), ip |-> i, acc |-> a, sr |-> w, out |-> o]
    /\ c = "%" => t = [pos |-> Behind(input, q), ip |-> i + 4, acc |-> a, sr |-> w,
                       out |-> o \o Pack(target - base)]
    /\ c = "&" => t = [pos |-> Behind(input, q), ip |-> i + 4, acc |-> a, sr |-> w,
                       out |-> o \o Pack(target)]
    /\ c \in ShiftOps => t = [pos |-> Behind(input, q), ip |-> i, acc |-> a,
                              sr |-> XorWord(w, Encoded(c, target - i)), out |-> o]
    /\ c = "." => t = [pos |-> d.pos, ip |-> i, acc |-> a,
                       sr |-> XorWord(w, [op |-> ".", field |-> d.nibbles]), out |-> o]
    /\ HexChar(c) /\ c \notin HexDigit => t =
         [pos |-> AfterHex(c, p + 1), ip |-> i, acc |-> a, sr |-> w, out |-> o]
    /\ HexChar(c) /\ c \in HexDigit /\ a < 0 => t =
         [pos |-> p + 1, ip |-> i, acc |-> Nibble(c), sr |-> w, out |-> o]
    /\ HexChar(c) /\ c \in HexDigit /\ ~ (a < 0) => t =
         [pos |-> p + 1, ip |-> i + 1, acc |-> -1, sr |-> Shifted(w),
          out |-> Append(o, [value |-> a * 16 + Nibble(c), xor |-> LowBytes(w)])]

LEMMA SecondTurnIs ==
  ASSUME TextOK, NEW p \in 1 .. Len(input), NEW i, NEW a \in -1 .. 15, NEW w, NEW o, NEW defs,
         NEW st, st = [pos |-> p, ip |-> i, acc |-> a, sr |-> w, out |-> o]
  PROVE  SecondCases(p, i, a, w, o, defs, SecondTurn(input, defs, st))
  <1> PICK c, e, q : c = input[p] /\ e = TokenEnd(input, p + 1) /\ q = RefEnd(input, p + 1)
    OBVIOUS
  <1> PICK target : target = Target(defs, Token(input, p + 1, e))
    OBVIOUS
  <1>1. Len(input) \in Nat /\ ~AtEnd(input, p)
    BY LenProperties DEF TextOK, AtEnd
  <1>2. st.pos = p /\ st.ip = i /\ st.acc = a /\ st.sr = w /\ st.out = o
    OBVIOUS
  <1> DEFINE x == hex_decode(input, p)
             base == IF WithBase(input, p + 1) THEN Target(defs, Token(input, e + 1, q)) ELSE i + 4
             d == ReadDot(input, p + 1)
             T == SecondTurn(input, defs, st)
  <1>3. CASE c = ":"
    <2>1. T = [st EXCEPT !.pos = Behind(input, e)]
      BY <1>1, <1>2, <1>3 DEF SecondTurn
    <2> HIDE DEF T, base
    <2>2. T = [pos |-> Behind(input, e), ip |-> i, acc |-> a, sr |-> w, out |-> o]
      BY <2>1
    <2> QED BY <1>3, <2>2 DEF SecondCases, HexChar, ShiftOps, PointerOps, T, base
  <1>4. CASE c = "%"
    <2>1. T = [st EXCEPT !.pos = Behind(input, q), !.ip = @ + 4, !.out = @ \o Pack(target - base)]
      BY <1>1, <1>2, <1>4 DEF SecondTurn
    <2> HIDE DEF T, base
    <2>2. T = [pos |-> Behind(input, q), ip |-> i + 4, acc |-> a, sr |-> w, out |-> o \o Pack(target - base)]
      BY <2>1
    <2> QED BY <1>4, <2>2 DEF SecondCases, HexChar, ShiftOps, PointerOps, T, base
  <1>5. CASE c = "&"
    <2>1. T = [st EXCEPT !.pos = Behind(input, q), !.ip = @ + 4, !.out = @ \o Pack(target)]
      BY <1>1, <1>2, <1>5 DEF SecondTurn
    <2> HIDE DEF T, base
    <2>2. T = [pos |-> Behind(input, q), ip |-> i + 4, acc |-> a, sr |-> w, out |-> o \o Pack(target)]
      BY <2>1
    <2> QED BY <1>5, <2>2 DEF SecondCases, HexChar, ShiftOps, PointerOps, T, base
  <1>6. CASE c \in ShiftOps
    <2>1. T = [st EXCEPT !.pos = Behind(input, q), !.sr = XorWord(@, Encoded(c, target - st.ip))]
      BY <1>1, <1>2, <1>6 DEF SecondTurn, ShiftOps
    <2> HIDE DEF T, base
    <2>2. T = [pos |-> Behind(input, q), ip |-> i, acc |-> a,
               sr |-> XorWord(w, Encoded(c, target - i)), out |-> o]
      BY <2>1
    <2> QED BY <1>6, <2>2 DEF SecondCases, HexChar, ShiftOps, PointerOps, T, base
  <1>7. CASE c = "."
    <2>1. T = [st EXCEPT !.pos = d.pos, !.sr = XorWord(@, [op |-> ".", field |-> d.nibbles])]
      BY <1>1, <1>2, <1>7 DEF SecondTurn
    <2> HIDE DEF T, d
    <2>2. T = [pos |-> d.pos, ip |-> i, acc |-> a,
               sr |-> XorWord(w, [op |-> ".", field |-> d.nibbles]), out |-> o]
      BY <2>1
    <2> QED BY <1>7, <2>2 DEF SecondCases, HexChar, ShiftOps, PointerOps, T, d
  <1>8. CASE HexChar(c)
    <2>1. T = CASE x[1] < 0 -> [st EXCEPT !.pos = x[2]]
                [] x[1] >= 0 /\ st.acc < 0 -> [st EXCEPT !.pos = x[2], !.acc = x[1]]
                [] OTHER ->
                     [pos |-> x[2], ip |-> st.ip + 1, acc |-> -1, sr |-> Shifted(st.sr),
                      out |-> Append(st.out, [value |-> st.acc * 16 + x[1], xor |-> LowBytes(st.sr)])]
      BY <1>1, <1>2, <1>8 DEF SecondTurn, HexChar, ShiftOps, PointerOps
    <2> HIDE DEF T, x
    <2>5. ~ (c = ":") /\ ~ (c = "%") /\ ~ (c = "&") /\ ~ (c \in ShiftOps) /\ ~ (c = ".")
      BY <1>8 DEF SecondCases, HexChar, ShiftOps, PointerOps
    <2>2. CASE c \notin HexDigit
      <3>1. x[1] = -1 /\ x[2] = AfterHex(c, p + 1)
        BY <2>2, DecodeIs DEF x
      <3>4. x[1] < 0 /\ ~ (x[1] >= 0 /\ st.acc < 0)
        BY <3>1
      <3>3. T = [st EXCEPT !.pos = x[2]]
        BY <2>1, <3>4, Zenon
      <3>2. T = [pos |-> AfterHex(c, p + 1), ip |-> i, acc |-> a, sr |-> w, out |-> o]
        BY <3>1, <3>3
      <3> QED BY <2>2, <3>2, <1>8, <2>5 DEF SecondCases, HexChar, PointerOps, T
    <2>3. CASE c \in HexDigit
      <3>1. x[1] = Nibble(c) /\ x[2] = p + 1 /\ Nibble(c) \in 0 .. 15
        BY <2>3, DecodeIs DEF x
      <3>2. CASE a < 0
        <4>2. T = [st EXCEPT !.pos = x[2], !.acc = x[1]]
          BY <1>2, <2>1, <3>1, <3>2, SMTT(30)
        <4>1. T = [pos |-> p + 1, ip |-> i, acc |-> Nibble(c), sr |-> w, out |-> o]
          BY <3>1, <4>2
        <4> QED BY <2>3, <3>2, <4>1, <1>8, <2>5 DEF SecondCases, HexChar, PointerOps, T
      <3>3. CASE ~ (a < 0)
        <4>2. ~ (x[1] < 0) /\ ~ (x[1] >= 0 /\ st.acc < 0)
          BY <1>2, <3>1, <3>3
        <4>3. T = [pos |-> x[2], ip |-> st.ip + 1, acc |-> -1, sr |-> Shifted(st.sr),
                   out |-> Append(st.out, [value |-> st.acc * 16 + x[1], xor |-> LowBytes(st.sr)])]
          BY <2>1, <4>2, Zenon
        <4>1. T = [pos |-> p + 1, ip |-> i + 1, acc |-> -1, sr |-> Shifted(w),
                   out |-> Append(o, [value |-> a * 16 + Nibble(c), xor |-> LowBytes(w)])]
          BY <1>2, <3>1, <4>3
        <4> QED BY <2>3, <3>3, <4>1, <1>8, <2>5 DEF SecondCases, HexChar, PointerOps, T
      <3> QED BY <3>2, <3>3
    <2> QED BY <2>2, <2>3
  <1> QED BY <1>3, <1>4, <1>5, <1>6, <1>7, <1>8 DEF SecondCases, HexChar, ShiftOps, PointerOps

-----------------------------------------------------------------------------
(* The first passes side by side *)

(* A text that is similar so far was similar before.                       *)
LEMMA SimilarBack ==
  ASSUME input' = input, seen \subseteq seen', Similar'
  PROVE  Similar
  <1>1. \A p : HasBase(p)' <=> HasBase(p)
    BY DEF HasBase, NameEnd
  <1> QED BY <1>1 DEF Similar

(* What it says of the character at p.                                     *)
LEMMA SimilarFacts ==
  ASSUME TextOK, Similar, NEW p \in 1 .. Len(input)
  PROVE  /\ input[p] = ":" \/ input[p] \in ShiftOps => ~HasBase(p + 1)
         /\ input[p] = "." =>
              \A q \in p + 1 .. p + 8 : q <= Len(input) /\ input[q] \in HexDigit
         /\ \A i, h : <<p, i, h>> \in seen /\ input[p] = ":" => ~h
  <1>1. Len(input) \in Nat /\ DOMAIN input = 1 .. Len(input) /\ ~AtEnd(input, p)
    BY LenProperties DEF TextOK, AtEnd
  <1>2. ASSUME NEW i, NEW h, <<p, i, h>> \in seen, input[p] = ":"
        PROVE  ~h
    <2>1. PICK e \in seen : e = <<p, i, h>>
      BY <1>2
    <2>2. e[1] = p /\ e[3] = h
      BY <2>1
    <2>3. ~e[3]
      BY <1>1, <1>2, <2>2 DEF Similar
    <2> QED BY <2>2, <2>3, Zenon
  <1> QED BY <1>1, <1>2 DEF Similar

(* The simulator has counted a byte whose first nibble it has read.        *)
FirstPoint(st) ==
    /\ st = [pos |-> pos, ip |-> IF half THEN ip + 1 ELSE ip, half |-> half, defs |-> st.defs]
    /\ Mirrors(st.defs, labels)

FirstSim ==
    phase = "first" /\ Similar =>
        \E F, n : /\ F = FirstRun(input) /\ n \in 0 .. Len(input) /\ n < pos
                  /\ FirstPoint(F[n])

FirstFollows ==
    \A st, t : Similar /\ FirstPoint(st) /\ t = FirstTurn(input, st) => FirstPoint(t)'

(* A turn of the one is a turn of the other.                               *)
LEMMA FirstOn ==
  ASSUME LinkInv, FirstSim, FirstPass, input' = input, seen \subseteq seen',
         pos' \in pos + 1 .. Len(input) + 1, FirstFollows
  PROVE  FirstSim'
  <1> SUFFICES ASSUME Similar'
               PROVE  \E F, n : /\ F = FirstRun(input) /\ n \in 0 .. Len(input) /\ n < pos'
                                /\ FirstPoint(F[n])'
    BY DEF FirstSim
  <1>1. Similar
    BY SimilarBack
  <1>2. phase = "first" /\ Len(input) \in Nat /\ pos \in 1 .. Len(input)
    BY PosFacts DEF FirstPass, More, AtEnd
  <1>3. PICK F, n : /\ F = FirstRun(input) /\ n \in 0 .. Len(input) /\ n < pos
                    /\ FirstPoint(F[n])
    BY <1>1, <1>2 DEF FirstSim
  <1>4. n \in 0 .. Len(input) - 1 /\ n + 1 \in 0 .. Len(input) /\ n + 1 < pos'
    BY <1>2, <1>3
  <1>5. F[n + 1] = FirstTurn(input, F[n])
    BY <1>2, <1>3, <1>4, FirstRunFacts
  <1>6. PICK st, t : st = F[n] /\ t = F[n + 1]
    OBVIOUS
  <1>7. FirstPoint(t)'
    BY <1>1, <1>3, <1>5, <1>6 DEF FirstFollows
  <1>8. FirstPoint(F[n + 1])'
    BY <1>6, <1>7
  <1> QED BY <1>3, <1>4, <1>8

(* A definition: not inside a byte, so that both record the same address,  *)
(* and without a '>', so that both record the same name.                   *)
LEMMA StoreLabelSim == ASSUME LinkInv, FirstSim, StoreLabel PROVE FirstSim'
  <1> DEFINE q == DefinitionEnd(pos + 1)
  <1>1. /\ Len(input) \in Nat /\ TextOK /\ pos \in 1 .. Len(input) /\ phase = "first" /\ Now \in seen
        /\ half \in BOOLEAN /\ ip \in Nat /\ labels \in Seq(Label)
    BY LenProperties DEF LinkInv, Types, TextOK, StoreLabel, FirstPass, More, AtEnd, FirstInv
  <1>2. pos + 1 \in 1 .. Len(input) + 1 /\ q \in pos + 1 .. Len(input) + 1
    BY <1>1, TokenFacts
  <1>3. CASE AtEnd(input, q)
    BY <1>3 DEF StoreLabel, Runaway, FirstSim
  <1>4. CASE ~AtEnd(input, q)
    <2>1. /\ pos' = q + 1 /\ UNCHANGED <<input, phase, ip, half>> /\ seen \subseteq seen'
          /\ labels' = <<[name |-> Name(pos + 1, q), target |-> ip, at |-> pos]>> \o labels
          /\ input[pos] = ":" /\ FirstPass
      BY <1>4 DEF StoreLabel, FpGoto, Char
    <2>2. q \in 1 .. Len(input)
      BY <1>1, <1>2, <1>4 DEF AtEnd
    <2>3. FirstFollows
      <3> SUFFICES ASSUME NEW st, NEW t, Similar, FirstPoint(st), t = FirstTurn(input, st)
                   PROVE  FirstPoint(t)'
        BY DEF FirstFollows
      <3> HIDE DEF q
      <3>1. ~half /\ ~HasBase(pos + 1)
        BY <1>1, <2>1, SimilarFacts DEF Now
      <3>2. TokenEnd(input, pos + 1) = q
        BY <1>1, <1>2, <3>1, SameNames DEF q
      <3>3. Behind(input, q) = q + 1 /\ Token(input, pos + 1, q) = Name(pos + 1, q)
        BY <1>1, <1>2, <2>2, SameNames
      <3>4. PICK d : d = st.defs
        OBVIOUS
      <3>5. st = [pos |-> pos, ip |-> ip, half |-> half, defs |-> d] /\ Mirrors(d, labels)
        BY <3>1, <3>4 DEF FirstPoint
      <3>6. t = [pos |-> q + 1, ip |-> ip, half |-> half,
                 defs |-> Append(d, [name |-> Name(pos + 1, q), target |-> ip])]
        <4>1. FirstCases(pos, ip, half, d, t)
          BY <1>1, <3>5, FirstTurnIs
        <4> QED BY <2>1, <3>2, <3>3, <4>1 DEF FirstCases
      <3>7. PICK l, m : /\ l = <<[name |-> Name(pos + 1, q), target |-> ip, at |-> pos]>> \o labels
                        /\ m = Append(d, [name |-> Name(pos + 1, q), target |-> ip])
        OBVIOUS
      <3>8. Name(pos + 1, q) \in Seq(STRING)
        BY <1>1, <1>2, NameFacts
      <3>9. Mirrors(m, l)
        BY <1>1, <3>5, <3>7, <3>8, MirrorsOn
      <3>10. t = [pos |-> pos', ip |-> IF half' THEN ip' + 1 ELSE ip', half |-> half', defs |-> m]
        BY <2>1, <3>1, <3>6, <3>7
      <3>11. labels' = l /\ t.defs = m
        BY <2>1, <3>7, <3>10
      <3> QED BY <3>9, <3>10, <3>11 DEF FirstPoint
    <2>4. pos' \in pos + 1 .. Len(input) + 1
      BY <1>1, <1>2, <2>1, <2>2
    <2> QED BY <2>1, <2>3, <2>4, FirstOn
  <1> QED BY <1>3, <1>4

(* What the simulator does with the character at pos, when the linker goes *)
(* on to p with i bytes counted and the toggle h.                          *)
FirstGoes(p, i, h) ==
    \A d : FirstTurn(input, [pos |-> pos, ip |-> IF half THEN ip + 1 ELSE ip,
                             half |-> half, defs |-> d])
             = [pos |-> p, ip |-> IF h THEN i + 1 ELSE i, half |-> h, defs |-> d]

(* Anything but a definition leaves the labels as they are.                *)
LEMMA FirstPlain ==
  ASSUME LinkInv, FirstSim, FirstPass, UNCHANGED <<input, labels>>,
         NEW p \in pos + 1 .. Len(input) + 1, NEW i, NEW h, FpGoto(p, i, h),
         Similar => FirstGoes(p, i, h)
  PROVE  FirstSim'
  <1>1. pos' = p /\ ip' = i /\ half' = h /\ seen \subseteq seen'
    BY DEF FpGoto
  <1>2. FirstFollows
    <2> SUFFICES ASSUME NEW st, NEW t, Similar, FirstPoint(st), t = FirstTurn(input, st)
                 PROVE  FirstPoint(t)'
      BY DEF FirstFollows
    <2>1. PICK d : d = st.defs
      OBVIOUS
    <2>2. Mirrors(d, labels)
      BY <2>1 DEF FirstPoint
    <2>3. st = [pos |-> pos, ip |-> IF half THEN ip + 1 ELSE ip, half |-> half, defs |-> d]
      BY <2>1, Zenon DEF FirstPoint
    <2>4. t = [pos |-> p, ip |-> IF h THEN i + 1 ELSE i, half |-> h, defs |-> d]
      BY <2>3, Zenon DEF FirstGoes
    <2>5. t.defs = d
      BY <2>4
    <2>6. t = [pos |-> p, ip |-> IF h THEN i + 1 ELSE i, half |-> h, defs |-> t.defs]
      BY <2>4, <2>5, Zenon
    <2>7. labels' = labels
      OBVIOUS
    <2> QED BY <1>1, <2>2, <2>5, <2>6, <2>7, Zenon DEF FirstPoint
  <1> QED BY <1>1, <1>2, FirstOn

LEMMA FirstFacts ==
  ASSUME LinkInv, FirstPass
  PROVE  /\ Len(input) \in Nat /\ TextOK /\ pos \in 1 .. Len(input) /\ pos + 1 \in 1 .. Len(input) + 1
         /\ half \in BOOLEAN /\ ip \in Nat /\ phase = "first"
  BY LenProperties DEF LinkInv, Types, TextOK, FirstPass, More, AtEnd

(* A reference, whose base the simulator reads behind a pointer only.      *)
LEMMA FpReferenceSim == ASSUME LinkInv, FirstSim, FpReference PROVE FirstSim'
  <1> DEFINE q == ReferenceEnd(pos + 1)
  <1>1. FirstPass /\ Char \in ShiftOps \cup PointerOps
    BY DEF FpReference
  <1>2. q \in pos + 1 .. Len(input) + 1
    BY <1>1, FirstFacts, TokenFacts
  <1>3. CASE AtEnd(input, q)
    BY <1>3 DEF FpReference, Runaway, FirstSim
  <1>4. CASE ~AtEnd(input, q)
    <2>1. FpGoto(q + 1, ip + FpStep(Char), half) /\ UNCHANGED <<input, labels>>
      BY <1>4 DEF FpReference
    <2>2. q \in 1 .. Len(input) /\ q + 1 \in pos + 1 .. Len(input) + 1
      BY <1>1, <1>2, <1>4, FirstFacts DEF AtEnd
    <2>3. ASSUME Similar
          PROVE  FirstGoes(q + 1, ip + FpStep(Char), half)
      <3> SUFFICES ASSUME NEW d, NEW i, i = IF half THEN ip + 1 ELSE ip,
                          NEW st, st = [pos |-> pos, ip |-> i, half |-> half, defs |-> d]
                   PROVE  FirstTurn(input, st) =
                            [pos |-> q + 1, ip |-> IF half THEN ip + FpStep(Char) + 1 ELSE ip + FpStep(Char),
                             half |-> half, defs |-> d]
        BY Zenon DEF FirstGoes
      <3>1. FirstCases(pos, i, half, d, FirstTurn(input, st))
        BY <1>1, FirstFacts, FirstTurnIs
      <3>2. RefEnd(input, pos + 1) = q /\ Behind(input, q) = q + 1
        BY <1>1, <2>2, FirstFacts, SameNames
      <3>3. ip \in Nat
        BY <1>1, FirstFacts
      <3> HIDE DEF q
      <3>4. CASE Char \in PointerOps
        <4>1. FirstTurn(input, st) = [pos |-> q + 1, ip |-> i + 4, half |-> half, defs |-> d]
          BY <3>1, <3>2, <3>4 DEF FirstCases, Char
        <4>2. i + 4 = IF half THEN ip + FpStep(Char) + 1 ELSE ip + FpStep(Char)
          BY <3>3, <3>4 DEF FpStep
        <4> QED BY <4>1, <4>2
      <3>5. CASE Char \in ShiftOps
        <4>1. ~HasBase(pos + 1)
          BY <1>1, <2>3, <3>5, FirstFacts, SimilarFacts DEF Char
        <4>2. TokenEnd(input, pos + 1) = q
          BY <1>1, <4>1, FirstFacts, SameNames DEF q, ReferenceEnd
        <4>3. FirstTurn(input, st) = [pos |-> q + 1, ip |-> i, half |-> half, defs |-> d]
          BY <3>1, <3>2, <3>5, <4>2 DEF FirstCases, Char
        <4>4. i = IF half THEN ip + FpStep(Char) + 1 ELSE ip + FpStep(Char)
          BY <3>3, <3>5 DEF FpStep, ShiftOps, PointerOps
        <4> QED BY <4>3, <4>4
      <3> QED BY <1>1, <3>4, <3>5
    <2> HIDE DEF q
    <2> QED BY <1>1, <2>1, <2>2, <2>3, FirstPlain
  <1> QED BY <1>3, <1>4

(* The eight characters of a dot are thrown away by both.                  *)
LEMMA FpDotSim == ASSUME LinkInv, FirstSim, FpDot PROVE FirstSim'
  <1> DEFINE p == Skip(input, pos, 9)
  <1>1. FirstPass /\ Char = "." /\ FpGoto(p, ip, half) /\ UNCHANGED <<input, labels>>
    BY DEF FpDot
  <1>2. p \in pos + 1 .. Len(input) + 1
    BY <1>1, FirstFacts DEF Skip
  <1>3. FirstGoes(p, ip, half)
    <2> SUFFICES ASSUME NEW d, NEW i, i = IF half THEN ip + 1 ELSE ip,
                        NEW st, st = [pos |-> pos, ip |-> i, half |-> half, defs |-> d]
                 PROVE  FirstTurn(input, st) =
                          [pos |-> p, ip |-> IF half THEN ip + 1 ELSE ip, half |-> half, defs |-> d]
      BY Zenon DEF FirstGoes
    <2>1. FirstCases(pos, i, half, d, FirstTurn(input, st))
      BY <1>1, FirstFacts, FirstTurnIs
    <2>2. FirstTurn(input, st) = [pos |-> p, ip |-> i, half |-> half, defs |-> d]
      BY <1>1, <2>1 DEF FirstCases, Char
    <2> QED BY <2>2
  <1> HIDE DEF p
  <1> QED BY <1>1, <1>2, <1>3, FirstPlain

(* A nibble, of which the one counts the first and the other the second,   *)
(* or a character without meaning.                                         *)
LEMMA FpHexSim == ASSUME LinkInv, FirstSim, FpHex PROVE FirstSim'
  <1>1. FirstPass /\ HexChar(Char) /\ UNCHANGED <<input, labels>>
    BY DEF FpHex
  <1>2. ASSUME NEW d, NEW i, i = IF half THEN ip + 1 ELSE ip,
               NEW st, st = [pos |-> pos, ip |-> i, half |-> half, defs |-> d]
        PROVE  FirstCases(pos, i, half, d, FirstTurn(input, st))
    BY <1>1, <1>2, FirstFacts, FirstTurnIs
  <1>3. CASE Char \in HexDigit
    <2>1. FpGoto(pos + 1, FpCount, ~half) /\ pos + 1 \in pos + 1 .. Len(input) + 1
      BY <1>1, <1>3, FirstFacts DEF FpHex
    <2>2. FirstGoes(pos + 1, FpCount, ~half)
      <3> SUFFICES ASSUME NEW d, NEW i, i = IF half THEN ip + 1 ELSE ip,
                          NEW st, st = [pos |-> pos, ip |-> i, half |-> half, defs |-> d]
                   PROVE  FirstTurn(input, st) =
                            [pos |-> pos + 1, ip |-> IF ~half THEN FpCount + 1 ELSE FpCount,
                             half |-> ~half, defs |-> d]
        BY Zenon DEF FirstGoes
      <3>1. FirstCases(pos, i, half, d, FirstTurn(input, st))
        BY <1>2
      <3>2. FirstTurn(input, st) = [pos |-> pos + 1, ip |-> IF half THEN i ELSE i + 1,
                                    half |-> ~half, defs |-> d]
        BY <1>1, <1>3, <3>1 DEF FirstCases, Char
      <3>3. (IF half THEN i ELSE i + 1) = IF ~half THEN FpCount + 1 ELSE FpCount
        BY <1>1, FirstFacts DEF FpCount
      <3> QED BY <3>2, <3>3, Zenon
    <2> QED BY <1>1, <2>1, <2>2, FirstPlain
  <1>4. CASE Char \notin HexDigit
    <2> DEFINE p == AfterHex(Char, pos + 1)
    <2>1. FpGoto(p, ip, half)
      BY <1>4 DEF FpHex
    <2>2. p \in pos + 1 .. Len(input) + 1
      <3>1. AfterComment(input, pos + 1) \in pos + 1 .. Len(input) + 1
        BY <1>1, FirstFacts, AfterCommentFacts
      <3> QED BY <1>1, <3>1, FirstFacts DEF AfterHex
    <2>3. FirstGoes(p, ip, half)
      <3> SUFFICES ASSUME NEW d, NEW i, i = IF half THEN ip + 1 ELSE ip,
                          NEW st, st = [pos |-> pos, ip |-> i, half |-> half, defs |-> d]
                   PROVE  FirstTurn(input, st) =
                            [pos |-> p, ip |-> IF half THEN ip + 1 ELSE ip, half |-> half, defs |-> d]
        BY Zenon DEF FirstGoes
      <3>1. FirstCases(pos, i, half, d, FirstTurn(input, st))
        BY <1>2
      <3>2. FirstTurn(input, st) = [pos |-> p, ip |-> i, half |-> half, defs |-> d]
        BY <1>1, <1>4, <3>1 DEF FirstCases, Char
      <3> QED BY <3>2
    <2> HIDE DEF p
    <2> QED BY <1>1, <2>1, <2>2, <2>3, FirstPlain
  <1> QED BY <1>3, <1>4

-----------------------------------------------------------------------------
(* The second passes side by side *)

(* A run that rests in one turn rests to its end.                          *)
LEMMA Rests ==
  ASSUME NEW f, NEW N \in Nat, NEW n \in 0 .. N,
         \A m \in n .. N - 1 : f[m] = f[n] => f[m + 1] = f[n]
  PROVE  f[N] = f[n]
  <1> DEFINE T == {m \in n .. N : f[m] # f[n]}
  <1> SUFFICES ASSUME T # {}
               PROVE  FALSE
    OBVIOUS
  <1>1. T \subseteq Nat
    OBVIOUS
  <1>2. PICK m \in T : \A k \in T : m <= k
    BY <1>1, Least
  <1>3. m \in n .. N /\ f[m] # f[n] /\ m # n
    BY <1>2
  <1>4. m - 1 \in n .. N - 1 /\ (m - 1) + 1 = m
    BY <1>3
  <1>5. f[m - 1] = f[n]
    <2> SUFFICES ASSUME f[m - 1] # f[n]
                 PROVE  FALSE
      OBVIOUS
    <2>1. m - 1 \in T
      BY <1>4
    <2> QED BY <1>2, <1>3, <2>1
  <1>6. f[(m - 1) + 1] = f[n]
    BY <1>4, <1>5
  <1> QED BY <1>3, <1>4, <1>6

LEMMA FirstRests ==
  ASSUME NEW s, Len(s) \in Nat, NEW n \in 0 .. Len(s), AtEnd(s, FirstRun(s)[n].pos)
  PROVE  first_pass(s) = FirstRun(s)[n].defs
  <1>1. PICK f : f = FirstRun(s)
    OBVIOUS
  <1>2. ASSUME NEW m \in n .. Len(s) - 1, f[m] = f[n]
        PROVE  f[m + 1] = f[n]
    <2>1. f[m + 1] = FirstTurn(s, f[n])
      BY <1>1, <1>2, FirstRunFacts
    <2>2. FirstTurn(s, f[n]) = f[n]
      <3>1. PICK st : st = f[n]
        OBVIOUS
      <3>2. AtEnd(s, st.pos)
        BY <1>1, <3>1
      <3>3. FirstTurn(s, st) = st
        BY <3>2, Zenon DEF FirstTurn
      <3> QED BY <3>1, <3>3
    <2> QED BY <2>1, <2>2
  <1>3. f[Len(s)] = f[n]
    BY <1>2, Rests
  <1> QED BY <1>1, <1>3, FirstRunFacts

LEMMA SecondRests ==
  ASSUME NEW s, Len(s) \in Nat, NEW defs, NEW n \in 0 .. Len(s), AtEnd(s, SecondRun(s, defs)[n].pos)
  PROVE  second_pass(s, defs) = SecondRun(s, defs)[n].out
  <1>1. PICK f : f = SecondRun(s, defs)
    OBVIOUS
  <1>2. ASSUME NEW m \in n .. Len(s) - 1, f[m] = f[n]
        PROVE  f[m + 1] = f[n]
    <2>1. f[m + 1] = SecondTurn(s, defs, f[n])
      BY <1>1, <1>2, SecondRunFacts
    <2>2. SecondTurn(s, defs, f[n]) = f[n]
      <3>1. PICK st : st = f[n]
        OBVIOUS
      <3>2. AtEnd(s, st.pos)
        BY <1>1, <3>1
      <3>3. SecondTurn(s, defs, st) = st
        BY <3>2, Zenon DEF SecondTurn
      <3> QED BY <3>1, <3>3
    <2> QED BY <2>1, <2>2
  <1>3. f[Len(s)] = f[n]
    BY <1>2, Rests
  <1> QED BY <1>1, <1>3, SecondRunFacts

SecondPoint(st) ==
    st = [pos |-> pos, ip |-> ip, acc |-> IF half THEN hold ELSE -1, sr |-> sr, out |-> out]

LabelSim ==
    phase \in {"second", "terminate", "returned"} /\ Similar => Mirrors(first_pass(input), labels)

SecondSim ==
    phase = "second" /\ Similar =>
        \E F, n : /\ F = SecondRun(input, first_pass(input)) /\ n \in 0 .. Len(input) /\ n < pos
                  /\ SecondPoint(F[n])

DoneSim == phase \in {"terminate", "returned"} /\ depth = 0 /\ Similar => out = Sim(input)

(* The linker keeps up with the simulator, turn by turn; between the       *)
(* passes the two have the same labels.                                    *)
SimInv == FirstSim /\ LabelSim /\ SecondSim /\ DoneSim

SecondFollows ==
    \A st, t, defs : Similar /\ Mirrors(defs, labels) /\ SecondPoint(st)
                       /\ t = SecondTurn(input, defs, st) => SecondPoint(t)'

(* A turn of the one is a turn of the other.                               *)
LEMMA SecondOn ==
  ASSUME LinkInv, SimInv, SecondPass, UNCHANGED <<input, phase, labels, seen>>,
         pos' \in pos + 1 .. Len(input) + 1, SecondFollows
  PROVE  SimInv'
  <1>1. phase = "second" /\ phase' = "second" /\ Len(input) \in Nat /\ pos \in 1 .. Len(input)
    BY PosFacts DEF SecondPass, More, AtEnd
  <1>2. Similar' => Similar
    BY SimilarBack
  <1>3. LabelSim'
    BY <1>1, <1>2 DEF SimInv, LabelSim
  <1>4. SecondSim'
    <2> SUFFICES ASSUME Similar'
                 PROVE  \E F, n : /\ F = SecondRun(input, first_pass(input)) /\ n \in 0 .. Len(input)
                                  /\ n < pos' /\ SecondPoint(F[n])'
      BY DEF SecondSim
    <2>1. Similar
      BY <1>2
    <2>2. PICK defs : defs = first_pass(input)
      OBVIOUS
    <2>3. Mirrors(defs, labels)
      BY <1>1, <2>1, <2>2 DEF SimInv, LabelSim
    <2>4. PICK F, n : /\ F = SecondRun(input, defs) /\ n \in 0 .. Len(input) /\ n < pos
                      /\ SecondPoint(F[n])
      BY <1>1, <2>1, <2>2 DEF SimInv, SecondSim
    <2>5. n \in 0 .. Len(input) - 1 /\ n + 1 \in 0 .. Len(input) /\ n + 1 < pos'
      BY <1>1, <2>4
    <2>6. F[n + 1] = SecondTurn(input, defs, F[n])
      BY <1>1, <2>4, <2>5, SecondRunFacts
    <2>7. PICK st, t : st = F[n] /\ t = F[n + 1]
      OBVIOUS
    <2>8. SecondPoint(t)'
      BY <2>1, <2>3, <2>4, <2>6, <2>7 DEF SecondFollows
    <2>9. SecondPoint(F[n + 1])'
      BY <2>7, <2>8
    <2> QED BY <2>2, <2>4, <2>5, <2>9
  <1> QED BY <1>1, <1>3, <1>4 DEF SimInv, FirstSim, DoneSim

(* What the simulator does with the character at pos, when the linker      *)
(* takes this step.                                                        *)
SecondGoes ==
    \A a, defs, t :
        /\ a = (IF half THEN hold ELSE -1) /\ Mirrors(defs, labels)
        /\ SecondCases(pos, ip, a, sr, out, defs, t)
        => t = [pos |-> pos', ip |-> ip', acc |-> IF half' THEN hold' ELSE -1,
                sr |-> sr', out |-> out']

LEMMA SecondPlain ==
  ASSUME LinkInv, SimInv, SecondPass, UNCHANGED <<input, phase, labels, seen>>,
         pos' \in pos + 1 .. Len(input) + 1, Similar => SecondGoes
  PROVE  SimInv'
  <1>1. SecondFollows
    <2> SUFFICES ASSUME NEW st, NEW t, NEW defs, Similar, Mirrors(defs, labels), SecondPoint(st),
                        t = SecondTurn(input, defs, st)
                 PROVE  SecondPoint(t)'
      BY Zenon DEF SecondFollows
    <2>1. PICK a : a = IF half THEN hold ELSE -1
      OBVIOUS
    <2>2. a \in -1 .. 15
      BY <2>1, SecondFacts
    <2>3. st = [pos |-> pos, ip |-> ip, acc |-> a, sr |-> sr, out |-> out]
      BY <2>1, Zenon DEF SecondPoint
    <2>4. SecondCases(pos, ip, a, sr, out, defs, t)
      BY <2>2, <2>3, SecondFacts, SecondTurnIs
    <2>5. SecondGoes
      OBVIOUS
    <2>6. t = [pos |-> pos', ip |-> ip', acc |-> IF half' THEN hold' ELSE -1,
               sr |-> sr', out |-> out']
      BY <2>1, <2>4, <2>5, Zenon DEF SecondGoes
    <2>7. t' = t
      OBVIOUS
    <2> QED BY <2>6, Zenon DEF SecondPoint
  <1> QED BY <1>1, SecondOn

(* A definition is passed over by both.                                    *)
LEMMA SpDropSim == ASSUME LinkInv, SimInv, SpDrop PROVE SimInv'
  <1> DEFINE q == DefinitionEnd(pos + 1)
  <1>1. SecondPass /\ Char = ":" /\ UNCHANGED <<input, seen>>
    BY DEF SpDrop
  <1>2. pos + 1 \in 1 .. Len(input) + 1 /\ q \in pos + 1 .. Len(input) + 1
    BY <1>1, SecondFacts, TokenFacts
  <1>3. CASE AtEnd(input, q)
    BY <1>3 DEF SpDrop, Runaway, SimInv, FirstSim, LabelSim, SecondSim, DoneSim
  <1>4. CASE ~AtEnd(input, q)
    <2>1. pos' = q + 1 /\ UNCHANGED <<phase, ip, half, hold, labels, sr, out>>
      BY <1>4 DEF SpDrop
    <2>2. q \in 1 .. Len(input) /\ pos' \in pos + 1 .. Len(input) + 1
      BY <1>1, <1>2, <1>4, <2>1, SecondFacts DEF AtEnd
    <2>3. ASSUME Similar
          PROVE  SecondGoes
      <3> SUFFICES ASSUME NEW a, NEW defs, NEW t, a = (IF half THEN hold ELSE -1),
                          SecondCases(pos, ip, a, sr, out, defs, t)
                   PROVE  t = [pos |-> pos', ip |-> ip', acc |-> IF half' THEN hold' ELSE -1,
                               sr |-> sr', out |-> out']
        BY Zenon DEF SecondGoes
      <3>1. ~HasBase(pos + 1)
        BY <1>1, <2>3, SecondFacts, SimilarFacts DEF Char
      <3> HIDE DEF q
      <3>2. TokenEnd(input, pos + 1) = q /\ Behind(input, q) = q + 1
        BY <1>1, <1>2, <2>2, <3>1, SecondFacts, SameNames DEF q
      <3>3. t = [pos |-> q + 1, ip |-> ip, acc |-> a, sr |-> sr, out |-> out]
        BY <1>1, <3>2 DEF SecondCases, Char
      <3> QED BY <2>1, <3>3
    <2> QED BY <1>1, <2>1, <2>2, <2>3, SecondPlain
  <1> QED BY <1>3, <1>4

(* The name, the base and the end of a reference are the same to both.     *)
LEMMA ReferenceSame ==
  ASSUME LinkInv, SpReference, RefEnds
  PROVE  /\ RefEnd(input, pos + 1) = ReferenceEnd(pos + 1)
         /\ Behind(input, ReferenceEnd(pos + 1)) = ReferenceEnd(pos + 1) + 1
         /\ ReferenceEnd(pos + 1) + 1 \in pos + 1 .. Len(input) + 1
         /\ Token(input, pos + 1, TokenEnd(input, pos + 1)) = RefName
         /\ WithBase(input, pos + 1) <=> HasBase(pos + 1)
         /\ Token(input, TokenEnd(input, pos + 1) + 1, RefEnd(input, pos + 1)) = RefBase
  <1> DEFINE q == ReferenceEnd(pos + 1)
             e == NameEnd(pos + 1)
  <1>1. SecondPass
    BY DEF SpReference
  <1>2. pos + 1 \in 1 .. Len(input) + 1 /\ q \in pos + 1 .. Len(input) + 1 /\ TextOK
        /\ Len(input) \in Nat /\ pos \in 1 .. Len(input)
    BY <1>1, SecondFacts, TokenFacts
  <1>3. q \in 1 .. Len(input)
    BY <1>2 DEF RefEnds, AtEnd
  <1>4. /\ RefEnd(input, pos + 1) = q /\ TokenEnd(input, pos + 1) = e
        /\ WithBase(input, pos + 1) <=> HasBase(pos + 1)
        /\ Token(input, pos + 1, e) = Name(pos + 1, e)
        /\ Behind(input, q) = q + 1
    BY <1>2, <1>3, SameNames
  <1>5. Token(input, e + 1, q) = Name(e + 1, q)
    BY DEF Token, Name
  <1> HIDE DEF q, e
  <1>6. q + 1 \in pos + 1 .. Len(input) + 1
    BY <1>2, <1>3
  <1> QED BY <1>4, <1>5, <1>6 DEF q, e, RefName, RefBase

(* A pointer.                                                              *)
LEMMA SpPointerSim == ASSUME LinkInv, SimInv, SpPointer PROVE SimInv'
  <1>1. /\ SecondPass /\ SpReference /\ Char \in PointerOps /\ RefEnds /\ BaseOK /\ Resolved(RefName)
        /\ pos' = ReferenceEnd(pos + 1) + 1 /\ ip' = Here
        /\ UNCHANGED <<input, phase, labels, seen, half, hold, sr>>
    BY DEF SpPointer, SpReference
  <1>2. PICK from : from = CASE Char = "&" -> 0
                             [] Char = "%" /\ HasBase(pos + 1) -> GetTarget(RefBase)
                             [] OTHER -> Here
    OBVIOUS
  <1>3. out' = out \o PointerBytes(GetTarget(RefName) - from)
    BY <1>2 DEF SpPointer
  <1>4. Here = ip + 4
    BY <1>1 DEF Here
  <1>5. pos' \in pos + 1 .. Len(input) + 1
    BY <1>1, ReferenceSame
  <1>6. SecondGoes
    <2> SUFFICES ASSUME NEW a, NEW defs, NEW t, a = (IF half THEN hold ELSE -1), Mirrors(defs, labels),
                        SecondCases(pos, ip, a, sr, out, defs, t)
                 PROVE  t = [pos |-> pos', ip |-> ip', acc |-> IF half' THEN hold' ELSE -1,
                             sr |-> sr', out |-> out']
      BY Zenon DEF SecondGoes
    <2>1. Target(defs, RefName) = GetTarget(RefName)
      BY <1>1, SecondFacts, TargetIs
    <2>2. HasBase(pos + 1) => Target(defs, RefBase) = GetTarget(RefBase)
      BY <1>1, SecondFacts, TargetIs DEF BaseOK
    <2>3. PICK g : g = GetTarget(RefName)
      OBVIOUS
    <2>4. PICK b : b = IF HasBase(pos + 1) THEN GetTarget(RefBase) ELSE ip + 4
      OBVIOUS
    <2>5. b = IF WithBase(input, pos + 1)
              THEN Target(defs, Token(input, TokenEnd(input, pos + 1) + 1, RefEnd(input, pos + 1)))
              ELSE ip + 4
      BY <1>1, <2>2, <2>4, ReferenceSame
    <2>6. g = Target(defs, Token(input, pos + 1, TokenEnd(input, pos + 1)))
      BY <1>1, <2>1, <2>3, ReferenceSame
    <2>7. Behind(input, RefEnd(input, pos + 1)) = pos'
      BY <1>1, ReferenceSame
    <2>8. g \in Int
      BY <1>1, <2>3, GetTargetFacts, SecondFacts
    <2>9. CASE Char = "&"
      <3>1. t = [pos |-> pos', ip |-> ip + 4, acc |-> a, sr |-> sr, out |-> out \o Pack(g)]
        BY <2>6, <2>7, <2>9 DEF SecondCases, Char
      <3>2. GetTarget(RefName) - from = g
        BY <1>2, <2>3, <2>8, <2>9
      <3>3. out' = out \o Pack(g)
        BY <1>3, <3>2 DEF Pack, PointerBytes
      <3> QED BY <1>1, <1>4, <3>1, <3>3
    <2>10. CASE Char = "%"
      <3>1. t = [pos |-> pos', ip |-> ip + 4, acc |-> a, sr |-> sr, out |-> out \o Pack(g - b)]
        BY <2>5, <2>6, <2>7, <2>10 DEF SecondCases, Char
      <3>2. from = b
        BY <1>2, <1>4, <2>4, <2>10
      <3>3. out' = out \o Pack(g - b)
        BY <1>3, <2>3, <3>2 DEF Pack, PointerBytes
      <3> QED BY <1>1, <1>4, <3>1, <3>3
    <2> QED BY <1>1, <2>9, <2>10 DEF PointerOps
  <1> QED BY <1>1, <1>5, <1>6, SecondPlain

(* Both encode alike.                                                      *)
LEMMA EncodeSame ==
  ASSUME NEW c \in ShiftOps, NEW disp \in Int
  PROVE  Encoded(c, disp) = Encode(c, disp)
  <1>1. CASE c = "~"
    BY <1>1 DEF Encoded, Encode, encode_U
  <1>2. CASE c = "!"
    BY <1>2 DEF Encoded, Encode, encode_I
  <1>3. CASE c = "@"
    BY <1>3 DEF Encoded, Encode, encode_B
  <1>4. CASE c = "$"
    BY <1>4 DEF Encoded, Encode, encode_J
  <1> QED BY <1>1, <1>2, <1>3, <1>4 DEF ShiftOps

(* An instruction field, measured from the same address.                   *)
LEMMA SpEncodeSim == ASSUME LinkInv, SimInv, SpEncode PROVE SimInv'
  <1>1. /\ SecondPass /\ SpReference /\ Char \in ShiftOps /\ RefEnds /\ Resolved(RefName)
        /\ pos' = ReferenceEnd(pos + 1) + 1
        /\ sr' = Xor(Encode(Char, GetTarget(RefName) - Here))
        /\ UNCHANGED <<input, phase, labels, seen, ip, half, hold, out>>
    BY DEF SpEncode, SpReference
  <1>2. Here = ip
    BY <1>1 DEF Here, ShiftOps, PointerOps
  <1>3. pos' \in pos + 1 .. Len(input) + 1
    BY <1>1, ReferenceSame
  <1>4. SecondGoes
    <2> SUFFICES ASSUME NEW a, NEW defs, NEW t, a = (IF half THEN hold ELSE -1), Mirrors(defs, labels),
                        SecondCases(pos, ip, a, sr, out, defs, t)
                 PROVE  t = [pos |-> pos', ip |-> ip', acc |-> IF half' THEN hold' ELSE -1,
                             sr |-> sr', out |-> out']
      BY Zenon DEF SecondGoes
    <2>1. Target(defs, RefName) = GetTarget(RefName)
      BY <1>1, SecondFacts, TargetIs
    <2>2. PICK g : g = GetTarget(RefName)
      OBVIOUS
    <2>3. g = Target(defs, Token(input, pos + 1, TokenEnd(input, pos + 1)))
      BY <1>1, <2>1, <2>2, ReferenceSame
    <2>4. Behind(input, RefEnd(input, pos + 1)) = pos'
      BY <1>1, ReferenceSame
    <2>5. g \in Int /\ ip \in Int
      BY <1>1, <2>2, GetTargetFacts, SecondFacts
    <2>6. t = [pos |-> pos', ip |-> ip, acc |-> a, sr |-> XorWord(sr, Encoded(Char, g - ip)), out |-> out]
      BY <1>1, <2>3, <2>4 DEF SecondCases, Char
    <2>7. Encoded(Char, g - ip) = Encode(Char, g - ip)
      BY <1>1, <2>5, EncodeSame
    <2>8. XorWord(sr, Encoded(Char, g - ip)) = sr'
      BY <1>1, <1>2, <2>2, <2>7 DEF XorWord, Xor
    <2> QED BY <1>1, <2>6, <2>8
  <1> QED BY <1>1, <1>3, <1>4, SecondPlain

(* Eight digits behind a dot.                                              *)
LEMMA SpDotSim == ASSUME LinkInv, SimInv, SpDot PROVE SimInv'
  <1>1. /\ SecondPass /\ Char = "."
        /\ UNCHANGED <<input, phase, labels, seen, ip, half, hold, out>>
    BY DEF SpDot
  <1>2. PICK r \in Reads(pos + 1, 8) : pos' = r[1] /\ sr' = Xor([op |-> ".", field |-> r[2]])
    BY DEF SpDot
  <1>3. pos' \in pos + 1 .. Len(input) + 1
    BY <1>1, <1>2, SecondFacts, ReadsFacts
  <1>4. ASSUME Similar
        PROVE  SecondGoes
    <2> SUFFICES ASSUME NEW a, NEW defs, NEW t, a = (IF half THEN hold ELSE -1), Mirrors(defs, labels),
                        SecondCases(pos, ip, a, sr, out, defs, t)
                 PROVE  t = [pos |-> pos', ip |-> ip', acc |-> IF half' THEN hold' ELSE -1,
                             sr |-> sr', out |-> out']
      BY Zenon DEF SecondGoes
    <2>1. \A q \in pos + 1 .. (pos + 1) + 7 : q <= Len(input) /\ input[q] \in HexDigit
      <3>1. \A q \in pos + 1 .. pos + 8 : q <= Len(input) /\ input[q] \in HexDigit
        BY <1>1, <1>4, SecondFacts, SimilarFacts DEF Char
      <3>2. (pos + 1) + 7 = pos + 8
        BY <1>1, SecondFacts
      <3> QED BY <3>1, <3>2
    <2>2. PICK d : d = ReadDot(input, pos + 1)
      OBVIOUS
    <2>3. d = [pos |-> r[1], nibbles |-> r[2]]
      BY <1>1, <1>2, <2>1, <2>2, SecondFacts, SameDot
    <2>4. d.pos = pos' /\ d.nibbles = r[2]
      BY <1>2, <2>3
    <2>5. t = [pos |-> d.pos, ip |-> ip, acc |-> a,
               sr |-> XorWord(sr, [op |-> ".", field |-> d.nibbles]), out |-> out]
      BY <1>1, <2>2 DEF SecondCases, Char
    <2>6. XorWord(sr, [op |-> ".", field |-> d.nibbles]) = sr'
      BY <1>2, <2>4 DEF XorWord, Xor
    <2> QED BY <1>1, <2>4, <2>5, <2>6
  <1> QED BY <1>1, <1>3, <1>4, SecondPlain

(* A byte leaves the shift registers of both.                              *)
LEMMA SpHexSim == ASSUME LinkInv, SimInv, SpHex PROVE SimInv'
  <1>1. /\ SecondPass /\ HexChar(Char) /\ pos' = AfterHex(Char, pos + 1)
        /\ UNCHANGED <<input, phase, labels, seen>>
    BY DEF SpHex
  <1>2. pos' \in pos + 1 .. Len(input) + 1
    <2>1. AfterComment(input, pos + 1) \in pos + 1 .. Len(input) + 1
      BY <1>1, SecondFacts, AfterCommentFacts
    <2> QED BY <1>1, <2>1, SecondFacts DEF AfterHex
  <1>3. SecondGoes
    <2> SUFFICES ASSUME NEW a, NEW defs, NEW t, a = (IF half THEN hold ELSE -1), Mirrors(defs, labels),
                        SecondCases(pos, ip, a, sr, out, defs, t)
                 PROVE  t = [pos |-> pos', ip |-> ip', acc |-> IF half' THEN hold' ELSE -1,
                             sr |-> sr', out |-> out']
      BY Zenon DEF SecondGoes
    <2>1. CASE Char \notin HexDigit
      <3>1. UNCHANGED <<ip, half, hold, sr, out>>
        BY <2>1 DEF SpHex
      <3>2. t = [pos |-> pos', ip |-> ip, acc |-> a, sr |-> sr, out |-> out]
        BY <1>1, <2>1 DEF SecondCases, Char
      <3> QED BY <3>1, <3>2
    <2>2. CASE Char \in HexDigit
      <3>1. pos' = pos + 1 /\ Nibble(Char) \in 0 .. 15
        BY <1>1, <2>2, DigitFacts DEF AfterHex
      <3>2. CASE ~half
        <4>1. half' = TRUE /\ hold' = Nibble(Char) /\ UNCHANGED <<ip, sr, out>>
          BY <2>2, <3>2, Zenon DEF SpHex
        <4>2. a < 0
          BY <3>2
        <4>3. t = [pos |-> pos', ip |-> ip, acc |-> Nibble(Char), sr |-> sr, out |-> out]
          BY <1>1, <2>2, <3>1, <4>2 DEF SecondCases, Char
        <4> QED BY <4>1, <4>3
      <3>3. CASE half
        <4>1. /\ out' = Append(out, [value |-> hold * 16 + Nibble(Char), xor |-> LowByte])
              /\ sr' = Shift /\ half' = FALSE /\ ip' = ip + 1
          BY <2>2, <3>3, Zenon DEF SpHex
        <4>2. ~ (a < 0) /\ a = hold
          BY <1>1, <3>3, SecondFacts
        <4>3. t = [pos |-> pos', ip |-> ip + 1, acc |-> -1, sr |-> Shifted(sr),
                   out |-> Append(out, [value |-> a * 16 + Nibble(Char), xor |-> LowBytes(sr)])]
          BY <1>1, <2>2, <3>1, <4>2 DEF SecondCases, Char
        <4>4. Shifted(sr) = Shift /\ LowBytes(sr) = LowByte
          BY Zenon DEF Shifted, Shift, LowBytes, LowByte
        <4>5. t = [pos |-> pos', ip |-> ip', acc |-> -1, sr |-> sr', out |-> out']
          BY <4>1, <4>2, <4>3, <4>4
        <4> QED BY <4>1, <4>5
      <3> QED BY <1>1, <3>2, <3>3, SecondFacts
    <2> QED BY <2>1, <2>2
  <1> QED BY <1>1, <1>2, <1>3, SecondPlain

-----------------------------------------------------------------------------
(* From the one pass to the other, and to the end *)

(* In the first pass there is nothing to say of the second yet.            *)
LEMMA FirstOnly ==
  ASSUME FirstSim', phase' \in {"first", "runaway"}
  PROVE  SimInv'
  BY DEF SimInv, LabelSim, SecondSim, DoneSim

(* Both passes begin at the beginning.                                     *)
LEMMA InitSim == Init => SimInv
  <1> SUFFICES ASSUME Init
               PROVE  SimInv
    OBVIOUS
  <1>1. /\ input \in Seq(STRING) /\ Len(input) \in Nat /\ phase = "first" /\ pos = 1 /\ ip = 0
        /\ half = FALSE /\ labels = << >>
    BY Hex2RvAssumption, LenProperties DEF Init
  <1>2. PICK F : F = FirstRun(input)
    OBVIOUS
  <1>3. PICK st : st = F[0]
    OBVIOUS
  <1>4. st = [pos |-> 1, ip |-> 0, half |-> FALSE, defs |-> << >>]
    BY <1>1, <1>2, <1>3, FirstRunFacts DEF FirstStart
  <1>5. Mirrors(<< >>, << >>)
    BY DEF Mirrors
  <1>6. st.defs = << >>
    BY <1>4
  <1>7. FirstPoint(st)
    BY <1>1, <1>4, <1>5, <1>6 DEF FirstPoint
  <1>8. FirstPoint(F[0]) /\ 0 \in 0 .. Len(input) /\ 0 < pos
    BY <1>1, <1>3, <1>7
  <1>9. FirstSim
    BY <1>2, <1>8, Zenon DEF FirstSim
  <1> QED BY <1>1, <1>9 DEF SimInv, LabelSim, SecondSim, DoneSim

(* The first pass is over: the simulator has the labels of the linker.     *)
LEMMA FpDoneSim == ASSUME LinkInv, SimInv, FpDone PROVE SimInv'
  <1>1. /\ phase = "first" /\ phase' = "second" /\ pos' = 1 /\ ip' = 0 /\ half' = FALSE /\ sr' = {}
        /\ UNCHANGED <<input, labels, out, seen>> /\ AtEnd(input, pos)
    BY DEF FpDone, More
  <1>2. Len(input) \in Nat /\ out = << >>
    BY <1>1, LenProperties DEF LinkInv, Types, TextOK, FirstInv
  <1>3. Similar' => Similar
    BY <1>1, SimilarBack
  <1>4. ASSUME Similar
        PROVE  Mirrors(first_pass(input), labels)
    <2>1. PICK F, n : /\ F = FirstRun(input) /\ n \in 0 .. Len(input) /\ n < pos
                      /\ FirstPoint(F[n])
      BY <1>1, <1>4 DEF SimInv, FirstSim
    <2>2. PICK st : st = F[n]
      OBVIOUS
    <2>3. Mirrors(st.defs, labels) /\ st.pos = pos
      BY <2>1, <2>2 DEF FirstPoint
    <2>4. first_pass(input) = F[n].defs
      BY <1>1, <1>2, <2>1, <2>2, <2>3, FirstRests
    <2> QED BY <2>2, <2>3, <2>4
  <1>5. LabelSim'
    BY <1>1, <1>3, <1>4 DEF LabelSim
  <1>6. SecondSim'
    <2>1. PICK F : F = SecondRun(input, first_pass(input))
      OBVIOUS
    <2>2. PICK st : st = F[0]
      OBVIOUS
    <2>3. st = [pos |-> 1, ip |-> 0, acc |-> -1, sr |-> {}, out |-> << >>]
      BY <1>2, <2>1, <2>2, SecondRunFacts DEF SecondStart
    <2>4. SecondPoint(st)'
      BY <1>1, <1>2, <2>3 DEF SecondPoint
    <2>5. SecondPoint(F[0])' /\ 0 \in 0 .. Len(input) /\ 0 < pos'
      BY <1>1, <1>2, <2>2, <2>4
    <2> QED BY <1>1, <2>1, <2>5 DEF SecondSim
  <1> QED BY <1>1, <1>5, <1>6 DEF SimInv, FirstSim, DoneSim

(* A linker that gives up says nothing.                                    *)
LEMMA SpUnterminatedSim == ASSUME SpUnterminated PROVE SimInv'
  BY DEF SpUnterminated, Runaway, SimInv, FirstSim, LabelSim, SecondSim, DoneSim

LEMMA SpUnresolvedSim == ASSUME SimInv, SpUnresolved PROVE SimInv'
  <1>1. /\ phase = "second" /\ phase' = "terminate" /\ depth' # 0
        /\ UNCHANGED <<input, labels, seen>>
    BY DEF SpUnresolved, SpReference, SecondPass, Fail
  <1>2. Similar' => Similar
    BY <1>1, SimilarBack
  <1>3. LabelSim'
    BY <1>1, <1>2 DEF SimInv, LabelSim
  <1> QED BY <1>1, <1>3 DEF SimInv, FirstSim, SecondSim, DoneSim

(* The second pass is over: the simulator has written what the linker has. *)
LEMMA SpDoneSim == ASSUME LinkInv, SimInv, SpDone PROVE SimInv'
  <1>1. /\ phase = "second" /\ phase' = "terminate" /\ AtEnd(input, pos)
        /\ UNCHANGED <<input, labels, seen, out>>
    BY DEF SpDone, More
  <1>2. Len(input) \in Nat
    BY LenProperties DEF LinkInv, Types, TextOK
  <1>3. Similar' => Similar
    BY <1>1, SimilarBack
  <1>4. LabelSim'
    BY <1>1, <1>3 DEF SimInv, LabelSim
  <1>5. ASSUME Similar
        PROVE  out = Sim(input)
    <2>1. PICK F, n : /\ F = SecondRun(input, first_pass(input)) /\ n \in 0 .. Len(input) /\ n < pos
                      /\ SecondPoint(F[n])
      BY <1>1, <1>5 DEF SimInv, SecondSim
    <2>2. PICK st : st = F[n]
      OBVIOUS
    <2>3. st.out = out /\ st.pos = pos
      BY <2>1, <2>2 DEF SecondPoint
    <2>4. second_pass(input, first_pass(input)) = F[n].out
      BY <1>1, <1>2, <2>1, <2>2, <2>3, SecondRests
    <2> QED BY <2>2, <2>3, <2>4 DEF Sim
  <1>6. DoneSim'
    BY <1>1, <1>3, <1>5 DEF DoneSim
  <1> QED BY <1>1, <1>4, <1>6 DEF SimInv, FirstSim, SecondSim

LEMMA TerminateSim == ASSUME SimInv, Terminate PROVE SimInv'
  <1>1. /\ phase = "terminate" /\ phase' = "returned"
        /\ UNCHANGED <<input, labels, seen, out, depth>>
    BY DEF Terminate
  <1>2. Similar' => Similar
    BY <1>1, SimilarBack
  <1>3. LabelSim' /\ DoneSim'
    BY <1>1, <1>2 DEF SimInv, LabelSim, DoneSim
  <1> QED BY <1>1, <1>3 DEF SimInv, FirstSim, SecondSim

LEMMA StutterSim == ASSUME SimInv, UNCHANGED vars PROVE SimInv'
  <1>1. /\ UNCHANGED <<input, phase, pos, ip, half, hold, labels, sr, out, depth, seen>>
    BY DEF vars
  <1>2. /\ Similar' <=> Similar
        /\ \A st : FirstPoint(st)' <=> FirstPoint(st)
        /\ \A st : SecondPoint(st)' <=> SecondPoint(st)
    <2>1. \A p : HasBase(p)' <=> HasBase(p)
      BY <1>1 DEF HasBase, NameEnd
    <2>2. Similar' <=> Similar
      BY <1>1, <2>1 DEF Similar
    <2>3. \A st : FirstPoint(st)' <=> FirstPoint(st)
      BY <1>1 DEF FirstPoint
    <2>4. \A st : SecondPoint(st)' <=> SecondPoint(st)
      BY <1>1 DEF SecondPoint
    <2> QED BY <2>2, <2>3, <2>4
  <1> QED BY <1>1, <1>2 DEF SimInv, FirstSim, LabelSim, SecondSim, DoneSim

(* One step for every action.                                              *)
LEMMA StepSim == LinkInv /\ SimInv /\ [Next]_vars => SimInv'
  <1> SUFFICES ASSUME LinkInv, SimInv, [Next]_vars
               PROVE  SimInv'
    OBVIOUS
  <1>0. FirstSim
    BY DEF SimInv
  <1>1. CASE StoreLabel
    BY <1>0, <1>1, StoreLabelSim, FirstOnly DEF StoreLabel, FirstPass, FpGoto, Runaway
  <1>2. CASE FpReference
    BY <1>0, <1>2, FpReferenceSim, FirstOnly DEF FpReference, FirstPass, FpGoto, Runaway
  <1>3. CASE FpDot
    BY <1>0, <1>3, FpDotSim, FirstOnly DEF FpDot, FirstPass, FpGoto
  <1>4. CASE FpHex
    BY <1>0, <1>4, FpHexSim, FirstOnly DEF FpHex, FirstPass, FpGoto
  <1>5. CASE FpDone
    BY <1>5, FpDoneSim
  <1>6. CASE SpDrop
    BY <1>6, SpDropSim
  <1>7. CASE SpUnterminated
    BY <1>7, SpUnterminatedSim
  <1>8. CASE SpUnresolved
    BY <1>8, SpUnresolvedSim
  <1>9. CASE SpPointer
    BY <1>9, SpPointerSim
  <1>10. CASE SpEncode
    BY <1>10, SpEncodeSim
  <1>11. CASE SpDot
    BY <1>11, SpDotSim
  <1>12. CASE SpHex
    BY <1>12, SpHexSim
  <1>13. CASE SpDone
    BY <1>13, SpDoneSim
  <1>14. CASE Terminate
    BY <1>14, TerminateSim
  <1>15. CASE UNCHANGED vars
    BY <1>15, StutterSim
  <1> QED BY <1>1, <1>2, <1>3, <1>4, <1>5, <1>6, <1>7, <1>8, <1>9, <1>10, <1>11, <1>12, <1>13,
             <1>14, <1>15 DEF Next

(* Linker and simulator keep step in every reachable state.                *)
THEOREM SimAlways == Spec => []SimInv
  <1>1. Init => LinkInv /\ SimInv
    BY InitLink, InitSim
  <1>2. (LinkInv /\ SimInv) /\ [Next]_vars => (LinkInv /\ SimInv)'
    BY StepLink, StepSim
  <1> QED BY <1>1, <1>2, PTL DEF Spec

(* A linker that returns from a text in which every name is defined and    *)
(* the two are not known to differ has written what its reference          *)
(* simulator writes, for every such text.                                  *)
THEOREM MatchesSimTheorem == Spec => []MatchesSim
  <1>1. SimInv => MatchesSim
    BY DEF SimInv, DoneSim, MatchesSim
  <1> QED BY <1>1, SimAlways, PTL
=============================================================================
