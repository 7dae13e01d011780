----------------------------- MODULE RvToolProofs -----------------------------
(***************************************************************************)
(* The riscv64 tools give back what they take and never call through a     *)
(* handle they do not hold, for every script, disk and buffer size.        *)
(*                                                                         *)
(* The calls a tool has still to make are followed as a path: from what it *)
(* holds and the stage it has reached, each call leads to the next such    *)
(* state, and the last call leaves nothing but the stack of M0.  A step of *)
(* the model moves along the path; catm, whose loop makes calls of its     *)
(* own, puts a detour in front of it.                                      *)
(*                                                                         *)
(* The second half says what the disk is at each stage of the path, and    *)
(* concludes that a build, seen from the end of its lines, is a build of   *)
(* whole lines (Build).                                                    *)
(***************************************************************************)
EXTENDS RvTool, SequenceTheorems, WellFoundedInduction, TLAPS

-----------------------------------------------------------------------------
(* Paths *)

TranslatorStages == {"fresh", "named", "input", "created", "counted", "rewound", "read"}
CatmStages       == {"blank", "target", "joining", "keeping", "closing"}

(* What a tool can hold, and the calls it can make.                        *)
Things   == {"image", "fs", "root", "in", "out", "pool", "stack"}
Firmware ==
    {"get", "give", "options", "forward options", "open in", "open out", "first pass", "rewind",
     "second pass", "get info", "read all", "write all", "flush", "core", "keep", "close arg"}
      \X (Things \cup {""})

Stages == TranslatorStages \cup CatmStages \cup {"written"}
State  == [held : SUBSET Things, stage : Stages]
At(H, s) == [held |-> H, stage |-> s]

(* Calls that leave a tool at the stage it was, and those that do not.     *)
Quiet == {"get", "give", "get info", "flush"}
Moves ==
    { <<"options", "fresh", "named">>, <<"forward options", "fresh", "named">>,
      <<"open in", "named", "input">>, <<"open out", "input", "created">>,
      <<"first pass", "created", "counted">>, <<"rewind", "counted", "rewound">>,
      <<"second pass", "rewound", "written">>,
      <<"read all", "created", "read">>, <<"write all", "read", "written">>,
      <<"forward options", "blank", "target">>, <<"open out", "target", "joining">>,
      <<"keep", "keeping", "joining">>, <<"close arg", "closing", "joining">>,
      <<"core", "joining", "written">> }

(* What a tool holds after a call; catm reads an input in order to close   *)
(* it.                                                                     *)
After(c, H) ==
    CASE c[1] = "get"                   -> H \cup {c[2]}
      [] c[1] = "give"                  -> H \ {c[2]}
      [] c[1] = "open in"               -> H \cup {"in"}
      [] c[1] = "open out"              -> H \cup {"out"}
      [] c[1] \in {"keep", "close arg"} -> H \ {"in"}
      [] OTHER                          -> H

Step(c, a, b) ==
    /\ Through(c) \subseteq a.held
    /\ b.held = After(c, a.held)
    /\ (c[1] \in Quiet /\ b.stage = a.stage) \/ <<c[1], a.stage, b.stage>> \in Moves
    /\ c # Get("in")
    /\ c[1] = "core" => "in" \notin a.held /\ {"out", "pool"} \subseteq a.held

Path(cs, a, b) ==
    /\ cs \in Seq(Firmware)
    /\ \E h \in [1 .. Len(cs) + 1 -> State] :
          /\ h[1] = a /\ h[Len(cs) + 1] = b
          /\ \A i \in 1 .. Len(cs) : Step(cs[i], h[i], h[i + 1])

(* No call leads nowhere else.                                             *)
LEMMA PathEmpty ==
  ASSUME NEW a, NEW b, Path(<< >>, a, b)
  PROVE  a = b
  BY DEF Path

(* A path of calls is one of its first call, and one of the others.        *)
LEMMA PathTail ==
  ASSUME NEW cs, NEW a, NEW b, Path(cs, a, b), cs # << >>
  PROVE  /\ Head(cs) \in Firmware
         /\ \E m \in State : Step(Head(cs), a, m) /\ Path(Tail(cs), m, b)
  <1>1. cs \in Seq(Firmware)
    BY DEF Path
  <1>2. /\ Head(cs) \in Firmware /\ Head(cs) = cs[1]
        /\ Tail(cs) \in Seq(Firmware) /\ Len(Tail(cs)) = Len(cs) - 1
        /\ \A i \in 1 .. Len(Tail(cs)) : Tail(cs)[i] = cs[i + 1]
        /\ Len(cs) \in Nat /\ Len(cs) >= 1
    BY <1>1, HeadTailProperties, EmptySeq, LenProperties
  <1>3. PICK h \in [1 .. Len(cs) + 1 -> State] :
          /\ h[1] = a /\ h[Len(cs) + 1] = b
          /\ \A i \in 1 .. Len(cs) : Step(cs[i], h[i], h[i + 1])
    BY DEF Path
  <1> DEFINE t == Tail(cs)
             n == Len(cs)
             g == [i \in 1 .. n |-> h[i + 1]]
  <1>4. n \in Nat /\ n >= 1 /\ Len(t) = n - 1 /\ t \in Seq(Firmware)
        /\ \A i \in 1 .. n - 1 : t[i] = cs[i + 1]
    BY <1>2
  <1>5. h \in [1 .. n + 1 -> State] /\ h[1] = a /\ h[n + 1] = b
        /\ \A i \in 1 .. n : Step(cs[i], h[i], h[i + 1])
    BY <1>3
  <1> HIDE DEF t, n
  <1>6. g \in [1 .. n -> State] /\ g[1] = h[2] /\ g[n] = b /\ h[2] \in State
    BY <1>4, <1>5
  <1>7. ASSUME NEW i \in 1 .. n - 1
        PROVE  Step(t[i], g[i], g[i + 1])
    <2>1. i + 1 \in 1 .. n /\ i \in 1 .. n
      BY <1>4
    <2>2. Step(cs[i + 1], h[i + 1], h[i + 1 + 1])
      BY <1>5, <2>1
    <2>3. t[i] = cs[i + 1] /\ g[i] = h[i + 1] /\ g[i + 1] = h[i + 1 + 1]
      BY <1>4, <2>1
    <2> QED BY <2>2, <2>3
  <1>8. Path(t, h[2], b)
    <2>1. Len(t) + 1 = n
      BY <1>4
    <2> HIDE DEF g
    <2> QED BY <1>4, <1>6, <1>7, <2>1 DEF Path
  <1>9. Step(Head(cs), a, h[2])
    <2>1. 1 \in 1 .. n /\ 1 + 1 = 2
      BY <1>4
    <2>2. Step(cs[1], h[1], h[1 + 1])
      BY <1>5, <2>1
    <2> QED BY <1>2, <1>5, <2>2
  <1> QED BY <1>2, <1>6, <1>8, <1>9 DEF t

(* A path of one call.                                                     *)
LEMMA PathOne ==
  ASSUME NEW c \in Firmware, NEW a \in State, NEW b \in State, Step(c, a, b)
  PROVE  Path(<<c>>, a, b)
  <1> DEFINE h == <<a, b>>
  <1>1. h \in [1 .. Len(<<c>>) + 1 -> State] /\ h[1] = a /\ h[Len(<<c>>) + 1] = b
    OBVIOUS
  <1>2. \A i \in 1 .. Len(<<c>>) : Step(<<c>>[i], h[i], h[i + 1])
    OBVIOUS
  <1>3. <<c>> \in Seq(Firmware)
    OBVIOUS
  <1> HIDE DEF h
  <1> QED BY <1>1, <1>2, <1>3 DEF Path

(* Paths one behind the other make a path.                                 *)
LEMMA PathConcat ==
  ASSUME NEW s, NEW t, NEW a, NEW b, NEW d, Path(s, a, b), Path(t, b, d)
  PROVE  Path(s \o t, a, d)
  <1>1. PICK g \in [1 .. Len(s) + 1 -> State] :
          /\ g[1] = a /\ g[Len(s) + 1] = b
          /\ \A i \in 1 .. Len(s) : Step(s[i], g[i], g[i + 1])
    BY DEF Path
  <1>2. PICK h \in [1 .. Len(t) + 1 -> State] :
          /\ h[1] = b /\ h[Len(t) + 1] = d
          /\ \A i \in 1 .. Len(t) : Step(t[i], h[i], h[i + 1])
    BY DEF Path
  <1> DEFINE u == s \o t
             m == Len(s)
             n == Len(t)
             f == [i \in 1 .. m + n + 1 |-> IF i <= m THEN g[i] ELSE h[i - m]]
  <1>3. s \in Seq(Firmware) /\ t \in Seq(Firmware)
    BY DEF Path
  <1>4. /\ u \in Seq(Firmware) /\ Len(u) = m + n /\ m \in Nat /\ n \in Nat
        /\ \A i \in 1 .. m + n : u[i] = IF i <= m THEN s[i] ELSE t[i - m]
    BY <1>3, ConcatProperties, LenProperties
  <1>5. /\ g \in [1 .. m + 1 -> State] /\ g[1] = a /\ g[m + 1] = b
        /\ \A i \in 1 .. m : Step(s[i], g[i], g[i + 1])
        /\ h \in [1 .. n + 1 -> State] /\ h[1] = b /\ h[n + 1] = d
        /\ \A i \in 1 .. n : Step(t[i], h[i], h[i + 1])
    BY <1>1, <1>2
  <1> HIDE DEF u, m, n
  <1>6. f \in [1 .. m + n + 1 -> State]
    BY <1>4, <1>5
  <1>7. \A i \in 1 .. m + 1 : f[i] = g[i]
    <2> SUFFICES ASSUME NEW i \in 1 .. m + 1
                 PROVE  f[i] = g[i]
      OBVIOUS
    <2>1. CASE i <= m
      BY <1>4, <2>1
    <2>2. CASE i = m + 1
      BY <1>4, <1>5, <2>2
    <2> QED BY <1>4, <2>1, <2>2
  <1>8. \A i \in 1 .. n + 1 : f[m + i] = h[i]
    BY <1>4
  <1>9. ASSUME NEW i \in 1 .. m + n
        PROVE  Step(u[i], f[i], f[i + 1])
    <2>1. CASE i <= m
      <3>1. i \in 1 .. m /\ i \in 1 .. m + 1 /\ i + 1 \in 1 .. m + 1
        BY <1>4, <2>1
      <3>2. u[i] = s[i] /\ f[i] = g[i] /\ f[i + 1] = g[i + 1]
        BY <1>4, <1>7, <2>1, <3>1
      <3> QED BY <1>5, <3>1, <3>2
    <2>2. CASE ~ (i <= m)
      <3> DEFINE j == i - m
      <3>1. j \in 1 .. n /\ j \in 1 .. n + 1 /\ j + 1 \in 1 .. n + 1 /\ i = m + j /\ i + 1 = m + (j + 1)
        BY <1>4, <2>2
      <3>2. u[i] = t[j]
        BY <1>4, <2>2
      <3> HIDE DEF j, f
      <3>3. f[i] = h[j] /\ f[i + 1] = h[j + 1]
        BY <1>8, <3>1
      <3> QED BY <1>5, <3>1, <3>2, <3>3
    <2> QED BY <2>1, <2>2
  <1>10. f[1] = a /\ f[m + n + 1] = d
    <2>1. 1 \in 1 .. m + 1 /\ n + 1 \in 1 .. n + 1 /\ m + (n + 1) = m + n + 1
      BY <1>4
    <2> HIDE DEF f
    <2> QED BY <1>5, <1>7, <1>8, <2>1
  <1> HIDE DEF f
  <1> QED BY <1>4, <1>6, <1>9, <1>10 DEF Path, u

(* Short sequences, cut in two.                                            *)
LEMMA Concatenations ==
  /\ \A c1, c2, c3 : <<c1, c2, c3>> = <<c1>> \o <<c2, c3>>
  /\ \A c1, c2, c3, c4 : <<c1, c2, c3, c4>> = <<c1, c2>> \o <<c3, c4>>
  /\ \A c1, c2, c3, c4, c5 : <<c1, c2, c3, c4, c5>> = <<c1, c2>> \o <<c3, c4, c5>>
  <1>1. \A c1, c2, c3 : <<c1, c2, c3>> = <<c1>> \o <<c2, c3>>
    OBVIOUS
  <1>2. \A c1, c2, c3, c4 : <<c1, c2, c3, c4>> = <<c1, c2>> \o <<c3, c4>>
    OBVIOUS
  <1>3. \A c1, c2, c3, c4, c5 : <<c1, c2, c3, c4, c5>> = <<c1, c2>> \o <<c3, c4, c5>>
    OBVIOUS
  <1> QED BY <1>1, <1>2, <1>3

(* Paths of a few calls.                                                   *)
LEMMA PathTwo ==
  ASSUME NEW c1 \in Firmware, NEW c2 \in Firmware,
         NEW a1 \in State, NEW a2 \in State, NEW a3 \in State,
         Step(c1, a1, a2), Step(c2, a2, a3)
  PROVE  Path(<<c1, c2>>, a1, a3)
  <1> DEFINE cs == <<c1, c2>>
             h  == <<a1, a2, a3>>
  <1>1. cs \in Seq(Firmware) /\ Len(cs) = 2
    OBVIOUS
  <1>2. h \in [1 .. 3 -> State] /\ h[1] = a1 /\ h[3] = a3
    OBVIOUS
  <1>3. \A i \in 1 .. 2 : Step(cs[i], h[i], h[i + 1])
    OBVIOUS
  <1> HIDE DEF cs, h
  <1>4. Path(cs, a1, a3)
    BY <1>1, <1>2, <1>3 DEF Path
  <1> QED BY <1>4 DEF cs

(* A path of three calls.                                                  *)
LEMMA PathThree ==
  ASSUME NEW c1 \in Firmware, NEW c2 \in Firmware, NEW c3 \in Firmware,
         NEW a1 \in State, NEW a2 \in State, NEW a3 \in State, NEW a4 \in State,
         Step(c1, a1, a2), Step(c2, a2, a3), Step(c3, a3, a4)
  PROVE  Path(<<c1, c2, c3>>, a1, a4)
  <1>1. Path(<<c1>>, a1, a2) /\ Path(<<c2, c3>>, a2, a4)
    BY PathOne, PathTwo
  <1>2. Path(<<c1>> \o <<c2, c3>>, a1, a4)
    BY <1>1, PathConcat
  <1>3. <<c1, c2, c3>> = <<c1>> \o <<c2, c3>>
    BY Concatenations, SMTT(30)
  <1> QED BY <1>2, <1>3

(* A path of four calls.                                                   *)
LEMMA PathFour ==
  ASSUME NEW c1 \in Firmware, NEW c2 \in Firmware, NEW c3 \in Firmware, NEW c4 \in Firmware,
         NEW a1 \in State, NEW a2 \in State, NEW a3 \in State, NEW a4 \in State, NEW a5 \in State,
         Step(c1, a1, a2), Step(c2, a2, a3), Step(c3, a3, a4), Step(c4, a4, a5)
  PROVE  Path(<<c1, c2, c3, c4>>, a1, a5)
  <1>1. Path(<<c1, c2>>, a1, a3) /\ Path(<<c3, c4>>, a3, a5)
    BY PathTwo
  <1>2. Path(<<c1, c2>> \o <<c3, c4>>, a1, a5)
    BY <1>1, PathConcat
  <1>3. <<c1, c2, c3, c4>> = <<c1, c2>> \o <<c3, c4>>
    BY Concatenations, SMTT(30)
  <1> QED BY <1>2, <1>3

(* A path of five calls.                                                   *)
LEMMA PathFive ==
  ASSUME NEW c1 \in Firmware, NEW c2 \in Firmware, NEW c3 \in Firmware, NEW c4 \in Firmware,
         NEW c5 \in Firmware, NEW a1 \in State, NEW a2 \in State, NEW a3 \in State,
         NEW a4 \in State, NEW a5 \in State, NEW a6 \in State,
         Step(c1, a1, a2), Step(c2, a2, a3), Step(c3, a3, a4), Step(c4, a4, a5), Step(c5, a5, a6)
  PROVE  Path(<<c1, c2, c3, c4, c5>>, a1, a6)
  <1>1. Path(<<c1, c2>>, a1, a3) /\ Path(<<c3, c4, c5>>, a3, a6)
    BY PathTwo, PathThree
  <1>2. Path(<<c1, c2>> \o <<c3, c4, c5>>, a1, a6)
    BY <1>1, PathConcat
  <1>3. <<c1, c2, c3, c4, c5>> = <<c1, c2>> \o <<c3, c4, c5>>
    BY Concatenations
  <1> QED BY <1>2, <1>3

(* A call that gives, one that takes back, and any other.                  *)
LEMMA GetStep ==
  ASSUME NEW x \in Things \ {"in"}, NEW H, NEW J, NEW s, J = H \cup {x}, x = "root" => "fs" \in H
  PROVE  Step(Get(x), At(H, s), At(J, s)) /\ Get(x) \in Firmware
  <1>1. Get(x) = <<"get", x>> /\ Get("root") = <<"get", "root">> /\ Get("in") = <<"get", "in">>
    BY DEF Get
  <1>2. Get(x)[1] = "get" /\ Get(x)[2] = x /\ Get(x) \in Firmware
    <2>1. <<"get", x>> \in Firmware
      BY DEF Firmware
    <2> QED BY <1>1, <2>1
  <1>3. Handles("get") = {}
    BY DEF Handles
  <1>4. (x # "root" => Get(x) # Get("root")) /\ Get(x) # Get("in")
    BY <1>1
  <1>5. Through(Get(x)) \subseteq H
    BY <1>2, <1>3, <1>4 DEF Through
  <1>6. After(Get(x), H) = J
    BY <1>2 DEF After
  <1> HIDE DEF Get
  <1> QED BY <1>2, <1>4, <1>5, <1>6 DEF Step, At, Quiet

(* A call that takes something back.                                       *)
LEMMA GiveStep ==
  ASSUME NEW x \in Things, NEW H, NEW J, NEW s, J = H \ {x}, x \in H
  PROVE  Step(Give(x), At(H, s), At(J, s)) /\ Give(x) \in Firmware
  <1>1. Give(x)[1] = "give" /\ Give(x)[2] = x /\ Give(x) \in Firmware
    BY DEF Give, Firmware
  <1>2. Through(Give(x)) \subseteq H
    BY <1>1 DEF Through
  <1>3. After(Give(x), H) = J /\ Give(x) # Get("in")
    BY <1>1 DEF After, Get
  <1> QED BY <1>1, <1>2, <1>3 DEF Step, At, Quiet

(* A call of any other kind.                                               *)
LEMMA CallStep ==
  ASSUME NEW c, NEW H, NEW J, NEW s, NEW t, Call(c) \in Firmware, c \notin {"get", "give"},
         Handles(c) \subseteq H, J = After(Call(c), H),
         (c \in Quiet /\ t = s) \/ <<c, s, t>> \in Moves,
         c = "core" => "in" \notin H /\ {"out", "pool"} \subseteq H
  PROVE  Step(Call(c), At(H, s), At(J, t))
  <1>1. Call(c)[1] = c /\ Call(c) # Get("root") /\ Call(c) # Get("in")
    BY DEF Call, Get
  <1>2. Through(Call(c)) \subseteq H
    BY <1>1 DEF Through
  <1> QED BY <1>1, <1>2 DEF Step, At

(* The beginning of every tool: the image, the options, the file system    *)
(* and its root.                                                           *)
Volume == {"image", "fs", "root"}

(* Every tool sets itself up along a path, whichever way it looks for its  *)
(* options.                                                                *)
LEMMA SetupPath ==
  ASSUME NEW K \in SUBSET {"stack"}, NEW c \in {"options", "forward options"},
         NEW s \in Stages, NEW t \in Stages, <<c, s, t>> \in Moves
  PROVE  Path(<<Get("image"), Call(c), Get("fs"), Get("root")>>, At(K, s), At(K \cup Volume, t))
  <1> DEFINE H1 == K \cup {"image"}
             H2 == K \cup {"image", "fs"}
             H3 == K \cup Volume
  <1>1. H1 = K \cup {"image"} /\ H2 = H1 \cup {"fs"} /\ H3 = H2 \cup {"root"} /\ "fs" \in H2
        /\ K \subseteq Things /\ H1 \subseteq Things /\ H2 \subseteq Things /\ H3 \subseteq Things
    BY DEF Volume, Things
  <1> HIDE DEF H1, H2, H3
  <1> DEFINE a1 == At(K, s)
             a2 == At(H1, s)
             a3 == At(H1, t)
             a4 == At(H2, t)
             a5 == At(H3, t)
  <1>2. a1 \in State /\ a2 \in State /\ a3 \in State /\ a4 \in State /\ a5 \in State
    BY <1>1 DEF At, State
  <1>3. {"image", "fs", "root"} \subseteq Things \ {"in"}
    BY DEF Things
  <1>4. Step(Get("image"), a1, a2) /\ Get("image") \in Firmware
    BY <1>1, <1>3, GetStep
  <1>5. Step(Call(c), a2, a3) /\ Call(c) \in Firmware
    <2>1. Handles(c) \subseteq H1 /\ H1 = After(Call(c), H1)
      BY DEF Handles, After, Call
    <2>2. Call(c) \in Firmware /\ c \notin {"get", "give"} /\ c # "core"
      BY DEF Call, Firmware
    <2> QED BY <2>1, <2>2, CallStep
  <1>6. Step(Get("fs"), a3, a4) /\ Get("fs") \in Firmware
    BY <1>1, <1>3, GetStep
  <1>7. Step(Get("root"), a4, a5) /\ Get("root") \in Firmware
    BY <1>1, <1>3, GetStep
  <1> HIDE DEF a1, a2, a3, a4, a5
  <1>8. Path(<<Get("image"), Call(c), Get("fs"), Get("root")>>, a1, a5)
    BY <1>2, <1>4, <1>5, <1>6, <1>7, PathFour
  <1> QED BY <1>8 DEF a1, a5, H3

(* A translator opens its files and takes memory.                          *)
Filed == Volume \cup {"in", "out", "pool"}

(* Opening the files is a path, to a stage at which all three are held.    *)
LEMMA OpenPath ==
  ASSUME NEW K \in SUBSET {"stack"}
  PROVE  Path(OpenFiles, At(K \cup Volume, "named"), At(K \cup Filed, "created"))
  <1> DEFINE H1 == K \cup Volume
             H2 == K \cup Volume \cup {"in"}
             H3 == K \cup Volume \cup {"in", "out"}
             H4 == K \cup Filed
  <1>1. H2 = H1 \cup {"in"} /\ H3 = H2 \cup {"out"} /\ H4 = H3 \cup {"pool"}
        /\ "root" \in H1 /\ "root" \in H2
        /\ H1 \subseteq Things /\ H2 \subseteq Things /\ H3 \subseteq Things /\ H4 \subseteq Things
    BY DEF Volume, Filed, Things
  <1> HIDE DEF H1, H2, H3, H4
  <1> DEFINE a1 == At(H1, "named")
             a2 == At(H2, "input")
             a3 == At(H3, "created")
             a4 == At(H4, "created")
  <1>2. a1 \in State /\ a2 \in State /\ a3 \in State /\ a4 \in State
    BY <1>1 DEF At, State, Stages, TranslatorStages
  <1>3. Step(Call("open in"), a1, a2) /\ Call("open in") \in Firmware
    <2>1. Handles("open in") \subseteq H1 /\ H2 = After(Call("open in"), H1)
      BY <1>1 DEF Handles, After, Call
    <2>2. Call("open in") \in Firmware /\ <<"open in", "named", "input">> \in Moves
      BY DEF Call, Firmware, Moves
    <2> QED BY <2>1, <2>2, CallStep
  <1>4. Step(Call("open out"), a2, a3) /\ Call("open out") \in Firmware
    <2>1. Handles("open out") \subseteq H2 /\ H3 = After(Call("open out"), H2)
      BY <1>1 DEF Handles, After, Call
    <2>2. Call("open out") \in Firmware /\ <<"open out", "input", "created">> \in Moves
      BY DEF Call, Firmware, Moves
    <2> QED BY <2>1, <2>2, CallStep
  <1>5. Step(Get("pool"), a3, a4) /\ Get("pool") \in Firmware
    <2>1. "pool" \in Things \ {"in"}
      BY DEF Things
    <2> QED BY <1>1, <2>1, GetStep
  <1> HIDE DEF a1, a2, a3, a4
  <1>6. Path(OpenFiles, a1, a4)
    BY <1>2, <1>3, <1>4, <1>5, PathThree DEF OpenFiles
  <1> QED BY <1>6 DEF a1, a4, H1, H4

(* The end of every tool.                                                  *)
LEMMA CloseDownPath ==
  ASSUME NEW K \in SUBSET {"stack"}
  PROVE  Path(CloseDown, At(K \cup Volume, "written"), At(K, "written"))
  <1> DEFINE H1 == K \cup Volume
             H2 == K \cup {"image", "fs"}
             H3 == K \cup {"image"}
  <1>1. H2 = H1 \ {"root"} /\ H3 = H2 \ {"fs"} /\ K = H3 \ {"image"}
        /\ "root" \in H1 /\ "fs" \in H2 /\ "image" \in H3
        /\ H1 \subseteq Things /\ H2 \subseteq Things /\ H3 \subseteq Things /\ K \subseteq Things
    BY DEF Volume, Things
  <1> HIDE DEF H1, H2, H3
  <1> DEFINE a1 == At(H1, "written")
             a2 == At(H2, "written")
             a3 == At(H3, "written")
             a4 == At(K, "written")
  <1>2. a1 \in State /\ a2 \in State /\ a3 \in State /\ a4 \in State
    BY <1>1 DEF At, State, Stages
  <1>3. "image" \in Things /\ "fs" \in Things /\ "root" \in Things
    BY DEF Things
  <1>4. Step(Give("root"), a1, a2) /\ Give("root") \in Firmware
    BY <1>1, <1>3, GiveStep
  <1>5. Step(Give("fs"), a2, a3) /\ Give("fs") \in Firmware
    BY <1>1, <1>3, GiveStep
  <1>6. Step(Give("image"), a3, a4) /\ Give("image") \in Firmware
    BY <1>1, <1>3, GiveStep
  <1> HIDE DEF a1, a2, a3, a4
  <1>7. Path(CloseDown, a1, a4)
    BY <1>2, <1>4, <1>5, <1>6, PathThree DEF CloseDown
  <1> QED BY <1>7 DEF a1, a4, H1

(* What lies between: hex1 goes through its input twice.                   *)
LEMMA Hex1Work ==
  ASSUME NEW K \in SUBSET {"stack"}
  PROVE  Path(<<Call("first pass"), Call("rewind"), Call("second pass")>>, At(K \cup Filed, "created"), At(K \cup Filed, "written"))
  <1> DEFINE H1 == K \cup Filed
  <1>1. /\ {"in"} \subseteq H1
        /\ {"in", "out"} \subseteq H1
        /\ H1 \subseteq Things
    BY DEF Volume, Filed, Things
  <1> HIDE DEF H1
  <1> DEFINE a1 == At(H1, "created")
             a2 == At(H1, "counted")
             a3 == At(H1, "rewound")
             a4 == At(H1, "written")
  <1>2. a1 \in State /\ a2 \in State /\ a3 \in State /\ a4 \in State
    BY <1>1 DEF At, State, Stages, TranslatorStages, CatmStages
  <1>3. Step(Call("first pass"), a1, a2) /\ Call("first pass") \in Firmware
    <2>1. Handles("first pass") \subseteq H1 /\ H1 = After(Call("first pass"), H1)
      BY <1>1 DEF Handles, After, Call
    <2>2. Call("first pass") \in Firmware /\ <<"first pass", "created", "counted">> \in Moves
      BY DEF Call, Firmware, Moves
    <2> QED BY <2>1, <2>2, CallStep
  <1>4. Step(Call("rewind"), a2, a3) /\ Call("rewind") \in Firmware
    <2>1. Handles("rewind") \subseteq H1 /\ H1 = After(Call("rewind"), H1)
      BY <1>1 DEF Handles, After, Call
    <2>2. Call("rewind") \in Firmware /\ <<"rewind", "counted", "rewound">> \in Moves
      BY DEF Call, Firmware, Moves
    <2> QED BY <2>1, <2>2, CallStep
  <1>5. Step(Call("second pass"), a3, a4) /\ Call("second pass") \in Firmware
    <2>1. Handles("second pass") \subseteq H1 /\ H1 = After(Call("second pass"), H1)
      BY <1>1 DEF Handles, After, Call
    <2>2. Call("second pass") \in Firmware /\ <<"second pass", "rewound", "written">> \in Moves
      BY DEF Call, Firmware, Moves
    <2> QED BY <2>1, <2>2, CallStep
  <1> HIDE DEF a1, a2, a3, a4
  <1>6. Path(<<Call("first pass"), Call("rewind"), Call("second pass")>>, a1, a4)
    BY <1>2, <1>3, <1>4, <1>5, PathThree
  <1> QED BY <1>6 DEF a1, a4, H1

(* hex1 closes late.                                                       *)
LEMMA Hex1Close ==
  ASSUME NEW K \in SUBSET {"stack"}
  PROVE  Path(<<Give("pool"), Give("in"), Give("out")>>, At(K \cup Filed, "written"), At(K \cup Volume, "written"))
  <1> DEFINE H1 == K \cup Filed
             H2 == K \cup Volume \cup {"in", "out"}
             H3 == K \cup Volume \cup {"out"}
             H4 == K \cup Volume
  <1>1. /\ H2 = H1 \ {"pool"} /\ "pool" \in H1
        /\ H3 = H2 \ {"in"} /\ "in" \in H2
        /\ H4 = H3 \ {"out"} /\ "out" \in H3
        /\ H1 \subseteq Things /\ H2 \subseteq Things /\ H3 \subseteq Things /\ H4 \subseteq Things
    BY DEF Volume, Filed, Things
  <1> HIDE DEF H1, H2, H3, H4
  <1> DEFINE a1 == At(H1, "written")
             a2 == At(H2, "written")
             a3 == At(H3, "written")
             a4 == At(H4, "written")
  <1>2. a1 \in State /\ a2 \in State /\ a3 \in State /\ a4 \in State
    BY <1>1 DEF At, State, Stages, TranslatorStages, CatmStages
  <1>3. Step(Give("pool"), a1, a2) /\ Give("pool") \in Firmware
    <2>1. "pool" \in Things
      BY DEF Things
    <2> QED BY <1>1, <2>1, GiveStep
  <1>4. Step(Give("in"), a2, a3) /\ Give("in") \in Firmware
    <2>1. "in" \in Things
      BY DEF Things
    <2> QED BY <1>1, <2>1, GiveStep
  <1>5. Step(Give("out"), a3, a4) /\ Give("out") \in Firmware
    <2>1. "out" \in Things
      BY DEF Things
    <2> QED BY <1>1, <2>1, GiveStep
  <1> HIDE DEF a1, a2, a3, a4
  <1>6. Path(<<Give("pool"), Give("in"), Give("out")>>, a1, a4)
    BY <1>2, <1>3, <1>4, <1>5, PathThree
  <1> QED BY <1>6 DEF a1, a4, H1, H4

(* hex2 reads its input at once and closes it.                             *)
LEMMA Hex2Work ==
  ASSUME NEW K \in SUBSET {"stack"}
  PROVE  Path(<<Call("get info"), Call("read all"), Give("in"), Call("write all"), Call("flush")>>, At(K \cup Filed, "created"), At(K \cup Volume \cup {"out", "pool"}, "written"))
  <1> DEFINE H1 == K \cup Filed
             H2 == K \cup Volume \cup {"out", "pool"}
  <1>1. /\ H2 = H1 \ {"in"} /\ "in" \in H1
        /\ {"in"} \subseteq H1
        /\ {"in", "pool"} \subseteq H1
        /\ {"out", "pool"} \subseteq H2
        /\ {"out"} \subseteq H2
        /\ H1 \subseteq Things /\ H2 \subseteq Things
    BY DEF Volume, Filed, Things
  <1> HIDE DEF H1, H2
  <1> DEFINE a1 == At(H1, "created")
             a2 == At(H1, "created")
             a3 == At(H1, "read")
             a4 == At(H2, "read")
             a5 == At(H2, "written")
             a6 == At(H2, "written")
  <1>2. a1 \in State /\ a2 \in State /\ a3 \in State /\ a4 \in State /\ a5 \in State /\ a6 \in State
    BY <1>1 DEF At, State, Stages, TranslatorStages, CatmStages
  <1>3. Step(Call("get info"), a1, a2) /\ Call("get info") \in Firmware
    <2>1. Handles("get info") \subseteq H1 /\ H1 = After(Call("get info"), H1)
      BY <1>1 DEF Handles, After, Call
    <2>2. Call("get info") \in Firmware /\ "get info" \in Quiet
      BY DEF Call, Firmware, Quiet
    <2> QED BY <2>1, <2>2, CallStep
  <1>4. Step(Call("read all"), a2, a3) /\ Call("read all") \in Firmware
    <2>1. Handles("read all") \subseteq H1 /\ H1 = After(Call("read all"), H1)
      BY <1>1 DEF Handles, After, Call
    <2>2. Call("read all") \in Firmware /\ <<"read all", "created", "read">> \in Moves
      BY DEF Call, Firmware, Moves
    <2> QED BY <2>1, <2>2, CallStep
  <1>5. Step(Give("in"), a3, a4) /\ Give("in") \in Firmware
    <2>1. "in" \in Things
      BY DEF Things
    <2> QED BY <1>1, <2>1, GiveStep
  <1>6. Step(Call("write all"), a4, a5) /\ Call("write all") \in Firmware
    <2>1. Handles("write all") \subseteq H2 /\ H2 = After(Call("write all"), H2)
      BY <1>1 DEF Handles, After, Call
    <2>2. Call("write all") \in Firmware /\ <<"write all", "read", "written">> \in Moves
      BY DEF Call, Firmware, Moves
    <2> QED BY <2>1, <2>2, CallStep
  <1>7. Step(Call("flush"), a5, a6) /\ Call("flush") \in Firmware
    <2>1. Handles("flush") \subseteq H2 /\ H2 = After(Call("flush"), H2)
      BY <1>1 DEF Handles, After, Call
    <2>2. Call("flush") \in Firmware /\ "flush" \in Quiet
      BY DEF Call, Firmware, Quiet
    <2> QED BY <2>1, <2>2, CallStep
  <1> HIDE DEF a1, a2, a3, a4, a5, a6
  <1>8. Path(<<Call("get info"), Call("read all"), Give("in"), Call("write all"), Call("flush")>>, a1, a6)
    BY <1>2, <1>3, <1>4, <1>5, <1>6, <1>7, PathFive
  <1> QED BY <1>8 DEF a1, a6, H1, H2

(* So does M0.                                                             *)
LEMMA M0Work ==
  ASSUME NEW K \in SUBSET {"stack"}
  PROVE  Path(<<Call("read all"), Give("in"), Call("write all")>>, At(K \cup Filed, "created"), At(K \cup Volume \cup {"out", "pool"}, "written"))
  <1> DEFINE H1 == K \cup Filed
             H2 == K \cup Volume \cup {"out", "pool"}
  <1>1. /\ H2 = H1 \ {"in"} /\ "in" \in H1
        /\ {"in", "pool"} \subseteq H1
        /\ {"out", "pool"} \subseteq H2
        /\ H1 \subseteq Things /\ H2 \subseteq Things
    BY DEF Volume, Filed, Things
  <1> HIDE DEF H1, H2
  <1> DEFINE a1 == At(H1, "created")
             a2 == At(H1, "read")
             a3 == At(H2, "read")
             a4 == At(H2, "written")
  <1>2. a1 \in State /\ a2 \in State /\ a3 \in State /\ a4 \in State
    BY <1>1 DEF At, State, Stages, TranslatorStages, CatmStages
  <1>3. Step(Call("read all"), a1, a2) /\ Call("read all") \in Firmware
    <2>1. Handles("read all") \subseteq H1 /\ H1 = After(Call("read all"), H1)
      BY <1>1 DEF Handles, After, Call
    <2>2. Call("read all") \in Firmware /\ <<"read all", "created", "read">> \in Moves
      BY DEF Call, Firmware, Moves
    <2> QED BY <2>1, <2>2, CallStep
  <1>4. Step(Give("in"), a2, a3) /\ Give("in") \in Firmware
    <2>1. "in" \in Things
      BY DEF Things
    <2> QED BY <1>1, <2>1, GiveStep
  <1>5. Step(Call("write all"), a3, a4) /\ Call("write all") \in Firmware
    <2>1. Handles("write all") \subseteq H2 /\ H2 = After(Call("write all"), H2)
      BY <1>1 DEF Handles, After, Call
    <2>2. Call("write all") \in Firmware /\ <<"write all", "read", "written">> \in Moves
      BY DEF Call, Firmware, Moves
    <2> QED BY <2>1, <2>2, CallStep
  <1> HIDE DEF a1, a2, a3, a4
  <1>6. Path(<<Call("read all"), Give("in"), Call("write all")>>, a1, a4)
    BY <1>2, <1>3, <1>4, <1>5, PathThree
  <1> QED BY <1>6 DEF a1, a4, H1, H2

(* What is left for those two to give back.                                *)
LEMMA EarlyClose ==
  ASSUME NEW K \in SUBSET {"stack"}
  PROVE  Path(<<Give("pool"), Give("out")>>, At(K \cup Volume \cup {"out", "pool"}, "written"), At(K \cup Volume, "written"))
  <1> DEFINE H1 == K \cup Volume \cup {"out", "pool"}
             H2 == K \cup Volume \cup {"out"}
             H3 == K \cup Volume
  <1>1. /\ H2 = H1 \ {"pool"} /\ "pool" \in H1
        /\ H3 = H2 \ {"out"} /\ "out" \in H2
        /\ H1 \subseteq Things /\ H2 \subseteq Things /\ H3 \subseteq Things
    BY DEF Volume, Filed, Things
  <1> HIDE DEF H1, H2, H3
  <1> DEFINE a1 == At(H1, "written")
             a2 == At(H2, "written")
             a3 == At(H3, "written")
  <1>2. a1 \in State /\ a2 \in State /\ a3 \in State
    BY <1>1 DEF At, State, Stages, TranslatorStages, CatmStages
  <1>3. Step(Give("pool"), a1, a2) /\ Give("pool") \in Firmware
    <2>1. "pool" \in Things
      BY DEF Things
    <2> QED BY <1>1, <2>1, GiveStep
  <1>4. Step(Give("out"), a2, a3) /\ Give("out") \in Firmware
    <2>1. "out" \in Things
      BY DEF Things
    <2> QED BY <1>1, <2>1, GiveStep
  <1> HIDE DEF a1, a2, a3
  <1>5. Path(<<Give("pool"), Give("out")>>, a1, a3)
    BY <1>2, <1>3, <1>4, PathTwo
  <1> QED BY <1>5 DEF a1, a3, H1, H3

(* catm, whose loop is one call here.                                      *)
LEMMA CatmWork ==
  ASSUME NEW K \in SUBSET {"stack"}
  PROVE  Path(<<Call("open out"), Get("pool"), Call("core"), Give("out"), Give("pool")>>, At(K \cup Volume, "target"), At(K \cup Volume, "written"))
  <1> DEFINE H1 == K \cup Volume
             H2 == K \cup Volume \cup {"out"}
             H3 == K \cup Volume \cup {"out", "pool"}
             H4 == K \cup Volume \cup {"pool"}
  <1>1. /\ H2 = H1 \cup {"out"}
        /\ H3 = H2 \cup {"pool"}
        /\ H4 = H3 \ {"out"} /\ "out" \in H3
        /\ H1 = H4 \ {"pool"} /\ "pool" \in H4
        /\ {"root"} \subseteq H1
        /\ {"root"} \subseteq H3
        /\ "in" \notin H3 /\ {"out", "pool"} \subseteq H3
        /\ H1 \subseteq Things /\ H2 \subseteq Things /\ H3 \subseteq Things /\ H4 \subseteq Things
    BY DEF Volume, Filed, Things
  <1> HIDE DEF H1, H2, H3, H4
  <1> DEFINE a1 == At(H1, "target")
             a2 == At(H2, "joining")
             a3 == At(H3, "joining")
             a4 == At(H3, "written")
             a5 == At(H4, "written")
             a6 == At(H1, "written")
  <1>2. a1 \in State /\ a2 \in State /\ a3 \in State /\ a4 \in State /\ a5 \in State /\ a6 \in State
    BY <1>1 DEF At, State, Stages, TranslatorStages, CatmStages
  <1>3. Step(Call("open out"), a1, a2) /\ Call("open out") \in Firmware
    <2>1. Handles("open out") \subseteq H1 /\ H2 = After(Call("open out"), H1)
      BY <1>1 DEF Handles, After, Call
    <2>2. Call("open out") \in Firmware /\ <<"open out", "target", "joining">> \in Moves
      BY DEF Call, Firmware, Moves
    <2> QED BY <2>1, <2>2, CallStep
  <1>4. Step(Get("pool"), a2, a3) /\ Get("pool") \in Firmware
    <2>1. "pool" \in Things \ {"in"}
      BY DEF Things
    <2> QED BY <1>1, <2>1, GetStep
  <1>5. Step(Call("core"), a3, a4) /\ Call("core") \in Firmware
    <2>1. Handles("core") \subseteq H3 /\ H3 = After(Call("core"), H3)
      BY <1>1 DEF Handles, After, Call
    <2>2. Call("core") \in Firmware /\ <<"core", "joining", "written">> \in Moves
      BY DEF Call, Firmware, Moves
    <2> QED BY <1>1, <2>1, <2>2, CallStep
  <1>6. Step(Give("out"), a4, a5) /\ Give("out") \in Firmware
    <2>1. "out" \in Things
      BY DEF Things
    <2> QED BY <1>1, <2>1, GiveStep
  <1>7. Step(Give("pool"), a5, a6) /\ Give("pool") \in Firmware
    <2>1. "pool" \in Things
      BY DEF Things
    <2> QED BY <1>1, <2>1, GiveStep
  <1> HIDE DEF a1, a2, a3, a4, a5, a6
  <1>8. Path(<<Call("open out"), Get("pool"), Call("core"), Give("out"), Give("pool")>>, a1, a6)
    BY <1>2, <1>3, <1>4, <1>5, <1>6, <1>7, PathFive
  <1> QED BY <1>8 DEF a1, a6, H1

(* Every tool begins a path that ends with nothing held but the stack.     *)
Begin(tool) == At({}, IF tool = "catm" THEN "blank" ELSE "fresh")
Ending(b)   == b.stage = "written" /\ b.held \subseteq {"stack"}

(* So the calls of every tool are a path from where it starts to such an   *)
(* end.                                                                    *)
LEMMA CallsPath ==
  ASSUME NEW tool \in {"hex1", "hex2", "M0", "catm"}
  PROVE  \E b : Path(CallsOf(tool), Begin(tool), b) /\ Ending(b)
  <1> DEFINE none  == {}
             stack == {"stack"}
  <1>1. none \in SUBSET {"stack"} /\ stack \in SUBSET {"stack"}
    OBVIOUS
  <1>2. Ending(At(none, "written")) /\ Ending(At(stack, "written"))
    BY DEF Ending, At
  <1>3. /\ <<"options", "fresh", "named">> \in Moves
        /\ <<"forward options", "fresh", "named">> \in Moves
        /\ <<"forward options", "blank", "target">> \in Moves
        /\ "fresh" \in Stages /\ "named" \in Stages /\ "blank" \in Stages /\ "target" \in Stages
    BY DEF Moves, Stages, TranslatorStages, CatmStages
  <1>4. /\ Begin("hex1") = At(none, "fresh") /\ Begin("hex2") = At(none, "fresh")
        /\ Begin("M0") = At(none, "fresh") /\ Begin("catm") = At(none, "blank")
    BY DEF Begin
  <1> HIDE DEF none, stack
  <1>5. CASE tool = "hex1"
    <2>1. Path(Setup, At(none, "fresh"), At(none \cup Volume, "named"))
      BY <1>1, <1>3, SetupPath DEF Setup
    <2>2. Path(Hex1Calls, At(none, "fresh"), At(none, "written"))
      BY <1>1, <2>1, OpenPath, Hex1Work, Hex1Close, CloseDownPath, PathConcat DEF Hex1Calls
    <2> QED BY <1>2, <1>4, <1>5, <2>2 DEF CallsOf
  <1>6. CASE tool = "hex2"
    <2>1. Path(Setup, At(none, "fresh"), At(none \cup Volume, "named"))
      BY <1>1, <1>3, SetupPath DEF Setup
    <2>2. Path(Hex2Calls, At(none, "fresh"), At(none, "written"))
      BY <1>1, <2>1, OpenPath, Hex2Work, EarlyClose, CloseDownPath, PathConcat DEF Hex2Calls
    <2> QED BY <1>2, <1>4, <1>6, <2>2 DEF CallsOf
  <1>7. CASE tool = "M0"
    <2>1. Path(<<Get("stack")>>, At(none, "fresh"), At(stack, "fresh"))
      <3>1. stack = none \cup {"stack"} /\ "stack" \in Things \ {"in"} /\ At(none, "fresh") \in State
            /\ At(stack, "fresh") \in State
        BY DEF none, stack, At, State, Stages, TranslatorStages, Things
      <3>2. Step(Get("stack"), At(none, "fresh"), At(stack, "fresh")) /\ Get("stack") \in Firmware
        BY <3>1, GetStep
      <3> QED BY <3>1, <3>2, PathOne
    <2>2. Path(SetupForward, At(stack, "fresh"), At(stack \cup Volume, "named"))
      BY <1>1, <1>3, SetupPath DEF SetupForward
    <2>3. Path(M0Calls, At(none, "fresh"), At(stack, "written"))
      BY <1>1, <2>1, <2>2, OpenPath, M0Work, EarlyClose, CloseDownPath, PathConcat DEF M0Calls
    <2> QED BY <1>2, <1>4, <1>7, <2>3 DEF CallsOf
  <1>8. CASE tool = "catm"
    <2>1. Path(SetupForward, At(none, "blank"), At(none \cup Volume, "target"))
      BY <1>1, <1>3, SetupPath DEF SetupForward
    <2>2. Path(CatmCalls, At(none, "blank"), At(none, "written"))
      BY <1>1, <2>1, CatmWork, CloseDownPath, PathConcat DEF CatmCalls
    <2> QED BY <1>2, <1>4, <1>8, <2>2 DEF CallsOf
  <1> QED BY <1>5, <1>6, <1>7, <1>8

-----------------------------------------------------------------------------
(* The inductive invariant *)

(* What the tool has not got because its input is missing.                 *)
NoInput == Line.tool # "catm" /\ job.before[Line.words[1]] = Missing

(* What the current line holds.                                            *)
Mine == {x \in Things : Has(x)}

(* The tool is where its path is: it holds what it should, but for an      *)
(* input that is missing, and it looks for that input where the line says. *)
HoldAt(a) ==
    /\ a.held = Mine \/ (NoInput /\ a.held = Mine \cup {"in"})
    /\ a.stage \in CatmStages => Line.tool = "catm"
    /\ a.stage \in TranslatorStages => Line.tool # "catm"
    /\ a.stage \in {"fresh", "named", "input"} => disk = job.before
    /\ a.stage = "named" => job.in = Line.words[1]
    /\ NoInput => "in" \notin Mine /\ a.stage \notin {"counted", "rewound", "read", "written"}

Fields == {"before", "in", "out", "arg", "rd", "wr", "text"}

Standing ==
    /\ script \in Seq(ScriptLine)
    /\ \A k \in DOMAIN script : WellFormed(script[k])
    /\ DOMAIN job = Fields
    /\ held \subseteq Things \X Nat
    /\ ~on => \A e \in held : e[1] = "stack" /\ e[2] > Now
    /\ on => script # << >> /\ \A e \in held : e[2] = Now \/ (e[1] = "stack" /\ e[2] > Now)
    /\ outcome = "lost" => on /\ NoInput

OnPath(a) == \E b : Path(calls, a, b) /\ Ending(b)

HoldInv ==
    /\ Standing
    /\ on /\ outcome = "running" => \E a \in State : OnPath(a) /\ HoldAt(a)

(* The current line and what it may find.                                  *)
LEMMA LineFacts ==
  ASSUME Standing, script # << >>
  PROVE  /\ Now \in Nat /\ Now >= 1 /\ Line = script[1]
         /\ Line \in ScriptLine /\ WellFormed(Line)
         /\ Tail(script) \in Seq(ScriptLine) /\ Len(Tail(script)) = Now - 1
         /\ \A k \in DOMAIN Tail(script) : WellFormed(Tail(script)[k])
  <1>1. /\ Now \in Nat /\ Now >= 1 /\ Line = script[1] /\ DOMAIN script = 1 .. Now
        /\ Tail(script) \in Seq(ScriptLine) /\ Len(Tail(script)) = Now - 1
        /\ \A k \in 1 .. Now - 1 : Tail(script)[k] = script[k + 1]
    BY HeadTailProperties, EmptySeq, LenProperties DEF Standing, Now, Line
  <1>2. Line \in ScriptLine /\ WellFormed(Line)
    BY <1>1, ElementOfSeq DEF Standing, Now
  <1>3. DOMAIN Tail(script) = 1 .. Now - 1
    BY <1>1, LenProperties
  <1>4. \A k \in DOMAIN Tail(script) : WellFormed(Tail(script)[k])
    BY <1>1, <1>3 DEF Standing
  <1> QED BY <1>1, <1>2, <1>4

(* The current line stays what it is while the tool runs.                  *)
LEMMA SameLine ==
  ASSUME UNCHANGED script
  PROVE  /\ Now' = Now /\ Line' = Line /\ \A x : Has(x)' <=> <<x, Now>> \in held'
         /\ job'.before = job.before => (NoInput' <=> NoInput)
  BY DEF Now, Line, Has, NoInput

(* How what it holds changes.                                              *)
LEMMA MineFacts ==
  ASSUME UNCHANGED script, NEW x \in Things
  PROVE  /\ held' = held \cup {<<x, Now>>} => Mine' = Mine \cup {x}
         /\ held' = held \ {<<x, Now>>} => Mine' = Mine \ {x}
         /\ held' = held => Mine' = Mine
  <1>1. /\ Mine' = {y \in Things : <<y, Now>> \in held'}
        /\ Mine = {y \in Things : <<y, Now>> \in held}
    BY SameLine DEF Mine, Has
  <1>2. CASE held' = held \cup {<<x, Now>>}
    BY <1>1, <1>2
  <1>3. CASE held' = held \ {<<x, Now>>}
    BY <1>1, <1>3
  <1>4. CASE held' = held
    BY <1>1, <1>4
  <1> QED BY <1>2, <1>3, <1>4

(* A step of a running tool that goes one call along the path.             *)
LEMMA Along ==
  ASSUME HoldInv, Busy, Done, DOMAIN job' = Fields,
         held' \subseteq held \cup (Things \X {Now}),
         \A a \in State, m \in State :
            Head(calls) \in Firmware /\ HoldAt(a) /\ Step(Head(calls), a, m) => HoldAt(m)'
  PROVE  HoldInv'
  <1>1. on /\ outcome = "running" /\ UNCHANGED <<script, on, outcome>> /\ calls' = Tail(calls)
    BY DEF Busy, Done
  <1>2. Standing'
    <2>1. Now' = Now /\ Now \in Nat
      BY <1>1, SameLine, LineFacts DEF HoldInv, Standing
    <2>2. held' \subseteq Things \X Nat
      BY <2>1 DEF HoldInv, Standing
    <2>3. \A e \in held' : e[2] = Now \/ (e[1] = "stack" /\ e[2] > Now)
      BY <1>1 DEF HoldInv, Standing
    <2> QED BY <1>1, <2>1, <2>2, <2>3 DEF HoldInv, Standing
  <1>3. PICK a \in State : OnPath(a) /\ HoldAt(a)
    BY <1>1 DEF HoldInv
  <1>4. PICK b : Path(calls, a, b) /\ Ending(b)
    BY <1>3 DEF OnPath
  <1>5. PICK m \in State : Step(Head(calls), a, m) /\ Path(Tail(calls), m, b)
    BY <1>4, PathTail DEF Busy
  <1>6. HoldAt(m)'
    BY <1>3, <1>4, <1>5, PathTail DEF Busy
  <1>7. OnPath(m)'
    BY <1>1, <1>4, <1>5 DEF OnPath
  <1> QED BY <1>2, <1>6, <1>7 DEF HoldInv

(* What a step along the path says of the call it makes.                   *)
LEMMA MoveFacts ==
  ASSUME NEW a \in State, NEW m \in State, NEW c, Step(c, a, m)
  PROVE  /\ c[1] \in Quiet => m.stage = a.stage
         /\ c[1] \notin Quiet => <<c[1], a.stage, m.stage>> \in Moves
  <1>1. c[1] \in Quiet => \A s, d : <<c[1], s, d>> \notin Moves
    BY DEF Quiet, Moves
  <1> QED BY <1>1 DEF Step

-----------------------------------------------------------------------------
(* The steps *)

(* A pair is made of its parts.                                            *)
LEMMA PairFacts ==
  ASSUME NEW A, NEW C, NEW c \in A \X C
  PROVE  c = <<c[1], c[2]>>
  OBVIOUS

(* Something is given to the tool.                                         *)
LEMMA AcquireKeeps == ASSUME HoldInv, Acquire PROVE HoldInv'
  <1> DEFINE c == Head(calls)
             x == c[2]
  <1>1. Busy /\ Done /\ Sound /\ c[1] = "get" /\ UNCHANGED <<disk, job>>
        /\ held' = held \cup {<<x, Now>>} /\ UNCHANGED script /\ DOMAIN job' = Fields
    BY DEF Acquire, Calls, Done, HoldInv, Standing
  <1> HIDE DEF c
  <1>2. ASSUME NEW a \in State, NEW m \in State, c \in Firmware, HoldAt(a), Step(c, a, m)
        PROVE  HoldAt(m)' /\ x \in Things
    <2>1. m.held = a.held \cup {x} /\ m.stage = a.stage
      BY <1>1, <1>2, MoveFacts DEF Step, After, Quiet
    <2>2. x \in Things
      BY <2>1 DEF State
    <2>3. x # "in"
      <3>1. c = <<c[1], c[2]>>
        BY <1>2, PairFacts DEF Firmware
      <3>2. c = <<"get", x>>
        BY <1>1, <3>1
      <3>3. c # <<"get", "in">>
        BY <1>2 DEF Step, Get
      <3> QED BY <3>2, <3>3
    <2>4. Mine' = Mine \cup {x}
      BY <1>1, <2>2, MineFacts
    <2>5. Line' = Line /\ (NoInput' <=> NoInput)
      BY <1>1, SameLine
    <2> HIDE DEF x
    <2>6. m.held = Mine' \/ (NoInput /\ m.held = Mine' \cup {"in"})
      BY <1>2, <2>1, <2>4 DEF HoldAt
    <2>7. NoInput => "in" \notin Mine'
      BY <1>2, <2>3, <2>4 DEF HoldAt
    <2> QED BY <1>1, <1>2, <2>1, <2>2, <2>5, <2>6, <2>7 DEF HoldAt
  <1>3. x \in Things
    <2>1. PICK a \in State : \E b : Path(calls, a, b) /\ HoldAt(a)
      BY <1>1 DEF HoldInv, Busy, OnPath
    <2>2. c \in Firmware /\ \E m \in State : Step(c, a, m)
      BY <1>1, <2>1, PathTail DEF Busy, c
    <2> QED BY <1>2, <2>1, <2>2
  <1>4. held' \subseteq held \cup (Things \X {Now})
    BY <1>1, <1>3
  <1> QED BY <1>1, <1>2, <1>4, Along DEF c

(* Something is taken back.                                                *)
LEMMA GiveBackKeeps == ASSUME HoldInv, GiveBack PROVE HoldInv'
  <1> DEFINE c == Head(calls)
             x == c[2]
  <1>1. Busy /\ Done /\ Sound /\ c[1] = "give" /\ UNCHANGED <<disk, job>>
        /\ held' = held \ {<<x, Now>>} /\ UNCHANGED script /\ DOMAIN job' = Fields
    BY DEF GiveBack, Calls, Done, HoldInv, Standing
  <1>2. Has(x)
    BY <1>1 DEF Sound, Through
  <1> HIDE DEF c
  <1>3. ASSUME NEW a \in State, NEW m \in State, c \in Firmware, HoldAt(a), Step(c, a, m)
        PROVE  HoldAt(m)'
    <2>1. m.held = a.held \ {x} /\ m.stage = a.stage
      BY <1>1, <1>3, MoveFacts DEF Step, After, Quiet
    <2>2. x \in a.held
      BY <1>1, <1>3 DEF Step, Through
    <2>3. x \in Things /\ x \in Mine
      BY <1>2, <2>2 DEF State, Mine
    <2>4. Mine' = Mine \ {x}
      BY <1>1, <2>3, MineFacts
    <2>5. Line' = Line /\ (NoInput' <=> NoInput)
      BY <1>1, SameLine
    <2> HIDE DEF x
    <2>6. m.held = Mine' \/ (NoInput /\ m.held = Mine' \cup {"in"})
      <3>1. CASE a.held = Mine
        BY <2>1, <2>4, <3>1
      <3>2. CASE NoInput /\ a.held = Mine \cup {"in"}
        <4>1. x # "in"
          BY <1>3, <2>3, <3>2 DEF HoldAt
        <4> QED BY <2>1, <2>4, <3>2, <4>1
      <3> QED BY <1>3, <3>1, <3>2 DEF HoldAt
    <2>7. NoInput => "in" \notin Mine'
      BY <1>3, <2>4 DEF HoldAt
    <2> QED BY <1>1, <1>3, <2>1, <2>5, <2>6, <2>7 DEF HoldAt
  <1>4. held' \subseteq held \cup (Things \X {Now})
    BY <1>1
  <1> QED BY <1>1, <1>3, <1>4, Along DEF c

(* A call that moves no handle: what the stage it leads to asks for is     *)
(* what is left to show.                                                   *)
LEMMA PlainKeeps ==
  ASSUME HoldInv, Busy, Done, DOMAIN job' = Fields, job'.before = job.before, held' = held,
         Head(calls)[1] \notin {"get", "give", "open in", "open out", "keep", "close arg"},
         \A a \in State, m \in State :
            HoldAt(a) /\ Step(Head(calls), a, m) =>
               /\ m.stage \in CatmStages => Line.tool = "catm"
               /\ m.stage \in TranslatorStages => Line.tool # "catm"
               /\ m.stage \in {"fresh", "named", "input"} => disk' = job.before
               /\ m.stage = "named" => job'.in = Line.words[1]
               /\ NoInput => m.stage \notin {"counted", "rewound", "read", "written"}
  PROVE  HoldInv'
  <1>1. UNCHANGED script
    BY DEF Done
  <1>2. Line' = Line /\ (NoInput' <=> NoInput) /\ Mine' = Mine
    <2>1. "in" \in Things
      BY DEF Things
    <2> QED BY <1>1, <2>1, SameLine, MineFacts
  <1>3. ASSUME NEW a \in State, NEW m \in State, HoldAt(a), Step(Head(calls), a, m)
        PROVE  HoldAt(m)'
    <2>1. m.held = a.held
      BY <1>3 DEF Step, After
    <2> QED BY <1>2, <1>3, <2>1 DEF HoldAt
  <1>4. held' \subseteq held \cup (Things \X {Now})
    OBVIOUS
  <1> QED BY <1>3, <1>4, Along

(* A call through the input finds it.                                      *)
LEMMA InputThere ==
  ASSUME NEW a, HoldAt(a), Sound, "in" \in Through(Head(calls))
  PROVE  ~NoInput
  <1>1. "in" \in Mine
    BY DEF Sound, Mine, Things
  <1> QED BY <1>1 DEF HoldAt

(* The words of a line, as the tools find them.                            *)
LEMMA ScannedBackFacts ==
  ASSUME NEW S, NEW words \in Seq(S), Len(words) >= 1
  PROVE  /\ ScannedBack(words).in = words[1]
         /\ Len(words) >= 2 => ScannedBack(words).out = words[2]
  <1> DEFINE n == Len(words)
             Walk(f) == f = [k \in 1 .. n + 1 |->
                               IF k > n THEN [in |-> "", out |-> ""]
                               ELSE BackwardNext(words, k, f[k + 1])]
             g == [k \in 1 .. n + 1 |->
                     IF k > n THEN [in |-> "", out |-> ""]
                     ELSE [in |-> words[k], out |-> IF k + 1 > n THEN "" ELSE words[k + 1]]]
             f == CHOOSE h : Walk(h)
  <1>1. n \in Nat /\ n >= 1
    BY LenProperties
  <1>2. Walk(g)
    <2>1. ASSUME NEW k \in 1 .. n + 1
          PROVE  g[k] = IF k > n THEN [in |-> "", out |-> ""]
                        ELSE BackwardNext(words, k, g[k + 1])
      <3>1. CASE k > n
        BY <3>1
      <3>2. CASE ~ (k > n)
        <4>1. k + 1 \in 1 .. n + 1 /\ k \in 1 .. n + 1
          BY <1>1, <3>2
        <4>2. g[k + 1].in = IF k + 1 > n THEN "" ELSE words[k + 1]
          BY <4>1
        <4>3. g[k] = [in |-> words[k], out |-> IF k + 1 > n THEN "" ELSE words[k + 1]]
          BY <3>2
        <4> HIDE DEF g
        <4> QED BY <3>2, <4>2, <4>3 DEF BackwardNext
      <3> QED BY <3>1, <3>2
    <2> QED BY <2>1
  <1>3. Walk(f)
    BY <1>2
  <1>4. ScannedBack(words) = f[1]
    BY DEF ScannedBack
  <1> HIDE DEF f, g
  <1>5. \A k \in 1 .. n : f[k] = BackwardNext(words, k, f[k + 1])
    <2>1. \A k \in 1 .. n + 1 : f[k] = IF k > n THEN [in |-> "", out |-> ""]
                                       ELSE BackwardNext(words, k, f[k + 1])
      BY <1>3
    <2>2. ASSUME NEW k \in 1 .. n
          PROVE  k \in 1 .. n + 1 /\ ~ (k > n)
      BY <1>1
    <2> QED BY <2>1, <2>2
  <1>6. f[1] = BackwardNext(words, 1, f[2])
    <2>1. 1 \in 1 .. n /\ 1 + 1 = 2
      BY <1>1
    <2> QED BY <1>5, <2>1
  <1>7. n >= 2 => f[2].in = words[2]
    <2>1. n >= 2 => f[2] = BackwardNext(words, 2, f[2 + 1])
      BY <1>1, <1>5
    <2>2. BackwardNext(words, 2, f[2 + 1]).in = words[2]
      BY DEF BackwardNext
    <2> QED BY <2>1, <2>2
  <1> HIDE DEF n
  <1> QED BY <1>4, <1>6, <1>7 DEF BackwardNext, n

(* The words are found: the input is the first word of a translator's      *)
(* line.                                                                   *)
LEMMA OptionsKeep == ASSUME HoldInv, BackwardOptions \/ ForwardOptions PROVE HoldInv'
  <1> DEFINE c == Head(calls)
  <1>1. /\ Busy /\ Done /\ UNCHANGED <<disk, held>> /\ c[1] \in {"options", "forward options"}
        /\ \E s : /\ job' = [job EXCEPT !.in = s.in, !.out = s.out]
                  /\ s = IF c[1] = "options" THEN ScannedBack(Line.words)
                         ELSE ScannedForward(Line.tool, Line.words)
    BY DEF BackwardOptions, ForwardOptions, Options, Calls
  <1>2. PICK s : /\ job' = [job EXCEPT !.in = s.in, !.out = s.out]
                 /\ s = IF c[1] = "options" THEN ScannedBack(Line.words)
                        ELSE ScannedForward(Line.tool, Line.words)
    BY <1>1
  <1>3. DOMAIN job' = Fields /\ job'.before = job.before /\ job'.in = s.in
    BY <1>2 DEF HoldInv, Standing, Fields
  <1>4. Line.tool # "catm" => s.in = Line.words[1]
    <2>1. Line \in ScriptLine /\ WellFormed(Line)
      BY <1>1, LineFacts DEF HoldInv, Standing, Busy
    <2>2. Line.words \in Seq(Files \cup {""})
      BY <2>1 DEF ScriptLine
    <2>3. Line.tool # "catm" => Len(Line.words) >= 1
      <3>1. Len(Line.words) \in Nat
        BY <2>2, LenProperties
      <3>2. Line.tool # "catm" => Len(Line.words) >= 2
        BY <2>1 DEF WellFormed
      <3> QED BY <3>1, <3>2
    <2>4. Line.tool # "catm" => ScannedBack(Line.words).in = Line.words[1]
      BY <2>2, <2>3, ScannedBackFacts
    <2> QED BY <1>2, <2>4 DEF ScannedForward
  <1> HIDE DEF c
  <1>5. ASSUME NEW a \in State, NEW m \in State, HoldAt(a), Step(c, a, m)
        PROVE  /\ m.stage \in CatmStages => Line.tool = "catm"
               /\ m.stage \in TranslatorStages => Line.tool # "catm"
               /\ m.stage \in {"fresh", "named", "input"} => disk' = job.before
               /\ m.stage = "named" => job'.in = Line.words[1]
               /\ NoInput => m.stage \notin {"counted", "rewound", "read", "written"}
    <2>1. <<c[1], a.stage, m.stage>> \in Moves
      BY <1>1, <1>5, MoveFacts DEF Quiet
    <2>2. \/ a.stage = "fresh" /\ m.stage = "named"
          \/ a.stage = "blank" /\ m.stage = "target"
      BY <1>1, <2>1 DEF Moves
    <2> QED BY <1>1, <1>3, <1>4, <1>5, <2>2 DEF HoldAt, TranslatorStages, CatmStages
  <1>6. held' = held /\ c[1] \notin {"get", "give", "open in", "open out", "keep", "close arg"}
    BY <1>1
  <1> QED BY <1>1, <1>3, <1>5, <1>6, PlainKeeps DEF c

(* The input is opened, or is missing and not noticed.                     *)
LEMMA OpenInKeeps == ASSUME HoldInv, OpenIn PROVE HoldInv'
  <1> DEFINE c == Head(calls)
  <1>1. /\ Busy /\ Done /\ UNCHANGED <<disk, script>> /\ c[1] = "open in"
        /\ job' = [job EXCEPT !.rd = 0]
        /\ held' = IF disk[job.in] = Missing THEN held ELSE held \cup {<<"in", Now>>}
    BY DEF OpenIn, Calls, Done
  <1>2. DOMAIN job' = Fields /\ job'.before = job.before
    BY <1>1 DEF HoldInv, Standing, Fields
  <1>3. Line' = Line /\ (NoInput' <=> NoInput)
    BY <1>1, <1>2, SameLine
  <1>4. "in" \in Things
    BY DEF Things
  <1> HIDE DEF c
  <1>5. ASSUME NEW a \in State, NEW m \in State, HoldAt(a), Step(c, a, m)
        PROVE  HoldAt(m)'
    <2>1. m.held = a.held \cup {"in"} /\ a.stage = "named" /\ m.stage = "input"
      <3>1. <<c[1], a.stage, m.stage>> \in Moves
        BY <1>1, <1>5, MoveFacts DEF Quiet
      <3>2. a.stage = "named" /\ m.stage = "input"
        BY <1>1, <3>1 DEF Moves
      <3> QED BY <1>1, <1>5, <3>2 DEF Step, After
    <2>2. Line.tool # "catm" /\ disk = job.before /\ job.in = Line.words[1]
      BY <1>5, <2>1 DEF HoldAt, TranslatorStages
    <2>3. NoInput <=> disk[job.in] = Missing
      BY <2>2 DEF NoInput
    <2>4. CASE NoInput
      <3>1. Mine' = Mine
        BY <1>1, <1>4, <2>3, <2>4, MineFacts
      <3>2. m.held = Mine' \cup {"in"} /\ "in" \notin Mine'
        BY <1>5, <2>1, <2>4, <3>1 DEF HoldAt
      <3> QED BY <1>1, <1>2, <1>3, <2>1, <2>2, <2>4, <3>2 DEF HoldAt, CatmStages
    <2>5. CASE ~NoInput
      <3>1. Mine' = Mine \cup {"in"}
        BY <1>1, <1>4, <2>3, <2>5, MineFacts
      <3>2. m.held = Mine'
        BY <1>5, <2>1, <2>5, <3>1 DEF HoldAt
      <3> QED BY <1>1, <1>2, <1>3, <2>1, <2>2, <2>5, <3>2 DEF HoldAt, CatmStages
    <2> QED BY <2>4, <2>5
  <1>6. held' \subseteq held \cup (Things \X {Now})
    <2>1. held' \subseteq held \cup {<<"in", Now>>}
      BY <1>1
    <2>2. <<"in", Now>> \in Things \X {Now}
      BY <1>4
    <2> QED BY <2>1, <2>2
  <1>7. Busy /\ Done /\ DOMAIN job' = Fields
    BY <1>1, <1>2
  <1> QED BY <1>5, <1>6, <1>7, Along DEF c

(* The output is opened, or created.                                       *)
LEMMA OpenOutKeeps == ASSUME HoldInv, OpenOut PROVE HoldInv'
  <1> DEFINE c == Head(calls)
  <1>1. /\ Busy /\ Done /\ UNCHANGED script /\ c[1] = "open out"
        /\ job' = [job EXCEPT !.wr = 0, !.arg = 2]
        /\ held' = held \cup {<<"out", Now>>}
    BY DEF OpenOut, Calls, Done
  <1>2. DOMAIN job' = Fields /\ job'.before = job.before
    BY <1>1 DEF HoldInv, Standing, Fields
  <1>3. Line' = Line /\ (NoInput' <=> NoInput)
    BY <1>1, <1>2, SameLine
  <1>4. "out" \in Things /\ Mine' = Mine \cup {"out"}
    BY <1>1, MineFacts DEF Things
  <1> HIDE DEF c
  <1>5. ASSUME NEW a \in State, NEW m \in State, HoldAt(a), Step(c, a, m)
        PROVE  HoldAt(m)'
    <2>1. <<c[1], a.stage, m.stage>> \in Moves
      BY <1>1, <1>5, MoveFacts DEF Quiet
    <2>2. \/ a.stage = "input" /\ m.stage = "created"
          \/ a.stage = "target" /\ m.stage = "joining"
      BY <1>1, <2>1 DEF Moves
    <2>3. m.held = a.held \cup {"out"}
      BY <1>1, <1>5 DEF Step, After
    <2>4. m.held = Mine' \/ (NoInput /\ m.held = Mine' \cup {"in"})
      BY <1>4, <1>5, <2>3 DEF HoldAt
    <2>5. NoInput => "in" \notin Mine'
      BY <1>4, <1>5 DEF HoldAt
    <2> QED BY <1>3, <1>5, <2>2, <2>4, <2>5 DEF HoldAt, TranslatorStages, CatmStages
  <1>6. held' \subseteq held \cup (Things \X {Now})
    <2>1. held' \subseteq held \cup {<<"out", Now>>}
      BY <1>1
    <2>2. <<"out", Now>> \in Things \X {Now}
      BY <1>4
    <2> QED BY <2>1, <2>2
  <1>7. Busy /\ Done /\ DOMAIN job' = Fields
    BY <1>1, <1>2
  <1> QED BY <1>5, <1>6, <1>7, Along DEF c

(* The calls between opening and closing: none of them gets past a missing *)
(* input.                                                                  *)
Work == FirstPass \/ Rewind \/ SecondPass \/ GetInfo \/ ReadAll \/ WriteAll \/ Flush \/ CoreDone

(* They keep the invariant.                                                *)
LEMMA WorkKeeps == ASSUME HoldInv, Work PROVE HoldInv'
  <1> DEFINE c == Head(calls)
  <1>1. /\ Busy /\ Done /\ Sound /\ held' = held /\ UNCHANGED script
        /\ c[1] \in {"first pass", "rewind", "second pass", "get info", "read all", "write all",
                     "flush", "core"}
        /\ c[1] \in {"get info", "flush"} => UNCHANGED <<disk, job>>
    BY DEF Work, FirstPass, Rewind, SecondPass, GetInfo, ReadAll, WriteAll, Flush, CoreDone,
           Calls, Done, WriteOut
  <1>2. DOMAIN job = Fields
    BY DEF HoldInv, Standing
  <1>3. DOMAIN job' = Fields /\ job'.before = job.before /\ job'.in = job.in
    <2>1. CASE FirstPass \/ Rewind \/ ReadAll
      BY <1>2, <2>1 DEF FirstPass, Rewind, ReadAll, Fields
    <2>2. CASE SecondPass \/ WriteAll
      BY <1>2, <2>2 DEF SecondPass, WriteAll, WriteOut, Fields
    <2>3. CASE GetInfo \/ Flush \/ CoreDone
      BY <1>2, <2>3 DEF GetInfo, Flush, CoreDone
    <2> QED BY <2>1, <2>2, <2>3 DEF Work
  <1>4. c[1] \in {"first pass", "rewind", "second pass", "read all"} => "in" \in Through(c)
    <2> SUFFICES ASSUME c[1] \in {"first pass", "rewind", "second pass", "read all"}
                 PROVE  "in" \in Through(c)
      OBVIOUS
    <2> HIDE DEF c
    <2>1. "in" \in Handles(c[1])
      BY DEF Handles
    <2>2. Get("root")[1] = "get"
      BY DEF Get
    <2> QED BY <2>1, <2>2 DEF Through
  <1>5. Busy /\ Done /\ Sound
    BY <1>1
  <1> HIDE DEF c
  <1>6. ASSUME NEW a \in State, NEW m \in State, HoldAt(a), Step(c, a, m)
        PROVE  /\ m.stage \in CatmStages => Line.tool = "catm"
               /\ m.stage \in TranslatorStages => Line.tool # "catm"
               /\ m.stage \in {"fresh", "named", "input"} => disk' = job.before
               /\ m.stage = "named" => job'.in = Line.words[1]
               /\ NoInput => m.stage \notin {"counted", "rewound", "read", "written"}
    <2>1. CASE c[1] \in {"get info", "flush"}
      <3>1. m.stage = a.stage
        BY <1>6, <2>1, MoveFacts DEF Quiet
      <3>2. UNCHANGED <<disk, job>>
        BY <1>1, <2>1
      <3> QED BY <1>6, <3>1, <3>2 DEF HoldAt
    <2>2. CASE c[1] \in {"first pass", "rewind", "second pass", "read all"}
      <3>1. <<c[1], a.stage, m.stage>> \in Moves
        BY <1>6, <2>2, MoveFacts DEF Quiet
      <3>2. /\ a.stage \in {"created", "counted", "rewound"}
            /\ m.stage \in {"counted", "rewound", "written", "read"}
        BY <2>2, <3>1 DEF Moves
      <3>3. ~NoInput
        BY <1>4, <1>5, <1>6, <2>2, InputThere DEF c
      <3> QED BY <1>6, <3>2, <3>3 DEF HoldAt, TranslatorStages, CatmStages
    <2>3. CASE c[1] = "write all"
      <3>1. <<c[1], a.stage, m.stage>> \in Moves
        BY <1>6, <2>3, MoveFacts DEF Quiet
      <3>2. a.stage = "read" /\ m.stage = "written"
        BY <2>3, <3>1 DEF Moves
      <3> QED BY <1>6, <3>2 DEF HoldAt, TranslatorStages, CatmStages
    <2>4. CASE c[1] = "core"
      <3>1. <<c[1], a.stage, m.stage>> \in Moves
        BY <1>6, <2>4, MoveFacts DEF Quiet
      <3>2. a.stage = "joining" /\ m.stage = "written"
        BY <2>4, <3>1 DEF Moves
      <3>3. ~NoInput
        BY <1>6, <3>2 DEF HoldAt, CatmStages, NoInput
      <3> QED BY <1>6, <3>2, <3>3 DEF HoldAt, TranslatorStages, CatmStages
    <2> QED BY <1>1, <2>1, <2>2, <2>3, <2>4
  <1>7. held' = held /\ c[1] \notin {"get", "give", "open in", "open out", "keep", "close arg"}
    BY <1>1
  <1> QED BY <1>3, <1>5, <1>6, <1>7, PlainKeeps DEF c

(* catm closes an input.                                                   *)
LEMMA CloseArgKeeps == ASSUME HoldInv, CloseArg PROVE HoldInv'
  <1> DEFINE c == Head(calls)
  <1>1. /\ Busy /\ Done /\ UNCHANGED <<disk, script>> /\ c[1] = "close arg"
        /\ job' = [job EXCEPT !.arg = Advance]
        /\ held' = held \ {<<"in", Now>>}
    BY DEF CloseArg, Calls, Done
  <1>2. DOMAIN job' = Fields /\ job'.before = job.before
    BY <1>1 DEF HoldInv, Standing, Fields
  <1>3. Line' = Line /\ (NoInput' <=> NoInput)
    BY <1>1, <1>2, SameLine
  <1>4. Mine' = Mine \ {"in"}
    BY <1>1, MineFacts DEF Things
  <1> HIDE DEF c
  <1>5. ASSUME NEW a \in State, NEW m \in State, HoldAt(a), Step(c, a, m)
        PROVE  HoldAt(m)'
    <2>1. <<c[1], a.stage, m.stage>> \in Moves
      BY <1>1, <1>5, MoveFacts DEF Quiet
    <2>2. a.stage = "closing" /\ m.stage = "joining"
      BY <1>1, <2>1 DEF Moves
    <2>3. m.held = a.held \ {"in"}
      BY <1>1, <1>5 DEF Step, After
    <2>4. Line.tool = "catm" /\ ~NoInput
      BY <1>5, <2>2 DEF HoldAt, CatmStages, NoInput
    <2>5. m.held = Mine'
      BY <1>4, <1>5, <2>3, <2>4 DEF HoldAt
    <2> QED BY <1>3, <2>2, <2>4, <2>5 DEF HoldAt, TranslatorStages, CatmStages
  <1>6. held' \subseteq held \cup (Things \X {Now})
    BY <1>1
  <1>7. Busy /\ Done /\ DOMAIN job' = Fields
    BY <1>1, <1>2
  <1> QED BY <1>5, <1>6, <1>7, Along DEF c

(* A step of catm's loop that changes the calls to come.                   *)
LEMMA Detour ==
  ASSUME HoldInv, Busy, UNCHANGED <<script, on, outcome>>, DOMAIN job' = Fields,
         held' \subseteq held \cup (Things \X {Now}),
         \A a \in State : OnPath(a) /\ HoldAt(a) => \E m \in State : OnPath(m)' /\ HoldAt(m)'
  PROVE  HoldInv'
  <1>1. on /\ outcome = "running"
    BY DEF Busy
  <1>2. Standing'
    <2>1. Now' = Now /\ Now \in Nat
      BY <1>1, SameLine, LineFacts DEF HoldInv, Standing
    <2>2. held' \subseteq Things \X Nat
      BY <2>1 DEF HoldInv, Standing
    <2>3. \A e \in held' : e[2] = Now \/ (e[1] = "stack" /\ e[2] > Now)
      BY <1>1 DEF HoldInv, Standing
    <2> QED BY <1>1, <2>1, <2>2, <2>3 DEF HoldInv, Standing
  <1>3. PICK a \in State : OnPath(a) /\ HoldAt(a)
    BY <1>1 DEF HoldInv
  <1>4. PICK m \in State : OnPath(m)' /\ HoldAt(m)'
    BY <1>3
  <1> QED BY <1>2, <1>4 DEF HoldInv

(* Nothing in front of a sequence is the sequence.                         *)
LEMMA NothingInFront ==
  ASSUME NEW S, NEW s \in Seq(S)
  PROVE  << >> \o s = s
  BY ConcatEmptySeq

(* catm passes over a word.                                                *)
LEMMA CoreSkipKeeps == ASSUME HoldInv, CoreSkip PROVE HoldInv'
  <1>1. /\ Busy /\ UNCHANGED <<script, on, outcome, disk, held>>
        /\ job' = [job EXCEPT !.arg = Advance] /\ calls' = << >> \o calls
    BY DEF CoreSkip, Calls, CoreStays
  <1>2. DOMAIN job' = Fields /\ job'.before = job.before /\ job'.in = job.in
    BY <1>1 DEF HoldInv, Standing, Fields
  <1>3. Line' = Line /\ (NoInput' <=> NoInput) /\ Mine' = Mine
    <2>1. "in" \in Things
      BY DEF Things
    <2> QED BY <1>1, <1>2, <2>1, SameLine, MineFacts
  <1>4. ASSUME NEW a \in State, OnPath(a), HoldAt(a)
        PROVE  OnPath(a)' /\ HoldAt(a)'
    <2>1. calls \in Seq(Firmware)
      BY <1>4 DEF OnPath, Path
    <2>2. calls' = calls
      BY <1>1, <2>1, NothingInFront
    <2> QED BY <1>1, <1>2, <1>3, <1>4, <2>2 DEF OnPath, HoldAt
  <1>5. held' \subseteq held \cup (Things \X {Now})
    BY <1>1
  <1> QED BY <1>1, <1>2, <1>4, <1>5, Detour

(* catm opens an input: reading and closing it is a detour that comes back *)
(* to where the loop was.                                                  *)
LEMMA CoreOpenKeeps == ASSUME HoldInv, CoreOpen PROVE HoldInv'
  <1> DEFINE c == Head(calls)
  <1>1. /\ Busy /\ UNCHANGED <<script, on, outcome, disk>> /\ c[1] = "core"
        /\ held' = held \cup {<<"in", Now>>}
        /\ job' = [job EXCEPT !.in = Arg, !.rd = 0] /\ calls' = <<Call("keep")>> \o calls
    BY DEF CoreOpen, Calls, CoreStays
  <1>2. DOMAIN job' = Fields /\ job'.before = job.before
    BY <1>1 DEF HoldInv, Standing, Fields
  <1>3. Line' = Line /\ (NoInput' <=> NoInput) /\ Mine' = Mine \cup {"in"}
    <2>1. "in" \in Things
      BY DEF Things
    <2> QED BY <1>1, <1>2, <2>1, SameLine, MineFacts
  <1>4. ASSUME NEW a \in State, OnPath(a), HoldAt(a)
        PROVE  \E m \in State : OnPath(m)' /\ HoldAt(m)'
    <2>1. PICK b : Path(calls, a, b) /\ Ending(b)
      BY <1>4 DEF OnPath
    <2>2. PICK d \in State : Step(c, a, d)
      BY <1>1, <2>1, PathTail DEF Busy
    <2> HIDE DEF c
    <2>3. a.stage = "joining"
      <3>1. <<c[1], a.stage, d.stage>> \in Moves
        BY <1>1, <2>2, MoveFacts DEF Quiet
      <3> QED BY <1>1, <3>1 DEF Moves
    <2>4. "in" \notin a.held /\ {"out", "pool"} \subseteq a.held
      BY <1>1, <2>2 DEF Step
    <2> DEFINE H == a.held \cup {"in"}
    <2>5. H \subseteq Things /\ a = At(a.held, "joining")
      BY <2>3 DEF Things, State, At
    <2>6. At(H, "keeping") \in State
      BY <2>5 DEF State, At, Stages, CatmStages
    <2>7. Step(Call("keep"), At(H, "keeping"), At(a.held, "joining")) /\ Call("keep") \in Firmware
      <3>1. Call("keep") \in Firmware /\ <<"keep", "keeping", "joining">> \in Moves
        BY DEF Call, Firmware, Moves
      <3>2. Handles("keep") \subseteq H /\ a.held = After(Call("keep"), H)
        BY <2>4 DEF Handles, After, Call
      <3> DEFINE G == a.held
      <3> HIDE DEF H, G
      <3>3. Step(Call("keep"), At(H, "keeping"), At(G, "joining"))
        BY <3>1, <3>2, CallStep DEF G
      <3> QED BY <3>1, <3>3 DEF G
    <2>8. Path(<<Call("keep")>>, At(H, "keeping"), a)
      <3> HIDE DEF H
      <3> QED BY <2>5, <2>6, <2>7, PathOne
    <2>9. OnPath(At(H, "keeping"))'
      <3> HIDE DEF H
      <3>1. Path(calls', At(H, "keeping"), b)
        BY <1>1, <2>1, <2>8, PathConcat
      <3> QED BY <2>1, <3>1 DEF OnPath
    <2>10. HoldAt(At(H, "keeping"))'
      <3>1. Line.tool = "catm" /\ ~NoInput
        BY <1>4, <2>3 DEF HoldAt, CatmStages, NoInput
      <3>2. H = Mine'
        BY <1>3, <1>4, <3>1 DEF HoldAt
      <3> QED BY <1>3, <3>1, <3>2 DEF HoldAt, At, TranslatorStages
    <2> QED BY <2>6, <2>9, <2>10
  <1>5. held' \subseteq held \cup (Things \X {Now})
    <2>1. <<"in", Now>> \in Things \X {Now}
      BY DEF Things
    <2> QED BY <1>1, <2>1
  <1>6. Busy /\ UNCHANGED <<script, on, outcome>> /\ DOMAIN job' = Fields
    BY <1>1, <1>2
  <1> QED BY <1>4, <1>5, <1>6, Detour

(* One turn of reading and writing, after which catm reads on or closes.   *)
LEMMA KeepKeeps == ASSUME HoldInv, Keep PROVE HoldInv'
  <1> DEFINE c == Head(calls)
  <1>1. /\ Busy /\ UNCHANGED <<script, on, outcome, held>> /\ c[1] = "keep"
        /\ calls' = calls \/ calls' = <<Call("close arg")>> \o Tail(calls)
    BY DEF Keep, Calls
  <1>2. DOMAIN job' = Fields /\ job'.before = job.before
    BY DEF Keep, HoldInv, Standing, Fields
  <1>3. Line' = Line /\ (NoInput' <=> NoInput) /\ Mine' = Mine
    <2>1. "in" \in Things
      BY DEF Things
    <2> QED BY <1>1, <1>2, <2>1, SameLine, MineFacts
  <1>4. ASSUME NEW a \in State, OnPath(a), HoldAt(a)
        PROVE  \E m \in State : OnPath(m)' /\ HoldAt(m)'
    <2>1. PICK b : Path(calls, a, b) /\ Ending(b)
      BY <1>4 DEF OnPath
    <2>2. PICK d \in State : Step(c, a, d) /\ Path(Tail(calls), d, b)
      BY <1>1, <2>1, PathTail DEF Busy
    <2> HIDE DEF c
    <2>3. a.stage = "keeping" /\ d.stage = "joining"
      <3>1. <<c[1], a.stage, d.stage>> \in Moves
        BY <1>1, <2>2, MoveFacts DEF Quiet
      <3> QED BY <1>1, <3>1 DEF Moves
    <2>4. Line.tool = "catm" /\ ~NoInput
      BY <1>4, <2>3 DEF HoldAt, CatmStages, NoInput
    <2>5. CASE calls' = calls
      <3>1. OnPath(a)'
        BY <1>4, <2>5 DEF OnPath
      <3>2. HoldAt(a)'
        BY <1>3, <1>4, <2>3, <2>4 DEF HoldAt, TranslatorStages
      <3> QED BY <3>1, <3>2
    <2>6. CASE calls' = <<Call("close arg")>> \o Tail(calls)
      <3> DEFINE G == a.held
                 D == d.held
      <3>1. "in" \in G /\ D = G \ {"in"} /\ G \subseteq Things
        <4>1. "in" \in Through(c)
          <5>1. Get("root")[1] = "get"
            BY DEF Get
          <5> QED BY <1>1, <5>1 DEF Through, Handles
        <4> QED BY <1>1, <2>2, <4>1 DEF Step, After, State
      <3>2. d = At(D, "joining")
        BY <2>3 DEF State, At
      <3> HIDE DEF G, D
      <3>3. Call("close arg") \in Firmware /\ <<"close arg", "closing", "joining">> \in Moves
        BY DEF Call, Firmware, Moves
      <3>4. Handles("close arg") \subseteq G /\ D = After(Call("close arg"), G)
        BY <3>1 DEF Handles, After, Call
      <3>5. Step(Call("close arg"), At(G, "closing"), d)
        BY <3>2, <3>3, <3>4, CallStep
      <3>6. At(G, "closing") \in State
        BY <3>1 DEF State, At, Stages, CatmStages
      <3>7. Path(<<Call("close arg")>>, At(G, "closing"), d)
        BY <3>3, <3>5, <3>6, PathOne
      <3>8. OnPath(At(G, "closing"))'
        <4>1. Path(calls', At(G, "closing"), b)
          BY <2>2, <2>6, <3>7, PathConcat
        <4> QED BY <2>1, <4>1 DEF OnPath
      <3>9. HoldAt(At(G, "closing"))'
        <4>1. G = Mine'
          BY <1>3, <1>4, <2>4 DEF HoldAt, G
        <4> QED BY <1>3, <2>4, <4>1 DEF HoldAt, At, TranslatorStages
      <3> QED BY <3>6, <3>8, <3>9
    <2> QED BY <1>1, <2>5, <2>6
  <1>5. held' \subseteq held \cup (Things \X {Now})
    BY <1>1
  <1>6. Busy /\ UNCHANGED <<script, on, outcome>> /\ DOMAIN job' = Fields
    BY <1>1, <1>2
  <1> QED BY <1>4, <1>5, <1>6, Detour

(* A tool is started with nothing but the stacks of earlier lines held.    *)
LEMMA StartKeeps == ASSUME HoldInv, Start PROVE HoldInv'
  <1>1. /\ ~on /\ on' /\ outcome = "running" /\ script # << >> /\ calls' = CallsOf(Line.tool)
        /\ UNCHANGED <<disk, script, held, outcome>>
    BY DEF Start
  <1>2. DOMAIN job' = Fields /\ job'.before = disk
    BY DEF Start, Fields
  <1>3. Line' = Line /\ Now' = Now /\ Line \in ScriptLine
    BY <1>1, SameLine, LineFacts DEF HoldInv
  <1>4. Standing'
    BY <1>1, <1>2, <1>3 DEF HoldInv, Standing
  <1>5. Mine' = {}
    <2>1. \A x \in Things : <<x, Now>> \notin held
      <3> SUFFICES ASSUME NEW x \in Things, <<x, Now>> \in held
                   PROVE  FALSE
        OBVIOUS
      <3>1. Now > Now
        BY <1>1 DEF HoldInv, Standing
      <3>2. Now \in Nat
        BY <1>1, LineFacts DEF HoldInv
      <3> QED BY <3>1, <3>2
    <2> QED BY <1>1, <1>3, <2>1 DEF Mine, Has
  <1> DEFINE a == Begin(Line.tool)
  <1>6. a \in State
    BY DEF Begin, At, State, Stages, TranslatorStages, CatmStages
  <1>7. OnPath(a)'
    <2>1. Line.tool \in {"hex1", "hex2", "M0", "catm"}
      BY <1>3 DEF ScriptLine
    <2>2. \E b : Path(CallsOf(Line.tool), a, b) /\ Ending(b)
      BY <2>1, CallsPath
    <2> HIDE DEF a
    <2>3. PICK b : Path(calls', a, b) /\ Ending(b)
      BY <1>1, <2>2
    <2>4. \A d : d = a => OnPath(d)'
      BY <2>3 DEF OnPath
    <2>5. Begin(Line.tool)' = a
      BY <1>3 DEF Begin, a
    <2> QED BY <2>3, <2>4, <2>5 DEF OnPath, a
  <1>8. HoldAt(a)'
    BY <1>1, <1>2, <1>3, <1>5 DEF HoldAt, Begin, At, TranslatorStages, CatmStages
  <1>9. PICK d : d = a
    OBVIOUS
  <1>10. d \in State /\ OnPath(d)' /\ HoldAt(d)'
    <2>1. a' = a
      BY <1>3 DEF Begin
    <2> HIDE DEF a
    <2> QED BY <1>6, <1>7, <1>8, <1>9, <2>1 DEF OnPath, HoldAt
  <1> QED BY <1>4, <1>10 DEF HoldInv

(* A tool that has made all its calls keeps nothing but the stack.         *)
LEMMA ReturnKeeps == ASSUME HoldInv, Return PROVE HoldInv'
  <1>1. /\ on /\ on' = FALSE /\ outcome = "running" /\ calls = << >> /\ script' = Tail(script)
        /\ UNCHANGED <<disk, calls, held, job, outcome>>
    BY DEF Return
  <1>2. PICK a \in State : OnPath(a) /\ HoldAt(a)
    BY <1>1 DEF HoldInv
  <1>3. Ending(a)
    BY <1>1, <1>2, PathEmpty DEF OnPath
  <1>4. Mine \subseteq {"stack"}
    BY <1>2, <1>3 DEF HoldAt, Ending
  <1>5. script # << >>
    BY <1>1 DEF HoldInv, Standing
  <1>6. Now \in Nat /\ Now' = Now - 1
    BY <1>1, <1>5, LineFacts DEF HoldInv, Now
  <1>7. ASSUME NEW e \in held
        PROVE  e[1] = "stack" /\ e[2] > Now - 1
    <2>1. e = <<e[1], e[2]>> /\ e[1] \in Things
      <3>1. e \in Things \X Nat
        BY DEF HoldInv, Standing
      <3> QED BY <3>1
    <2>2. CASE e[2] = Now
      <3>1. e[1] \in Mine
        BY <2>1, <2>2 DEF Mine, Has
      <3>2. e[1] = "stack"
        BY <1>4, <3>1
      <3>3. Now > Now - 1
        BY <1>6
      <3> QED BY <2>2, <3>2, <3>3
    <2>3. CASE e[1] = "stack" /\ e[2] > Now
      BY <1>6, <2>1, <2>3 DEF HoldInv, Standing
    <2> QED BY <1>1, <2>2, <2>3 DEF HoldInv, Standing
  <1>8. Standing'
    BY <1>1, <1>5, <1>6, <1>7, LineFacts DEF HoldInv, Standing
  <1> QED BY <1>1, <1>8 DEF HoldInv

(* A call goes astray only where an input is missing.                      *)
LEMMA StrayKeeps == ASSUME HoldInv, Stray PROVE HoldInv'
  <1>1. /\ Busy /\ ~Sound /\ outcome' = "lost" /\ on /\ outcome = "running"
        /\ UNCHANGED <<disk, script, calls, held, job, on>>
    BY DEF Stray, Busy
  <1>2. PICK a \in State : OnPath(a) /\ HoldAt(a)
    BY <1>1 DEF HoldInv
  <1>3. PICK m \in State : Step(Head(calls), a, m)
    BY <1>1, <1>2, PathTail DEF OnPath, Busy
  <1>4. PICK x \in Through(Head(calls)) : ~Has(x)
    BY <1>1 DEF Sound
  <1>5. x \in a.held /\ x \notin Mine
    BY <1>3, <1>4 DEF Step, Mine
  <1>6. NoInput
    BY <1>2, <1>5 DEF HoldAt
  <1>7. NoInput' /\ Now' = Now
    BY <1>1, <1>6, SameLine
  <1>8. Standing'
    BY <1>1, <1>7 DEF HoldInv, Standing
  <1> QED BY <1>1, <1>8 DEF HoldInv

(* Before the first line nothing is held.                                  *)
LEMMA InitHold == Init => HoldInv
  <1> SUFFICES ASSUME Init
               PROVE  HoldInv
    OBVIOUS
  <1>1. Standing
    BY ScriptsAssumption DEF Init, Standing, Fields
  <1> QED BY <1>1 DEF HoldInv, Init

(* Every step keeps the invariant.                                         *)
LEMMA StepHold == HoldInv /\ [Next]_vars => HoldInv'
  <1> SUFFICES ASSUME HoldInv, [Next]_vars
               PROVE  HoldInv'
    OBVIOUS
  <1>1. CASE Acquire
    BY <1>1, AcquireKeeps
  <1>2. CASE GiveBack
    BY <1>2, GiveBackKeeps
  <1>3. CASE BackwardOptions \/ ForwardOptions
    BY <1>3, OptionsKeep
  <1>4. CASE OpenIn
    BY <1>4, OpenInKeeps
  <1>5. CASE OpenOut
    BY <1>5, OpenOutKeeps
  <1>6. CASE Work
    BY <1>6, WorkKeeps
  <1>7. CASE CoreSkip
    BY <1>7, CoreSkipKeeps
  <1>8. CASE CoreOpen
    BY <1>8, CoreOpenKeeps
  <1>9. CASE Keep
    BY <1>9, KeepKeeps
  <1>10. CASE CloseArg
    BY <1>10, CloseArgKeeps
  <1>11. CASE Start
    BY <1>11, StartKeeps
  <1>12. CASE Return
    BY <1>12, ReturnKeeps
  <1>13. CASE Stray
    BY <1>13, StrayKeeps
  <1>14. CASE Finish
    <2>1. UNCHANGED <<disk, script, calls, held, job, on>> /\ outcome' = "done" /\ ~on
      BY <1>14 DEF Finish
    <2>2. Now' = Now
      BY <2>1, SameLine
    <2>3. Standing'
      BY <2>1, <2>2 DEF HoldInv, Standing
    <2> QED BY <2>1, <2>3 DEF HoldInv
  <1>15. CASE UNCHANGED vars
    <2>1. UNCHANGED <<disk, script, calls, held, job, on, outcome>>
      BY <1>15 DEF vars
    <2>2. Now' = Now /\ Line' = Line /\ (NoInput' <=> NoInput)
      BY <2>1, SameLine
    <2>3. Standing'
      BY <2>1, <2>2 DEF HoldInv, Standing
    <2>4. \A a : (OnPath(a) => OnPath(a)') /\ (HoldAt(a) => HoldAt(a)')
      <3>1. Mine' = Mine
        BY <2>1, <2>2 DEF Mine, Has
      <3> QED BY <2>1, <2>2, <3>1 DEF OnPath, HoldAt
    <2> QED BY <2>1, <2>3, <2>4 DEF HoldInv
  <1> QED BY <1>1, <1>2, <1>3, <1>4, <1>5, <1>6, <1>7, <1>8, <1>9, <1>10, <1>11, <1>12,
             <1>13, <1>14, <1>15, Zenon DEF Next, Work

(* Every run keeps to the paths of its tools.                              *)
THEOREM HoldAlways == Spec => []HoldInv
  BY InitHold, StepHold, PTL DEF Spec

-----------------------------------------------------------------------------
(* Theorems *)

(* A tool that has returned holds nothing but the stack of M0, for every   *)
(* script, disk and buffer size.                                           *)
THEOREM AllGivenBackTheorem == Spec => []AllGivenBack
  <1>1. HoldInv => AllGivenBack
    BY DEF HoldInv, Standing, AllGivenBack
  <1> QED BY <1>1, HoldAlways, PTL

(* No call goes through a handle that is not open, unless a translator's   *)
(* input is missing.                                                       *)
THEOREM StraysTheorem == Spec => []StraysOnlyWithoutInput
  <1>1. HoldInv => StraysOnlyWithoutInput
    BY DEF HoldInv, Standing, NoInput, StraysOnlyWithoutInput
  <1> QED BY <1>1, HoldAlways, PTL

-----------------------------------------------------------------------------
(* Every set of natural numbers that is not empty has a least one.         *)
LEMMA Least ==
  ASSUME NEW T, T \subseteq Nat, T # {}
  PROVE  \E m \in T : \A k \in T : m <= k
  <1> DEFINE R == {ss \in Nat \X Nat : ss[1] < ss[2]}
  <1>1. IsWellFoundedOn(R, Nat)
    BY NatLessThanWellFounded DEF OpToRel
  <1>2. \A k \in T, m \in T : k < m => <<k, m>> \in R
    OBVIOUS
  <1> HIDE DEF R
  <1>3. PICK m \in T : \A k \in T : ~ (<<k, m>> \in R)
    BY <1>1, WFMin
  <1>4. ASSUME NEW k \in T
        PROVE  m <= k
    <2>1. ~ (k < m)
      BY <1>2, <1>3
    <2> QED BY <2>1
  <1> QED BY <1>4

(* What writing does to a file *)

(* Two sequences, one behind the other, element by element.                *)
LEMMA ConcatFacts ==
  ASSUME NEW S, NEW a \in Seq(S), NEW b \in Seq(S),
         NEW n, n = Len(a), NEW m, m = Len(b), NEW c, c = a \o b
  PROVE  /\ c \in Seq(S) /\ Len(c) = n + m
         /\ \A i \in 1 .. n + m : c[i] = IF i <= n THEN a[i] ELSE b[i - n]
  BY ConcatProperties

(* What lies where in a file that was written to.                          *)
LEMMA OverlayFacts ==
  ASSUME NEW S, NEW old \in Seq(S), NEW at \in 0 .. Len(old), NEW data \in Seq(S)
  PROVE  /\ B!Overlay(old, at, data) \in Seq(S)
         /\ Len(B!Overlay(old, at, data)) =
               IF at + Len(data) > Len(old) THEN at + Len(data) ELSE Len(old)
         /\ \A i \in 1 .. Len(B!Overlay(old, at, data)) :
               B!Overlay(old, at, data)[i] =
                  IF i > at /\ i <= at + Len(data) THEN data[i - at] ELSE old[i]
  <1> DEFINE a == SubSeq(old, 1, at)
             z == SubSeq(old, at + Len(data) + 1, Len(old))
             n == Len(old)
             l == Len(data)
  <1>1. n \in Nat /\ l \in Nat /\ at \in Nat /\ at <= n
        /\ (\A i \in 1 .. n : old[i] \in S) /\ (\A i \in 1 .. l : data[i] \in S)
    BY LenProperties, ElementOfSeq
  <1>2. a \in Seq(S) /\ Len(a) = at /\ \A i \in 1 .. at : a[i] = old[i]
    <2>1. 1 \in Int /\ at \in Int /\ \A i \in 1 .. at : old[i] \in S
      BY <1>1
    <2> HIDE DEF n, l
    <2> QED BY <1>1, <2>1, SubSeqProperties
  <1>3. /\ z \in Seq(S) /\ Len(z) = IF at + l < n THEN n - (at + l) ELSE 0
        /\ \A i \in 1 .. Len(z) : z[i] = old[at + l + i]
    <2>1. at + l + 1 \in Int /\ n \in Int /\ \A i \in at + l + 1 .. n : old[i] \in S
      BY <1>1
    <2>2. z = SubSeq(old, at + l + 1, n)
      OBVIOUS
    <2> HIDE DEF n, l, z
    <2>3. /\ z \in Seq(S) /\ Len(z) = IF at + l + 1 <= n THEN n - (at + l + 1) + 1 ELSE 0
          /\ \A i \in 1 .. n - (at + l + 1) + 1 : z[i] = old[at + l + 1 + i - 1]
      BY <2>1, <2>2, SubSeqProperties
    <2>4. Len(z) = IF at + l < n THEN n - (at + l) ELSE 0
      BY <1>1, <2>3
    <2>5. ASSUME NEW i \in 1 .. Len(z)
          PROVE  z[i] = old[at + l + i]
      <3>1. i \in 1 .. n - (at + l + 1) + 1 /\ at + l + 1 + i - 1 = at + l + i
        BY <1>1, <2>4
      <3> QED BY <2>3, <3>1
    <2> QED BY <2>3, <2>4, <2>5
  <1> DEFINE b == a \o data
             r == b \o z
             k == at + l
             t == Len(z)
  <1>4. k \in Nat /\ t \in Nat /\ data \in Seq(S) /\ Len(data) = l
    BY <1>1, <1>3, LenProperties
  <1> HIDE DEF a, z, n, l
  <1>5. b \in Seq(S) /\ Len(b) = k /\ \A i \in 1 .. k : b[i] = IF i <= at THEN a[i] ELSE data[i - at]
    <2>1. b = a \o data /\ k = at + l
      OBVIOUS
    <2> HIDE DEF b, k
    <2> QED BY <1>2, <1>4, <2>1, ConcatFacts
  <1> HIDE DEF b, k
  <1>6. /\ r \in Seq(S) /\ Len(r) = k + t
        /\ \A i \in 1 .. k + t : r[i] = IF i <= k THEN b[i] ELSE z[i - k]
    <2>1. z \in Seq(S) /\ Len(z) = t /\ r = b \o z
      BY <1>3
    <2> HIDE DEF t, r
    <2> QED BY <1>5, <2>1, ConcatFacts
  <1> HIDE DEF r, t
  <1>7. Len(r) = IF at + l > n THEN at + l ELSE n
    BY <1>1, <1>3, <1>6 DEF k, t
  <1>8. ASSUME NEW i \in 1 .. Len(r)
        PROVE  r[i] = IF i > at /\ i <= at + l THEN data[i - at] ELSE old[i]
    <2>1. i \in Nat /\ i >= 1 /\ i \in 1 .. k + t
      BY <1>4, <1>6
    <2>2. CASE i <= at
      <3>1. i \in 1 .. at /\ i \in 1 .. k /\ i <= k
        BY <1>1, <1>4, <2>1, <2>2 DEF k
      <3> QED BY <1>1, <1>2, <1>5, <1>6, <2>1, <2>2, <3>1
    <2>3. CASE i > at /\ i <= k
      <3>1. i \in 1 .. k /\ ~ (i <= at)
        BY <1>1, <1>4, <2>1, <2>3
      <3> QED BY <1>5, <1>6, <2>1, <2>3, <3>1 DEF k
    <2>4. CASE i > k
      <3>1. i - k \in 1 .. t /\ at + l + (i - k) = i /\ ~ (i <= k) /\ ~ (i <= at + l)
        BY <1>1, <1>4, <2>1, <2>4 DEF k
      <3>2. r[i] = z[i - k]
        BY <1>6, <2>1, <3>1
      <3>3. z[i - k] = old[at + l + (i - k)]
        BY <1>3, <3>1 DEF t
      <3> QED BY <3>1, <3>2, <3>3
    <2> QED BY <1>1, <1>4, <2>1, <2>2, <2>3, <2>4
  <1>9. B!Overlay(old, at, data) = r
    BY DEF B!Overlay, r, b, a, z
  <1> QED BY <1>6, <1>7, <1>8, <1>9 DEF n, l

(* Sequences with the same elements are the same.                          *)
LEMMA SameSeq ==
  ASSUME NEW S, NEW s \in Seq(S), NEW t \in Seq(S), Len(s) = Len(t),
         \A i \in 1 .. Len(s) : s[i] = t[i]
  PROVE  s = t
  BY SeqEqual

(* Writing nothing changes nothing.                                        *)
LEMMA OverlayNone ==
  ASSUME NEW S, NEW old \in Seq(S), NEW at \in 0 .. Len(old), NEW e \in Seq(S), Len(e) = 0
  PROVE  B!Overlay(old, at, e) = old
  <1> DEFINE r == B!Overlay(old, at, e)
             n == Len(old)
  <1>1. e \in Seq(S) /\ Len(e) = 0 /\ n \in Nat /\ at \in Nat /\ at <= n
    BY LenProperties
  <1>2. /\ r \in Seq(S) /\ Len(r) = (IF at + Len(e) > n THEN at + Len(e) ELSE n)
        /\ \A i \in 1 .. Len(r) : r[i] = IF i > at /\ i <= at + Len(e) THEN e[i - at] ELSE old[i]
    BY OverlayFacts, ZenonT(30)
  <1> HIDE DEF r, n
  <1>3. Len(r) = n /\ \A i \in 1 .. n : r[i] = old[i]
    BY <1>1, <1>2
  <1>4. r = old
    BY <1>2, <1>3, SameSeq DEF n
  <1> QED BY <1>4 DEF r

(* Writing the beginning of a file over it changes nothing.                *)
LEMMA OverlaySelf ==
  ASSUME NEW S, NEW old \in Seq(S), NEW r \in 0 .. Len(old)
  PROVE  B!Overlay(old, 0, SubSeq(old, 1, r)) = old
  <1> DEFINE d == SubSeq(old, 1, r)
             o == B!Overlay(old, 0, d)
             n == Len(old)
  <1>1. n \in Nat /\ r \in Nat /\ r <= n /\ 0 \in 0 .. Len(old)
    BY LenProperties
  <1>2. d \in Seq(S) /\ Len(d) = r /\ \A i \in 1 .. r : d[i] = old[i]
    <2>1. \A i \in 1 .. r : old[i] \in S
      BY <1>1, ElementOfSeq
    <2> HIDE DEF n
    <2> QED BY <1>1, <2>1, SubSeqProperties
  <1> HIDE DEF d
  <1>3. /\ o \in Seq(S) /\ Len(o) = (IF 0 + Len(d) > n THEN 0 + Len(d) ELSE n)
        /\ \A i \in 1 .. Len(o) : o[i] = IF i > 0 /\ i <= 0 + Len(d) THEN d[i - 0] ELSE old[i]
    BY <1>1, <1>2, OverlayFacts
  <1> HIDE DEF o, n
  <1>4. Len(o) = n /\ \A i \in 1 .. n : o[i] = old[i]
    BY <1>1, <1>2, <1>3
  <1>5. o = old
    BY <1>3, <1>4, SameSeq DEF n
  <1> QED BY <1>5 DEF o, d

(* Writing on where the last write ended is writing both at once.          *)
LEMMA OverlayTwice ==
  ASSUME NEW S, NEW old \in Seq(S), NEW at \in 0 .. Len(old), NEW a \in Seq(S), NEW b \in Seq(S)
  PROVE  B!Overlay(B!Overlay(old, at, a), at + Len(a), b) = B!Overlay(old, at, a \o b)
  <1> DEFINE p == B!Overlay(old, at, a)
             l == Len(a)
             m == Len(b)
             n == Len(old)
             k == at + l
             q == B!Overlay(p, k, b)
             c == a \o b
             r == B!Overlay(old, at, c)
  <1>1. n \in Nat /\ l \in Nat /\ m \in Nat /\ at \in Nat /\ at <= n /\ k \in Nat
    BY LenProperties
  <1>2. p \in Seq(S) /\ Len(p) = (IF k > n THEN k ELSE n)
        /\ \A i \in 1 .. Len(p) : p[i] = IF i > at /\ i <= k THEN a[i - at] ELSE old[i]
    BY OverlayFacts
  <1>3. c \in Seq(S) /\ Len(c) = l + m /\ \A i \in 1 .. l + m : c[i] = IF i <= l THEN a[i] ELSE b[i - l]
    <2>1. Len(a) = l /\ Len(b) = m /\ c = a \o b
      OBVIOUS
    <2> HIDE DEF l, m, c
    <2>2. a \in Seq(S) /\ b \in Seq(S)
      OBVIOUS
    <2>3. c \in Seq(S)
      BY <2>1, <2>2, ConcatProperties
    <2>4. Len(c) = l + m
      BY <2>1, <2>2, ConcatProperties
    <2>5. \A i \in 1 .. l + m : c[i] = IF i <= l THEN a[i] ELSE b[i - l]
      BY <2>1, <2>2, ConcatFacts
    <2> QED BY <2>3, <2>4, <2>5
  <1> HIDE DEF p, c
  <1>4. q \in Seq(S) /\ Len(q) = (IF k + m > Len(p) THEN k + m ELSE Len(p))
        /\ \A i \in 1 .. Len(q) : q[i] = IF i > k /\ i <= k + m THEN b[i - k] ELSE p[i]
    <2> HIDE DEF k
    <2>1. k \in 0 .. Len(p)
      BY <1>1, <1>2
    <2> QED BY <1>2, <2>1, OverlayFacts
  <1>5. r \in Seq(S) /\ Len(r) = (IF at + Len(c) > n THEN at + Len(c) ELSE n)
        /\ \A i \in 1 .. Len(r) : r[i] = IF i > at /\ i <= at + Len(c) THEN c[i - at] ELSE old[i]
    BY <1>3, OverlayFacts
  <1>6. k = at + l
    OBVIOUS
  <1> HIDE DEF q, r, n, l, m, k
  <1>7. Len(q) = Len(r) /\ Len(q) \in Nat
    BY <1>1, <1>2, <1>3, <1>4, <1>5, <1>6
  <1>8. Len(p) \in Nat /\ k <= Len(p) /\ Len(c) = l + m /\ k \in Nat
    BY <1>1, <1>2, <1>3
  <1>9. ASSUME NEW i \in 1 .. Len(q)
        PROVE  q[i] = r[i]
    <2>1. i \in Nat /\ i >= 1 /\ i \in 1 .. Len(r)
      BY <1>7
    <2>2. CASE i > k /\ i <= k + m
      <3>1. i - at \in 1 .. l + m /\ ~ (i - at <= l) /\ i - at - l = i - k /\ i > at /\ i <= at + Len(c)
        BY <1>1, <1>6, <1>8, <2>1, <2>2
      <3>2. r[i] = c[i - at] /\ c[i - at] = b[i - at - l]
        BY <1>3, <1>5, <2>1, <3>1
      <3> QED BY <1>4, <2>2, <3>1, <3>2
    <2>3. CASE i > at /\ i <= k
      <3>1. i \in 1 .. Len(p)
        BY <1>8, <2>1, <2>3
      <3>2. i - at \in 1 .. l + m /\ i - at <= l /\ ~ (i > k) /\ i <= at + Len(c)
        BY <1>1, <1>6, <1>8, <2>1, <2>3
      <3>3. r[i] = c[i - at] /\ c[i - at] = a[i - at]
        BY <1>3, <1>5, <2>1, <2>3, <3>2
      <3> QED BY <1>2, <1>4, <2>3, <3>1, <3>2, <3>3
    <2>4. CASE i <= at
      <3>1. i \in 1 .. Len(p) /\ ~ (i > k) /\ ~ (i > at)
        BY <1>1, <1>6, <1>8, <2>1, <2>4
      <3> QED BY <1>2, <1>4, <1>5, <2>1, <3>1
    <2>5. CASE i > k + m
      <3>1. i \in 1 .. Len(p) /\ ~ (i <= k) /\ ~ (i <= at + Len(c)) /\ ~ (i <= k + m)
        BY <1>1, <1>2, <1>3, <1>4, <1>6, <1>7, <2>1, <2>5
      <3> QED BY <1>2, <1>4, <1>5, <2>1, <3>1
    <2> QED BY <1>1, <1>6, <2>1, <2>2, <2>3, <2>4, <2>5
  <1>10. q = r
    BY <1>4, <1>5, <1>7, <1>9, SameSeq
  <1> QED BY <1>10 DEF q, p, k, l, r, c

(* The disks there can be.                                                 *)
Filled == [Files -> {Missing} \cup Seq(STRING)]

(* Creating a file changes no other, and none that is there.               *)
LEMMA CreatedFacts ==
  ASSUME NEW d \in Filled, NEW f \in Files
  PROVE  /\ B!Created(d, f) \in Filled /\ B!Created(d, f)[f] \in Seq(STRING)
         /\ \A g \in Files : d[g] # Missing => B!Created(d, f)[g] = d[g]
  <1>1. << >> \in Seq(STRING) /\ (d[f] # Missing => d[f] \in Seq(STRING))
    BY DEF Filled
  <1> QED BY <1>1 DEF B!Created, Filled

(* Writing changes one file, which ends where the write did or behind it.  *)
LEMMA WrittenFacts ==
  ASSUME NEW d \in Filled, NEW f \in Files, d[f] \in Seq(STRING), NEW at \in 0 .. Len(d[f]),
         NEW data \in Seq(STRING), NEW e, e = B!Written(d, f, at, data)
  PROVE  /\ e \in Filled /\ e[f] \in Seq(STRING) /\ e[f] = B!Overlay(d[f], at, data)
         /\ at + Len(data) \in 0 .. Len(e[f])
         /\ \A g \in Files : g # f => e[g] = d[g]
  <1> DEFINE old == d[f]
             new == B!Overlay(old, at, data)
  <1>1. Len(old) \in Nat /\ Len(data) \in Nat /\ at \in Nat
    BY LenProperties
  <1>2. /\ new \in Seq(STRING)
        /\ Len(new) = IF at + Len(data) > Len(old) THEN at + Len(data) ELSE Len(old)
    <2>1. old \in Seq(STRING) /\ at \in 0 .. Len(old)
      OBVIOUS
    <2> HIDE DEF old
    <2> QED BY <2>1, OverlayFacts
  <1>3. e = [d EXCEPT ![f] = new]
    BY DEF B!Written
  <1> HIDE DEF old, new
  <1>4. at + Len(data) \in 0 .. Len(new)
    BY <1>1, <1>2
  <1>5. e \in Filled /\ e[f] = new /\ \A g \in Files : g # f => e[g] = d[g]
    BY <1>2, <1>3 DEF Filled
  <1> QED BY <1>2, <1>4, <1>5 DEF new, old

(* Writing what changes no file changes no disk.                           *)
LEMMA WrittenSame ==
  ASSUME NEW d \in Filled, NEW f \in Files, NEW at, NEW data, B!Overlay(d[f], at, data) = d[f]
  PROVE  B!Written(d, f, at, data) = d
  BY DEF B!Written, Filled

(* Writing on where the last write ended, on the disk.                     *)
LEMMA WrittenTwice ==
  ASSUME NEW d \in Filled, NEW f \in Files, d[f] \in Seq(STRING), NEW at \in 0 .. Len(d[f]),
         NEW a \in Seq(STRING), NEW b \in Seq(STRING)
  PROVE  B!Written(B!Written(d, f, at, a), f, at + Len(a), b) = B!Written(d, f, at, a \o b)
  <1> DEFINE old == d[f]
             p == B!Overlay(old, at, a)
  <1>1. B!Overlay(p, at + Len(a), b) = B!Overlay(old, at, a \o b)
    <2>1. old \in Seq(STRING) /\ at \in 0 .. Len(old)
      OBVIOUS
    <2> HIDE DEF old
    <2> QED BY <2>1, OverlayTwice
  <1> DEFINE q == B!Overlay(p, at + Len(a), b)
             e == [d EXCEPT ![f] = p]
  <1>2. /\ B!Written(d, f, at, a) = e
        /\ B!Written(e, f, at + Len(a), b) = [e EXCEPT ![f] = B!Overlay(e[f], at + Len(a), b)]
        /\ B!Written(d, f, at, a \o b) = [d EXCEPT ![f] = B!Overlay(old, at, a \o b)]
    BY DEF B!Written
  <1>3. e[f] = p
    BY DEF Filled
  <1>4. [e EXCEPT ![f] = q] = [d EXCEPT ![f] = q]
    <2> HIDE DEF p, q
    <2> QED BY DEF Filled
  <1> HIDE DEF e, p
  <1> QED BY <1>1, <1>2, <1>3, <1>4

-----------------------------------------------------------------------------
(* What catm promises: the files joined, word by word *)

(* The disk and the end of the output when a word has been joined to what  *)
(* the words before it left.                                               *)
JoinStep(words, k, p) ==
    LET data == IF words[k] = "" THEN Missing ELSE p.disk[words[k]]
    IN  IF data = Missing THEN p
        ELSE [disk |-> B!Written(p.disk, words[1], p.end, data), end |-> p.end + Len(data)]

IsJoin(j, d, words, n) ==
    j = [k \in 1 .. n |-> IF k = 1 THEN [disk |-> B!Created(d, words[1]), end |-> 0]
                           ELSE JoinStep(words, k, j[k - 1])]

Join(d, words) == CHOOSE j : IsJoin(j, d, words, Len(words))

(* There is one: else there were a least number of words without.          *)
LEMMA JoinExists ==
  ASSUME NEW d, NEW words, NEW n \in Nat
  PROVE  \E j : IsJoin(j, d, words, n)
  <1> DEFINE T == {k \in Nat : ~ \E j : IsJoin(j, d, words, k)}
             one == [disk |-> B!Created(d, words[1]), end |-> 0]
  <1> SUFFICES ASSUME T # {}
               PROVE  FALSE
    OBVIOUS
  <1>1. T \subseteq Nat
    OBVIOUS
  <1>2. PICK m \in T : \A k \in T : m <= k
    BY <1>1, Least
  <1>3. m # 0
    <2>1. IsJoin([k \in 1 .. 0 |-> one], d, words, 0)
      BY DEF IsJoin
    <2> QED BY <2>1
  <1>4. m \in Nat /\ m - 1 \in Nat /\ m - 1 \notin T
    BY <1>2, <1>3
  <1>5. PICK f : IsJoin(f, d, words, m - 1)
    BY <1>4
  <1> DEFINE g == [k \in 1 .. m |-> IF k = 1 THEN one ELSE
                                      IF k = m THEN JoinStep(words, m, f[m - 1]) ELSE f[k]]
  <1>6. \A k \in 1 .. m - 1 : f[k] = IF k = 1 THEN one ELSE JoinStep(words, k, f[k - 1])
    BY <1>4, <1>5 DEF IsJoin
  <1> HIDE DEF one
  <1>7. \A k \in 1 .. m : g[k] = IF k = 1 THEN one ELSE JoinStep(words, k, g[k - 1])
    <2> SUFFICES ASSUME NEW k \in 1 .. m
                 PROVE  g[k] = IF k = 1 THEN one ELSE JoinStep(words, k, g[k - 1])
      OBVIOUS
    <2>0. \A i \in 1 .. m - 1 : g[i] = f[i]
      <3> SUFFICES ASSUME NEW i \in 1 .. m - 1
                   PROVE  g[i] = f[i]
        OBVIOUS
      <3>1. i \in 1 .. m /\ i # m
        BY <1>4
      <3> QED BY <1>6, <3>1
    <2>1. CASE k = 1
      BY <2>1
    <2>2. CASE k # 1 /\ k = m
      <3>1. k - 1 \in 1 .. m - 1
        BY <1>4, <2>2
      <3>2. g[k - 1] = f[m - 1]
        BY <2>0, <2>2, <3>1
      <3>3. g[k] = JoinStep(words, m, f[m - 1])
        BY <2>2
      <3> QED BY <2>2, <3>2, <3>3
    <2>3. CASE k # 1 /\ k # m
      <3>1. k \in 1 .. m - 1 /\ k - 1 \in 1 .. m - 1
        BY <1>4, <2>3
      <3>2. g[k] = f[k] /\ g[k - 1] = f[k - 1]
        BY <2>0, <3>1
      <3> HIDE DEF g
      <3> QED BY <1>6, <2>3, <3>1, <3>2
    <2> QED BY <2>1, <2>2, <2>3
  <1>8. g = [k \in 1 .. m |-> IF k = 1 THEN one ELSE JoinStep(words, k, g[k - 1])]
    <2>1. g = [k \in 1 .. m |-> g[k]]
      OBVIOUS
    <2> HIDE DEF g
    <2> QED BY <1>7, <2>1
  <1>9. IsJoin(g, d, words, m)
    BY <1>8 DEF IsJoin, one
  <1> QED BY <1>2, <1>9

(* What it is, word by word, and that it is what the line promises.        *)
LEMMA JoinFacts ==
  ASSUME NEW d, NEW words, NEW n \in Nat, n = Len(words), n >= 1
  PROVE  /\ B!Concatenated(d, words) = Join(d, words)[n].disk
         /\ Join(d, words)[1] = [disk |-> B!Created(d, words[1]), end |-> 0]
         /\ \A k \in 2 .. n : Join(d, words)[k] = JoinStep(words, k, Join(d, words)[k - 1])
  <1> DEFINE j == Join(d, words)
  <1>1. IsJoin(j, d, words, n)
    BY JoinExists DEF Join
  <1>2. B!Concatenated(d, words) = j[n].disk
    BY DEF B!Concatenated, Join, IsJoin, JoinStep
  <1> HIDE DEF j
  <1>3. \A k \in 1 .. n : j[k] = IF k = 1 THEN [disk |-> B!Created(d, words[1]), end |-> 0]
                                 ELSE JoinStep(words, k, j[k - 1])
    BY <1>1 DEF IsJoin
  <1>4. j[1] = [disk |-> B!Created(d, words[1]), end |-> 0]
    <2>1. 1 \in 1 .. n
      OBVIOUS
    <2> QED BY <1>3, <2>1
  <1>5. \A k \in 2 .. n : j[k] = JoinStep(words, k, j[k - 1])
    <2>1. \A k \in 2 .. n : k \in 1 .. n /\ k # 1
      OBVIOUS
    <2> QED BY <1>3, <2>1
  <1> QED BY <1>2, <1>4, <1>5 DEF j

-----------------------------------------------------------------------------
(* The disk along a path *)

(* The calls still to come tell the stage a tool has reached: read from    *)
(* the end of a path, every call fits one stage only.                      *)
LEMMA OneStage ==
  ASSUME NEW cs, NEW a, NEW b, NEW c, NEW d, Path(cs, a, b), Path(cs, c, d), b.stage = d.stage
  PROVE  a.stage = c.stage
  <1> DEFINE n == Len(cs)
  <1>1. PICK h \in [1 .. n + 1 -> State] :
           /\ h[1] = a /\ h[n + 1] = b
           /\ \A i \in 1 .. n : Step(cs[i], h[i], h[i + 1])
    BY DEF Path
  <1>2. PICK g \in [1 .. n + 1 -> State] :
           /\ g[1] = c /\ g[n + 1] = d
           /\ \A i \in 1 .. n : Step(cs[i], g[i], g[i + 1])
    BY DEF Path
  <1>3. n \in Nat
    BY LenProperties DEF Path
  <1> HIDE DEF n
  <1> DEFINE T == {k \in 0 .. n : h[n + 1 - k].stage # g[n + 1 - k].stage}
  <1> SUFFICES ASSUME a.stage # c.stage
               PROVE  FALSE
    OBVIOUS
  <1>4. T \subseteq Nat
    BY <1>3
  <1>5. T # {}
    <2>1. n \in 0 .. n /\ n + 1 - n = 1
      BY <1>3
    <2> QED BY <1>1, <1>2, <2>1
  <1>6. PICK m \in T : \A k \in T : m <= k
    BY <1>4, <1>5, Least
  <1>7. m # 0
    <2>1. n + 1 - 0 = n + 1
      BY <1>3
    <2> QED BY <1>1, <1>2, <2>1
  <1> DEFINE i == n + 1 - m
  <1>8. m - 1 \in 0 .. n /\ m - 1 \notin T /\ n + 1 - (m - 1) = i + 1 /\ i \in 1 .. n
    <2>1. m \in 0 .. n
      OBVIOUS
    <2>2. m - 1 \in 0 .. n /\ ~ (m <= m - 1) /\ n + 1 - (m - 1) = n + 1 - m + 1 /\ n + 1 - m \in 1 .. n
      BY <1>3, <1>7, <2>1
    <2> HIDE DEF T
    <2> QED BY <1>6, <2>2
  <1>9. h[i + 1].stage = g[i + 1].stage /\ h[i].stage # g[i].stage
    <2>1. h[n + 1 - m].stage # g[n + 1 - m].stage
      OBVIOUS
    <2>2. h[n + 1 - (m - 1)].stage = g[n + 1 - (m - 1)].stage
      BY <1>8
    <2> QED BY <1>8, <2>1, <2>2
  <1>10. /\ Step(cs[i], h[i], h[i + 1]) /\ Step(cs[i], g[i], g[i + 1])
         /\ h[i] \in State /\ h[i + 1] \in State /\ g[i] \in State /\ g[i + 1] \in State
    BY <1>1, <1>2, <1>3, <1>8
  <1>11. CASE cs[i][1] \in Quiet
    BY <1>9, <1>10, <1>11, MoveFacts
  <1>12. CASE cs[i][1] \notin Quiet
    <2>1. /\ <<cs[i][1], h[i].stage, h[i + 1].stage>> \in Moves
          /\ <<cs[i][1], g[i].stage, h[i + 1].stage>> \in Moves
      BY <1>9, <1>10, <1>12, MoveFacts
    <2>2. ASSUME NEW x, NEW r, NEW s, NEW t, <<x, r, t>> \in Moves, <<x, s, t>> \in Moves
          PROVE  r = s
      BY <2>2 DEF Moves
    <2> QED BY <1>9, <2>1, <2>2
  <1> QED BY <1>11, <1>12

(* What a tool may say: only hex1 makes passes over its input.             *)
Vocabulary(tool) ==
    {c \in Firmware : c[1] \in {"first pass", "rewind", "second pass"} => tool = "hex1"}

(* The point catm has reached when it has joined the words before one.     *)
Joined(k) == Join(job.before, Line.words)[k]

InLoop(s) ==
    /\ job.arg \in 2 .. Len(Line.words) + 1
    /\ LET out == Line.words[1]
           p   == Joined(job.arg - 1)
       IN  /\ p.disk \in Filled /\ p.disk[out] \in Seq(STRING) /\ p.end \in 0 .. Len(p.disk[out])
           /\ job.arg = 2 => p.end = 0
           /\ s = "joining" => disk = p.disk /\ job.wr = p.end
           /\ s # "joining" =>
                 /\ job.arg <= Len(Line.words) /\ job.in = Line.words[job.arg] /\ job.in # ""
                 /\ p.disk[job.in] # Missing /\ job.rd \in 0 .. Len(p.disk[job.in])
                 /\ job.wr = p.end + job.rd
                 /\ disk = B!Written(p.disk, out, p.end, SubSeq(p.disk[job.in], 1, job.rd))
           /\ s = "closing" => job.rd = Len(p.disk[job.in])

(* What the tool has done to the disk, and what its registers say of that, *)
(* stage by stage.                                                         *)
DataAt(s) ==
    /\ s \in {"fresh", "named", "input", "blank", "target"} => disk = job.before
    /\ s \in {"named", "input", "created", "counted", "rewound", "read"} =>
          job.in = Line.words[1] /\ job.out = Line.words[2]
    /\ s \in {"created", "counted", "rewound", "read"} =>
          disk = B!Created(job.before, Line.words[2]) /\ job.wr = 0
    /\ s = "rewound" => job.rd = 0
    /\ s = "read" => job.text = B!Taken(Line.tool, job.before[Line.words[1]])
    /\ s \in {"target", "joining", "keeping", "closing"} => job.out = Line.words[1]
    /\ s \in {"joining", "keeping", "closing"} => InLoop(s)
    /\ s = "written" => disk = B!Effect(job.before, Line)

DataInv ==
    /\ HoldInv
    /\ disk \in Filled
    /\ on => job.before \in Filled
    /\ on /\ outcome = "running" =>
          /\ calls \in Seq(Vocabulary(Line.tool))
          /\ \A a \in State : OnPath(a) => DataAt(a.stage)

(* A step of a running tool that goes one call along the path.             *)
LEMMA DataAlong ==
  ASSUME DataInv, HoldInv', Busy, Done, job'.before = job.before,
         \A a \in State, m \in State :
            /\ HoldAt(a) /\ DataAt(a.stage) /\ Step(Head(calls), a, m)
            /\ Head(calls) \in Vocabulary(Line.tool)
            => disk' \in Filled /\ DataAt(m.stage)'
  PROVE  DataInv'
  <1>1. on /\ outcome = "running" /\ UNCHANGED <<script, on, outcome>> /\ calls' = Tail(calls)
        /\ calls # << >>
    BY DEF Busy, Done
  <1>2. Line' = Line
    BY <1>1, SameLine
  <1>3. calls \in Seq(Vocabulary(Line.tool)) /\ job'.before \in Filled
    BY <1>1 DEF DataInv
  <1>4. Head(calls) \in Vocabulary(Line.tool) /\ calls' \in Seq(Vocabulary(Line.tool))
    BY <1>1, <1>3, HeadTailProperties
  <1>5. PICK a \in State : OnPath(a) /\ HoldAt(a) /\ DataAt(a.stage)
    BY <1>1 DEF DataInv, HoldInv
  <1>6. PICK b : Path(calls, a, b) /\ Ending(b)
    BY <1>5 DEF OnPath
  <1>7. PICK m \in State : Step(Head(calls), a, m) /\ Path(Tail(calls), m, b)
    BY <1>1, <1>6, PathTail
  <1>8. disk' \in Filled /\ DataAt(m.stage)'
    BY <1>4, <1>5, <1>7
  <1>9. ASSUME NEW c \in State, OnPath(c)'
        PROVE  DataAt(c.stage)'
    <2>1. PICK d : Path(calls', c, d) /\ Ending(d)
      BY <1>9 DEF OnPath
    <2>2. c.stage = m.stage
      BY <1>1, <1>6, <1>7, <2>1, OneStage DEF Ending
    <2> QED BY <1>8, <2>2
  <1> QED BY <1>1, <1>2, <1>3, <1>4, <1>8, <1>9 DEF DataInv

(* A step after which the calls to come tell the stage.                    *)
LEMMA DataDetour ==
  ASSUME DataInv, HoldInv', Busy, UNCHANGED <<script, on, outcome>>, job'.before = job.before,
         disk' \in Filled, calls' \in Seq(Vocabulary(Line.tool)),
         \A m \in State : OnPath(m)' => DataAt(m.stage)'
  PROVE  DataInv'
  <1>1. Line' = Line
    BY SameLine
  <1> QED BY <1>1 DEF DataInv, Busy

(* The stage before a call of catm's loop.                                 *)
LEMMA LoopStage ==
  ASSUME NEW cs, NEW a, NEW b, Path(cs, a, b), cs # << >>
  PROVE  /\ Head(cs)[1] = "core" => a.stage = "joining"
         /\ Head(cs)[1] = "keep" => a.stage = "keeping"
         /\ Head(cs)[1] = "close arg" => a.stage = "closing"
  <1> DEFINE c == Head(cs)
  <1>1. PICK m \in State : Step(c, a, m)
    BY PathTail
  <1>2. a \in State
    <2>1. \E h \in [1 .. Len(cs) + 1 -> State] : h[1] = a
      BY DEF Path
    <2>2. 1 \in 1 .. Len(cs) + 1
      BY LenProperties DEF Path
    <2> QED BY <2>1, <2>2
  <1> HIDE DEF c
  <1>3. c[1] \in {"core", "keep", "close arg"} => <<c[1], a.stage, m.stage>> \in Moves
    BY <1>1, <1>2, MoveFacts DEF Quiet
  <1>4. /\ c[1] = "core" => a.stage = "joining"
        /\ c[1] = "keep" => a.stage = "keeping"
        /\ c[1] = "close arg" => a.stage = "closing"
    BY <1>3 DEF Moves
  <1> QED BY <1>4 DEF c

(* The words of the current line.                                          *)
LEMMA WordFacts ==
  ASSUME HoldInv, script # << >>
  PROVE  /\ Line.words \in Seq(Files \cup {""}) /\ Len(Line.words) \in Nat /\ Len(Line.words) >= 1
         /\ Line.words[1] \in Files
         /\ \A k \in 1 .. Len(Line.words) : Line.words[k] \in Files \cup {""}
         /\ Line.tool # "catm" => Len(Line.words) >= 2 /\ Line.words[2] \in Files
         /\ Line.tool = "catm" => \A k \in 3 .. Len(Line.words) : Line.words[k] # Line.words[1]
         /\ Line.tool \in {"hex1", "hex2", "M0", "catm"}
  <1>1. Line \in ScriptLine /\ WellFormed(Line)
    BY LineFacts DEF HoldInv
  <1>2. Line.words \in Seq(Files \cup {""}) /\ Line.tool \in {"hex1", "hex2", "M0", "catm"}
    BY <1>1 DEF ScriptLine
  <1>3. Len(Line.words) \in Nat /\ Len(Line.words) >= 1
    <2> DEFINE w == Line.words
    <2>1. w \in Seq(Files \cup {""}) /\ w # << >>
      BY <1>1, <1>2 DEF WellFormed
    <2> HIDE DEF w
    <2>2. Len(w) \in Nat
      BY <2>1, LenProperties
    <2>3. Len(w) # 0
      BY <2>1, EmptySeq
    <2> QED BY <2>2, <2>3 DEF w
  <1>4. \A k \in 1 .. Len(Line.words) : Line.words[k] \in Files \cup {""}
    BY <1>2, ElementOfSeq
  <1> QED BY <1>1, <1>2, <1>3, <1>4 DEF WellFormed

(* Where neither the disk nor the registers change.                        *)
LEMMA DataSame ==
  ASSUME NEW s, DataAt(s), UNCHANGED <<disk, job, script>>
  PROVE  DataAt(s)'
  BY SameLine, ZenonT(30) DEF DataAt, InLoop, Joined

(* Calls that touch handles only.                                          *)
LEMMA QuietData ==
  ASSUME DataInv, HoldInv', Acquire \/ GiveBack \/ GetInfo \/ Flush
  PROVE  DataInv'
  <1> DEFINE c == Head(calls)
  <1>1. Busy /\ Done /\ UNCHANGED <<disk, job, script>> /\ c[1] \in Quiet
    BY DEF Acquire, GiveBack, GetInfo, Flush, Calls, Done, Quiet
  <1> HIDE DEF c
  <1>2. ASSUME NEW a \in State, NEW m \in State, DataAt(a.stage), Step(c, a, m)
        PROVE  disk' \in Filled /\ DataAt(m.stage)'
    <2>1. m.stage = a.stage
      BY <1>1, <1>2, MoveFacts
    <2>2. disk' \in Filled
      BY <1>1 DEF DataInv
    <2>3. DataAt(m.stage)
      BY <1>2, <2>1
    <2> QED BY <1>1, <2>2, <2>3, DataSame
  <1> QED BY <1>1, <1>2, DataAlong DEF c

(* The words are found.                                                    *)
LEMMA OptionsData ==
  ASSUME DataInv, HoldInv', BackwardOptions \/ ForwardOptions
  PROVE  DataInv'
  <1> DEFINE c == Head(calls)
             w == Line.words
  <1>1. /\ Busy /\ Done /\ UNCHANGED <<disk, script>> /\ c[1] \in {"options", "forward options"}
        /\ \E s : /\ job' = [job EXCEPT !.in = s.in, !.out = s.out]
                  /\ s = IF c[1] = "options" THEN ScannedBack(Line.words)
                         ELSE ScannedForward(Line.tool, Line.words)
    BY DEF BackwardOptions, ForwardOptions, Options, Calls, Done
  <1>2. PICK s : /\ job' = [job EXCEPT !.in = s.in, !.out = s.out]
                 /\ s = IF c[1] = "options" THEN ScannedBack(Line.words)
                        ELSE ScannedForward(Line.tool, Line.words)
    BY <1>1
  <1>3. job'.before = job.before /\ job'.in = s.in /\ job'.out = s.out
    BY <1>2 DEF DataInv, HoldInv, Standing, Fields
  <1>4. /\ Line.tool # "catm" => s.in = w[1] /\ s.out = w[2]
        /\ Line.tool = "catm" /\ c[1] = "forward options" => s.out = w[1]
    <2>1. script # << >> /\ HoldInv
      BY <1>1 DEF DataInv, HoldInv, Standing, Busy
    <2>2. w \in Seq(Files \cup {""}) /\ Len(w) \in Nat /\ (Line.tool # "catm" => Len(w) >= 2)
      BY <2>1, WordFacts
    <2>3. Line.tool # "catm" => ScannedBack(w).in = w[1] /\ ScannedBack(w).out = w[2]
      <3> SUFFICES ASSUME Line.tool # "catm"
                   PROVE  ScannedBack(w).in = w[1] /\ ScannedBack(w).out = w[2]
        OBVIOUS
      <3> DEFINE S == Files \cup {""}
      <3> HIDE DEF w, S
      <3>1. w \in Seq(S)
        BY <2>2 DEF S
      <3> DEFINE n == Len(w)
      <3>2. n \in Nat /\ n >= 2
        BY <2>2, Zenon
      <3> HIDE DEF n
      <3>3. n >= 1
        BY <3>2
      <3> QED BY <3>1, <3>2, <3>3, ScannedBackFacts DEF n
    <2>4. Line.tool # "catm" => ScannedForward(Line.tool, w).in = w[1]
                                /\ ScannedForward(Line.tool, w).out = w[2]
      BY DEF ScannedForward
    <2>5. Line.tool = "catm" => ScannedForward(Line.tool, w).out = w[1]
      BY DEF ScannedForward
    <2>6. s = IF c[1] = "options" THEN ScannedBack(w) ELSE ScannedForward(Line.tool, w)
      BY <1>2
    <2> HIDE DEF w, c
    <2> QED BY <2>3, <2>4, <2>5, <2>6
  <1>5. Line' = Line /\ disk' = disk
    BY <1>1, SameLine
  <1> HIDE DEF c, w
  <1>6. ASSUME NEW a \in State, NEW m \in State, HoldAt(a), DataAt(a.stage), Step(c, a, m)
        PROVE  disk' \in Filled /\ DataAt(m.stage)'
    <2>1. <<c[1], a.stage, m.stage>> \in Moves
      BY <1>1, <1>6, MoveFacts DEF Quiet
    <2>2. \/ a.stage = "fresh" /\ m.stage = "named"
          \/ a.stage = "blank" /\ m.stage = "target" /\ c[1] = "forward options"
      BY <1>1, <2>1 DEF Moves
    <2>3. disk' \in Filled /\ disk' = job'.before
      BY <1>3, <1>5, <1>6, <2>2 DEF DataInv, DataAt
    <2>4. CASE m.stage = "named"
      <3>1. Line.tool # "catm"
        BY <1>6, <2>2, <2>4 DEF HoldAt, TranslatorStages
      <3> QED BY <1>3, <1>4, <1>5, <2>3, <2>4, <3>1 DEF DataAt, w
    <2>5. CASE m.stage = "target"
      <3>1. Line.tool = "catm" /\ c[1] = "forward options"
        BY <1>6, <2>2, <2>5 DEF HoldAt, CatmStages
      <3> QED BY <1>3, <1>4, <1>5, <2>3, <2>5, <3>1 DEF DataAt, w
    <2> QED BY <2>2, <2>4, <2>5
  <1> QED BY <1>1, <1>3, <1>6, DataAlong DEF c

(* The input is opened.                                                    *)
LEMMA OpenInData ==
  ASSUME DataInv, HoldInv', OpenIn
  PROVE  DataInv'
  <1> DEFINE c == Head(calls)
  <1>1. /\ Busy /\ Done /\ UNCHANGED <<disk, script>> /\ c[1] = "open in"
        /\ job' = [job EXCEPT !.rd = 0]
    BY DEF OpenIn, Calls, Done
  <1>2. job'.before = job.before /\ job'.in = job.in /\ job'.out = job.out
    BY <1>1 DEF DataInv, HoldInv, Standing, Fields
  <1>3. Line' = Line /\ disk' = disk
    BY <1>1, SameLine
  <1> HIDE DEF c
  <1>4. ASSUME NEW a \in State, NEW m \in State, DataAt(a.stage), Step(c, a, m)
        PROVE  disk' \in Filled /\ DataAt(m.stage)'
    <2>1. <<c[1], a.stage, m.stage>> \in Moves
      BY <1>1, <1>4, MoveFacts DEF Quiet
    <2>2. a.stage = "named" /\ m.stage = "input"
      BY <1>1, <2>1 DEF Moves
    <2>3. disk' \in Filled
      BY <1>3 DEF DataInv
    <2> QED BY <1>2, <1>3, <1>4, <2>2, <2>3 DEF DataAt
  <1> QED BY <1>1, <1>2, <1>4, DataAlong DEF c

(* Joining begins with the output, created, and nothing written.           *)
LEMMA LoopBegins ==
  ASSUME DataInv, script # << >>
  PROVE  LET p == Joined(1)
         IN  /\ p = [disk |-> B!Created(job.before, Line.words[1]), end |-> 0]
             /\ job.before \in Filled =>
                   p.disk \in Filled /\ p.disk[Line.words[1]] \in Seq(STRING)
  <1> DEFINE w == Line.words
             n == Len(w)
  <1>1. n \in Nat /\ n >= 1 /\ w[1] \in Files
    BY WordFacts DEF DataInv
  <1> HIDE DEF w
  <1>2. Join(job.before, w)[1] = [disk |-> B!Created(job.before, w[1]), end |-> 0]
    BY <1>1, JoinFacts
  <1> DEFINE p == Joined(1)
             e == B!Created(job.before, w[1])
  <1>3. p = [disk |-> e, end |-> 0]
    BY <1>2 DEF Joined, w
  <1>4. job.before \in Filled => e \in Filled /\ e[w[1]] \in Seq(STRING)
    BY <1>1, CreatedFacts
  <1>5. p.disk = e
    BY <1>3
  <1> HIDE DEF p, e
  <1> QED BY <1>3, <1>4, <1>5 DEF p, e, w

(* The output is opened.                                                   *)
LEMMA OpenOutData ==
  ASSUME DataInv, HoldInv', OpenOut
  PROVE  DataInv'
  <1> DEFINE c == Head(calls)
  <1>1. /\ Busy /\ Done /\ UNCHANGED script /\ c[1] = "open out"
        /\ disk' = B!Created(disk, job.out)
        /\ job' = [job EXCEPT !.wr = 0, !.arg = 2]
    BY DEF OpenOut, Calls, Done
  <1>2. /\ job'.before = job.before /\ job'.in = job.in /\ job'.out = job.out
        /\ job'.wr = 0 /\ job'.arg = 2
    BY <1>1 DEF DataInv, HoldInv, Standing, Fields
  <1>3. Line' = Line
    BY <1>1, SameLine
  <1>4. on /\ script # << >> /\ job.before \in Filled
    BY <1>1 DEF DataInv, HoldInv, Standing, Busy
  <1>5. /\ Line.words[1] \in Files /\ Len(Line.words) \in Nat /\ Len(Line.words) >= 1
        /\ Line.tool # "catm" => Line.words[2] \in Files
    BY <1>4, WordFacts DEF DataInv
  <1> HIDE DEF c
  <1>6. ASSUME NEW a \in State, NEW m \in State, HoldAt(a), DataAt(a.stage), Step(c, a, m)
        PROVE  disk' \in Filled /\ DataAt(m.stage)'
    <2>1. <<c[1], a.stage, m.stage>> \in Moves
      BY <1>1, <1>6, MoveFacts DEF Quiet
    <2>2. \/ a.stage = "input" /\ m.stage = "created"
          \/ a.stage = "target" /\ m.stage = "joining"
      BY <1>1, <2>1 DEF Moves
    <2>3. CASE a.stage = "input" /\ m.stage = "created"
      <3>1. Line.tool # "catm"
        BY <1>6, <2>3 DEF HoldAt, TranslatorStages
      <3>2. disk = job.before /\ job.in = Line.words[1] /\ job.out = Line.words[2]
        BY <1>6, <2>3 DEF DataAt
      <3>3. disk' \in Filled
        BY <1>1, <1>4, <1>5, <3>1, <3>2, CreatedFacts
      <3> QED BY <1>1, <1>2, <1>3, <2>3, <3>2, <3>3 DEF DataAt
    <2>4. CASE a.stage = "target" /\ m.stage = "joining"
      <3>1. disk = job.before /\ job.out = Line.words[1]
        BY <1>6, <2>4 DEF DataAt
      <3> DEFINE p == Joined(1)
      <3>2. p = [disk |-> disk', end |-> 0]
        BY <1>1, <1>4, <3>1, LoopBegins
      <3>3. disk' \in Filled /\ disk'[Line.words[1]] \in Seq(STRING)
        BY <1>1, <1>4, <1>5, <3>1, CreatedFacts
      <3>4. Joined(1)' = p /\ 2 - 1 = 1
        BY <1>2, <1>3 DEF Joined
      <3> HIDE DEF p
      <3>5. 2 \in 2 .. Len(Line.words) + 1 /\ 0 \in 0 .. Len(disk'[Line.words[1]])
        BY <1>5, <3>3, LenProperties
      <3>6. InLoop("joining")'
        BY <1>2, <1>3, <3>2, <3>3, <3>4, <3>5 DEF InLoop
      <3>7. InLoop(m.stage)'
        BY <2>4, <3>6
      <3> QED BY <1>2, <1>3, <2>4, <3>1, <3>3, <3>7 DEF DataAt
    <2> QED BY <2>2, <2>3, <2>4
  <1> QED BY <1>1, <1>2, <1>6, DataAlong DEF c

(* The passes make text of text.                                           *)
TranslatesText ==
    \A tool \in {"hex1", "hex2", "M0"} : \A text \in Seq(STRING) : Translate(tool, text) \in Seq(STRING)

(* What M0 takes of a text is a text.                                      *)
LEMMA TakenFacts ==
  ASSUME NEW tool, NEW text \in Seq(STRING)
  PROVE  B!Taken(tool, text) \in Seq(STRING) /\ (tool # "M0" => B!Taken(tool, text) = text)
  <1>1. CASE tool = "M0" /\ Len(text) > M0Limit
    <2>1. 1 \in Int /\ M0Limit \in Int /\ Len(text) \in Nat
      BY RvToolAssumption, LenProperties
    <2>2. \A i \in 1 .. M0Limit : text[i] \in STRING
      <3> SUFFICES ASSUME NEW i \in 1 .. M0Limit
                   PROVE  text[i] \in STRING
        OBVIOUS
      <3>1. i \in 1 .. Len(text)
        BY <1>1, <2>1
      <3> QED BY <3>1, ElementOfSeq
    <2>3. SubSeq(text, 1, M0Limit) \in Seq(STRING)
      BY <2>1, <2>2, SubSeqProperties
    <2> QED BY <1>1, <2>3 DEF B!Taken
  <1>2. CASE ~ (tool = "M0" /\ Len(text) > M0Limit)
    BY <1>2 DEF B!Taken
  <1> QED BY <1>1, <1>2

(* A translator has written the translation over a file it had created.    *)
LEMMA Translation ==
  ASSUME DataInv, script # << >>, job.before \in Filled, Line.tool # "catm", TranslatesText, ~NoInput,
         NEW d, d = B!Created(job.before, Line.words[2]),
         NEW text, text = B!Taken(Line.tool, job.before[Line.words[1]]),
         NEW e, e = B!Written(d, Line.words[2], 0, Translate(Line.tool, text))
  PROVE  e \in Filled /\ e = B!Effect(job.before, Line)
  <1>1. /\ Line.words[1] \in Files /\ Line.words[2] \in Files
        /\ Line.tool \in {"hex1", "hex2", "M0"}
    BY WordFacts DEF DataInv
  <1>2. job.before[Line.words[1]] \in Seq(STRING)
    BY <1>1 DEF NoInput, Filled
  <1>3. Translate(Line.tool, text) \in Seq(STRING)
    BY <1>1, <1>2, TakenFacts DEF TranslatesText
  <1>4. d \in Filled /\ d[Line.words[2]] \in Seq(STRING)
    BY <1>1, CreatedFacts
  <1>5. 0 \in 0 .. Len(d[Line.words[2]])
    BY <1>4, LenProperties
  <1>6. e \in Filled
    BY <1>1, <1>3, <1>4, <1>5, WrittenFacts
  <1>7. e = B!Effect(job.before, Line)
    BY DEF B!Effect, B!Translated
  <1> QED BY <1>6, <1>7

(* The input a translator reads is still what it was when the line began.  *)
LEMMA InputKept ==
  ASSUME DataInv, script # << >>, job.before \in Filled, Line.tool # "catm", ~NoInput,
         disk = B!Created(job.before, Line.words[2])
  PROVE  disk[Line.words[1]] = job.before[Line.words[1]] /\ disk[Line.words[1]] \in Seq(STRING)
  <1>1. Line.words[1] \in Files /\ Line.words[2] \in Files
    BY WordFacts DEF DataInv
  <1>2. job.before[Line.words[1]] # Missing
    BY DEF NoInput
  <1>3. disk[Line.words[1]] = job.before[Line.words[1]]
    BY <1>1, <1>2, CreatedFacts
  <1> QED BY <1>1, <1>2, <1>3 DEF Filled

(* hex1 reads the whole input twice: after the rewind it reads from the    *)
(* beginning.                                                              *)
LEMMA PassesData ==
  ASSUME DataInv, HoldInv', FirstPass \/ Rewind \/ SecondPass, TranslatesText
  PROVE  DataInv'
  <1> DEFINE c == Head(calls)
             data == Translate("hex1", SubSeq(disk[job.in], job.rd + 1, Len(disk[job.in])))
  <1>1. /\ Busy /\ Done /\ Sound /\ UNCHANGED script
        /\ \/ c[1] = "first pass" /\ UNCHANGED disk /\ job' = [job EXCEPT !.rd = Len(disk[job.in])]
           \/ c[1] = "rewind" /\ UNCHANGED disk /\ job' = [job EXCEPT !.rd = 0]
           \/ /\ c[1] = "second pass" /\ disk' = B!Written(disk, job.out, job.wr, data)
              /\ job' = [job EXCEPT !.wr = @ + Len(data)]
    BY DEF FirstPass, Rewind, SecondPass, WriteOut, Calls, Done
  <1>2. /\ job'.before = job.before /\ job'.in = job.in /\ job'.out = job.out
        /\ c[1] # "second pass" => job'.wr = job.wr
        /\ c[1] = "rewind" => job'.rd = 0
    BY <1>1 DEF DataInv, HoldInv, Standing, Fields
  <1>3. Line' = Line
    BY <1>1, SameLine
  <1>4. on /\ script # << >> /\ job.before \in Filled
    BY <1>1 DEF DataInv, HoldInv, Standing, Busy
  <1>5. "in" \in Through(c)
    <2>1. "in" \in Handles(c[1])
      BY <1>1 DEF Handles
    <2>2. Get("root")[1] = "get"
      BY DEF Get
    <2> HIDE DEF c
    <2> QED BY <1>1, <2>1, <2>2 DEF Through
  <1> HIDE DEF c, data
  <1>6. ASSUME NEW a \in State, NEW m \in State, HoldAt(a), DataAt(a.stage), Step(c, a, m),
               c \in Vocabulary(Line.tool)
        PROVE  disk' \in Filled /\ DataAt(m.stage)'
    <2>1. <<c[1], a.stage, m.stage>> \in Moves
      BY <1>1, <1>6, MoveFacts DEF Quiet
    <2>2. \/ c[1] = "first pass" /\ a.stage = "created" /\ m.stage = "counted"
          \/ c[1] = "rewind" /\ a.stage = "counted" /\ m.stage = "rewound"
          \/ c[1] = "second pass" /\ a.stage = "rewound" /\ m.stage = "written"
      BY <1>1, <2>1 DEF Moves
    <2>3. Line.tool = "hex1"
      BY <1>6, <2>2 DEF Vocabulary
    <2>4. /\ job.in = Line.words[1] /\ job.out = Line.words[2] /\ job.wr = 0
          /\ disk = B!Created(job.before, Line.words[2])
      BY <1>6, <2>2 DEF DataAt
    <2>5. CASE c[1] # "second pass"
      <3>1. disk' = disk /\ disk' \in Filled
        BY <1>1, <2>5 DEF DataInv
      <3> QED BY <1>2, <1>3, <2>2, <2>4, <2>5, <3>1 DEF DataAt
    <2>6. CASE c[1] = "second pass"
      <3>1. job.rd = 0
        BY <1>6, <2>2, <2>6 DEF DataAt
      <3>2. ~NoInput
        BY <1>1, <1>5, <1>6, InputThere DEF c
      <3> DEFINE text == job.before[Line.words[1]]
      <3>3. disk[job.in] = text /\ text \in Seq(STRING)
        BY <1>4, <2>3, <2>4, <3>2, InputKept
      <3> HIDE DEF text
      <3>4. SubSeq(text, 1, Len(text)) = text
        BY <3>3, SubSeqFull
      <3>5. data = Translate("hex1", text)
        <4>1. 0 + 1 = 1
          OBVIOUS
        <4> QED BY <3>1, <3>3, <3>4, <4>1 DEF data
      <3>6. B!Taken(Line.tool, text) = text
        BY <2>3, <3>3, TakenFacts
      <3>7. disk' = B!Written(disk, Line.words[2], 0, Translate(Line.tool, text))
        BY <1>1, <2>3, <2>4, <2>6, <3>5
      <3>8. disk' \in Filled /\ disk' = B!Effect(job.before, Line)
        BY <1>4, <2>3, <2>4, <3>2, <3>6, <3>7, Translation DEF text
      <3> QED BY <1>2, <1>3, <2>2, <2>6, <3>8 DEF DataAt
    <2> QED BY <2>5, <2>6
  <1> QED BY <1>1, <1>2, <1>6, DataAlong DEF c

(* The other translators read once and write once.                         *)
LEMMA WholeData ==
  ASSUME DataInv, HoldInv', ReadAll \/ WriteAll, TranslatesText
  PROVE  DataInv'
  <1> DEFINE c == Head(calls)
             data == Translate(Line.tool, job.text)
  <1>1. /\ Busy /\ Done /\ Sound /\ UNCHANGED script
        /\ \/ /\ c[1] = "read all" /\ UNCHANGED disk
              /\ job' = [job EXCEPT !.text = B!Taken(Line.tool, disk[job.in])]
           \/ /\ c[1] = "write all" /\ disk' = B!Written(disk, job.out, job.wr, data)
              /\ job' = [job EXCEPT !.wr = @ + Len(data)]
    BY DEF ReadAll, WriteAll, WriteOut, Calls, Done
  <1>2. /\ job'.before = job.before /\ job'.in = job.in /\ job'.out = job.out
        /\ c[1] = "read all" => job'.wr = job.wr /\ job'.text = B!Taken(Line.tool, disk[job.in])
    BY <1>1 DEF DataInv, HoldInv, Standing, Fields
  <1>3. Line' = Line
    BY <1>1, SameLine
  <1>4. on /\ script # << >> /\ job.before \in Filled
    BY <1>1 DEF DataInv, HoldInv, Standing, Busy
  <1>5. c[1] = "read all" => "in" \in Through(c)
    <2> SUFFICES ASSUME c[1] = "read all"
                 PROVE  "in" \in Through(c)
      OBVIOUS
    <2>1. "in" \in Handles(c[1])
      BY DEF Handles
    <2>2. Get("root")[1] = "get"
      BY DEF Get
    <2> HIDE DEF c
    <2> QED BY <1>1, <2>1, <2>2 DEF Through
  <1> HIDE DEF c, data
  <1>6. ASSUME NEW a \in State, NEW m \in State, HoldAt(a), DataAt(a.stage), Step(c, a, m)
        PROVE  disk' \in Filled /\ DataAt(m.stage)'
    <2>1. <<c[1], a.stage, m.stage>> \in Moves
      BY <1>1, <1>6, MoveFacts DEF Quiet
    <2>2. \/ c[1] = "read all" /\ a.stage = "created" /\ m.stage = "read"
          \/ c[1] = "write all" /\ a.stage = "read" /\ m.stage = "written"
      BY <1>1, <2>1 DEF Moves
    <2>3. Line.tool # "catm"
      BY <1>6, <2>2 DEF HoldAt, TranslatorStages
    <2>4. /\ job.in = Line.words[1] /\ job.out = Line.words[2] /\ job.wr = 0
          /\ disk = B!Created(job.before, Line.words[2])
      BY <1>6, <2>2 DEF DataAt
    <2>5. CASE c[1] = "read all"
      <3>1. disk' = disk /\ disk' \in Filled
        BY <1>1, <2>5 DEF DataInv
      <3>2. ~NoInput
        BY <1>1, <1>5, <1>6, <2>5, InputThere DEF c
      <3>3. disk[job.in] = job.before[Line.words[1]]
        BY <1>4, <2>3, <2>4, <3>2, InputKept
      <3> QED BY <1>2, <1>3, <2>2, <2>4, <2>5, <3>1, <3>3 DEF DataAt
    <2>6. CASE c[1] = "write all"
      <3>1. job.text = B!Taken(Line.tool, job.before[Line.words[1]])
        BY <1>6, <2>2, <2>6 DEF DataAt
      <3>2. ~NoInput
        BY <1>6, <2>2, <2>6 DEF HoldAt
      <3>3. disk' = B!Written(disk, Line.words[2], 0, Translate(Line.tool, job.text))
        BY <1>1, <2>4, <2>6 DEF data
      <3>4. disk' \in Filled /\ disk' = B!Effect(job.before, Line)
        BY <1>4, <2>3, <2>4, <3>1, <3>2, <3>3, Translation
      <3> QED BY <1>2, <1>3, <2>2, <2>6, <3>4 DEF DataAt
    <2> QED BY <2>2, <2>5, <2>6
  <1> QED BY <1>1, <1>2, <1>6, DataAlong DEF c

(* A word of the line, and the next.                                       *)
LEMMA LoopBounds ==
  ASSUME NEW n \in Nat, NEW k \in 2 .. n + 1, k <= n
  PROVE  k \in 2 .. n /\ k \in 1 .. n /\ k + 1 \in 2 .. n + 1 /\ k + 1 - 1 = k /\ k + 1 # 2
  OBVIOUS

(* How the point catm has reached goes on, and where it ends.              *)
LEMMA LoopGoesOn ==
  ASSUME DataInv, script # << >>
  PROVE  /\ \A k \in 2 .. Len(Line.words) : Joined(k) = JoinStep(Line.words, k, Joined(k - 1))
         /\ Line.tool = "catm" => Joined(Len(Line.words)).disk = B!Effect(job.before, Line)
  <1> DEFINE w == Line.words
             n == Len(w)
  <1>1. n \in Nat /\ n >= 1
    BY WordFacts DEF DataInv
  <1> HIDE DEF w
  <1>2. /\ B!Concatenated(job.before, w) = Join(job.before, w)[n].disk
        /\ \A k \in 2 .. n : Join(job.before, w)[k] = JoinStep(w, k, Join(job.before, w)[k - 1])
    BY <1>1, JoinFacts, ZenonT(30)
  <1>3. Line.tool = "catm" => B!Effect(job.before, Line) = B!Concatenated(job.before, w)
    BY DEF B!Effect, w
  <1> QED BY <1>2, <1>3 DEF Joined, w

(* The loop ends behind the last word.                                     *)
LEMMA CoreDoneData ==
  ASSUME DataInv, HoldInv', CoreDone
  PROVE  DataInv'
  <1> DEFINE c == Head(calls)
  <1>1. /\ Busy /\ Done /\ UNCHANGED <<disk, job, script>> /\ c[1] = "core"
        /\ job.arg > Len(Line.words)
    BY DEF CoreDone, Calls, Done
  <1>2. Line' = Line
    BY <1>1, SameLine
  <1>3. script # << >> /\ Len(Line.words) \in Nat
    BY <1>1, WordFacts DEF DataInv, HoldInv, Standing, Busy
  <1> HIDE DEF c
  <1>4. ASSUME NEW a \in State, NEW m \in State, HoldAt(a), DataAt(a.stage), Step(c, a, m)
        PROVE  disk' \in Filled /\ DataAt(m.stage)'
    <2>1. <<c[1], a.stage, m.stage>> \in Moves
      BY <1>1, <1>4, MoveFacts DEF Quiet
    <2>2. a.stage = "joining" /\ m.stage = "written"
      BY <1>1, <2>1 DEF Moves
    <2>3. Line.tool = "catm"
      BY <1>4, <2>2 DEF HoldAt, CatmStages
    <2>4. job.arg \in 2 .. Len(Line.words) + 1 /\ disk = Joined(job.arg - 1).disk
      BY <1>4, <2>2 DEF DataAt, InLoop
    <2>5. job.arg - 1 = Len(Line.words)
      BY <1>1, <1>3, <2>4
    <2>6. disk = B!Effect(job.before, Line)
      BY <1>3, <2>3, <2>4, <2>5, LoopGoesOn
    <2>7. disk' \in Filled
      BY <1>1 DEF DataInv
    <2> QED BY <1>1, <1>2, <2>2, <2>6, <2>7 DEF DataAt
  <1> QED BY <1>1, <1>4, DataAlong DEF c

(* A word between two spaces, or an input that is not there, adds nothing. *)
LEMMA CoreSkipData ==
  ASSUME DataInv, HoldInv', CoreSkip
  PROVE  DataInv'
  <1>1. /\ Busy /\ UNCHANGED <<script, on, outcome, disk>> /\ Head(calls)[1] = "core"
        /\ job' = [job EXCEPT !.arg = Advance] /\ calls' = << >> \o calls
        /\ job.arg <= Len(Line.words) /\ (Arg = "" \/ disk[Arg] = Missing)
    BY DEF CoreSkip, Calls, CoreStays
  <1>2. /\ job'.before = job.before /\ job'.out = job.out /\ job'.wr = job.wr
        /\ job'.arg = job.arg + 1
    BY <1>1 DEF DataInv, HoldInv, Standing, Fields, Advance
  <1>3. Line' = Line
    BY <1>1, SameLine
  <1>4. script # << >> /\ Len(Line.words) \in Nat /\ calls \in Seq(Vocabulary(Line.tool))
    BY <1>1, WordFacts DEF DataInv, HoldInv, Standing, Busy
  <1>5. calls' = calls
    BY <1>1, <1>4, NothingInFront
  <1>6. ASSUME NEW m \in State, OnPath(m)'
        PROVE  DataAt(m.stage)'
    <2>1. OnPath(m)
      BY <1>5, <1>6 DEF OnPath
    <2>2. m.stage = "joining"
      BY <1>1, <2>1, LoopStage DEF OnPath, Busy
    <2>3. DataAt("joining")
      BY <1>1, <2>1, <2>2 DEF DataInv, Busy
    <2> DEFINE p == Joined(job.arg - 1)
               k == job.arg
    <2>4. /\ k \in 2 .. Len(Line.words) + 1 /\ disk = p.disk /\ job.wr = p.end
          /\ p.disk \in Filled /\ p.disk[Line.words[1]] \in Seq(STRING)
          /\ p.end \in 0 .. Len(p.disk[Line.words[1]]) /\ job.out = Line.words[1]
      BY <2>3 DEF DataAt, InLoop
    <2>5. Joined(k) = p
      <3>1. k \in 2 .. Len(Line.words)
        BY <1>1, <1>4, <2>4, LoopBounds
      <3>2. Joined(k) = JoinStep(Line.words, k, p)
        BY <1>4, <3>1, LoopGoesOn
      <3> HIDE DEF p
      <3> QED BY <1>1, <2>4, <3>2 DEF JoinStep, Arg
    <2>6. Joined(k)' = Joined(k)'
      OBVIOUS
    <2>7. job'.arg - 1 = k /\ k + 1 \in 2 .. Len(Line.words) + 1 /\ k + 1 # 2
      <3>1. k + 1 - 1 = k /\ k + 1 \in 2 .. Len(Line.words) + 1 /\ k + 1 # 2
        <4> HIDE DEF k
        <4>1. k <= Len(Line.words)
          BY <1>1 DEF k
        <4> QED BY <1>4, <2>4, <4>1, LoopBounds
      <3>2. job'.arg = k + 1 /\ k \in Nat
        BY <1>2, <2>4
      <3>3. \A i : i = k + 1 => i - 1 = k
        <4> HIDE DEF k
        <4> QED BY <3>2
      <3> HIDE DEF k
      <3> QED BY <3>1, <3>2, <3>3, Zenon
    <2>8. \A i : Joined(i)' = Joined(i)
      BY <1>2, <1>3 DEF Joined
    <2>9. Joined(job.arg - 1)' = p
      BY <2>5, <2>7, <2>8
    <2> HIDE DEF p, k
    <2>10. InLoop("joining")'
      BY <1>1, <1>2, <1>3, <2>4, <2>7, <2>9 DEF InLoop, k
    <2>11. InLoop(m.stage)'
      BY <2>2, <2>10
    <2> QED BY <1>2, <1>3, <2>2, <2>4, <2>11 DEF DataAt
  <1>7. disk' \in Filled /\ calls' \in Seq(Vocabulary(Line.tool))
    BY <1>1, <1>4, <1>5 DEF DataInv
  <1> QED BY <1>1, <1>2, <1>6, <1>7, DataDetour

(* An input that is opened is at its beginning, and nothing of it has been *)
(* written.                                                                *)
LEMMA CoreOpenData ==
  ASSUME DataInv, HoldInv', CoreOpen
  PROVE  DataInv'
  <1>1. /\ Busy /\ UNCHANGED <<script, on, outcome, disk>> /\ Head(calls)[1] = "core"
        /\ job' = [job EXCEPT !.in = Arg, !.rd = 0] /\ calls' = <<Call("keep")>> \o calls
        /\ job.arg <= Len(Line.words) /\ Arg # "" /\ disk[Arg] # Missing
    BY DEF CoreOpen, Calls, CoreStays
  <1>2. /\ job'.before = job.before /\ job'.out = job.out /\ job'.wr = job.wr
        /\ job'.arg = job.arg /\ job'.in = Arg /\ job'.rd = 0
    BY <1>1 DEF DataInv, HoldInv, Standing, Fields
  <1>3. Line' = Line
    BY <1>1, SameLine
  <1>4. script # << >> /\ Len(Line.words) \in Nat /\ calls \in Seq(Vocabulary(Line.tool))
        /\ Line.words[1] \in Files
        /\ \A k \in 1 .. Len(Line.words) : Line.words[k] \in Files \cup {""}
    BY <1>1, WordFacts DEF DataInv, HoldInv, Standing, Busy
  <1>5. /\ calls' \in Seq(Vocabulary(Line.tool)) /\ calls' # << >> /\ Head(calls') = Call("keep")
        /\ Tail(calls') = calls
    <2> DEFINE S == Vocabulary(Line.tool)
               k == Call("keep")
    <2>1. k \in S
      BY DEF Vocabulary, Firmware, Call
    <2>2. calls \in Seq(S) /\ calls' = <<k>> \o calls
      BY <1>1, <1>4
    <2> HIDE DEF S, k
    <2>3. <<k>> \in Seq(S) /\ Len(<<k>>) = 1
      BY <2>1
    <2> QED BY <2>1, <2>2, <2>3, HeadTailProperties DEF S, k
  <1>6. ASSUME NEW m \in State, OnPath(m)'
        PROVE  DataAt(m.stage)'
    <2>1. PICK b : Path(calls', m, b) /\ Ending(b)
      BY <1>6 DEF OnPath
    <2>2. PICK d \in State : Path(calls, d, b)
      BY <1>5, <2>1, PathTail
    <2>3. m.stage = "keeping"
      <3>1. Call("keep")[1] = "keep"
        BY DEF Call
      <3> QED BY <1>5, <2>1, <3>1, LoopStage
    <2>4. d.stage = "joining"
      BY <1>1, <2>2, LoopStage DEF Busy
    <2>5. OnPath(d)
      BY <2>1, <2>2 DEF OnPath
    <2>6. DataAt("joining")
      BY <1>1, <2>4, <2>5 DEF DataInv, Busy
    <2> DEFINE p == Joined(job.arg - 1)
    <2>7. /\ job.arg \in 2 .. Len(Line.words) + 1 /\ disk = p.disk /\ job.wr = p.end
          /\ p.disk \in Filled /\ p.disk[Line.words[1]] \in Seq(STRING)
          /\ p.end \in 0 .. Len(p.disk[Line.words[1]]) /\ job.out = Line.words[1]
          /\ job.arg = 2 => p.end = 0
      BY <2>6 DEF DataAt, InLoop
    <2>8. Joined(job.arg - 1)' = p
      BY <1>2, <1>3 DEF Joined
    <2> DEFINE w == Line.words[job.arg]
               data == p.disk[w]
               e == SubSeq(data, 1, 0)
    <2> HIDE DEF p
    <2>9. w \in Files /\ data \in Seq(STRING) /\ w = Arg /\ w # "" /\ data # Missing
      <3>1. job.arg \in 1 .. Len(Line.words)
        BY <1>1, <1>4, <2>7, LoopBounds
      <3>2. w = Arg /\ w # ""
        BY <1>1 DEF Arg
      <3>3. w \in Files
        BY <1>4, <3>1, <3>2
      <3>4. p.disk[w] \in {Missing} \cup Seq(STRING) /\ p.disk[w] # Missing
        BY <1>1, <2>7, <3>2, <3>3 DEF Filled
      <3> QED BY <3>2, <3>3, <3>4
    <2> HIDE DEF w, data
    <2>10. e \in Seq(STRING) /\ Len(e) = 0 /\ 0 \in 0 .. Len(data) /\ p.end + 0 = p.end
      <3>1. e = << >>
        <4>1. 0 \in Int /\ 1 \in Int /\ 0 < 1
          OBVIOUS
        <4> QED BY <4>1, SubSeqEmpty
      <3>2. Len(data) \in Nat
        BY <2>9, LenProperties
      <3>4. << >> \in Seq(STRING) /\ Len(<< >>) = 0
        OBVIOUS
      <3>3. Len(p.disk[Line.words[1]]) \in Nat
        BY <2>7, LenProperties
      <3> QED BY <2>7, <3>1, <3>2, <3>3, <3>4
    <2> HIDE DEF e
    <2>11. B!Written(p.disk, Line.words[1], p.end, e) = p.disk
      <3> DEFINE old == p.disk[Line.words[1]]
      <3>1. B!Overlay(old, p.end, e) = old
        <4>1. old \in Seq(STRING) /\ p.end \in 0 .. Len(old)
          BY <2>7
        <4> HIDE DEF old
        <4> QED BY <2>10, <4>1, OverlayNone
      <3> QED BY <1>4, <2>7, <3>1, WrittenSame
    <2>12. InLoop("keeping")'
      <3>1. job.arg = job'.arg /\ job'.in = w /\ job'.in # "" /\ p.disk[job'.in] # Missing
        BY <1>2, <2>9 DEF data
      <3>2. /\ job'.rd \in 0 .. Len(p.disk[job'.in]) /\ job'.wr = p.end + job'.rd
            /\ disk' = B!Written(p.disk, Line.words[1], p.end, SubSeq(p.disk[job'.in], 1, job'.rd))
        BY <1>1, <1>2, <2>7, <2>9, <2>10, <2>11 DEF e, data
      <3> QED BY <1>1, <1>2, <1>3, <2>7, <2>8, <3>1, <3>2 DEF InLoop, w
    <2>13. InLoop(m.stage)'
      BY <2>3, <2>12
    <2> QED BY <1>2, <1>3, <2>3, <2>7, <2>13 DEF DataAt
  <1>7. disk' \in Filled
    BY <1>1 DEF DataInv
  <1> QED BY <1>1, <1>2, <1>5, <1>6, <1>7, DataDetour

(* What a write does to the disk, wherever it goes.                        *)
LEMMA WrittenWhere ==
  ASSUME NEW d \in Filled, NEW f \in Files, NEW at, NEW data
  PROVE  /\ B!Written(d, f, at, data)[f] = B!Overlay(d[f], at, data)
         /\ \A g \in Files : g # f => B!Written(d, f, at, data)[g] = d[g]
  BY DEF B!Written, Filled

(* While an input is being joined it stays what it was, even where it is   *)
(* the output itself.                                                      *)
LEMMA PartWritten ==
  ASSUME NEW d \in Filled, NEW out \in Files, d[out] \in Seq(STRING), NEW end \in 0 .. Len(d[out]),
         NEW w \in Files, d[w] # Missing, w = out => end = 0, NEW rd \in 0 .. Len(d[w]),
         NEW e, e = B!Written(d, out, end, SubSeq(d[w], 1, rd))
  PROVE  /\ e \in Filled /\ e[w] = d[w] /\ e[out] \in Seq(STRING)
         /\ d[w] \in Seq(STRING) /\ Len(d[w]) \in Nat
         /\ SubSeq(d[w], 1, rd) \in Seq(STRING) /\ Len(SubSeq(d[w], 1, rd)) = rd
         /\ end + rd \in 0 .. Len(e[out])
  <1> DEFINE data == d[w]
             part == SubSeq(data, 1, rd)
  <1>1. data \in Seq(STRING)
    BY DEF Filled
  <1>2. Len(data) \in Nat /\ rd \in 0 .. Len(data)
    BY <1>1, LenProperties
  <1>3. part \in Seq(STRING) /\ Len(part) = rd
    <2> HIDE DEF data
    <2>1. 1 \in Int /\ rd \in Int /\ rd \in Nat
      BY <1>2
    <2>2. \A i \in 1 .. rd : data[i] \in STRING
      <3> SUFFICES ASSUME NEW i \in 1 .. rd
                   PROVE  data[i] \in STRING
        OBVIOUS
      <3>1. i \in 1 .. Len(data)
        BY <1>2
      <3> QED BY <1>1, <3>1, ElementOfSeq
    <2>3. part \in Seq(STRING) /\ Len(part) = IF 1 <= rd THEN rd - 1 + 1 ELSE 0
      BY <2>1, <2>2, SubSeqProperties
    <2> QED BY <1>2, <2>1, <2>3
  <1>4. e = B!Written(d, out, end, part)
    OBVIOUS
  <1> HIDE DEF part
  <1>5. PICK x : x = B!Written(d, out, end, part)
    OBVIOUS
  <1>6. /\ x \in Filled /\ x[out] \in Seq(STRING) /\ x[out] = B!Overlay(d[out], end, part)
        /\ end + Len(part) \in 0 .. Len(x[out])
        /\ \A g \in Files : g # out => x[g] = d[g]
    <2>1. part \in Seq(STRING)
      BY <1>3
    <2>2. x \in Filled /\ x[out] \in Seq(STRING)
      BY <1>5, <2>1, WrittenFacts
    <2>3. end + Len(part) \in 0 .. Len(x[out])
      BY <1>5, <2>1, WrittenFacts
    <2>4. x[out] = B!Overlay(d[out], end, part) /\ \A g \in Files : g # out => x[g] = d[g]
      BY <1>5, WrittenWhere
    <2> QED BY <2>2, <2>3, <2>4
  <1>7. x = e
    BY <1>4, <1>5
  <1>8. x[w] = data
    <2>1. CASE w # out
      BY <1>6, <2>1
    <2>2. CASE w = out
      <3>1. x[w] = B!Overlay(data, 0, part)
        BY <1>6, <2>2
      <3> HIDE DEF data
      <3> QED BY <1>1, <1>2, <3>1, OverlaySelf DEF part
    <2> QED BY <2>1, <2>2
  <1> QED BY <1>1, <1>2, <1>3, <1>6, <1>7, <1>8 DEF part

(* What has been read of a text, and what is read next.                    *)
LEMMA ChunkFacts ==
  ASSUME NEW S, NEW text \in Seq(S), NEW rd \in 0 .. Len(text), NEW to \in rd .. Len(text)
  PROVE  /\ SubSeq(text, 1, rd) \in Seq(S) /\ Len(SubSeq(text, 1, rd)) = rd
         /\ SubSeq(text, rd + 1, to) \in Seq(S) /\ Len(SubSeq(text, rd + 1, to)) = to - rd
         /\ SubSeq(text, 1, rd) \o SubSeq(text, rd + 1, to) = SubSeq(text, 1, to)
  <1> DEFINE part == SubSeq(text, 1, rd)
             chunk == SubSeq(text, rd + 1, to)
  <1>1. /\ Len(text) \in Nat /\ rd \in Nat /\ to \in Nat /\ rd <= to /\ to <= Len(text)
    BY LenProperties
  <1>2. \A i \in 1 .. Len(text) : text[i] \in S
    BY ElementOfSeq
  <1>3. part \in Seq(S) /\ Len(part) = rd
    <2>1. 1 \in Int /\ rd \in Int /\ \A i \in 1 .. rd : text[i] \in S
      BY <1>1, <1>2
    <2>2. part \in Seq(S) /\ Len(part) = IF 1 <= rd THEN rd - 1 + 1 ELSE 0
      BY <2>1, SubSeqProperties
    <2> HIDE DEF part
    <2> QED BY <1>1, <2>2
  <1>4. chunk \in Seq(S) /\ Len(chunk) = to - rd
    <2>1. rd + 1 \in Int /\ to \in Int /\ \A i \in rd + 1 .. to : text[i] \in S
      BY <1>1, <1>2
    <2>2. chunk \in Seq(S) /\ Len(chunk) = IF rd + 1 <= to THEN to - (rd + 1) + 1 ELSE 0
      BY <2>1, SubSeqProperties
    <2> HIDE DEF chunk
    <2> QED BY <1>1, <2>2
  <1>5. part \o chunk = SubSeq(text, 1, to)
    <2>1. 1 \in 1 .. Len(text) + 1 /\ rd \in 1 - 1 .. Len(text) /\ to \in rd .. Len(text)
      BY <1>1
    <2> QED BY <2>1, ConcatAdjacentSubSeq
  <1> QED BY <1>3, <1>4, <1>5

(* What the loop knows while it reads an input.                            *)
LEMMA Reading ==
  ASSUME DataInv, on, script # << >>, Line.tool = "catm", NEW s, s # "joining", InLoop(s),
         NEW p, p = Joined(job.arg - 1), NEW w, w = Line.words[job.arg], NEW out, out = Line.words[1]
  PROVE  /\ out \in Files /\ w \in Files /\ w = job.in /\ w # ""
         /\ p.disk \in Filled /\ p.disk[out] \in Seq(STRING) /\ p.end \in 0 .. Len(p.disk[out])
         /\ p.disk[w] # Missing /\ (w = out => p.end = 0) /\ job.rd \in 0 .. Len(p.disk[w])
         /\ disk = B!Written(p.disk, out, p.end, SubSeq(p.disk[w], 1, job.rd))
         /\ job.wr = p.end + job.rd
         /\ job.arg \in 2 .. Len(Line.words) /\ Len(Line.words) \in Nat
         /\ s = "closing" => job.rd = Len(p.disk[w])
  <1>1. /\ Len(Line.words) \in Nat /\ out \in Files
        /\ \A k \in 1 .. Len(Line.words) : Line.words[k] \in Files \cup {""}
        /\ \A k \in 3 .. Len(Line.words) : Line.words[k] # Line.words[1]
    BY WordFacts DEF DataInv
  <1>2. /\ job.arg \in 2 .. Len(Line.words) + 1 /\ job.arg <= Len(Line.words)
        /\ job.in = w /\ w # "" /\ (job.arg = 2 => p.end = 0)
    BY DEF InLoop
  <1>3. job.arg \in 2 .. Len(Line.words) /\ job.arg \in 1 .. Len(Line.words)
    BY <1>1, <1>2, LoopBounds
  <1>4. w \in Files
    BY <1>1, <1>2, <1>3
  <1>5. w = out => p.end = 0
    <2>1. job.arg \in 3 .. Len(Line.words) \/ job.arg = 2
      <3> DEFINE n == Len(Line.words)
      <3>1. n \in Nat /\ job.arg \in 2 .. n
        BY <1>1, <1>3
      <3> HIDE DEF n
      <3>2. job.arg \in 3 .. n \/ job.arg = 2
        BY <3>1
      <3> QED BY <3>2 DEF n
    <2> QED BY <1>1, <1>2, <2>1
  <1> QED BY <1>1, <1>2, <1>3, <1>4, <1>5 DEF InLoop

(* A word of the line that is being joined, and the next.                  *)
LEMMA LoopWord ==
  ASSUME NEW n \in Nat, NEW k \in 2 .. n, NEW i, i = k + 1
  PROVE  k \in 2 .. n + 1 /\ k <= n /\ i \in 2 .. n + 1 /\ i - 1 = k /\ i # 2
  OBVIOUS

(* A turn of reading and writing adds to the output what it takes from the *)
(* input, and the last turn is the one that does not fill the buffer.      *)
LEMMA KeepData ==
  ASSUME DataInv, HoldInv', Keep
  PROVE  DataInv'
  <1> DEFINE c    == Head(calls)
             p    == Joined(job.arg - 1)
             w    == Line.words[job.arg]
             out  == Line.words[1]
             text == p.disk[w]
             to   == IF job.rd + Block < Len(text) THEN job.rd + Block ELSE Len(text)
  <1>1. /\ Busy /\ UNCHANGED <<script, held, on, outcome>> /\ c[1] = "keep"
        /\ disk' = IF Chunk = << >> THEN disk ELSE B!Written(disk, job.out, job.wr, Chunk)
        /\ job' = [job EXCEPT !.rd = @ + Len(Chunk), !.wr = @ + Len(Chunk)]
        /\ calls' = IF Full(Len(Chunk)) THEN calls ELSE <<Call("close arg")>> \o Tail(calls)
    BY DEF Keep, Calls
  <1>2. /\ job'.before = job.before /\ job'.out = job.out /\ job'.in = job.in /\ job'.arg = job.arg
        /\ job'.rd = job.rd + Len(Chunk) /\ job'.wr = job.wr + Len(Chunk)
    BY <1>1 DEF DataInv, HoldInv, Standing, Fields
  <1>3. Line' = Line
    BY <1>1, SameLine
  <1>4. on /\ outcome = "running" /\ script # << >> /\ calls \in Seq(Vocabulary(Line.tool))
        /\ calls # << >>
    BY <1>1 DEF DataInv, HoldInv, Standing, Busy
  <1>5. PICK a \in State : OnPath(a) /\ HoldAt(a) /\ DataAt(a.stage)
    BY <1>4 DEF DataInv, HoldInv
  <1>6. a.stage = "keeping"
    BY <1>1, <1>4, <1>5, LoopStage DEF OnPath
  <1>7. Line.tool = "catm" /\ InLoop("keeping") /\ job.out = out
    BY <1>5, <1>6 DEF HoldAt, CatmStages, DataAt
  <1>8. /\ out \in Files /\ w \in Files /\ w = job.in /\ w # ""
        /\ p.disk \in Filled /\ p.disk[out] \in Seq(STRING) /\ p.end \in 0 .. Len(p.disk[out])
        /\ p.disk[w] # Missing /\ (w = out => p.end = 0) /\ job.rd \in 0 .. Len(p.disk[w])
        /\ disk = B!Written(p.disk, out, p.end, SubSeq(p.disk[w], 1, job.rd))
        /\ job.wr = p.end + job.rd
        /\ job.arg \in 2 .. Len(Line.words) /\ Len(Line.words) \in Nat
    <2> HIDE DEF p, w, out
    <2>1. p = Joined(job.arg - 1) /\ w = Line.words[job.arg] /\ out = Line.words[1]
      BY DEF p, w, out
    <2> QED BY <1>4, <1>7, <2>1, Reading
  <1>9. /\ InLoop("keeping") => (job.arg = 2 => p.end = 0)
        /\ Joined(job.arg - 1)' = p
    BY <1>2, <1>3 DEF InLoop, Joined
  <1>10. Arg = w
    BY DEF Arg
  <1> HIDE DEF p, w, out
  <1>11. /\ disk[w] = text /\ text \in Seq(STRING) /\ Len(text) \in Nat
    <2>1. PICK d, end, rd : d = p.disk /\ end = p.end /\ rd = job.rd
      OBVIOUS
    <2>2. /\ d \in Filled /\ out \in Files /\ d[out] \in Seq(STRING) /\ end \in 0 .. Len(d[out])
          /\ w \in Files /\ d[w] # Missing /\ (w = out => end = 0) /\ rd \in 0 .. Len(d[w])
          /\ disk = B!Written(d, out, end, SubSeq(d[w], 1, rd))
      BY <1>8, <2>1
    <2>3. disk[w] = d[w] /\ d[w] \in Seq(STRING) /\ Len(d[w]) \in Nat
      BY <2>2, PartWritten
    <2> QED BY <2>1, <2>3
  <1>12. Chunk = SubSeq(text, job.rd + 1, to)
    BY <1>8, <1>11 DEF Chunk
  <1>13. /\ Block \in Nat /\ Block # 0 /\ job.rd \in Nat /\ to \in job.rd .. Len(text)
         /\ (to - job.rd # Block => to = Len(text)) /\ (to - job.rd = 0 => to = Len(text))
         /\ to \in 0 .. Len(text)
    <2> DEFINE r == job.rd
               l == Len(text)
    <2>1. Block \in Nat /\ Block # 0 /\ r \in 0 .. l /\ l \in Nat
      BY <1>8, <1>11, RvToolAssumption
    <2>2. to = IF r + Block < l THEN r + Block ELSE l
      OBVIOUS
    <2> HIDE DEF r, l, to
    <2>3. /\ r \in Nat /\ to \in r .. l /\ to \in 0 .. l
          /\ (to - r # Block => to = l) /\ (to - r = 0 => to = l)
      BY <2>1, <2>2
    <2> QED BY <2>1, <2>3 DEF r, l
  <1> HIDE DEF text, to
  <1>14. /\ Chunk \in Seq(STRING) /\ Len(Chunk) = to - job.rd
         /\ B!Written(disk, out, p.end + job.rd, Chunk) = B!Written(p.disk, out, p.end, SubSeq(text, 1, to))
    <2>1. PICK d, end, rd, part, chunk :
             /\ d = p.disk /\ end = p.end /\ rd = job.rd /\ chunk = Chunk
             /\ part = SubSeq(text, 1, job.rd)
      OBVIOUS
    <2>2. /\ part \in Seq(STRING) /\ Len(part) = rd
          /\ chunk \in Seq(STRING) /\ Len(chunk) = to - rd /\ part \o chunk = SubSeq(text, 1, to)
      <3>1. rd \in 0 .. Len(text) /\ to \in rd .. Len(text)
        BY <1>8, <1>13, <2>1 DEF text
      <3>2. chunk = SubSeq(text, rd + 1, to) /\ part = SubSeq(text, 1, rd)
        BY <1>12, <2>1
      <3>3. /\ SubSeq(text, 1, rd) \in Seq(STRING) /\ Len(SubSeq(text, 1, rd)) = rd
            /\ SubSeq(text, rd + 1, to) \in Seq(STRING) /\ Len(SubSeq(text, rd + 1, to)) = to - rd
            /\ SubSeq(text, 1, rd) \o SubSeq(text, rd + 1, to) = SubSeq(text, 1, to)
        BY <1>11, <3>1, ChunkFacts
      <3> QED BY <3>2, <3>3
    <2>3. d \in Filled /\ out \in Files /\ d[out] \in Seq(STRING) /\ end \in 0 .. Len(d[out])
      BY <1>8, <2>1
    <2>4. B!Written(B!Written(d, out, end, part), out, end + Len(part), chunk)
             = B!Written(d, out, end, part \o chunk)
      BY <2>2, <2>3, WrittenTwice
    <2>5. disk = B!Written(d, out, end, part)
      BY <1>8, <2>1 DEF text
    <2> QED BY <2>1, <2>2, <2>4, <2>5
  <1>15. disk' = B!Written(p.disk, out, p.end, SubSeq(text, 1, to))
    <2>1. CASE Chunk = << >>
      <3>1. to - job.rd = 0
        BY <1>14, <2>1
      <3>2. to = job.rd
        BY <1>13, <3>1
      <3> QED BY <1>1, <1>8, <2>1, <3>2 DEF text
    <2>2. CASE Chunk # << >>
      BY <1>1, <1>7, <1>8, <1>14, <2>2
    <2> QED BY <2>1, <2>2
  <1>16. disk' \in Filled
    <2>1. to \in 0 .. Len(p.disk[w])
      BY <1>13 DEF text
    <2> QED BY <1>8, <1>15, <2>1, PartWritten DEF text
  <1>17. job'.rd = to /\ job'.wr = p.end + to
    <2>1. p.end \in Nat
      <3>1. \A x \in Seq(STRING) : \A e \in 0 .. Len(x) : e \in Nat
        BY LenProperties
      <3> QED BY <1>8, <3>1
    <2>2. job.rd + (to - job.rd) = to /\ p.end + job.rd + (to - job.rd) = p.end + to
      BY <1>13, <2>1
    <2> QED BY <1>2, <1>8, <1>14, <2>2
  <1>18. ASSUME NEW s, s # "joining", s = "closing" => to = Len(text)
         PROVE  InLoop(s)'
    <2>1. job'.arg \in 2 .. Len(Line.words) + 1 /\ job'.arg <= Len(Line.words)
      BY <1>2, <1>8, LoopWord
    <2>2. /\ job'.in = w /\ p.disk[job'.in] = text /\ to \in 0 .. Len(text)
          /\ job'.in # "" /\ p.disk[job'.in] # Missing
      BY <1>2, <1>8, <1>13 DEF text
    <2> QED BY <1>2, <1>3, <1>7, <1>8, <1>9, <1>15, <1>17, <1>18, <2>1, <2>2 DEF InLoop, w, out
  <1>19. /\ calls' \in Seq(Vocabulary(Line.tool)) /\ calls' # << >>
         /\ \/ Head(calls')[1] = "keep"
            \/ Head(calls')[1] = "close arg" /\ to = Len(text)
    <2>1. CASE Full(Len(Chunk))
      BY <1>1, <1>4, <2>1 DEF c
    <2>2. CASE ~Full(Len(Chunk))
      <3> DEFINE S == Vocabulary(Line.tool)
                 k == Call("close arg")
      <3>1. k \in S
        BY DEF Vocabulary, Firmware, Call
      <3>6. k[1] = "close arg"
        BY DEF Call
      <3>2. Tail(calls) \in Seq(S) /\ calls' = <<k>> \o Tail(calls)
        BY <1>1, <1>4, <2>2, HeadTailProperties
      <3> HIDE DEF S, k
      <3>3. <<k>> \in Seq(S) /\ Len(<<k>>) = 1
        BY <3>1
      <3>4. calls' \in Seq(S) /\ calls' # << >> /\ Head(calls') = k
        BY <3>1, <3>2, <3>3, HeadTailProperties
      <3>5. to = Len(text)
        BY <1>13, <1>14, <2>2 DEF Full
      <3> QED BY <3>4, <3>5, <3>6 DEF S
    <2> QED BY <2>1, <2>2
  <1>20. ASSUME NEW m \in State, OnPath(m)'
         PROVE  DataAt(m.stage)'
    <2>1. PICK b : Path(calls', m, b)
      BY <1>20 DEF OnPath
    <2>2. m.stage = "keeping" \/ (m.stage = "closing" /\ to = Len(text))
      BY <1>19, <2>1, LoopStage
    <2>3. InLoop(m.stage)'
      BY <1>18, <2>2
    <2>4. job'.out = Line'.words[1]
      BY <1>2, <1>3, <1>7 DEF out
    <2> QED BY <2>2, <2>3, <2>4 DEF DataAt
  <1> QED BY <1>1, <1>2, <1>16, <1>19, <1>20, DataDetour

(* An input that has been read to its end has been joined.                 *)
LEMMA CloseArgData ==
  ASSUME DataInv, HoldInv', CloseArg
  PROVE  DataInv'
  <1> DEFINE c    == Head(calls)
             k    == job.arg
             p    == Joined(k - 1)
             w    == Line.words[k]
             out  == Line.words[1]
             text == p.disk[w]
  <1>1. /\ Busy /\ Done /\ UNCHANGED <<disk, script>> /\ c[1] = "close arg"
        /\ job' = [job EXCEPT !.arg = Advance]
    BY DEF CloseArg, Calls, Done
  <1>2. /\ job'.before = job.before /\ job'.out = job.out /\ job'.wr = job.wr
        /\ job'.arg = k + 1
    BY <1>1 DEF DataInv, HoldInv, Standing, Fields, Advance
  <1>3. Line' = Line
    BY <1>1, SameLine
  <1>4. on /\ script # << >>
    BY <1>1 DEF DataInv, HoldInv, Standing, Busy
  <1> HIDE DEF c
  <1>5. ASSUME NEW a \in State, NEW m \in State, HoldAt(a), DataAt(a.stage), Step(c, a, m)
        PROVE  disk' \in Filled /\ DataAt(m.stage)'
    <2>1. <<c[1], a.stage, m.stage>> \in Moves
      BY <1>1, <1>5, MoveFacts DEF Quiet
    <2>2. a.stage = "closing" /\ m.stage = "joining"
      BY <1>1, <2>1 DEF Moves
    <2>3. Line.tool = "catm" /\ InLoop("closing") /\ job.out = out
      BY <1>5, <2>2 DEF HoldAt, CatmStages, DataAt
    <2>4. /\ out \in Files /\ w \in Files /\ w # ""
          /\ p.disk \in Filled /\ p.disk[out] \in Seq(STRING) /\ p.end \in 0 .. Len(p.disk[out])
          /\ p.disk[w] # Missing /\ (w = out => p.end = 0) /\ job.rd \in 0 .. Len(p.disk[w])
          /\ disk = B!Written(p.disk, out, p.end, SubSeq(p.disk[w], 1, job.rd))
          /\ job.wr = p.end + job.rd
          /\ k \in 2 .. Len(Line.words) /\ Len(Line.words) \in Nat
          /\ job.rd = Len(p.disk[w])
      <3> HIDE DEF p, w, out
      <3>1. p = Joined(job.arg - 1) /\ w = Line.words[job.arg] /\ out = Line.words[1]
        BY DEF p, w, out
      <3> QED BY <1>4, <2>3, <3>1, Reading
    <2> HIDE DEF p
    <2>5. disk \in Filled /\ disk[out] \in Seq(STRING) /\ p.end + Len(text) \in 0 .. Len(disk[out])
          /\ text \in Seq(STRING)
      <3>1. PICK d, end, rd : d = p.disk /\ end = p.end /\ rd = job.rd
        OBVIOUS
      <3> HIDE DEF w, out
      <3>2. /\ d \in Filled /\ out \in Files /\ d[out] \in Seq(STRING) /\ end \in 0 .. Len(d[out])
            /\ w \in Files /\ d[w] # Missing /\ (w = out => end = 0) /\ rd \in 0 .. Len(d[w])
            /\ disk = B!Written(d, out, end, SubSeq(d[w], 1, rd))
        BY <2>4, <3>1
      <3>3. /\ disk \in Filled /\ disk[out] \in Seq(STRING) /\ end + rd \in 0 .. Len(disk[out])
            /\ d[w] \in Seq(STRING)
        BY <3>2, PartWritten
      <3> QED BY <2>4, <3>1, <3>3
    <2>6. SubSeq(text, 1, Len(text)) = text
      <3> HIDE DEF text
      <3> QED BY <2>5, SubSeqFull
    <2>7. Joined(k) = [disk |-> disk, end |-> p.end + Len(text)]
      <3>1. Joined(k) = JoinStep(Line.words, k, p)
        BY <1>4, <2>4, LoopGoesOn DEF p
      <3>2. disk = B!Written(p.disk, out, p.end, text)
        BY <2>4, <2>6
      <3> QED BY <2>4, <3>1, <3>2 DEF JoinStep
    <2> DEFINE q == Joined(k)
    <2>8. q.disk = disk /\ q.end = job.wr
      <3>1. job.wr = p.end + Len(text)
        BY <2>4
      <3>2. q = [disk |-> disk, end |-> p.end + Len(text)]
        BY <2>7
      <3> HIDE DEF q, text
      <3> QED BY <3>1, <3>2
    <2>9. /\ job'.arg - 1 = k /\ job'.arg \in 2 .. Len(Line.words) + 1 /\ job'.arg # 2
      <3> DEFINE n == Len(Line.words)
                 i == job'.arg
      <3>1. k \in 2 .. n /\ n \in Nat /\ i = k + 1
        BY <1>2, <2>4
      <3> HIDE DEF k, n, i
      <3>2. i - 1 = k /\ i \in 2 .. n + 1 /\ i # 2
        BY <3>1, LoopWord
      <3> QED BY <3>2 DEF n, i
    <2>10. Joined(job.arg - 1)' = q
      <3>1. \A i : Joined(i)' = Joined(i)
        BY <1>2, <1>3 DEF Joined
      <3> QED BY <2>9, <3>1
    <2>11. q.end \in 0 .. Len(disk[out])
      BY <2>4, <2>5, <2>8
    <2> HIDE DEF q, k, w, text
    <2>12. InLoop("joining")'
      BY <1>1, <1>2, <1>3, <2>5, <2>8, <2>9, <2>10, <2>11 DEF InLoop
    <2>13. InLoop(m.stage)'
      BY <2>2, <2>12
    <2> QED BY <1>1, <1>2, <1>3, <2>2, <2>3, <2>5, <2>13 DEF DataAt
  <1> QED BY <1>1, <1>2, <1>5, DataAlong DEF c

(* Sequences of things of a kind, written out.                             *)
LEMMA WrittenOut ==
  ASSUME NEW S, NEW a \in S, NEW b \in S, NEW c \in S, NEW d \in S, NEW e \in S
  PROVE  /\ <<a>> \in Seq(S) /\ <<a, b>> \in Seq(S) /\ <<a, b, c>> \in Seq(S)
         /\ <<a, b, c, d>> \in Seq(S) /\ <<a, b, c, d, e>> \in Seq(S)
  OBVIOUS

(* A tool says what it may.                                                *)
LEMMA CallsSpoken ==
  ASSUME NEW tool \in {"hex1", "hex2", "M0", "catm"}
  PROVE  CallsOf(tool) \in Seq(Vocabulary(tool))
  <1>1. CASE tool = "hex1"
    <2>1. CallsOf(tool) \in Seq(Firmware)
      BY CallsPath DEF Path
    <2>2. Vocabulary(tool) = Firmware
      BY <1>1 DEF Vocabulary
    <2> QED BY <2>1, <2>2
  <1>2. CASE tool # "hex1"
    <2> DEFINE V == Vocabulary(tool)
    <2>1. /\ \A x \in Things : Get(x) \in V /\ Give(x) \in V
          /\ \A n \in {"options", "forward options", "open in", "open out", "get info", "read all",
                       "write all", "flush", "core"} : Call(n) \in V
      BY DEF Vocabulary, Firmware, Get, Give, Call
    <2> HIDE DEF V
    <2>2. /\ Get("image") \in V /\ Get("fs") \in V /\ Get("root") \in V /\ Get("pool") \in V
          /\ Get("stack") \in V
          /\ Give("image") \in V /\ Give("fs") \in V /\ Give("root") \in V /\ Give("pool") \in V
          /\ Give("in") \in V /\ Give("out") \in V
      BY <2>1 DEF Things
    <2>3. /\ Call("options") \in V /\ Call("forward options") \in V /\ Call("open in") \in V
          /\ Call("open out") \in V /\ Call("get info") \in V /\ Call("read all") \in V
          /\ Call("write all") \in V /\ Call("flush") \in V /\ Call("core") \in V
      BY <2>1
    <2>4. /\ Setup \in Seq(V) /\ SetupForward \in Seq(V) /\ OpenFiles \in Seq(V)
          /\ CloseDown \in Seq(V)
      BY <2>2, <2>3, WrittenOut, Zenon DEF Setup, SetupForward, OpenFiles, CloseDown
    <2>5. CASE tool = "hex2"
      <3>1. <<Call("get info"), Call("read all"), Give("in"), Call("write all"), Call("flush")>> \in Seq(V)
        BY <2>2, <2>3, WrittenOut, Zenon
      <3>2. <<Give("pool"), Give("out")>> \in Seq(V)
        BY <2>2, <2>3, WrittenOut, ZenonT(30)
      <3>3. Hex2Calls \in Seq(V)
        BY <2>4, <3>1, <3>2, ConcatProperties DEF Hex2Calls
      <3> QED BY <2>5, <3>3 DEF CallsOf, V
    <2>6. CASE tool = "M0"
      <3>1. <<Get("stack")>> \in Seq(V)
        <4>1. \A x \in V : <<x>> \in Seq(V)
          OBVIOUS
        <4> QED BY <2>2, <4>1
      <3>2. <<Call("read all"), Give("in"), Call("write all")>> \in Seq(V)
        BY <2>2, <2>3, WrittenOut, Zenon
      <3>3. <<Give("pool"), Give("out")>> \in Seq(V)
        BY <2>2, <2>3, WrittenOut, ZenonT(30)
      <3>4. M0Calls \in Seq(V)
        BY <2>4, <3>1, <3>2, <3>3, ConcatProperties DEF M0Calls
      <3> QED BY <2>6, <3>4 DEF CallsOf, V
    <2>7. CASE tool = "catm"
      <3>1. <<Call("open out"), Get("pool"), Call("core"), Give("out"), Give("pool")>> \in Seq(V)
        BY <2>2, <2>3, WrittenOut, Zenon
      <3>2. CatmCalls \in Seq(V)
        BY <2>4, <3>1, ConcatProperties DEF CatmCalls
      <3> QED BY <2>7, <3>2 DEF CallsOf, V
    <2> QED BY <1>2, <2>5, <2>6, <2>7
  <1> QED BY <1>1, <1>2

(* A tool is started on the disk as the line finds it.                     *)
LEMMA StartData ==
  ASSUME DataInv, HoldInv', Start
  PROVE  DataInv'
  <1>1. /\ on' /\ script # << >> /\ calls' = CallsOf(Line.tool) /\ job'.before = disk
        /\ UNCHANGED <<disk, script, outcome>>
    BY DEF Start
  <1>2. Line' = Line
    BY <1>1, SameLine
  <1>3. Line.tool \in {"hex1", "hex2", "M0", "catm"}
    BY <1>1, WordFacts DEF DataInv
  <1>4. calls' \in Seq(Vocabulary(Line.tool))
    BY <1>1, <1>3, CallsSpoken
  <1>5. ASSUME NEW m \in State, OnPath(m)'
        PROVE  DataAt(m.stage)'
    <2>1. PICK b : Path(calls', m, b) /\ Ending(b)
      BY <1>5 DEF OnPath
    <2>2. PICK e : Path(CallsOf(Line.tool), Begin(Line.tool), e) /\ Ending(e)
      BY <1>3, CallsPath
    <2>3. m.stage = Begin(Line.tool).stage
      BY <1>1, <2>1, <2>2, OneStage DEF Ending
    <2>4. m.stage \in {"fresh", "blank"}
      BY <2>3 DEF Begin, At
    <2> QED BY <1>1, <2>4 DEF DataAt
  <1> QED BY <1>1, <1>2, <1>4, <1>5 DEF DataInv

(* Everything else leaves the disk alone.                                  *)
LEMMA RestData ==
  ASSUME DataInv, HoldInv', Return \/ Finish \/ Stray \/ UNCHANGED vars
  PROVE  DataInv'
  <1>1. CASE Return
    BY <1>1 DEF Return, DataInv
  <1>2. CASE Finish
    BY <1>2 DEF Finish, DataInv
  <1>3. CASE Stray
    BY <1>3 DEF Stray, DataInv
  <1>4. CASE UNCHANGED vars
    <2>1. UNCHANGED <<disk, script, calls, held, job, on, outcome>>
      BY <1>4 DEF vars
    <2>2. Line' = Line
      BY <2>1, SameLine
    <2>3. \A a : (OnPath(a)' => OnPath(a)) /\ (DataAt(a.stage) => DataAt(a.stage)')
      BY <2>1, DataSame DEF OnPath
    <2> QED BY <2>1, <2>2, <2>3 DEF DataInv
  <1> QED BY <1>1, <1>2, <1>3, <1>4

(* At first the disk is one there can be.                                  *)
LEMMA InitData == Init => DataInv
  <1>1. Init => disk \in Filled /\ ~on
    BY FilesAssumption DEF Init, Filled
  <1> QED BY <1>1, InitHold DEF DataInv

(* Every step keeps the disk on the path.                                  *)
LEMMA StepData == TranslatesText /\ DataInv /\ [Next]_vars => DataInv'
  <1> SUFFICES ASSUME TranslatesText, DataInv, [Next]_vars
               PROVE  DataInv'
    OBVIOUS
  <1>1. HoldInv'
    BY StepHold DEF DataInv
  <1>2. CASE Acquire \/ GiveBack \/ GetInfo \/ Flush
    BY <1>1, <1>2, QuietData
  <1>3. CASE BackwardOptions \/ ForwardOptions
    BY <1>1, <1>3, OptionsData
  <1>4. CASE OpenIn
    BY <1>1, <1>4, OpenInData
  <1>5. CASE OpenOut
    BY <1>1, <1>5, OpenOutData
  <1>6. CASE FirstPass \/ Rewind \/ SecondPass
    BY <1>1, <1>6, PassesData
  <1>7. CASE ReadAll \/ WriteAll
    BY <1>1, <1>7, WholeData
  <1>8. CASE CoreDone
    BY <1>1, <1>8, CoreDoneData
  <1>9. CASE CoreSkip
    BY <1>1, <1>9, CoreSkipData
  <1>10. CASE CoreOpen
    BY <1>1, <1>10, CoreOpenData
  <1>11. CASE Keep
    BY <1>1, <1>11, KeepData
  <1>12. CASE CloseArg
    BY <1>1, <1>12, CloseArgData
  <1>13. CASE Start
    BY <1>1, <1>13, StartData
  <1>14. CASE Return \/ Finish \/ Stray \/ UNCHANGED vars
    BY <1>1, <1>14, RestData
  <1> QED BY <1>2, <1>3, <1>4, <1>5, <1>6, <1>7, <1>8, <1>9, <1>10, <1>11, <1>12, <1>13, <1>14,
             Zenon DEF Next

(* The lines of a script and the lines of this disk have the same effect.  *)
LEMMA SameEffect ==
  ASSUME NEW d, NEW line
  PROVE  Lines!Effect(d, line) = B!Effect(d, line) /\ (Lines!HasInput(d, line) <=> B!HasInput(d, line))
  BY DEF Lines!Effect, B!Effect, Lines!HasInput, B!HasInput, Lines!Concatenated, B!Concatenated,
         Lines!Translated, B!Translated, Lines!Written, B!Written, Lines!Overlay, B!Overlay,
         Lines!Created, B!Created, Lines!Taken, B!Taken

(* A call of a tool, but one that goes astray, is not seen.                *)
LEMMA CallUnseen ==
  ASSUME DataInv, Busy, UNCHANGED <<script, on, outcome>>, job'.before = job.before
  PROVE  UNCHANGED <<Seen, script, outcome>>
  BY DEF Busy, Seen

(* The registers change, but not what the disk was when the line began.    *)
LEMMA CallsUnseen ==
  ASSUME DataInv,
         \/ Acquire \/ GiveBack \/ BackwardOptions \/ ForwardOptions \/ OpenIn \/ OpenOut
         \/ Work \/ CoreSkip \/ CoreOpen \/ Keep \/ CloseArg
  PROVE  UNCHANGED <<Seen, script, outcome>>
  <1>1. DOMAIN job = Fields
    BY DEF DataInv, HoldInv, Standing
  <1>2. CASE Acquire \/ GiveBack \/ GetInfo \/ Flush \/ CoreDone
    BY <1>2, CallUnseen DEF Acquire, GiveBack, GetInfo, Flush, CoreDone, Calls, Done
  <1>3. CASE BackwardOptions \/ ForwardOptions \/ OpenIn \/ OpenOut
    <2>1. job'.before = job.before
      BY <1>1, <1>3 DEF BackwardOptions, ForwardOptions, Options, OpenIn, OpenOut, Fields
    <2> QED BY <1>3, <2>1, CallUnseen
         DEF BackwardOptions, ForwardOptions, Options, OpenIn, OpenOut, Calls, Done
  <1>4. CASE FirstPass \/ Rewind \/ SecondPass \/ ReadAll \/ WriteAll
    <2>1. job'.before = job.before
      BY <1>1, <1>4 DEF FirstPass, Rewind, SecondPass, ReadAll, WriteAll, WriteOut, Fields
    <2> QED BY <1>4, <2>1, CallUnseen
         DEF FirstPass, Rewind, SecondPass, ReadAll, WriteAll, Calls, Done
  <1>5. CASE CoreSkip \/ CoreOpen \/ Keep \/ CloseArg
    <2>1. job'.before = job.before
      BY <1>1, <1>5 DEF CoreSkip, CoreOpen, Keep, CloseArg, Fields
    <2> QED BY <1>5, <2>1, CallUnseen
         DEF CoreSkip, CoreOpen, CoreStays, Keep, CloseArg, Calls, Done
  <1> QED BY <1>2, <1>3, <1>4, <1>5 DEF Work

(* A tool that returns has had the whole effect of its line.               *)
LEMMA ReturnRuns ==
  ASSUME DataInv, Return
  PROVE  Lines!RunLine
  <1>1. /\ on /\ on' = FALSE /\ outcome = "running" /\ calls = << >> /\ script' = Tail(script)
        /\ UNCHANGED <<disk, outcome>>
    BY DEF Return
  <1>2. PICK a \in State : OnPath(a) /\ HoldAt(a)
    BY <1>1 DEF DataInv, HoldInv
  <1>3. a.stage = "written"
    BY <1>1, <1>2, PathEmpty DEF OnPath, Ending
  <1>4. disk = B!Effect(job.before, Line)
    BY <1>1, <1>2, <1>3 DEF DataInv, DataAt
  <1>5. ~NoInput /\ script # << >>
    BY <1>1, <1>2, <1>3 DEF HoldAt, DataInv, HoldInv, Standing
  <1>6. B!HasInput(job.before, Line)
    BY <1>5 DEF NoInput, B!HasInput
  <1>7. Seen = job.before /\ Seen' = disk
    BY <1>1 DEF Seen
  <1> QED BY <1>1, <1>4, <1>5, <1>6, <1>7, SameEffect DEF Lines!RunLine, Line

(* A call goes astray where the line has no input.                         *)
LEMMA StrayLoses ==
  ASSUME DataInv, Stray
  PROVE  Lines!Lose
  <1>1. on /\ outcome = "running" /\ outcome' = "lost" /\ UNCHANGED <<disk, script, job, on>>
    BY DEF Stray, Busy
  <1>2. HoldInv'
    BY StrayKeeps DEF DataInv
  <1>3. NoInput
    <2>1. NoInput'
      BY <1>1, <1>2 DEF HoldInv, Standing
    <2> QED BY <1>1, <2>1, SameLine
  <1>4. ~B!HasInput(job.before, Line) /\ script # << >>
    BY <1>1, <1>3 DEF NoInput, B!HasInput, DataInv, HoldInv, Standing
  <1>5. Seen = job.before /\ UNCHANGED Seen
    BY <1>1 DEF Seen
  <1> QED BY <1>1, <1>4, <1>5, SameEffect DEF Lines!Lose, Line

(* Every step of the tools is a step of the script or is not seen.         *)
LEMMA StepLines == DataInv /\ [Next]_vars => [Lines!Next]_(Lines!vars)
  <1> SUFFICES ASSUME DataInv, [Next]_vars
               PROVE  Lines!Next \/ UNCHANGED <<Seen, script, outcome>>
    BY DEF Lines!vars
  <1>1. CASE \/ Acquire \/ GiveBack \/ BackwardOptions \/ ForwardOptions \/ OpenIn \/ OpenOut
             \/ Work \/ CoreSkip \/ CoreOpen \/ Keep \/ CloseArg
    BY <1>1, CallsUnseen
  <1>2. CASE Start
    BY <1>2 DEF Start, Seen
  <1>3. CASE Return
    BY <1>3, ReturnRuns DEF Lines!Next
  <1>4. CASE Stray
    BY <1>4, StrayLoses DEF Lines!Next
  <1>5. CASE Finish
    BY <1>5 DEF Finish, Seen, Lines!Next, Lines!Finish
  <1>6. CASE UNCHANGED vars
    BY <1>6 DEF vars, Seen
  <1> QED BY <1>1, <1>2, <1>3, <1>4, <1>5, <1>6, Zenon DEF Next, Work

(* Seen from the end of its lines, a script of tools ran them one by one,  *)
(* each at once and as a whole: what ImplementsBuild says of every step,   *)
(* for every script, disk and buffer size, and all passes that make text   *)
(* of text.                                                                *)
THEOREM LinesTheorem ==
  ASSUME TranslatesText
  PROVE  Spec => Lines!Init /\ [][Lines!Next]_(Lines!vars)
  <1>1. Init => Lines!Init
    BY DEF Init, Lines!Init
  <1>2. DataInv /\ [Next]_vars => DataInv'
    BY StepData
  <1> QED BY InitData, StepLines, <1>1, <1>2, PTL DEF Spec
===============================================================================
