------------------------------- MODULE M0Proofs --------------------------------
(***************************************************************************)
(* Theorems about M0, for both ports and every text.                       *)
(***************************************************************************)
EXTENDS M0Expand, HexTextProofs, SequenceTheorems, FiniteSetTheorems

-----------------------------------------------------------------------------
(* Recursive functions and sequences *)

(* A set of numbers that has the first one and the next of each has all.   *)
LEMMA Induction ==
  ASSUME NEW n \in Nat, NEW S, 0 \in S, \A k \in 0 .. n - 1 : k \in S => k + 1 \in S
  PROVE  0 .. n \subseteq S
  <1> DEFINE T == {k \in 0 .. n : k \notin S}
  <1> SUFFICES ASSUME T # {}
               PROVE  FALSE
    OBVIOUS
  <1>1. T \subseteq Nat
    OBVIOUS
  <1>2. PICK m \in T : \A k \in T : m <= k
    BY <1>1, Least
  <1>3. m # 0 /\ m - 1 \in 0 .. n - 1
    BY <1>2
  <1>4. m - 1 \notin T
    BY <1>2, <1>3
  <1> QED BY <1>2, <1>3, <1>4

Recurs(f, n, base, F) == f = [k \in 0 .. n |-> IF k = 0 THEN base ELSE F[<<k, f[k - 1]>>]]

(* A recursion over 0 .. n has a result, whose values are in the sets      *)
(* V[0] .. V[n] if each step leads from one to the next.                   *)
LEMMA Recursion ==
  ASSUME NEW n \in Nat, NEW V, NEW F, NEW base \in V[0],
         \A k \in 1 .. n : \A v \in V[k - 1] : F[<<k, v>>] \in V[k]
  PROVE  \E f : /\ Recurs(f, n, base, F)
                /\ \A k \in 0 .. n : f[k] \in V[k]
  <1> DEFINE Rec(f, m) == /\ f = [k \in 0 .. m |-> IF k = 0 THEN base ELSE F[<<k, f[k - 1]>>]]
                          /\ \A k \in 0 .. m : f[k] \in V[k]
             S == {m \in Nat : m <= n => \E f : Rec(f, m)}
  <1>1. 0 \in S
    <2>1. Rec([k \in 0 .. 0 |-> base], 0)
      OBVIOUS
    <2> QED BY <2>1
  <1>2. ASSUME NEW m \in 0 .. n - 1, m \in S
        PROVE  m + 1 \in S
    <2>1. PICK f : Rec(f, m)
      BY <1>2
    <2> DEFINE g == [k \in 0 .. m + 1 |-> IF k = m + 1 THEN F[<<m + 1, f[m]>>] ELSE f[k]]
    <2>2. ASSUME NEW k \in 0 .. m + 1
          PROVE  /\ g[k] = IF k = 0 THEN base ELSE F[<<k, g[k - 1]>>]
                 /\ g[k] \in V[k]
      <3>1. CASE k = m + 1
        <4>1. g[k] = F[<<m + 1, f[m]>>] /\ g[k - 1] = f[m] /\ k # 0
          BY <3>1
        <4>2. f[m] \in V[m] /\ m + 1 \in 1 .. n /\ (m + 1) - 1 = m
          BY <2>1
        <4>3. F[<<m + 1, f[m]>>] \in V[m + 1]
          BY <4>2
        <4> QED BY <3>1, <4>1, <4>3
      <3>2. CASE k # m + 1
        <4>1. k \in 0 .. m /\ g[k] = f[k] /\ (k # 0 => g[k - 1] = f[k - 1])
          BY <3>2
        <4> QED BY <2>1, <4>1
      <3> QED BY <3>1, <3>2
    <2>3. Rec(g, m + 1)
      <3>1. g = [k \in 0 .. m + 1 |-> g[k]]
        OBVIOUS
      <3> HIDE DEF g
      <3>2. g = [k \in 0 .. m + 1 |-> IF k = 0 THEN base ELSE F[<<k, g[k - 1]>>]]
        BY <2>2, <3>1
      <3>3. \A k \in 0 .. m + 1 : g[k] \in V[k]
        BY <2>2
      <3> QED BY <3>2, <3>3
    <2> HIDE DEF g, Rec
    <2>4. \E e : Rec(e, m + 1)
      BY <2>3
    <2> QED BY <2>4
  <1>3. 0 .. n \subseteq S
    <2> HIDE DEF S
    <2> QED BY <1>1, <1>2, Induction
  <1>4. n \in S
    BY <1>3, SMTT(30)
  <1> QED BY <1>4 DEF Recurs

(* A function on 1 .. n is a sequence.                                     *)
IsList(s) == Len(s) \in Nat /\ s = [k \in 1 .. Len(s) |-> s[k]]

LEMMA ListIsSeq ==
  ASSUME NEW s, IsList(s)
  PROVE  s \in Seq({s[k] : k \in 1 .. Len(s)})
  BY SeqDef DEF IsList

LEMMA SeqIsList ==
  ASSUME NEW S, NEW s \in Seq(S)
  PROVE  IsList(s)
  BY LenProperties DEF IsList

LEMMA LenOfList ==
  ASSUME NEW n \in Nat, NEW s, s = [k \in 1 .. n |-> s[k]]
  PROVE  Len(s) = n /\ IsList(s)
  <1> DEFINE S == {s[k] : k \in 1 .. n}
  <1>1. s \in [1 .. n -> S]
    OBVIOUS
  <1> HIDE DEF S
  <1>2. s \in Seq(S)
    BY <1>1, SeqDef
  <1>3. Len(s) \in Nat /\ DOMAIN s = 1 .. Len(s)
    BY <1>2, LenProperties
  <1>4. DOMAIN s = 1 .. n
    BY <1>1
  <1>5. n \in 1 .. n <=> n \in 1 .. Len(s)
    BY <1>3, <1>4
  <1>6. Len(s) \in 1 .. n <=> Len(s) \in 1 .. Len(s)
    BY <1>3, <1>4
  <1>7. Len(s) = n
    BY <1>3, <1>5, <1>6, SMT
  <1>8. IsList(s)
    BY <1>7 DEF IsList
  <1> QED BY <1>7, <1>8

LEMMA AppendList ==
  ASSUME NEW s, IsList(s), NEW x
  PROVE  /\ IsList(Append(s, x)) /\ Len(Append(s, x)) = Len(s) + 1
         /\ \A k \in 1 .. Len(s) : Append(s, x)[k] = s[k]
         /\ Append(s, x)[Len(s) + 1] = x
  <1> DEFINE S == {s[k] : k \in 1 .. Len(s)} \cup {x}
  <1>1. s \in Seq({s[k] : k \in 1 .. Len(s)})
    BY ListIsSeq
  <1>2. s \in Seq(S) /\ x \in S
    BY <1>1, SeqDef, LenProperties
  <1> HIDE DEF S
  <1>3. Append(s, x) \in Seq(S)
    BY <1>2, AppendProperties
  <1>4. IsList(Append(s, x))
    BY <1>3, SeqIsList
  <1> QED BY <1>2, <1>4, AppendProperties

-----------------------------------------------------------------------------
(* Lists of nodes *)

(* The links of h, followed from any node, come to an end, since each      *)
(* leads to a node of lower rank; then what is linked from a node is what  *)
(* any solution g of the equation for it says.                             *)
RankedBy(h, r) ==
    /\ Len(h) \in Nat /\ r \in [0 .. Len(h) -> Nat]
    /\ \A k \in 1 .. Len(h) :
          h[k].next \in 0 .. Len(h) /\ (h[k].next = 0 \/ r[h[k].next] < r[k])

SolvesLinks(h, g) == g = [k \in 0 .. Len(h) |-> IF k = 0 THEN {} ELSE {k} \cup g[h[k].next]]

LEMMA LinkedIs ==
  ASSUME NEW h, NEW r, RankedBy(h, r), NEW g, SolvesLinks(h, g), NEW n \in 0 .. Len(h)
  PROVE  LinkedFrom(h, n) = g[n]
  <1> USE DEF RankedBy, SolvesLinks
  <1> DEFINE f == CHOOSE e : e = [k \in 0 .. Len(h) |-> IF k = 0 THEN {} ELSE {k} \cup e[h[k].next]]
  <1>1. f = [k \in 0 .. Len(h) |-> IF k = 0 THEN {} ELSE {k} \cup f[h[k].next]]
    OBVIOUS
  <1>2. LinkedFrom(h, n) = f[n]
    BY DEF LinkedFrom
  <1> HIDE DEF f
  <1> DEFINE T == {r[k] : k \in {m \in 0 .. Len(h) : f[m] # g[m]}}
  <1>3. T = {}
    <2> SUFFICES ASSUME T # {}
                 PROVE  FALSE
      OBVIOUS
    <2>1. T \subseteq Nat
      <3>1. \A t \in T : \E k \in 0 .. Len(h) : t = r[k]
        OBVIOUS
      <3> HIDE DEF T
      <3> QED BY <3>1
    <2>2. PICK t \in T : \A u \in T : t <= u
      BY <2>1, Least
    <2>3. PICK k \in 0 .. Len(h) : f[k] # g[k] /\ t = r[k]
      BY <2>2
    <2>4. k # 0
      BY <1>1, <2>3
    <2>5. k \in 1 .. Len(h) /\ h[k].next \in 0 .. Len(h)
      BY <2>3, <2>4
    <2>6. f[k] = {k} \cup f[h[k].next] /\ g[k] = {k} \cup g[h[k].next]
      BY <1>1, <2>4, <2>5
    <2>7. f[h[k].next] # g[h[k].next]
      BY <2>3, <2>6
    <2>8. h[k].next # 0
      BY <1>1, <2>7, SMTT(30)
    <2>9. r[h[k].next] \in T /\ r[h[k].next] < r[k]
      BY <2>5, <2>7, <2>8
    <2>10. r[k] \in Nat /\ r[h[k].next] \in Nat /\ r[k] <= r[h[k].next]
      <3> HIDE DEF T
      <3> QED BY <2>2, <2>3, <2>5, <2>9
    <2> QED BY <2>9, <2>10
  <1>4. f[n] = g[n]
    <2> SUFFICES ASSUME f[n] # g[n]
                 PROVE  FALSE
      OBVIOUS
    <2>1. r[n] \in T
      OBVIOUS
    <2> QED BY <1>3, <2>1
  <1> QED BY <1>2, <1>4

(* Where node k leads: over the two nodes behind it if it is a macro.      *)
Rest(h, k) == k + (IF h[k].type = "macro" THEN 3 ELSE 1)
Succ(h, k) == IF Rest(h, k) > Len(h) THEN 0 ELSE Rest(h, k)

Macros(h)  == {k \in 1 .. Len(h) : h[k].type = "macro"}
Taken(h)   == UNION {{m + 1, m + 2} : m \in Macros(h)}
Live(h)    == 1 .. Len(h) \ Taken(h)

(* The list runs through the live nodes in the order of the text.          *)
InOrder(h) ==
    /\ Len(h) \in Nat
    /\ \A k \in 1 .. Len(h) : h[k].next = Succ(h, k)
    /\ \A k \in Macros(h) : k + 2 <= Len(h) /\ k + 1 \notin Macros(h) /\ k + 2 \notin Macros(h)

LEMMA LiveFacts ==
  ASSUME NEW h, InOrder(h), NEW k \in Live(h)
  PROVE  /\ k \in 1 .. Len(h) /\ h[k].next \in Live(h) \cup {0}
         /\ h[k].next # 0 => h[k].next = Rest(h, k) /\ Rest(h, k) \in k + 1 .. Len(h)
         /\ h[k].next = 0 => Rest(h, k) = Len(h) + 1
         /\ \A m \in Macros(h) : m < k => m + 3 <= k
         /\ \A j \in Live(h) : j > k => j >= Rest(h, k)
  <1>1. k \in 1 .. Len(h) /\ h[k].next = Succ(h, k) /\ Len(h) \in Nat
    BY DEF InOrder, Live
  <1>2. ASSUME NEW m \in Macros(h), m < k
        PROVE  m + 3 <= k
    <2>1. m + 1 # k /\ m + 2 # k /\ m \in Nat
      BY <1>2 DEF Live, Taken, Macros
    <2> QED BY <1>1, <1>2, <2>1
  <1>3. ASSUME NEW j \in Live(h), j > k
        PROVE  j >= Rest(h, k)
    <2>1. j \in Nat
      BY DEF Live
    <2>2. k \in Macros(h) => j # k + 1 /\ j # k + 2
      BY DEF Live, Taken
    <2>3. h[k].type = "macro" => k \in Macros(h)
      BY <1>1 DEF Macros
    <2> QED BY <1>1, <1>3, <2>1, <2>2, <2>3 DEF Rest
  <1>4. Rest(h, k) <= Len(h) + 1 /\ Rest(h, k) >= k + 1 /\ Rest(h, k) \in Nat
    <2>1. h[k].type = "macro" => k + 2 <= Len(h)
      BY <1>1 DEF InOrder, Macros
    <2> QED BY <1>1, <2>1 DEF Rest
  <1>5. ASSUME Rest(h, k) <= Len(h)
        PROVE  Rest(h, k) \in Live(h)
    <2> SUFFICES ASSUME NEW m \in Macros(h), Rest(h, k) = m + 1 \/ Rest(h, k) = m + 2
                 PROVE  FALSE
      BY <1>1, <1>4, <1>5 DEF Live, Taken
    <2>1. m \in 1 .. Len(h) /\ h[m].type = "macro" /\ m + 1 \notin Macros(h) /\ m + 2 \notin Macros(h)
      BY DEF Macros, InOrder
    <2>2. m < k => m + 3 <= k
      BY <1>2
    <2>3. m >= k
      BY <1>1, <1>4, <2>1, <2>2
    <2>4. m = k => FALSE
      BY <1>1, <2>1 DEF Rest
    <2>5. m > k
      BY <1>1, <2>1, <2>3, <2>4
    <2>6. Rest(h, k) = k + 3 /\ k \in Macros(h)
      BY <1>1, <2>1, <2>5 DEF Rest, Macros
    <2>7. m = k + 1 \/ m = k + 2
      BY <1>1, <2>1, <2>5, <2>6
    <2>8. k + 1 \notin Macros(h) /\ k + 2 \notin Macros(h)
      BY <2>6 DEF InOrder
    <2> QED BY <2>7, <2>8
  <1> QED BY <1>1, <1>2, <1>3, <1>4, <1>5 DEF Succ

(* What is linked from a node of a list in order: the live nodes from      *)
(* there on.                                                               *)
LEMMA LinkedInOrder ==
  ASSUME NEW h, InOrder(h), NEW n \in Live(h) \cup {0}
  PROVE  LinkedFrom(h, n) = IF n = 0 THEN {} ELSE {j \in Live(h) : j >= n}
  <1> DEFINE N == Len(h)
             From(k) == {j \in k .. N : \A m \in Macros(h) : m >= k => j # m + 1 /\ j # m + 2}
             g == [k \in 0 .. N |-> IF k = 0 THEN {} ELSE From(k)]
             r == [k \in 0 .. N |-> N - k]
  <1>1. N \in Nat /\ \A k \in 1 .. N : h[k].next = Succ(h, k)
    BY DEF InOrder
  <1>2. ASSUME NEW k \in 1 .. N
        PROVE  /\ h[k].next \in 0 .. N
               /\ h[k].next = 0 \/ h[k].next > k
               /\ From(k) = {k} \cup (IF h[k].next = 0 THEN {} ELSE From(h[k].next))
    <2>1. h[k].next = Succ(h, k)
      BY <1>1
    <2>2. CASE k \in Macros(h)
      <3>1. Rest(h, k) = k + 3 /\ k + 2 <= N /\ k + 1 \notin Macros(h) /\ k + 2 \notin Macros(h)
        BY <2>2 DEF InOrder, Macros, Rest
      <3>2. \A m \in Macros(h) : m \in Nat /\ (m >= k => m = k \/ m >= k + 3)
        BY <1>1, <3>1 DEF Macros
      <3>3. From(k) = {k} \cup From(k + 3)
        <4>1. \A j \in From(k) : j = k \/ j \in From(k + 3)
          BY <1>1, <2>2, <3>2
        <4>2. k \in From(k)
          BY <1>1, <3>2
        <4>3. \A j \in From(k + 3) : j \in From(k)
          BY <1>1, <3>2
        <4> QED BY <4>1, <4>2, <4>3
      <3>4. k + 3 > N => From(k + 3) = {}
        BY <1>1
      <3> QED BY <1>1, <2>1, <3>1, <3>3, <3>4 DEF Succ
    <2>3. CASE k \notin Macros(h)
      <3>1. Rest(h, k) = k + 1
        BY <1>1, <2>3 DEF Macros, Rest
      <3>2. \A m \in Macros(h) : m \in Nat /\ (m >= k <=> m >= k + 1)
        BY <1>1, <2>3 DEF Macros
      <3>3. From(k) = {k} \cup From(k + 1)
        <4>1. \A j \in From(k) : j = k \/ j \in From(k + 1)
          BY <1>1, <3>2
        <4>2. k \in From(k)
          BY <1>1, <3>2
        <4>3. \A j \in From(k + 1) : j \in From(k)
          BY <1>1, <3>2
        <4> QED BY <4>1, <4>2, <4>3
      <3>4. k + 1 > N => From(k + 1) = {}
        BY <1>1
      <3> QED BY <1>1, <2>1, <3>1, <3>3, <3>4 DEF Succ
    <2> QED BY <2>2, <2>3
  <1>3. g = [k \in 0 .. N |-> IF k = 0 THEN {} ELSE {k} \cup g[h[k].next]]
    <2>1. ASSUME NEW k \in 0 .. N
          PROVE  g[k] = IF k = 0 THEN {} ELSE {k} \cup g[h[k].next]
      <3> HIDE DEF From
      <3>1. CASE k = 0
        BY <3>1
      <3>2. CASE k # 0
        <4>1. k \in 1 .. N
          BY <3>2
        <4>2. h[k].next \in 0 .. N /\ From(k) = {k} \cup (IF h[k].next = 0 THEN {} ELSE From(h[k].next))
          BY <1>2, <4>1
        <4> QED BY <3>2, <4>2
      <3> QED BY <3>1, <3>2
    <2>2. g = [k \in 0 .. N |-> g[k]]
      OBVIOUS
    <2> HIDE DEF g
    <2> QED BY <2>1, <2>2
  <1>4. r \in [0 .. N -> Nat] /\ \A k \in 1 .. N : h[k].next = 0 \/ r[h[k].next] < r[k]
    BY <1>1, <1>2
  <1>5. n \in 0 .. N
    BY <1>1 DEF Live
  <1>6. LinkedFrom(h, n) = g[n]
    <2> HIDE DEF g, r
    <2>1. RankedBy(h, r)
      BY <1>1, <1>2, <1>4 DEF RankedBy
    <2>2. SolvesLinks(h, g)
      BY <1>3 DEF SolvesLinks
    <2> QED BY <1>5, <2>1, <2>2, LinkedIs
  <1>7. n # 0 => From(n) = {j \in Live(h) : j >= n}
    <2> SUFFICES ASSUME n # 0
                 PROVE  From(n) = {j \in Live(h) : j >= n}
      OBVIOUS
    <2>1. n \in Live(h) /\ n \in 1 .. N
      BY <1>1 DEF Live
    <2>2. \A m \in Macros(h) : m \in Nat /\ (m < n => m + 3 <= n)
      BY <2>1, LiveFacts DEF Macros
    <2>3. ASSUME NEW j \in From(n)
          PROVE  j \in Live(h) /\ j >= n
      BY <1>1, <2>1, <2>2 DEF Live, Taken
    <2>4. ASSUME NEW j \in Live(h), j >= n
          PROVE  j \in From(n)
      BY <1>1, <2>1, <2>4 DEF Live, Taken
    <2> QED BY <2>3, <2>4
  <1> QED BY <1>5, <1>6, <1>7

(* While a list is reversed, the nodes up to n lead down and the others    *)
(* lead up.                                                                *)
Halved(h, n) ==
    /\ Len(h) \in Nat /\ n \in 0 .. Len(h)
    /\ \A k \in 1 .. Len(h) :
          h[k].next = IF k <= n THEN k - 1 ELSE IF k = Len(h) THEN 0 ELSE k + 1

Upper(h, n) == IF n = Len(h) THEN 0 ELSE n + 1

LEMMA LinkedHalved ==
  ASSUME NEW h, NEW n, Halved(h, n)
  PROVE  LinkedFrom(h, n) = 1 .. n /\ LinkedFrom(h, Upper(h, n)) = n + 1 .. Len(h)
  <1> DEFINE N == Len(h)
             g == [k \in 0 .. N |-> IF k <= n THEN 1 .. k ELSE k .. N]
             r == [k \in 0 .. N |-> IF k <= n THEN k ELSE N - k]
  <1>1. N \in Nat /\ n \in 0 .. N /\ Upper(h, n) \in 0 .. N
    BY DEF Halved, Upper
  <1>2. ASSUME NEW k \in 1 .. N
        PROVE  /\ h[k].next \in 0 .. N
               /\ h[k].next = 0 \/ r[h[k].next] < r[k]
               /\ g[k] = {k} \cup g[h[k].next]
    <2>1. CASE k <= n
      <3>1. h[k].next = k - 1
        BY <1>1, <2>1 DEF Halved
      <3>2. g[k] = 1 .. k /\ g[k - 1] = 1 .. k - 1 /\ r[k] = k /\ r[k - 1] = k - 1
        BY <1>1, <2>1
      <3>3. 1 .. k = {k} \cup (1 .. k - 1)
        OBVIOUS
      <3> QED BY <1>1, <3>1, <3>2, <3>3
    <2>2. CASE k > n /\ k = N
      <3>1. h[k].next = 0
        BY <1>1, <2>2 DEF Halved
      <3>2. g[k] = k .. N /\ g[0] = 1 .. 0
        BY <1>1, <2>2
      <3> QED BY <1>1, <2>2, <3>1, <3>2
    <2>3. CASE k > n /\ k # N
      <3>1. h[k].next = k + 1
        BY <1>1, <2>3 DEF Halved
      <3>2. g[k] = k .. N /\ g[k + 1] = k + 1 .. N /\ r[k] = N - k /\ r[k + 1] = N - (k + 1)
        BY <1>1, <2>3
      <3>3. k .. N = {k} \cup (k + 1 .. N)
        BY <1>1
      <3> QED BY <1>1, <2>3, <3>1, <3>2, <3>3
    <2>4. k <= n \/ (k > n /\ k = N) \/ (k > n /\ k # N)
      BY <1>1
    <2> HIDE DEF g, r, N
    <2> QED BY <2>1, <2>2, <2>3, <2>4
  <1>3. g = [k \in 0 .. N |-> IF k = 0 THEN {} ELSE {k} \cup g[h[k].next]]
    <2>1. g = [k \in 0 .. N |-> g[k]]
      OBVIOUS
    <2>2. g[0] = {}
      BY <1>1
    <2> HIDE DEF g
    <2>3. \A k \in 0 .. N : g[k] = IF k = 0 THEN {} ELSE {k} \cup g[h[k].next]
      <3>1. \A k \in 0 .. N : k = 0 \/ k \in 1 .. N
        OBVIOUS
      <3>2. \A k \in 1 .. N : g[k] = {k} \cup g[h[k].next]
        BY <1>2
      <3> QED BY <1>1, <2>2, <3>1, <3>2
    <2> QED BY <2>1, <2>3
  <1>4. r \in [0 .. N -> Nat]
    BY <1>1
  <1>5. \A m \in 0 .. N : LinkedFrom(h, m) = g[m]
    <2> SUFFICES ASSUME NEW m \in 0 .. N
                 PROVE  LinkedFrom(h, m) = g[m]
      OBVIOUS
    <2> HIDE DEF g, r
    <2>1. RankedBy(h, r)
      BY <1>1, <1>2, <1>4 DEF RankedBy
    <2>2. SolvesLinks(h, g)
      BY <1>3 DEF SolvesLinks
    <2> HIDE DEF N
    <2> QED BY <1>1, <2>1, <2>2, LinkedIs DEF N
  <1>6. g[n] = 1 .. n /\ g[Upper(h, n)] = n + 1 .. N
    BY <1>1 DEF Upper
  <1> QED BY <1>1, <1>5, <1>6

-----------------------------------------------------------------------------
(* The shape of the list, and types *)

(* What a text in memory is made of.                                       *)
Chars == STRING \cup {"NUL"}

IsNode(h, k) ==
    /\ h[k] = [next |-> h[k].next, type |-> h[k].type, text |-> h[k].text, expr |-> h[k].expr]
    /\ h[k].next \in 0 .. Len(h) /\ h[k].type \in Types
    /\ h[k].text \in Seq(Chars) \ {<<>>}
    /\ h[k].expr = {} \/ \E e : h[k].expr = {e}

Nodes(h) == IsList(h) /\ \A k \in 1 .. Len(h) : IsNode(h, k)
Fresh(h) == \A k \in 1 .. Len(h) : h[k].type # "macro" /\ h[k].expr = {}

IsScratch(s) == s = [k \in 1 .. ScratchSize |-> s[k]]

(* The list is built newest first, turned round link by link, and from     *)
(* then on runs through the live nodes; a pass is at a live node, and      *)
(* Identify_Macros has left macros only behind it.                         *)
ShapeInv ==
    /\ port \in Ports /\ text \in Seq(STRING) /\ pos \in 1 .. Len(text) + 1
    /\ pc \in {"tokenize", "reverse", "hung"} \cup Passes \cup Final
    /\ head \in 0 .. Len(heap) /\ i \in 0 .. Len(heap)
    /\ Nodes(heap) /\ IsScratch(scratch)
    /\ pc = "tokenize" =>
          /\ i = 0 /\ head = Len(heap) /\ Halved(heap, Len(heap)) /\ Fresh(heap)
          /\ scratch \in [1 .. ScratchSize -> Chars]
    /\ pc = "reverse" => Halved(heap, i) /\ head = Upper(heap, i) /\ Fresh(heap)
    /\ pc \in Passes \cup {"done"} =>
          /\ InOrder(heap) /\ head = (IF Len(heap) = 0 THEN 0 ELSE 1)
          /\ i \in Live(heap) \cup {0} /\ (i = 0 <=> Len(heap) = 0)
    /\ pc = "identify" => \A m \in Macros(heap) : m < i

(* A text in memory that does not begin with its zero is not empty.        *)
LEMMA CStringFacts ==
  ASSUME NEW s \in Seq(Chars), s # << >>, s[1] # "NUL"
  PROVE  CString(s) \in Seq(Chars) \ {<<>>} /\ CString(s)[1] = s[1]
  <1>1. Len(s) \in Nat \ {0} /\ 1 \in 1 .. Len(s) + 1
    BY LenProperties, EmptySeq
  <1>2. PICK q : q = FindFrom(s, 1, {"NUL"})
    OBVIOUS
  <1>3. q \in 1 .. Len(s) + 1 /\ (AtEnd(s, q) \/ s[q] \in {"NUL"})
    BY <1>1, <1>2, FindFromFacts
  <1>4. q # 1
    BY <1>1, <1>3 DEF AtEnd
  <1>5. q - 1 \in 1 .. Len(s)
    BY <1>1, <1>3, <1>4
  <1>6. /\ SubSeq(s, 1, q - 1) \in Seq(Chars) /\ Len(SubSeq(s, 1, q - 1)) = q - 1
        /\ SubSeq(s, 1, q - 1)[1] = s[1]
    BY <1>1, <1>5, SubSeqProperties
  <1>7. SubSeq(s, 1, q - 1) # << >>
    BY <1>5, <1>6
  <1> QED BY <1>2, <1>6, <1>7 DEF CString

(* What a token leaves in the list and in the scratch area.                *)
LEMMA TokenStored ==
  ASSUME NEW s \in Seq(Chars), s # << >>, s[1] # "NUL", Len(s) < ScratchSize \/ port # "riscv64",
         scratch \in [1 .. ScratchSize -> Chars]
  PROVE  /\ CString(IF port = "riscv64" THEN Overwritten(s) ELSE s) \in Seq(Chars) \ {<<>>}
         /\ CString(IF port = "riscv64" THEN Overwritten(s) ELSE s)[1] = s[1]
         /\ ClearScratch(Overwritten(s)) \in [1 .. ScratchSize -> Chars]
  <1>1. ScratchSize \in Nat \ {0} /\ Len(s) \in Nat \ {0} /\ s \in [1 .. Len(s) -> Chars]
    BY M0Assumption, LenProperties, EmptySeq
  <1>2. "NUL" \in Chars
    BY DEF Chars
  <1>3. Overwritten(s) \in [1 .. ScratchSize -> Chars]
    BY <1>1 DEF Overwritten
  <1>4. Overwritten(s) \in Seq(Chars)
    BY <1>1, <1>3, SeqDef
  <1>5. Overwritten(s)[1] = s[1]
    BY <1>1 DEF Overwritten
  <1>6. Overwritten(s) # << >>
    <2>1. Len(Overwritten(s)) = ScratchSize
      BY <1>1, <1>3, LenOfList
    <2> QED BY <1>1, <2>1
  <1>7. ClearScratch(Overwritten(s)) \in [1 .. ScratchSize -> Chars]
    BY <1>2, <1>3 DEF ClearScratch
  <1> QED BY <1>4, <1>5, <1>6, <1>7, CStringFacts

(* The links and the kinds of the nodes make the shape.                    *)
LEMMA SameShape ==
  ASSUME NEW g, NEW h, Len(g) = Len(h),
         \A k \in 1 .. Len(h) : g[k].next = h[k].next /\ g[k].type = h[k].type
  PROVE  /\ Macros(g) = Macros(h) /\ Live(g) = Live(h)
         /\ InOrder(h) => InOrder(g)
         /\ \A k \in 1 .. Len(h) : Rest(g, k) = Rest(h, k)
  <1>1. Macros(g) = Macros(h)
    BY DEF Macros
  <1>2. \A k \in 1 .. Len(h) : Rest(g, k) = Rest(h, k) /\ Succ(g, k) = Succ(h, k)
    BY DEF Rest, Succ
  <1> QED BY <1>1, <1>2 DEF Live, Taken, InOrder

LEMMA ExprChanged ==
  \A n, b, c, d, x, e :
     n = [next |-> b, type |-> c, text |-> d, expr |-> x]
     => [n EXCEPT !.expr = e] = [next |-> b, type |-> c, text |-> d, expr |-> e]
  OBVIOUS

Edited(h, k, e) == [h EXCEPT ![k].expr = {e}]

(* A node with another expression is a node.                               *)
LEMMA NodeEdited ==
  ASSUME NEW h, Nodes(h), NEW k \in 1 .. Len(h), NEW e, NEW g, g = Edited(h, k, e)
  PROVE  /\ Nodes(g) /\ Len(g) = Len(h)
         /\ \A j \in 1 .. Len(h) : g[j] = IF j = k THEN [next |-> h[k].next, type |-> h[k].type,
                                                        text |-> h[k].text, expr |-> {e}] ELSE h[j]
  <1> DEFINE a == [next |-> h[k].next, type |-> h[k].type, text |-> h[k].text, expr |-> {e}]
  <1>1. Len(h) \in Nat /\ DOMAIN h = 1 .. Len(h) /\ IsNode(h, k)
    BY DEF Nodes, IsList
  <1>2. g = [h EXCEPT ![k].expr = {e}] /\ g = [j \in 1 .. Len(h) |-> g[j]]
    BY <1>1 DEF Edited
  <1>3. Len(g) = Len(h) /\ IsList(g)
    <2> QED BY <1>1, <1>2, LenOfList
  <1>4. [h[k] EXCEPT !.expr = {e}] = a
    <2>1. PICK n : n = h[k]
      OBVIOUS
    <2>2. n = [next |-> n.next, type |-> n.type, text |-> n.text, expr |-> n.expr]
      BY <1>1, <2>1 DEF IsNode
    <2>3. PICK b, c, d, x : n = [next |-> b, type |-> c, text |-> d, expr |-> x]
      BY <2>2
    <2>4. n.next = b /\ n.type = c /\ n.text = d
      BY <2>3
    <2>5. PICK z : z = {e}
      OBVIOUS
    <2>6. [n EXCEPT !.expr = z] = [next |-> b, type |-> c, text |-> d, expr |-> z]
      BY <2>3, ExprChanged
    <2> QED BY <2>1, <2>4, <2>5, <2>6
  <1>5. \A j \in 1 .. Len(h) : g[j] = IF j = k THEN a ELSE h[j]
    BY <1>1, <1>2, <1>4
  <1>6. \A j \in 1 .. Len(h) : IsNode(g, j)
    <2> SUFFICES ASSUME NEW j \in 1 .. Len(h)
                 PROVE  IsNode(g, j)
      OBVIOUS
    <2>1. IsNode(h, j)
      BY DEF Nodes
    <2>2. j # k => g[j] = h[j]
      BY <1>5
    <2>3. j = k => g[j] = a
      BY <1>5
    <2>4. CASE j = k
      <3>1. PICK b, c, d : b = h[k].next /\ c = h[k].type /\ d = h[k].text
        OBVIOUS
      <3>2. g[j] = [next |-> b, type |-> c, text |-> d, expr |-> {e}]
        BY <2>3, <2>4, <3>1
      <3>3. b \in 0 .. Len(g) /\ c \in Types /\ d \in Seq(Chars) \ {<<>>}
        BY <1>1, <1>3, <3>1 DEF IsNode
      <3>4. g[j].next = b /\ g[j].type = c /\ g[j].text = d /\ g[j].expr = {e}
        BY <3>2
      <3> QED BY <3>2, <3>3, <3>4 DEF IsNode
    <2>5. CASE j # k
      BY <1>3, <2>1, <2>2, <2>5 DEF IsNode
    <2> QED BY <2>4, <2>5
  <1> QED BY <1>3, <1>5, <1>6 DEF Nodes

(* A pass goes on to a live node.                                          *)
LEMMA VisitKeeps ==
  ASSUME ShapeInv, pc \in Passes, i # 0, NEW h, Visit(h), Nodes(h), Len(h) = Len(heap),
         InOrder(h), i \in Live(h), IsScratch(scratch)',
         pc = "identify" => \A m \in Macros(h) : m <= i
  PROVE  ShapeInv'
  <1>1. i \in 1 .. Len(h) /\ Len(h) \in Nat /\ head = 1 /\ heap' = h
    BY DEF ShapeInv, Nodes, IsList, Visit
  <1>2. 1 \in Live(h)
    BY <1>1 DEF Live, Taken, Macros
  <1>3. h[i].next \in Live(h) \cup {0} /\ (h[i].next # 0 => h[i].next > i)
    BY <1>1, LiveFacts
  <1>4. i' \in Live(h) /\ i' # 0 /\ i' \in 1 .. Len(h)
    BY <1>1, <1>2, <1>3 DEF Visit, Live
  <1>5. pc' \in Passes \cup {"done"} /\ (pc' = "identify" => pc = "identify" /\ i' > i)
    BY <1>3 DEF Visit, Passes, NextPass
  <1>6. pc' = "identify" => \A m \in Macros(h) : m < i'
    BY <1>1, <1>4, <1>5 DEF Macros
  <1>7. UNCHANGED <<port, text, pos, head>>
    BY DEF Visit
  <1>8. /\ port' \in Ports /\ text' \in Seq(STRING) /\ pos' \in 1 .. Len(text') + 1
    BY <1>7 DEF ShapeInv
  <1>9. pc' # "tokenize" /\ pc' # "reverse" /\ pc' \in {"tokenize", "reverse", "hung"} \cup Passes \cup Final
    BY <1>5 DEF Passes, Final
  <1>10. head' = 1 /\ head' \in 0 .. Len(h)
    BY <1>1, <1>7
  <1>11. Nodes(heap') /\ InOrder(heap') /\ Len(heap') # 0
    BY <1>1
  <1> QED BY <1>1, <1>4, <1>6, <1>8, <1>9, <1>10, <1>11 DEF ShapeInv

(* M0 starts in shape.                                                     *)
LEMMA InitShape == Init => ShapeInv
  <1> SUFFICES ASSUME Init
               PROVE  ShapeInv
    OBVIOUS
  <1>1. Len(heap) = 0 /\ IsList(heap)
    BY DEF Init, IsList
  <1>2. text \in Seq(STRING) /\ 1 \in 1 .. Len(text) + 1
    BY M0Assumption, LenProperties DEF Init
  <1>3. scratch \in [1 .. ScratchSize -> Chars] /\ IsScratch(scratch)
    BY DEF Init, Chars, IsScratch
  <1>4. Nodes(heap) /\ Fresh(heap) /\ Halved(heap, Len(heap))
    BY <1>1 DEF Nodes, Fresh, Halved
  <1> QED BY <1>1, <1>2, <1>3, <1>4 DEF Init, ShapeInv, Passes

(* A failure is no step of the list.                                       *)
LEMMA FailKeeps ==
  ASSUME ShapeInv, NEW how \in {"wild", "overrun", "hung"}, Fail(how)
  PROVE  ShapeInv'
  <1>1. UNCHANGED <<port, text, pos, heap, head, i, scratch>> /\ pc' = how
    BY DEF Fail
  <1>2. how \notin Passes \cup {"tokenize", "reverse", "done"}
    BY DEF Passes
  <1> QED BY <1>1, <1>2 DEF ShapeInv, Final

LEMMA TokenizedKeeps ==
  ASSUME ShapeInv, pc = "tokenize", Tokenized, pos' \in 1 .. Len(text) + 1
  PROVE  ShapeInv'
  <1>1. UNCHANGED <<port, text, heap, scratch>> /\ pc' = "reverse" /\ i' = head /\ head' = 0
    BY DEF Tokenized
  <1>2. Len(heap) \in Nat /\ head = Len(heap)
    BY DEF ShapeInv, Nodes, IsList
  <1>3. head' = Upper(heap, i')
    BY <1>1, <1>2 DEF Upper
  <1>4. "reverse" \notin Passes \cup {"done"}
    BY DEF Passes
  <1> QED BY <1>1, <1>2, <1>3, <1>4 DEF ShapeInv

(* A token is a new node in front of the others.                           *)
LEMMA StoreKeeps ==
  ASSUME ShapeInv, pc = "tokenize", NEW type \in {"atom", "string"},
         NEW s \in Seq(STRING), s # << >>, s[1] # "NUL", Fits(s), StoreToken(type, s),
         UNCHANGED <<port, text, pc, i, out>>, pos' \in 1 .. Len(text) + 1
  PROVE  /\ ShapeInv'
         /\ \E t \in Seq(Chars) \ {<<>>} :
               /\ t[1] = s[1] /\ t = CString(IF port = "riscv64" THEN Overwritten(s) ELSE s)
               /\ Len(heap') = Len(heap) + 1
               /\ \A k \in 1 .. Len(heap) : heap'[k] = heap[k]
               /\ heap'[Len(heap) + 1] = [next |-> Len(heap), type |-> type, text |-> t, expr |-> {}]
  <1>1. /\ head = Len(heap) /\ i = 0 /\ Nodes(heap) /\ Halved(heap, Len(heap)) /\ Fresh(heap)
        /\ scratch \in [1 .. ScratchSize -> Chars] /\ IsList(heap) /\ Len(heap) \in Nat
    BY DEF ShapeInv, Nodes, IsList
  <1>2. Len(s) < ScratchSize \/ port # "riscv64"
    BY DEF Fits
  <1>3. PICK t : t = CString(IF port = "riscv64" THEN Overwritten(s) ELSE s)
    OBVIOUS
  <1>4. t \in Seq(Chars) \ {<<>>} /\ t[1] = s[1] /\ ClearScratch(Overwritten(s)) \in [1 .. ScratchSize -> Chars]
    <2>1. s \in Seq(Chars)
      BY SeqDef DEF Chars
    <2> QED BY <1>1, <1>2, <1>3, <2>1, TokenStored
  <1> DEFINE n == Len(heap)
             d == [next |-> n, type |-> type, text |-> t, expr |-> {}]
  <1>5. heap' = Append(heap, d) /\ head' = n + 1
    BY <1>1, <1>3 DEF StoreToken, Node
  <1>6. scratch' = IF port = "riscv64" THEN ClearScratch(Overwritten(s)) ELSE scratch
    BY DEF StoreToken
  <1>7. scratch' \in [1 .. ScratchSize -> Chars]
    BY <1>1, <1>4, <1>6
  <1>8. /\ IsList(heap') /\ Len(heap') = n + 1 /\ heap'[n + 1] = d
        /\ \A k \in 1 .. n : heap'[k] = heap[k]
    <2> HIDE DEF d
    <2> QED BY <1>1, <1>5, AppendList
  <1>9. Nodes(heap')
    <2> SUFFICES ASSUME NEW k \in 1 .. n + 1
                 PROVE  IsNode(heap', k)
      BY <1>8 DEF Nodes
    <2>1. CASE k = n + 1
      <3>1. heap'[k] = d
        BY <1>8, <2>1
      <3>2. type \in Types /\ n \in 0 .. n + 1
        BY <1>1 DEF Types
      <3> QED BY <1>4, <1>8, <3>1, <3>2 DEF IsNode
    <2>2. CASE k # n + 1
      <3>1. k \in 1 .. n
        BY <1>1, <2>2
      <3>2. heap'[k] = heap[k] /\ IsNode(heap, k)
        BY <1>1, <1>8, <3>1 DEF Nodes
      <3>3. heap[k].next \in 0 .. n + 1
        BY <1>1, <3>2 DEF IsNode
      <3> QED BY <1>8, <3>2, <3>3 DEF IsNode
    <2> QED BY <2>1, <2>2
  <1>10. Halved(heap', n + 1) /\ Fresh(heap')
    <2>1. ASSUME NEW k \in 1 .. n + 1
          PROVE  heap'[k].next = k - 1 /\ heap'[k].type # "macro" /\ heap'[k].expr = {}
      <3>1. CASE k = n + 1
        <4>1. heap'[k] = d
          BY <1>8, <3>1
        <4> QED BY <1>1, <3>1, <4>1
      <3>2. CASE k # n + 1
        <4>1. k \in 1 .. n
          BY <1>1, <3>2
        <4>2. heap'[k] = heap[k]
          BY <1>8, <4>1
        <4> QED BY <1>1, <4>1, <4>2 DEF Halved, Fresh
      <3> QED BY <3>1, <3>2
    <2> QED BY <1>1, <1>8, <2>1 DEF Halved, Fresh
  <1>11. IsScratch(scratch')
    BY <1>7 DEF IsScratch
  <1>12. "tokenize" \notin Passes \cup {"done"}
    BY DEF Passes
  <1>13. ShapeInv'
    <2>1. i' = 0 /\ pc' = "tokenize" /\ port' = port /\ text' = text /\ i' \in 0 .. n + 1 /\ n + 1 \in 0 .. n + 1
      BY <1>1
    <2>2. port' \in Ports /\ text' \in Seq(STRING) /\ pos' \in 1 .. Len(text') + 1
      BY <2>1 DEF ShapeInv
    <2> HIDE DEF d
    <2> QED BY <1>5, <1>7, <1>8, <1>9, <1>10, <1>11, <1>12, <2>1, <2>2 DEF ShapeInv
  <1> QED BY <1>3, <1>4, <1>8, <1>13

(* Where a token begins and ends.                                          *)
LEMMA TokenRead ==
  ASSUME text \in Seq(STRING), pos \in 1 .. Len(text) + 1, ~AtEnd(text, pos), NEW Stop
  PROVE  LET q == FindFrom(text, pos + 1, Stop)
             s == SubSeq(text, pos, q - 1) IN
         /\ q \in pos + 1 .. Len(text) + 1 /\ (AtEnd(text, q) \/ text[q] \in Stop)
         /\ \A r \in pos + 1 .. q - 1 : text[r] \notin Stop
         /\ s \in Seq(STRING) /\ Len(s) = q - pos /\ s # << >> /\ s[1] = text[pos]
         /\ Skip(text, q, 1) \in 1 .. Len(text) + 1
         /\ q <= Len(text) => Skip(text, q, 1) = q + 1
         /\ q > Len(text) => Skip(text, q, 1) = Len(text) + 1
  <1>1. Len(text) \in Nat /\ pos + 1 \in 1 .. Len(text) + 1
    BY LenProperties DEF AtEnd
  <1>2. PICK q : q = FindFrom(text, pos + 1, Stop)
    OBVIOUS
  <1>3. /\ q \in pos + 1 .. Len(text) + 1 /\ (AtEnd(text, q) \/ text[q] \in Stop)
        /\ \A r \in pos + 1 .. q - 1 : text[r] \notin Stop
    BY <1>1, <1>2, FindFromFacts
  <1>4. pos \in 1 .. Len(text) /\ q - 1 \in pos .. Len(text)
    BY <1>1, <1>3 DEF AtEnd
  <1>5. PICK s : s = SubSeq(text, pos, q - 1)
    OBVIOUS
  <1>6. /\ s \in Seq(STRING) /\ Len(s) = (q - 1) - pos + 1
        /\ s[1] = text[pos + 1 - 1]
    <2>1. pos \in 1 .. Len(text) + 1 /\ q - 1 \in pos - 1 .. Len(text) /\ 1 \in 1 .. (q - 1 - pos + 1)
      BY <1>4
    <2> QED BY <1>5, <2>1, SubSeqProperties
  <1>7. s # << >>
    <2>1. Len(s) # 0
      BY <1>4, <1>6
    <2> QED BY <2>1
  <1>8. /\ Skip(text, q, 1) \in 1 .. Len(text) + 1
        /\ q <= Len(text) => Skip(text, q, 1) = q + 1
        /\ q > Len(text) => Skip(text, q, 1) = Len(text) + 1
    BY <1>1, <1>3 DEF Skip
  <1> QED BY <1>2, <1>3, <1>4, <1>5, <1>6, <1>7, <1>8, SMTT(30)

LEMMA TokenizeKeeps ==
  ASSUME ShapeInv, Tokenize_Line
  PROVE  ShapeInv'
  <1>1. pc = "tokenize" /\ text \in Seq(STRING) /\ pos \in 1 .. Len(text) + 1 /\ Len(text) \in Nat
    <2>1. pc = "tokenize"
      BY DEF Tokenize_Line, Tokenize_Line_Eof, Purge_LineComment, SkipTerminator, Store_String, Store_Atom
    <2> QED BY <2>1, LenProperties DEF ShapeInv
  <1>2. CASE Tokenize_Line_Eof
    <2>1. Tokenized /\ pos' = pos
      BY <1>2 DEF Tokenize_Line_Eof
    <2> QED BY <1>1, <2>1, TokenizedKeeps
  <1>3. CASE Purge_LineComment
    <2>1. PICK q : q = FindFrom(text, pos + 1, {"LF"})
      OBVIOUS
    <2>2. ~AtEnd(text, pos)
      BY <1>3 DEF Purge_LineComment
    <2>3. q \in pos + 1 .. Len(text) + 1
      BY <1>1, <2>1, <2>2, TokenRead
    <2>4. CASE ~AtEnd(text, q) /\ Restart(q + 1) /\ UNCHANGED <<heap, head, scratch>>
      <3>1. q + 1 \in 1 .. Len(text) + 1
        BY <1>1, <2>3, <2>4 DEF AtEnd
      <3>2. pos' = q + 1 /\ UNCHANGED <<port, text, pc, i, out, heap, head, scratch>>
        BY <2>4 DEF Restart
      <3> QED BY <3>1, <3>2 DEF ShapeInv
    <2>5. CASE Tokenized /\ pos' = q
      <3>1. pos' \in 1 .. Len(text) + 1
        BY <1>1, <2>3, <2>5
      <3> QED BY <1>1, <2>5, <3>1, TokenizedKeeps
    <2>6. CASE Fail("hung")
      BY <2>6, FailKeeps
    <2> QED BY <1>3, <2>1, <2>4, <2>5, <2>6 DEF Purge_LineComment
  <1>4. CASE SkipTerminator
    <2>1. pos + 1 \in 1 .. Len(text) + 1
      BY <1>1, <1>4 DEF SkipTerminator, AtEnd
    <2>2. pos' = pos + 1 /\ UNCHANGED <<port, text, pc, i, out, heap, head, scratch>>
      BY <1>4 DEF SkipTerminator, Restart
    <2> QED BY <2>1, <2>2 DEF ShapeInv
  <1>5. ASSUME NEW type \in {"atom", "string"}, NEW Stop, NEW q, q = FindFrom(text, pos + 1, Stop),
               ~AtEnd(text, pos), text[pos] # "NUL", NEW s, s = SubSeq(text, pos, q - 1),
               IF Fits(s) THEN StoreToken(type, s) /\ Restart(Skip(text, q, 1)) ELSE Fail("overrun")
        PROVE  ShapeInv'
    <2>1. s \in Seq(STRING) /\ s # << >> /\ s[1] # "NUL" /\ Skip(text, q, 1) \in 1 .. Len(text) + 1
      BY <1>1, <1>5, TokenRead
    <2>2. CASE Fits(s)
      <3>1. /\ StoreToken(type, s) /\ pos' = Skip(text, q, 1)
            /\ UNCHANGED <<port, text, pc, i, out>>
        BY <1>5, <2>2 DEF Restart
      <3> QED BY <1>1, <2>1, <2>2, <3>1, StoreKeeps
    <2>3. CASE ~Fits(s)
      BY <1>5, <2>3, FailKeeps
    <2> QED BY <2>2, <2>3
  <1>6. CASE Store_String
    <2>1. PICK q, s : q = FindFrom(text, pos + 1, {text[pos]}) /\ s = SubSeq(text, pos, q - 1)
      OBVIOUS
    <2>2. ~AtEnd(text, pos) /\ text[pos] # "NUL"
      BY <1>6 DEF Store_String, string_char
    <2>3. \/ Fail("wild")
          \/ IF Fits(s) THEN StoreToken("string", s) /\ Restart(Skip(text, q, 1)) ELSE Fail("overrun")
      BY <1>6, <2>1 DEF Store_String
    <2>4. CASE Fail("wild")
      BY <2>4, FailKeeps
    <2> QED BY <1>5, <2>1, <2>2, <2>3, <2>4
  <1>7. CASE Store_Atom
    <2>1. PICK q, s : q = FindFrom(text, pos + 1, terminators) /\ s = SubSeq(text, pos, q - 1)
      OBVIOUS
    <2>2. ~AtEnd(text, pos) /\ text[pos] # "NUL"
      BY <1>7 DEF Store_Atom, terminators
    <2>3. \/ Fail("wild")
          \/ IF Fits(s) THEN StoreToken("atom", s) /\ Restart(Skip(text, q, 1)) ELSE Fail("overrun")
      BY <1>7, <2>1 DEF Store_Atom
    <2>4. CASE Fail("wild")
      BY <2>4, FailKeeps
    <2> QED BY <1>5, <2>1, <2>2, <2>3, <2>4
  <1> QED BY <1>2, <1>3, <1>4, <1>6, <1>7 DEF Tokenize_Line

(* One link is turned round, or all are and the list is in order.          *)
LEMMA ReverseKeeps ==
  ASSUME ShapeInv, Reverse_List
  PROVE  ShapeInv'
  <1>1. /\ pc = "reverse" /\ Halved(heap, i) /\ head = Upper(heap, i) /\ Fresh(heap) /\ Nodes(heap)
        /\ UNCHANGED <<port, text, pos, scratch, out>>
    BY DEF ShapeInv, Reverse_List
  <1>2. Len(heap) \in Nat /\ DOMAIN heap = 1 .. Len(heap) /\ i \in 0 .. Len(heap) /\ head \in 0 .. Len(heap)
    BY <1>1 DEF Nodes, IsList, ShapeInv
  <1>3. CASE i # 0
    <2>1. /\ heap' = [heap EXCEPT ![i].next = head] /\ head' = i /\ i' = heap[i].next /\ pc' = pc
          /\ i \in 1 .. Len(heap)
      BY <1>2, <1>3 DEF Reverse_List
    <2>2. PICK b, c, d, x : heap[i] = [next |-> b, type |-> c, text |-> d, expr |-> x]
      <3>1. IsNode(heap, i)
        BY <1>1, <2>1 DEF Nodes
      <3>2. heap[i] = [next |-> heap[i].next, type |-> heap[i].type,
                       text |-> heap[i].text, expr |-> heap[i].expr]
        BY <3>1 DEF IsNode
      <3> QED BY <3>2
    <2> DEFINE a == [next |-> head, type |-> c, text |-> d, expr |-> x]
    <2>3. [heap[i] EXCEPT !.next = head] = a
      BY <2>2
    <2>4. PICK g : g = heap'
      OBVIOUS
    <2>5. g = [k \in 1 .. Len(heap) |-> IF k = i THEN a ELSE heap[k]]
      BY <1>2, <2>1, <2>3, <2>4
    <2>6. Len(g) = Len(heap) /\ IsList(g) /\ \A k \in 1 .. Len(heap) : g[k] = IF k = i THEN a ELSE heap[k]
      <3> HIDE DEF a
      <3>1. g = [k \in 1 .. Len(heap) |-> g[k]]
        BY <2>5
      <3> QED BY <1>2, <2>5, <3>1, LenOfList
    <2>7. i' = i - 1 /\ i' \in 0 .. Len(g)
      <3>1. heap[i].next = i - 1
        BY <1>1, <2>1 DEF Halved
      <3> QED BY <1>2, <2>1, <2>6, <3>1
    <2>8. ASSUME NEW k \in 1 .. Len(g)
          PROVE  /\ IsNode(g, k) /\ g[k].type # "macro" /\ g[k].expr = {}
                 /\ g[k].next = IF k <= i - 1 THEN k - 1 ELSE IF k = Len(g) THEN 0 ELSE k + 1
      <3>1. IsNode(heap, k) /\ heap[k].type # "macro" /\ heap[k].expr = {}
        BY <1>1, <2>6 DEF Nodes, Fresh
      <3>2. CASE k = i
        <4>1. g[k] = a /\ heap[k] = [next |-> b, type |-> c, text |-> d, expr |-> x]
          BY <2>2, <2>6, <3>2
        <4>2. g[k].next = head /\ g[k].type = c /\ g[k].text = d /\ g[k].expr = x
          BY <4>1
        <4>3. c \in Types /\ d \in Seq(Chars) \ {<<>>} /\ x = {} /\ c # "macro"
          BY <3>1, <4>1 DEF IsNode
        <4>4. IsNode(g, k)
          BY <1>2, <2>6, <4>1, <4>2, <4>3 DEF IsNode
        <4>5. head = IF i = Len(g) THEN 0 ELSE i + 1
          BY <1>1, <2>6 DEF Upper
        <4> QED BY <1>2, <3>2, <4>2, <4>3, <4>4, <4>5
      <3>3. CASE k # i
        <4>1. g[k] = heap[k]
          BY <2>6, <3>3
        <4>2. IsNode(g, k)
          BY <2>6, <3>1, <4>1 DEF IsNode
        <4>3. g[k].next = IF k <= i THEN k - 1 ELSE IF k = Len(g) THEN 0 ELSE k + 1
          BY <1>1, <2>6, <4>1 DEF Halved
        <4>4. k <= i <=> k <= i - 1
          BY <1>2, <2>6, <3>3
        <4>5. g[k].next = IF k <= i - 1 THEN k - 1 ELSE IF k = Len(g) THEN 0 ELSE k + 1
          BY <4>3, <4>4
        <4> QED BY <3>1, <4>1, <4>2, <4>5
      <3> QED BY <3>2, <3>3
    <2>9. Nodes(g) /\ Fresh(g) /\ Halved(g, i') /\ head' = Upper(g, i')
      <3>1. Nodes(g) /\ Fresh(g)
        BY <2>6, <2>8 DEF Nodes, Fresh
      <3>2. Halved(g, i - 1) /\ i' = i - 1 /\ i - 1 \in 0 .. Len(g)
        BY <1>2, <2>6, <2>7, <2>8 DEF Halved
      <3>3. head' = Upper(g, i - 1)
        BY <1>2, <2>1, <2>6 DEF Upper
      <3> QED BY <3>1, <3>2, <3>3
    <2>10. "reverse" \notin Passes \cup {"done"} /\ head' \in 0 .. Len(g)
      BY <2>1, <2>6 DEF Passes
    <2>11. port' \in Ports /\ text' \in Seq(STRING) /\ pos' \in 1 .. Len(text') + 1 /\ IsScratch(scratch') /\ pc' = "reverse"
      BY <1>1, <2>1 DEF ShapeInv
    <2> HIDE DEF a
    <2> QED BY <2>4, <2>7, <2>9, <2>10, <2>11 DEF ShapeInv
  <1>4. CASE i = 0
    <2>1. pc' = "identify" /\ i' = head /\ UNCHANGED <<heap, head>>
      BY <1>4 DEF Reverse_List
    <2>2. Macros(heap) = {}
      BY <1>1 DEF Macros, Fresh
    <2>3. \A k \in 1 .. Len(heap) : heap[k].next = Succ(heap, k)
      <3> SUFFICES ASSUME NEW k \in 1 .. Len(heap)
                   PROVE  heap[k].next = Succ(heap, k)
        OBVIOUS
      <3>1. Rest(heap, k) = k + 1
        BY <1>1 DEF Fresh, Rest
      <3>2. heap[k].next = IF k <= i THEN k - 1 ELSE IF k = Len(heap) THEN 0 ELSE k + 1
        BY <1>1 DEF Halved
      <3>3. heap[k].next = IF k = Len(heap) THEN 0 ELSE k + 1
        <4>1. ~(k <= i)
          BY <1>4
        <4> QED BY <3>2, <4>1, Zenon
      <3>4. k + 1 > Len(heap) <=> k = Len(heap)
        <4>1. \A n \in Nat : \A m \in 1 .. n : m + 1 > n <=> m = n
          OBVIOUS
        <4>2. Len(heap) \in Nat
          BY <1>2
        <4> QED BY <4>1, <4>2
      <3>5. Succ(heap, k) = IF k + 1 > Len(heap) THEN 0 ELSE k + 1
        BY <3>1 DEF Succ
      <3>6. CASE k = Len(heap)
        BY <3>3, <3>4, <3>5, <3>6, Zenon
      <3>7. CASE k # Len(heap)
        <4>1. ~(k + 1 > Len(heap))
          BY <3>4, <3>7, Zenon
        <4> QED BY <3>3, <3>5, <3>7, <4>1, Zenon
      <3> QED BY <3>6, <3>7
    <2>4. InOrder(heap)
      BY <1>2, <2>2, <2>3 DEF InOrder
    <2>5. Live(heap) = 1 .. Len(heap)
      BY <2>2 DEF Live, Taken
    <2>6. head = (IF Len(heap) = 0 THEN 0 ELSE 1) /\ head \in Live(heap) \cup {0} /\ (head = 0 <=> Len(heap) = 0)
      BY <1>1, <1>2, <1>4, <2>5 DEF Upper
    <2>7. "identify" \in Passes
      BY DEF Passes
    <2>8. port' \in Ports /\ text' \in Seq(STRING) /\ pos' \in 1 .. Len(text') + 1 /\ IsScratch(scratch')
      BY <1>1 DEF ShapeInv
    <2> QED BY <1>1, <1>2, <2>1, <2>2, <2>4, <2>6, <2>7, <2>8 DEF ShapeInv
  <1> QED BY <1>3, <1>4


(* A definition takes the two nodes behind it.                             *)
LEMMA DefinedFacts ==
  ASSUME ShapeInv, pc = "identify", i # 0, Followed(heap, i), NEW g, g = Defined(heap, i)
  PROVE  /\ i \in 1 .. Len(heap) /\ i + 2 <= Len(heap)
         /\ heap[i].next = i + 1 /\ heap[i + 1].next = i + 2
         /\ Nodes(g) /\ Len(g) = Len(heap)
         /\ \A k \in 1 .. Len(heap) : k # i => g[k] = heap[k]
         /\ g[i] = [next |-> heap[i + 2].next, type |-> "macro",
                    text |-> heap[i + 1].text, expr |-> {heap[i + 2].text}]
         /\ Macros(g) = Macros(heap) \cup {i} /\ InOrder(g) /\ i \in Live(g)
  <1> DEFINE N == Len(heap)
  <1>1. /\ Nodes(heap) /\ InOrder(heap) /\ i \in Live(heap) /\ i \in 1 .. N /\ N \in Nat
        /\ \A m \in Macros(heap) : m < i /\ m \in Nat
    <2>1. "identify" \in Passes
      BY DEF Passes
    <2> QED BY <2>1 DEF ShapeInv, Live, Nodes, IsList, Macros
  <1>2. \A k \in i .. N : k \notin Macros(heap) /\ Rest(heap, k) = k + 1
    BY <1>1 DEF Macros, Rest
  <1>3. heap[i].next = i + 1 /\ i + 1 \in Live(heap) /\ i + 1 \in 1 .. N
    BY <1>1, <1>2, LiveFacts DEF Followed, Live
  <1>4. heap[i + 1].next = i + 2 /\ i + 2 \in Live(heap) /\ i + 2 \in 1 .. N
    <2>1. heap[i + 1].next # 0 /\ Rest(heap, i + 1) = i + 2
      BY <1>1, <1>2, <1>3 DEF Followed
    <2>2. heap[i + 1].next = i + 2 /\ i + 2 \in i + 2 .. N /\ i + 2 \in Live(heap) \cup {0}
      BY <1>1, <1>3, <2>1, LiveFacts
    <2> QED BY <1>1, <2>2
  <1> DEFINE d == [next |-> heap[i + 2].next, type |-> "macro",
                   text |-> heap[i + 1].text, expr |-> {heap[i + 2].text}]
  <1>5. g = [heap EXCEPT ![i] = d]
    BY <1>3, <1>4 DEF Defined
  <1>6. DOMAIN heap = 1 .. N
    BY <1>1 DEF Nodes, IsList
  <1>7. \A k \in 1 .. N : g[k] = IF k = i THEN d ELSE heap[k]
    <2> HIDE DEF d
    <2> QED BY <1>5, <1>6
  <1>8. Len(g) = N /\ IsList(g)
    <2> HIDE DEF d
    <2>1. g = [k \in 1 .. N |-> g[k]]
      BY <1>5, <1>6
    <2> QED BY <1>1, <2>1, LenOfList
  <1>9. g[i] = d /\ \A k \in 1 .. N : k # i => g[k] = heap[k]
    <2> HIDE DEF d
    <2> QED BY <1>1, <1>7
  <1>10. IsNode(g, i)
    <2>1. PICK b, t, e : b = heap[i + 2].next /\ t = heap[i + 1].text /\ e = heap[i + 2].text
      OBVIOUS
    <2>2. g[i] = [next |-> b, type |-> "macro", text |-> t, expr |-> {e}]
      BY <1>9, <2>1
    <2>3. IsNode(heap, i + 1) /\ IsNode(heap, i + 2)
      BY <1>1, <1>3, <1>4 DEF Nodes
    <2>4. b \in 0 .. Len(g) /\ t \in Seq(Chars) \ {<<>>} /\ "macro" \in Types
      BY <1>8, <2>1, <2>3 DEF IsNode, Types
    <2>5. g[i].next = b /\ g[i].type = "macro" /\ g[i].text = t /\ g[i].expr = {e}
      BY <2>2
    <2> QED BY <2>2, <2>4, <2>5 DEF IsNode
  <1>11. Nodes(g)
    <2>1. ASSUME NEW k \in 1 .. N, k # i
          PROVE  IsNode(g, k)
      <3>1. IsNode(heap, k) /\ g[k] = heap[k]
        BY <1>1, <1>9, <2>1 DEF Nodes
      <3> QED BY <1>8, <3>1 DEF IsNode
    <2> QED BY <1>8, <1>10, <2>1 DEF Nodes
  <1>12. g[i].type = "macro" /\ g[i].next = heap[i + 2].next
    BY <1>9
  <1> HIDE DEF d
  <1>13. Macros(g) = Macros(heap) \cup {i}
    <2>1. \A k \in 1 .. N : k \in Macros(g) <=> k \in Macros(heap) \/ k = i
      BY <1>8, <1>9, <1>12 DEF Macros
    <2>2. Macros(g) \subseteq 1 .. N /\ Macros(heap) \subseteq 1 .. N
      BY <1>8 DEF Macros
    <2> QED BY <1>1, <2>1, <2>2
  <1>14. \A m \in Macros(heap) : m + 3 <= i /\ m \in 1 .. N
    BY <1>1, LiveFacts DEF Macros
  <1>15. ASSUME NEW m \in Macros(g)
         PROVE  m + 2 <= N /\ m + 1 \notin Macros(g) /\ m + 2 \notin Macros(g) /\ m + 1 # i /\ m + 2 # i
    <2>1. CASE m \in Macros(heap)
      <3>1. m + 2 <= N /\ m + 1 \notin Macros(heap) /\ m + 2 \notin Macros(heap)
        BY <1>1, <2>1 DEF InOrder
      <3> QED BY <1>1, <1>13, <1>14, <2>1, <3>1
    <2>2. CASE m = i
      BY <1>1, <1>2, <1>3, <1>4, <1>13, <2>2
    <2> QED BY <1>13, <2>1, <2>2
  <1>16. ASSUME NEW k \in 1 .. N
         PROVE  g[k].next = Succ(g, k)
    <2>1. CASE k = i
      <3>1. heap[i + 2].next = Succ(heap, i + 2) /\ Rest(heap, i + 2) = i + 3
        BY <1>1, <1>2, <1>4 DEF InOrder
      <3>2. Rest(g, i) = i + 3
        BY <1>12 DEF Rest
      <3> QED BY <1>8, <1>12, <2>1, <3>1, <3>2 DEF Succ
    <2>2. CASE k # i
      <3>1. g[k] = heap[k] /\ heap[k].next = Succ(heap, k)
        BY <1>1, <1>9, <2>2 DEF InOrder
      <3> QED BY <1>8, <3>1 DEF Succ, Rest
    <2> QED BY <2>1, <2>2
  <1>17. InOrder(g)
    BY <1>1, <1>8, <1>15, <1>16 DEF InOrder
  <1>18. i \in Live(g)
    BY <1>1, <1>8, <1>15 DEF Live, Taken
  <1> QED BY <1>1, <1>3, <1>4, <1>9, <1>11, <1>8, <1>13, <1>17, <1>18 DEF d

(* The tokens of the list from start on that are named s.                  *)
Named(h, start, s, k) == k \in LinkedFrom(h, start) /\ h[k].type # "macro" /\ h[k].text = s

(* g is h with the expression exp for these tokens.                        *)
Replaced(g, h, start, s, exp) ==
    \A k \in 1 .. Len(h) :
       /\ g[k].next = h[k].next /\ g[k].type = h[k].type /\ g[k].text = h[k].text
       /\ Named(h, start, s, k) => g[k].expr = exp
       /\ ~Named(h, start, s, k) => g[k].expr = h[k].expr

IsExpr(exp) == exp = {} \/ \E e : exp = {e}

(* The nodes of a list with other expressions are nodes.                   *)
LEMMA ExpressionsSet ==
  ASSUME NEW h, Nodes(h), NEW start, NEW s, NEW exp, IsExpr(exp),
         NEW g, g = Set_Expression(h, start, s, exp)
  PROVE  Nodes(g) /\ Len(g) = Len(h) /\ Replaced(g, h, start, s, exp)
  <1> DEFINE C(k) == Named(h, start, s, k)
  <1>1. Len(h) \in Nat /\ DOMAIN h = 1 .. Len(h)
    BY DEF Nodes, IsList
  <1>2. g = [k \in 1 .. Len(h) |-> IF C(k) THEN [h[k] EXCEPT !.expr = exp] ELSE h[k]]
    BY <1>1 DEF Set_Expression, Named
  <1> HIDE DEF C
  <1>3. Len(g) = Len(h) /\ IsList(g)
    <2>1. g = [k \in 1 .. Len(h) |-> g[k]]
      BY <1>2
    <2> QED BY <1>1, <2>1, LenOfList
  <1>4. ASSUME NEW k \in 1 .. Len(h)
        PROVE  /\ g[k].next = h[k].next /\ g[k].type = h[k].type /\ g[k].text = h[k].text
               /\ C(k) => g[k].expr = exp
               /\ ~C(k) => g[k].expr = h[k].expr
               /\ IsNode(g, k)
    <2>1. IsNode(h, k)
      BY DEF Nodes
    <2>2. g[k] = IF C(k) THEN [h[k] EXCEPT !.expr = exp] ELSE h[k]
      BY <1>2
    <2>3. CASE C(k)
      <3>1. PICK n, b, c, t, x : n = h[k] /\ b = n.next /\ c = n.type /\ t = n.text /\ x = n.expr
        OBVIOUS
      <3>2. n = [next |-> b, type |-> c, text |-> t, expr |-> x]
        BY <2>1, <3>1 DEF IsNode
      <3>3. [n EXCEPT !.expr = exp] = [next |-> b, type |-> c, text |-> t, expr |-> exp]
        BY <3>2, ExprChanged
      <3>4. g[k] = [next |-> b, type |-> c, text |-> t, expr |-> exp]
        BY <2>2, <2>3, <3>1, <3>3
      <3>5. b \in 0 .. Len(g) /\ c \in Types /\ t \in Seq(Chars) \ {<<>>}
        BY <1>3, <2>1, <3>1 DEF IsNode
      <3>6. g[k].next = b /\ g[k].type = c /\ g[k].text = t /\ g[k].expr = exp
        BY <3>4
      <3>7. IsNode(g, k)
        BY <3>4, <3>5, <3>6 DEF IsNode, IsExpr
      <3> QED BY <2>3, <3>1, <3>6, <3>7
    <2>4. CASE ~C(k)
      <3>1. g[k] = h[k]
        BY <2>2, <2>4
      <3>2. IsNode(g, k)
        BY <1>3, <2>1, <3>1 DEF IsNode
      <3> QED BY <2>4, <3>1, <3>2
    <2> QED BY <2>3, <2>4
  <1>5. Nodes(g)
    BY <1>3, <1>4 DEF Nodes
  <1> QED BY <1>3, <1>4, <1>5 DEF C, Replaced

(* A pass that gives nodes other expressions.                              *)
LEMMA ExprPassKeeps ==
  ASSUME ShapeInv, pc \in Passes \ {"identify"}, i # 0, NEW h, Visit(h), Nodes(h), Len(h) = Len(heap),
         \A k \in 1 .. Len(heap) : h[k].next = heap[k].next /\ h[k].type = heap[k].type,
         IsScratch(scratch)'
  PROVE  ShapeInv'
  <1>1. InOrder(heap) /\ i \in Live(heap)
    BY DEF ShapeInv
  <1>2. InOrder(h) /\ i \in Live(h)
    BY <1>1, SameShape
  <1> QED BY <1>2, VisitKeeps

(* A pass that gives the node it is at an expression.                      *)
LEMMA WithExprFacts ==
  ASSUME ShapeInv, pc \in Passes, i # 0, NEW e, NEW h, h = WithExpr(e)
  PROVE  /\ Nodes(h) /\ Len(h) = Len(heap) /\ i \in 1 .. Len(heap) /\ h[i].expr = {e}
         /\ \A k \in 1 .. Len(heap) : /\ h[k].next = heap[k].next /\ h[k].type = heap[k].type
                                      /\ h[k].text = heap[k].text /\ (k # i => h[k].expr = heap[k].expr)
  <1>1. Nodes(heap) /\ i \in 1 .. Len(heap)
    BY DEF ShapeInv, Live
  <1>2. h = Edited(heap, i, e)
    BY DEF WithExpr, Edited
  <1>3. /\ Nodes(h) /\ Len(h) = Len(heap)
        /\ \A j \in 1 .. Len(heap) : h[j] = IF j = i THEN [next |-> heap[i].next, type |-> heap[i].type,
                                            text |-> heap[i].text, expr |-> {e}] ELSE heap[j]
    BY <1>1, <1>2, NodeEdited
  <1>4. h[i] = [next |-> heap[i].next, type |-> heap[i].type, text |-> heap[i].text, expr |-> {e}]
    BY <1>1, <1>3
  <1>5. \A k \in 1 .. Len(heap) : k # i => h[k] = heap[k]
    BY <1>3
  <1>6. h[i].next = heap[i].next /\ h[i].type = heap[i].type /\ h[i].text = heap[i].text /\ h[i].expr = {e}
    BY <1>4
  <1> QED BY <1>1, <1>3, <1>5, <1>6

LEMMA EmptyListKeeps ==
  ASSUME ShapeInv, EmptyList
  PROVE  ShapeInv'
  <1>1. CASE port = "riscv64"
    <2>1. /\ pc' = NextPass[pc] /\ UNCHANGED <<port, text, pos, heap, head, i, scratch>> /\ pc \in Passes
      BY <1>1 DEF EmptyList
    <2>2. pc' \in Passes \cup {"done"} /\ pc' # "identify" /\ "tokenize" \notin Passes \cup {"done"}
          /\ "reverse" \notin Passes \cup {"done"} /\ "done" \in Final
      BY <2>1 DEF Passes, NextPass, Final
    <2> QED BY <2>1, <2>2 DEF ShapeInv
  <1>2. CASE Fail("wild")
    BY <1>2, FailKeeps
  <1> QED BY <1>1, <1>2 DEF EmptyList

LEMMA IdentifyKeeps ==
  ASSUME ShapeInv, Identify_Macros
  PROVE  ShapeInv'
  <1>1. /\ pc = "identify" /\ pc \in Passes /\ i # 0 /\ IsScratch(scratch)' /\ InOrder(heap)
        /\ i \in Live(heap) /\ Nodes(heap) /\ \A m \in Macros(heap) : m < i /\ m \in Nat
    <2>1. pc = "identify" /\ i # 0 /\ scratch' = scratch /\ "identify" \in Passes
      BY DEF Identify_Macros, At, Passes
    <2> QED BY <2>1 DEF ShapeInv, IsScratch, Macros
  <1>2. i \in Nat /\ \A m \in Macros(heap) : m <= i
    BY <1>1 DEF Live, Macros
  <1>3. CASE Visit(heap)
    BY <1>1, <1>2, <1>3, VisitKeeps
  <1>4. CASE Followed(heap, i) /\ Visit(Defined(heap, i))
    <2>1. PICK g : g = Defined(heap, i)
      OBVIOUS
    <2>2. /\ Nodes(g) /\ Len(g) = Len(heap) /\ Macros(g) = Macros(heap) \cup {i} /\ InOrder(g) /\ i \in Live(g)
      BY <1>1, <1>4, <2>1, DefinedFacts
    <2>3. \A m \in Macros(g) : m <= i
      BY <1>2, <2>2
    <2> QED BY <1>1, <1>4, <2>1, <2>2, <2>3, VisitKeeps
  <1>5. CASE Fail("wild")
    BY <1>5, FailKeeps
  <1> QED BY <1>3, <1>4, <1>5 DEF Identify_Macros

LEMMA LineKeeps ==
  ASSUME ShapeInv, Line_Macro
  PROVE  ShapeInv'
  <1>1. pc = "line" /\ pc \in Passes \ {"identify"} /\ i # 0 /\ IsScratch(scratch)' /\ Nodes(heap)
        /\ i \in 1 .. Len(heap)
    <2>1. pc = "line" /\ i # 0 /\ scratch' = scratch /\ "line" \in Passes
      BY DEF Line_Macro, At, Passes
    <2> QED BY <2>1 DEF ShapeInv, IsScratch, Live
  <1>2. CASE Visit(heap)
    BY <1>1, <1>2, ExprPassKeeps
  <1>3. CASE Visit(Set_Expression(heap, heap[i].next, heap[i].text, heap[i].expr))
    <2>1. PICK g, n, s, x : /\ g = Set_Expression(heap, n, s, x)
                            /\ n = heap[i].next /\ s = heap[i].text /\ x = heap[i].expr
      OBVIOUS
    <2>2. IsExpr(x) /\ Nodes(heap)
      BY <1>1, <2>1 DEF Nodes, IsNode, IsExpr
    <2>3. /\ Nodes(g) /\ Len(g) = Len(heap)
          /\ \A k \in 1 .. Len(heap) : g[k].next = heap[k].next /\ g[k].type = heap[k].type
      <3>1. Nodes(g) /\ Len(g) = Len(heap) /\ Replaced(g, heap, n, s, x)
        BY <2>1, <2>2, ExpressionsSet
      <3> QED BY <3>1 DEF Replaced
    <2>5. Visit(g)
      BY <1>3, <2>1
    <2> QED BY <1>1, <2>3, <2>5, ExprPassKeeps
  <1>4. CASE Fail("wild")
    BY <1>4, FailKeeps
  <1> QED BY <1>2, <1>3, <1>4 DEF Line_Macro

(* A pass that leaves a node alone or gives it an expression.              *)
LEMMA ExprStepKeeps ==
  ASSUME ShapeInv, pc \in Passes \ {"identify"}, i # 0, IsScratch(scratch)',
         Visit(heap) \/ \E e : Visit(WithExpr(e))
  PROVE  ShapeInv'
  <1>1. Nodes(heap)
    BY DEF ShapeInv
  <1>2. CASE Visit(heap)
    BY <1>1, <1>2, ExprPassKeeps
  <1>3. ASSUME NEW e, Visit(WithExpr(e))
        PROVE  ShapeInv'
    <2>1. PICK h : h = WithExpr(e)
      OBVIOUS
    <2>2. /\ Nodes(h) /\ Len(h) = Len(heap)
          /\ \A k \in 1 .. Len(heap) : h[k].next = heap[k].next /\ h[k].type = heap[k].type
      BY <2>1, WithExprFacts
    <2>3. Visit(h)
      BY <1>3, <2>1
    <2> QED BY <2>2, <2>3, ExprPassKeeps
  <1> QED BY <1>2, <1>3

LEMMA StringKeeps ==
  ASSUME ShapeInv, Process_String
  PROVE  ShapeInv'
  <1>1. pc \in Passes \ {"identify"} /\ i # 0 /\ IsScratch(scratch)
    BY DEF Process_String, At, Passes, ShapeInv
  <1>2. CASE scratch' = scratch /\ (Visit(heap) \/ \E e : Visit(WithExpr(e)))
    BY <1>1, <1>2, ExprStepKeeps DEF IsScratch
  <1>3. PICK digits : digits = HexString(port, Tail(heap[i].text))
    OBVIOUS
  <1>4. CASE /\ Visit(WithExpr(digits))
             /\ scratch' = IF port = "riscv64"
                           THEN ClearScratch(Overwritten(digits \o <<"NUL">>)) ELSE scratch
    <2>1. IsScratch(scratch)'
      <3>1. PICK s : s = scratch'
        OBVIOUS
      <3>2. s = [k \in 1 .. ScratchSize |-> s[k]]
        BY <1>1, <1>4, <3>1 DEF IsScratch, ClearScratch
      <3> QED BY <3>1, <3>2 DEF IsScratch
    <2> QED BY <1>1, <1>4, <2>1, ExprStepKeeps
  <1>5. CASE Fail("overrun")
    BY <1>5, FailKeeps
  <1> QED BY <1>2, <1>3, <1>4, <1>5 DEF Process_String

LEMMA LaterPassesKeep ==
  ASSUME ShapeInv, Eval_Immediates \/ Preserve_Other \/ Print_Hex
  PROVE  ShapeInv'
  <1>1. pc \in Passes \ {"identify"} /\ i # 0 /\ IsScratch(scratch)'
    BY DEF Eval_Immediates, Preserve_Other, Print_Hex, At, Passes, ShapeInv, IsScratch
  <1>2. CASE Eval_Immediates
    <2>1. Visit(heap) \/ (\E e : Visit(WithExpr(e))) \/ Fail("overrun")
      <3>1. CASE Visit(heap)
        BY <3>1
      <3>2. ASSUME NEW v, Visit(IF IsNumber(heap[i].text, v)
                                THEN WithExpr(express_number(port, v, heap[i].text[1])) ELSE heap)
            PROVE  Visit(heap) \/ \E e : Visit(WithExpr(e))
        BY <3>2
      <3> QED BY <1>2, <3>1, <3>2 DEF Eval_Immediates
    <2>2. CASE Fail("overrun")
      BY <2>2, FailKeeps
    <2> QED BY <1>1, <2>1, <2>2, ExprStepKeeps
  <1>3. CASE Preserve_Other
    <2>1. Visit(heap) \/ \E e : Visit(WithExpr(e))
      BY <1>3 DEF Preserve_Other
    <2> QED BY <1>1, <2>1, ExprStepKeeps
  <1>4. CASE Print_Hex
    BY <1>1, <1>4, ExprStepKeeps DEF Print_Hex
  <1> QED BY <1>2, <1>3, <1>4

LEMMA StepShape == ShapeInv /\ [Next]_vars => ShapeInv'
  <1> SUFFICES ASSUME ShapeInv, [Next]_vars
               PROVE  ShapeInv'
    OBVIOUS
  <1>1. CASE UNCHANGED vars
    BY <1>1 DEF vars, ShapeInv
  <1>2. CASE Tokenize_Line
    BY <1>2, TokenizeKeeps
  <1>3. CASE Reverse_List
    BY <1>3, ReverseKeeps
  <1>4. CASE EmptyList
    BY <1>4, EmptyListKeeps
  <1>5. CASE Identify_Macros
    BY <1>5, IdentifyKeeps
  <1>6. CASE Line_Macro
    BY <1>6, LineKeeps
  <1>7. CASE Process_String
    BY <1>7, StringKeeps
  <1>8. CASE Eval_Immediates \/ Preserve_Other \/ Print_Hex
    BY <1>8, LaterPassesKeep
  <1> QED BY <1>1, <1>2, <1>3, <1>4, <1>5, <1>6, <1>7, <1>8 DEF Next

(* The variables keep their types, and every pointer is NULL or a node     *)
(* that exists, on every text, well formed or not.                         *)
THEOREM TypeOKTheorem == Spec => []TypeOK
  <1>1. ShapeInv => TypeOK
    <2> SUFFICES ASSUME ShapeInv
                 PROVE  TypeOK
      OBVIOUS
    <2>1. DOMAIN heap = 1 .. Len(heap) /\ \A k \in 1 .. Len(heap) : IsNode(heap, k)
      BY DEF ShapeInv, Nodes, IsList
    <2>2. ASSUME NEW k \in DOMAIN heap
          PROVE  /\ heap[k].next \in 0 .. Len(heap) /\ heap[k].type \in Types
                 /\ heap[k].text # <<>> /\ Cardinality(heap[k].expr) <= 1
      <3>1. IsNode(heap, k)
        BY <2>1
      <3>2. Cardinality({}) = 0 /\ \A e : Cardinality({e}) = 1
        BY FS_EmptySet, FS_Singleton
      <3>3. PICK x : x = heap[k].expr
        OBVIOUS
      <3>4. x = {} \/ \E e : x = {e}
        BY <3>1, <3>3 DEF IsNode
      <3>5. Cardinality(x) = 0 \/ Cardinality(x) = 1
        BY <3>2, <3>4, Zenon
      <3> QED BY <3>1, <3>3, <3>5 DEF IsNode
    <2>3. Len(scratch) = ScratchSize
      BY M0Assumption, LenOfList DEF ShapeInv, IsScratch
    <2> QED BY <2>2, <2>3 DEF ShapeInv, TypeOK
  <1> QED BY <1>1, InitShape, StepShape, PTL DEF Spec

(* No node is lost or reached twice, while the list is turned round and    *)
(* after, whatever a pass does to the links.                               *)
THEOREM ListWholeTheorem == Spec => []ListWhole
  <1>1. ShapeInv => ListWhole
    <2> SUFFICES ASSUME ShapeInv
                 PROVE  ListWhole
      OBVIOUS
    <2>1. DOMAIN heap = 1 .. Len(heap) /\ Len(heap) \in Nat
      BY DEF ShapeInv, Nodes, IsList
    <2>2. ASSUME pc = "reverse"
          PROVE  /\ LinkedFrom(heap, head) \cup LinkedFrom(heap, i) = DOMAIN heap
                 /\ LinkedFrom(heap, head) \cap LinkedFrom(heap, i) = {}
      <3>1. Halved(heap, i) /\ head = Upper(heap, i) /\ i \in 0 .. Len(heap)
        BY <2>2 DEF ShapeInv
      <3>2. LinkedFrom(heap, i) = 1 .. i /\ LinkedFrom(heap, head) = i + 1 .. Len(heap)
        BY <3>1, LinkedHalved
      <3> QED BY <2>1, <3>1, <3>2
    <2>3. ASSUME pc \in Passes \cup {"done"}, NEW macros, macros = {k \in DOMAIN heap : heap[k].type = "macro"}
          PROVE  /\ LinkedFrom(heap, head) = DOMAIN heap \ UNION {{k + 1, k + 2} : k \in macros}
                 /\ \A k \in LinkedFrom(heap, head) : heap[k].next = 0 \/ heap[k].next > k
      <3>1. /\ InOrder(heap) /\ head = (IF Len(heap) = 0 THEN 0 ELSE 1)
            /\ i \in Live(heap) \cup {0} /\ (i = 0 <=> Len(heap) = 0)
        BY <2>3 DEF ShapeInv
      <3>2. macros = Macros(heap)
        BY <2>1, <2>3 DEF Macros
      <3>3. Live(heap) = DOMAIN heap \ UNION {{k + 1, k + 2} : k \in macros}
        BY <2>1, <3>2 DEF Live, Taken
      <3>4. \A k \in Live(heap) : k \in 1 .. Len(heap)
        BY DEF Live
      <3>5. LinkedFrom(heap, head) = Live(heap)
        <4>1. CASE Len(heap) = 0
          <5>1. LinkedFrom(heap, 0) = {}
            BY <3>1, LinkedInOrder
          <5> QED BY <3>1, <3>4, <4>1, <5>1
        <4>2. CASE Len(heap) # 0
          <5>1. 1 \in Live(heap)
            BY <2>1, <4>2 DEF Live, Taken, Macros
          <5>2. LinkedFrom(heap, 1) = {j \in Live(heap) : j >= 1}
            BY <3>1, <5>1, LinkedInOrder
          <5>3. \A k \in Live(heap) : k >= 1
            BY <3>4
          <5>4. {j \in Live(heap) : j >= 1} = Live(heap)
            BY <5>3
          <5> QED BY <3>1, <4>2, <5>2, <5>4
        <4> QED BY <4>1, <4>2
      <3>6. ASSUME NEW k \in Live(heap)
            PROVE  heap[k].next = 0 \/ heap[k].next > k
        BY <3>1, <3>4, LiveFacts
      <3> QED BY <3>3, <3>5, <3>6
    <2> QED BY <2>2, <2>3 DEF ListWhole
  <1> QED BY <1>1, InitShape, StepShape, PTL DEF Spec

-----------------------------------------------------------------------------
(* Reading the text from left to right *)

Words == Seq(Chars) \ {<<>>}
Lex(m, t, ts) == [mode |-> m, token |-> t, tokens |-> ts]

Modes == {"gap", "comment", "atom"} \cup string_char
Lexes == {x \in [mode : Modes, token : Seq(Chars), tokens : Seq(Words)] :
             x.token = <<>> <=> x.mode \in {"gap", "comment"}}

Fed(m, t, ts, c) ==
    IF m = "comment" THEN Lex(IF c = "LF" THEN "gap" ELSE m, t, ts)
    ELSE IF m = "atom" THEN IF c \in terminators THEN Lex("gap", <<>>, Append(ts, t))
                            ELSE Lex(m, Append(t, c), ts)
    ELSE IF m \in string_char THEN IF c = m THEN Lex("gap", <<>>, Append(ts, t))
                                   ELSE Lex(m, Append(t, c), ts)
    ELSE IF c \in comments THEN Lex("comment", t, ts)
    ELSE IF c \in terminators THEN Lex("gap", t, ts)
    ELSE Lex(IF c \in string_char THEN c ELSE "atom", Append(t, c), ts)

LEMMA FeedIs ==
  ASSUME NEW m \in Modes, NEW t, NEW ts, NEW c
  PROVE  Feed(Lex(m, t, ts), c) = Fed(m, t, ts, c)
  <1>1. PICK lex : lex = Lex(m, t, ts)
    OBVIOUS
  <1>2. lex.mode = m /\ lex.token = t /\ lex.tokens = ts
    BY <1>1 DEF Lex
  <1>3. \A e : [lex EXCEPT !.mode = e] = Lex(e, t, ts)
    BY <1>1 DEF Lex
  <1>4. PICK a, b : a = Append(t, c) /\ b = Append(ts, t)
    OBVIOUS
  <1>5. [lex EXCEPT !.token = a] = Lex(m, a, ts)
    BY <1>1 DEF Lex
  <1>6. \A e : [[lex EXCEPT !.token = a] EXCEPT !.mode = e] = Lex(e, a, ts)
    <2>1. PICK y : y = [lex EXCEPT !.token = a]
      OBVIOUS
    <2>2. y = Lex(m, a, ts)
      BY <1>5, <2>1
    <2>3. \A e : [y EXCEPT !.mode = e] = Lex(e, a, ts)
      BY <2>2 DEF Lex
    <2> QED BY <2>1, <2>3
  <1>7. [lex EXCEPT !.token = Append(@, c)] = [lex EXCEPT !.token = a]
    BY <1>2, <1>4
  <1>8. CASE m = "comment"
    <2>1. Feed(lex, c) = IF c = "LF" THEN [lex EXCEPT !.mode = "gap"] ELSE lex
      BY <1>2, <1>8 DEF Feed
    <2>2. Fed(m, t, ts, c) = Lex(IF c = "LF" THEN "gap" ELSE m, t, ts)
      BY <1>8, Zenon DEF Fed
    <2>3. CASE c = "LF"
      BY <1>1, <1>3, <2>1, <2>2, <2>3, Zenon
    <2>4. CASE c # "LF"
      BY <1>1, <2>1, <2>2, <2>4, Zenon
    <2> QED BY <2>3, <2>4
  <1>9. CASE m = "atom"
    <2>1. Feed(lex, c) = IF c \in {"LF", "SP", "TAB", "NUL"}
                         THEN [mode |-> "gap", token |-> <<>>, tokens |-> b]
                         ELSE [lex EXCEPT !.token = a]
      BY <1>2, <1>4, <1>7, <1>9 DEF Feed
    <2>2. Fed(m, t, ts, c) = IF c \in terminators THEN Lex("gap", <<>>, b) ELSE Lex(m, a, ts)
      <3>1. m # "comment"
        BY <1>9
      <3> QED BY <1>4, <1>9, <3>1, Zenon DEF Fed
    <2>3. c \in {"LF", "SP", "TAB", "NUL"} <=> c \in terminators
      BY DEF terminators
    <2>4. [mode |-> "gap", token |-> <<>>, tokens |-> b] = Lex("gap", <<>>, b)
      BY DEF Lex
    <2>5. CASE c \in terminators
      BY <1>1, <2>1, <2>2, <2>3, <2>4, <2>5, Zenon
    <2>6. CASE c \notin terminators
      BY <1>1, <1>5, <2>1, <2>2, <2>3, <2>6, Zenon
    <2> QED BY <2>5, <2>6
  <1>10. CASE m \in string_char
    <2>1. m # "comment" /\ m # "atom"
      BY <1>10 DEF string_char
    <2>2. Feed(lex, c) = IF c = m THEN [mode |-> "gap", token |-> <<>>, tokens |-> b]
                         ELSE [lex EXCEPT !.token = a]
      BY <1>2, <1>4, <1>7, <1>10, <2>1 DEF Feed, string_char
    <2>3. Fed(m, t, ts, c) = IF c = m THEN Lex("gap", <<>>, b) ELSE Lex(m, a, ts)
      BY <1>4, <1>10, <2>1, Zenon DEF Fed
    <2>4. [mode |-> "gap", token |-> <<>>, tokens |-> b] = Lex("gap", <<>>, b)
      BY DEF Lex
    <2>5. CASE c = m
      BY <1>1, <2>2, <2>3, <2>4, <2>5, Zenon
    <2>6. CASE c # m
      BY <1>1, <1>5, <2>2, <2>3, <2>6, Zenon
    <2> QED BY <2>5, <2>6
  <1>11. CASE m = "gap"
    <2>1. PICK e : e = IF c \in string_char THEN c ELSE "atom"
      OBVIOUS
    <2>2. Feed(lex, c) = IF c \in comments THEN [lex EXCEPT !.mode = "comment"]
                         ELSE IF c \in terminators THEN lex
                         ELSE [[lex EXCEPT !.token = a] EXCEPT !.mode = e]
      <3>1. Feed(lex, c) = IF c \in {"#", ";", "NUL"} THEN [lex EXCEPT !.mode = "comment"]
                           ELSE IF c \in {"LF", "SP", "TAB", "NUL"} THEN lex
                           ELSE [[lex EXCEPT !.token = a] EXCEPT !.mode = IF c \in {"\"", "'"} THEN c ELSE "atom"]
        BY <1>2, <1>4, <1>7, <1>11 DEF Feed
      <3>2. terminators = {"LF", "SP", "TAB", "NUL"}
        BY DEF terminators
      <3> QED BY <2>1, <3>1, <3>2, Zenon DEF comments, string_char
    <2>3. m # "comment" /\ m # "atom" /\ m \notin string_char
      BY <1>11 DEF string_char
    <2>4. Fed(m, t, ts, c) = IF c \in comments THEN Lex("comment", t, ts)
                             ELSE IF c \in terminators THEN Lex("gap", t, ts) ELSE Lex(e, a, ts)
      BY <1>4, <2>1, <2>3, Zenon DEF Fed
    <2>5. CASE c \in comments
      BY <1>1, <1>3, <2>2, <2>4, <2>5, Zenon
    <2>6. CASE c \notin comments /\ c \in terminators
      BY <1>1, <1>11, <2>2, <2>4, <2>6, Zenon
    <2>7. CASE c \notin comments /\ c \notin terminators
      BY <1>1, <1>6, <2>2, <2>4, <2>7, Zenon
    <2> QED BY <2>5, <2>6, <2>7
  <1> QED BY <1>8, <1>9, <1>10, <1>11 DEF Modes

LEMMA LexIs ==
  ASSUME NEW x \in Lexes
  PROVE  /\ x = Lex(x.mode, x.token, x.tokens) /\ x.mode \in Modes
         /\ x.token \in Seq(Chars) /\ x.tokens \in Seq(Words)
         /\ x.token = <<>> <=> x.mode \in {"gap", "comment"}
  BY DEF Lexes, Lex

LEMMA LexIn ==
  ASSUME NEW m \in Modes, NEW t \in Seq(Chars), NEW ts \in Seq(Words), t = <<>> <=> m \in {"gap", "comment"}
  PROVE  Lex(m, t, ts) \in Lexes
  BY DEF Lexes, Lex

LEMMA FeedKeeps ==
  ASSUME NEW x \in Lexes, NEW c \in STRING
  PROVE  Feed(x, c) \in Lexes
  <1>1. PICK m, t, ts : m = x.mode /\ t = x.token /\ ts = x.tokens
    OBVIOUS
  <1>2. /\ x = Lex(m, t, ts) /\ m \in Modes /\ t \in Seq(Chars) /\ ts \in Seq(Words)
        /\ t = <<>> <=> m \in {"gap", "comment"}
    BY <1>1, LexIs
  <1>3. PICK a, b : a = Append(t, c) /\ b = Append(ts, t)
    OBVIOUS
  <1>4. a \in Seq(Chars) /\ a # << >>
    <2>1. c \in Chars
      BY DEF Chars
    <2>2. Len(a) # 0
      BY <1>2, <1>3, <2>1, AppendProperties, LenProperties
    <2> QED BY <1>2, <1>3, <2>1, <2>2, AppendProperties
  <1>5. t # <<>> => b \in Seq(Words)
    BY <1>2, <1>3, AppendProperties DEF Words
  <1>6. <<>> \in Seq(Chars)
    OBVIOUS
  <1>7. CASE m = "comment"
    <2>1. Feed(x, c) = Lex(IF c = "LF" THEN "gap" ELSE m, t, ts)
      BY <1>2, <1>7, FeedIs DEF Fed
    <2>2. PICK e : e = IF c = "LF" THEN "gap" ELSE m
      OBVIOUS
    <2>3. e \in Modes /\ e \in {"gap", "comment"}
      BY <1>2, <1>7, <2>2 DEF Modes
    <2> QED BY <1>2, <1>7, <2>1, <2>2, <2>3, LexIn
  <1>8. CASE m = "atom" \/ m \in string_char
    <2>1. Feed(x, c) = Lex("gap", <<>>, b) \/ Feed(x, c) = Lex(m, a, ts)
      <3>1. Feed(x, c) = Fed(m, t, ts, c)
        BY <1>2, FeedIs
      <3>2. m # "comment" /\ (m = "atom" \/ (m # "atom" /\ m \in string_char))
        BY <1>8 DEF string_char
      <3>3. Fed(m, t, ts, c) = Lex("gap", <<>>, b) \/ Fed(m, t, ts, c) = Lex(m, a, ts)
        BY <1>3, <3>2, Zenon DEF Fed
      <3> QED BY <3>1, <3>3
    <2>2. t # <<>> /\ "gap" \in Modes /\ m \notin {"gap", "comment"}
      BY <1>2, <1>8 DEF Modes, string_char
    <2>3. Lex("gap", <<>>, b) \in Lexes
      BY <1>5, <1>6, <2>2, LexIn
    <2>4. Lex(m, a, ts) \in Lexes
      BY <1>2, <1>4, <2>2, LexIn
    <2> QED BY <2>1, <2>3, <2>4
  <1>9. CASE m = "gap"
    <2>1. PICK e : e = IF c \in string_char THEN c ELSE "atom"
      OBVIOUS
    <2>2. Feed(x, c) = Lex("comment", t, ts) \/ Feed(x, c) = Lex("gap", t, ts) \/ Feed(x, c) = Lex(e, a, ts)
      <3>1. Feed(x, c) = Fed(m, t, ts, c)
        BY <1>2, FeedIs
      <3>2. m # "comment" /\ m # "atom" /\ m \notin string_char
        BY <1>9 DEF string_char
      <3>3. Fed(m, t, ts, c) = IF c \in comments THEN Lex("comment", t, ts)
                               ELSE IF c \in terminators THEN Lex("gap", t, ts) ELSE Lex(e, a, ts)
        BY <1>3, <2>1, <3>2, Zenon DEF Fed
      <3> QED BY <3>1, <3>3, Zenon
    <2>3. e \in Modes /\ e \notin {"gap", "comment"} /\ "comment" \in Modes /\ "gap" \in Modes
      BY <2>1 DEF Modes, string_char
    <2>4. Lex("comment", t, ts) \in Lexes /\ Lex("gap", t, ts) \in Lexes
      BY <1>2, <1>9, <2>3, LexIn
    <2>5. Lex(e, a, ts) \in Lexes
      BY <1>2, <1>4, <2>3, LexIn
    <2> QED BY <2>2, <2>4, <2>5
  <1> QED BY <1>2, <1>7, <1>8, <1>9 DEF Modes

(* The states of the reading, one behind each character.                   *)
Lexing(s) == CHOOSE f : f = [k \in 0 .. Len(s) |-> IF k = 0 THEN Lex("gap", <<>>, <<>>)
                                                   ELSE Feed(f[k - 1], s[k])]

LEMMA LexingIs ==
  ASSUME NEW s \in Seq(STRING), NEW x, x = Lexing(s)
  PROVE  /\ x[0] = Lex("gap", <<>>, <<>>) /\ Scan(s) = x[Len(s)]
         /\ \A k \in 1 .. Len(s) : x[k] = Feed(x[k - 1], s[k])
         /\ \A k \in 0 .. Len(s) : x[k] \in Lexes
  <1>0. PICK n, first : n = Len(s) /\ first = Lex("gap", <<>>, <<>>)
    OBVIOUS
  <1> DEFINE V == [k \in 0 .. n |-> Lexes]
             F == [e \in (1 .. n) \X Lexes |-> Feed(e[2], s[e[1]])]
             Is(f) == f = [k \in 0 .. n |-> IF k = 0 THEN first ELSE Feed(f[k - 1], s[k])]
  <1>1. n \in Nat /\ \A k \in 1 .. n : s[k] \in STRING
    BY <1>0, LenProperties
  <1>2. first \in Lexes
    <2>1. "gap" \in Modes /\ <<>> \in Seq(Chars) /\ <<>> \in Seq(Words)
      BY DEF Modes
    <2> QED BY <1>0, <2>1, LexIn
  <1>3. \A k \in 1 .. n : \A v \in Lexes : F[<<k, v>>] = Feed(v, s[k]) /\ Feed(v, s[k]) \in Lexes
    BY <1>1, FeedKeeps
  <1>4. first \in V[0] /\ \A k \in 1 .. n : V[k - 1] = Lexes /\ V[k] = Lexes
    BY <1>1, <1>2
  <1>5. PICK f : /\ Recurs(f, n, first, F)
                 /\ \A k \in 0 .. n : f[k] \in V[k]
    <2> HIDE DEF V, F
    <2>1. \A k \in 1 .. n : \A v \in V[k - 1] : F[<<k, v>>] \in V[k]
      BY <1>3, <1>4
    <2> QED BY <1>1, <1>4, <2>1, Recursion
  <1>6. \A k \in 0 .. n : f[k] \in Lexes
    BY <1>5
  <1>7. \A k \in 1 .. n : F[<<k, f[k - 1]>>] = Feed(f[k - 1], s[k])
    <2> HIDE DEF F
    <2>1. \A k \in 1 .. n : k - 1 \in 0 .. n
      BY <1>1
    <2> QED BY <1>3, <1>6, <2>1
  <1>8. Is(f)
    <2>1. \A k \in 0 .. n : (IF k = 0 THEN first ELSE F[<<k, f[k - 1]>>])
                             = (IF k = 0 THEN first ELSE Feed(f[k - 1], s[k]))
      <3> HIDE DEF F
      <3>1. \A k \in 0 .. n : k = 0 \/ k \in 1 .. n
        BY <1>1
      <3> QED BY <1>7, <3>1
    <2> HIDE DEF F
    <2> QED BY <1>5, <2>1 DEF Recurs
  <1>9. Is(x)
    BY <1>0, <1>8 DEF Lexing
  <1>10. x[0] = first /\ \A k \in 1 .. n : x[k] = Feed(x[k - 1], s[k])
    <2> QED BY <1>1, <1>9
  <1>11. \A k \in 0 .. n : x[k] \in Lexes
    <2> DEFINE S == {k \in 0 .. n : x[k] \in Lexes}
    <2>1. 0 \in S
      BY <1>1, <1>2, <1>10
    <2>2. ASSUME NEW k \in 0 .. n - 1, k \in S
          PROVE  k + 1 \in S
      <3>1. k + 1 \in 1 .. n /\ (k + 1) - 1 = k /\ x[k] \in Lexes
        BY <1>1, <2>2
      <3>2. x[k + 1] = Feed(x[k], s[k + 1]) /\ s[k + 1] \in STRING
        BY <1>1, <1>10, <3>1
      <3>3. x[k + 1] \in Lexes
        BY <3>1, <3>2, FeedKeeps
      <3> QED BY <1>1, <3>1, <3>3
    <2>3. 0 .. n \subseteq S
      <3> HIDE DEF S
      <3> QED BY <1>1, <2>1, <2>2, Induction
    <2> QED BY <2>3
  <1>12. Scan(s) = x[n]
    BY <1>0 DEF Scan, Lexing, Lex
  <1> QED BY <1>0, <1>10, <1>11, <1>12

(* s is the beginning of t.                                                *)
Begins(s, t) == Len(s) \in Nat /\ Len(t) \in Nat /\ Len(s) <= Len(t) /\ \A k \in 1 .. Len(s) : s[k] = t[k]

LEMMA BeginsTrans ==
  ASSUME NEW s, NEW t, NEW u, Begins(s, t), Begins(t, u)
  PROVE  Begins(s, u)
  BY DEF Begins

LEMMA BeginsAppend ==
  ASSUME NEW S, NEW s \in Seq(S), NEW x \in S
  PROVE  Begins(s, s) /\ Begins(s, Append(s, x)) /\ Append(s, x)[Len(s) + 1] = x /\ Append(s, x) \in Seq(S)
         /\ Len(Append(s, x)) = Len(s) + 1
  BY LenProperties, AppendProperties DEF Begins

LEMMA FeedGrows ==
  ASSUME NEW x \in Lexes, NEW c \in STRING
  PROVE  Begins(x.tokens, Feed(x, c).tokens)
  <1>1. PICK m, t, ts : m = x.mode /\ t = x.token /\ ts = x.tokens
    OBVIOUS
  <1>2. /\ x = Lex(m, t, ts) /\ m \in Modes /\ t \in Seq(Chars) /\ ts \in Seq(Words)
        /\ t = <<>> <=> m \in {"gap", "comment"}
    BY <1>1, LexIs
  <1>3. Begins(ts, ts) /\ (t # <<>> => Begins(ts, Append(ts, t)))
    <2>1. Begins(ts, ts)
      BY <1>2, LenProperties DEF Begins
    <2>2. t # <<>> => t \in Words
      BY <1>2 DEF Words
    <2> QED BY <1>2, <2>1, <2>2, BeginsAppend
  <1>4. Feed(x, c) = Fed(m, t, ts, c)
    BY <1>2, FeedIs
  <1>5. \A a, b, d : Lex(a, b, d).tokens = d
    BY DEF Lex
  <1>6. Fed(m, t, ts, c).tokens = ts \/ (Fed(m, t, ts, c).tokens = Append(ts, t) /\ t # <<>>)
    <2>1. CASE m = "comment" \/ m = "gap"
      <3>1. CASE m = "comment"
        <4>1. Fed(m, t, ts, c) = Lex(IF c = "LF" THEN "gap" ELSE m, t, ts)
          BY <3>1, Zenon DEF Fed
        <4> QED BY <1>5, <4>1
      <3>2. CASE m = "gap"
        <4>1. m # "comment" /\ m # "atom" /\ m \notin string_char
          BY <3>2 DEF string_char
        <4>2. PICK e, a : e = (IF c \in string_char THEN c ELSE "atom") /\ a = Append(t, c)
          OBVIOUS
        <4>3. Fed(m, t, ts, c) = IF c \in comments THEN Lex("comment", t, ts)
                                 ELSE IF c \in terminators THEN Lex("gap", t, ts) ELSE Lex(e, a, ts)
          BY <4>1, <4>2, Zenon DEF Fed
        <4>4. Fed(m, t, ts, c) = Lex("comment", t, ts) \/ Fed(m, t, ts, c) = Lex("gap", t, ts)
              \/ Fed(m, t, ts, c) = Lex(e, a, ts)
          BY <4>3, Zenon
        <4> QED BY <1>5, <4>4
      <3> QED BY <2>1, <3>1, <3>2
    <2>2. CASE m = "atom" \/ m \in string_char
      <3>1. m # "comment" /\ (m = "atom" \/ (m # "atom" /\ m \in string_char)) /\ t # <<>>
        BY <1>2, <2>2 DEF string_char
      <3> QED BY <1>5, <3>1, Zenon DEF Fed
    <2> QED BY <1>2, <2>1, <2>2 DEF Modes
  <1> QED BY <1>1, <1>3, <1>4, <1>6

(* The tokens read so far are the first of all the tokens.                 *)
LEMMA TokensGrow ==
  ASSUME NEW s \in Seq(STRING), NEW x, x = Lexing(s), NEW T, T = TokensOf(Scan(s))
  PROVE  /\ T \in Seq(Words)
         /\ \A k \in 0 .. Len(s) : Begins(x[k].tokens, T)
         /\ x[Len(s)].token = <<>> => T = x[Len(s)].tokens
         /\ x[Len(s)].token # <<>> => /\ T = Append(x[Len(s)].tokens, x[Len(s)].token)
                                      /\ T[Len(x[Len(s)].tokens) + 1] = x[Len(s)].token
                                      /\ Len(T) = Len(x[Len(s)].tokens) + 1
  <1>1. PICK n : n = Len(s)
    OBVIOUS
  <1>2. n \in Nat /\ (\A k \in 1 .. n : s[k] \in STRING)
    BY <1>1, LenProperties
  <1>3. /\ Scan(s) = x[n] /\ \A k \in 1 .. n : x[k] = Feed(x[k - 1], s[k])
        /\ \A k \in 0 .. n : x[k] \in Lexes
    BY <1>1, LexingIs
  <1>4. PICK m, t, ts : m = x[n].mode /\ t = x[n].token /\ ts = x[n].tokens
    OBVIOUS
  <1>5. /\ t \in Seq(Chars) /\ ts \in Seq(Words)
    BY <1>2, <1>3, <1>4, LexIs
  <1>6. t # <<>> => t \in Words
    BY <1>5 DEF Words
  <1>7. T = IF t = <<>> THEN ts ELSE Append(ts, t)
    BY <1>3, <1>4 DEF TokensOf
  <1>8. T \in Seq(Words) /\ Begins(ts, T)
        /\ (t # <<>> => T = Append(ts, t) /\ T[Len(ts) + 1] = t /\ Len(T) = Len(ts) + 1)
    <2>1. CASE t = <<>>
      BY <1>5, <1>7, <2>1, LenProperties DEF Begins
    <2>2. CASE t # <<>>
      <3>1. T = Append(ts, t) /\ t \in Words
        BY <1>6, <1>7, <2>2
      <3> QED BY <1>5, <3>1, BeginsAppend
    <2> QED BY <2>1, <2>2
  <1>9. ASSUME NEW k \in 0 .. n
        PROVE  Begins(x[k].tokens, T)
    <2> DEFINE S == {j \in 0 .. n - k : Begins(x[k].tokens, x[k + j].tokens)}
    <2>1. 0 \in S
      <3>1. x[k].tokens \in Seq(Words)
        BY <1>3, LexIs
      <3>2. Begins(x[k].tokens, x[k].tokens)
        BY <3>1, LenProperties DEF Begins
      <3> QED BY <1>2, <3>2
    <2>2. ASSUME NEW j \in 0 .. (n - k) - 1, j \in S
          PROVE  j + 1 \in S
      <3>1. k + j \in 0 .. n /\ k + (j + 1) \in 1 .. n /\ (k + (j + 1)) - 1 = k + j
        BY <1>2
      <3>2. x[k + (j + 1)] = Feed(x[k + j], s[k + (j + 1)]) /\ x[k + j] \in Lexes /\ s[k + (j + 1)] \in STRING
        BY <1>2, <1>3, <3>1
      <3>3. Begins(x[k + j].tokens, x[k + (j + 1)].tokens)
        BY <3>2, FeedGrows
      <3>4. Begins(x[k].tokens, x[k + j].tokens)
        BY <2>2
      <3>5. Begins(x[k].tokens, x[k + (j + 1)].tokens)
        BY <3>3, <3>4, BeginsTrans
      <3> QED BY <1>2, <3>5
    <2>3. n - k \in Nat /\ k + (n - k) = n
      BY <1>2
    <2>4. 0 .. n - k \subseteq S
      <3> HIDE DEF S
      <3> QED BY <2>1, <2>2, <2>3, Induction
    <2>5. Begins(x[k].tokens, x[n].tokens)
      BY <2>3, <2>4
    <2> QED BY <1>4, <1>8, <2>5, BeginsTrans
  <1> QED BY <1>1, <1>4, <1>7, <1>8, <1>9

(* A run of characters that leave a comment a comment.                     *)
LEMMA CommentRead ==
  ASSUME NEW s \in Seq(STRING), NEW x, x = Lexing(s), NEW p \in 1 .. Len(s), NEW q \in p + 1 .. Len(s) + 1,
         NEW ts, x[p - 1] = Lex("gap", <<>>, ts), s[p] \in comments,
         \A r \in p + 1 .. q - 1 : s[r] # "LF"
  PROVE  /\ x[q - 1] = Lex("comment", <<>>, ts)
         /\ q <= Len(s) /\ s[q] = "LF" => x[q] = Lex("gap", <<>>, ts)
  <1>1. PICK n : n = Len(s)
    OBVIOUS
  <1>2. n \in Nat /\ \A k \in 1 .. n : x[k] = Feed(x[k - 1], s[k])
    BY <1>1, LexingIs, LenProperties
  <1>3. "gap" \in Modes /\ "comment" \in Modes
    BY DEF Modes
  <1>4. x[p] = Lex("comment", <<>>, ts)
    <2>1. x[p] = Feed(Lex("gap", <<>>, ts), s[p])
      BY <1>1, <1>2
    <2>2. Feed(Lex("gap", <<>>, ts), s[p]) = Fed("gap", <<>>, ts, s[p])
      BY <1>3, FeedIs
    <2>3. "gap" \notin string_char
      BY DEF string_char
    <2>4. Fed("gap", <<>>, ts, s[p]) = Lex("comment", <<>>, ts)
      BY <2>3, Zenon DEF Fed
    <2> QED BY <2>1, <2>2, <2>4
  <1>5. \A c : Feed(Lex("comment", <<>>, ts), c) = Lex(IF c = "LF" THEN "gap" ELSE "comment", <<>>, ts)
    <2> TAKE c
    <2>1. Feed(Lex("comment", <<>>, ts), c) = Fed("comment", <<>>, ts, c)
      BY <1>3, FeedIs
    <2> QED BY <2>1, Zenon DEF Fed
  <1> DEFINE S == {j \in 0 .. (q - 1) - p : x[p + j] = Lex("comment", <<>>, ts)}
  <1>6. 0 \in S
    BY <1>1, <1>2, <1>4
  <1>7. ASSUME NEW j \in 0 .. ((q - 1) - p) - 1, j \in S
        PROVE  j + 1 \in S
    <2>1. p + (j + 1) \in p + 1 .. q - 1 /\ p + (j + 1) \in 1 .. n /\ (p + (j + 1)) - 1 = p + j
      BY <1>1, <1>2
    <2>2. x[p + (j + 1)] = Feed(x[p + j], s[p + (j + 1)]) /\ s[p + (j + 1)] # "LF" /\ x[p + j] = Lex("comment", <<>>, ts)
      BY <1>2, <1>7, <2>1
    <2>3. x[p + (j + 1)] = Lex("comment", <<>>, ts)
      BY <1>5, <2>2
    <2> QED BY <1>1, <1>2, <2>3
  <1>8. (q - 1) - p \in Nat /\ p + ((q - 1) - p) = q - 1
    BY <1>1, <1>2
  <1>9. 0 .. (q - 1) - p \subseteq S
    <2> HIDE DEF S
    <2> QED BY <1>6, <1>7, <1>8, Induction
  <1>10. x[q - 1] = Lex("comment", <<>>, ts)
    <2>1. (q - 1) - p \in S
      <3> HIDE DEF S
      <3> QED BY <1>8, <1>9
    <2> QED BY <1>8, <2>1
  <1>11. ASSUME q <= n, s[q] = "LF"
         PROVE  x[q] = Lex("gap", <<>>, ts)
    <2>1. x[q] = Feed(x[q - 1], s[q])
      BY <1>1, <1>2, <1>11
    <2> QED BY <1>5, <1>10, <1>11, <2>1
  <1> QED BY <1>1, <1>10, <1>11

(* What begins a token, what ends it, and what it then consists of.        *)
Opens(m, c, Stop) ==
    \/ c \in string_char /\ m = c /\ Stop = {c}
    \/ c \notin comments \cup terminators \cup string_char /\ m = "atom" /\ Stop = terminators

Piece(s, p, q) == SubSeq(s, p, q - 1)
Added(ts, t)   == Append(ts, t)

(* From p, in a gap, up to q there is a token, or what the text has of it. *)
IsRun(s, x, p, q, ts, m, Stop) ==
    /\ s \in Seq(STRING) /\ x = Lexing(s) /\ p \in 1 .. Len(s) /\ q \in p + 1 .. Len(s) + 1
    /\ x[p - 1] = Lex("gap", <<>>, ts) /\ Opens(m, s[p], Stop)
    /\ \A r \in p + 1 .. q - 1 : s[r] \notin Stop

LEMMA WordRead ==
  ASSUME NEW s, NEW x, NEW p, NEW q, NEW ts, NEW m, NEW Stop, IsRun(s, x, p, q, ts, m, Stop)
  PROVE  /\ x[q - 1] = Lex(m, Piece(s, p, q), ts)
         /\ q <= Len(s) /\ s[q] \in Stop => x[q] = Lex("gap", <<>>, Added(ts, Piece(s, p, q)))
  <1>0. /\ s \in Seq(STRING) /\ x = Lexing(s) /\ p \in 1 .. Len(s) /\ q \in p + 1 .. Len(s) + 1
        /\ x[p - 1] = Lex("gap", <<>>, ts) /\ Opens(m, s[p], Stop)
        /\ \A r \in p + 1 .. q - 1 : s[r] \notin Stop
    BY DEF IsRun
  <1> USE <1>0
  <1>1. PICK n : n = Len(s)
    OBVIOUS
  <1>2. n \in Nat /\ (\A k \in 1 .. n : x[k] = Feed(x[k - 1], s[k])) /\ \A k \in 1 .. n : s[k] \in STRING
    BY <1>1, LexingIs, LenProperties
  <1>3. m \in Modes /\ "gap" \in Modes /\ m # "comment" /\ m # "gap"
        /\ ((m = "atom" /\ Stop = terminators) \/ (m # "atom" /\ m \in string_char /\ Stop = {m}))
    <2>1. "gap" \in Modes /\ "atom" \in Modes /\ "atom" \notin {"comment", "gap"}
      BY DEF Modes
    <2>2. \A c \in string_char : c \in Modes /\ c # "comment" /\ c # "gap" /\ c # "atom"
      BY DEF Modes, string_char
    <2>3. CASE s[p] \in string_char /\ m = s[p] /\ Stop = {s[p]}
      BY <2>1, <2>2, <2>3
    <2>4. CASE m = "atom" /\ Stop = terminators
      BY <2>1, <2>4
    <2> QED BY <2>3, <2>4 DEF Opens
  <1>4. \A t, c : Feed(Lex(m, t, ts), c) = IF c \in Stop THEN Lex("gap", <<>>, Append(ts, t))
                                           ELSE Lex(m, Append(t, c), ts)
    <2> TAKE t, c
    <2>1. Feed(Lex(m, t, ts), c) = Fed(m, t, ts, c)
      BY <1>3, FeedIs
    <2>2. CASE m = "atom" /\ Stop = terminators
      BY <1>3, <2>1, <2>2, Zenon DEF Fed
    <2>3. CASE m # "atom" /\ m \in string_char /\ Stop = {m}
      <3>1. c \in Stop <=> c = m
        BY <2>3
      <3>2. Fed(m, t, ts, c) = IF c = m THEN Lex("gap", <<>>, Append(ts, t)) ELSE Lex(m, Append(t, c), ts)
        BY <1>3, <2>3, Zenon DEF Fed
      <3> QED BY <2>1, <3>1, <3>2, Zenon
    <2> QED BY <1>3, <2>2, <2>3
  <1>5. ASSUME NEW r \in p .. n
        PROVE  Append(SubSeq(s, p, r - 1), s[r]) = SubSeq(s, p, r)
    <2>1. SubSeq(s, p, r) = SubSeq(s, p, r - 1) \o << s[r] >>
      BY <1>1, SubSeqRecursiveSecond
    <2>2. SubSeq(s, p, r - 1) \in Seq(STRING) /\ s[r] \in STRING
      <3>1. \A k \in p .. r - 1 : k \in 1 .. n
        BY <1>1, <1>2
      <3>2. \A k \in p .. r - 1 : s[k] \in STRING
        BY <1>2, <3>1
      <3>3. r \in 1 .. n /\ p \in Int /\ r - 1 \in Int
        BY <1>1, <1>2
      <3> QED BY <1>2, <3>2, <3>3, SubSeqProperties
    <2> QED BY <2>1, <2>2, AppendIsConcat
  <1>6. x[p] = Lex(m, SubSeq(s, p, p), ts)
    <2>1. x[p] = Feed(Lex("gap", <<>>, ts), s[p])
      BY <1>1, <1>2
    <2>2. Feed(Lex("gap", <<>>, ts), s[p]) = Fed("gap", <<>>, ts, s[p])
      BY <1>3, FeedIs
    <2>3. "gap" \notin string_char /\ s[p] \notin comments /\ s[p] \notin terminators
          /\ m = (IF s[p] \in string_char THEN s[p] ELSE "atom")
      BY DEF string_char, Opens, comments, terminators
    <2>4. Fed("gap", <<>>, ts, s[p]) = Lex(m, Append(<<>>, s[p]), ts)
      <3>1. "gap" # "comment" /\ "gap" # "atom"
        OBVIOUS
      <3> QED BY <2>3, <3>1, Zenon DEF Fed
    <2>5. SubSeq(s, p, p - 1) = << >>
      <3>1. p \in Int /\ p - 1 \in Int /\ p - 1 < p
        BY <1>1, <1>2
      <3> QED BY <3>1, SubSeqEmpty
    <2>6. Append(<<>>, s[p]) = SubSeq(s, p, p)
      <3>1. p \in p .. n
        BY <1>1, <1>2
      <3> QED BY <1>5, <2>5, <3>1
    <2> QED BY <2>1, <2>2, <2>4, <2>6
  <1> DEFINE S == {j \in 0 .. (q - 1) - p : x[p + j] = Lex(m, SubSeq(s, p, p + j), ts)}
  <1>7. 0 \in S
    BY <1>1, <1>2, <1>6
  <1>8. ASSUME NEW j \in 0 .. ((q - 1) - p) - 1, j \in S
        PROVE  j + 1 \in S
    <2>1. PICK r : r = p + (j + 1)
      OBVIOUS
    <2>2. r \in p + 1 .. q - 1 /\ r \in 1 .. n /\ r - 1 = p + j /\ r \in p .. n
      BY <1>1, <1>2, <2>1
    <2>3. x[r] = Feed(x[r - 1], s[r]) /\ s[r] \notin Stop /\ x[r - 1] = Lex(m, SubSeq(s, p, r - 1), ts)
      BY <1>2, <1>8, <2>2
    <2>4. x[r] = Lex(m, Append(SubSeq(s, p, r - 1), s[r]), ts)
      BY <1>4, <2>3
    <2>5. x[r] = Lex(m, SubSeq(s, p, r), ts)
      BY <1>5, <2>2, <2>4
    <2>6. j + 1 \in 0 .. (q - 1) - p
      BY <1>1, <1>2
    <2> QED BY <2>1, <2>5, <2>6
  <1>9. (q - 1) - p \in Nat /\ p + ((q - 1) - p) = q - 1
    BY <1>1, <1>2
  <1>10. x[q - 1] = Lex(m, SubSeq(s, p, q - 1), ts)
    <2>1. 0 .. (q - 1) - p \subseteq S
      <3> HIDE DEF S
      <3> QED BY <1>7, <1>8, <1>9, Induction
    <2>2. (q - 1) - p \in S
      <3> HIDE DEF S
      <3> QED BY <1>9, <2>1
    <2> QED BY <1>9, <2>2
  <1>11. ASSUME q <= n, s[q] \in Stop
         PROVE  x[q] = Lex("gap", <<>>, Append(ts, SubSeq(s, p, q - 1)))
    <2>1. x[q] = Feed(x[q - 1], s[q])
      BY <1>1, <1>2, <1>11
    <2> QED BY <1>4, <1>10, <1>11, <2>1
  <1> QED BY <1>1, <1>10, <1>11 DEF Piece, Added

Cleared == port = "riscv64" => scratch = [k \in 1 .. ScratchSize |-> "NUL"]

(* A text in memory without a zero inside.                                 *)
LEMMA CStringOf ==
  ASSUME NEW u \in Seq(Chars), NEW s \in Seq(Chars), Len(s) <= Len(u),
         \A k \in 1 .. Len(s) : u[k] = s[k] /\ s[k] # "NUL",
         Len(s) < Len(u) => u[Len(s) + 1] = "NUL"
  PROVE  CString(u) = s
  <1>1. Len(u) \in Nat /\ Len(s) \in Nat /\ 1 \in 1 .. Len(u) + 1
    BY LenProperties
  <1>2. PICK q : q = FindFrom(u, 1, {"NUL"})
    OBVIOUS
  <1>3. /\ q \in 1 .. Len(u) + 1 /\ (AtEnd(u, q) \/ u[q] \in {"NUL"})
        /\ \A r \in 1 .. q - 1 : u[r] \notin {"NUL"}
    BY <1>1, <1>2, FindFromFacts
  <1>4. q > Len(s)
    BY <1>1, <1>3 DEF AtEnd
  <1>5. q <= Len(s) + 1
    BY <1>1, <1>3
  <1>6. q - 1 = Len(s)
    BY <1>1, <1>3, <1>4, <1>5
  <1>7. PICK t : t = SubSeq(u, 1, Len(s))
    OBVIOUS
  <1>8. t \in Seq(Chars) /\ Len(t) = Len(s) /\ \A k \in 1 .. Len(s) : t[k] = u[k]
    <2>1. \A k \in 1 .. Len(s) : u[k] \in Chars
      BY <1>1, LenProperties
    <2>2. /\ t \in Seq(Chars) /\ Len(t) = IF 1 <= Len(s) THEN Len(s) - 1 + 1 ELSE 0
          /\ \A k \in 1 .. Len(s) - 1 + 1 : t[k] = u[1 + k - 1]
      BY <1>1, <1>7, <2>1, SubSeqProperties
    <2> QED BY <1>1, <2>2
  <1>9. t = s
    <2>1. \A k \in 1 .. Len(t) : t[k] = s[k]
      BY <1>8
    <2> QED BY <1>8, <2>1, SeqEqual
  <1> QED BY <1>2, <1>6, <1>7, <1>9 DEF CString

(* A token that fits the cleared scratch area is kept as it is, and the    *)
(* area is cleared behind it.                                              *)
LEMMA TokenKept ==
  ASSUME NEW s \in Seq(Chars), \A k \in 1 .. Len(s) : s[k] # "NUL", Cleared,
         Len(s) < ScratchSize \/ port # "riscv64"
  PROVE  /\ CString(IF port = "riscv64" THEN Overwritten(s) ELSE s) = s
         /\ port = "riscv64" => ClearScratch(Overwritten(s)) = [k \in 1 .. ScratchSize |-> "NUL"]
  <1>1. ScratchSize \in Nat /\ Len(s) \in Nat /\ s \in [1 .. Len(s) -> Chars] /\ "NUL" \in Chars
    BY M0Assumption, LenProperties DEF Chars
  <1>2. ASSUME port = "riscv64"
        PROVE  /\ CString(Overwritten(s)) = s
               /\ ClearScratch(Overwritten(s)) = [k \in 1 .. ScratchSize |-> "NUL"]
    <2>1. PICK u : u = Overwritten(s)
      OBVIOUS
    <2>2. u = [k \in 1 .. ScratchSize |-> IF k <= Len(s) THEN s[k] ELSE "NUL"]
      BY <1>1, <1>2, <2>1 DEF Overwritten, Cleared
    <2>3. u \in [1 .. ScratchSize -> Chars]
      BY <1>1, <2>2
    <2>4. u \in Seq(Chars) /\ Len(u) = ScratchSize
      BY <1>1, <2>3, SeqDef, LenOfList
    <2>5. CString(u) = s
      BY <1>1, <1>2, <2>2, <2>4, CStringOf
    <2>6. ClearScratch(u) = [k \in 1 .. ScratchSize |-> "NUL"]
      BY <1>1, <2>2, <2>5 DEF ClearScratch
    <2> QED BY <2>1, <2>5, <2>6
  <1>3. CString(s) = s
    BY <1>1, CStringOf
  <1> QED BY <1>2, <1>3

-----------------------------------------------------------------------------
(* The list holds the tokens of the text *)

Texts(h) == [k \in 1 .. Len(h) |-> h[k].text]
KindOf(t) == IF IsString(t) THEN "string" ELSE "atom"
AsRead(h) == \A k \in 1 .. Len(h) : h[k].type = KindOf(h[k].text)

(* What WellFormed says of the tokens.                                     *)
Good(T) == \A k \in 1 .. Len(T) :
               /\ InRoom(port, T[k]) /\ \A j \in 1 .. Len(T[k]) : T[k][j] # "NUL"
               /\ port = "riscv64" => T[k] \notin {<<"!">>, <<"@">>, <<"~">>, <<"%">>}

(* Behind a token the reading is in a gap and has collected the texts of   *)
(* the list, or the file is at its end.                                    *)
Collected(x, T, ts, p) == x[p - 1] = Lex("gap", <<>>, ts) \/ (p = Len(text) + 1 /\ ts = T)

ReadInv(x, T) ==
    /\ pc \in {"tokenize", "reverse"} => AsRead(heap) /\ Cleared
    /\ pc = "tokenize" => Collected(x, T, Texts(heap), pos)
    /\ pc = "reverse" => Texts(heap) = T

IsLexeme(q, s, Stop) == q = FindFrom(text, pos + 1, Stop) /\ s = SubSeq(text, pos, q - 1)

LEMMA LexFields ==
  \A m, t, ts : Lex(m, t, ts).mode = m /\ Lex(m, t, ts).token = t /\ Lex(m, t, ts).tokens = ts
  BY DEF Lex

LEMMA TextsFacts ==
  ASSUME NEW h, Nodes(h)
  PROVE  Texts(h) \in Seq(Words) /\ Len(Texts(h)) = Len(h) /\ \A k \in 1 .. Len(h) : Texts(h)[k] = h[k].text
  <1>1. Len(h) \in Nat /\ \A k \in 1 .. Len(h) : h[k].text \in Words
    BY DEF Nodes, IsList, IsNode, Words
  <1>2. Texts(h) \in [1 .. Len(h) -> Words] /\ Texts(h) = [k \in 1 .. Len(h) |-> Texts(h)[k]]
    BY <1>1 DEF Texts
  <1>3. Texts(h) \in Seq(Words)
    BY <1>1, <1>2, SeqDef
  <1>4. Len(Texts(h)) = Len(h)
    BY <1>1, <1>2, LenOfList
  <1> QED BY <1>3, <1>4 DEF Texts

(* A well-formed text.                                                     *)
LEMMA GoodTokens ==
  ASSUME text \in Seq(STRING), WellFormed(port, text), NEW x, x = Lexing(text), NEW T, T = TokensOf(Scan(text))
  PROVE  /\ T \in Seq(Words) /\ Good(T) /\ Expansion(port, T).define = <<>>
         /\ port = "amd64" => /\ x[Len(text)].mode = "gap" /\ T # <<>>
                              /\ Len(T) > 3 => T[Len(T) - 2] # <<"DEFINE">>
                              /\ Len(T) = 3 => T[1] # <<"DEFINE">>
  <1>1. T \in Seq(Words) /\ Scan(text) = x[Len(text)]
    BY TokensGrow, LexingIs
  <1>2. DOMAIN T = 1 .. Len(T) /\ \A k \in 1 .. Len(T) : T[k] \in Seq(Chars)
    BY <1>1, LenProperties DEF Words
  <1>3. \A k \in 1 .. Len(T) : DOMAIN T[k] = 1 .. Len(T[k])
    BY <1>2, LenProperties
  <1>4. \A k \in DOMAIN T : /\ InRoom(port, T[k]) /\ "NUL" \notin ToSet(T[k])
                            /\ port = "riscv64" => T[k] \notin {<<"!">>, <<"@">>, <<"~">>, <<"%">>}
    BY DEF WellFormed
  <1>5. ASSUME NEW k \in 1 .. Len(T), NEW j \in 1 .. Len(T[k])
        PROVE  T[k][j] # "NUL"
    <2>1. "NUL" \notin {T[k][e] : e \in DOMAIN T[k]}
      BY <1>2, <1>4 DEF ToSet
    <2>2. j \in DOMAIN T[k]
      BY <1>3
    <2> QED BY <2>1, <2>2
  <1>6. Good(T)
    BY <1>2, <1>4, <1>5 DEF Good
  <1>7. Expansion(port, T).define = <<>>
    BY DEF WellFormed
  <1>8. ASSUME port = "amd64"
        PROVE  /\ x[Len(text)].mode = "gap" /\ T # <<>>
               /\ Len(T) > 3 => T[Len(T) - 2] # <<"DEFINE">>
               /\ Len(T) = 3 => T[1] # <<"DEFINE">>
    BY <1>1, <1>8 DEF WellFormed
  <1> QED BY <1>1, <1>6, <1>7, <1>8

(* A token of a well-formed text is complete, fits, and is the next of its *)
(* tokens.                                                                 *)
LEMMA TokenAccepted ==
  ASSUME ShapeInv, pc = "tokenize", NEW x, x = Lexing(text), NEW T, T = TokensOf(Scan(text)),
         WellFormed(port, text), Collected(x, T, Texts(heap), pos), ~AtEnd(text, pos),
         NEW m, NEW Stop, Opens(m, text[pos], Stop),
         NEW q, NEW s, IsLexeme(q, s, Stop)
  PROVE  /\ s \in Words /\ Fits(s) /\ \A k \in 1 .. Len(s) : s[k] # "NUL"
         /\ AtEnd(text, q) => EofGuard
         /\ Collected(x, T, Append(Texts(heap), s), Skip(text, q, 1))
  <1>1. /\ text \in Seq(STRING) /\ pos \in 1 .. Len(text) + 1 /\ Nodes(heap) /\ Len(text) \in Nat
        /\ port \in Ports /\ Len(heap) \in Nat
    BY LenProperties DEF ShapeInv, Nodes, IsList
  <1>2. /\ q \in pos + 1 .. Len(text) + 1 /\ (AtEnd(text, q) \/ text[q] \in Stop)
        /\ \A r \in pos + 1 .. q - 1 : text[r] \notin Stop
        /\ s \in Seq(STRING) /\ s # << >>
        /\ q <= Len(text) => Skip(text, q, 1) = q + 1
        /\ q > Len(text) => Skip(text, q, 1) = Len(text) + 1
    BY <1>1, TokenRead DEF IsLexeme
  <1>3. pos \in 1 .. Len(text) /\ x[pos - 1] = Lex("gap", <<>>, Texts(heap))
    BY <1>1 DEF Collected, AtEnd
  <1>4. s \in Words
    BY <1>2, SeqDef DEF Words, Chars
  <1>5. PICK ts : ts = Texts(heap)
    OBVIOUS
  <1>6. ts \in Seq(Words) /\ Len(ts) = Len(heap)
    BY <1>1, <1>5, TextsFacts
  <1>0. PICK ap : ap = Append(ts, s)
    OBVIOUS
  <1>7. /\ x[q - 1] = Lex(m, s, ts)
        /\ q <= Len(text) /\ text[q] \in Stop => x[q] = Lex("gap", <<>>, ap)
    <2>1. PICK w : w = text
      OBVIOUS
    <2>2. IsRun(w, x, pos, q, ts, m, Stop)
      BY <1>1, <1>2, <1>3, <1>5, <2>1 DEF IsRun
    <2>3. /\ x[q - 1] = Lex(m, Piece(w, pos, q), ts)
          /\ q <= Len(w) /\ w[q] \in Stop => x[q] = Lex("gap", <<>>, Added(ts, Piece(w, pos, q)))
      BY <2>2, WordRead
    <2>4. Piece(w, pos, q) = s /\ Added(ts, s) = ap
      BY <1>0, <2>1 DEF IsLexeme, Piece, Added
    <2> QED BY <2>1, <2>3, <2>4
  <1>8. /\ T \in Seq(Words) /\ \A k \in 0 .. Len(text) : Begins(x[k].tokens, T)
        /\ x[Len(text)].token # <<>> => /\ T = Append(x[Len(text)].tokens, x[Len(text)].token)
                                        /\ T[Len(x[Len(text)].tokens) + 1] = x[Len(text)].token
                                        /\ Len(T) = Len(x[Len(text)].tokens) + 1
    BY <1>1, TokensGrow
  <1>9. /\ Good(T) /\ (port = "amd64" => x[Len(text)].mode = "gap")
    BY <1>1, GoodTokens
  <1>10. ap[Len(ts) + 1] = s /\ Len(ap) = Len(ts) + 1
    BY <1>0, <1>4, <1>6, BeginsAppend
  <1>11. CASE q <= Len(text)
    <2>1. x[q] = Lex("gap", <<>>, ap)
      BY <1>2, <1>7, <1>11 DEF AtEnd
    <2>2. x[q].tokens = ap /\ q \in 0 .. Len(text)
      <3>1. q \in 0 .. Len(text)
        BY <1>1, <1>2, <1>11
      <3> QED BY <2>1, <3>1, LexFields
    <2>3. Begins(ap, T)
      BY <1>8, <2>2
    <2>4. T[Len(ts) + 1] = s /\ Len(ts) + 1 \in 1 .. Len(T)
      <3>1. Len(ts) + 1 \in 1 .. Len(ap) /\ Len(T) \in Nat
        BY <1>1, <1>6, <1>8, <1>10, LenProperties
      <3>2. ap[Len(ts) + 1] = T[Len(ts) + 1] /\ Len(ap) <= Len(T)
        BY <2>3, <3>1 DEF Begins
      <3>3. Len(ts) \in Nat
        BY <1>1, <1>6
      <3> QED BY <1>10, <3>1, <3>2, <3>3
    <2>5. ~AtEnd(text, q) /\ Collected(x, T, ap, Skip(text, q, 1))
      <3>1. Skip(text, q, 1) = q + 1 /\ (q + 1) - 1 = q
        BY <1>1, <1>2, <1>11
      <3>2. ~AtEnd(text, q)
        BY <1>1, <1>2, <1>11 DEF AtEnd
      <3>3. x[Skip(text, q, 1) - 1] = Lex("gap", <<>>, ap)
        BY <2>1, <3>1
      <3> QED BY <3>2, <3>3 DEF Collected
    <2>6. InRoom(port, s) /\ \A k \in 1 .. Len(s) : s[k] # "NUL"
      BY <1>9, <2>4 DEF Good
    <2> QED BY <1>0, <1>1, <1>4, <1>5, <2>5, <2>6 DEF Fits, InRoom, Ports
  <1>12. CASE q > Len(text)
    <2>1. q - 1 = Len(text)
      BY <1>1, <1>2, <1>12
    <2>2. x[Len(text)] = Lex(m, s, ts)
      BY <1>7, <2>1
    <2>3. x[Len(text)].mode = m /\ x[Len(text)].token = s /\ x[Len(text)].tokens = ts
      BY <2>2, LexFields
    <2>4. m # "gap"
      <3>1. \A c \in string_char : c # "gap"
        BY DEF string_char
      <3> QED BY <3>1 DEF Opens
    <2>5. port = "riscv64" /\ EofGuard
      BY <1>1, <1>9, <2>3, <2>4 DEF Ports, EofGuard
    <2>6. T = ap /\ T[Len(ts) + 1] = s /\ Len(ts) + 1 \in 1 .. Len(T)
      <3>1. T = ap /\ T[Len(ts) + 1] = s /\ Len(T) = Len(ts) + 1
        BY <1>0, <1>2, <1>8, <2>3
      <3>2. Len(ts) \in Nat
        BY <1>1, <1>6
      <3>3. Len(ts) + 1 \in 1 .. Len(T)
        BY <3>1, <3>2
      <3> QED BY <3>1, <3>3
    <2>7. InRoom(port, s) /\ \A k \in 1 .. Len(s) : s[k] # "NUL"
      BY <1>9, <2>6 DEF Good
    <2>8. Collected(x, T, ap, Skip(text, q, 1))
      BY <1>2, <1>12, <2>6 DEF Collected
    <2> QED BY <1>0, <1>1, <1>4, <1>5, <2>5, <2>7, <2>8 DEF Fits, InRoom, Ports
  <1> QED BY <1>1, <1>2, <1>11, <1>12

(* A token of a well-formed text is stored as it stands in the text.       *)
LEMMA TokenTaken ==
  ASSUME ShapeInv, pc = "tokenize", NEW x, NEW T, AsRead(heap), Cleared,
         NEW type \in {"atom", "string"}, NEW s \in Seq(STRING), s \in Words, Fits(s), type = KindOf(s),
         \A k \in 1 .. Len(s) : s[k] # "NUL", StoreToken(type, s),
         UNCHANGED <<port, text, pc, i, out>>, pos' \in 1 .. Len(text) + 1,
         Collected(x, T, Append(Texts(heap), s), pos')
  PROVE  ReadInv(x, T)'
  <1>1. Nodes(heap) /\ Len(heap) \in Nat /\ Len(s) \in Nat /\ s # << >> /\ s[1] # "NUL"
    <2>1. s # << >> /\ Len(s) \in Nat \ {0}
      BY EmptySeq DEF Words
    <2> QED BY <2>1 DEF ShapeInv, Nodes, IsList
  <1>2. /\ CString(IF port = "riscv64" THEN Overwritten(s) ELSE s) = s
        /\ port = "riscv64" => ClearScratch(Overwritten(s)) = [k \in 1 .. ScratchSize |-> "NUL"]
    BY TokenKept DEF Fits, Words
  <1>3. ShapeInv' /\ \E t \in Seq(Chars) \ {<<>>} :
               /\ t[1] = s[1] /\ t = CString(IF port = "riscv64" THEN Overwritten(s) ELSE s)
               /\ Len(heap') = Len(heap) + 1
               /\ \A k \in 1 .. Len(heap) : heap'[k] = heap[k]
               /\ heap'[Len(heap) + 1] = [next |-> Len(heap), type |-> type, text |-> t, expr |-> {}]
    BY <1>1, StoreKeeps
  <1>4. PICK h : h = heap'
    OBVIOUS
  <1>5. /\ Len(h) = Len(heap) + 1 /\ \A k \in 1 .. Len(heap) : h[k] = heap[k]
        /\ h[Len(heap) + 1] = [next |-> Len(heap), type |-> type, text |-> s, expr |-> {}]
    BY <1>2, <1>3, <1>4
  <1>6. h[Len(heap) + 1].text = s /\ h[Len(heap) + 1].type = type
    BY <1>5
  <1>7. AsRead(h)
    <2> SUFFICES ASSUME NEW k \in 1 .. Len(h)
                 PROVE  h[k].type = KindOf(h[k].text)
      BY DEF AsRead
    <2>1. CASE k = Len(heap) + 1
      BY <1>6, <2>1
    <2>2. CASE k # Len(heap) + 1
      <3>1. k \in 1 .. Len(heap)
        BY <1>1, <1>5, <2>2
      <3> QED BY <1>5, <3>1 DEF AsRead
    <2> QED BY <2>1, <2>2
  <1>8. Texts(h) = Append(Texts(heap), s)
    <2>1. Nodes(h)
      BY <1>3, <1>4 DEF ShapeInv
    <2>2. /\ Texts(h) \in Seq(Words) /\ Len(Texts(h)) = Len(heap) + 1
          /\ \A k \in 1 .. Len(h) : Texts(h)[k] = h[k].text
      BY <1>5, <2>1, TextsFacts
    <2>3. /\ Texts(heap) \in Seq(Words) /\ Len(Texts(heap)) = Len(heap)
          /\ \A k \in 1 .. Len(heap) : Texts(heap)[k] = heap[k].text
      BY <1>1, TextsFacts
    <2>4. PICK a : a = Append(Texts(heap), s)
      OBVIOUS
    <2>5. /\ a \in Seq(Words) /\ Len(a) = Len(heap) + 1 /\ a[Len(heap) + 1] = s
          /\ \A k \in 1 .. Len(heap) : a[k] = heap[k].text
      BY <2>3, <2>4, AppendProperties
    <2>6. \A k \in 1 .. Len(heap) + 1 : Texts(h)[k] = a[k]
      <3> TAKE k \in 1 .. Len(heap) + 1
      <3>1. k = Len(heap) + 1 \/ k \in 1 .. Len(heap)
        BY <1>1
      <3>2. Texts(h)[k] = h[k].text
        BY <1>5, <2>2
      <3> QED BY <1>5, <1>6, <2>5, <3>1, <3>2
    <2> QED BY <2>2, <2>4, <2>5, <2>6, SeqEqual
  <1>9. Cleared'
    <2>1. scratch' = IF port = "riscv64" THEN ClearScratch(Overwritten(s)) ELSE scratch
      BY DEF StoreToken
    <2> QED BY <1>2, <2>1 DEF Cleared
  <1>10. Collected(x, T, Texts(h), pos')
    BY <1>8
  <1>11. pc' = "tokenize" /\ text' = text
    OBVIOUS
  <1> QED BY <1>4, <1>7, <1>9, <1>10, <1>11 DEF ReadInv, Collected

LEMMA TokenizeReads ==
  ASSUME ShapeInv, Tokenize_Line, WellFormed(port, text), NEW x, x = Lexing(text),
         NEW T, T = TokensOf(Scan(text)), ReadInv(x, T)
  PROVE  ReadInv(x, T)' /\ pc' \in {"tokenize", "reverse"}
  <1>1. /\ pc = "tokenize" /\ text \in Seq(STRING) /\ pos \in 1 .. Len(text) + 1 /\ Len(text) \in Nat /\ Nodes(heap)
    <2>1. pc = "tokenize"
      BY DEF Tokenize_Line, Tokenize_Line_Eof, Purge_LineComment, SkipTerminator, Store_String, Store_Atom
    <2> QED BY <2>1, LenProperties DEF ShapeInv
  <1>2. AsRead(heap) /\ Cleared /\ Collected(x, T, Texts(heap), pos)
    BY <1>1 DEF ReadInv
  <1>3. PICK ts : ts = Texts(heap)
    OBVIOUS
  <1>4. /\ x[Len(text)].token = <<>> => T = x[Len(text)].tokens
        /\ port = "amd64" => x[Len(text)].mode = "gap"
    BY <1>1, TokensGrow, GoodTokens
  <1>5. ASSUME Tokenized, ts = T
        PROVE  ReadInv(x, T)' /\ pc' \in {"tokenize", "reverse"}
    <2>1. pc' = "reverse" /\ heap' = heap /\ scratch' = scratch /\ port' = port
      BY <1>5 DEF Tokenized
    <2> QED BY <1>2, <1>3, <1>5, <2>1 DEF ReadInv, AsRead, Cleared
  <1>6. ASSUME NEW p, pos' = p, UNCHANGED <<port, text, pc, heap, scratch>>, Collected(x, T, ts, p)
        PROVE  ReadInv(x, T)' /\ pc' \in {"tokenize", "reverse"}
    <2>1. AsRead(heap)' /\ Cleared' /\ Collected(x, T, Texts(heap), pos)' /\ pc' = "tokenize"
      BY <1>1, <1>2, <1>3, <1>6 DEF AsRead, Cleared, Collected
    <2> QED BY <2>1 DEF ReadInv
  <1>7. CASE Tokenize_Line_Eof
    <2>1. Tokenized /\ pos = Len(text) + 1
      BY <1>1, <1>7 DEF Tokenize_Line_Eof, AtEnd
    <2>2. ASSUME x[pos - 1] = Lex("gap", <<>>, ts)
          PROVE  ts = T
      <3>1. pos - 1 = Len(text)
        BY <1>1, <2>1
      <3>2. x[Len(text)].token = <<>> /\ x[Len(text)].tokens = ts
        BY <2>2, <3>1, LexFields
      <3> QED BY <1>4, <3>2
    <2>3. ts = T
      BY <1>2, <1>3, <2>2 DEF Collected
    <2> QED BY <1>5, <2>1, <2>3
  <1>8. CASE Purge_LineComment
    <2>1. PICK q : q = FindFrom(text, pos + 1, {"LF"})
      OBVIOUS
    <2>2. ~AtEnd(text, pos) /\ text[pos] \in comments /\ pos \in 1 .. Len(text)
      BY <1>1, <1>8 DEF Purge_LineComment, AtEnd
    <2>3. /\ q \in pos + 1 .. Len(text) + 1 /\ (AtEnd(text, q) \/ text[q] \in {"LF"})
          /\ \A r \in pos + 1 .. q - 1 : text[r] \notin {"LF"}
      BY <1>1, <2>1, <2>2, TokenRead
    <2>4. x[pos - 1] = Lex("gap", <<>>, ts)
      BY <1>1, <1>2, <1>3, <2>2 DEF Collected
    <2>5. /\ x[q - 1] = Lex("comment", <<>>, ts)
          /\ q <= Len(text) /\ text[q] = "LF" => x[q] = Lex("gap", <<>>, ts)
      BY <1>1, <2>2, <2>3, <2>4, CommentRead
    <2>6. CASE ~AtEnd(text, q)
      <3>1. pos' = q + 1 /\ UNCHANGED <<port, text, pc, heap, scratch>>
        BY <1>8, <2>1, <2>6 DEF Purge_LineComment, Restart
      <3>2. x[q] = Lex("gap", <<>>, ts) /\ (q + 1) - 1 = q
        BY <1>1, <2>3, <2>5, <2>6 DEF AtEnd
      <3>3. Collected(x, T, ts, q + 1)
        BY <3>2 DEF Collected
      <3> QED BY <1>6, <3>1, <3>3
    <2>7. CASE AtEnd(text, q)
      <3>1. q - 1 = Len(text)
        BY <1>1, <2>3, <2>7 DEF AtEnd
      <3>2. x[Len(text)].mode = "comment" /\ x[Len(text)].token = <<>> /\ x[Len(text)].tokens = ts
        BY <2>5, <3>1, LexFields
      <3>3. EofGuard /\ ts = T
        <4>1. "comment" # "gap" /\ port \in Ports
          BY DEF ShapeInv
        <4> QED BY <1>4, <3>2, <4>1 DEF EofGuard, Ports
      <3>4. Tokenized
        BY <1>8, <2>1, <2>7, <3>3 DEF Purge_LineComment
      <3> QED BY <1>5, <3>3, <3>4
    <2> QED BY <2>6, <2>7
  <1>9. CASE SkipTerminator
    <2>1. /\ pos \in 1 .. Len(text) /\ text[pos] \in terminators \ comments
          /\ pos' = pos + 1 /\ UNCHANGED <<port, text, pc, heap, scratch>>
      BY <1>1, <1>9 DEF SkipTerminator, Restart, AtEnd
    <2>2. x[pos - 1] = Lex("gap", <<>>, ts)
      BY <1>1, <1>2, <1>3, <2>1 DEF Collected
    <2>3. x[pos] = Feed(Lex("gap", <<>>, ts), text[pos])
      BY <1>1, <2>1, <2>2, LexingIs
    <2>4. Feed(Lex("gap", <<>>, ts), text[pos]) = Fed("gap", <<>>, ts, text[pos])
      BY FeedIs DEF Modes
    <2>5. Fed("gap", <<>>, ts, text[pos]) = Lex("gap", <<>>, ts)
      <3>1. "gap" # "comment" /\ "gap" # "atom" /\ "gap" \notin string_char
        BY DEF string_char
      <3>2. text[pos] \in terminators /\ text[pos] \notin comments
        BY <2>1
      <3> QED BY <3>1, <3>2, Zenon DEF Fed
    <2>6. (pos + 1) - 1 = pos
      BY <1>1
    <2>7. Collected(x, T, ts, pos + 1)
      BY <2>3, <2>4, <2>5, <2>6 DEF Collected
    <2> QED BY <1>6, <2>1, <2>7
  <1>10. ASSUME NEW m, NEW Stop, NEW q, NEW s, Opens(m, text[pos], Stop), IsLexeme(q, s, Stop),
                ~AtEnd(text, pos), NEW type, type \in {"atom", "string"},
                type = IF text[pos] \in string_char THEN "string" ELSE "atom",
                \/ AtEnd(text, q) /\ ~EofGuard /\ Fail("wild")
                \/ IF Fits(s) THEN StoreToken(type, s) /\ Restart(Skip(text, q, 1)) ELSE Fail("overrun")
         PROVE  ReadInv(x, T)' /\ pc' \in {"tokenize", "reverse"}
    <2>1. /\ s \in Words /\ Fits(s) /\ \A k \in 1 .. Len(s) : s[k] # "NUL"
          /\ AtEnd(text, q) => EofGuard
          /\ Collected(x, T, Append(Texts(heap), s), Skip(text, q, 1))
      BY <1>1, <1>2, <1>10, TokenAccepted
    <2>2. StoreToken(type, s) /\ pos' = Skip(text, q, 1) /\ UNCHANGED <<port, text, pc, i, out>>
      BY <1>10, <2>1 DEF Restart
    <2>3. s \in Seq(STRING) /\ s[1] = text[pos] /\ Skip(text, q, 1) \in 1 .. Len(text) + 1
      BY <1>1, <1>10, TokenRead DEF IsLexeme
    <2>4. type = KindOf(s)
      <3>1. IsString(s) <=> text[pos] \in string_char
        BY <2>3 DEF IsString, string_char
      <3> QED BY <1>10, <3>1 DEF KindOf
    <2>5. Collected(x, T, Append(Texts(heap), s), pos')
      BY <2>1, <2>2
    <2>6. ReadInv(x, T)'
      BY <1>1, <1>2, <1>10, <2>1, <2>2, <2>3, <2>4, <2>5, TokenTaken
    <2> QED BY <1>1, <2>2, <2>6
  <1>11. CASE Store_String
    <2>1. PICK q, s : q = FindFrom(text, pos + 1, {text[pos]}) /\ s = SubSeq(text, pos, q - 1)
      OBVIOUS
    <2>2. ~AtEnd(text, pos) /\ text[pos] \in string_char
      BY <1>11 DEF Store_String
    <2>3. \/ AtEnd(text, q) /\ ~EofGuard /\ Fail("wild")
          \/ IF Fits(s) THEN StoreToken("string", s) /\ Restart(Skip(text, q, 1)) ELSE Fail("overrun")
      BY <1>11, <2>1 DEF Store_String
    <2>4. Opens(text[pos], text[pos], {text[pos]}) /\ IsLexeme(q, s, {text[pos]})
      BY <2>1, <2>2 DEF Opens, IsLexeme
    <2> QED BY <1>10, <2>2, <2>3, <2>4
  <1>12. CASE Store_Atom
    <2>1. PICK q, s : q = FindFrom(text, pos + 1, terminators) /\ s = SubSeq(text, pos, q - 1)
      OBVIOUS
    <2>2. ~AtEnd(text, pos) /\ text[pos] \notin comments \cup terminators \cup string_char
      BY <1>12 DEF Store_Atom
    <2>3. \/ AtEnd(text, q) /\ ~EofGuard /\ Fail("wild")
          \/ IF Fits(s) THEN StoreToken("atom", s) /\ Restart(Skip(text, q, 1)) ELSE Fail("overrun")
      BY <1>12, <2>1 DEF Store_Atom
    <2>4. Opens("atom", text[pos], terminators) /\ IsLexeme(q, s, terminators)
      BY <2>1, <2>2 DEF Opens, IsLexeme
    <2> QED BY <1>10, <2>2, <2>3, <2>4
  <1> QED BY <1>7, <1>8, <1>9, <1>11, <1>12 DEF Tokenize_Line

(* Turning a link round leaves the texts where they are.                   *)
LEMMA LinkTurned ==
  ASSUME NEW h, Nodes(h), NEW k \in 1 .. Len(h), NEW n, NEW g, g = [h EXCEPT ![k].next = n]
  PROVE  Len(g) = Len(h) /\ \A j \in 1 .. Len(h) : g[j].text = h[j].text /\ g[j].type = h[j].type /\ g[j].expr = h[j].expr
  <1>1. Len(h) \in Nat /\ DOMAIN h = 1 .. Len(h) /\ IsNode(h, k)
    BY DEF Nodes, IsList
  <1>2. PICK b, c, d, e : h[k] = [next |-> b, type |-> c, text |-> d, expr |-> e]
    <2>1. h[k] = [next |-> h[k].next, type |-> h[k].type, text |-> h[k].text, expr |-> h[k].expr]
      BY <1>1 DEF IsNode
    <2> QED BY <2>1
  <1>3. PICK a : a = [next |-> n, type |-> c, text |-> d, expr |-> e]
    OBVIOUS
  <1>4. [h[k] EXCEPT !.next = n] = a
    BY <1>2, <1>3
  <1>5. g = [j \in 1 .. Len(h) |-> IF j = k THEN a ELSE h[j]]
    BY <1>1, <1>4
  <1>6. Len(g) = Len(h)
    <2>1. g = [j \in 1 .. Len(h) |-> g[j]]
      BY <1>5
    <2> QED BY <1>1, <2>1, LenOfList
  <1>7. /\ a.text = h[k].text /\ a.type = h[k].type /\ a.expr = h[k].expr
    BY <1>2, <1>3
  <1>8. \A j \in 1 .. Len(h) : g[j] = IF j = k THEN a ELSE h[j]
    BY <1>5
  <1> QED BY <1>6, <1>7, <1>8

LEMMA ReverseReads ==
  ASSUME ShapeInv, Reverse_List, NEW x, NEW T, ReadInv(x, T)
  PROVE  /\ ReadInv(x, T)' /\ pc' \in {"reverse", "identify"}
         /\ Texts(heap') = T /\ AsRead(heap') /\ Fresh(heap') /\ Cleared'
  <1>1. /\ pc = "reverse" /\ Nodes(heap) /\ AsRead(heap) /\ Cleared /\ Texts(heap) = T /\ Fresh(heap)
        /\ UNCHANGED <<port, text, pos, scratch, out>>
    BY DEF Reverse_List, ReadInv, ShapeInv
  <1>2. PICK g : g = heap'
    OBVIOUS
  <1>3. Len(g) = Len(heap) /\ \A k \in 1 .. Len(heap) : /\ g[k].text = heap[k].text
                                                        /\ g[k].type = heap[k].type /\ g[k].expr = heap[k].expr
    <2>1. CASE i # 0
      <3>1. g = [heap EXCEPT ![i].next = head] /\ i \in 1 .. Len(heap)
        BY <1>1, <1>2, <2>1 DEF Reverse_List, ShapeInv
      <3> QED BY <1>1, <3>1, LinkTurned
    <2>2. CASE i = 0
      BY <1>2, <2>2 DEF Reverse_List
    <2> QED BY <2>1, <2>2
  <1>4. Texts(g) = T /\ AsRead(g) /\ Fresh(g)
    <2>1. Texts(g) = Texts(heap)
      BY <1>3 DEF Texts
    <2> QED BY <1>1, <1>3, <2>1 DEF AsRead, Fresh
  <1>5. Cleared' /\ pc' \in {"reverse", "identify"}
    BY <1>1 DEF Cleared, Reverse_List
  <1>6. ReadInv(x, T)'
    BY <1>2, <1>4, <1>5 DEF ReadInv
  <1> QED BY <1>2, <1>4, <1>5, <1>6

-----------------------------------------------------------------------------
(* What digits and strings are written as *)

(* size[k] is how long the first k of the pieces seqs are, which are       *)
(* sequences over S; the text t is the first m of them.                    *)
Sizes(size, seqs, S) ==
    /\ size[0] = 0
    /\ \A k \in 0 .. Len(seqs) : size[k] \in Nat
    /\ \A k \in 1 .. Len(seqs) : /\ seqs[k] \in Seq(S) /\ Len(seqs[k]) \in Nat
                                 /\ size[k] = size[k - 1] + Len(seqs[k])
Within(t, from, e)      == \A j \in 1 .. Len(e) : t[from + j] = e[j]
Joined(t, m, size, seqs) ==
    \A k \in 1 .. m : size[k] <= size[m] /\ Within(t, size[k - 1], seqs[k])

LEMMA WithinConcat ==
  ASSUME NEW S, NEW t \in Seq(S), NEW e \in Seq(S), NEW u \in Seq(S), NEW from \in Nat
  PROVE  /\ Within(t \o e, Len(t), e)
         /\ from + Len(u) <= Len(t) /\ Within(t, from, u) => Within(t \o e, from, u)
  <1>1. /\ t \o e \in Seq(S) /\ Len(t) \in Nat /\ Len(e) \in Nat /\ Len(u) \in Nat
        /\ \A j \in 1 .. Len(t) + Len(e) : (t \o e)[j] = IF j <= Len(t) THEN t[j] ELSE e[j - Len(t)]
    BY ConcatProperties, LenProperties
  <1>2. PICK x, a, b, c : x = t \o e /\ a = Len(t) /\ b = Len(e) /\ c = Len(u)
    OBVIOUS
  <1>3. /\ a \in Nat /\ b \in Nat /\ c \in Nat
        /\ \A j \in 1 .. a + b : x[j] = IF j <= a THEN t[j] ELSE e[j - a]
    BY <1>1, <1>2
  <1>4. ASSUME NEW j \in 1 .. b
        PROVE  x[a + j] = e[j]
    <2>1. a + j \in 1 .. a + b /\ ~(a + j <= a) /\ (a + j) - a = j
      BY <1>3
    <2> QED BY <1>3, <2>1
  <1>5. ASSUME from + c <= a, \A j \in 1 .. c : t[from + j] = u[j], NEW j \in 1 .. c
        PROVE  x[from + j] = u[j]
    <2>1. from + j \in 1 .. a + b /\ from + j <= a
      BY <1>3, <1>5
    <2> QED BY <1>3, <1>5, <2>1
  <1> QED BY <1>2, <1>4, <1>5, Zenon DEF Within

(* The text x is t, the first a pieces, and one more.                      *)
Joins(x, t, e, S, seqs, size, a, b) ==
    /\ Sizes(size, seqs, S)
    /\ a \in 1 .. Len(seqs) /\ b \in 1 .. Len(seqs) /\ b = a + 1 /\ Len(seqs) \in Nat
    /\ t \in Seq(S) /\ Len(t) = size[a] /\ Joined(t, a, size, seqs)
    /\ e = seqs[b] /\ x = t \o e

LEMMA JoinedStep ==
  ASSUME NEW S, NEW seqs, NEW size, NEW a, NEW b, NEW t, NEW x, NEW e,
         Joins(x, t, e, S, seqs, size, a, b)
  PROVE  x \in Seq(S) /\ Len(x) = size[b] /\ Joined(x, b, size, seqs)
  <1>0. PICK n : n = Len(seqs)
    OBVIOUS
  <1>1. /\ b = a + 1 /\ n = Len(seqs) /\ n \in Nat /\ Sizes(size, seqs, S)
        /\ a \in 1 .. n /\ b \in 1 .. n
        /\ t \in Seq(S) /\ Len(t) = size[a] /\ Joined(t, a, size, seqs)
        /\ e = seqs[b] /\ x = t \o e
    BY <1>0, Zenon DEF Joins
  <1>2. a \in Nat /\ a \in 1 .. n /\ b \in 1 .. n /\ b - 1 = a /\ a \in 0 .. n /\ b \in 0 .. n
    BY <1>1
  <1>3. \A k \in 1 .. n : /\ seqs[k] \in Seq(S) /\ Len(seqs[k]) \in Nat /\ size[k] \in Nat /\ size[k - 1] \in Nat
                          /\ size[k] = size[k - 1] + Len(seqs[k])
    <2>1. \A k \in 1 .. n : k \in 0 .. n /\ k - 1 \in 0 .. n
      BY <1>1
    <2> QED BY <1>1, <2>1, Zenon DEF Sizes
  <1>4. e = seqs[b]
    BY <1>1
  <1>5. e \in Seq(S) /\ Len(e) \in Nat /\ size[b] = size[a] + Len(e) /\ size[a] \in Nat /\ size[b] \in Nat
    <2>1. /\ seqs[b] \in Seq(S) /\ Len(seqs[b]) \in Nat /\ size[b] \in Nat /\ size[b - 1] \in Nat
          /\ size[b] = size[b - 1] + Len(seqs[b])
      BY <1>2, <1>3, Zenon
    <2> QED BY <1>1, <1>2, <1>4, <2>1, Zenon
  <1>6. x = t \o e
    BY <1>1
  <1>7. x \in Seq(S) /\ Len(x) = size[b]
    <2>1. \A u, v \in Seq(S) : u \o v \in Seq(S) /\ Len(u \o v) = Len(u) + Len(v)
      BY ConcatProperties
    <2>2. t \o e \in Seq(S) /\ Len(t \o e) = Len(t) + Len(e)
      BY <1>1, <1>5, <2>1, Zenon
    <2> QED BY <1>1, <1>5, <1>6, <2>2
  <1>8. ASSUME NEW k \in 1 .. b
        PROVE  size[k] <= size[b] /\ Within(x, size[k - 1], seqs[k])
    <2>1. CASE k = b
      <3>1. Within(x, size[a], e)
        BY <1>1, <1>5, <1>6, WithinConcat, Zenon
      <3>2. size[b] <= size[b]
        BY <1>5
      <3> QED BY <1>2, <1>4, <2>1, <3>1, <3>2, Zenon
    <2>2. CASE k # b
      <3>1. k \in 1 .. a /\ k \in 1 .. n
        BY <1>1, <1>2, <2>2
      <3>2. size[k] <= size[a] /\ Within(t, size[k - 1], seqs[k])
        BY <1>1, <3>1, Zenon DEF Joined
      <3>3. PICK u, from : u = seqs[k] /\ from = size[k - 1]
        OBVIOUS
      <3>4. u \in Seq(S) /\ Len(u) \in Nat /\ size[k] \in Nat /\ from \in Nat /\ size[k] = from + Len(u)
        BY <1>3, <3>1, <3>3, Zenon
      <3>5. from + Len(u) <= Len(t) /\ size[k] <= size[b]
        BY <1>1, <1>5, <3>2, <3>4
      <3>6. Within(x, from, u)
        BY <1>1, <1>5, <1>6, <3>2, <3>3, <3>4, <3>5, WithinConcat, Zenon
      <3> QED BY <3>3, <3>5, <3>6, Zenon
    <2> QED BY <2>1, <2>2
  <1> QED BY <1>1, <1>7, <1>8, Zenon DEF Joined

(* The pieces one behind the other.                                        *)
LEMMA FlattenIs ==
  ASSUME NEW S, NEW seqs, IsList(seqs), NEW size, Sizes(size, seqs, S)
  PROVE  /\ FlattenSeq(seqs) \in Seq(S) /\ Len(FlattenSeq(seqs)) = size[Len(seqs)]
         /\ Joined(FlattenSeq(seqs), Len(seqs), size, seqs)
  <1>1. PICK n : n = Len(seqs)
    OBVIOUS
  <1>2. n \in Nat /\ seqs = [k \in 1 .. n |-> seqs[k]] /\ \A k \in 1 .. n : seqs[k] \in Seq(S)
    BY <1>1 DEF IsList, Sizes
  <1>3. CASE n = 0
    <2>1. FlattenSeq(seqs) = seqs
      BY <1>1, <1>3 DEF FlattenSeq
    <2>2. seqs \in [1 .. 0 -> S]
      BY <1>2, <1>3
    <2>3. seqs \in Seq(S)
      BY <2>2, SeqDef
    <2>4. Len(seqs) = size[Len(seqs)]
      BY <1>1, <1>3 DEF Sizes
    <2>5. \A k \in 1 .. 0 : FALSE
      OBVIOUS
    <2>6. Joined(seqs, n, size, seqs)
      BY <1>3, <2>5, Zenon DEF Joined
    <2> QED BY <1>1, <2>1, <2>3, <2>4, <2>6, Zenon
  <1>4. CASE n # 0
    <2>1. n - 1 \in Nat /\ 1 \in 1 .. n
      BY <1>2, <1>4
    <2> DEFINE V == [k \in 0 .. n - 1 |-> Seq(S)]
               F == [e \in (1 .. n - 1) \X Seq(S) |-> e[2] \o seqs[e[1] + 1]]
    <2>2. PICK base : base = seqs[1]
      OBVIOUS
    <2>3. base \in V[0] /\ \A k \in 1 .. n - 1 : V[k - 1] = Seq(S) /\ V[k] = Seq(S)
      BY <1>2, <2>1, <2>2
    <2>4. \A k \in 1 .. n - 1 : \A v \in Seq(S) : F[<<k, v>>] = v \o seqs[k + 1] /\ F[<<k, v>>] \in Seq(S)
      <3> TAKE k \in 1 .. n - 1
      <3> TAKE v \in Seq(S)
      <3>1. k + 1 \in 1 .. n
        BY <1>2
      <3>2. seqs[k + 1] \in Seq(S)
        BY <1>2, <3>1
      <3>3. v \o seqs[k + 1] \in Seq(S)
        BY <3>2, ConcatProperties
      <3> QED BY <3>3
    <2>5. PICK f : Recurs(f, n - 1, base, F) /\ \A k \in 0 .. n - 1 : f[k] \in V[k]
      <3> HIDE DEF V, F
      <3>1. \A k \in 1 .. n - 1 : \A v \in V[k - 1] : F[<<k, v>>] \in V[k]
        BY <2>3, <2>4
      <3> QED BY <2>1, <2>3, <3>1, Recursion
    <2>6. /\ f[0] = base /\ (\A k \in 0 .. n - 1 : f[k] \in Seq(S))
          /\ \A k \in 1 .. n - 1 : f[k] = f[k - 1] \o seqs[k + 1]
      <3>1. f[0] = base /\ \A k \in 1 .. n - 1 : f[k] = F[<<k, f[k - 1]>>]
        <4> HIDE DEF F
        <4> QED BY <2>1, <2>5 DEF Recurs
      <3>2. \A k \in 0 .. n - 1 : f[k] \in Seq(S)
        BY <2>5
      <3>3. \A k \in 1 .. n - 1 : k - 1 \in 0 .. n - 1
        BY <2>1
      <3>4. \A k \in 1 .. n - 1 : F[<<k, f[k - 1]>>] = f[k - 1] \o seqs[k + 1]
        <4> HIDE DEF F
        <4> QED BY <2>4, <3>2, <3>3
      <3> HIDE DEF F
      <3> QED BY <3>1, <3>2, <3>4
    <2> DEFINE Is(e) == e = [k \in 1 .. n |-> IF k = 1 THEN seqs[k] ELSE e[k - 1] \o seqs[k]]
               g == [k \in 1 .. n |-> f[k - 1]]
               c == CHOOSE e : Is(e)
    <2>7. Is(g)
      <3>1. ASSUME NEW k \in 1 .. n
            PROVE  g[k] = IF k = 1 THEN seqs[k] ELSE g[k - 1] \o seqs[k]
        <4>1. CASE k = 1
          BY <2>2, <2>6, <4>1
        <4>2. CASE k # 1
          <5>1. k - 1 \in 1 .. n - 1 /\ k - 1 \in 1 .. n /\ (k - 1) + 1 = k
            BY <1>2, <4>2
          <5>2. f[k - 1] = f[(k - 1) - 1] \o seqs[k]
            BY <2>6, <5>1
          <5>3. g[k] = f[k - 1] /\ g[k - 1] = f[(k - 1) - 1]
            BY <5>1
          <5> QED BY <4>2, <5>2, <5>3
        <4> QED BY <4>1, <4>2
      <3>2. g = [k \in 1 .. n |-> g[k]]
        OBVIOUS
      <3> HIDE DEF g
      <3> QED BY <3>1, <3>2
    <2>8. Is(c)
      <3> HIDE DEF Is, g
      <3> QED BY <2>7
    <2>9. FlattenSeq(seqs) = c[n]
      BY <1>1, <1>4 DEF FlattenSeq
    <2>10. c[1] = seqs[1] /\ \A k \in 2 .. n : c[k] = c[k - 1] \o seqs[k]
      <3>1. c = [k \in 1 .. n |-> IF k = 1 THEN seqs[k] ELSE c[k - 1] \o seqs[k]]
        BY <2>8
      <3> HIDE DEF c
      <3>2. \A k \in 1 .. n : c[k] = IF k = 1 THEN seqs[k] ELSE c[k - 1] \o seqs[k]
        BY <3>1, Zenon
      <3>3. c[1] = IF 1 = 1 THEN seqs[1] ELSE c[1 - 1] \o seqs[1]
        BY <2>1, <3>2, Zenon
      <3>4. \A k \in 2 .. n : k # 1 /\ k \in 1 .. n
        BY <1>2
      <3>5. \A k \in 2 .. n : c[k] = c[k - 1] \o seqs[k]
        BY <3>2, <3>4, Zenon
      <3> QED BY <3>3, <3>5, Zenon
    <2> HIDE DEF c, g, Is, F, V
    <2> DEFINE Ok(m) == c[m] \in Seq(S) /\ Len(c[m]) = size[m] /\ Joined(c[m], m, size, seqs)
               R == {m \in 0 .. n - 1 : Ok(m + 1)}
    <2>11. 0 \in R
      <3>1. seqs[1] \in Seq(S) /\ Len(seqs[1]) \in Nat /\ size[1] = size[1 - 1] + Len(seqs[1]) /\ size[0] = 0
        BY <1>1, <2>1, Zenon DEF Sizes
      <3>2. size[1] = Len(seqs[1]) /\ size[1 - 1] = 0 /\ size[1] <= size[1]
        BY <3>1
      <3>3. Within(seqs[1], 0, seqs[1])
        <4>1. \A j \in 1 .. Len(seqs[1]) : 0 + j = j
          BY <3>1
        <4> QED BY <4>1, Zenon DEF Within
      <3>4. \A k \in 1 .. 1 : k = 1
        OBVIOUS
      <3>5. Joined(seqs[1], 1, size, seqs)
        BY <3>2, <3>3, <3>4, Zenon DEF Joined
      <3>6. Ok(1)
        BY <2>10, <3>1, <3>2, <3>5, Zenon
      <3>7. 0 \in 0 .. n - 1 /\ 0 + 1 = 1
        BY <2>1
      <3> HIDE DEF Ok
      <3> QED BY <3>6, <3>7, Zenon
    <2>12. ASSUME NEW m \in 0 .. (n - 1) - 1, m \in R
           PROVE  m + 1 \in R
      <3>1. PICK a : a = m + 1
        OBVIOUS
      <3>2. PICK b : b = a + 1
        OBVIOUS
      <3>3. a \in 1 .. n /\ b \in 1 .. n /\ b \in 2 .. n /\ b - 1 = a /\ a \in 0 .. n - 1
        BY <1>2, <3>1, <3>2
      <3>4. Ok(a)
        BY <2>12, <3>1, Zenon
      <3>5. PICK t, x, e : t = c[a] /\ x = c[b] /\ e = seqs[b]
        OBVIOUS
      <3>6. c[b] = c[b - 1] \o seqs[b]
        BY <2>10, <3>3, Zenon
      <3>7. x = t \o e
        BY <3>3, <3>5, <3>6, Zenon
      <3>8. t \in Seq(S) /\ Len(t) = size[a] /\ Joined(t, a, size, seqs)
        BY <3>4, <3>5, Zenon
      <3>9. x \in Seq(S) /\ Len(x) = size[b] /\ Joined(x, b, size, seqs)
        <4>1. Sizes(size, seqs, S) /\ n \in Nat /\ n = Len(seqs) /\ b = a + 1 /\ e = seqs[b]
          BY <1>1, <1>2, <3>2, <3>5
        <4>2. a \in 1 .. n /\ b \in 1 .. n
          BY <3>3
        <4>3. Joins(x, t, e, S, seqs, size, a, b)
          BY <3>7, <3>8, <4>1, <4>2, Zenon DEF Joins
        <4> HIDE DEF Ok, R
        <4> QED BY <4>3, JoinedStep, Zenon
      <3>10. Ok(b)
        BY <3>5, <3>9, Zenon
      <3> HIDE DEF Ok
      <3> QED BY <3>1, <3>2, <3>3, <3>10, Zenon
    <2>13. Ok(n)
      <3> HIDE DEF Ok
      <3>1. 0 .. n - 1 \subseteq R
        <4> HIDE DEF R
        <4>1. PICK w, Z : w = n - 1 /\ Z = R
          OBVIOUS
        <4>2. ASSUME NEW m \in 0 .. w - 1, m \in Z
              PROVE  m + 1 \in Z
          BY <2>12, <4>1, <4>2
        <4>3. w \in Nat /\ 0 \in Z
          BY <2>1, <2>11, <4>1
        <4>4. 0 .. w \subseteq Z
          BY <4>2, <4>3, Induction
        <4> QED BY <4>1, <4>4
      <3>2. n - 1 \in 0 .. n - 1 /\ (n - 1) + 1 = n
        BY <1>2, <2>1
      <3>3. n - 1 \in R
        BY <3>1, <3>2, Zenon
      <3> QED BY <3>2, <3>3, Zenon
    <2> QED BY <1>1, <2>9, <2>13, Zenon
  <1> QED BY <1>3, <1>4

(* n pieces of equal length.                                               *)
Even(seqs, S, n, w) ==
    /\ n \in Nat /\ IsList(seqs) /\ Len(seqs) = n /\ w \in {2, 3}
    /\ \A k \in 1 .. n : seqs[k] \in Seq(S) /\ Len(seqs[k]) = w

LEMMA FlattenEven ==
  ASSUME NEW S, NEW n, NEW seqs, NEW w, Even(seqs, S, n, w)
  PROVE  /\ FlattenSeq(seqs) \in Seq(S) /\ Len(FlattenSeq(seqs)) = w * n
         /\ \A k \in 1 .. n : Within(FlattenSeq(seqs), w * (k - 1), seqs[k])
  <1> USE DEF Even
  <1> DEFINE size == [k \in 0 .. n |-> w * k]
  <1>1. /\ \A k \in 0 .. n : size[k] \in Nat /\ size[k] = w * k
        /\ \A k \in 1 .. n : size[k] = size[k - 1] + w /\ size[k - 1] = w * (k - 1)
    <2>1. CASE w = 2
      BY <2>1
    <2>2. CASE w = 3
      BY <2>2
    <2> QED BY <2>1, <2>2
  <1>2. size[0] = 0 /\ size[n] = w * n
    BY <1>1
  <1> HIDE DEF size
  <1>3. Sizes(size, seqs, S)
    <2>1. \A k \in 0 .. Len(seqs) : size[k] \in Nat
      BY <1>1
    <2>2. \A k \in 1 .. Len(seqs) : /\ seqs[k] \in Seq(S) /\ Len(seqs[k]) \in Nat
                                    /\ size[k] = size[k - 1] + Len(seqs[k])
      <3> TAKE k \in 1 .. Len(seqs)
      <3>1. k \in 1 .. n /\ w \in Nat
        OBVIOUS
      <3>2. seqs[k] \in Seq(S) /\ Len(seqs[k]) = w /\ size[k] = size[k - 1] + w
        BY <1>1, <3>1
      <3> QED BY <3>1, <3>2
    <2> QED BY <1>2, <2>1, <2>2, Zenon DEF Sizes
  <1>4. PICK t : t = FlattenSeq(seqs)
    OBVIOUS
  <1>5. t \in Seq(S) /\ Len(t) = size[n] /\ Joined(t, n, size, seqs)
    BY <1>3, <1>4, FlattenIs
  <1>6. \A k \in 1 .. n : Within(t, size[k - 1], seqs[k])
    BY <1>5, Zenon DEF Joined
  <1> QED BY <1>1, <1>2, <1>4, <1>5, <1>6

Digit   == {hex1[k] : k \in 1 .. 16}
(* What a token or a string can be replaced by is made of these.           *)
Printed == Chars \cup Digit \cup {".", "SP", "LF"}
             \cup {hex1[(Ascii[c] \div 16) + 1] : c \in Chars}
             \cup {hex1[(Ascii[c] % 16) + 1] : c \in Chars}

LEMMA SeqWiden ==
  ASSUME NEW A, NEW B, A \subseteq B, NEW s \in Seq(A)
  PROVE  s \in Seq(B)
  <1>1. \E n \in Nat : s \in [1 .. n -> A]
    BY SeqDef
  <1>2. \E n \in Nat : s \in [1 .. n -> B]
    BY <1>1
  <1> QED BY <1>2, SeqDef

LEMMA PrintedSets == Digit \subseteq Printed /\ Chars \subseteq Printed
  BY DEF Printed

Octet == 0 .. 255

(* Two digits for a byte.                                                  *)
LEMMA ByteDigits ==
  ASSUME NEW b \in Octet
  PROVE  hex8(b) \in Seq(Digit) /\ Len(hex8(b)) = 2
         /\ hex8(b)[1] = hex1[(b \div 16) + 1] /\ hex8(b)[2] = hex1[(b % 16) + 1]
         /\ (b \div 16) + 1 \in 1 .. 16 /\ (b % 16) + 1 \in 1 .. 16
  <1>1. (b \div 16) + 1 \in 1 .. 16 /\ (b % 16) + 1 \in 1 .. 16
    BY DEF Octet
  <1>2. PICK c, d : c = hex1[(b \div 16) + 1] /\ d = hex1[(b % 16) + 1]
    OBVIOUS
  <1>3. c \in Digit /\ d \in Digit
    <2> HIDE DEF hex1
    <2> QED BY <1>1, <1>2 DEF Digit
  <1>4. hex8(b) = <<c, d>>
    BY <1>2, Zenon DEF hex8
  <1>5. <<c, d>> \in Seq(Digit) /\ Len(<<c, d>>) = 2 /\ <<c, d>>[1] = c /\ <<c, d>>[2] = d
    BY <1>3
  <1> QED BY <1>1, <1>2, <1>4, <1>5, Zenon

(* t spells the bytes s.                                                   *)
Spells(t, s) ==
    \A k \in 1 .. Len(s) : /\ t[2 * k - 1] = hex1[(s[k] \div 16) + 1]
                           /\ t[2 * k] = hex1[(s[k] % 16) + 1]

(* Pieces of two digits.                                                   *)
LEMMA FlattenPairs ==
  ASSUME NEW n, NEW e, Even(e, Digit, n, 2)
  PROVE  /\ FlattenSeq(e) \in Seq(Digit) /\ Len(FlattenSeq(e)) = 2 * n
         /\ \A k \in 1 .. n : Within(FlattenSeq(e), 2 * (k - 1), e[k])
  BY FlattenEven, Zenon

(* The digits of a sequence of bytes.                                      *)
LEMMA BytesDigits ==
  ASSUME NEW s, NEW n \in Nat, IsList(s), Len(s) = n, \A k \in 1 .. n : s[k] \in Octet
  PROVE  hexBytes(s) \in Seq(Digit) /\ Len(hexBytes(s)) = 2 * n /\ Spells(hexBytes(s), s)
  <1>1. PICK e : e = [k \in 1 .. n |-> hex8(s[k])]
    OBVIOUS
  <1>2. DOMAIN s = 1 .. n
    BY DEF IsList
  <1>3. IsList(e) /\ Len(e) = n /\ \A k \in 1 .. n : e[k] = hex8(s[k])
    <2>1. e = [k \in 1 .. n |-> e[k]]
      BY <1>1
    <2>2. \A k \in 1 .. n : e[k] = hex8(s[k])
      BY <1>1
    <2> QED BY <2>1, <2>2, LenOfList
  <1>4. \A k \in 1 .. n : e[k] \in Seq(Digit) /\ Len(e[k]) = 2
    <2> TAKE k \in 1 .. n
    <2>1. PICK b : b = s[k]
      OBVIOUS
    <2>2. b \in Octet /\ e[k] = hex8(b)
      BY <1>3, <2>1, Zenon
    <2> QED BY <2>2, ByteDigits, Zenon
  <1>5. PICK t : t = hexBytes(s)
    OBVIOUS
  <1>6. t = FlattenSeq(e)
    BY <1>1, <1>2, <1>5 DEF hexBytes
  <1>7. t \in Seq(Digit) /\ Len(t) = 2 * n /\ \A k \in 1 .. n : Within(t, 2 * (k - 1), e[k])
    <2>1. Even(e, Digit, n, 2)
      BY <1>3, <1>4 DEF Even
    <2> QED BY <1>6, <2>1, FlattenPairs, Zenon
  <1>8. ASSUME NEW k \in 1 .. n
        PROVE  t[2 * k - 1] = hex1[(s[k] \div 16) + 1] /\ t[2 * k] = hex1[(s[k] % 16) + 1]
    <2>1. PICK b, d : b = s[k] /\ d = e[k]
      OBVIOUS
    <2>2. d = hex8(b) /\ b \in Octet /\ Within(t, 2 * (k - 1), d)
      BY <1>3, <1>7, <2>1, Zenon
    <2>3. Len(d) = 2 /\ d[1] = hex1[(b \div 16) + 1] /\ d[2] = hex1[(b % 16) + 1]
      BY <2>2, ByteDigits, Zenon
    <2>4. 1 \in 1 .. 2 /\ 2 \in 1 .. 2
      OBVIOUS
    <2>5. t[2 * (k - 1) + 1] = d[1] /\ t[2 * (k - 1) + 2] = d[2]
      BY <2>2, <2>3, <2>4, Zenon DEF Within
    <2>6. 2 * (k - 1) + 1 = 2 * k - 1 /\ 2 * (k - 1) + 2 = 2 * k
      OBVIOUS
    <2> QED BY <2>1, <2>3, <2>5, <2>6, Zenon
  <1> QED BY <1>5, <1>7, <1>8, Zenon DEF Spells

(* A word in hexadecimal, lowest byte first.                               *)
(* s is t with u behind it.                                                *)
Behind(s, t, u) ==
    /\ Len(s) = Len(t) + Len(u) /\ Len(t) \in Nat /\ Len(u) \in Nat
    /\ \A j \in 1 .. Len(t) : s[j] = t[j]
    /\ \A j \in 1 .. Len(u) : s[Len(t) + j] = u[j]

LEMMA ConcatIs ==
  ASSUME NEW A, NEW t \in Seq(A), NEW u \in Seq(A)
  PROVE  t \o u \in Seq(A) /\ Behind(t \o u, t, u)
  <1>1. /\ t \o u \in Seq(A) /\ Len(t \o u) = Len(t) + Len(u) /\ Len(t) \in Nat /\ Len(u) \in Nat
        /\ \A j \in 1 .. Len(t) + Len(u) : (t \o u)[j] = IF j <= Len(t) THEN t[j] ELSE u[j - Len(t)]
    BY ConcatProperties, LenProperties
  <1>2. PICK a, b, s : a = Len(t) /\ b = Len(u) /\ s = t \o u
    OBVIOUS
  <1>3. a \in Nat /\ b \in Nat /\ \A j \in 1 .. a + b : s[j] = IF j <= a THEN t[j] ELSE u[j - a]
    BY <1>1, <1>2
  <1>4. \A j \in 1 .. a : s[j] = t[j]
    <2>1. \A j \in 1 .. a : j \in 1 .. a + b /\ j <= a
      BY <1>3
    <2> QED BY <1>3, <2>1, Zenon
  <1>5. \A j \in 1 .. b : s[a + j] = u[j]
    <2>1. \A j \in 1 .. b : a + j \in 1 .. a + b /\ ~(a + j <= a) /\ (a + j) - a = j
      BY <1>3
    <2> QED BY <1>3, <2>1, Zenon
  <1>6. Len(s) = a + b /\ a \in Nat /\ b \in Nat
    BY <1>1, <1>2
  <1>7. Behind(s, t, u)
    BY <1>2, <1>4, <1>5, <1>6, Zenon DEF Behind
  <1> QED BY <1>1, <1>2, <1>7, Zenon

LEMMA PairIs ==
  ASSUME NEW A, NEW a \in A, NEW b \in A, NEW t, t = <<a, b>>
  PROVE  t \in Seq(A) /\ Len(t) = 2 /\ t[1] = a /\ t[2] = b
  OBVIOUS

FourAre(s, a, b, c, d) == s[1] = a /\ s[2] = b /\ s[3] = c /\ s[4] = d

LEMMA TwoAndTwo ==
  ASSUME NEW A, NEW t \in Seq(A), NEW u \in Seq(A), Len(t) = 2, Len(u) = 2
  PROVE  t \o u \in Seq(A) /\ Len(t \o u) = 4 /\ FourAre(t \o u, t[1], t[2], u[1], u[2])
  <1>1. PICK s : s = t \o u
    OBVIOUS
  <1>2. s \in Seq(A) /\ Behind(s, t, u)
    BY <1>1, ConcatIs, Zenon
  <1>3. Len(s) = 4 /\ FourAre(s, t[1], t[2], u[1], u[2])
    BY <1>2 DEF Behind, FourAre
  <1> QED BY <1>1, <1>2, <1>3, Zenon

(* A half, without the interval, which is costly to reason about.          *)
IsHalf(h) == h \in Nat /\ h < 65536

LEMMA HalfBytes ==
  ASSUME NEW h, IsHalf(h)
  PROVE  h % 256 \in Octet /\ h \div 256 \in Octet
  <1>1. h \in Nat /\ h < 65536
    BY DEF IsHalf
  <1> QED BY <1>1 DEF Octet

LEMMA WordBytes ==
  ASSUME NEW lo, NEW hi, IsHalf(lo), IsHalf(hi), NEW v, v = [hi |-> hi, lo |-> lo], NEW s, s = Bytes4(v)
  PROVE  /\ IsList(s) /\ Len(s) = 4 /\ \A k \in 1 .. 4 : s[k] \in Octet
         /\ s[1] = lo % 256 /\ s[2] = lo \div 256 /\ s[3] = hi % 256 /\ s[4] = hi \div 256
  <1>1. PICK a, b, c, d : a = lo % 256 /\ b = lo \div 256 /\ c = hi % 256 /\ d = hi \div 256
    OBVIOUS
  <1>2. a \in Octet /\ b \in Octet /\ c \in Octet /\ d \in Octet
    BY <1>1, HalfBytes, ZenonT(30)
  <1>3. v.lo = lo /\ v.hi = hi
    OBVIOUS
  <1>4. PICK t, u : t = <<a, b>> /\ u = <<c, d>>
    OBVIOUS
  <1>5. s \in Seq(Octet) /\ Len(s) = 4 /\ s[1] = a /\ s[2] = b /\ s[3] = c /\ s[4] = d
    <2>1. s = t \o u
      BY <1>1, <1>3, <1>4, ZenonT(30) DEF Bytes4, Bytes2
    <2>2. /\ t \in Seq(Octet) /\ Len(t) = 2 /\ t[1] = a /\ t[2] = b
          /\ u \in Seq(Octet) /\ Len(u) = 2 /\ u[1] = c /\ u[2] = d
      BY <1>2, <1>4, PairIs, Zenon
    <2>3. s \in Seq(Octet) /\ Len(s) = 4 /\ FourAre(s, t[1], t[2], u[1], u[2])
      BY <2>1, <2>2, TwoAndTwo, Zenon
    <2> QED BY <2>2, <2>3, Zenon DEF FourAre
  <1>6. IsList(s)
    BY <1>5, SeqIsList, Zenon
  <1>7. \A k \in 1 .. 4 : k = 1 \/ k = 2 \/ k = 3 \/ k = 4
    OBVIOUS
  <1>8. \A k \in 1 .. 4 : s[k] \in Octet
    BY <1>2, <1>5, <1>7, Zenon
  <1> QED BY <1>1, <1>5, <1>6, <1>8, Zenon

LEMMA WordDigits ==
  ASSUME NEW lo, NEW hi, IsHalf(lo), IsHalf(hi), NEW v, v = [hi |-> hi, lo |-> lo],
         NEW s, s = Bytes4(v), NEW t, t = hex32l(v)
  PROVE  t \in Seq(Digit) /\ Len(t) = 8 /\ Spells(t, s)
  <1>1. IsList(s) /\ Len(s) = 4 /\ \A k \in 1 .. 4 : s[k] \in Octet
    BY WordBytes
  <1>2. t = hexBytes(s)
    BY Zenon DEF hex32l
  <1>3. 2 * 4 = 8 /\ 4 \in Nat
    OBVIOUS
  <1>4. t \in Seq(Digit) /\ Len(t) = 2 * 4 /\ Spells(t, s)
    BY <1>1, <1>2, <1>3, BytesDigits
  <1> QED BY <1>3, <1>4

(* A string in hexadecimal: each byte, and the zero behind them, takes its *)
(* digits and what separates them.                                         *)
Apart(p) == IF p = "riscv64" THEN 3 ELSE 2

LEMMA HexStringIs ==
  ASSUME NEW p, NEW s \in Seq(Chars)
  PROVE  HexString(p, s) \in Seq(Printed) /\ Len(HexString(p, s)) = Apart(p) * (Len(s) + 1)
  <1>1. PICK n : n = Len(s) + 1
    OBVIOUS
  <1>2. n \in Nat /\ Len(s) \in Nat
    BY <1>1, LenProperties
  <1>3. PICK w, sep : w = Apart(p) /\ sep = IF p = "riscv64" THEN <<"SP">> ELSE <<>>
    OBVIOUS
  <1>4. w \in {2, 3} /\ sep \in Seq(Printed) /\ Len(sep) = w - 2
    <2>1. "SP" \in Printed
      BY Zenon DEF Printed
    <2>2. <<"SP">> \in Seq(Printed) /\ Len(<<"SP">>) = 1 /\ << >> \in Seq(Printed) /\ Len(<< >>) = 0
      BY <2>1
    <2> QED BY <1>3, <2>2 DEF Apart
  <1> DEFINE code(k) == hex8(IF k > Len(s) THEN 0 ELSE Ascii[s[k]])
             e == [k \in 1 .. n |-> code(k) \o sep]
  <1>5. ASSUME NEW k \in 1 .. n
        PROVE  code(k) \in Seq(Printed) /\ Len(code(k)) = 2
    <2>1. CASE k > Len(s)
      <3>1. code(k) = hex8(0) /\ 0 \in Octet
        BY <2>1 DEF Octet
      <3>2. hex8(0) \in Seq(Digit) /\ Len(hex8(0)) = 2
        BY <3>1, ByteDigits, Zenon
      <3>3. hex8(0) \in Seq(Printed)
        BY <3>2, PrintedSets, SeqWiden, Zenon
      <3> QED BY <3>1, <3>2, <3>3, Zenon
    <2>2. CASE ~(k > Len(s))
      <3>1. k \in 1 .. Len(s)
        BY <1>1, <1>2, <2>2
      <3>2. PICK c : c = s[k]
        OBVIOUS
      <3>3. c \in Chars
        BY <3>1, <3>2
      <3>4. code(k) = hex8(Ascii[c])
        BY <2>2, <3>2, Zenon
      <3>5. PICK a, b : a = hex1[(Ascii[c] \div 16) + 1] /\ b = hex1[(Ascii[c] % 16) + 1]
        OBVIOUS
      <3>6. a \in Printed /\ b \in Printed
        BY <3>3, <3>5, Zenon DEF Printed
      <3>7. code(k) = <<a, b>>
        BY <3>4, <3>5, Zenon DEF hex8
      <3> HIDE DEF code
      <3> QED BY <3>6, <3>7, PairIs
    <2> QED BY <2>1, <2>2
  <1> HIDE DEF code
  <1>6. e = [k \in 1 .. n |-> e[k]] /\ \A k \in 1 .. n : e[k] = code(k) \o sep
    OBVIOUS
  <1> HIDE DEF e
  <1>7. IsList(e) /\ Len(e) = n
    BY <1>2, <1>6, LenOfList
  <1>8. \A k \in 1 .. n : e[k] \in Seq(Printed) /\ Len(e[k]) = w
    <2> TAKE k \in 1 .. n
    <2>1. PICK c, d : c = code(k) /\ d = e[k]
      OBVIOUS
    <2>2. d = c \o sep /\ c \in Seq(Printed) /\ Len(c) = 2
      BY <1>5, <1>6, <2>1
    <2>3. d \in Seq(Printed) /\ Behind(d, c, sep)
      BY <1>4, <2>2, ConcatIs, Zenon
    <2>4. Len(d) = 2 + (w - 2) /\ w \in Nat
      BY <1>4, <2>2, <2>3 DEF Behind
    <2>5. Len(d) = w
      BY <2>4
    <2> QED BY <2>1, <2>3, <2>5, Zenon
  <1>9. FlattenSeq(e) \in Seq(Printed) /\ Len(FlattenSeq(e)) = w * n
    <2>1. Even(e, Printed, n, w)
      BY <1>2, <1>4, <1>7, <1>8 DEF Even
    <2> QED BY <2>1, FlattenEven, Zenon
  <1>10. HexString(p, s) = FlattenSeq(e)
    BY <1>1, <1>3, Zenon DEF HexString, e, code
  <1> QED BY <1>1, <1>3, <1>9, <1>10, Zenon

(* The digits read back.                                                   *)
LEMMA DecimalIs ==
  /\ DOMAIN Decimal = {"0", "1", "2", "3", "4", "5", "6", "7", "8", "9"}
  /\ \A c \in DOMAIN Decimal : Decimal[c] \in 0 .. 9 /\ hex1[Decimal[c] + 1] = c
  <1>1. DOMAIN Decimal = {"0", "1", "2", "3", "4", "5", "6", "7", "8", "9"}
    BY DEF Decimal
  <1>2. /\ hex1[1] = "0" /\ hex1[2] = "1" /\ hex1[3] = "2" /\ hex1[4] = "3" /\ hex1[5] = "4"
        /\ hex1[6] = "5" /\ hex1[7] = "6" /\ hex1[8] = "7" /\ hex1[9] = "8" /\ hex1[10] = "9"
    BY DEF hex1
  <1>3. ASSUME NEW c \in DOMAIN Decimal
        PROVE  \E d \in 0 .. 9 : hex1[d + 1] = c
    <2>1. \E k \in 1 .. 10 : hex1[k] = c
      BY <1>1, <1>2
    <2>2. PICK k \in 1 .. 10 : hex1[k] = c
      BY <2>1
    <2>3. k - 1 \in 0 .. 9 /\ (k - 1) + 1 = k
      OBVIOUS
    <2> QED BY <2>2, <2>3, Zenon
  <1>4. ASSUME NEW c \in DOMAIN Decimal
        PROVE  Decimal[c] \in 0 .. 9 /\ hex1[Decimal[c] + 1] = c
    <2>1. Decimal[c] = CHOOSE d \in 0 .. 9 : hex1[d + 1] = c
      BY <1>1 DEF Decimal
    <2> QED BY <1>3, <2>1, Zenon
  <1> QED BY <1>1, <1>4

LEMMA AboveNineIs ==
  /\ DOMAIN AboveNine = 1 .. 13
  /\ \A k \in 1 .. 13 : AboveNine[k] \notin DOMAIN Decimal
  /\ \A k, l \in 1 .. 13 : AboveNine[k] = AboveNine[l] => k = l
  <1> DEFINE Others == {":", "<", "=", ">", "?", "@", "A", "B", "C", "D", "E", "F",
                        "0", "1", "2", "3", "4", "5", "6", "7", "8", "9"}
  <1>1. PICK semi : /\ AboveNine = << ":", semi, "<", "=", ">", "?", "@", "A", "B", "C", "D", "E", "F" >>
                    /\ semi \notin Others
    <2>1. ";" \notin Others
      BY Zenon
    <2>2. AboveNine = << ":", ";", "<", "=", ">", "?", "@", "A", "B", "C", "D", "E", "F" >>
      BY Zenon DEF AboveNine
    <2> HIDE DEF Others
    <2> QED BY <2>1, <2>2, Zenon
  <1>2. DOMAIN AboveNine = 1 .. 13
    BY <1>1
  <1>3. ASSUME NEW k \in 1 .. 13
        PROVE  AboveNine[k] \notin DOMAIN Decimal
    BY <1>1, DecimalIs
  <1>4. ASSUME NEW k \in 1 .. 13, NEW l \in 1 .. 13, AboveNine[k] = AboveNine[l]
        PROVE  k = l
    BY <1>1, <1>4
  <1> QED BY <1>2, <1>3, <1>4

LEMMA HexadecimalIs ==
  /\ DOMAIN Hexadecimal = DOMAIN Decimal \cup Range(AboveNine)
  /\ \A c \in DOMAIN Hexadecimal : Hexadecimal[c] \in 0 .. 15
  /\ \A c \in DOMAIN Decimal : Hexadecimal[c] = Decimal[c]
  /\ Hexadecimal["A"] = 10 /\ Hexadecimal["B"] = 11 /\ Hexadecimal["C"] = 12
  /\ Hexadecimal["D"] = 13 /\ Hexadecimal["E"] = 14 /\ Hexadecimal["F"] = 15
  <1>1. DOMAIN Hexadecimal = DOMAIN Decimal \cup Range(AboveNine)
    BY DEF Hexadecimal
  <1>2. \A c \in DOMAIN Hexadecimal :
          Hexadecimal[c] = IF c \in DOMAIN Decimal THEN Decimal[c]
                           ELSE 2 + CHOOSE k \in DOMAIN AboveNine : AboveNine[k] = c
    BY DEF Hexadecimal
  <1>3. \A c \in DOMAIN Decimal : Hexadecimal[c] = Decimal[c]
    BY <1>1, <1>2, Zenon
  <1>4. ASSUME NEW k \in 1 .. 13
        PROVE  AboveNine[k] \in DOMAIN Hexadecimal /\ Hexadecimal[AboveNine[k]] = 2 + k
    <2>1. PICK c : c = AboveNine[k]
      OBVIOUS
    <2>2. c \in DOMAIN Hexadecimal /\ c \notin DOMAIN Decimal
      BY <1>1, <2>1, AboveNineIs, Zenon DEF Range
    <2>3. Hexadecimal[c] = 2 + CHOOSE l \in DOMAIN AboveNine : AboveNine[l] = c
      BY <1>2, <2>2, Zenon
    <2>4. (CHOOSE l \in DOMAIN AboveNine : AboveNine[l] = c) = k
      BY <2>1, AboveNineIs, Zenon
    <2> QED BY <2>1, <2>2, <2>3, <2>4
  <1>5. ASSUME NEW c, NEW k \in 1 .. 13, AboveNine[k] = c
        PROVE  Hexadecimal[c] = 2 + k
    BY <1>4, <1>5, Zenon
  <1>6. /\ Hexadecimal["A"] = 10 /\ Hexadecimal["B"] = 11 /\ Hexadecimal["C"] = 12
        /\ Hexadecimal["D"] = 13 /\ Hexadecimal["E"] = 14 /\ Hexadecimal["F"] = 15
    <2>1. /\ AboveNine[8] = "A" /\ AboveNine[9] = "B" /\ AboveNine[10] = "C"
          /\ AboveNine[11] = "D" /\ AboveNine[12] = "E" /\ AboveNine[13] = "F"
      BY DEF AboveNine
    <2> QED BY <1>5, <2>1
  <1>7. \A c \in DOMAIN Hexadecimal : Hexadecimal[c] \in 0 .. 15
    <2>1. ASSUME NEW c \in DOMAIN Decimal
          PROVE  Hexadecimal[c] \in 0 .. 15
      <3>1. PICK d : d = Decimal[c]
        OBVIOUS
      <3>2. d \in 0 .. 9 /\ Hexadecimal[c] = d
        BY <1>3, <3>1, DecimalIs, Zenon
      <3>3. d \in 0 .. 15
        BY <3>2
      <3> QED BY <3>2, <3>3
    <2>2. ASSUME NEW c \in Range(AboveNine)
          PROVE  Hexadecimal[c] \in 0 .. 15
      <3>1. PICK k \in 1 .. 13 : AboveNine[k] = c
        BY AboveNineIs, Zenon DEF Range
      <3>2. Hexadecimal[c] = 2 + k
        BY <1>5, <3>1, Zenon
      <3> QED BY <3>2
    <2> QED BY <1>1, <2>1, <2>2, Zenon
  <1> QED BY <1>1, <1>3, <1>6, <1>7

(* Whatever a text is read as is a number.                                 *)
LEMMA PositionalIs ==
  ASSUME NEW s, IsList(s), NEW base \in Nat, NEW digit, \A c \in DOMAIN digit : digit[c] \in Int
  PROVE  Positional(s, base, digit) \in Int
  <1>1. PICK n : n = Len(s)
    OBVIOUS
  <1>2. n \in Nat /\ DOMAIN s = 1 .. n
    BY <1>1 DEF IsList
  <1>3. CASE ~(Range(s) \subseteq DOMAIN digit)
    <2>1. Positional(s, base, digit) = 0
      BY <1>3, Zenon DEF Positional
    <2> QED BY <2>1
  <1>4. CASE Range(s) \subseteq DOMAIN digit
    <2>1. \A k \in 1 .. n : digit[s[k]] \in Int
      <3> TAKE k \in 1 .. n
      <3>1. s[k] \in Range(s)
        BY <1>2, Zenon DEF Range
      <3> QED BY <1>4, <3>1, Zenon
    <2> DEFINE V == [k \in 0 .. n |-> Int]
               F == [e \in (1 .. n) \X Int |-> e[2] * base + digit[s[e[1]]]]
               Is(f) == f = [k \in 0 .. n |-> IF k = 0 THEN 0 ELSE f[k - 1] * base + digit[s[k]]]
               c == CHOOSE f : Is(f)
    <2>2. \A k \in 1 .. n : \A v \in Int : F[<<k, v>>] = v * base + digit[s[k]] /\ F[<<k, v>>] \in Int
      <3> TAKE k \in 1 .. n
      <3> TAKE v \in Int
      <3>1. F[<<k, v>>] = v * base + digit[s[k]]
        OBVIOUS
      <3>2. PICK d, e : d = digit[s[k]] /\ e = v * base
        OBVIOUS
      <3>3. d \in Int /\ e \in Int
        BY <2>1, <3>2
      <3> QED BY <3>1, <3>2, <3>3
    <2>3. 0 \in V[0] /\ \A k \in 1 .. n : V[k - 1] = Int /\ V[k] = Int
      BY <1>2
    <2>4. PICK f : Recurs(f, n, 0, F) /\ \A k \in 0 .. n : f[k] \in V[k]
      <3> HIDE DEF V, F
      <3>1. \A k \in 1 .. n : \A v \in V[k - 1] : F[<<k, v>>] \in V[k]
        BY <2>2, <2>3
      <3> QED BY <1>2, <2>3, <3>1, Recursion
    <2>5. \A k \in 0 .. n : f[k] \in Int
      BY <1>2, <2>4
    <2>6. \A k \in 1 .. n : k - 1 \in 0 .. n
      BY <1>2
    <2>7. \A k \in 1 .. n : F[<<k, f[k - 1]>>] = f[k - 1] * base + digit[s[k]]
      <3> HIDE DEF F
      <3> QED BY <2>2, <2>5, <2>6, Zenon
    <2>8. f = [k \in 0 .. n |-> IF k = 0 THEN 0 ELSE F[<<k, f[k - 1]>>]]
      BY <2>4, Zenon DEF Recurs
    <2> HIDE DEF F
    <2>9. Is(f)
      <3>1. \A k \in 0 .. n : (IF k = 0 THEN 0 ELSE F[<<k, f[k - 1]>>])
                               = (IF k = 0 THEN 0 ELSE f[k - 1] * base + digit[s[k]])
        <4>1. \A k \in 0 .. n : k # 0 => k \in 1 .. n
          BY <1>2
        <4> QED BY <2>7, <4>1, Zenon
      <3>2. PICK a, b : /\ a = [k \in 0 .. n |-> IF k = 0 THEN 0 ELSE F[<<k, f[k - 1]>>]]
                        /\ b = [k \in 0 .. n |-> IF k = 0 THEN 0 ELSE f[k - 1] * base + digit[s[k]]]
        OBVIOUS
      <3>3. a = b
        BY <3>1, <3>2, Zenon
      <3> QED BY <2>8, <3>2, <3>3, Zenon
    <2> HIDE DEF Is
    <2>10. Is(c)
      BY <2>9
    <2> HIDE DEF c
    <2>11. c[n] \in Int
      <3>1. /\ \A k \in 0 .. n : c[k] = IF k = 0 THEN 0 ELSE c[k - 1] * base + digit[s[k]]
        BY <2>10, Zenon DEF Is
      <3> DEFINE R == {k \in 0 .. n : c[k] \in Int}
      <3>2. 0 \in R
        <4>1. 0 \in 0 .. n /\ 0 \in Int
          BY <1>2
        <4>2. c[0] = 0
          BY <3>1, <4>1, Zenon
        <4> QED BY <4>1, <4>2, Zenon
      <3>3. ASSUME NEW k \in 0 .. n - 1, k \in R
            PROVE  k + 1 \in R
        <4>1. k + 1 \in 0 .. n /\ k + 1 # 0 /\ (k + 1) - 1 = k /\ k + 1 \in 1 .. n
          BY <1>2
        <4>2. c[k + 1] = c[k] * base + digit[s[k + 1]]
          BY <3>1, <4>1, Zenon
        <4>3. PICK d, e : d = digit[s[k + 1]] /\ e = c[k]
          OBVIOUS
        <4>4. d \in Int /\ e \in Int
          BY <2>1, <3>3, <4>1, <4>3
        <4>5. e * base \in Int
          BY <4>4
        <4>6. e * base + d \in Int
          BY <4>4, <4>5
        <4> QED BY <4>1, <4>2, <4>3, <4>6
      <3>4. 0 .. n \subseteq R
        <4> HIDE DEF R
        <4> QED BY <1>2, <3>2, <3>3, Induction
      <3>5. n \in 0 .. n
        BY <1>2
      <3> QED BY <3>4, <3>5
    <2>12. Positional(s, base, digit) = c[n]
      BY <1>1, <1>4, Zenon DEF Positional, c, Is
    <2> QED BY <2>11, <2>12
  <1> QED BY <1>3, <1>4

LEMMA NumerateIs ==
  ASSUME NEW S, NEW s \in Seq(S)
  PROVE  numerate_string(s) \in Int
  <1>1. /\ \A c \in DOMAIN Decimal : Decimal[c] \in Int
        /\ \A c \in DOMAIN Hexadecimal : Hexadecimal[c] \in Int
        /\ 16 \in Nat /\ 10 \in Nat
    <2>1. (\A d \in 0 .. 9 : d \in Int) /\ (\A d \in 0 .. 15 : d \in Int) /\ 16 \in Nat /\ 10 \in Nat
      OBVIOUS
    <2> QED BY <2>1, DecimalIs, HexadecimalIs, Zenon
  <1>2. CASE Len(s) > 1 /\ s[2] = "x"
    <2>1. PICK t : t = SubSeq(s, 3, Len(s))
      OBVIOUS
    <2>2. t \in Seq(S)
      BY <1>2, <2>1, LenProperties, SubSeqProperties
    <2>3. Positional(t, 16, Hexadecimal) \in Int
      BY <1>1, <2>2, SeqIsList, PositionalIs, Zenon
    <2> QED BY <1>2, <2>1, <2>3, Zenon DEF numerate_string
  <1>3. CASE ~(Len(s) > 1 /\ s[2] = "x") /\ s # <<>> /\ s[1] = "-"
    <2>1. PICK t : t = Tail(s)
      OBVIOUS
    <2>2. t \in Seq(S)
      BY <1>3, <2>1, HeadTailProperties
    <2>3. Positional(t, 10, Decimal) \in Int
      BY <1>1, <2>2, SeqIsList, PositionalIs, Zenon
    <2>4. PICK v : v = Positional(t, 10, Decimal)
      OBVIOUS
    <2>5. v \in Int /\ -v \in Int
      BY <2>3, <2>4
    <2> QED BY <1>3, <2>1, <2>4, <2>5, Zenon DEF numerate_string
  <1>4. CASE ~(Len(s) > 1 /\ s[2] = "x") /\ ~(s # <<>> /\ s[1] = "-")
    <2>1. Positional(s, 10, Decimal) \in Int
      BY <1>1, SeqIsList, PositionalIs, Zenon
    <2> QED BY <1>4, <2>1, Zenon DEF numerate_string
  <1> QED BY <1>2, <1>3, <1>4, Zenon

(* The digits of a number, by its prefix.                                  *)
LEMMA WordsOf ==
  ASSUME NEW v \in Int
  PROVE  \A w \in {WordOf(v), ImmediateI(v), ImmediateS(v), ImmediateU(v)} :
            \E lo, hi : IsHalf(lo) /\ IsHalf(hi) /\ w = [hi |-> hi, lo |-> lo]
  <1>1. IsHalf((v \div 65536) % 65536) /\ IsHalf(v % 65536)
    BY DEF IsHalf
  <1>2. IsHalf((v % 4096) * 16) /\ IsHalf(0)
    BY DEF IsHalf
  <1>3. IsHalf(((v % 4096) \div 32) * 512) /\ IsHalf((v % 32) * 128)
    BY DEF IsHalf
  <1>4. \A page \in Int : IsHalf((page \div 16) % 65536) /\ IsHalf((page % 16) * 4096)
    BY DEF IsHalf
  <1>5. PICK page : page = (v \div 4096) + (IF v % 4096 >= 2048 THEN 1 ELSE 0)
    OBVIOUS
  <1>6. page \in Int
    BY <1>5
  <1>7. ASSUME NEW w, NEW lo, NEW hi, IsHalf(lo), IsHalf(hi), w = [hi |-> hi, lo |-> lo]
        PROVE  \E l, h : IsHalf(l) /\ IsHalf(h) /\ w = [hi |-> h, lo |-> l]
    BY <1>7, Zenon
  <1>8. \E lo, hi : IsHalf(lo) /\ IsHalf(hi) /\ ImmediateU(v) = [hi |-> hi, lo |-> lo]
    <2>1. PICK lo, hi : lo = (page % 16) * 4096 /\ hi = (page \div 16) % 65536
      OBVIOUS
    <2>2. IsHalf(lo) /\ IsHalf(hi)
      BY <1>4, <1>6, <2>1
    <2>3. ImmediateU(v) = [hi |-> hi, lo |-> lo]
      BY <1>5, <2>1 DEF ImmediateU
    <2> QED BY <1>7, <2>2, <2>3
  <1>9. \E lo, hi : IsHalf(lo) /\ IsHalf(hi) /\ WordOf(v) = [hi |-> hi, lo |-> lo]
    <2>1. PICK lo, hi : lo = v % 65536 /\ hi = (v \div 65536) % 65536
      OBVIOUS
    <2>2. IsHalf(lo) /\ IsHalf(hi)
      BY <1>1, <2>1
    <2>3. WordOf(v) = [hi |-> hi, lo |-> lo]
      BY <2>1 DEF WordOf
    <2> QED BY <1>7, <2>2, <2>3
  <1>10. \E lo, hi : IsHalf(lo) /\ IsHalf(hi) /\ ImmediateI(v) = [hi |-> hi, lo |-> lo]
    <2>1. PICK lo, hi : lo = 0 /\ hi = (v % 4096) * 16
      OBVIOUS
    <2>2. IsHalf(lo) /\ IsHalf(hi)
      BY <1>2, <2>1
    <2>3. ImmediateI(v) = [hi |-> hi, lo |-> lo]
      BY <2>1 DEF ImmediateI
    <2> QED BY <1>7, <2>2, <2>3
  <1>11. \E lo, hi : IsHalf(lo) /\ IsHalf(hi) /\ ImmediateS(v) = [hi |-> hi, lo |-> lo]
    <2>1. PICK lo, hi : lo = (v % 32) * 128 /\ hi = ((v % 4096) \div 32) * 512
      OBVIOUS
    <2>2. IsHalf(lo) /\ IsHalf(hi)
      BY <1>3, <2>1
    <2>3. ImmediateS(v) = [hi |-> hi, lo |-> lo]
      BY <2>1 DEF ImmediateS
    <2> QED BY <1>7, <2>2, <2>3
  <1> QED BY <1>8, <1>9, <1>10, <1>11, Zenon

PrefixesRv == {"!", "@", "~", "%"}

LEMMA ExpressIs ==
  ASSUME NEW p \in Ports, NEW v \in Int, NEW prefix, p = "riscv64" => prefix \in PrefixesRv
  PROVE  express_number(p, v, prefix) \in Seq(Printed)
  <1>1. ASSUME NEW w \in {WordOf(v), ImmediateI(v), ImmediateS(v), ImmediateU(v)}
        PROVE  hex32l(w) \in Seq(Printed) /\ <<".">> \o hex32l(w) \in Seq(Printed)
    <2>1. PICK lo, hi : IsHalf(lo) /\ IsHalf(hi) /\ w = [hi |-> hi, lo |-> lo]
      BY WordsOf, Zenon
    <2>2. hex32l(w) \in Seq(Digit)
      BY <2>1, WordDigits
    <2>3. hex32l(w) \in Seq(Printed)
      BY <2>2, PrintedSets, SeqWiden, Zenon
    <2>4. <<".">> \in Seq(Printed)
      <3>1. "." \in Printed
        BY Zenon DEF Printed
      <3> QED BY <3>1
    <2> QED BY <2>3, <2>4, ConcatIs, Zenon
  <1>2. CASE p = "riscv64"
    <2>1. express_number(p, v, prefix) = express_number_rv(v, prefix)
      BY <1>2, Zenon DEF express_number
    <2>2. CASE prefix = "%"
      BY <1>1, <2>1, <2>2 DEF express_number_rv
    <2>3. CASE prefix = "!"
      BY <1>1, <2>1, <2>3 DEF express_number_rv
    <2>4. CASE prefix = "@"
      BY <1>1, <2>1, <2>4 DEF express_number_rv
    <2>5. CASE prefix = "~"
      BY <1>1, <2>1, <2>5 DEF express_number_rv
    <2> QED BY <1>2, <2>2, <2>3, <2>4, <2>5, Zenon DEF PrefixesRv
  <1>3. CASE p # "riscv64"
    <2>1. express_number(p, v, prefix) = express_number_amd64(v, prefix)
      BY <1>3, Zenon DEF express_number
    <2>2. CASE prefix = "%"
      BY <1>1, <2>1, <2>2 DEF express_number_amd64
    <2>3. CASE prefix = "@"
      <3>1. PICK h : h = v % 65536
        OBVIOUS
      <3>2. IsHalf(h)
        BY <3>1 DEF IsHalf
      <3>0. PICK a, b : a = h % 256 /\ b = h \div 256
        OBVIOUS
      <3>4. a \in Octet /\ b \in Octet
        BY <3>0, <3>2, HalfBytes
      <3>3. PICK s : s = <<a, b>>
        OBVIOUS
      <3>5. s \in Seq(Octet) /\ Len(s) = 2 /\ s[1] = a /\ s[2] = b
        BY <3>3, <3>4, PairIs, Zenon
      <3>6. IsList(s) /\ 2 \in Nat
        BY <3>5, SeqIsList
      <3>7. \A k \in 1 .. 2 : s[k] \in Octet
        BY <3>4, <3>5
      <3>8. hexBytes(s) \in Seq(Digit)
        BY <3>5, <3>6, <3>7, BytesDigits, Zenon
      <3>9. hexBytes(s) \in Seq(Printed)
        BY <3>8, PrintedSets, SeqWiden, Zenon
      <3>10. prefix # "%"
        BY <2>3
      <3>11. express_number(p, v, prefix) = hexBytes(s)
        BY <2>1, <2>3, <3>0, <3>1, <3>3, <3>10 DEF express_number_amd64, hex16l, Bytes2
      <3> QED BY <3>9, <3>11, Zenon
    <2>4. CASE prefix # "%" /\ prefix # "@"
      <3>1. PICK b : b = v % 256
        OBVIOUS
      <3>2. b \in Octet
        BY <3>1 DEF Octet
      <3>3. hex8(b) \in Seq(Digit)
        BY <3>2, ByteDigits, Zenon
      <3>4. hex8(b) \in Seq(Printed)
        BY <3>3, PrintedSets, SeqWiden, Zenon
      <3>5. express_number(p, v, prefix) = hex8(b)
        BY <2>1, <2>4, <3>1 DEF express_number_amd64
      <3> QED BY <3>4, <3>5, Zenon
    <2> QED BY <2>2, <2>3, <2>4, Zenon
  <1> QED BY <1>2, <1>3, Zenon

(* What a token is replaced by, if the definitions are texts.              *)
LEMMA ReplacementIs ==
  ASSUME NEW p \in Ports, NEW names, \A n \in DOMAIN names : names[n] \in Seq(Chars), NEW token \in Words
  PROVE  Replacement(p, names, token) \in Seq(Printed)
  <1>1. token \in Seq(Chars) /\ token # <<>>
    BY DEF Words
  <1>2. Tail(token) \in Seq(Chars)
    BY <1>1, HeadTailProperties
  <1>3. \A s \in Seq(Chars) : s \in Seq(Printed)
    BY PrintedSets, SeqWiden, Zenon
  <1>4. CASE token[1] = "\""
    <2>1. Replacement(p, names, token) = HexString(p, Tail(token))
      BY <1>4 DEF Replacement, IsString
    <2> QED BY <1>2, <2>1, HexStringIs, Zenon
  <1>5. CASE token[1] = "'"
    <2>1. Replacement(p, names, token) = Tail(token)
      BY <1>5 DEF Replacement, IsString
    <2> QED BY <1>2, <1>3, <2>1, Zenon
  <1>6. CASE token[1] \notin {"\"", "'"} /\ token \in DOMAIN names
    <2>1. Replacement(p, names, token) = names[token]
      BY <1>6 DEF Replacement, IsString
    <2> QED BY <1>3, <1>6, <2>1, Zenon
  <1>7. CASE token[1] \notin {"\"", "'"} /\ token \notin DOMAIN names
    <2>1. Replacement(p, names, token) =
             IF IsPrefixed(p, token) /\ IsNumber(token, numerate_string(Tail(token)))
             THEN express_number(p, numerate_string(Tail(token)), token[1]) ELSE token
      BY <1>7 DEF Replacement, IsString
    <2>2. CASE IsPrefixed(p, token) /\ IsNumber(token, numerate_string(Tail(token)))
      <3>1. PICK v : v = numerate_string(Tail(token))
        OBVIOUS
      <3>2. v \in Int
        BY <1>2, <3>1, NumerateIs, Zenon
      <3>3. p = "riscv64" => token[1] \in PrefixesRv
        BY <2>2 DEF IsPrefixed, PrefixesRv
      <3>4. express_number(p, v, token[1]) \in Seq(Printed)
        BY <3>2, <3>3, ExpressIs
      <3> QED BY <2>1, <2>2, <3>1, <3>4, Zenon
    <2>3. CASE ~(IsPrefixed(p, token) /\ IsNumber(token, numerate_string(Tail(token))))
      BY <1>1, <1>3, <2>1, <2>3, Zenon
    <2> QED BY <2>2, <2>3, Zenon
  <1> QED BY <1>4, <1>5, <1>6, <1>7, Zenon

-----------------------------------------------------------------------------
(* Expanding the tokens from left to right *)

Dn(n, d, o) == [names |-> n, define |-> d, out |-> o]
NameSets    == UNION {[D -> Seq(Chars)] : D \in SUBSET Words}
Dones       == {x \in [names : NameSets, define : Seq(Words), out : Seq(Printed)] : Len(x.define) <= 2}

LEMMA DoneIs ==
  ASSUME NEW x \in Dones
  PROVE  /\ x = Dn(x.names, x.define, x.out) /\ x.names \in NameSets
         /\ x.define \in Seq(Words) /\ x.out \in Seq(Printed) /\ Len(x.define) \in {0, 1, 2}
         /\ DOMAIN x.names \subseteq Words /\ \A n \in DOMAIN x.names : x.names[n] \in Seq(Chars)
  <1>1. /\ x = Dn(x.names, x.define, x.out) /\ x.names \in NameSets
        /\ x.define \in Seq(Words) /\ x.out \in Seq(Printed) /\ Len(x.define) <= 2
    BY DEF Dones, Dn
  <1>2. Len(x.define) \in Nat
    BY <1>1, LenProperties
  <1>3. Len(x.define) \in {0, 1, 2}
    <2>1. \A k \in Nat : k <= 2 => k \in {0, 1, 2}
      OBVIOUS
    <2> QED BY <1>1, <1>2, <2>1, Zenon
  <1>4. \A f \in NameSets : DOMAIN f \subseteq Words /\ \A n \in DOMAIN f : f[n] \in Seq(Chars)
    BY DEF NameSets
  <1> QED BY <1>1, <1>3, <1>4

LEMMA DoneIn ==
  ASSUME NEW n \in NameSets, NEW d \in Seq(Words), Len(d) <= 2, NEW o \in Seq(Printed)
  PROVE  Dn(n, d, o) \in Dones
  BY DEF Dones, Dn

LEMMA DnFields ==
  \A n, d, o : Dn(n, d, o).names = n /\ Dn(n, d, o).define = d /\ Dn(n, d, o).out = o
  BY DEF Dn

LEMMA NamesChanged ==
  \A x, n, d, o, a, b :
     x = [names |-> n, define |-> d, out |-> o]
     => [x EXCEPT !.names = a, !.define = b] = [names |-> a, define |-> b, out |-> o]
  <1>3. \A x, a, b : [x EXCEPT !.names = a, !.define = b] = [[x EXCEPT !.names = a] EXCEPT !.define = b]
    OBVIOUS
  <1>4. TAKE x, n, d, o, a, b
  <1>5. HAVE x = [names |-> n, define |-> d, out |-> o]
  <1>6. [x EXCEPT !.names = a] = [names |-> a, define |-> d, out |-> o]
    BY <1>5
  <1>7. PICK y : y = [x EXCEPT !.names = a]
    OBVIOUS
  <1>8. y = [names |-> a, define |-> d, out |-> o]
    BY <1>6, <1>7, Zenon
  <1>9. [y EXCEPT !.define = b] = [names |-> a, define |-> b, out |-> o]
    <2> HIDE <1>5, <1>7
    <2> QED BY <1>8
  <1>10. [x EXCEPT !.names = a, !.define = b] = [y EXCEPT !.define = b]
    BY <1>3, <1>7, Zenon
  <1> QED BY <1>9, <1>10, Zenon

LEMMA DefineChanged ==
  \A x, n, d, o, b :
     x = [names |-> n, define |-> d, out |-> o]
     => [x EXCEPT !.define = b] = [names |-> n, define |-> b, out |-> o]
  OBVIOUS

LEMMA OutChanged ==
  \A x, n, d, o, b :
     x = [names |-> n, define |-> d, out |-> o]
     => [x EXCEPT !.out = b] = [names |-> n, define |-> d, out |-> b]
  OBVIOUS

LEMMA EmptyLen == Len(<<>>) # 2 /\ Len(<<>>) # 1 /\ Len(<<>>) = 0
  OBVIOUS

(* One more token behind x: the value of a definition, its name, its       *)
(* beginning, or a line of output.                                         *)
LEMMA ExpandValue ==
  ASSUME NEW p, NEW x \in Dones, NEW t, Len(x.define) = 2
  PROVE  ExpandToken(p, x, t) = Dn(Bound(x.names, x.define[2], t), <<>>, x.out)
  <1>1. Len(x.define) # 1 /\ x.define # <<>>
    BY EmptyLen
  <1>2. ExpandToken(p, x, t) = [x EXCEPT !.names = Bound(x.names, x.define[2], t), !.define = <<>>]
    BY <1>1 DEF ExpandToken
  <1>3. x = [names |-> x.names, define |-> x.define, out |-> x.out]
    BY DoneIs, Zenon DEF Dn
  <1> QED BY <1>2, <1>3, NamesChanged, Zenon DEF Dn

LEMMA ExpandName ==
  ASSUME NEW p, NEW x \in Dones, NEW t, Len(x.define) = 1
  PROVE  ExpandToken(p, x, t) = Dn(x.names, Append(x.define, t), x.out)
  <1>1. Len(x.define) # 2 /\ x.define # <<>>
    BY EmptyLen
  <1>2. ExpandToken(p, x, t) = [x EXCEPT !.define = Append(x.define, t)]
    BY <1>1 DEF ExpandToken
  <1>3. x = [names |-> x.names, define |-> x.define, out |-> x.out]
    BY DoneIs, Zenon DEF Dn
  <1> QED BY <1>2, <1>3, DefineChanged, Zenon DEF Dn

LEMMA ExpandDefine ==
  ASSUME NEW p, NEW x \in Dones, NEW t, x.define = <<>>, t = <<"DEFINE">>
  PROVE  ExpandToken(p, x, t) = Dn(x.names, <<t>>, x.out)
  <1>1. Len(x.define) # 2 /\ Len(x.define) # 1
    BY EmptyLen
  <1>2. ExpandToken(p, x, t) = [x EXCEPT !.define = <<t>>]
    BY <1>1 DEF ExpandToken
  <1>3. x = [names |-> x.names, define |-> x.define, out |-> x.out]
    BY DoneIs, Zenon DEF Dn
  <1> QED BY <1>2, <1>3, DefineChanged, Zenon DEF Dn

(* One more line of output.                                                *)
Lined(o, r) == o \o r \o <<"LF">>

LEMMA ExpandLine ==
  ASSUME NEW p, NEW x \in Dones, NEW t, x.define = <<>>, t # <<"DEFINE">>
  PROVE  ExpandToken(p, x, t) = Dn(x.names, <<>>, Lined(x.out, Replacement(p, x.names, t)))
  <1>1. Len(x.define) # 2 /\ Len(x.define) # 1
    BY EmptyLen
  <1>2. ExpandToken(p, x, t) = [x EXCEPT !.out = Lined(x.out, Replacement(p, x.names, t))]
    BY <1>1 DEF ExpandToken, Lined
  <1>3. x = [names |-> x.names, define |-> x.define, out |-> x.out]
    BY DoneIs, Zenon DEF Dn
  <1> QED BY <1>2, <1>3, OutChanged, Zenon DEF Dn

LEMMA BoundIs ==
  ASSUME NEW n \in NameSets, NEW a \in Words, NEW v \in Words
  PROVE  /\ Bound(n, a, v) \in NameSets /\ DOMAIN Bound(n, a, v) = DOMAIN n \cup {a}
         /\ Bound(n, a, v)[a] = v /\ \A b \in DOMAIN n : b # a => Bound(n, a, v)[b] = n[b]
  <1>1. PICK D \in SUBSET Words : n \in [D -> Seq(Chars)]
    BY DEF NameSets
  <1>2. v \in Seq(Chars)
    BY DEF Words
  <1>3. D \cup {a} \in SUBSET Words
    OBVIOUS
  <1>4. Bound(n, a, v) = [b \in D \cup {a} |-> IF b = a THEN v ELSE n[b]]
    BY <1>1 DEF Bound
  <1>5. Bound(n, a, v) \in [D \cup {a} -> Seq(Chars)]
    BY <1>1, <1>2, <1>4
  <1>6. Bound(n, a, v) \in NameSets
    BY <1>3, <1>5, Zenon DEF NameSets
  <1> QED BY <1>1, <1>4, <1>6

LEMMA LineIs ==
  ASSUME NEW o \in Seq(Printed), NEW r \in Seq(Printed)
  PROVE  Lined(o, r) \in Seq(Printed) /\ Begins(o, Lined(o, r))
  <1>1. "LF" \in Printed
    BY Zenon DEF Printed
  <1>2. <<"LF">> \in Seq(Printed)
    BY <1>1
  <1>3. PICK a, b, c : a = o \o r /\ c = <<"LF">> /\ b = a \o c
    OBVIOUS
  <1>4. a \in Seq(Printed) /\ Behind(a, o, r)
    BY <1>3, ConcatIs, Zenon
  <1>5. b \in Seq(Printed) /\ Behind(b, a, c)
    BY <1>2, <1>3, <1>4, ConcatIs, Zenon
  <1>6. Begins(o, b)
    BY <1>4, <1>5 DEF Begins, Behind
  <1> QED BY <1>3, <1>5, <1>6, Zenon DEF Lined

LEMMA ExpandKeeps ==
  ASSUME NEW p \in Ports, NEW x \in Dones, NEW t \in Words
  PROVE  ExpandToken(p, x, t) \in Dones /\ Begins(x.out, ExpandToken(p, x, t).out)
  <1>1. PICK n, d, o : n = x.names /\ d = x.define /\ o = x.out
    OBVIOUS
  <1>2. /\ x = Dn(n, d, o) /\ n \in NameSets /\ d \in Seq(Words) /\ o \in Seq(Printed) /\ Len(d) \in {0, 1, 2}
        /\ \A m \in DOMAIN n : n[m] \in Seq(Chars)
    BY <1>1, DoneIs, Zenon
  <1>3. Begins(o, o)
    BY <1>2, LenProperties DEF Begins
  <1>4. ASSUME NEW m \in NameSets, NEW e \in Seq(Words), NEW u \in Seq(Printed),
               Len(e) <= 2, ExpandToken(p, x, t) = Dn(m, e, u), Begins(o, u)
        PROVE  ExpandToken(p, x, t) \in Dones /\ Begins(x.out, ExpandToken(p, x, t).out)
    <2>1. Dn(m, e, u) \in Dones
      BY <1>4, DoneIn
    <2>2. Dn(m, e, u).out = u
      BY DEF Dn
    <2> QED BY <1>1, <1>4, <2>1, <2>2, Zenon
  <1>5. <<>> \in Seq(Words) /\ Len(<<>>) <= 2 /\ <<t>> \in Seq(Words) /\ Len(<<t>>) <= 2
    OBVIOUS
  <1>6. CASE Len(d) = 2
    <2>1. d[2] \in Words
      <3>1. d \in Seq(Words) /\ 2 \in 1 .. Len(d)
        <4>1. 2 \in 1 .. 2
          OBVIOUS
        <4> QED BY <1>2, <1>6, <4>1, Zenon
      <3> QED BY <3>1, ElementOfSeq, Zenon
    <2>2. Bound(n, d[2], t) \in NameSets
      BY <1>2, <2>1, BoundIs, Zenon
    <2>3. ExpandToken(p, x, t) = Dn(Bound(n, d[2], t), <<>>, o)
      BY <1>1, <1>6, ExpandValue, Zenon
    <2> QED BY <1>2, <1>3, <1>4, <1>5, <2>2, <2>3, Zenon
  <1>7. CASE Len(d) = 1
    <2>1. PICK e : e = Append(d, t)
      OBVIOUS
    <2>2. e \in Seq(Words) /\ Len(e) = Len(d) + 1
      BY <1>2, <2>1, AppendProperties
    <2>3. Len(e) <= 2
      BY <1>7, <2>2
    <2>4. ExpandToken(p, x, t) = Dn(n, e, o)
      BY <1>1, <1>7, <2>1, ExpandName, Zenon
    <2> QED BY <1>2, <1>3, <1>4, <2>2, <2>3, <2>4, Zenon
  <1>8. CASE Len(d) = 0
    <2>1. d = <<>>
      BY <1>2, <1>8
    <2>2. CASE t = <<"DEFINE">>
      <3>1. ExpandToken(p, x, t) = Dn(n, <<t>>, o)
        BY <1>1, <2>1, <2>2, ExpandDefine, Zenon
      <3> QED BY <1>2, <1>3, <1>4, <1>5, <3>1, Zenon
    <2>3. CASE t # <<"DEFINE">>
      <3>1. PICK r : r = Replacement(p, n, t)
        OBVIOUS
      <3>2. r \in Seq(Printed)
        BY <1>2, <3>1, ReplacementIs, Zenon
      <3>3. Lined(o, r) \in Seq(Printed) /\ Begins(o, Lined(o, r))
        BY <1>2, <3>2, LineIs, Zenon
      <3>4. ExpandToken(p, x, t) = Dn(n, <<>>, Lined(o, r))
        BY <1>1, <2>1, <2>3, <3>1, ExpandLine, Zenon
      <3> QED BY <1>2, <1>4, <1>5, <3>3, <3>4, Zenon
    <2> QED BY <2>2, <2>3
  <1> QED BY <1>2, <1>6, <1>7, <1>8, Zenon

(* The states of the expansion, one behind each token.                     *)
Expanding(p, T) ==
    CHOOSE f : f = [k \in 0 .. Len(T) |-> IF k = 0 THEN Dn(<<>>, <<>>, <<>>)
                                          ELSE ExpandToken(p, f[k - 1], T[k])]

Steps(p, T, E) ==
    /\ p \in Ports /\ Len(T) \in Nat /\ \A k \in 1 .. Len(T) : T[k] \in Words
    /\ E[0] = Dn(<<>>, <<>>, <<>>)
    /\ \A k \in 1 .. Len(T) : E[k] = ExpandToken(p, E[k - 1], T[k])
    /\ \A k \in 0 .. Len(T) : E[k] \in Dones

LEMMA ExpandingIs ==
  ASSUME NEW p \in Ports, NEW T \in Seq(Words), NEW E, E = Expanding(p, T)
  PROVE  Steps(p, T, E) /\ Expansion(p, T) = E[Len(T)]
  <1>0. PICK n, first : n = Len(T) /\ first = Dn(<<>>, <<>>, <<>>)
    OBVIOUS
  <1> DEFINE V == [k \in 0 .. n |-> Dones]
             F == [e \in (1 .. n) \X Dones |-> ExpandToken(p, e[2], T[e[1]])]
             Is(f) == f = [k \in 0 .. n |-> IF k = 0 THEN first ELSE ExpandToken(p, f[k - 1], T[k])]
  <1>1. n \in Nat /\ \A k \in 1 .. n : T[k] \in Words
    BY <1>0, LenProperties
  <1>2. first \in Dones
    <2>1. <<>> \in NameSets
      <3>1. <<>> \in [{} -> Seq(Chars)] /\ {} \in SUBSET Words
        OBVIOUS
      <3> QED BY <3>1, Zenon DEF NameSets
    <2>2. <<>> \in Seq(Words) /\ <<>> \in Seq(Printed) /\ Len(<<>>) <= 2
      OBVIOUS
    <2> QED BY <1>0, <2>1, <2>2, DoneIn, Zenon
  <1>3. \A k \in 1 .. n : \A v \in Dones : F[<<k, v>>] = ExpandToken(p, v, T[k]) /\ ExpandToken(p, v, T[k]) \in Dones
    BY <1>1, ExpandKeeps
  <1>4. first \in V[0] /\ \A k \in 1 .. n : V[k - 1] = Dones /\ V[k] = Dones
    BY <1>1, <1>2
  <1>5. PICK f : /\ Recurs(f, n, first, F)
                 /\ \A k \in 0 .. n : f[k] \in V[k]
    <2> HIDE DEF V, F
    <2>1. \A k \in 1 .. n : \A v \in V[k - 1] : F[<<k, v>>] \in V[k]
      BY <1>3, <1>4
    <2> QED BY <1>1, <1>4, <2>1, Recursion
  <1>6. \A k \in 0 .. n : f[k] \in Dones
    BY <1>5
  <1>7. \A k \in 1 .. n : F[<<k, f[k - 1]>>] = ExpandToken(p, f[k - 1], T[k])
    <2> HIDE DEF F
    <2>1. \A k \in 1 .. n : k - 1 \in 0 .. n
      BY <1>1
    <2> QED BY <1>3, <1>6, <2>1
  <1>8. Is(f)
    <2>1. \A k \in 0 .. n : (IF k = 0 THEN first ELSE F[<<k, f[k - 1]>>])
                             = (IF k = 0 THEN first ELSE ExpandToken(p, f[k - 1], T[k]))
      <3> HIDE DEF F
      <3>1. \A k \in 0 .. n : k = 0 \/ k \in 1 .. n
        BY <1>1
      <3> QED BY <1>7, <3>1
    <2> HIDE DEF F
    <2> QED BY <1>5, <2>1 DEF Recurs
  <1>9. Is(E)
    BY <1>0, <1>8 DEF Expanding
  <1>10. E[0] = first /\ \A k \in 1 .. n : E[k] = ExpandToken(p, E[k - 1], T[k])
    <2> QED BY <1>1, <1>9
  <1>11. \A k \in 0 .. n : E[k] \in Dones
    <2> DEFINE S == {k \in 0 .. n : E[k] \in Dones}
    <2>1. 0 \in S
      BY <1>1, <1>2, <1>10
    <2>2. ASSUME NEW k \in 0 .. n - 1, k \in S
          PROVE  k + 1 \in S
      <3>1. k + 1 \in 1 .. n /\ (k + 1) - 1 = k /\ E[k] \in Dones
        BY <1>1, <2>2
      <3>2. E[k + 1] = ExpandToken(p, E[k], T[k + 1]) /\ T[k + 1] \in Words
        BY <1>1, <1>10, <3>1
      <3>3. E[k + 1] \in Dones
        BY <3>1, <3>2, ExpandKeeps
      <3> QED BY <1>1, <3>1, <3>3
    <2>3. 0 .. n \subseteq S
      <3> HIDE DEF S
      <3> QED BY <1>1, <2>1, <2>2, Induction
    <2> QED BY <2>3
  <1>12. Expansion(p, T) = E[n]
    BY <1>0 DEF Expansion, Expanding, Dn
  <1> QED BY <1>0, <1>1, <1>10, <1>11, <1>12, Zenon DEF Steps

(* The output only grows.                                                  *)
LEMMA OutGrows ==
  ASSUME NEW p, NEW T, NEW E, Steps(p, T, E)
  PROVE  \A k \in 0 .. Len(T) : Begins(E[k].out, E[Len(T)].out)
  <1>1. PICK n : n = Len(T)
    OBVIOUS
  <1>2. /\ n \in Nat /\ p \in Ports /\ \A k \in 1 .. n : T[k] \in Words
        /\ \A k \in 1 .. n : E[k] = ExpandToken(p, E[k - 1], T[k])
        /\ \A k \in 0 .. n : E[k] \in Dones
    BY <1>1, Zenon DEF Steps
  <1> DEFINE S == {k \in 0 .. n : Begins(E[n - k].out, E[n].out)}
  <1>3. 0 \in S
    <2>1. E[n] \in Dones /\ n - 0 = n /\ 0 \in 0 .. n
      BY <1>2
    <2>2. E[n].out \in Seq(Printed)
      BY <2>1, DoneIs, Zenon
    <2>3. Begins(E[n].out, E[n].out)
      BY <2>2, LenProperties DEF Begins
    <2> QED BY <2>1, <2>3, Zenon
  <1>4. ASSUME NEW k \in 0 .. n - 1, k \in S
        PROVE  k + 1 \in S
    <2>1. PICK m : m = n - k
      OBVIOUS
    <2>2. m \in 1 .. n /\ m - 1 \in 0 .. n /\ n - (k + 1) = m - 1 /\ k + 1 \in 0 .. n
      BY <1>2, <2>1
    <2>3. Begins(E[m].out, E[n].out)
      BY <1>4, <2>1, Zenon
    <2>4. E[m - 1] \in Dones /\ E[m] = ExpandToken(p, E[m - 1], T[m]) /\ T[m] \in Words
      BY <1>2, <2>2, Zenon
    <2>5. Begins(E[m - 1].out, E[m].out)
      BY <1>2, <2>4, ExpandKeeps
    <2>6. Begins(E[m - 1].out, E[n].out)
      BY <2>3, <2>5, BeginsTrans, Zenon
    <2> QED BY <2>2, <2>6, Zenon
  <1>5. 0 .. n \subseteq S
    <2> HIDE DEF S
    <2> QED BY <1>2, <1>3, <1>4, Induction
  <1>6. ASSUME NEW k \in 0 .. n
        PROVE  Begins(E[k].out, E[n].out)
    <2>1. n - k \in 0 .. n /\ n - (n - k) = k
      BY <1>2
    <2>2. Begins(E[n - (n - k)].out, E[n].out)
      BY <1>5, <2>1, Zenon
    <2> QED BY <2>1, <2>2, Zenon
  <1> QED BY <1>1, <1>6

(* A token that begins no definition.                                      *)
LEMMA LineRead ==
  ASSUME NEW p, NEW T, NEW E, Steps(p, T, E), NEW k \in 1 .. Len(T), E[k - 1].define = <<>>, T[k] # <<"DEFINE">>
  PROVE  /\ E[k].define = <<>> /\ E[k].names = E[k - 1].names
         /\ E[k].out = Lined(E[k - 1].out, Replacement(p, E[k - 1].names, T[k]))
  <1>1. k - 1 \in 0 .. Len(T) /\ E[k] = ExpandToken(p, E[k - 1], T[k]) /\ \A j \in 0 .. Len(T) : E[j] \in Dones
    BY DEF Steps
  <1>2. PICK x, t : x = E[k - 1] /\ t = T[k]
    OBVIOUS
  <1>3. x \in Dones /\ x.define = <<>> /\ t # <<"DEFINE">> /\ E[k] = ExpandToken(p, x, t)
    BY <1>1, <1>2, Zenon
  <1>4. E[k] = Dn(x.names, <<>>, Lined(x.out, Replacement(p, x.names, t)))
    BY <1>3, ExpandLine, Zenon
  <1>5. PICK r : r = Lined(x.out, Replacement(p, x.names, t))
    OBVIOUS
  <1>6. E[k].define = <<>> /\ E[k].names = x.names /\ E[k].out = r
    <2>1. E[k] = Dn(x.names, <<>>, r)
      BY <1>4, <1>5, Zenon
    <2> QED BY <2>1 DEF Dn
  <1> QED BY <1>2, <1>5, <1>6, Zenon

(* A definition takes three tokens, or is not complete.                    *)
LEMMA DefineRead ==
  ASSUME NEW p, NEW T, NEW E, Steps(p, T, E), NEW k \in 1 .. Len(T), E[k - 1].define = <<>>, T[k] = <<"DEFINE">>
  PROVE  /\ k + 2 > Len(T) => E[Len(T)].define # <<>>
         /\ k + 2 <= Len(T) => /\ E[k + 2].define = <<>> /\ E[k + 2].out = E[k - 1].out
                               /\ E[k + 2].names = Bound(E[k - 1].names, T[k + 1], T[k + 2])
  <1>1. PICK n : n = Len(T)
    OBVIOUS
  <1>2. /\ n \in Nat /\ k \in 1 .. n /\ k - 1 \in 0 .. n /\ k \in 0 .. n
        /\ \A j \in 1 .. n : E[j] = ExpandToken(p, E[j - 1], T[j])
        /\ \A j \in 0 .. n : E[j] \in Dones
        /\ \A j \in 1 .. n : T[j] \in Words
    <2>1. n \in Nat /\ k \in 1 .. n
      BY <1>1 DEF Steps
    <2>2. k - 1 \in 0 .. n /\ k \in 0 .. n
      BY <2>1
    <2> QED BY <1>1, <2>1, <2>2, Zenon DEF Steps
  <1>3. PICK x, t : x = E[k - 1] /\ t = T[k]
    OBVIOUS
  <1>4. x \in Dones /\ E[k] = ExpandToken(p, x, t) /\ x.define = <<>> /\ t = <<"DEFINE">> /\ t \in Words
    BY <1>2, <1>3, Zenon
  <1>5. E[k] = Dn(x.names, <<t>>, x.out)
    BY <1>4, ExpandDefine, Zenon
  <1>6. E[k].names = x.names /\ E[k].define = <<t>> /\ E[k].out = x.out
    BY <1>5 DEF Dn
  <1>7. Len(<<t>>) = 1 /\ <<t>> # <<>> /\ <<t>> \in Seq(Words)
    BY <1>4
  <1>8. ASSUME k + 1 <= n
        PROVE  /\ E[k + 1].names = x.names /\ E[k + 1].out = x.out
               /\ Len(E[k + 1].define) = 2 /\ E[k + 1].define[2] = T[k + 1] /\ E[k + 1].define # <<>>
    <2>1. k + 1 \in 1 .. n /\ (k + 1) - 1 = k
      BY <1>2, <1>8
    <2>2. PICK u, y : u = T[k + 1] /\ y = E[k]
      OBVIOUS
    <2>3. y \in Dones /\ Len(y.define) = 1 /\ E[k + 1] = ExpandToken(p, y, u) /\ u \in Words
      BY <1>2, <1>6, <1>7, <2>1, <2>2, Zenon
    <2>4. E[k + 1] = Dn(y.names, Append(y.define, u), y.out)
      BY <2>3, ExpandName, Zenon
    <2>5. PICK e : e = Append(y.define, u)
      OBVIOUS
    <2>6. E[k + 1] = Dn(y.names, e, y.out)
      BY <2>4, <2>5, Zenon
    <2>7. E[k + 1].names = y.names /\ E[k + 1].define = e /\ E[k + 1].out = y.out
      BY <2>6 DEF Dn
    <2>8. Len(e) = 2 /\ e[2] = u /\ e # <<>>
      <3>1. y.define \in Seq(Words)
        BY <2>3, DoneIs, Zenon
      <3>2. Len(e) = 1 + 1 /\ e[1 + 1] = u
        BY <2>3, <2>5, <3>1, AppendProperties
      <3> QED BY <3>2
    <2> QED BY <1>6, <2>2, <2>7, <2>8, Zenon
  <1>9. ASSUME k + 2 <= n
        PROVE  /\ E[k + 2].define = <<>> /\ E[k + 2].out = x.out
               /\ E[k + 2].names = Bound(x.names, T[k + 1], T[k + 2])
    <2>1. k + 1 <= n /\ k + 2 \in 1 .. n /\ (k + 2) - 1 = k + 1 /\ k + 1 \in 0 .. n
      BY <1>2, <1>9
    <2>2. PICK u, y : u = T[k + 2] /\ y = E[k + 1]
      OBVIOUS
    <2>3. /\ y \in Dones /\ Len(y.define) = 2 /\ E[k + 2] = ExpandToken(p, y, u)
          /\ y.names = x.names /\ y.out = x.out /\ y.define[2] = T[k + 1]
      BY <1>2, <1>8, <2>1, <2>2, Zenon
    <2>4. E[k + 2] = Dn(Bound(y.names, y.define[2], u), <<>>, y.out)
      BY <2>3, ExpandValue, Zenon
    <2>5. PICK m : m = Bound(y.names, y.define[2], u)
      OBVIOUS
    <2>6. E[k + 2] = Dn(m, <<>>, y.out)
      BY <2>4, <2>5, Zenon
    <2>7. E[k + 2].names = m /\ E[k + 2].define = <<>> /\ E[k + 2].out = y.out
      BY <2>6 DEF Dn
    <2> QED BY <2>2, <2>3, <2>5, <2>7, Zenon
  <1>10. ASSUME k + 2 > n
         PROVE  E[n].define # <<>>
    <2>1. n = k \/ (n = k + 1 /\ k + 1 <= n)
      BY <1>2, <1>10
    <2> QED BY <1>6, <1>7, <1>8, <2>1, Zenon
  <1> QED BY <1>1, <1>3, <1>9, <1>10, Zenon

-----------------------------------------------------------------------------
(* The passes follow the expansion *)

(* What a well-formed text has for tokens, and what they expand to.        *)
Sound(T, E) ==
    /\ Steps(port, T, E) /\ Good(T) /\ E[Len(T)].define = <<>>
    /\ port = "amd64" => /\ T # <<>>
                         /\ Len(T) > 3 => T[Len(T) - 2] # <<"DEFINE">>
                         /\ Len(T) = 3 => T[1] # <<"DEFINE">>

(* A live node is a definition or a token outside of all definitions.      *)
IsMacro(h, T, k) ==
    /\ T[k] = <<"DEFINE">> /\ k + 2 <= Len(T)
    /\ h[k].type = "macro" /\ h[k].text = T[k + 1] /\ h[k].expr = {T[k + 2]}
IsPlain(h, T, k) == T[k] # <<"DEFINE">> /\ h[k].text = T[k] /\ h[k].type = KindOf(T[k])
Stands(h, T, E, k) == E[k - 1].define = <<>> /\ (IsMacro(h, T, k) \/ IsPlain(h, T, k))

(* What a pass leaves for an expression of a token.                        *)
Looked(names, t) == IF t \in DOMAIN names THEN {names[t]} ELSE {}
Evaluated(p, names, t) ==
    IF t \in DOMAIN names THEN {names[t]}
    ELSE IF IsPrefixed(p, t) /\ IsNumber(t, numerate_string(Tail(t)))
         THEN {express_number(p, numerate_string(Tail(t)), t[1])} ELSE {}
After(pass, p, names, t) ==
    IF pass = "line" THEN Looked(names, t)
    ELSE IF pass = "preserve" \/ IsString(t) THEN {Replacement(p, names, t)}
    ELSE IF pass = "string" THEN Looked(names, t) ELSE Evaluated(p, names, t)
Before == [string |-> "line", eval |-> "string", preserve |-> "eval"]

(* Identify_Macros has replaced the definitions in front of it.            *)
IdentifyAt(h, T, E, n) ==
    /\ \A k \in 1 .. Len(h) : n <= k => h[k].text = T[k] /\ h[k].type = KindOf(T[k]) /\ h[k].expr = {}
    /\ \A k \in Live(h) : k < n => Stands(h, T, E, k) /\ (h[k].type # "macro" => h[k].expr = {})
    /\ n # 0 => E[n - 1].define = <<>>
(* Line_Macro has given each token the value of the last definition above  *)
(* it and in front of the pass.                                            *)
LineAt(h, T, E, n) ==
    \A k \in Live(h) : h[k].type # "macro" =>
        h[k].expr = Looked(E[(IF k < n THEN k ELSE n) - 1].names, T[k])
(* The later passes have visited the nodes in front of them.               *)
PassAt(p, h, T, E, n, done, next) ==
    \A k \in Live(h) : h[k].type # "macro" =>
        h[k].expr = After(IF k < n THEN done ELSE next, p, E[k - 1].names, T[k])

(* What a pass that is at n, or through with the list, has done.           *)
PassHas(p, pass, h, n, o, T, E) ==
    /\ Len(h) = Len(T)
    /\ o = IF pass = "print" /\ n # 0 THEN E[n - 1].out ELSE <<>>
    /\ pass = "identify" => IdentifyAt(h, T, E, n)
    /\ pass # "identify" => \A k \in Live(h) : Stands(h, T, E, k)
    /\ pass = "line" => LineAt(h, T, E, n)
    /\ pass \in {"string", "eval", "preserve"} => PassAt(p, h, T, E, n, pass, Before[pass])
    /\ pass = "print" => PassAt(p, h, T, E, n, "preserve", "preserve")

PassInv(T, E) ==
    /\ pc \in {"tokenize", "reverse"} => out = <<>>
    /\ pc \in Passes => PassHas(port, pc, heap, i, out, T, E)
    /\ pc = "done" => out = E[Len(T)].out
    /\ pc \notin {"wild", "hung"}
    /\ pc = "overrun" => ~PointerFits(port)

LEMMA SoundFacts ==
  ASSUME NEW T, NEW E, Sound(T, E)
  PROVE  /\ Len(T) \in Nat /\ \A k \in 1 .. Len(T) : T[k] \in Words
         /\ \A k \in 0 .. Len(T) : E[k] \in Dones
         /\ Steps(port, T, E) /\ E[0] = Dn(<<>>, <<>>, <<>>) /\ E[Len(T)].define = <<>>
  BY Zenon DEF Sound, Steps

(* No token is a macro as it is read.                                      *)
LEMMA KindFacts ==
  ASSUME NEW t
  PROVE  /\ KindOf(t) # "macro" /\ (KindOf(t) = "string" <=> IsString(t))
         /\ KindOf(t) \in {"string", "atom"}
  BY DEF KindOf

(* Behind a live node the expansion is outside of all definitions, and has *)
(* made of its tokens a name or a line.                                    *)
LEMMA StandsFacts ==
  ASSUME NEW T, NEW E, Sound(T, E), NEW h, Len(h) = Len(T), NEW k \in 1 .. Len(T), Stands(h, T, E, k)
  PROVE  /\ E[k - 1].define = <<>>
         /\ h[k].type = "macro" =>
               /\ IsMacro(h, T, k) /\ E[k + 2].define = <<>> /\ E[k + 2].out = E[k - 1].out
               /\ E[k + 2].names = Bound(E[k - 1].names, T[k + 1], T[k + 2])
         /\ h[k].type # "macro" =>
               /\ IsPlain(h, T, k) /\ E[k].define = <<>> /\ E[k].names = E[k - 1].names
               /\ E[k].out = Lined(E[k - 1].out, Replacement(port, E[k - 1].names, T[k]))
  <1>1. E[k - 1].define = <<>> /\ (IsMacro(h, T, k) \/ IsPlain(h, T, k))
    BY DEF Stands
  <1>2. IsPlain(h, T, k) => h[k].type # "macro" /\ T[k] # <<"DEFINE">>
    BY KindFacts, Zenon DEF IsPlain
  <1>3. IsMacro(h, T, k) => h[k].type = "macro" /\ T[k] = <<"DEFINE">> /\ k + 2 <= Len(T)
    BY DEF IsMacro
  <1>4. Steps(port, T, E)
    BY SoundFacts
  <1>5. CASE IsMacro(h, T, k)
    <2>1. /\ E[k + 2].define = <<>> /\ E[k + 2].out = E[k - 1].out
          /\ E[k + 2].names = Bound(E[k - 1].names, T[k + 1], T[k + 2])
      <3>1. E[k - 1].define = <<>> /\ T[k] = <<"DEFINE">> /\ k + 2 <= Len(T)
        BY <1>1, <1>3, <1>5
      <3> QED BY <1>4, <3>1, DefineRead
    <2> QED BY <1>1, <1>3, <1>5, <2>1
  <1>6. CASE IsPlain(h, T, k)
    <2>1. /\ E[k].define = <<>> /\ E[k].names = E[k - 1].names
          /\ E[k].out = Lined(E[k - 1].out, Replacement(port, E[k - 1].names, T[k]))
      <3>1. E[k - 1].define = <<>> /\ T[k] # <<"DEFINE">>
        BY <1>1, <1>2, <1>6
      <3> QED BY <1>4, <3>1, LineRead
    <2> QED BY <1>1, <1>2, <1>6, <2>1
  <1> QED BY <1>1, <1>5, <1>6

(* From node n of h the pass goes on to node m, or to the next pass.       *)
Moves(h, n, pass, m, next) ==
    IF h[n].next # 0 THEN m = h[n].next /\ next = pass ELSE m = 1 /\ next = NextPass[pass]

(* A pass that is through with the list has done what the next one needs.  *)
LEMMA PassMoves ==
  ASSUME NEW T, NEW E, Sound(T, E), NEW h, InOrder(h), NEW n \in Live(h), NEW pass \in Passes,
         NEW o, PassHas(port, pass, h, Rest(h, n), o, T, E), NEW m, NEW next, Moves(h, n, pass, m, next)
  PROVE  /\ next \in Passes => PassHas(port, next, h, m, o, T, E)
         /\ next = "done" => o = E[Len(T)].out
         /\ next \in Passes \cup {"done"}
  <1>1. /\ n \in 1 .. Len(h) /\ Len(h) \in Nat
        /\ h[n].next # 0 => h[n].next = Rest(h, n)
        /\ h[n].next = 0 => Rest(h, n) = Len(h) + 1
    BY LiveFacts DEF InOrder
  <1>2. CASE h[n].next # 0
    <2>1. m = Rest(h, n) /\ next = pass /\ next # "done"
      BY <1>1, <1>2 DEF Moves, Passes
    <2> QED BY <2>1
  <1>3. CASE h[n].next = 0
    <2>1. m = 1 /\ next = NextPass[pass] /\ Rest(h, n) = Len(h) + 1
      BY <1>1, <1>3 DEF Moves
    <2>2. PICK r : r = Rest(h, n)
      OBVIOUS
    <2>3. r = Len(h) + 1 /\ r # 0 /\ r - 1 = Len(h) /\ PassHas(port, pass, h, r, o, T, E)
      BY <1>1, <2>1, <2>2
    <2>4. \A k \in Live(h) : k \in 1 .. Len(h) /\ k < r /\ ~(k < 1)
      BY <1>1, <2>3 DEF Live
    <2>5. Len(h) = Len(T) /\ E[0] = Dn(<<>>, <<>>, <<>>)
      BY <2>3, SoundFacts DEF PassHas
    <2>6. E[0].names = <<>> /\ E[0].out = <<>>
      BY <2>5 DEF Dn
    <2>7. CASE pass = "identify"
      <3>1. next = "line" /\ IdentifyAt(h, T, E, r) /\ o = <<>>
        BY <2>1, <2>3, <2>7 DEF PassHas, NextPass
      <3>2. \A k \in Live(h) : Stands(h, T, E, k) /\ (h[k].type # "macro" => h[k].expr = {})
        BY <2>4, <3>1, Zenon DEF IdentifyAt
      <3>3. LineAt(h, T, E, 1)
        <4> SUFFICES ASSUME NEW k \in Live(h), h[k].type # "macro"
                     PROVE  h[k].expr = Looked(E[(IF k < 1 THEN k ELSE 1) - 1].names, T[k])
          BY DEF LineAt
        <4>1. (IF k < 1 THEN k ELSE 1) - 1 = 0
          BY <2>4
        <4>2. Looked(<<>>, T[k]) = {}
          BY DEF Looked
        <4> QED BY <2>6, <3>2, <4>1, <4>2
      <3> QED BY <2>1, <2>5, <3>1, <3>2, <3>3 DEF PassHas, Passes
    <2>8. CASE pass = "line"
      <3>1. next = "string" /\ LineAt(h, T, E, r) /\ o = <<>> /\ \A k \in Live(h) : Stands(h, T, E, k)
        BY <2>1, <2>3, <2>8 DEF PassHas, NextPass
      <3>2. PassAt(port, h, T, E, 1, "string", "line")
        <4> SUFFICES ASSUME NEW k \in Live(h), h[k].type # "macro"
                     PROVE  h[k].expr = After(IF k < 1 THEN "string" ELSE "line", port, E[k - 1].names, T[k])
          BY DEF PassAt
        <4>1. (IF k < 1 THEN "string" ELSE "line") = "line" /\ (IF k < r THEN k ELSE r) = k
          BY <2>4
        <4>2. h[k].expr = Looked(E[k - 1].names, T[k])
          BY <3>1, <4>1 DEF LineAt
        <4> QED BY <4>1, <4>2 DEF After
      <3>3. Before["string"] = "line"
        BY DEF Before
      <3> QED BY <2>1, <2>5, <3>1, <3>2, <3>3 DEF PassHas, Passes
    <2>9. CASE pass \in {"string", "eval", "preserve"}
      <3>1. /\ PassAt(port, h, T, E, r, pass, Before[pass]) /\ o = <<>> /\ \A k \in Live(h) : Stands(h, T, E, k)
        BY <2>3, <2>9 DEF PassHas
      <3>2. /\ next \in {"eval", "preserve"} => Before[next] = pass
            /\ next \in {"eval", "preserve", "print"} /\ (next = "print" <=> pass = "preserve")
        BY <2>1, <2>9 DEF NextPass, Before
      <3>3. ASSUME NEW done
            PROVE  PassAt(port, h, T, E, 1, done, pass)
        <4> SUFFICES ASSUME NEW k \in Live(h), h[k].type # "macro"
                     PROVE  h[k].expr = After(IF k < 1 THEN done ELSE pass, port, E[k - 1].names, T[k])
          BY DEF PassAt
        <4>1. (IF k < 1 THEN done ELSE pass) = pass /\ (IF k < r THEN pass ELSE Before[pass]) = pass
          BY <2>4
        <4>2. h[k].expr = After(pass, port, E[k - 1].names, T[k])
          BY <3>1, <4>1 DEF PassAt
        <4> QED BY <4>1, <4>2
      <3>4. PassAt(port, h, T, E, 1, next, pass) /\ PassAt(port, h, T, E, 1, "preserve", pass)
        BY <3>3
      <3>5. next = "print" => o = E[1 - 1].out
        BY <2>6, <3>1
      <3> QED BY <2>1, <2>5, <3>1, <3>2, <3>4, <3>5 DEF PassHas, Passes
    <2>10. CASE pass = "print"
      <3>1. next = "done" /\ o = E[r - 1].out
        BY <2>1, <2>3, <2>10 DEF PassHas, NextPass
      <3> QED BY <2>3, <2>5, <3>1 DEF Passes
    <2> QED BY <2>7, <2>8, <2>9, <2>10 DEF Passes
  <1> QED BY <1>2, <1>3

(* A pass goes on.                                                         *)
LEMMA VisitPass ==
  ASSUME ShapeInv, pc \in Passes, i # 0, NEW h, Visit(h), InOrder(h), i \in Live(h),
         NEW T, NEW E, Sound(T, E), NEW o, o = out', PassHas(port, pc, h, Rest(h, i), o, T, E)
  PROVE  PassInv(T, E)'
  <1>1. head = 1
    BY DEF ShapeInv
  <1>2. PICK m, next : m = i' /\ next = pc'
    OBVIOUS
  <1>3. heap' = h /\ port' = port /\ Moves(h, i, pc, m, next)
    BY <1>1, <1>2 DEF Visit, Moves
  <1>4. /\ next \in Passes => PassHas(port, next, h, m, o, T, E)
        /\ next = "done" => o = E[Len(T)].out
        /\ next \in Passes \cup {"done"}
    BY <1>3, PassMoves
  <1>5. /\ pc' \in Passes => PassHas(port', pc', heap', i', out', T, E)
        /\ pc' = "done" => out' = E[Len(T)].out
        /\ pc' \in Passes \cup {"done"}
    BY <1>2, <1>3, <1>4
  <1>6. pc' \notin {"tokenize", "reverse", "wild", "overrun", "hung"}
    BY <1>5 DEF Passes
  <1> QED BY <1>5, <1>6 DEF PassInv

LEMMA AtNode ==
  ASSUME ShapeInv, pc \in Passes, i # 0
  PROVE  /\ InOrder(heap) /\ Nodes(heap) /\ i \in Live(heap) /\ i \in 1 .. Len(heap) /\ Len(heap) \in Nat
         /\ pc = "identify" => \A m \in Macros(heap) : m < i
  BY DEF ShapeInv, Live, InOrder

(* Identify_Macros takes a definition where the expansion does.            *)
LEMMA IdentifyPass ==
  ASSUME ShapeInv, Identify_Macros, NEW T, NEW E, Sound(T, E), PassInv(T, E)
  PROVE  PassInv(T, E)'
  <1>1. pc = "identify" /\ i # 0 /\ pc \in Passes /\ out' = out
    BY DEF Identify_Macros, At, Passes
  <1>2. /\ InOrder(heap) /\ i \in Live(heap) /\ i \in 1 .. Len(heap) /\ Len(heap) \in Nat
        /\ \A m \in Macros(heap) : m < i
    BY <1>1, AtNode
  <1>3. Len(heap) = Len(T) /\ IdentifyAt(heap, T, E, i) /\ out = <<>>
    BY <1>1 DEF PassInv, PassHas
  <1>4. /\ heap[i].text = T[i] /\ heap[i].type = KindOf(T[i]) /\ heap[i].expr = {}
        /\ E[i - 1].define = <<>>
        /\ \A k \in Live(heap) : k < i => Stands(heap, T, E, k) /\ (heap[k].type # "macro" => heap[k].expr = {})
        /\ \A k \in 1 .. Len(heap) : i <= k => heap[k].text = T[k] /\ heap[k].type = KindOf(T[k]) /\ heap[k].expr = {}
    <2>1. /\ E[i - 1].define = <<>>
          /\ \A k \in Live(heap) : k < i => Stands(heap, T, E, k) /\ (heap[k].type # "macro" => heap[k].expr = {})
          /\ \A k \in 1 .. Len(heap) : i <= k => heap[k].text = T[k] /\ heap[k].type = KindOf(T[k]) /\ heap[k].expr = {}
      BY <1>1, <1>3, Zenon DEF IdentifyAt
    <2>2. i <= i
      BY <1>2
    <2> QED BY <1>2, <2>1, <2>2, Zenon
  <1>5. heap[i].type # "macro" /\ Rest(heap, i) = i + 1
    BY <1>4, KindFacts DEF Rest
  <1>6. Steps(port, T, E)
    BY SoundFacts
  <1>7. CASE heap[i].text # <<"DEFINE">> /\ Visit(heap)
    <2>1. Stands(heap, T, E, i)
      BY <1>4, <1>7 DEF Stands, IsPlain
    <2>2. E[(i + 1) - 1].define = <<>>
      <3>1. E[i].define = <<>>
        BY <1>2, <1>3, <1>5, <2>1, StandsFacts
      <3> QED BY <1>2, <3>1
    <2>3. \A k \in Live(heap) : k < i + 1 => Stands(heap, T, E, k) /\ (heap[k].type # "macro" => heap[k].expr = {})
      <3> SUFFICES ASSUME NEW k \in Live(heap), k < i + 1
                   PROVE  Stands(heap, T, E, k) /\ (heap[k].type # "macro" => heap[k].expr = {})
        OBVIOUS
      <3>1. k < i \/ k = i
        BY <1>2 DEF Live
      <3> QED BY <1>4, <2>1, <3>1
    <2>4. \A k \in 1 .. Len(heap) : i + 1 <= k => heap[k].text = T[k] /\ heap[k].type = KindOf(T[k]) /\ heap[k].expr = {}
      <3> SUFFICES ASSUME NEW k \in 1 .. Len(heap), i + 1 <= k
                   PROVE  heap[k].text = T[k] /\ heap[k].type = KindOf(T[k]) /\ heap[k].expr = {}
        OBVIOUS
      <3>1. i <= k
        BY <1>2
      <3> QED BY <1>4, <3>1
    <2>5. IdentifyAt(heap, T, E, i + 1)
      BY <2>2, <2>3, <2>4, Zenon DEF IdentifyAt
    <2>6. PassHas(port, pc, heap, Rest(heap, i), out', T, E)
      BY <1>1, <1>3, <1>5, <2>5 DEF PassHas
    <2> QED BY <1>1, <1>2, <1>7, <2>6, VisitPass
  <1>8. CASE heap[i].text = <<"DEFINE">> /\ Followed(heap, i) /\ Visit(Defined(heap, i))
    <2>1. PICK g : g = Defined(heap, i)
      OBVIOUS
    <2>2. /\ i + 2 <= Len(heap) /\ Len(g) = Len(heap) /\ heap[i].next = i + 1
          /\ \A k \in 1 .. Len(heap) : k # i => g[k] = heap[k]
          /\ g[i] = [next |-> heap[i + 2].next, type |-> "macro",
                     text |-> heap[i + 1].text, expr |-> {heap[i + 2].text}]
          /\ Macros(g) = Macros(heap) \cup {i} /\ InOrder(g) /\ i \in Live(g)
      BY <1>1, <1>8, <2>1, DefinedFacts
    <2>3. g[i].type = "macro" /\ g[i].text = heap[i + 1].text /\ g[i].expr = {heap[i + 2].text}
      BY <2>2
    <2>4. heap[i + 1].text = T[i + 1] /\ heap[i + 2].text = T[i + 2]
      BY <1>2, <1>4, <2>2
    <2>5. Stands(g, T, E, i) /\ Rest(g, i) = i + 3
      <3>1. IsMacro(g, T, i)
        BY <1>3, <1>4, <1>8, <2>2, <2>3, <2>4 DEF IsMacro
      <3> QED BY <1>4, <2>3, <3>1 DEF Stands, Rest
    <2>6. E[(i + 3) - 1].define = <<>>
      <3>1. E[i + 2].define = <<>>
        BY <1>2, <1>3, <2>2, <2>3, <2>5, StandsFacts
      <3> QED BY <1>2, <3>1
    <2>7. \A k \in Live(g) : k < i + 3 => Stands(g, T, E, k) /\ (g[k].type # "macro" => g[k].expr = {})
      <3> SUFFICES ASSUME NEW k \in Live(g), k < i + 3
                   PROVE  Stands(g, T, E, k) /\ (g[k].type # "macro" => g[k].expr = {})
        OBVIOUS
      <3>1. k \in 1 .. Len(heap) /\ k # i + 1 /\ k # i + 2 /\ k \in Live(heap)
        <4>1. k \in 1 .. Len(g) /\ \A m \in Macros(g) : k # m + 1 /\ k # m + 2
          BY DEF Live, Taken
        <4>2. i \in Macros(g) /\ Macros(heap) \subseteq Macros(g)
          BY <2>2
        <4>3. k \notin Taken(heap)
          BY <4>1, <4>2 DEF Taken
        <4> QED BY <2>2, <4>1, <4>2, <4>3 DEF Live
      <3>2. k = i \/ k < i
        BY <1>2, <3>1
      <3>3. CASE k < i
        <4>1. g[k] = heap[k]
          BY <1>2, <2>2, <3>1, <3>3, SMTT(30)
        <4>2. Stands(heap, T, E, k) /\ (heap[k].type # "macro" => heap[k].expr = {})
          BY <1>4, <3>1, <3>3
        <4> QED BY <4>1, <4>2 DEF Stands, IsMacro, IsPlain
      <3> QED BY <2>3, <2>5, <3>2, <3>3
    <2>8. \A k \in 1 .. Len(g) : i + 3 <= k => g[k].text = T[k] /\ g[k].type = KindOf(T[k]) /\ g[k].expr = {}
      <3> SUFFICES ASSUME NEW k \in 1 .. Len(g), i + 3 <= k
                   PROVE  g[k].text = T[k] /\ g[k].type = KindOf(T[k]) /\ g[k].expr = {}
        OBVIOUS
      <3>1. i <= k /\ k # i /\ k \in 1 .. Len(heap)
        BY <1>2, <2>2
      <3> QED BY <1>4, <2>2, <3>1
    <2>9. IdentifyAt(g, T, E, i + 3)
      BY <2>6, <2>7, <2>8, Zenon DEF IdentifyAt
    <2>10. PassHas(port, pc, g, Rest(g, i), out', T, E)
      BY <1>1, <1>3, <2>2, <2>5, <2>9 DEF PassHas
    <2> QED BY <1>1, <1>8, <2>1, <2>2, <2>10, VisitPass
  <1>9. CASE heap[i].text = <<"DEFINE">> /\ ~Followed(heap, i)
    <2>1. heap[i].next = Succ(heap, i)
      BY <1>2 DEF InOrder
    <2>2. heap[i].next = 0 => i + 2 > Len(heap)
      BY <1>2, <1>5, <2>1 DEF Succ
    <2>3. ASSUME heap[i].next # 0
          PROVE  i + 2 > Len(heap)
      <3>1. heap[i].next = i + 1 /\ i + 1 \in 1 .. Len(heap)
        BY <1>2, <1>5, <2>1, <2>3 DEF Succ
      <3>2. heap[i + 1].type = KindOf(T[i + 1])
        BY <1>2, <1>4, <3>1
      <3>3. heap[i + 1].type # "macro"
        BY <3>2, KindFacts
      <3>4. heap[i + 1].next = 0
        BY <1>9, <2>3, <3>1 DEF Followed
      <3>5. heap[i + 1].next = Succ(heap, i + 1) /\ Rest(heap, i + 1) = (i + 1) + 1
        BY <1>2, <3>1, <3>3 DEF InOrder, Rest
      <3> QED BY <1>2, <3>4, <3>5 DEF Succ
    <2>4. i + 2 > Len(T)
      BY <1>3, <2>2, <2>3
    <2>5. T[i] = <<"DEFINE">> /\ i \in 1 .. Len(T)
      BY <1>2, <1>3, <1>4, <1>9
    <2>6. E[Len(T)].define # <<>>
      BY <1>4, <1>6, <2>4, <2>5, DefineRead
    <2> QED BY <2>6, SoundFacts
  <1> QED BY <1>7, <1>8, <1>9 DEF Identify_Macros

LEMMA LookedBound ==
  ASSUME NEW n \in NameSets, NEW a \in Words, NEW v \in Words, NEW b
  PROVE  Looked(Bound(n, a, v), b) = IF b = a THEN {v} ELSE Looked(n, b)
  <1>1. PICK m : m = Bound(n, a, v)
    OBVIOUS
  <1>2. DOMAIN m = DOMAIN n \cup {a} /\ m[a] = v /\ \A c \in DOMAIN n : c # a => m[c] = n[c]
    BY <1>1, BoundIs
  <1>3. Looked(m, b) = IF b = a THEN {v} ELSE Looked(n, b)
    BY <1>2 DEF Looked
  <1> QED BY <1>1, <1>3

(* What Line_Macro hands Set_Expression is the list behind the macro.      *)
LEMMA LinkedBehind ==
  ASSUME NEW h, InOrder(h), NEW n \in Live(h), NEW k \in Live(h)
  PROVE  k \in LinkedFrom(h, h[n].next) <=> k >= Rest(h, n)
  <1>1. /\ h[n].next \in Live(h) \cup {0}
        /\ h[n].next # 0 => h[n].next = Rest(h, n)
        /\ h[n].next = 0 => Rest(h, n) = Len(h) + 1
    BY LiveFacts
  <1>2. PICK m : m = h[n].next
    OBVIOUS
  <1>3. LinkedFrom(h, m) = IF m = 0 THEN {} ELSE {j \in Live(h) : j >= m}
    BY <1>1, <1>2, LinkedInOrder
  <1>4. k \in 1 .. Len(h) /\ Len(h) \in Nat
    BY DEF Live, InOrder
  <1> QED BY <1>1, <1>2, <1>3, <1>4

(* Line_Macro gives the tokens behind a definition what the expansion      *)
(* finds for them there.                                                   *)
LEMMA LinePass ==
  ASSUME ShapeInv, Line_Macro, NEW T, NEW E, Sound(T, E), PassInv(T, E)
  PROVE  PassInv(T, E)'
  <1>1. pc = "line" /\ i # 0 /\ pc \in Passes /\ out' = out
    BY DEF Line_Macro, At, Passes
  <1>2. InOrder(heap) /\ Nodes(heap) /\ i \in Live(heap) /\ i \in 1 .. Len(heap) /\ Len(heap) \in Nat
    BY <1>1, AtNode
  <1>3. Len(heap) = Len(T) /\ LineAt(heap, T, E, i) /\ out = <<>> /\ \A k \in Live(heap) : Stands(heap, T, E, k)
    BY <1>1 DEF PassInv, PassHas
  <1>4. Stands(heap, T, E, i) /\ i \in 1 .. Len(T)
    BY <1>2, <1>3
  <1>5. \A k \in Live(heap) : /\ k \in 1 .. Len(T)
                              /\ heap[k].type # "macro" => heap[k].text = T[k]
    <2> SUFFICES ASSUME NEW k \in Live(heap)
                 PROVE  k \in 1 .. Len(T) /\ (heap[k].type # "macro" => heap[k].text = T[k])
      OBVIOUS
    <2>1. k \in 1 .. Len(T) /\ Stands(heap, T, E, k)
      BY <1>3 DEF Live
    <2>2. heap[k].type # "macro" => IsPlain(heap, T, k)
      BY <1>3, <2>1, StandsFacts
    <2> QED BY <2>1, <2>2 DEF IsPlain
  <1>6. CASE heap[i].type # "macro" /\ Visit(heap)
    <2>1. E[i].names = E[i - 1].names /\ Rest(heap, i) = i + 1
      BY <1>3, <1>4, <1>6, StandsFacts DEF Rest
    <2>2. LineAt(heap, T, E, i + 1)
      <3> SUFFICES ASSUME NEW k \in Live(heap), heap[k].type # "macro"
                   PROVE  heap[k].expr = Looked(E[(IF k < i + 1 THEN k ELSE i + 1) - 1].names, T[k])
        BY DEF LineAt
      <3>1. heap[k].expr = Looked(E[(IF k < i THEN k ELSE i) - 1].names, T[k])
        BY <1>3 DEF LineAt
      <3>2. k \in Nat /\ i \in Nat
        BY <1>2, <1>5
      <3>3. CASE k < i
        <4>1. (IF k < i THEN k ELSE i) = k /\ (IF k < i + 1 THEN k ELSE i + 1) = k
          BY <3>2, <3>3
        <4> QED BY <3>1, <4>1
      <3>4. CASE k = i
        <4>1. (IF k < i THEN k ELSE i) = k /\ (IF k < i + 1 THEN k ELSE i + 1) = k
          BY <3>2, <3>4
        <4> QED BY <3>1, <4>1
      <3>5. CASE k > i
        <4>1. (IF k < i THEN k ELSE i) - 1 = i - 1 /\ (IF k < i + 1 THEN k ELSE i + 1) - 1 = i
          BY <3>2, <3>5
        <4> QED BY <2>1, <3>1, <4>1
      <3> QED BY <3>2, <3>3, <3>4, <3>5
    <2>3. PassHas(port, pc, heap, Rest(heap, i), out', T, E)
      BY <1>1, <1>3, <2>1, <2>2 DEF PassHas
    <2> QED BY <1>1, <1>2, <1>6, <2>3, VisitPass
  <1>7. CASE /\ heap[i].type = "macro"
             /\ Visit(Set_Expression(heap, heap[i].next, heap[i].text, heap[i].expr))
    <2>1. /\ heap[i].text = T[i + 1] /\ heap[i].expr = {T[i + 2]} /\ i + 2 <= Len(T)
          /\ E[i + 2].names = Bound(E[i - 1].names, T[i + 1], T[i + 2])
      BY <1>3, <1>4, <1>7, StandsFacts DEF IsMacro
    <2>2. PICK s, a, v, g : s = heap[i].next /\ a = T[i + 1] /\ v = T[i + 2] /\ g = Set_Expression(heap, s, a, {v})
      OBVIOUS
    <2>3. /\ Nodes(g) /\ Len(g) = Len(heap)
          /\ \A k \in 1 .. Len(heap) :
                /\ g[k].next = heap[k].next /\ g[k].type = heap[k].type /\ g[k].text = heap[k].text
                /\ Named(heap, s, a, k) => g[k].expr = {v}
                /\ ~Named(heap, s, a, k) => g[k].expr = heap[k].expr
      <3>1. PICK e : e = {v}
        OBVIOUS
      <3>2. g = Set_Expression(heap, s, a, e) /\ IsExpr(e) /\ Nodes(heap)
        BY <1>2, <2>2, <3>1 DEF IsExpr
      <3>3. Nodes(g) /\ Len(g) = Len(heap) /\ Replaced(g, heap, s, a, e)
        BY <3>2, ExpressionsSet
      <3> QED BY <3>1, <3>3, Zenon DEF Replaced
    <2>4. Visit(g)
      BY <1>7, <2>1, <2>2
    <2>5. /\ Macros(g) = Macros(heap) /\ Live(g) = Live(heap) /\ InOrder(g)
          /\ Rest(g, i) = i + 3 /\ Rest(heap, i) = i + 3
      BY <1>2, <1>7, <2>3, SameShape DEF Rest
    <2>6. E[i - 1].names \in NameSets /\ a \in Words /\ v \in Words
      <3>1. i - 1 \in 0 .. Len(T) /\ i + 1 \in 1 .. Len(T) /\ i + 2 \in 1 .. Len(T)
        BY <1>2, <1>3, <2>1
      <3> QED BY <2>2, <3>1, SoundFacts, DoneIs
    <2>7. \A k \in Live(g) : Stands(g, T, E, k)
      <3> SUFFICES ASSUME NEW k \in Live(g)
                   PROVE  Stands(g, T, E, k)
        OBVIOUS
      <3>1. k \in 1 .. Len(T) /\ Stands(heap, T, E, k) /\ g[k].type = heap[k].type /\ g[k].text = heap[k].text
        BY <1>3, <1>5, <2>3, <2>5
      <3>2. IsMacro(heap, T, k) => g[k].expr = heap[k].expr
        BY <1>3, <2>3, <3>1 DEF Named, IsMacro
      <3> QED BY <3>1, <3>2 DEF Stands, IsMacro, IsPlain
    <2>8. LineAt(g, T, E, i + 3)
      <3> SUFFICES ASSUME NEW k \in Live(g), g[k].type # "macro"
                   PROVE  g[k].expr = Looked(E[(IF k < i + 3 THEN k ELSE i + 3) - 1].names, T[k])
        BY DEF LineAt
      <3>1. k \in Live(heap) /\ k \in 1 .. Len(T) /\ heap[k].type # "macro" /\ heap[k].text = T[k]
        BY <1>3, <1>5, <2>3, <2>5
      <3>2. heap[k].expr = Looked(E[(IF k < i THEN k ELSE i) - 1].names, T[k])
        BY <1>3, <3>1 DEF LineAt
      <3>3. k \in Nat /\ i \in Nat
        BY <1>2, <3>1
      <3>4. k \in LinkedFrom(heap, s) <=> k >= i + 3
        BY <1>2, <2>2, <2>5, <3>1, LinkedBehind
      <3>5. CASE k < i + 3
        <4>1. k # i /\ (k > i => k >= i + 3)
          BY <1>2, <1>7, <2>5, <3>1, LiveFacts
        <4>2. (IF k < i THEN k ELSE i) = k /\ (IF k < i + 3 THEN k ELSE i + 3) = k
          BY <3>3, <3>5, <4>1
        <4>3. g[k].expr = heap[k].expr
          BY <1>3, <2>3, <3>1, <3>3, <3>4, <3>5 DEF Named
        <4> QED BY <3>2, <4>2, <4>3
      <3>6. CASE k >= i + 3
        <4>1. (IF k < i THEN k ELSE i) - 1 = i - 1 /\ (IF k < i + 3 THEN k ELSE i + 3) - 1 = i + 2
          BY <3>3, <3>6
        <4>2. Looked(E[i + 2].names, T[k]) = IF T[k] = a THEN {v} ELSE Looked(E[i - 1].names, T[k])
          <5>1. PICK n, b : n = E[i - 1].names /\ b = T[k]
            OBVIOUS
          <5>2. n \in NameSets /\ E[i + 2].names = Bound(n, a, v)
            BY <2>1, <2>2, <2>6, <5>1
          <5>3. Looked(Bound(n, a, v), b) = IF b = a THEN {v} ELSE Looked(n, b)
            BY <2>6, <5>2, LookedBound
          <5> QED BY <5>1, <5>2, <5>3
        <4>3. Named(heap, s, a, k) <=> T[k] = a
          BY <3>1, <3>4, <3>6 DEF Named
        <4>4. g[k].expr = IF T[k] = a THEN {v} ELSE heap[k].expr
          BY <1>3, <2>3, <3>1, <4>3
        <4> QED BY <3>2, <4>1, <4>2, <4>4
      <3> QED BY <3>3, <3>5, <3>6
    <2>9. PassHas(port, pc, g, Rest(g, i), out', T, E)
      BY <1>1, <1>3, <2>3, <2>5, <2>7, <2>8 DEF PassHas
    <2> QED BY <1>1, <1>2, <2>4, <2>5, <2>9, VisitPass
  <1>8. CASE heap[i].type = "macro" /\ heap[i].next = 0 /\ port = "amd64"
    <2>1. Rest(heap, i) = Len(heap) + 1
      BY <1>2, <1>8, LiveFacts
    <2>2. i = Len(T) - 2 /\ T[i] = <<"DEFINE">>
      <3>1. IsMacro(heap, T, i)
        BY <1>3, <1>4, <1>8, StandsFacts
      <3> QED BY <1>2, <1>3, <1>8, <2>1, <3>1 DEF Rest, IsMacro
    <2>3. Len(T) > 3 \/ (Len(T) = 3 /\ i = 1)
      BY <1>2, <1>3, <2>2
    <2> QED BY <1>8, <2>2, <2>3 DEF Sound
  <1> QED BY <1>6, <1>7, <1>8 DEF Line_Macro

Middle == {"string", "eval", "preserve"}

(* What one of the middle passes finds in the node it is at.               *)
LEMMA NodeFound ==
  ASSUME ShapeInv, pc \in Middle, i # 0, NEW T, NEW E, Sound(T, E), PassInv(T, E)
  PROVE  /\ i \in 1 .. Len(T) /\ Len(heap) = Len(T) /\ T[i] \in Words /\ E[i - 1] \in Dones
         /\ heap[i].type = "macro" => heap[i].expr # {}
         /\ heap[i].type # "macro" =>
               /\ heap[i].text = T[i] /\ heap[i].type = KindOf(T[i])
               /\ heap[i].expr = After(Before[pc], port, E[i - 1].names, T[i])
  <1>1. pc \in Passes /\ pc # "identify" /\ pc # "line" /\ pc # "print"
    BY DEF Passes, Middle
  <1>2. InOrder(heap) /\ i \in Live(heap) /\ i \in 1 .. Len(heap) /\ Len(heap) \in Nat
    BY <1>1, AtNode
  <1>3. /\ Len(heap) = Len(T) /\ PassAt(port, heap, T, E, i, pc, Before[pc])
        /\ \A k \in Live(heap) : Stands(heap, T, E, k)
    BY <1>1 DEF PassInv, PassHas, Middle
  <1>4. i \in 1 .. Len(T) /\ Stands(heap, T, E, i) /\ i - 1 \in 0 .. Len(T)
    BY <1>2, <1>3
  <1>5. T[i] \in Words /\ E[i - 1] \in Dones
    BY <1>4, SoundFacts
  <1>6. heap[i].type = "macro" => heap[i].expr # {}
    <2>1. heap[i].type = "macro" => IsMacro(heap, T, i)
      BY <1>3, <1>4, StandsFacts
    <2> QED BY <2>1 DEF IsMacro
  <1>7. heap[i].type # "macro" => IsPlain(heap, T, i)
    BY <1>3, <1>4, StandsFacts
  <1>8. heap[i].type # "macro" => heap[i].expr = After(Before[pc], port, E[i - 1].names, T[i])
    <2>1. (IF i < i THEN pc ELSE Before[pc]) = Before[pc]
      BY <1>2
    <2>2. heap[i].type # "macro" => heap[i].expr = After(IF i < i THEN pc ELSE Before[pc], port, E[i - 1].names, T[i])
      BY <1>2, <1>3 DEF PassAt
    <2> QED BY <2>1, <2>2
  <1> QED BY <1>3, <1>4, <1>5, <1>6, <1>7, <1>8 DEF IsPlain

(* It leaves there what the expansion goes on with.                        *)
LEMMA NodeLeft ==
  ASSUME ShapeInv, pc \in Middle, i # 0, NEW T, NEW E, Sound(T, E), PassInv(T, E), out' = out,
         NEW h, Visit(h), h = heap \/ \E e : h = WithExpr(e),
         heap[i].type = "macro" => h = heap,
         heap[i].type # "macro" => h[i].expr = After(pc, port, E[i - 1].names, T[i])
  PROVE  PassInv(T, E)'
  <1>1. pc \in Passes /\ pc # "identify" /\ pc # "line" /\ pc # "print"
    BY DEF Passes, Middle
  <1>2. InOrder(heap) /\ i \in Live(heap) /\ i \in 1 .. Len(heap) /\ Len(heap) \in Nat
    BY <1>1, AtNode
  <1>3. /\ Len(heap) = Len(T) /\ PassAt(port, heap, T, E, i, pc, Before[pc]) /\ out = <<>>
        /\ \A k \in Live(heap) : Stands(heap, T, E, k)
    BY <1>1 DEF PassInv, PassHas, Middle
  <1>4. /\ Len(h) = Len(heap)
        /\ \A k \in 1 .. Len(heap) : /\ h[k].next = heap[k].next /\ h[k].type = heap[k].type
                                     /\ h[k].text = heap[k].text /\ (k # i => h[k].expr = heap[k].expr)
    <2>1. CASE h = heap
      BY <2>1
    <2>2. CASE h # heap
      <3>1. PICK e : h = WithExpr(e)
        BY <2>2
      <3> QED BY <1>1, <3>1, WithExprFacts
    <2> QED BY <2>1, <2>2
  <1>5. Live(h) = Live(heap) /\ InOrder(h) /\ Rest(h, i) = Rest(heap, i)
    BY <1>2, <1>4, SameShape
  <1>6. \A k \in Live(heap) : k \in 1 .. Len(heap)
    BY DEF Live
  <1>7. \A k \in Live(h) : Stands(h, T, E, k)
    <2> SUFFICES ASSUME NEW k \in Live(h)
                 PROVE  Stands(h, T, E, k)
      OBVIOUS
    <2>1. /\ k \in 1 .. Len(heap) /\ Stands(heap, T, E, k) /\ h[k].type = heap[k].type /\ h[k].text = heap[k].text
          /\ k # i => h[k].expr = heap[k].expr
      BY <1>3, <1>4, <1>5, <1>6
    <2>2. heap[k].type = "macro" => h[k].expr = heap[k].expr
      BY <2>1
    <2>3. IsMacro(heap, T, k) => IsMacro(h, T, k)
      BY <2>1, <2>2 DEF IsMacro
    <2>4. IsPlain(heap, T, k) => IsPlain(h, T, k)
      BY <2>1 DEF IsPlain
    <2> QED BY <2>1, <2>3, <2>4 DEF Stands
  <1>8. PassAt(port, h, T, E, Rest(h, i), pc, Before[pc])
    <2> SUFFICES ASSUME NEW k \in Live(h), h[k].type # "macro"
                 PROVE  h[k].expr = After(IF k < Rest(h, i) THEN pc ELSE Before[pc], port, E[k - 1].names, T[k])
      BY DEF PassAt
    <2>1. k \in Live(heap) /\ k \in 1 .. Len(heap) /\ heap[k].type # "macro" /\ Rest(h, i) \in Nat /\ Rest(h, i) > i
      <3>1. k \in Live(heap) /\ k \in 1 .. Len(heap)
        BY <1>5, <1>6
      <3>2. heap[k].type # "macro"
        BY <1>4, <3>1
      <3>3. Rest(h, i) = i + 3 \/ Rest(h, i) = i + 1
        BY DEF Rest
      <3> QED BY <1>2, <3>1, <3>2, <3>3
    <2>2. k # i => h[k].expr = After(IF k < i THEN pc ELSE Before[pc], port, E[k - 1].names, T[k])
      BY <1>3, <1>4, <2>1 DEF PassAt
    <2>3. k > i => k >= Rest(h, i)
      BY <1>2, <1>5, <2>1, LiveFacts
    <2>4. CASE k = i
      <3>1. (IF k < Rest(h, i) THEN pc ELSE Before[pc]) = pc
        BY <1>2, <2>1, <2>4
      <3> QED BY <2>1, <2>4, <3>1
    <2>5. CASE k # i
      <3>1. k < i <=> k < Rest(h, i)
        BY <1>2, <2>1, <2>3, <2>5
      <3> QED BY <2>2, <2>5, <3>1
    <2> QED BY <2>4, <2>5
  <1>9. PassHas(port, pc, h, Rest(h, i), out', T, E)
    BY <1>1, <1>3, <1>4, <1>7, <1>8 DEF PassHas, Middle
  <1> QED BY <1>1, <1>2, <1>5, <1>9, VisitPass

IsRaw(t) == t[1] = "\""

LEMMA RawRoom ==
  ASSUME NEW t, InRoom("riscv64", t), IsRaw(t)
  PROVE  3 * Len(t) < ScratchSize
  BY Zenon DEF InRoom, IsRaw

(* A string's digits have the room they need.                              *)
LEMMA RoomIs ==
  ASSUME NEW t \in Words, InRoom(port, t), IsRaw(t), PointerFits(port)
  PROVE  RoomForHex(t, HexString(port, Tail(t)))
  <1>1. t \in Seq(Chars) /\ Len(t) \in Nat \ {0} /\ Tail(t) \in Seq(Chars) /\ Len(Tail(t)) = Len(t) - 1
    BY HeadTailProperties, LenProperties, EmptySeq DEF Words
  <1>2. PICK d, n, a : d = HexString(port, Tail(t)) /\ n = Len(t) /\ a = Len(Tail(t))
    OBVIOUS
  <1>3. n \in Nat /\ a + 1 = n /\ Len(d) = Apart(port) * (a + 1)
    <2>1. Len(d) = Apart(port) * (a + 1)
      BY <1>1, <1>2, HexStringIs
    <2>2. n \in Nat /\ a = n - 1
      BY <1>1, <1>2
    <2> QED BY <2>1, <2>2
  <1>4. CASE port = "riscv64"
    <2>1. 3 * n < ScratchSize
      BY <1>2, <1>4, RawRoom
    <2> QED BY <1>2, <1>3, <1>4, <2>1 DEF Apart, RoomForHex
  <1>5. CASE port # "riscv64"
    <2>1. 2 * n + 1 <= ((n \div 4) + 1) * 8
      BY <1>3
    <2> QED BY <1>2, <1>5, <2>1 DEF RoomForHex, HexifyNeed, HexifyRoom
  <1> QED BY <1>4, <1>5

LEMMA OverrunPass ==
  ASSUME ~PointerFits(port), Fail("overrun"), NEW T, NEW E
  PROVE  PassInv(T, E)'
  BY DEF PassInv, PointerFits, Fail, Passes

LEMMA StringPass ==
  ASSUME ShapeInv, Process_String, NEW T, NEW E, Sound(T, E), PassInv(T, E)
  PROVE  PassInv(T, E)'
  <1>1. pc = "string" /\ i # 0 /\ pc \in Middle /\ out' = out /\ Before[pc] = "line"
    BY DEF Process_String, At, Middle, Before
  <1>2. /\ i \in 1 .. Len(T) /\ Len(heap) = Len(T) /\ T[i] \in Words /\ E[i - 1] \in Dones
        /\ heap[i].type # "macro" =>
              /\ heap[i].text = T[i] /\ heap[i].type = KindOf(T[i])
              /\ heap[i].expr = After("line", port, E[i - 1].names, T[i])
    BY <1>1, NodeFound
  <1>3. PICK t, m : t = T[i] /\ m = E[i - 1].names
    OBVIOUS
  <1>4. ASSUME heap[i].type # "string", Visit(heap)
        PROVE  PassInv(T, E)'
    <2>1. heap[i].type # "macro" => heap[i].expr = After("string", port, m, t)
      BY <1>2, <1>3, <1>4, KindFacts DEF After
    <2> QED BY <1>1, <1>3, <1>4, <2>1, NodeLeft
  <1>5. ASSUME heap[i].type = "string"
        PROVE  /\ heap[i].text = t /\ IsString(t) /\ (IsRaw(t) \/ t[1] = "'")
               /\ After("string", port, m, t) = {Replacement(port, m, t)}
    BY <1>2, <1>3, <1>5, KindFacts, Zenon DEF After, IsString, IsRaw
  <1>6. ASSUME heap[i].type = "string", NEW s, s = Replacement(port, m, t), Visit(WithExpr(s))
        PROVE  PassInv(T, E)'
    <2>1. PICK h : h = WithExpr(s)
      OBVIOUS
    <2>2. pc \in Passes
      BY <1>1 DEF Passes
    <2>3. h[i].expr = {s}
      BY <1>1, <2>1, <2>2, WithExprFacts
    <2>4. h[i].expr = After(pc, port, E[i - 1].names, T[i])
      BY <1>1, <1>3, <1>5, <1>6, <2>3
    <2>5. Visit(h) /\ (h = heap \/ \E e : h = WithExpr(e)) /\ heap[i].type # "macro"
      BY <1>6, <2>1
    <2> QED BY <1>1, <2>4, <2>5, NodeLeft
  <1>7. CASE heap[i].type = "string" /\ t[1] = "'" /\ Visit(WithExpr(Tail(t)))
    <2>1. Replacement(port, m, t) = Tail(t)
      BY <1>5, <1>7, Zenon DEF Replacement
    <2> QED BY <1>6, <1>7, <2>1
  <1>8. ASSUME heap[i].type = "string", t[1] # "'"
        PROVE  /\ Replacement(port, m, t) = HexString(port, Tail(t))
               /\ PointerFits(port) => RoomForHex(t, HexString(port, Tail(t)))
    <2>1. IsRaw(t)
      BY <1>5, <1>8
    <2>2. Replacement(port, m, t) = HexString(port, Tail(t))
      BY <1>5, <1>8, <2>1, Zenon DEF Replacement, IsRaw
    <2>3. t \in Words /\ InRoom(port, t)
      BY <1>2, <1>3, Zenon DEF Sound, Good
    <2> QED BY <2>1, <2>2, <2>3, RoomIs
  <1>9. CASE heap[i].type = "string" /\ t[1] # "'"
    <2>1. /\ heap[i].text = t
          /\ PointerFits(port) => RoomForHex(t, HexString(port, Tail(t)))
      BY <1>5, <1>8, <1>9
    <2>2. CASE Visit(WithExpr(HexString(port, Tail(t))))
      <3>1. Replacement(port, m, t) = HexString(port, Tail(t))
        BY <1>8, <1>9
      <3> QED BY <1>6, <1>9, <2>2, <3>1
    <2>3. CASE ~PointerFits(port) /\ Fail("overrun")
      BY <2>3, OverrunPass
    <2>4. \/ Visit(WithExpr(HexString(port, Tail(t))))
          \/ ~PointerFits(port) /\ Fail("overrun")
      BY <1>9, <2>1 DEF Process_String
    <2> QED BY <2>2, <2>3, <2>4
  <1>10. CASE heap[i].type # "string"
    <2>1. Visit(heap)
      BY <1>10 DEF Process_String
    <2> QED BY <1>4, <1>10, <2>1
  <1>11. CASE heap[i].type = "string" /\ t[1] = "'"
    <2>1. heap[i].text = t
      BY <1>5, <1>11
    <2>2. Visit(WithExpr(Tail(t)))
      BY <1>11, <2>1 DEF Process_String
    <2> QED BY <1>7, <1>11, <2>2
  <1> QED BY <1>9, <1>10, <1>11

(* A text of one character.                                                *)
LEMMA SingleIs ==
  ASSUME NEW A, NEW t \in Seq(A), Len(t) = 1
  PROVE  t = <<t[1]>>
  <1>1. PICK c : c = t[1]
    OBVIOUS
  <1>2. c \in A
    BY <1>1
  <1>3. <<c>> \in Seq(A) /\ Len(<<c>>) = 1 /\ <<c>>[1] = c
    BY <1>2
  <1>4. \A k \in 1 .. Len(t) : t[k] = <<c>>[k]
    BY <1>1, <1>3
  <1>5. t = <<c>>
    BY <1>3, <1>4, SeqEqual
  <1> QED BY <1>1, <1>5

(* A token of a well-formed text that is to be a number is read as one.    *)
LEMMA NumberRead ==
  ASSUME NEW T, NEW E, Sound(T, E), NEW k \in 1 .. Len(T), IsPrefixed(port, T[k]), NEW v \in Numbers(port, T[k])
  PROVE  v = numerate_string(Tail(T[k]))
  <1>1. PICK t : t = T[k]
    OBVIOUS
  <1>2. t \in Words /\ (port = "riscv64" => t \notin {<<"!">>, <<"@">>, <<"~">>, <<"%">>})
    BY <1>1, SoundFacts DEF Sound, Good
  <1>3. ASSUME Len(t) = 1, port = "riscv64"
        PROVE  FALSE
    <2>1. PICK c : c = t[1]
      OBVIOUS
    <2>2. c \in {"!", "@", "~", "%"}
      BY <1>1, <1>3, <2>1 DEF IsPrefixed
    <2>3. t = <<c>>
      BY <1>2, <1>3, <2>1, SingleIs DEF Words
    <2> QED BY <1>2, <1>3, <2>2, <2>3
  <1>4. Numbers(port, t) = {numerate_string(Tail(t))}
    BY <1>3 DEF Numbers
  <1> QED BY <1>1, <1>4

(* Eval_Immediates evaluates what the expansion takes for a number.        *)
LEMMA EvalPass ==
  ASSUME ShapeInv, Eval_Immediates, NEW T, NEW E, Sound(T, E), PassInv(T, E)
  PROVE  PassInv(T, E)'
  <1>1. pc = "eval" /\ i # 0 /\ pc \in Middle /\ pc \in Passes /\ out' = out /\ Before[pc] = "string"
    BY DEF Eval_Immediates, At, Middle, Passes, Before
  <1>2. /\ i \in 1 .. Len(T) /\ Len(heap) = Len(T) /\ T[i] \in Words /\ E[i - 1] \in Dones
        /\ heap[i].type = "macro" => heap[i].expr # {}
        /\ heap[i].type # "macro" =>
              /\ heap[i].text = T[i] /\ heap[i].type = KindOf(T[i])
              /\ heap[i].expr = After("string", port, E[i - 1].names, T[i])
    BY <1>1, NodeFound
  <1>3. PICK t, m : t = T[i] /\ m = E[i - 1].names
    OBVIOUS
  <1>4. CASE heap[i].type = "macro"
    <2>1. Visit(heap)
      BY <1>4 DEF Eval_Immediates
    <2> QED BY <1>1, <1>4, <2>1, NodeLeft
  <1>5. CASE heap[i].type # "macro" /\ heap[i].expr = {} /\ IsPrefixed(port, t)
    <2>1. heap[i].text = t /\ After("string", port, m, t) = {}
      BY <1>2, <1>3, <1>5
    <2>2. ~IsString(t) /\ Looked(m, t) = {}
      BY <2>1 DEF After
    <2>3. t \notin DOMAIN m
      BY <2>2 DEF Looked
    <2>4. PICK v : v = numerate_string(Tail(t))
      OBVIOUS
    <2>5. \E w \in Numbers(port, t) :
             IF IsNumber(t, w) /\ ~PointerFits(port) THEN Fail("overrun")
             ELSE Visit(IF IsNumber(t, w) THEN WithExpr(express_number(port, w, t[1])) ELSE heap)
      BY <1>5, <2>1 DEF Eval_Immediates
    <2>6. IF IsNumber(t, v) /\ ~PointerFits(port) THEN Fail("overrun")
          ELSE Visit(IF IsNumber(t, v) THEN WithExpr(express_number(port, v, t[1])) ELSE heap)
      <3>1. \A w \in Numbers(port, t) : w = v
        BY <1>2, <1>3, <1>5, <2>4, NumberRead
      <3> QED BY <2>5, <3>1
    <2>7. PICK e : e = express_number(port, v, t[1])
      OBVIOUS
    <2>8. PICK h : h = IF IsNumber(t, v) THEN WithExpr(e) ELSE heap
      OBVIOUS
    <2>9. Visit(h) \/ (~PointerFits(port) /\ Fail("overrun"))
      BY <2>6, <2>7, <2>8
    <2>10. After("eval", port, m, t) = IF IsNumber(t, v) THEN {e} ELSE {}
      BY <1>5, <2>2, <2>3, <2>4, <2>7 DEF After, Evaluated
    <2>11. h[i].expr = After(pc, port, E[i - 1].names, T[i])
      <3>1. CASE IsNumber(t, v)
        <4>1. h = WithExpr(e)
          BY <2>8, <3>1
        <4>2. h[i].expr = {e}
          BY <1>1, <4>1, WithExprFacts
        <4> QED BY <1>1, <1>3, <2>10, <3>1, <4>2
      <3>2. CASE ~IsNumber(t, v)
        BY <1>1, <1>3, <1>5, <2>8, <2>10, <3>2
      <3> QED BY <3>1, <3>2
    <2>12. h = heap \/ \E x : h = WithExpr(x)
      BY <2>8
    <2>13. CASE Visit(h)
      BY <1>1, <1>5, <2>11, <2>12, <2>13, NodeLeft
    <2> QED BY <2>9, <2>13, OverrunPass
  <1>6. CASE heap[i].type # "macro" /\ ~(heap[i].expr = {} /\ IsPrefixed(port, t))
    <2>1. heap[i].text = t /\ heap[i].expr = After("string", port, m, t)
      BY <1>2, <1>3, <1>6
    <2>2. Visit(heap)
      BY <1>6, <2>1 DEF Eval_Immediates
    <2>3. heap[i].expr = After("eval", port, m, t)
      <3>1. CASE IsString(t)
        BY <2>1, <3>1 DEF After
      <3>2. CASE ~IsString(t)
        <4>1. heap[i].expr = Looked(m, t) /\ After("eval", port, m, t) = Evaluated(port, m, t)
          BY <2>1, <3>2 DEF After
        <4>2. t \notin DOMAIN m => Looked(m, t) = {}
          BY DEF Looked
        <4>3. t \notin DOMAIN m => Evaluated(port, m, t) = {}
          BY <1>6, <4>1, <4>2 DEF Evaluated
        <4>4. t \in DOMAIN m => Looked(m, t) = Evaluated(port, m, t)
          BY DEF Looked, Evaluated
        <4> QED BY <4>1, <4>2, <4>3, <4>4
      <3> QED BY <3>1, <3>2
    <2>4. heap[i].expr = After(pc, port, E[i - 1].names, T[i])
      BY <1>1, <1>3, <2>3
    <2> QED BY <1>1, <1>6, <2>2, <2>4, NodeLeft
  <1> QED BY <1>4, <1>5, <1>6

(* Preserve_Other leaves in every node what the expansion writes for it.   *)
LEMMA PreservePass ==
  ASSUME ShapeInv, Preserve_Other, NEW T, NEW E, Sound(T, E), PassInv(T, E)
  PROVE  PassInv(T, E)'
  <1>1. pc = "preserve" /\ i # 0 /\ pc \in Middle /\ pc \in Passes /\ out' = out /\ Before[pc] = "eval"
    BY DEF Preserve_Other, At, Middle, Passes, Before
  <1>2. /\ heap[i].type = "macro" => heap[i].expr # {}
        /\ heap[i].type # "macro" =>
              /\ heap[i].text = T[i]
              /\ heap[i].expr = After("eval", port, E[i - 1].names, T[i])
    BY <1>1, NodeFound
  <1>3. PICK t, m : t = T[i] /\ m = E[i - 1].names
    OBVIOUS
  <1>4. After(pc, port, E[i - 1].names, T[i]) = {Replacement(port, m, t)}
    BY <1>1, <1>3 DEF After
  <1>5. CASE heap[i].expr = {}
    <2>1. heap[i].type # "macro" /\ heap[i].text = t /\ After("eval", port, m, t) = {}
      BY <1>2, <1>3, <1>5
    <2>2. ~IsString(t) /\ Evaluated(port, m, t) = {}
      BY <2>1 DEF After
    <2>3. /\ t \notin DOMAIN m
          /\ ~(IsPrefixed(port, t) /\ IsNumber(t, numerate_string(Tail(t))))
      BY <2>2 DEF Evaluated
    <2>4. Replacement(port, m, t) = t
      BY <2>2, <2>3, Zenon DEF Replacement, IsString
    <2>5. PICK h : h = WithExpr(t)
      OBVIOUS
    <2>6. Visit(h)
      BY <1>5, <2>1, <2>5 DEF Preserve_Other
    <2>7. h[i].expr = {t}
      BY <1>1, <2>5, WithExprFacts
    <2>8. h[i].expr = After(pc, port, E[i - 1].names, T[i])
      BY <1>4, <2>4, <2>7
    <2>9. h = heap \/ \E x : h = WithExpr(x)
      BY <2>5
    <2> QED BY <1>1, <2>1, <2>6, <2>8, <2>9, NodeLeft
  <1>6. CASE heap[i].expr # {}
    <2>1. Visit(heap)
      BY <1>6 DEF Preserve_Other
    <2>2. heap[i].type # "macro" => heap[i].expr = {Replacement(port, m, t)}
      <3> SUFFICES ASSUME heap[i].type # "macro"
                   PROVE  heap[i].expr = {Replacement(port, m, t)}
        OBVIOUS
      <3>1. heap[i].expr = After("eval", port, m, t)
        BY <1>2, <1>3
      <3>2. CASE IsString(t)
        BY <3>1, <3>2 DEF After
      <3>3. CASE ~IsString(t)
        <4>1. heap[i].expr = Evaluated(port, m, t)
          BY <3>1, <3>3 DEF After
        <4>2. CASE t \in DOMAIN m
          <5>1. Replacement(port, m, t) = m[t]
            BY <3>3, <4>2, Zenon DEF Replacement, IsString
          <5> QED BY <4>1, <4>2, <5>1 DEF Evaluated
        <4>3. CASE t \notin DOMAIN m
          <5>1. IsPrefixed(port, t) /\ IsNumber(t, numerate_string(Tail(t)))
            BY <1>6, <4>1, <4>3 DEF Evaluated
          <5>2. Replacement(port, m, t) = express_number(port, numerate_string(Tail(t)), t[1])
            BY <3>3, <4>3, <5>1, Zenon DEF Replacement, IsString
          <5> QED BY <4>1, <4>3, <5>1, <5>2 DEF Evaluated
        <4> QED BY <4>2, <4>3
      <3> QED BY <3>2, <3>3
    <2> QED BY <1>1, <1>4, <2>1, <2>2, NodeLeft
  <1> QED BY <1>5, <1>6

(* Print_Hex writes what the expansion does.                               *)
LEMMA PrintPass ==
  ASSUME ShapeInv, Print_Hex, NEW T, NEW E, Sound(T, E), PassInv(T, E)
  PROVE  PassInv(T, E)'
  <1>1. pc = "print" /\ i # 0 /\ pc \in Passes /\ Visit(heap)
    BY DEF Print_Hex, At, Passes
  <1>2. InOrder(heap) /\ i \in Live(heap) /\ i \in 1 .. Len(heap) /\ Len(heap) \in Nat
    BY <1>1, AtNode
  <1>3. /\ Len(heap) = Len(T) /\ PassAt(port, heap, T, E, i, "preserve", "preserve") /\ out = E[i - 1].out
        /\ \A k \in Live(heap) : Stands(heap, T, E, k)
    BY <1>1 DEF PassInv, PassHas
  <1>4. PICK r : r = Replacement(port, E[i - 1].names, T[i])
    OBVIOUS
  <1>5. Stands(heap, T, E, i) /\ i \in 1 .. Len(T)
    BY <1>2, <1>3
  <1>6. out' = E[Rest(heap, i) - 1].out
    <2>1. CASE heap[i].type = "macro"
      <3>1. out' = out
        BY <2>1 DEF Print_Hex
      <3>2. E[i + 2].out = E[i - 1].out
        BY <1>3, <1>5, <2>1, StandsFacts
      <3>3. Rest(heap, i) - 1 = i + 2
        BY <1>2, <2>1 DEF Rest
      <3> QED BY <1>3, <3>1, <3>2, <3>3
    <2>2. CASE heap[i].type # "macro"
      <3>1. heap[i].expr = After("preserve", port, E[i - 1].names, T[i])
        BY <1>2, <1>3, <2>2 DEF PassAt
      <3>2. heap[i].expr = {r}
        BY <1>4, <3>1 DEF After
      <3>3. (CHOOSE s \in heap[i].expr : TRUE) = r
        BY <3>2
      <3>4. out' = Lined(out, r)
        BY <2>2, <3>3 DEF Print_Hex, Lined
      <3>5. E[i].out = Lined(E[i - 1].out, r)
        BY <1>3, <1>4, <1>5, <2>2, StandsFacts
      <3>6. Rest(heap, i) - 1 = i
        BY <1>2, <2>2 DEF Rest
      <3> QED BY <1>3, <3>4, <3>5, <3>6
    <2> QED BY <2>1, <2>2
  <1>7. Rest(heap, i) # 0
    BY <1>2 DEF Rest
  <1>8. PassAt(port, heap, T, E, Rest(heap, i), "preserve", "preserve")
    BY <1>3 DEF PassAt
  <1>9. PICK o : o = out'
    OBVIOUS
  <1>10. PassHas(port, pc, heap, Rest(heap, i), o, T, E)
    BY <1>1, <1>3, <1>6, <1>7, <1>8, <1>9 DEF PassHas
  <1> QED BY <1>1, <1>2, <1>9, <1>10, VisitPass

LEMMA SoundTokens ==
  ASSUME port \in Ports, text \in Seq(STRING), WellFormed(port, text),
         NEW T, T = TokensOf(Scan(text)), NEW E, E = Expanding(port, T)
  PROVE  Sound(T, E) /\ T \in Seq(Words)
  <1>1. PICK x : x = Lexing(text)
    OBVIOUS
  <1>2. /\ T \in Seq(Words) /\ Good(T) /\ Expansion(port, T).define = <<>>
        /\ port = "amd64" => /\ T # <<>>
                             /\ Len(T) > 3 => T[Len(T) - 2] # <<"DEFINE">>
                             /\ Len(T) = 3 => T[1] # <<"DEFINE">>
    BY <1>1, GoodTokens
  <1>3. Steps(port, T, E) /\ Expansion(port, T) = E[Len(T)]
    BY <1>2, ExpandingIs
  <1> QED BY <1>2, <1>3, Zenon DEF Sound

LEMMA TokenizePass ==
  ASSUME Tokenize_Line, pc' \in {"tokenize", "reverse"}, NEW T, NEW E, PassInv(T, E)
  PROVE  PassInv(T, E)'
  <1>1. pc = "tokenize" /\ out' = out
    BY DEF Tokenize_Line, Tokenize_Line_Eof, Purge_LineComment, SkipTerminator, Store_String, Store_Atom,
           Tokenized, Restart, Fail
  <1>2. out' = <<>>
    BY <1>1 DEF PassInv
  <1>3. pc' \notin Passes /\ pc' # "done"
    BY DEF Passes
  <1> QED BY <1>2, <1>3 DEF PassInv

(* The list as it is read is what Identify_Macros begins with.             *)
LEMMA ReversePass ==
  ASSUME ShapeInv, Reverse_List, NEW x, NEW T, ReadInv(x, T), NEW E, Sound(T, E), PassInv(T, E)
  PROVE  PassInv(T, E)'
  <1>1. /\ pc' \in {"reverse", "identify"} /\ ShapeInv'
        /\ Texts(heap') = T /\ AsRead(heap') /\ Fresh(heap')
    BY ReverseReads, ReverseKeeps
  <1>2. pc = "reverse" /\ out' = out /\ out = <<>> /\ port' = port
    BY DEF Reverse_List, PassInv
  <1>3. CASE pc' = "reverse"
    BY <1>2, <1>3 DEF PassInv, Passes
  <1>4. CASE pc' = "identify"
    <2>1. PICK h, n : h = heap' /\ n = i'
      OBVIOUS
    <2>2. i' = head'
      BY <1>4 DEF Reverse_List
    <2>3. head' = (IF Len(heap') = 0 THEN 0 ELSE 1) /\ Nodes(heap')
      BY <1>1, <1>4 DEF ShapeInv, Passes
    <2>4. /\ Nodes(h) /\ (n = 0 \/ n = 1) /\ Texts(h) = T /\ AsRead(h) /\ Fresh(h)
      BY <1>1, <2>1, <2>2, <2>3
    <2>5. Len(h) = Len(T) /\ \A k \in 1 .. Len(h) : T[k] = h[k].text
      BY <2>4, TextsFacts
    <2>6. \A k \in 1 .. Len(h) : h[k].text = T[k] /\ h[k].type = KindOf(T[k]) /\ h[k].expr = {}
      BY <2>4, <2>5 DEF AsRead, Fresh
    <2>7. \A k \in Live(h) : ~(k < n)
      BY <2>4, <2>5, SoundFacts DEF Live
    <2>8. n # 0 => E[n - 1].define = <<>>
      <3>1. E[0].define = <<>>
        BY SoundFacts DEF Dn
      <3> QED BY <2>4, <3>1
    <2>9. IdentifyAt(h, T, E, n)
      BY <2>6, <2>7, <2>8, Zenon DEF IdentifyAt
    <2>10. PassHas(port, "identify", h, n, <<>>, T, E)
      BY <2>5, <2>9 DEF PassHas
    <2>11. PassHas(port', pc', heap', i', out', T, E)
      BY <1>2, <1>4, <2>1, <2>10
    <2> QED BY <1>4, <2>11 DEF PassInv
  <1> QED BY <1>1, <1>3, <1>4

(* Without a token, nothing is written.                                    *)
LEMMA EmptyPass ==
  ASSUME ShapeInv, EmptyList, NEW T, NEW E, Sound(T, E), T \in Seq(Words), PassInv(T, E)
  PROVE  PassInv(T, E)'
  <1>1. pc \in Passes /\ i = 0 /\ PassHas(port, pc, heap, i, out, T, E)
    BY DEF EmptyList, PassInv
  <1>2. Len(heap) = 0 /\ Len(T) = 0 /\ out = <<>>
    BY <1>1 DEF ShapeInv, PassHas
  <1>3. T = <<>>
    BY <1>2, EmptySeq
  <1>4. port = "riscv64"
    BY <1>3, SoundFacts DEF Sound, ShapeInv, Ports
  <1>5. pc' = NextPass[pc] /\ UNCHANGED <<port, heap, i, out>>
    BY <1>4 DEF EmptyList
  <1>6. Live(heap) = {}
    BY <1>2 DEF Live
  <1>7. pc' \in Passes \cup {"done"} /\ pc' # "identify"
    BY <1>1, <1>5 DEF Passes, NextPass
  <1>8. PICK next : next = pc'
    OBVIOUS
  <1>9. PassHas(port, next, heap, i, out, T, E)
    BY <1>1, <1>2, <1>6, <1>7, <1>8 DEF PassHas, LineAt, PassAt
  <1>10. PassHas(port', pc', heap', i', out', T, E)
    BY <1>5, <1>8, <1>9
  <1>11. E[Len(T)].out = <<>>
    BY <1>2, SoundFacts DEF Dn
  <1>12. out' = <<>>
    BY <1>2, <1>5
  <1>13. pc' \notin {"tokenize", "reverse", "wild", "overrun", "hung"}
    BY <1>7 DEF Passes
  <1> QED BY <1>10, <1>11, <1>12, <1>13 DEF PassInv

LEMMA BeginsPrefix ==
  ASSUME NEW S, NEW s \in Seq(S), NEW t \in Seq(S), Begins(s, t)
  PROVE  IsPrefix(s, t)
  <1>1. Len(s) \in Nat /\ Len(t) \in Nat /\ Len(s) <= Len(t) /\ \A k \in 1 .. Len(s) : s[k] = t[k]
    BY DEF Begins
  <1>2. PICK n : n = Len(s)
    OBVIOUS
  <1>3. SubSeq(s, 1, n) = SubSeq(t, 1, n)
    BY <1>1, <1>2
  <1> QED BY <1>1, <1>2, <1>3 DEF IsPrefix

(* The list is what M0 has read of the text, and each pass is where the    *)
(* expansion of the tokens in front of it is.                              *)
RightInv ==
    WellFormed(port, text) =>
        \E x, T, E : /\ x = Lexing(text) /\ T = TokensOf(Scan(text)) /\ E = Expanding(port, T)
                     /\ ReadInv(x, T) /\ PassInv(T, E)

LEMMA InitRight == Init => RightInv
  <1> SUFFICES ASSUME Init, WellFormed(port, text)
               PROVE  RightInv
    BY DEF RightInv
  <1>1. PICK x, T, E : x = Lexing(text) /\ T = TokensOf(Scan(text)) /\ E = Expanding(port, T)
    OBVIOUS
  <1>2. pc = "tokenize" /\ heap = <<>> /\ Len(heap) = 0 /\ out = <<>> /\ text \in Seq(STRING) /\ pos = 1
    BY M0Assumption DEF Init
  <1>3. x[0] = Lex("gap", <<>>, <<>>)
    BY <1>1, <1>2, LexingIs
  <1>4. Texts(heap) = <<>>
    BY <1>2 DEF Texts
  <1>5. Collected(x, T, Texts(heap), pos)
    BY <1>2, <1>3, <1>4 DEF Collected
  <1>6. AsRead(heap) /\ Cleared
    BY <1>2 DEF AsRead, Cleared, Init
  <1>7. ReadInv(x, T)
    BY <1>2, <1>5, <1>6 DEF ReadInv
  <1>8. PassInv(T, E)
    BY <1>2 DEF PassInv, Passes
  <1> QED BY <1>1, <1>7, <1>8 DEF RightInv

(* The passes.                                                             *)
Later == EmptyList \/ Identify_Macros \/ Line_Macro \/ Process_String
           \/ Eval_Immediates \/ Preserve_Other \/ Print_Hex

LEMMA VisitChanges ==
  ASSUME pc \in Passes, NEW h, Visit(h)
  PROVE  UNCHANGED <<port, text>> /\ pc' \notin {"tokenize", "reverse"}
  BY DEF Visit, Passes, NextPass

LEMMA LaterChanges ==
  ASSUME Later
  PROVE  UNCHANGED <<port, text>> /\ pc' \notin {"tokenize", "reverse"}
  <1>1. ASSUME NEW how \in {"wild", "overrun", "hung"}, Fail(how)
        PROVE  UNCHANGED <<port, text>> /\ pc' \notin {"tokenize", "reverse"}
    BY <1>1 DEF Fail
  <1>2. CASE EmptyList
    <2>1. CASE port = "riscv64"
      BY <1>2, <2>1 DEF EmptyList, Passes, NextPass
    <2>2. CASE port # "riscv64"
      BY <1>1, <1>2, <2>2 DEF EmptyList
    <2> QED BY <2>1, <2>2
  <1>3. CASE Identify_Macros
    <2>1. pc \in Passes
      BY <1>3 DEF Identify_Macros, At, Passes
    <2> QED BY <1>1, <1>3, <2>1, VisitChanges DEF Identify_Macros
  <1>4. CASE Line_Macro
    <2>1. pc \in Passes
      BY <1>4 DEF Line_Macro, At, Passes
    <2> QED BY <1>1, <1>4, <2>1, VisitChanges DEF Line_Macro
  <1>5. CASE Process_String
    <2>1. pc \in Passes
      BY <1>5 DEF Process_String, At, Passes
    <2>2. (\E h : Visit(h)) \/ Fail("overrun")
      BY <1>5 DEF Process_String
    <2> QED BY <1>1, <2>1, <2>2, VisitChanges
  <1>6. CASE Eval_Immediates
    <2>1. pc \in Passes
      BY <1>6 DEF Eval_Immediates, At, Passes
    <2>2. (\E h : Visit(h)) \/ Fail("overrun")
      BY <1>6 DEF Eval_Immediates
    <2> QED BY <1>1, <2>1, <2>2, VisitChanges
  <1>7. CASE Preserve_Other
    <2>1. pc \in Passes
      BY <1>7 DEF Preserve_Other, At, Passes
    <2>2. \E h : Visit(h)
      BY <1>7 DEF Preserve_Other
    <2> QED BY <2>1, <2>2, VisitChanges
  <1>8. CASE Print_Hex
    <2>1. pc \in Passes
      BY <1>8 DEF Print_Hex, At, Passes
    <2> QED BY <1>8, <2>1, VisitChanges DEF Print_Hex
  <1> QED BY <1>2, <1>3, <1>4, <1>5, <1>6, <1>7, <1>8 DEF Later

LEMMA StepRight == ShapeInv /\ RightInv /\ [Next]_vars => RightInv'
  <1> SUFFICES ASSUME ShapeInv, RightInv, [Next]_vars, (WellFormed(port, text))'
               PROVE  (\E x, T, E : /\ x = Lexing(text) /\ T = TokensOf(Scan(text)) /\ E = Expanding(port, T)
                                    /\ ReadInv(x, T) /\ PassInv(T, E))'
    BY DEF RightInv
  <1>1. CASE UNCHANGED vars
    BY <1>1 DEF vars, RightInv, ReadInv, PassInv, Cleared, Collected
  <1>2. CASE Next
    <2>1. Tokenize_Line \/ Reverse_List \/ Later
      BY <1>2 DEF Next, Later
    <2>2. UNCHANGED <<port, text>>
      <3>1. CASE Tokenize_Line
        BY <3>1 DEF Tokenize_Line, Tokenize_Line_Eof, Purge_LineComment, SkipTerminator, Store_String, Store_Atom,
                    Tokenized, Restart, Fail
      <3>2. CASE Reverse_List
        BY <3>2 DEF Reverse_List
      <3> QED BY <2>1, <3>1, <3>2, LaterChanges
    <2>3. WellFormed(port, text)
      BY <2>2
    <2>4. PICK x, T, E : /\ x = Lexing(text) /\ T = TokensOf(Scan(text)) /\ E = Expanding(port, T)
                         /\ ReadInv(x, T) /\ PassInv(T, E)
      BY <2>3 DEF RightInv
    <2>5. Sound(T, E) /\ T \in Seq(Words)
      BY <2>3, <2>4, SoundTokens DEF ShapeInv
    <2>6. CASE Tokenize_Line
      <3>1. ReadInv(x, T)' /\ pc' \in {"tokenize", "reverse"}
        BY <2>3, <2>4, <2>6, TokenizeReads
      <3>2. PassInv(T, E)'
        BY <2>4, <2>6, <3>1, TokenizePass
      <3> QED BY <2>2, <2>4, <3>1, <3>2
    <2>7. CASE Reverse_List
      <3>1. ReadInv(x, T)'
        BY <2>4, <2>7, ReverseReads
      <3>2. PassInv(T, E)'
        BY <2>4, <2>5, <2>7, ReversePass
      <3> QED BY <2>2, <2>4, <3>1, <3>2
    <2>8. CASE Later
      <3>1. ReadInv(x, T)'
        BY <2>8, LaterChanges DEF ReadInv
      <3>2. PassInv(T, E)'
        BY <2>4, <2>5, <2>8, EmptyPass, IdentifyPass, LinePass, StringPass, EvalPass, PreservePass, PrintPass
           DEF Later
      <3> QED BY <2>2, <2>4, <3>1, <3>2
    <2> QED BY <2>1, <2>6, <2>7, <2>8
  <1> QED BY <1>1, <1>2

(* On a text M0 is for, no pass follows NULL or reads past the end of the  *)
(* file; and none writes past an area, as long as amd64 can store its      *)
(* digits through the 32 bits of the pool's pointer that hex1 keeps.       *)
THEOREM StaysInBoundsTheorem == Spec => []StaysInBounds
  <1>1. RightInv => StaysInBounds
    BY DEF RightInv, PassInv, StaysInBounds
  <1> QED BY <1>1, InitShape, StepShape, InitRight, StepRight, PTL DEF Spec

(* What M0 has printed is at any time the beginning of what one reading of *)
(* the text from left to right gives, and in the end it is all of it.      *)
THEOREM OutputExactTheorem == Spec => []OutputExact
  <1>1. ShapeInv /\ RightInv => OutputExact
    <2> SUFFICES ASSUME ShapeInv, RightInv, pc \in {"print", "done"}, WellFormed(port, text)
                 PROVE  LET expected == Expansion(port, TokensOf(Scan(text))).out IN
                        IsPrefix(out, expected) /\ (pc = "done" => out = expected)
      BY DEF OutputExact
    <2>1. PICK T, E : T = TokensOf(Scan(text)) /\ E = Expanding(port, T) /\ PassInv(T, E)
      BY DEF RightInv
    <2>2. Sound(T, E) /\ T \in Seq(Words)
      BY <2>1, SoundTokens DEF ShapeInv
    <2>3. Expansion(port, T) = E[Len(T)]
      BY <2>1, <2>2, ExpandingIs DEF ShapeInv
    <2>4. PICK o, e : o = out /\ e = E[Len(T)].out
      OBVIOUS
    <2>5. \E k \in 0 .. Len(T) : o = E[k].out
      <3>1. Len(T) \in Nat /\ E[0].out = <<>>
        BY <2>2, SoundFacts DEF Dn
      <3>2. CASE pc = "done"
        BY <2>1, <2>4, <3>1, <3>2 DEF PassInv
      <3>3. CASE pc = "print"
        <4>1. PassHas(port, pc, heap, i, out, T, E) /\ pc \in Passes
          BY <2>1, <3>3 DEF PassInv, Passes
        <4>2. Len(heap) = Len(T) /\ o = IF i # 0 THEN E[i - 1].out ELSE <<>>
          BY <2>4, <3>3, <4>1 DEF PassHas
        <4>3. i # 0 => i - 1 \in 0 .. Len(T)
          BY <3>1, <4>1, <4>2, AtNode
        <4> QED BY <3>1, <4>2, <4>3
      <3> QED BY <3>2, <3>3
    <2>6. Begins(o, e) /\ o \in Seq(Printed) /\ e \in Seq(Printed)
      <3>1. PICK k \in 0 .. Len(T) : o = E[k].out
        BY <2>5
      <3>2. E[k] \in Dones /\ E[Len(T)] \in Dones /\ Begins(E[k].out, E[Len(T)].out)
        BY <2>2, SoundFacts, OutGrows
      <3> QED BY <2>4, <3>1, <3>2, DoneIs
    <2>7. IsPrefix(o, e)
      BY <2>6, BeginsPrefix
    <2>8. pc = "done" => o = e
      BY <2>1, <2>4 DEF PassInv
    <2> QED BY <2>1, <2>3, <2>4, <2>7, <2>8
  <1> QED BY <1>1, InitShape, StepShape, InitRight, StepRight, PTL DEF Spec

-----------------------------------------------------------------------------
(* What Eval_Immediates leaves in a token *)

Renamed(h, k) == \E m \in 1 .. k - 1 : h[m].type = "macro" /\ h[m].text = h[k].text

(* The number behind the prefix of s, as it is written.                    *)
Made(p, s) == express_number(p, numerate_string(Tail(s)), s[1])

(* A token that no definition above it names has no expression yet, is     *)
(* kept as it is, or is the number it stands for.                          *)
Known(p, h, k) ==
    h[k].type = "atom" /\ Len(h[k].text) > 1 /\ ~Renamed(h, k) =>
        \/ h[k].expr = {} \/ h[k].expr = {h[k].text}
        \/ IsPrefixed(p, h[k].text) /\ h[k].expr = {Made(p, h[k].text)}
AllKnown(p, h) == \A k \in 1 .. Len(h) : Known(p, h, k)
KnownInv       == AllKnown(port, heap)

(* What was known of a node stays so as long as the macros above it do.    *)
LEMMA KnownKept ==
  ASSUME NEW p, NEW h, NEW g, NEW k, Known(p, h, k),
         g[k].type = h[k].type, g[k].text = h[k].text, g[k].expr = h[k].expr,
         \A m \in 1 .. k - 1 : h[m].type = "macro" => g[m].type = "macro" /\ g[m].text = h[m].text
  PROVE  Known(p, g, k)
  <1>1. Renamed(h, k) => Renamed(g, k)
    BY DEF Renamed
  <1> QED BY <1>1 DEF Known

(* A pass gives a token itself or its number for an expression.            *)
LEMMA EditKnown ==
  ASSUME ShapeInv, pc \in Passes, i # 0, KnownInv, NEW e, NEW h, h = WithExpr(e),
         heap[i].type = "atom" /\ Len(heap[i].text) > 1 =>
            e = heap[i].text \/ (IsPrefixed(port, heap[i].text) /\ e = Made(port, heap[i].text))
  PROVE  AllKnown(port, h)
  <1>1. /\ Nodes(h) /\ Len(h) = Len(heap) /\ i \in 1 .. Len(heap) /\ h[i].expr = {e}
        /\ \A k \in 1 .. Len(heap) : /\ h[k].next = heap[k].next /\ h[k].type = heap[k].type
                                     /\ h[k].text = heap[k].text /\ (k # i => h[k].expr = heap[k].expr)
    BY WithExprFacts
  <1>2. Len(heap) \in Nat
    BY AtNode
  <1> SUFFICES ASSUME NEW k \in 1 .. Len(heap) PROVE Known(port, h, k)
    BY <1>1 DEF AllKnown
  <1>3. Known(port, heap, k)
    BY DEF KnownInv, AllKnown
  <1>4. CASE k # i
    <2>1. \A m \in 1 .. k - 1 : heap[m].type = "macro" => h[m].type = "macro" /\ h[m].text = heap[m].text
      BY <1>1, <1>2
    <2> QED BY <1>1, <1>3, <1>4, <2>1, KnownKept
  <1>5. CASE k = i
    <2>1. h[k].type = heap[i].type /\ h[k].text = heap[i].text /\ h[k].expr = {e}
      BY <1>1, <1>5
    <2> QED BY <2>1 DEF Known
  <1> QED BY <1>4, <1>5

LEMMA FreshKnown ==
  ASSUME NEW p, NEW h, Fresh(h)
  PROVE  AllKnown(p, h)
  BY DEF Fresh, AllKnown, Known

(* A definition takes nodes away and names nothing above them.             *)
LEMMA IdentifyKnown ==
  ASSUME ShapeInv, KnownInv, Identify_Macros
  PROVE  AllKnown(port, heap')
  <1>1. pc = "identify" /\ pc \in Passes /\ i # 0
    BY DEF Identify_Macros, At, Passes
  <1>2. CASE heap' = heap
    BY <1>2 DEF KnownInv, AllKnown, Known, Renamed
  <1>3. ASSUME Followed(heap, i), Visit(Defined(heap, i))
        PROVE  AllKnown(port, heap')
    <2> PICK g : g = Defined(heap, i)
      OBVIOUS
    <2>1. heap' = g
      BY <1>3 DEF Visit
    <2>2. /\ i \in 1 .. Len(heap) /\ Len(g) = Len(heap)
          /\ \A k \in 1 .. Len(heap) : k # i => g[k] = heap[k]
          /\ g[i] = [next |-> heap[i + 2].next, type |-> "macro",
                     text |-> heap[i + 1].text, expr |-> {heap[i + 2].text}]
      BY <1>1, <1>3, DefinedFacts
    <2>3. Len(heap) \in Nat /\ \A m \in Macros(heap) : m < i
      BY <1>1, AtNode
    <2> SUFFICES ASSUME NEW k \in 1 .. Len(heap) PROVE Known(port, g, k)
      BY <2>1, <2>2 DEF AllKnown
    <2>4. Known(port, heap, k)
      BY DEF KnownInv, AllKnown
    <2>5. CASE k = i
      <3>1. g[k].type = "macro"
        BY <2>2, <2>5
      <3> QED BY <3>1 DEF Known
    <2>6. CASE k # i
      <3>1. \A m \in 1 .. k - 1 : heap[m].type = "macro" => g[m].type = "macro" /\ g[m].text = heap[m].text
        <4> SUFFICES ASSUME NEW m \in 1 .. k - 1, heap[m].type = "macro"
                     PROVE  g[m] = heap[m]
          OBVIOUS
        <4>1. m \in 1 .. Len(heap)
          BY <2>3
        <4>2. m \in Macros(heap)
          BY <4>1 DEF Macros
        <4>3. m # i
          BY <2>2, <2>3, <4>1, <4>2
        <4> QED BY <2>2, <4>1, <4>3
      <3>2. g[k] = heap[k]
        BY <2>2, <2>6
      <3> QED BY <2>4, <3>1, <3>2, KnownKept
    <2> QED BY <2>5, <2>6
  <1>4. ASSUME Visit(heap) PROVE heap' = heap
    BY <1>4 DEF Visit
  <1>5. ASSUME Fail("wild") PROVE heap' = heap
    BY <1>5 DEF Fail
  <1> QED BY <1>2, <1>3, <1>4, <1>5 DEF Identify_Macros

(* Whatever Line_Macro gives a value is named by the macro it is at.       *)
LEMMA LineKnown ==
  ASSUME ShapeInv, KnownInv, Line_Macro
  PROVE  AllKnown(port, heap')
  <1>1. pc = "line" /\ pc \in Passes /\ i # 0
    BY DEF Line_Macro, At, Passes
  <1>2. CASE heap' = heap
    BY <1>2 DEF KnownInv, AllKnown, Known, Renamed
  <1>3. ASSUME heap[i].type = "macro", Visit(Set_Expression(heap, heap[i].next, heap[i].text, heap[i].expr))
        PROVE  AllKnown(port, heap')
    <2> PICK g : g = Set_Expression(heap, heap[i].next, heap[i].text, heap[i].expr)
      OBVIOUS
    <2> PICK start : start = heap[i].next
      OBVIOUS
    <2> PICK s : s = heap[i].text
      OBVIOUS
    <2>1. heap' = g
      BY <1>3 DEF Visit
    <2>2. InOrder(heap) /\ Nodes(heap) /\ i \in Live(heap) /\ i \in 1 .. Len(heap) /\ Len(heap) \in Nat
      BY <1>1, AtNode
    <2>3. IsExpr(heap[i].expr)
      BY <2>2 DEF Nodes, IsNode, IsExpr
    <2>4. Len(g) = Len(heap) /\ Replaced(g, heap, start, s, heap[i].expr)
      BY <2>2, <2>3, ExpressionsSet
    <2>5. \A k \in 1 .. Len(heap) :
             /\ g[k].type = heap[k].type /\ g[k].text = heap[k].text
             /\ ~Named(heap, start, s, k) => g[k].expr = heap[k].expr
      BY <2>4 DEF Replaced
    <2>6. \A k \in 1 .. Len(heap) : Named(heap, start, s, k) => i < k /\ heap[k].text = heap[i].text
      <3> SUFFICES ASSUME NEW k \in 1 .. Len(heap), Named(heap, start, s, k)
                   PROVE  i < k /\ heap[k].text = heap[i].text
        OBVIOUS
      <3>1. start \in Live(heap) \cup {0} /\ (start # 0 => start = Rest(heap, i) /\ Rest(heap, i) \in i + 1 .. Len(heap))
        BY <2>2, LiveFacts
      <3>2. LinkedFrom(heap, start) = IF start = 0 THEN {} ELSE {j \in Live(heap) : j >= start}
        BY <2>2, <3>1, LinkedInOrder
      <3>3. k \in LinkedFrom(heap, start) /\ heap[k].text = s
        BY DEF Named
      <3>4. start # 0 /\ k >= start
        BY <3>2, <3>3
      <3>5. start \in i + 1 .. Len(heap)
        BY <3>1, <3>4
      <3> QED BY <2>2, <3>3, <3>4, <3>5
    <2> SUFFICES ASSUME NEW k \in 1 .. Len(heap) PROVE Known(port, g, k)
      BY <2>1, <2>4 DEF AllKnown
    <2>7. Known(port, heap, k)
      BY DEF KnownInv, AllKnown
    <2>8. CASE Named(heap, start, s, k)
      <3>1. i \in 1 .. k - 1 /\ heap[k].text = heap[i].text
        BY <2>2, <2>6, <2>8
      <3>2. g[i].type = "macro" /\ g[i].text = g[k].text
        BY <1>3, <2>2, <2>5, <3>1
      <3>3. Renamed(g, k)
        BY <3>1, <3>2 DEF Renamed
      <3> QED BY <3>3 DEF Known
    <2>9. CASE ~Named(heap, start, s, k)
      <3>1. \A m \in 1 .. k - 1 : heap[m].type = "macro" => g[m].type = "macro" /\ g[m].text = heap[m].text
        BY <2>2, <2>5
      <3>2. g[k].type = heap[k].type /\ g[k].text = heap[k].text /\ g[k].expr = heap[k].expr
        BY <2>5, <2>9
      <3> QED BY <2>7, <3>1, <3>2, KnownKept
    <2> QED BY <2>8, <2>9
  <1>4. ASSUME Visit(heap) PROVE heap' = heap
    BY <1>4 DEF Visit
  <1>5. ASSUME Fail("wild") PROVE heap' = heap
    BY <1>5 DEF Fail
  <1> QED BY <1>2, <1>3, <1>4, <1>5 DEF Line_Macro

LEMMA StringKnown ==
  ASSUME ShapeInv, KnownInv, Process_String
  PROVE  AllKnown(port, heap')
  <1>1. pc = "string" /\ pc \in Passes /\ i # 0
    BY DEF Process_String, At, Passes
  <1>2. CASE heap' = heap
    BY <1>2 DEF KnownInv, AllKnown, Known, Renamed
  <1>3. ASSUME heap[i].type = "string", NEW e, Visit(WithExpr(e))
        PROVE  AllKnown(port, heap')
    <2> PICK h : h = WithExpr(e)
      OBVIOUS
    <2>1. heap' = h
      BY <1>3 DEF Visit
    <2>2. heap[i].type # "atom"
      BY <1>3
    <2> QED BY <1>1, <2>1, <2>2, EditKnown
  <1>4. ASSUME Visit(heap) PROVE heap' = heap
    BY <1>4 DEF Visit
  <1>5. ASSUME Fail("overrun") PROVE heap' = heap
    BY <1>5 DEF Fail
  <1>6. \/ Visit(heap)
        \/ heap[i].type = "string" /\ Visit(WithExpr(Tail(heap[i].text)))
        \/ heap[i].type = "string" /\ Visit(WithExpr(HexString(port, Tail(heap[i].text))))
        \/ Fail("overrun")
    BY Zenon DEF Process_String
  <1> QED BY <1>2, <1>3, <1>4, <1>5, <1>6

LEMMA TextAt ==
  ASSUME ShapeInv, pc \in Passes, i # 0
  PROVE  Len(heap[i].text) \in Nat
  <1>1. Nodes(heap) /\ i \in 1 .. Len(heap)
    BY AtNode
  <1>2. IsNode(heap, i)
    BY <1>1 DEF Nodes
  <1>3. \E t : t = heap[i].text /\ t \in Seq(Chars)
    BY <1>2 DEF IsNode
  <1> QED BY <1>3

LEMMA EvalKnown ==
  ASSUME ShapeInv, KnownInv, Eval_Immediates
  PROVE  AllKnown(port, heap')
  <1>1. pc = "eval" /\ pc \in Passes /\ i # 0
    BY DEF Eval_Immediates, At, Passes
  <1>2. CASE heap' = heap
    BY <1>2 DEF KnownInv, AllKnown, Known, Renamed
  <1>8. Len(heap[i].text) > 1 => Len(heap[i].text) # 1
    <2>1. Len(heap[i].text) \in Nat
      BY <1>1, TextAt
    <2>2. \A n \in Nat : n > 1 => n # 1
      OBVIOUS
    <2> QED BY <2>1, <2>2, Zenon
  <1>3. ASSUME IsPrefixed(port, heap[i].text), NEW v \in Numbers(port, heap[i].text),
               Visit(WithExpr(express_number(port, v, heap[i].text[1])))
        PROVE  AllKnown(port, heap')
    <2> PICK e : e = express_number(port, v, heap[i].text[1])
      OBVIOUS
    <2> PICK h : h = WithExpr(e)
      OBVIOUS
    <2>1. heap' = h
      BY <1>3 DEF Visit
    <2>2. Len(heap[i].text) > 1 => v = numerate_string(Tail(heap[i].text))
      BY <1>3, <1>8 DEF Numbers
    <2>3. Len(heap[i].text) > 1 => e = Made(port, heap[i].text)
      BY <2>2 DEF Made
    <2> QED BY <1>1, <1>3, <2>1, <2>3, EditKnown
  <1>4. ASSUME Visit(heap) PROVE heap' = heap
    BY <1>4 DEF Visit
  <1>6. \/ Visit(heap)
        \/ Fail("overrun")
        \/ /\ IsPrefixed(port, heap[i].text)
           /\ \E v \in Numbers(port, heap[i].text) :
                 Visit(IF IsNumber(heap[i].text, v)
                       THEN WithExpr(express_number(port, v, heap[i].text[1])) ELSE heap)
    BY Zenon DEF Eval_Immediates
  <1>7. ASSUME IsPrefixed(port, heap[i].text), NEW v \in Numbers(port, heap[i].text),
               Visit(IF IsNumber(heap[i].text, v)
                     THEN WithExpr(express_number(port, v, heap[i].text[1])) ELSE heap)
        PROVE  AllKnown(port, heap')
    <2>1. CASE IsNumber(heap[i].text, v)
      BY <1>3, <1>7, <2>1
    <2>2. CASE ~IsNumber(heap[i].text, v)
      BY <1>2, <1>4, <1>7, <2>2
    <2> QED BY <2>1, <2>2
  <1>9. ASSUME Fail("overrun") PROVE heap' = heap
    BY <1>9 DEF Fail
  <1> QED BY <1>2, <1>4, <1>6, <1>7, <1>9

LEMMA PreserveKnown ==
  ASSUME ShapeInv, KnownInv, Preserve_Other
  PROVE  AllKnown(port, heap')
  <1>1. pc = "preserve" /\ pc \in Passes /\ i # 0
    BY DEF Preserve_Other, At, Passes
  <1>2. CASE heap' = heap
    BY <1>2 DEF KnownInv, AllKnown, Known, Renamed
  <1>3. ASSUME Visit(WithExpr(heap[i].text))
        PROVE  AllKnown(port, heap')
    <2> PICK h : h = WithExpr(heap[i].text)
      OBVIOUS
    <2>1. heap' = h
      BY <1>3 DEF Visit
    <2> QED BY <1>1, <2>1, EditKnown
  <1>4. ASSUME Visit(heap) PROVE heap' = heap
    BY <1>4 DEF Visit
  <1>5. Visit(heap) \/ Visit(WithExpr(heap[i].text))
    BY DEF Preserve_Other
  <1> QED BY <1>2, <1>3, <1>4, <1>5

LEMMA InitKnown == Init => KnownInv
  BY DEF Init, KnownInv, AllKnown

LEMMA StepKnown == ShapeInv /\ ShapeInv' /\ KnownInv /\ [Next]_vars => KnownInv'
  <1> SUFFICES ASSUME ShapeInv, ShapeInv', KnownInv, [Next]_vars
               PROVE  KnownInv'
    OBVIOUS
  <1>1. ASSUME port' = port, AllKnown(port, heap') PROVE KnownInv'
    BY <1>1 DEF KnownInv
  <1>2. ASSUME port' = port, heap' = heap PROVE KnownInv'
    BY <1>2 DEF KnownInv, AllKnown, Known, Renamed
  <1>3. CASE UNCHANGED vars
    BY <1>2, <1>3 DEF vars
  <1>4. CASE Tokenize_Line
    <2>1. port' = port
      BY <1>4, Zenon DEF Tokenize_Line, Tokenize_Line_Eof, Purge_LineComment, SkipTerminator, Store_String,
          Store_Atom, Restart, Tokenized, Fail
    <2>2. pc' \in {"tokenize", "reverse"} \/ heap' = heap
      BY <1>4, Zenon DEF Tokenize_Line, Tokenize_Line_Eof, Purge_LineComment, SkipTerminator, Store_String,
          Store_Atom, Restart, Tokenized, Fail
    <2>3. ASSUME pc' \in {"tokenize", "reverse"} PROVE Fresh(heap)'
      BY <2>3 DEF ShapeInv
    <2>4. ASSUME pc' \in {"tokenize", "reverse"} PROVE KnownInv'
      <3> PICK h : h = heap'
        OBVIOUS
      <3>1. Fresh(h)
        BY <2>3, <2>4 DEF Fresh
      <3> QED BY <1>1, <2>1, <3>1, FreshKnown
    <2> QED BY <1>2, <2>1, <2>2, <2>4
  <1>5. CASE Reverse_List
    <2>1. port' = port /\ (heap' = heap \/ pc' = "reverse")
      BY <1>5 DEF Reverse_List
    <2>2. ASSUME pc' = "reverse" PROVE KnownInv'
      <3> PICK h : h = heap'
        OBVIOUS
      <3>1. Fresh(heap)'
        BY <2>2 DEF ShapeInv
      <3>2. Fresh(h)
        BY <3>1 DEF Fresh
      <3> QED BY <1>1, <2>1, <3>2, FreshKnown
    <2> QED BY <1>2, <2>1, <2>2
  <1>6. CASE EmptyList
    <2>1. port' = port /\ heap' = heap
      BY <1>6 DEF EmptyList, Fail
    <2> QED BY <1>2, <2>1
  <1>7. CASE Print_Hex
    <2>1. port' = port /\ heap' = heap
      BY <1>7 DEF Print_Hex, Visit
    <2> QED BY <1>2, <2>1
  <1>8. CASE Identify_Macros \/ Line_Macro \/ Process_String \/ Eval_Immediates \/ Preserve_Other
    <2>1. port' = port
      BY <1>8, LaterChanges DEF Later
    <2>2. AllKnown(port, heap')
      BY <1>8, IdentifyKnown, LineKnown, StringKnown, EvalKnown, PreserveKnown
    <2> QED BY <1>1, <2>1, <2>2
  <1> QED BY <1>3, <1>4, <1>5, <1>6, <1>7, <1>8 DEF Next

(* The digits of a byte are read back as the byte.                         *)
LEMMA DigitRead == \A d \in 0 .. 15 : Hexadecimal[hex1[d + 1]] = d
  <1>1. /\ hex1[1] = "0" /\ hex1[2] = "1" /\ hex1[3] = "2" /\ hex1[4] = "3" /\ hex1[5] = "4"
        /\ hex1[6] = "5" /\ hex1[7] = "6" /\ hex1[8] = "7" /\ hex1[9] = "8" /\ hex1[10] = "9"
        /\ hex1[11] = "A" /\ hex1[12] = "B" /\ hex1[13] = "C" /\ hex1[14] = "D" /\ hex1[15] = "E"
        /\ hex1[16] = "F"
    BY DEF hex1
  <1>2. \A k \in 1 .. 10 : hex1[k] \in DOMAIN Decimal
    BY <1>1, DecimalIs
  <1>3. \A k, m \in 1 .. 10 : hex1[k] = hex1[m] => k = m
    BY <1>1
  <1>4. ASSUME NEW d \in 0 .. 9 PROVE Hexadecimal[hex1[d + 1]] = d
    <2>1. PICK c : c = hex1[d + 1]
      OBVIOUS
    <2>2. d + 1 \in 1 .. 10
      OBVIOUS
    <2>3. c \in DOMAIN Decimal
      BY <1>2, <2>1, <2>2
    <2>4. Decimal[c] \in 0 .. 9 /\ hex1[Decimal[c] + 1] = c /\ Hexadecimal[c] = Decimal[c]
      BY <2>3, DecimalIs, HexadecimalIs
    <2>5. PICK e : e = Decimal[c]
      OBVIOUS
    <2>6. e + 1 \in 1 .. 10 /\ hex1[e + 1] = hex1[d + 1]
      BY <2>1, <2>4, <2>5
    <2>7. e + 1 = d + 1
      BY <1>3, <2>2, <2>6
    <2>8. e = d
      BY <2>4, <2>5, <2>7
    <2> QED BY <2>1, <2>4, <2>5, <2>8
  <1>5. \A d \in 0 .. 15 : d \in 0 .. 9 \/ d \in {10, 11, 12, 13, 14, 15}
    OBVIOUS
  <1>6. \A d \in {10, 11, 12, 13, 14, 15} : Hexadecimal[hex1[d + 1]] = d
    <2> SUFFICES ASSUME NEW d \in {10, 11, 12, 13, 14, 15} PROVE Hexadecimal[hex1[d + 1]] = d
      OBVIOUS
    <2>1. ASSUME d = 10 PROVE Hexadecimal[hex1[d + 1]] = d
      <3>1. d + 1 = 11
        BY <2>1
      <3> QED BY <1>1, <2>1, <3>1, HexadecimalIs, Zenon
    <2>2. ASSUME d = 11 PROVE Hexadecimal[hex1[d + 1]] = d
      <3>1. d + 1 = 12
        BY <2>2
      <3> QED BY <1>1, <2>2, <3>1, HexadecimalIs, Zenon
    <2>3. ASSUME d = 12 PROVE Hexadecimal[hex1[d + 1]] = d
      <3>1. d + 1 = 13
        BY <2>3
      <3> QED BY <1>1, <2>3, <3>1, HexadecimalIs, Zenon
    <2>4. ASSUME d = 13 PROVE Hexadecimal[hex1[d + 1]] = d
      <3>1. d + 1 = 14
        BY <2>4
      <3> QED BY <1>1, <2>4, <3>1, HexadecimalIs, Zenon
    <2>5. ASSUME d = 14 PROVE Hexadecimal[hex1[d + 1]] = d
      <3>1. d + 1 = 15
        BY <2>5
      <3> QED BY <1>1, <2>5, <3>1, HexadecimalIs, Zenon
    <2>6. ASSUME d = 15 PROVE Hexadecimal[hex1[d + 1]] = d
      <3>1. d + 1 = 16
        BY <2>6
      <3> QED BY <1>1, <2>6, <3>1, HexadecimalIs, Zenon
    <2> QED BY <2>1, <2>2, <2>3, <2>4, <2>5, <2>6, Zenon
  <1> QED BY <1>4, <1>5, <1>6, Zenon

LEMMA ByteRead ==
  ASSUME NEW x \in Octet
  PROVE  16 * Hexadecimal[hex1[(x \div 16) + 1]] + Hexadecimal[hex1[(x % 16) + 1]] = x
  <1>1. PICK a, b : a = x \div 16 /\ b = x % 16
    OBVIOUS
  <1>2. a \in 0 .. 15 /\ b \in 0 .. 15 /\ 16 * a + b = x
    BY <1>1 DEF Octet
  <1>3. Hexadecimal[hex1[a + 1]] = a /\ Hexadecimal[hex1[b + 1]] = b
    BY <1>2, DigitRead
  <1> QED BY <1>1, <1>2, <1>3

(* b has the bytes of the word with the halves hi and lo.                  *)
IsWord(b, lo, hi) ==
    b[1] = lo % 256 /\ b[2] = lo \div 256 /\ b[3] = hi % 256 /\ b[4] = hi \div 256

(* What is written for a field is read back as its word.                   *)
LEMMA FieldRead ==
  ASSUME NEW lo, NEW hi, IsHalf(lo), IsHalf(hi), NEW w, w = [hi |-> hi, lo |-> lo],
         NEW s, s = <<".">> \o hex32l(w), NEW b, b = FromHex(Tail(s))
  PROVE  IsWord(b, lo, hi)
  <1>1. PICK u, t, c : u = <<".">> /\ t = hex32l(w) /\ c = Bytes4(w)
    OBVIOUS
  <1>2. t \in Seq(Digit) /\ Len(t) = 8 /\ Spells(t, c)
    BY <1>1, WordDigits
  <1>3. IsList(c) /\ Len(c) = 4 /\ (\A k \in 1 .. 4 : c[k] \in Octet) /\ IsWord(c, lo, hi)
    BY <1>1, WordBytes DEF IsWord
  <1>4. PICK A : A = Digit \cup {"."}
    OBVIOUS
  <1>5. u \in Seq(A) /\ Len(u) = 1
    BY <1>1, <1>4
  <1>6. t \in Seq(A)
    BY <1>2, <1>4, SeqWiden
  <1>7. s \in Seq(A) /\ Behind(s, u, t)
    BY <1>1, <1>5, <1>6, ConcatIs, Zenon
  <1>8. Len(s) = 9 /\ \A j \in 1 .. 8 : s[1 + j] = t[j]
    BY <1>2, <1>5, <1>7 DEF Behind
  <1>9. PICK r : r = Tail(s)
    OBVIOUS
  <1>10. Len(r) = 8 /\ \A j \in 1 .. 8 : r[j] = t[j]
    <2>1. s # << >>
      BY <1>8
    <2>2. r \in Seq(A) /\ Len(r) = Len(s) - 1 /\ \A j \in 1 .. Len(r) : r[j] = s[j + 1]
      BY <1>7, <1>9, <2>1, HeadTailProperties
    <2>3. Len(r) = 8
      BY <1>8, <2>2
    <2>4. \A j \in 1 .. 8 : j + 1 = 1 + j
      OBVIOUS
    <2> QED BY <1>8, <2>2, <2>3, <2>4, Zenon
  <1>11. b = [k \in 1 .. 4 |-> 16 * Hexadecimal[r[2 * k - 1]] + Hexadecimal[r[2 * k]]]
    <2>1. Len(r) \div 2 = 4
      BY <1>10
    <2> QED BY <1>9, <2>1, Zenon DEF FromHex
  <1>12. ASSUME NEW k \in 1 .. 4 PROVE b[k] = c[k]
    <2>1. 2 * k - 1 \in 1 .. 8 /\ 2 * k \in 1 .. 8
      OBVIOUS
    <2>2. r[2 * k - 1] = t[2 * k - 1] /\ r[2 * k] = t[2 * k]
      BY <1>10, <2>1
    <2>3. t[2 * k - 1] = hex1[(c[k] \div 16) + 1] /\ t[2 * k] = hex1[(c[k] % 16) + 1]
      BY <1>2, <1>3 DEF Spells
    <2>4. c[k] \in Octet
      BY <1>3
    <2>5. b[k] = 16 * Hexadecimal[hex1[(c[k] \div 16) + 1]] + Hexadecimal[hex1[(c[k] % 16) + 1]]
      BY <1>11, <2>2, <2>3, SMTT(30)
    <2> QED BY <2>4, <2>5, ByteRead
  <1>13. 1 \in 1 .. 4 /\ 2 \in 1 .. 4 /\ 3 \in 1 .. 4 /\ 4 \in 1 .. 4
    OBVIOUS
  <1>14. b[1] = c[1] /\ b[2] = c[2] /\ b[3] = c[3] /\ b[4] = c[4]
    BY <1>12, <1>13, Zenon
  <1> QED BY <1>3, <1>14, Zenon DEF IsWord

(* The three fields of a number, as the processor takes them.              *)
Rounded(v) == (v \div 4096) + (IF v % 4096 >= 2048 THEN 1 ELSE 0)

LEMMA PageRead ==
  ASSUME NEW v \in Int, NEW b, b = FromHex(Tail(<<".">> \o hex32l(ImmediateU(v))))
  PROVE  PageOf(b) = Rounded(v) % 1048576
  <1>1. PICK page : page = Rounded(v)
    OBVIOUS
  <1>2. page \in Int
    BY <1>1 DEF Rounded
  <1>3. PICK q, r : q = page \div 16 /\ r = page % 16
    OBVIOUS
  <1>4. q \in Int /\ r \in 0 .. 15 /\ page = 16 * q + r
    BY <1>2, <1>3
  <1>5. PICK lo, hi : lo = r * 4096 /\ hi = q % 65536
    OBVIOUS
  <1>6. ImmediateU(v) = [hi |-> hi, lo |-> lo]
    BY <1>1, <1>3, <1>5 DEF ImmediateU, Rounded
  <1>7. IsHalf(lo) /\ IsHalf(hi)
    BY <1>4, <1>5 DEF IsHalf
  <1>8. IsWord(b, lo, hi)
    <2>1. PICK w, s : w = [hi |-> hi, lo |-> lo] /\ s = <<".">> \o hex32l(w)
      OBVIOUS
    <2>2. b = FromHex(Tail(s))
      BY <1>6, <2>1
    <2> QED BY <1>7, <2>1, <2>2, FieldRead
  <1>9. b[2] \div 16 = r /\ b[3] = hi % 256 /\ b[4] = hi \div 256
    <2>1. (lo \div 256) \div 16 = r
      BY <1>4, <1>5
    <2> QED BY <1>8, <2>1 DEF IsWord
  <1>10. 16 * (hi % 256) + 4096 * (hi \div 256) = 16 * hi
    BY <1>7 DEF IsHalf
  <1>11. (r + 16 * hi) % 1048576 = page % 1048576
    <2>1. PICK m : m = q \div 65536
      OBVIOUS
    <2>2. m \in Int /\ q = 65536 * m + hi /\ hi \in Nat /\ hi < 65536
      BY <1>4, <1>5, <2>1
    <2>3. page = 1048576 * m + (r + 16 * hi) /\ r + 16 * hi >= 0 /\ r + 16 * hi < 1048576
      BY <1>4, <2>2
    <2> QED BY <1>4, <2>2, <2>3
  <1>12. PageOf(b) = (r + 16 * (hi % 256) + 4096 * (hi \div 256)) % 1048576
    BY <1>9 DEF PageOf
  <1>13. r + 16 * (hi % 256) + 4096 * (hi \div 256) = r + 16 * hi
    BY <1>4, <1>7, <1>10 DEF IsHalf
  <1> QED BY <1>1, <1>11, <1>12, <1>13

LEMMA OffsetIRead ==
  ASSUME NEW v \in Int, NEW b, b = FromHex(Tail(<<".">> \o hex32l(ImmediateI(v))))
  PROVE  OffsetI(b) = Signed12(v % 4096)
  <1>1. PICK x, lo, hi : x = v % 4096 /\ lo = 0 /\ hi = x * 16
    OBVIOUS
  <1>2. x \in Nat /\ x < 4096
    BY <1>1
  <1>3. ImmediateI(v) = [hi |-> hi, lo |-> lo]
    BY <1>1 DEF ImmediateI
  <1>4. IsHalf(lo) /\ IsHalf(hi)
    BY <1>1, <1>2 DEF IsHalf
  <1>5. IsWord(b, lo, hi)
    <2>1. PICK w, s : w = [hi |-> hi, lo |-> lo] /\ s = <<".">> \o hex32l(w)
      OBVIOUS
    <2>2. b = FromHex(Tail(s))
      BY <1>3, <2>1
    <2> QED BY <1>4, <2>1, <2>2, FieldRead
  <1>6. 16 * (hi \div 256) + ((hi % 256) \div 16) = x
    <2>1. PICK c, d : c = x \div 16 /\ d = x % 16
      OBVIOUS
    <2>2. c \in Nat /\ d \in Nat /\ d < 16 /\ x = 16 * c + d
      BY <1>2, <2>1
    <2>3. hi = 256 * c + 16 * d
      BY <1>1, <2>2
    <2>4. hi \div 256 = c /\ hi % 256 = 16 * d
      BY <2>2, <2>3
    <2>5. (16 * d) \div 16 = d
      BY <2>2
    <2> QED BY <2>2, <2>4, <2>5
  <1>7. PICK y : y = 16 * b[4] + (b[3] \div 16)
    OBVIOUS
  <1>8. y = x
    BY <1>5, <1>6, <1>7, Zenon DEF IsWord
  <1>9. OffsetI(b) = Signed12(y)
    BY <1>7, Zenon DEF OffsetI
  <1> QED BY <1>1, <1>8, <1>9

LEMMA OffsetSRead ==
  ASSUME NEW v \in Int, NEW b, b = FromHex(Tail(<<".">> \o hex32l(ImmediateS(v))))
  PROVE  OffsetS(b) = Signed12(v % 4096)
  <1>1. PICK x, m, n : x = v % 4096 /\ m = v % 32 /\ n = x \div 32
    OBVIOUS
  <1>2. x \in Nat /\ x < 4096 /\ m \in Nat /\ m < 32 /\ n \in Nat /\ n < 128 /\ x = 32 * n + m
    BY <1>1
  <1>3. PICK lo, hi : lo = m * 128 /\ hi = n * 512
    OBVIOUS
  <1>4. ImmediateS(v) = [hi |-> hi, lo |-> lo]
    BY <1>1, <1>3 DEF ImmediateS
  <1>5. IsHalf(lo) /\ IsHalf(hi)
    BY <1>2, <1>3 DEF IsHalf
  <1>6. IsWord(b, lo, hi)
    <2>1. PICK w, s : w = [hi |-> hi, lo |-> lo] /\ s = <<".">> \o hex32l(w)
      OBVIOUS
    <2>2. b = FromHex(Tail(s))
      BY <1>4, <2>1
    <2> QED BY <1>5, <2>1, <2>2, FieldRead
  <1>7. (lo % 256) \div 128 + 2 * ((lo \div 256) % 16) = m
    BY <1>2, <1>3
  <1>8. (hi \div 256) \div 2 = n
    BY <1>2, <1>3
  <1>9. ((lo % 256) \div 128) + 2 * ((lo \div 256) % 16) + 32 * ((hi \div 256) \div 2) = x
    BY <1>2, <1>7, <1>8
  <1> QED BY <1>1, <1>6, <1>9 DEF OffsetS, IsWord

(* A page and a signed offset add up to the number.                        *)
LEMMA PageAndOffset ==
  ASSUME NEW v \in Int, NEW off, off = Signed12(v % 4096)
  PROVE  (v - off) \div 4096 = Rounded(v) /\ (v - off) % 4096 = 0
  <1>1. PICK x, q : x = v % 4096 /\ q = v \div 4096
    OBVIOUS
  <1>2. x \in Nat /\ x < 4096 /\ q \in Int /\ v = 4096 * q + x
    BY <1>1
  <1>3. CASE x >= 2048
    <2>1. off = x - 4096 /\ Rounded(v) = q + 1
      BY <1>1, <1>3 DEF Signed12, Rounded
    <2>2. v - off = 4096 * (q + 1)
      BY <1>2, <2>1
    <2> QED BY <1>2, <2>1, <2>2
  <1>4. CASE ~(x >= 2048)
    <2>1. off = x /\ Rounded(v) = q
      BY <1>1, <1>2, <1>4 DEF Signed12, Rounded
    <2>2. v - off = 4096 * q
      BY <1>2, <2>1
    <2> QED BY <1>2, <2>1, <2>2
  <1> QED BY <1>3, <1>4

(* The expression of a prefixed number that nothing above it names.        *)
LEMMA FieldIs ==
  ASSUME ShapeInv, KnownInv, port = "riscv64", NEW k \in DOMAIN heap, NEW P, P \subseteq {"~", "!", "@"},
         IsField(k, P),
         NEW t, t = Tail(heap[k].text), NEW v, v = numerate_string(t), NEW c, c = heap[k].text[1]
  PROVE  /\ v \in Int /\ c \in P
         /\ (CHOOSE s \in heap[k].expr : TRUE) = express_number_rv(v, c)
  <1>1. Nodes(heap) /\ IsList(heap)
    BY DEF ShapeInv, Nodes
  <1>2. k \in 1 .. Len(heap)
    BY <1>1 DEF IsList
  <1>3. IsNode(heap, k) /\ Known(port, heap, k)
    BY <1>1, <1>2 DEF Nodes, KnownInv, AllKnown
  <1>4. PICK u : u = heap[k].text
    OBVIOUS
  <1>5. u \in Seq(Chars) /\ u # <<>>
    BY <1>3, <1>4 DEF IsNode
  <1>6. t \in Seq(Chars) /\ Len(t) = Len(u) - 1 /\ t # <<>>
    BY <1>4, <1>5, HeadTailProperties DEF IsField, NumberAt
  <1>7. Len(u) > 1
    <2>1. Len(t) \in Nat /\ Len(t) # 0 /\ Len(u) \in Nat
      BY <1>5, <1>6, EmptySeq, LenProperties
    <2> QED BY <1>6, <2>1
  <1>8. v \in Int
    BY <1>6, NumerateIs
  <1>9. c \in P /\ c \in {"~", "!", "@"} /\ c = u[1] /\ c # "."
    BY <1>4 DEF IsField
  <1>10. ~Renamed(heap, k)
    BY DEF IsField, Renamed
  <1>11. PICK x : x = heap[k].expr
    OBVIOUS
  <1>12. \E s \in x : s[1] = "."
    BY <1>11 DEF IsField
  <1>13. x = {} \/ x = {u} \/ x = {Made(port, u)}
    BY <1>3, <1>4, <1>7, <1>10, <1>11 DEF Known, IsField
  <1>14. x = {Made(port, u)}
    <2>1. x # {}
      BY <1>12
    <2>2. ASSUME x = {u} PROVE FALSE
      <3>1. u[1] = "."
        BY <1>12, <2>2
      <3> QED BY <1>9, <3>1
    <2> QED BY <1>13, <2>1, <2>2, Zenon
  <1>15. Made(port, u) = express_number_rv(v, c)
    BY <1>4, <1>9, Zenon DEF Made, express_number
  <1>16. (CHOOSE s \in x : TRUE) = Made(port, u)
    BY <1>14
  <1> QED BY <1>8, <1>9, <1>11, <1>15, <1>16, Zenon

LEMMA KnownAddsUp == ShapeInv /\ KnownInv => AddressesAddUp
  <1> SUFFICES ASSUME ShapeInv, KnownInv, port = "riscv64", NEW u \in DOMAIN heap, NEW l \in DOMAIN heap,
                      IsField(u, {"~"}), IsField(l, {"!", "@"}), NumberAt(u) = NumberAt(l),
                      NEW v, v = numerate_string(NumberAt(u))
               PROVE  AddsUp(u, l, v)
    BY DEF AddressesAddUp
  <1>1. v \in Int /\ (CHOOSE s \in heap[u].expr : TRUE) = express_number_rv(v, "~")
    <2>1. PICK t, c : t = Tail(heap[u].text) /\ c = heap[u].text[1]
      OBVIOUS
    <2>2. PICK P : P = {"~"}
      OBVIOUS
    <2>3. P \subseteq {"~", "!", "@"} /\ IsField(u, P) /\ v = numerate_string(t)
      BY <2>1, <2>2 DEF NumberAt
    <2>4. c \in P /\ (CHOOSE s \in heap[u].expr : TRUE) = express_number_rv(v, c)
      <3>1. c \in P
        BY <2>1, <2>3, FieldIs
      <3>2. (CHOOSE s \in heap[u].expr : TRUE) = express_number_rv(v, c)
        BY <2>1, <2>3, FieldIs, ZenonT(30)
      <3> QED BY <3>1, <3>2
    <2>5. v \in Int
      BY <2>1, <2>3, FieldIs
    <2>6. c = "~"
      BY <2>4, <2>2
    <2> QED BY <2>4, <2>5, <2>6
  <1>2. PICK c : c = heap[l].text[1]
    OBVIOUS
  <1>3. c \in {"!", "@"} /\ (CHOOSE s \in heap[l].expr : TRUE) = express_number_rv(v, c)
    <2>1. PICK t, P : t = Tail(heap[l].text) /\ P = {"!", "@"}
      OBVIOUS
    <2>2. P \subseteq {"~", "!", "@"} /\ IsField(l, P) /\ v = numerate_string(t)
      BY <2>1 DEF NumberAt
    <2>3. c \in P /\ (CHOOSE s \in heap[l].expr : TRUE) = express_number_rv(v, c)
      BY <1>2, <2>1, <2>2, FieldIs, ZenonT(30)
    <2> QED BY <2>1, <2>3
  <1>4. /\ express_number_rv(v, "~") = <<".">> \o hex32l(ImmediateU(v))
        /\ express_number_rv(v, "!") = <<".">> \o hex32l(ImmediateI(v))
        /\ express_number_rv(v, "@") = <<".">> \o hex32l(ImmediateS(v))
    BY DEF express_number_rv
  <1>5. PageOf(FieldAt(u)) = Rounded(v) % 1048576
    <2>1. PICK b : b = FromHex(Tail(<<".">> \o hex32l(ImmediateU(v))))
      OBVIOUS
    <2>2. FieldAt(u) = b
      BY <1>1, <1>4, <2>1 DEF FieldAt
    <2>3. PageOf(b) = Rounded(v) % 1048576
      BY <1>1, <2>1, PageRead
    <2> QED BY <2>2, <2>3
  <1>6. PICK off : off = OffsetAt(l)
    OBVIOUS
  <1>7. off = Signed12(v % 4096)
    <2>1. ASSUME c = "!" PROVE off = Signed12(v % 4096)
      <3>1. PICK b : b = FromHex(Tail(<<".">> \o hex32l(ImmediateI(v))))
        OBVIOUS
      <3>2. FieldAt(l) = b
        BY <1>3, <1>4, <2>1, <3>1 DEF FieldAt
      <3>3. off = OffsetI(b)
        BY <1>2, <1>6, <2>1, <3>2 DEF OffsetAt
      <3>4. OffsetI(b) = Signed12(v % 4096)
        BY <1>1, <3>1, OffsetIRead
      <3> QED BY <3>3, <3>4
    <2>2. ASSUME c = "@" PROVE off = Signed12(v % 4096)
      <3>1. PICK b : b = FromHex(Tail(<<".">> \o hex32l(ImmediateS(v))))
        OBVIOUS
      <3>2. FieldAt(l) = b
        BY <1>3, <1>4, <2>2, <3>1 DEF FieldAt
      <3>3. off = OffsetS(b)
        BY <1>2, <1>6, <2>2, <3>2 DEF OffsetAt
      <3>4. OffsetS(b) = Signed12(v % 4096)
        BY <1>1, <3>1, OffsetSRead
      <3> QED BY <3>3, <3>4
    <2> QED BY <1>3, <2>1, <2>2
  <1>8. (v - off) \div 4096 = Rounded(v) /\ (v - off) % 4096 = 0
    BY <1>1, <1>7, PageAndOffset
  <1> QED BY <1>5, <1>6, <1>8, SMT DEF AddsUp

(* Where a riscv64 text has the page of a number and an offset from that   *)
(* page, the processor adds them up to the number, whatever the text is    *)
(* and wherever the two stand in it.                                       *)
THEOREM AddressesAddUpTheorem == Spec => []AddressesAddUp
  <1>1. Init => ShapeInv /\ KnownInv
    BY InitShape, InitKnown
  <1>2. ShapeInv /\ KnownInv /\ [Next]_vars => (ShapeInv /\ KnownInv)'
    BY StepShape, StepKnown
  <1> QED BY <1>1, <1>2, KnownAddsUp, PTL DEF Spec
================================================================================
