----------------------------- MODULE HexTextProofs -----------------------------
(***************************************************************************)
(* What the searches and reads of HexText return, for every text.          *)
(***************************************************************************)
EXTENDS HexText, WellFoundedInduction, TLAPS

-----------------------------------------------------------------------------
(* Every set of natural numbers that is not empty has a least one.         *)
LEMMA Least ==
  ASSUME NEW T, T \subseteq Nat, T # {}
  PROVE  \E m \in T : \A k \in T : m <= k
  <1> DEFINE R == {ss \in Nat \X Nat : ss[1] < ss[2]}
  <1>1. IsWellFoundedOn(R, Nat)
    BY NatLessThanWellFounded DEF OpToRel
  <1>2. \A k \in T, m \in T : k < m => <<k, m>> \in R
    OBVIOUS
  <1> HIDE DEF R
  <1>3. PICK m \in T : \A k \in T : ~ (<<k, m>> \in R)
    BY <1>1, WFMin
  <1>4. ASSUME NEW k \in T
        PROVE  m <= k
    <2>1. ~ (k < m)
      BY <1>2, <1>3
    <2> QED BY <2>1
  <1> QED BY <1>4

(* A search from a position of the text ends in it or at its end, at the   *)
(* first character it looks for.                                           *)
LEMMA FindFromFacts ==
  ASSUME NEW s, Len(s) \in Nat, NEW p \in 1 .. Len(s) + 1, NEW Stop
  PROVE  /\ FindFrom(s, p, Stop) \in p .. Len(s) + 1
         /\ AtEnd(s, FindFrom(s, p, Stop)) \/ s[FindFrom(s, p, Stop)] \in Stop
         /\ \A r \in p .. FindFrom(s, p, Stop) - 1 : s[r] \notin Stop
  <1> DEFINE T == {q \in p .. Len(s) + 1 : AtEnd(s, q) \/ s[q] \in Stop}
  <1>1. T \subseteq Nat /\ Len(s) + 1 \in T
    BY DEF AtEnd
  <1>2. PICK m \in T : \A k \in T : m <= k
    BY <1>1, Least
  <1>3. \A r \in p .. m - 1 : s[r] \notin Stop
    <2> SUFFICES ASSUME NEW r \in p .. m - 1, s[r] \in Stop
                 PROVE  FALSE
      OBVIOUS
    <2>1. r \in T
      BY <1>2
    <2> QED BY <1>2, <2>1
  <1>4. \E q \in p .. Len(s) + 1 :
           /\ AtEnd(s, q) \/ s[q] \in Stop
           /\ \A r \in p .. q - 1 : s[r] \notin Stop
    BY <1>2, <1>3
  <1> QED BY <1>4 DEF FindFrom

(* Reading on never leaves the text.                                       *)
LEMMA SkipFacts ==
  ASSUME NEW s, Len(s) \in Nat, NEW p \in 1 .. Len(s) + 1, NEW n \in Nat
  PROVE  Skip(s, p, n) \in p .. Len(s) + 1
  BY DEF Skip

(* Behind a comment.                                                       *)
LEMMA AfterCommentFacts ==
  ASSUME NEW s, Len(s) \in Nat, NEW p \in 1 .. Len(s) + 1
  PROVE  AfterComment(s, p) \in p .. Len(s) + 1
  <1>1. FindFrom(s, p, {"LF"}) \in p .. Len(s) + 1
    BY FindFromFacts
  <1>2. FindFrom(s, p, {"LF"}) \in 1 .. Len(s) + 1
    BY <1>1
  <1>3. Skip(s, FindFrom(s, p, {"LF"}), 1) \in FindFrom(s, p, {"LF"}) .. Len(s) + 1
    BY <1>2, SkipFacts
  <1> QED BY <1>1, <1>3 DEF AfterComment

(* A digit has a value below sixteen, and begins no comment.               *)
LEMMA DigitFacts ==
  ASSUME NEW c \in HexDigit
  PROVE  Nibble(c) \in 0 .. 15 /\ c \notin Comment
  <1>1. PICK n \in 1 .. 16 : c \in Digits[n]
    BY DEF HexDigit
  <1>2. Digits[n] \cap Comment = {}
    <2>1. /\ Digits[1] \cap Comment = {} /\ Digits[2] \cap Comment = {}
          /\ Digits[3] \cap Comment = {} /\ Digits[4] \cap Comment = {}
      BY DEF Digits, Comment
    <2>2. /\ Digits[5] \cap Comment = {} /\ Digits[6] \cap Comment = {}
          /\ Digits[7] \cap Comment = {} /\ Digits[8] \cap Comment = {}
      BY DEF Digits, Comment
    <2>3. /\ Digits[9] \cap Comment = {} /\ Digits[10] \cap Comment = {}
          /\ Digits[11] \cap Comment = {} /\ Digits[12] \cap Comment = {}
      BY DEF Digits, Comment
    <2>4. /\ Digits[13] \cap Comment = {} /\ Digits[14] \cap Comment = {}
          /\ Digits[15] \cap Comment = {} /\ Digits[16] \cap Comment = {}
      BY DEF Digits, Comment
    <2>5. n \in {1, 2, 3, 4, 5, 6, 7, 8, 9, 10, 11, 12, 13, 14, 15, 16}
      OBVIOUS
    <2> QED BY <2>1, <2>2, <2>3, <2>4, <2>5
  <1>3. (CHOOSE k \in 1 .. 16 : c \in Digits[k]) \in 1 .. 16
    BY <1>1
  <1> QED BY <1>1, <1>2, <1>3 DEF Nibble
================================================================================
