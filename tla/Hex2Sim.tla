-------------------------------- MODULE Hex2Sim --------------------------------
(***************************************************************************)
(* hex2_sim.py, the host-side reference simulator of the riscv64 hex2, as  *)
(* functions of the text.  Sim(s) is the output it writes for s, in the    *)
(* same form as the output of Hex2Rv.                                      *)
(***************************************************************************)
EXTENDS HexText, FiniteSets

(* consume_token stops at a blank, at '>' or at the end; consume_until_ws  *)
(* does not stop at '>'.                                                   *)
TokenEnd(s, p) == FindFrom(s, p, Blank \cup {">"})
WordEnd(s, p)  == FindFrom(s, p, Blank)
Token(s, p, q) == SubSeq(s, p, q - 1)

WithBase(s, p) == ~AtEnd(s, TokenEnd(s, p)) /\ s[TokenEnd(s, p)] = ">"
RefEnd(s, p)   == IF WithBase(s, p) THEN WordEnd(s, TokenEnd(s, p) + 1) ELSE TokenEnd(s, p)

(* The next position, behind a token that may end with the text.           *)
Behind(s, q) == Skip(s, q, 1)

hex_decode(s, p) ==
    IF s[p] \in Comment THEN <<-1, AfterComment(s, p + 1)>>
    ELSE <<IF s[p] \in HexDigit THEN Nibble(s[p]) ELSE -1, p + 1>>

(* A dictionary of labels: the latest definition of a name counts.         *)
Target(defs, name) ==
    IF \E k \in DOMAIN defs : defs[k].name = name
    THEN defs[CHOOSE k \in DOMAIN defs :
                /\ defs[k].name = name
                /\ \A j \in k + 1 .. Len(defs) : defs[j].name # name].target
    ELSE 0

(* One turn of the loop of first_pass, which has read up to st.pos: the     *)
(* instruction pointer moves with the FIRST nibble of a pair.               *)
FirstTurn(s, st) ==
    LET p == st.pos
        q == TokenEnd(s, p + 1)
        h == hex_decode(s, p)
    IN
    CASE AtEnd(s, p) -> st
      [] ~AtEnd(s, p) /\ s[p] = ":" ->
           [st EXCEPT !.pos = Behind(s, q),
                      !.defs = Append(@, [name |-> Token(s, p + 1, q), target |-> st.ip])]
      [] ~AtEnd(s, p) /\ s[p] \in {"~", "!", "@", "$"} -> [st EXCEPT !.pos = Behind(s, q)]
      [] ~AtEnd(s, p) /\ s[p] \in {"%", "&"} ->
           [st EXCEPT !.pos = Behind(s, RefEnd(s, p + 1)), !.ip = @ + 4]
      [] ~AtEnd(s, p) /\ s[p] = "." -> [st EXCEPT !.pos = Skip(s, p, 9)]
      [] OTHER ->
           IF h[1] < 0 THEN [st EXCEPT !.pos = h[2]]
           ELSE [st EXCEPT !.pos = h[2], !.ip = IF st.half THEN @ ELSE @ + 1, !.half = ~@]

(* A turn reads a character, so there are no more turns than characters.   *)
first_pass(s) ==
    LET after[n \in 0 .. Len(s)] ==
            IF n = 0 THEN [pos |-> 1, ip |-> 0, half |-> FALSE, defs |-> << >>]
            ELSE FirstTurn(s, after[n - 1])
    IN  after[Len(s)].defs

(* The next nibble, from p on: anything else is skipped, and comments as a *)
(* whole.                                                                  *)
InComment(s, p, q) == \E r \in p .. q - 1 : s[r] \in Comment /\ \A t \in r + 1 .. q - 1 : s[t] # "LF"
IsNibble(s, p, q)  == s[q] \in HexDigit /\ ~InComment(s, p, q)
NextNibble(s, p) ==
    CHOOSE q \in p .. Len(s) + 1 :
        /\ AtEnd(s, q) \/ IsNibble(s, p, q)
        /\ \A r \in p .. q - 1 : ~IsNibble(s, p, r)

(* One nibble more behind those of d; the end of the text reads as 0.      *)
ReadNibble(s, d) ==
    LET q == NextNibble(s, d.pos) IN
    [pos     |-> Skip(s, q, 1),
     nibbles |-> Append(d.nibbles, IF AtEnd(s, q) THEN 0 ELSE Nibble(s[q]))]

(* read_dot: where it ends and its eight nibbles.                          *)
ReadDot(s, p) ==
    LET read[k \in 0 .. 8] ==
            IF k = 0 THEN [pos |-> p, nibbles |-> << >>] ELSE ReadNibble(s, read[k - 1])
    IN  read[8]

encode_U(disp) == [op |-> "~", field |-> ((disp + 2048) \div 4096) % 1048576]
encode_I(disp) == [op |-> "!", field |-> (disp + 4) % 4096]
encode_B(disp) == [op |-> "@", field |-> (disp \div 2) % 4096]
encode_J(disp) == [op |-> "$", field |-> (disp \div 2) % 1048576]
Encoded(c, disp) == CASE c = "~" -> encode_U(disp) [] c = "!" -> encode_I(disp)
                      [] c = "@" -> encode_B(disp) [] c = "$" -> encode_J(disp)

XorWord(sr, word) == LET e == [word |-> word, shifted |-> 0] IN (sr \ {e}) \cup ({e} \ sr)
LowBytes(sr) == {[word |-> e.word, byte |-> e.shifted] : e \in sr}
Shifted(sr)  == {[e EXCEPT !.shifted = @ + 1] : e \in {x \in sr : x.shifted < 3}}
Pack(value)  == [k \in 1 .. 4 |-> [pointer |-> value, byte |-> k]]

(* One turn of the loop of second_pass; acc is the first nibble of a pair, *)
(* or -1.  A name that was never defined resolves to 0.                    *)
SecondTurn(s, defs, st) ==
    LET p == st.pos
        c == s[p]
        e == TokenEnd(s, p + 1)
        q == RefEnd(s, p + 1)
        target == Target(defs, Token(s, p + 1, e))
        base == IF WithBase(s, p + 1) THEN Target(defs, Token(s, e + 1, q)) ELSE st.ip + 4
        d == ReadDot(s, p + 1)
        h == hex_decode(s, p)
    IN
    IF AtEnd(s, p) THEN st
    ELSE
    CASE c = ":" -> [st EXCEPT !.pos = Behind(s, e)]
      [] c = "%" -> [st EXCEPT !.pos = Behind(s, q), !.ip = @ + 4, !.out = @ \o Pack(target - base)]
      [] c = "&" -> [st EXCEPT !.pos = Behind(s, q), !.ip = @ + 4, !.out = @ \o Pack(target)]
      [] c \in {"~", "!", "@", "$"} ->
           [st EXCEPT !.pos = Behind(s, q), !.sr = XorWord(@, Encoded(c, target - st.ip))]
      [] c = "." -> [st EXCEPT !.pos = d.pos, !.sr = XorWord(@, [op |-> ".", field |-> d.nibbles])]
      [] OTHER ->
           CASE h[1] < 0 -> [st EXCEPT !.pos = h[2]]
             [] h[1] >= 0 /\ st.acc < 0 -> [st EXCEPT !.pos = h[2], !.acc = h[1]]
             [] OTHER ->
                  [pos |-> h[2], ip |-> st.ip + 1, acc |-> -1, sr |-> Shifted(st.sr),
                   out |-> Append(st.out, [value |-> st.acc * 16 + h[1], xor |-> LowBytes(st.sr)])]

second_pass(s, defs) ==
    LET after[n \in 0 .. Len(s)] ==
            IF n = 0 THEN [pos |-> 1, ip |-> 0, acc |-> -1, sr |-> {}, out |-> << >>]
            ELSE SecondTurn(s, defs, after[n - 1])
    IN  after[Len(s)].out

Sim(s) == second_pass(s, first_pass(s))
=============================================================================
