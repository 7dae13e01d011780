----------------------------------- MODULE M0 -----------------------------------
(***************************************************************************)
(* The macro assembler M0, as M0.S (amd64) and gen-M0-rv64.py (riscv64)    *)
(* have it.  One pass reads the text into a linked list of tokens, newest  *)
(* first; seven more walk the list, each relying on what the earlier ones  *)
(* left in the nodes, and the last one prints it for hex2.                 *)
(*                                                                         *)
(* One action is one token read, or one node visited by a pass.  A pointer *)
(* to a node is its index in heap, 0 is NULL.                              *)
(***************************************************************************)
EXTENDS M0Words, HexText

CONSTANTS
    Inputs,       \* the texts to assemble
    ScratchSize,  \* riscv64: bytes of the scratch area (4096)
    TokenSize,    \* amd64: bytes a token gets from the pool (256)
    PoolBelow4G   \* amd64: whether the firmware's pool is below 4 GiB

Ports == {"amd64", "riscv64"}

ASSUME M0Assumption ==
    /\ Inputs \subseteq Seq(STRING)
    /\ ScratchSize \in Nat \ {0}
    /\ TokenSize \in Nat \ {0}
    /\ PoolBelow4G \in BOOLEAN

VARIABLES
    port,
    text,      \* the input
    pos,       \* the next character fgetc returns
    pc,        \* "tokenize", "reverse", the name of a pass, "done", or how it
               \* failed: "wild", an access through NULL or without end;
               \* "overrun", past an area; "hung", reading for ever
    heap,      \* the nodes, in the order of their allocation
    head,      \* HEAD; while reversing, ROOT
    i,         \* I, the node a pass is at; while reversing, HEAD
    scratch,   \* riscv64: the scratch area
    out        \* what fputc has written

vars == <<port, text, pos, pc, heap, head, i, scratch, out>>

Types  == {"atom", "macro", "string"}
Passes == {"identify", "line", "string", "eval", "preserve", "print"}
Final  == {"done", "wild", "overrun"}

NextPass == [identify |-> "line", line |-> "string", string |-> "eval",
             eval |-> "preserve", preserve |-> "print", print |-> "done"]

(* Every set is searched up to and including its terminating zero.         *)
comments    == {"#", ";", "NUL"}
terminators == {"LF", "TAB", "SP", "NUL"}
string_char == {"\"", "'"}

Node(type, s) == [next |-> head, type |-> type, text |-> s, expr |-> {}]

(* A text in memory ends at its first zero.                                *)
CString(s) == SubSeq(s, 1, FindFrom(s, 1, {"NUL"}) - 1)

-----------------------------------------------------------------------------
Init ==
    /\ port \in Ports
    /\ text \in Inputs
    /\ pos = 1 /\ pc = "tokenize" /\ heap = <<>> /\ head = 0 /\ i = 0
    /\ scratch = [k \in 1 .. ScratchSize |-> "NUL"]
    /\ out = <<>>

Fail(how) == pc' = how /\ UNCHANGED <<port, text, pos, heap, head, i, scratch, out>>

EofUnguarded == port = "none"                                       \* mutant

(* riscv64 leaves a token or a comment at the end of the file; amd64 goes  *)
(* on taking fgetc's -4 for a character.                                   *)
EofGuard == port = "riscv64"

(* Tokenize_Line is over: Reverse_List starts from HEAD.                   *)
Tokenized ==
    /\ pc' = "reverse" /\ i' = head /\ head' = 0
    /\ UNCHANGED <<port, text, heap, scratch, out>>

(* restart                                                                 *)
Restart(p) == pos' = p /\ UNCHANGED <<port, text, pc, i, out>>

Tokenize_Line_Eof ==
    /\ pc = "tokenize" /\ AtEnd(text, pos)
    /\ Tokenized
    /\ UNCHANGED pos

Purge_LineComment ==
    /\ pc = "tokenize" /\ ~AtEnd(text, pos) /\ text[pos] \in comments
    /\ LET q == FindFrom(text, pos + 1, {"LF"}) IN
       \/ ~AtEnd(text, q) /\ Restart(q + 1) /\ UNCHANGED <<heap, head, scratch>>
       \/ AtEnd(text, q) /\ EofGuard /\ Tokenized /\ pos' = q
       \/ AtEnd(text, q) /\ ~EofGuard /\ Fail("hung")

SkipTerminator ==
    /\ pc = "tokenize" /\ ~AtEnd(text, pos)
    /\ text[pos] \in terminators \ comments
    /\ Restart(pos + 1)
    /\ UNCHANGED <<heap, head, scratch>>

(* copy_string: the zero-terminated text in the scratch area goes to a     *)
(* block of its own, and ClearScratch zeroes it, up to the first zero.     *)
Overwritten(s)   == [k \in 1 .. ScratchSize |-> IF k <= Len(s) THEN s[k] ELSE scratch[k]]
ClearScratch(s)  == [k \in 1 .. ScratchSize |-> IF k <= Len(CString(s)) THEN "NUL" ELSE s[k]]

(* The token s is stored in a new node: riscv64 collects it in the scratch *)
(* area first, whose zeroes terminate it; amd64 in 256 bytes of the pool.  *)
StoreToken(type, s) ==
    LET collected == IF port = "riscv64" THEN Overwritten(s) ELSE scratch IN
    /\ heap' = Append(heap, Node(type, CString(IF port = "riscv64" THEN collected ELSE s)))
    /\ head' = Len(heap) + 1
    /\ scratch' = IF port = "riscv64" THEN ClearScratch(collected) ELSE scratch

Fits(s) == Len(s) < IF port = "riscv64" THEN ScratchSize ELSE TokenSize

(* The opening quote is kept, the closing one is not.                      *)
Store_String ==
    /\ pc = "tokenize" /\ ~AtEnd(text, pos) /\ text[pos] \in string_char
    /\ LET q == FindFrom(text, pos + 1, {text[pos]})
           s == SubSeq(text, pos, q - 1)
       IN
       \/ AtEnd(text, q) /\ ~EofGuard /\ Fail("wild")
       \/ /\ ~AtEnd(text, q) \/ EofGuard
          /\ IF Fits(s) THEN StoreToken("string", s) /\ Restart(Skip(text, q, 1))
                        ELSE Fail("overrun")

Store_Atom ==
    /\ pc = "tokenize" /\ ~AtEnd(text, pos)
    /\ text[pos] \notin comments \cup terminators \cup string_char
    /\ LET q == FindFrom(text, pos + 1, terminators)
           s == SubSeq(text, pos, q - 1)
       IN
       \/ AtEnd(text, q) /\ ~EofGuard /\ Fail("wild")
       \/ /\ ~AtEnd(text, q) \/ EofGuard
          /\ IF Fits(s) THEN StoreToken("atom", s) /\ Restart(Skip(text, q, 1))
                        ELSE Fail("overrun")

-----------------------------------------------------------------------------
Reverse_List ==
    /\ pc = "reverse"
    /\ IF i # 0
       THEN /\ heap' = [heap EXCEPT ![i].next = head]
            /\ head' = i /\ i' = heap[i].next /\ pc' = pc
       ELSE /\ pc' = "identify" /\ i' = head /\ UNCHANGED <<heap, head>>
    /\ UNCHANGED <<port, text, pos, scratch, out>>

(* A pass leaves node i as h has it and goes on to the next one.           *)
Visit(h) ==
    /\ heap' = h
    /\ IF h[i].next # 0 THEN i' = h[i].next /\ pc' = pc
                        ELSE i' = head /\ pc' = NextPass[pc]
    /\ UNCHANGED <<port, text, pos, head>>

At(pass) == pc = pass /\ i # 0

(* A list without nodes: riscv64 tests the pointer before it uses it,      *)
(* amd64 afterwards.                                                       *)
EmptyList ==
    /\ pc \in Passes /\ i = 0
    /\ IF port = "riscv64"
       THEN pc' = NextPass[pc] /\ UNCHANGED <<port, text, pos, heap, head, i, scratch, out>>
       ELSE Fail("wild")

DefinedUnskipped(h, n) ==                                           \* mutant
    LET key == h[n].next  value == h[key].next IN
    [h EXCEPT ![n] = [next |-> value, type |-> "macro",
                      text |-> h[key].text, expr |-> {h[value].text}]]

Defined(h, n) ==
    LET key == h[n].next  value == h[key].next IN
    [h EXCEPT ![n] = [next |-> h[value].next, type |-> "macro",
                      text |-> h[key].text, expr |-> {h[value].text}]]

Followed(h, n) == h[n].next # 0 /\ h[h[n].next].next # 0

(* DEFINE key value becomes one node, whatever the texts are.              *)
Identify_Macros ==
    /\ At("identify")
    /\ \/ heap[i].text # <<"DEFINE">> /\ Visit(heap)
       \/ heap[i].text = <<"DEFINE">> /\ Followed(heap, i) /\ Visit(Defined(heap, i))
       \/ heap[i].text = <<"DEFINE">> /\ ~Followed(heap, i) /\ Fail("wild")
    /\ UNCHANGED <<scratch, out>>

(* The nodes of the list that begins at n.                                 *)
LinkedFrom(h, n) ==
    LET linked[k \in 0 .. Len(h)] == IF k = 0 THEN {} ELSE {k} \cup linked[h[k].next]
    IN  linked[n]

SetExpressionOnce(h, start, s, exp) ==                              \* mutant
    [k \in DOMAIN h |->
        IF k \in LinkedFrom(h, start) /\ h[k].type # "macro" /\ h[k].text = s /\ h[k].expr = {}
        THEN [h[k] EXCEPT !.expr = exp] ELSE h[k]]

Set_Expression(h, start, s, exp) ==
    [k \in DOMAIN h |->
        IF k \in LinkedFrom(h, start) /\ h[k].type # "macro" /\ h[k].text = s
        THEN [h[k] EXCEPT !.expr = exp] ELSE h[k]]

(* amd64 hands Set_Expression the rest of the list without looking.        *)
Line_Macro ==
    /\ At("line")
    /\ \/ heap[i].type # "macro" /\ Visit(heap)
       \/ /\ heap[i].type = "macro"
          /\ heap[i].next # 0 \/ port = "riscv64"
          /\ Visit(Set_Expression(heap, heap[i].next, heap[i].text, heap[i].expr))
       \/ heap[i].type = "macro" /\ heap[i].next = 0 /\ port = "amd64" /\ Fail("wild")
    /\ UNCHANGED <<scratch, out>>

WithExpr(s) == [heap EXCEPT ![i].expr = {s}]

(* amd64 stores a digit through the lower 32 bits of the pointer to it: in *)
(* a pool above 4 GiB that is outside the pool.                            *)
PointerFits(p) == p = "amd64" => PoolBelow4G

(* riscv64 composes the digits in the scratch area, amd64 in a block sized *)
(* by the length of the text, opening quote included.                      *)
RoomForHex(s, digits) ==
    /\ PointerFits(port)
    /\ IF port = "riscv64" THEN Len(digits) < ScratchSize
                           ELSE HexifyNeed(Len(s)) <= HexifyRoom(Len(s))

Process_String ==
    /\ At("string")
    /\ LET s == heap[i].text
           digits == HexString(port, Tail(s))
       IN
       \/ heap[i].type # "string" /\ Visit(heap) /\ UNCHANGED scratch
       \/ heap[i].type = "string" /\ s[1] = "'" /\ Visit(WithExpr(Tail(s))) /\ UNCHANGED scratch
       \/ /\ heap[i].type = "string" /\ s[1] # "'"
          /\ IF RoomForHex(s, digits)
             THEN /\ Visit(WithExpr(digits))
                  /\ scratch' = IF port = "riscv64"
                                THEN ClearScratch(Overwritten(digits \o <<"NUL">>)) ELSE scratch
             ELSE Fail("overrun")
    /\ UNCHANGED out

IsPrefixed(p, s) == p = "amd64" \/ s[1] \in {"!", "@", "~", "%"}

(* A single character is followed by its zero, and on riscv64 by a byte of *)
(* the pool that nothing has written, which numerate_string tests for 'x'. *)
Numbers(p, s) ==
    IF Len(s) = 1 /\ p = "riscv64" THEN {0, 1} ELSE {numerate_string(Tail(s))}

express_number(p, v, prefix) ==
    IF p = "riscv64" THEN express_number_rv(v, prefix) ELSE express_number_amd64(v, prefix)

IsNumber(s, v) == v # 0 \/ (Len(s) > 1 /\ s[2] = "0")

Eval_Immediates ==
    /\ At("eval")
    /\ LET s == heap[i].text
           open == heap[i].type # "macro" /\ heap[i].expr = {} /\ IsPrefixed(port, s)
       IN
       \/ ~open /\ Visit(heap)
       \/ /\ open
          /\ \E v \in Numbers(port, s) :
                IF IsNumber(s, v) /\ ~PointerFits(port) THEN Fail("overrun")
                ELSE Visit(IF IsNumber(s, v) THEN WithExpr(express_number(port, v, s[1])) ELSE heap)
    /\ UNCHANGED <<scratch, out>>

Preserve_Other ==
    /\ At("preserve")
    /\ Visit(IF heap[i].expr = {} THEN WithExpr(heap[i].text) ELSE heap)
    /\ UNCHANGED <<scratch, out>>

Print_Hex ==
    /\ At("print")
    /\ Visit(heap)
    /\ out' = IF heap[i].type = "macro" THEN out
              ELSE out \o (CHOOSE s \in heap[i].expr : TRUE) \o <<"LF">>
    /\ UNCHANGED scratch

Tokenize_Line == Tokenize_Line_Eof \/ Purge_LineComment \/ SkipTerminator
                   \/ Store_String \/ Store_Atom

Next ==
    \/ Tokenize_Line \/ Reverse_List \/ EmptyList
    \/ Identify_Macros \/ Line_Macro \/ Process_String
    \/ Eval_Immediates \/ Preserve_Other \/ Print_Hex

Spec     == Init /\ [][Next]_vars
FairSpec == Spec /\ WF_vars(Next)
================================================================================
