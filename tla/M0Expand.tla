-------------------------------- MODULE M0Expand --------------------------------
(***************************************************************************)
(* What M0 promises, in one reading of the text from left to right: every  *)
(* token is replaced by what its name stands for at that point, by its     *)
(* bytes if it is a string, by its digits if it is a number, and is copied *)
(* otherwise.  M0 does it in eight passes over a list in memory.           *)
(***************************************************************************)
EXTENDS M0

(* Reading one character: what is being read, the token so far, and the    *)
(* tokens before it.                                                       *)
Feed(lex, c) ==
    LET ended == [mode |-> "gap", token |-> <<>>, tokens |-> Append(lex.tokens, lex.token)]
        more  == [lex EXCEPT !.token = Append(@, c)]
        blank == c \in {"LF", "SP", "TAB", "NUL"}
    IN
    CASE lex.mode = "comment" -> IF c = "LF" THEN [lex EXCEPT !.mode = "gap"] ELSE lex
      [] lex.mode = "atom"    -> IF blank THEN ended ELSE more
      [] lex.mode \in {"\"", "'"} -> IF c = lex.mode THEN ended ELSE more
      [] lex.mode = "gap" ->
           IF c \in {"#", ";", "NUL"} THEN [lex EXCEPT !.mode = "comment"]
           ELSE IF blank THEN lex
           ELSE [more EXCEPT !.mode = IF c \in {"\"", "'"} THEN c ELSE "atom"]

Scan(s) ==
    LET upTo[k \in 0 .. Len(s)] ==
            IF k = 0 THEN [mode |-> "gap", token |-> <<>>, tokens |-> <<>>]
            ELSE LET lex == upTo[k - 1] IN Feed(lex, s[k])
    IN  upTo[Len(s)]

(* An unfinished token ends with the file.                                 *)
TokensOf(lex) == IF lex.token = <<>> THEN lex.tokens ELSE Append(lex.tokens, lex.token)

IsString(token) == token[1] \in {"\"", "'"}

(* What a token that is not part of a definition is replaced by.           *)
Replacement(p, names, token) ==
    CASE token[1] = "\""      -> HexString(p, Tail(token))
      [] token[1] = "'"       -> Tail(token)
      [] ~IsString(token) /\ token \in DOMAIN names -> names[token]
      [] ~IsString(token) /\ token \notin DOMAIN names ->
           IF IsPrefixed(p, token) /\ IsNumber(token, numerate_string(Tail(token)))
           THEN express_number(p, numerate_string(Tail(token)), token[1])
           ELSE token

(* The names with one of them (re)defined.                                 *)
Bound(names, name, value) ==
    [n \in DOMAIN names \cup {name} |-> IF n = name THEN value ELSE names[n]]

(* Reading one token: the names defined so far, the words of an unfinished *)
(* definition, and the output.                                             *)
ExpandToken(p, done, token) ==
    CASE Len(done.define) = 2 ->
           [done EXCEPT !.names = Bound(@, done.define[2], token), !.define = <<>>]
      [] Len(done.define) = 1 -> [done EXCEPT !.define = Append(@, token)]
      [] done.define = <<>> ->
           IF token = <<"DEFINE">> THEN [done EXCEPT !.define = <<token>>]
           ELSE [done EXCEPT !.out = @ \o Replacement(p, done.names, token) \o <<"LF">>]

Expansion(p, tokens) ==
    LET upTo[k \in 0 .. Len(tokens)] ==
            IF k = 0 THEN [names |-> <<>>, define |-> <<>>, out |-> <<>>]
            ELSE LET done == upTo[k - 1] IN ExpandToken(p, done, tokens[k])
    IN  upTo[Len(tokens)]

(* The texts M0 is for.  No zero and no digit M0 does not know in a token, *)
(* every token within its room, every definition complete; for amd64, a    *)
(* text that has a token, ends between tokens and not with a definition.   *)
InRoom(p, token) ==
    IF p = "amd64" THEN Len(token) < TokenSize
    ELSE Len(token) < ScratchSize /\ (token[1] = "\"" => 3 * Len(token) < ScratchSize)

WellFormed(p, s) ==
    LET lex    == Scan(s)
        tokens == TokensOf(lex)
        result == Expansion(p, tokens)
    IN
    /\ \A k \in DOMAIN tokens :
          /\ InRoom(p, tokens[k])
          /\ "NUL" \notin ToSet(tokens[k])
          /\ p = "riscv64" => tokens[k] \notin {<<"!">>, <<"@">>, <<"~">>, <<"%">>}
    /\ result.define = <<>>
    /\ p = "amd64" =>
          /\ lex.mode = "gap" /\ tokens # <<>>
          /\ Len(tokens) > 3 => tokens[Len(tokens) - 2] # <<"DEFINE">>
          /\ Len(tokens) = 3 => tokens[1] # <<"DEFINE">>

-----------------------------------------------------------------------------
(* The variables have the types their comments give; every pointer is NULL *)
(* or a node that exists.                                                  *)
TypeOK ==
    /\ port \in Ports /\ text \in Seq(STRING)
    /\ pos \in 1 .. Len(text) + 1
    /\ pc \in {"tokenize", "reverse", "hung"} \cup Passes \cup Final
    /\ {head, i} \subseteq 0 .. Len(heap)
    /\ \A k \in DOMAIN heap :
          /\ heap[k].next \in 0 .. Len(heap)
          /\ heap[k].type \in Types
          /\ heap[k].text # <<>> /\ Cardinality(heap[k].expr) <= 1
    /\ Len(scratch) = ScratchSize

(* What has been printed is always the beginning of what one reading of    *)
(* the text from left to right gives, and in the end it is all of it: a    *)
(* name stands for its last definition above it, never for one below, a    *)
(* string is never a name, a definition leaves nothing, and no token takes *)
(* over what another one left in the scratch area.                         *)
OutputExact ==
    pc \in {"print", "done"} /\ WellFormed(port, text) =>
        LET expected == Expansion(port, TokensOf(Scan(text))).out IN
        /\ IsPrefix(out, expected)
        /\ pc = "done" => out = expected

(* On a text M0 is for, no pass follows NULL or reads past the end of the  *)
(* file, and none writes past an area as long as amd64's pool is below     *)
(* 4 GiB; PointerFits says why it must be.                                 *)
StaysInBounds ==
    /\ pc \in {"wild", "hung"} => ~WellFormed(port, text)
    /\ pc = "overrun" => ~WellFormed(port, text) \/ ~PointerFits(port)

(* No token is lost or printed twice: while the list is reversed each node *)
(* is on exactly one of its two halves; afterwards the list runs through   *)
(* the nodes in the order of the text, leaving out just the two tokens     *)
(* behind each macro.                                                      *)
ListWhole ==
    /\ pc = "reverse" =>
          /\ LinkedFrom(heap, head) \cup LinkedFrom(heap, i) = DOMAIN heap
          /\ LinkedFrom(heap, head) \cap LinkedFrom(heap, i) = {}
    /\ pc \in Passes \cup {"done"} =>
          LET macros == {k \in DOMAIN heap : heap[k].type = "macro"} IN
          /\ LinkedFrom(heap, head) = DOMAIN heap \ UNION {{k + 1, k + 2} : k \in macros}
          /\ \A k \in LinkedFrom(heap, head) : heap[k].next = 0 \/ heap[k].next > k

(* What the processor makes of the fields M0 fills.                        *)
FromHex(s) == [k \in 1 .. Len(s) \div 2 |->
                  16 * Hexadecimal[s[2 * k - 1]] + Hexadecimal[s[2 * k]]]
Signed12(n) == IF n >= 2048 THEN n - 4096 ELSE n
PageOf(b)   == ((b[2] \div 16) + 16 * b[3] + 4096 * b[4]) % 1048576
OffsetI(b)  == Signed12(16 * b[4] + (b[3] \div 16))
OffsetS(b)  == Signed12((b[1] \div 128) + 2 * (b[2] % 16) + 32 * (b[4] \div 2))

(* Node k is the number behind a prefix, written as a field because no     *)
(* definition above has made a name of it.                                 *)
NumberAt(k) == Tail(heap[k].text)
IsField(k, prefixes) ==
    /\ heap[k].type = "atom" /\ NumberAt(k) # <<>> /\ heap[k].text[1] \in prefixes
    /\ \E s \in heap[k].expr : s[1] = "."
    /\ \A m \in 1 .. k - 1 : heap[m].type = "macro" => heap[m].text # heap[k].text

FieldAt(k)  == FromHex(Tail(CHOOSE s \in heap[k].expr : TRUE))
OffsetAt(k) == IF heap[k].text[1] = "!" THEN OffsetI(FieldAt(k)) ELSE OffsetS(FieldAt(k))

(* Page and offset of the number v.                                        *)
AddsUp(u, l, v) ==
    /\ PageOf(FieldAt(u)) = ((v - OffsetAt(l)) \div 4096) % 1048576
    /\ (v - OffsetAt(l)) % 4096 = 0

(* The page of a '~' and the signed offset of a '!' or of a '@' with the   *)
(* same number add up to it, whichever rounding express_number chose.      *)
AddressesAddUp ==
    \A u, l \in DOMAIN heap :
        port = "riscv64" /\ IsField(u, {"~"}) /\ IsField(l, {"!", "@"}) /\ NumberAt(u) = NumberAt(l)
        => AddsUp(u, l, numerate_string(NumberAt(u)))

(* M0 comes to an end on every text, whether well or not: riscv64 tests    *)
(* for the end of the file in each of its loops; amd64 reads for ever in a *)
(* comment at the end of the file, and nowhere else.                       *)
Terminates == <>(pc \in Final \/ (pc = "hung" /\ port = "amd64"))
================================================================================
