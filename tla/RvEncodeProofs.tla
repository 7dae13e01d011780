---------------------------- MODULE RvEncodeProofs ----------------------------
(***************************************************************************)
(* Theorems about RvEncode: for which operands the processor reads back    *)
(* what was meant.  Ranges are stated as Below(n), which is 0 .. n - 1.    *)
(***************************************************************************)
EXTENDS RvEncode, TLAPS

Below(n) == {k \in Int : 0 <= k /\ k < n}

Register == Below(32)
Opcode   == Below(128)
Funct3   == Below(8)

-----------------------------------------------------------------------------
(* The six fields of a word, from the sum that makes it.                   *)
LEMMA Fields ==
  ASSUME NEW f7 \in Below(128), NEW r2 \in Register, NEW r1 \in Register,
         NEW f3 \in Funct3, NEW d \in Register, NEW op \in Opcode,
         NEW w \in Int,
         w = f7 * 33554432 + r2 * 1048576 + r1 * 32768 + f3 * 4096 + d * 128 + op
  PROVE  /\ Field(w, 33554432, 128) = f7
         /\ Rs2Of(w) = r2 /\ Rs1Of(w) = r1 /\ RdOf(w) = d
         /\ Field(w, 1048576, 4096) = f7 * 32 + r2
         /\ Field(w, 4096, 1048576) = (f7 * 32 + r2) * 256 + r1 * 8 + f3
         /\ Field(w, 4096, 256) = r1 * 8 + f3
  <1> USE DEF Register, Opcode, Funct3, Below
  <1>1. w \div 33554432 = f7
    BY SMT
  <1>2. w \div 1048576 = f7 * 32 + r2
    BY SMT
  <1>3. w \div 32768 = (f7 * 32 + r2) * 32 + r1
    BY SMT
  <1>4. w \div 4096 = (f7 * 32 + r2) * 256 + r1 * 8 + f3
    BY SMT
  <1>5. w \div 128 = ((f7 * 32 + r2) * 256 + r1 * 8 + f3) * 32 + d
    BY SMT
  <1>6. Field(w, 33554432, 128) = f7
    BY <1>1, SMT DEF Field
  <1>7. Rs2Of(w) = r2 /\ Field(w, 1048576, 4096) = f7 * 32 + r2
    BY <1>2, SMT DEF Field, Rs2Of
  <1>8. Rs1Of(w) = r1
    BY <1>3, SMT DEF Field, Rs1Of
  <1>9. Field(w, 4096, 1048576) = (f7 * 32 + r2) * 256 + r1 * 8 + f3
    BY <1>4, SMT DEF Field
  <1>10. Field(w, 4096, 256) = r1 * 8 + f3
    BY <1>4, SMT DEF Field
  <1>11. RdOf(w) = d
    BY <1>5, SMT DEF Field, RdOf
  <1> QED BY <1>6, <1>7, <1>8, <1>9, <1>10, <1>11

(* Reading a number back from its lower 12, 13, 20 or 21 bits.             *)
LEMMA Signed12 == \A imm \in Int : -2048 <= imm /\ imm < 2048 => Signed(imm % 4096, 4096) = imm
  BY SMT DEF Signed
LEMMA Signed13 == \A imm \in Int : -4096 <= imm /\ imm < 4096 => Signed(imm % 8192, 8192) = imm
  BY SMT DEF Signed
LEMMA Signed20 ==
  \A imm \in Int : -524288 <= imm /\ imm < 524288 => Signed(imm % 1048576, 1048576) = imm
  BY SMT DEF Signed
LEMMA Signed21 ==
  \A imm \in Int : -1048576 <= imm /\ imm < 1048576 => Signed(imm % 2097152, 2097152) = imm
  BY SMT DEF Signed

-----------------------------------------------------------------------------
(* Loads, immediates and jalr: the registers and the immediate that were   *)
(* meant, if it fits in 12 bits.                                           *)
THEOREM IRoundTrip ==
  ASSUME NEW op \in Opcode, NEW f3 \in Funct3, NEW rd \in Register, NEW rs1 \in Register,
         NEW imm \in Int
  PROVE  LET w == WordI(op, f3, rd, rs1, imm) IN
         /\ RdOf(w) = rd /\ Rs1Of(w) = rs1
         /\ ReadI(w) = Signed(imm % 4096, 4096)
         /\ -2048 <= imm /\ imm < 2048 => ReadI(w) = imm
  <1> DEFINE w == WordI(op, f3, rd, rs1, imm)
             f7 == (imm % 4096) \div 32
             r2 == (imm % 4096) % 32
  <1>1. f7 \in Below(128) /\ r2 \in Register /\ imm % 4096 = f7 * 32 + r2
    BY SMT DEF Below, Register
  <1>2. w = f7 * 33554432 + r2 * 1048576 + rs1 * 32768 + f3 * 4096 + rd * 128 + op /\ w \in Int
    BY <1>1, SMT DEF WordI, ImmI, Below, Register, Opcode, Funct3
  <1> HIDE DEF w, f7, r2
  <1>3. RdOf(w) = rd /\ Rs1Of(w) = rs1 /\ Field(w, 1048576, 4096) = f7 * 32 + r2
    BY <1>1, <1>2, Fields, SMT
  <1> QED BY <1>1, <1>3, Signed12, SMT DEF ReadI, w

(* Stores, the same.                                                       *)
THEOREM SRoundTrip ==
  ASSUME NEW op \in Opcode, NEW f3 \in Funct3, NEW rs1 \in Register, NEW rs2 \in Register,
         NEW imm \in Int
  PROVE  LET w == WordS(op, f3, rs1, rs2, imm) IN
         /\ Rs1Of(w) = rs1 /\ Rs2Of(w) = rs2
         /\ ReadS(w) = Signed(imm % 4096, 4096)
         /\ -2048 <= imm /\ imm < 2048 => ReadS(w) = imm
  <1> DEFINE w == WordS(op, f3, rs1, rs2, imm)
             f7 == Field(imm, 32, 128)
             d == imm % 32
  <1>1. f7 \in Below(128) /\ d \in Register /\ imm % 4096 = f7 * 32 + d
    BY SMT DEF Below, Register, Field
  <1>2. w = f7 * 33554432 + rs2 * 1048576 + rs1 * 32768 + f3 * 4096 + d * 128 + op /\ w \in Int
    BY <1>1, SMT DEF WordS, ImmS, Below, Register, Opcode, Funct3
  <1> HIDE DEF w, f7, d
  <1>3. /\ Rs1Of(w) = rs1 /\ Rs2Of(w) = rs2
        /\ Field(w, 33554432, 128) = f7 /\ Field(w, 128, 32) = d
    BY <1>1, <1>2, Fields, SMT DEF RdOf
  <1> QED BY <1>1, <1>3, Signed12, SMT DEF ReadS, w

(* Branches.  An even displacement that does not fit, which nothing checks *)
(* when a local branch is resolved, silently loses its upper bits.         *)
THEOREM BRoundTrip ==
  ASSUME NEW op \in Opcode, NEW f3 \in Funct3, NEW rs1 \in Register, NEW rs2 \in Register,
         NEW imm \in Int, imm % 2 = 0
  PROVE  LET w == WordB(op, f3, rs1, rs2, imm) IN
         /\ Rs1Of(w) = rs1 /\ Rs2Of(w) = rs2
         /\ ReadB(w) = Signed(imm % 8192, 8192)
         /\ -4096 <= imm /\ imm < 4096 => ReadB(w) = imm
  <1> DEFINE w == WordB(op, f3, rs1, rs2, imm)
             b12 == Field(imm, 4096, 2)
             b5 == Field(imm, 32, 64)
             b1 == Field(imm, 2, 16)
             b11 == Field(imm, 2048, 2)
             f7 == b12 * 64 + b5
             d == b1 * 2 + b11
  <1>1. /\ b12 \in Below(2) /\ b5 \in Below(64) /\ b1 \in Below(16) /\ b11 \in Below(2)
        /\ imm % 8192 = b12 * 4096 + b11 * 2048 + b5 * 32 + b1 * 2
    <2>1. imm = 2 * (imm \div 2) /\ imm \div 2 = 16 * (imm \div 32) + b1 /\ b1 \in Below(16)
      BY SMT DEF Below, Field
    <2>2. imm \div 32 = 64 * (imm \div 2048) + b5 /\ b5 \in Below(64)
      BY SMT DEF Below, Field
    <2>3. imm \div 2048 = 2 * (imm \div 4096) + b11 /\ b11 \in Below(2)
      BY SMT DEF Below, Field
    <2>4. imm \div 4096 = 2 * (imm \div 8192) + b12 /\ b12 \in Below(2)
      BY SMT DEF Below, Field
    <2>5. imm = 8192 * (imm \div 8192) + (imm % 8192)
      BY SMT
    <2> HIDE DEF b12, b5, b1, b11
    <2> QED BY <2>1, <2>2, <2>3, <2>4, <2>5, SMT DEF Below
  <1> HIDE DEF b12, b5, b1, b11
  <1>2. /\ f7 \in Below(128) /\ f7 \div 64 = b12 /\ f7 % 64 = b5
        /\ d \in Register /\ d \div 2 = b1 /\ d % 2 = b11
    BY <1>1, SMT DEF Below, Register
  <1>3. w = f7 * 33554432 + rs2 * 1048576 + rs1 * 32768 + f3 * 4096 + d * 128 + op /\ w \in Int
    BY <1>1, SMT DEF WordB, ImmB, Below, Register, Opcode, Funct3, b12, b5, b1, b11
  <1> HIDE DEF w, f7, d
  <1>4. /\ Rs1Of(w) = rs1 /\ Rs2Of(w) = rs2
        /\ Field(w, 33554432, 128) = f7 /\ Field(w, 128, 32) = d
    BY <1>2, <1>3, Fields, SMT DEF RdOf
  <1> QED BY <1>1, <1>2, <1>4, Signed13, SMT DEF ReadB, w

(* Jumps, the same with 21 bits.                                           *)
THEOREM JRoundTrip ==
  ASSUME NEW op \in Opcode, NEW rd \in Register, NEW imm \in Int, imm % 2 = 0
  PROVE  LET w == WordJ(op, rd, imm) IN
         /\ RdOf(w) = rd
         /\ ReadJ(w) = Signed(imm % 2097152, 2097152)
         /\ -1048576 <= imm /\ imm < 1048576 => ReadJ(w) = imm
  <1> DEFINE w == WordJ(op, rd, imm)
             b20 == Field(imm, 1048576, 2)
             b1 == Field(imm, 2, 1024)
             b11 == Field(imm, 2048, 2)
             b12 == Field(imm, 4096, 256)
             upper == (b20 * 1024 + b1) * 2 + b11
  <1>1. /\ b20 \in Below(2) /\ b1 \in Below(1024) /\ b11 \in Below(2) /\ b12 \in Below(256)
        /\ imm % 2097152 = b20 * 1048576 + b12 * 4096 + b11 * 2048 + b1 * 2
    <2>1. imm = 2 * (imm \div 2) /\ imm \div 2 = 1024 * (imm \div 2048) + b1 /\ b1 \in Below(1024)
      BY SMT DEF Below, Field
    <2>2. imm \div 2048 = 2 * (imm \div 4096) + b11 /\ b11 \in Below(2)
      BY SMT DEF Below, Field
    <2>3. imm \div 4096 = 256 * (imm \div 1048576) + b12 /\ b12 \in Below(256)
      BY SMT DEF Below, Field
    <2>4. imm \div 1048576 = 2 * (imm \div 2097152) + b20 /\ b20 \in Below(2)
      BY SMT DEF Below, Field
    <2>5. imm = 2097152 * (imm \div 2097152) + (imm % 2097152)
      BY SMT
    <2> HIDE DEF b20, b1, b11, b12
    <2> QED BY <2>1, <2>2, <2>3, <2>4, <2>5, SMT DEF Below
  <1> HIDE DEF b20, b1, b11, b12
  <1>2. /\ upper \in Below(4096) /\ upper \div 2048 = b20 /\ upper % 2 = b11
        /\ Field(upper, 2, 1024) = b1
    BY <1>1, SMT DEF Below, Field
  <1>3. w = upper * 1048576 + b12 * 4096 + rd * 128 + op /\ w \in Int
    BY <1>1, SMT DEF WordJ, ImmJ, Below, Register, Opcode, b20, b1, b11, b12
  <1> DEFINE f7 == upper \div 32
             r2 == upper % 32
             r1 == b12 \div 8
             f3 == b12 % 8
  <1> HIDE DEF w, upper
  <1>4. /\ f7 \in Below(128) /\ r2 \in Register /\ r1 \in Register /\ f3 \in Funct3
        /\ upper = f7 * 32 + r2 /\ b12 = r1 * 8 + f3
    BY <1>1, <1>2, SMT DEF Below, Register, Funct3
  <1> HIDE DEF f7, r2, r1, f3
  <1>5. w = f7 * 33554432 + r2 * 1048576 + r1 * 32768 + f3 * 4096 + rd * 128 + op
    BY <1>3, <1>4, SMT DEF Below, Register, Funct3, Opcode
  <1>6. RdOf(w) = rd /\ Field(w, 1048576, 4096) = upper /\ Field(w, 4096, 256) = b12
    BY <1>3, <1>4, <1>5, Fields, SMT
  <1> QED BY <1>1, <1>2, <1>6, Signed21, SMT DEF ReadJ, w

-----------------------------------------------------------------------------
(* Upper immediates.                                                       *)
LEMMA URoundTrip ==
  ASSUME NEW op \in Opcode, NEW rd \in Register, NEW imm \in Int
  PROVE  LET w == WordU(op, rd, imm) IN
         RdOf(w) = rd /\ ReadU(w) = Signed(imm % 1048576, 1048576)
  <1> DEFINE w == WordU(op, rd, imm)
             m == imm % 1048576
             f7 == m \div 8192
             r2 == (m \div 256) % 32
             r1 == (m \div 8) % 32
             f3 == m % 8
  <1>1. m \in Below(1048576)
    BY SMT DEF Below
  <1>2. w = m * 4096 + rd * 128 + op /\ w \in Int
    BY <1>1, SMT DEF WordU, ImmU, Below, Register, Opcode
  <1> HIDE DEF w, m
  <1>3. /\ f7 \in Below(128) /\ r2 \in Register /\ r1 \in Register /\ f3 \in Funct3
        /\ m = (f7 * 32 + r2) * 256 + r1 * 8 + f3
    BY <1>1, SMT DEF Below, Register, Funct3
  <1> HIDE DEF f7, r2, r1, f3
  <1>4. w = f7 * 33554432 + r2 * 1048576 + r1 * 32768 + f3 * 4096 + rd * 128 + op
    BY <1>2, <1>3, SMT DEF Below, Register, Funct3, Opcode
  <1>5. RdOf(w) = rd /\ Field(w, 4096, 1048576) = m
    BY <1>2, <1>3, <1>4, Fields, SMT
  <1> QED BY <1>5, SMT DEF ReadU, w, m

(* The opcodes and registers of a pair are such.                           *)
LEMMA PairOperands == 23 \in Opcode /\ 19 \in Opcode /\ 0 \in Funct3
  BY SMT DEF Opcode, Funct3, Below

(* An address pair of the generators reaches its label, however far below  *)
(* or above: addi takes its immediate for negative when the lower half is  *)
(* 2048 or more, and the upper half has made up for it.                    *)
THEOREM GeneratorPairReaches ==
  ASSUME NEW rd \in Register, NEW offset \in Int,
         -2147481600 <= offset, offset < 2147481600
  PROVE  PairDistance(Auipc(rd, offset), Addi(rd, offset)) = offset
  <1> DEFINE lo == Lo(offset)
             h  == (offset - lo) \div 4096
  <1>1. lo \in Int /\ -2048 <= lo /\ lo < 2048 /\ offset = h * 4096 + lo /\ h \in Int
    BY SMT DEF Lo
  <1>2. (lo % 4096) % 4096 = lo % 4096 /\ lo % 4096 \in Int
    BY <1>1, SMT
  <1>3. Signed(lo % 4096, 4096) = lo
    BY <1>1, Signed12, SMT
  <1> HIDE DEF lo, h
  <1>4. ReadI(Addi(rd, offset)) = lo
    BY <1>2, <1>3, PairOperands, IRoundTrip, SMT DEF Addi, lo
  <1>5. -524288 <= h /\ h < 524288
    BY <1>1, SMT
  <1>6. Hi(offset) = h % 1048576 /\ h % 1048576 \in Int
        /\ (h % 1048576) % 1048576 = h % 1048576
    BY <1>1, SMT DEF Hi, h, lo
  <1>7. ReadU(Auipc(rd, offset)) = h
    BY <1>1, <1>5, <1>6, PairOperands, URoundTrip, Signed20, SMT DEF Auipc
  <1> QED BY <1>1, <1>4, <1>7, SMT DEF PairDistance

(* ~label and !label in two instructions, one behind the other, reach the  *)
(* label: the second is measured from 4 bytes on, and the linker puts      *)
(* those 4 bytes back before it takes the lower half.                      *)
THEOREM LinkPairReaches ==
  ASSUME NEW rd \in Register, NEW disp \in Int,
         -2147481600 <= disp, disp < 2147481600
  PROVE  PairDistance(LinkU(rd, disp), LinkI(rd, disp - 4)) = disp
  <1> DEFINE h == (disp + 2048) \div 4096
  <1>1. h \in Int /\ -524288 <= h /\ h < 524288 /\ disp - h * 4096 \in Int
        /\ -2048 <= disp - h * 4096 /\ disp - h * 4096 < 2048
    BY SMT
  <1>2. disp % 4096 = (disp - h * 4096) % 4096
    BY <1>1, SMT
  <1>3. Signed(disp % 4096, 4096) = disp - h * 4096
    BY <1>1, <1>2, Signed12, SMT
  <1>4. LinkU(rd, disp) = WordU(23, rd, h)
    BY SMT DEF LinkU, WordU, ImmU, Register, Below
  <1>5. LinkI(rd, disp - 4) = WordI(19, 0, rd, rd, disp)
    BY SMT DEF LinkI, WordI, ImmI, Register, Below
  <1> HIDE DEF h
  <1>6. ReadU(LinkU(rd, disp)) = h
    BY <1>1, <1>4, PairOperands, URoundTrip, Signed20, SMT
  <1>7. ReadI(LinkI(rd, disp - 4)) = disp - h * 4096
    BY <1>3, <1>5, PairOperands, IRoundTrip, SMT
  <1> QED BY <1>1, <1>6, <1>7, SMT DEF PairDistance

(* A trampoline jumps over its word of data, and lands where hex1's        *)
(* reference in it points.  The immediate of the jalr is +4 in the bytes;  *)
(* with the -4 that the docstring of trampoline_call has, it would be 8    *)
(* bytes short of the target.                                              *)
THEOREM TrampolineReaches ==
  ASSUME NEW at \in Int, NEW target \in Int
  PROVE  /\ JumpsOver(at) = LinkAddress(at) + 4
         /\ LandsAt(at, Reference(target, LinkAddress(at))) = target
  <1>1. ReadJ(TrampolineJal) = 8
    BY SMT DEF ReadJ, TrampolineJal, Field, Signed
  <1>2. ReadI(TrampolineJalr) = 4
    BY SMT DEF ReadI, TrampolineJalr, Field, Signed
  <1> QED BY <1>1, <1>2, SMT DEF JumpsOver, LandsAt, LinkAddress, Reference

(* The section holds the code, and wastes less than one unit.              *)
THEOREM PaddingFits ==
  ASSUME NEW total \in Nat
  PROVE  RawAligned(total) % 64 = 0 /\ total <= RawAligned(total) /\ RawAligned(total) < total + 64
  BY SMT DEF RawAligned
=============================================================================
