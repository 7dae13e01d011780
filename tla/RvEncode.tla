------------------------------- MODULE RvEncode -------------------------------
(***************************************************************************)
(* The instruction words of riscv64 as rv64enc.py, the gen-*-rv64.py       *)
(* generators and the helpers all put them together, the address pairs and *)
(* the image sizes these programs compute, and the processor's reading of  *)
(* such a word.  Nothing here has a state: the modules of the running      *)
(* tools take for granted that what was emitted is what was meant, and     *)
(* RvEncodeProofs shows for which operands that is so.                     *)
(*                                                                         *)
(* A shift to the right by n bits is \div 2^n and a mask of n bits is      *)
(* % 2^n, for negative numbers as well, in Python as in TLA+; an `|' of    *)
(* fields that do not overlap is a sum.                                    *)
(***************************************************************************)
EXTENDS Integers

(* `size' values (a power of two) of the number v, from the bit of weight  *)
(* `weight' up.                                                            *)
Field(v, weight, size) == (v \div weight) % size

-----------------------------------------------------------------------------
(* Encoding.  Where each format puts the bits of its immediate             *)

ImmI(imm) == (imm % 4096) * 1048576
ImmS(imm) == Field(imm, 32, 128) * 33554432 + (imm % 32) * 128
ImmB(imm) == (Field(imm, 4096, 2) * 64 + Field(imm, 32, 64)) * 33554432
             + (Field(imm, 2, 16) * 2 + Field(imm, 2048, 2)) * 128
ImmU(imm) == (imm % 1048576) * 4096
ImmJ(imm) == ((Field(imm, 1048576, 2) * 1024 + Field(imm, 2, 1024)) * 2
              + Field(imm, 2048, 2)) * 1048576 + Field(imm, 4096, 256) * 4096

WordI(op, f3, rd, rs1, imm)  == ImmI(imm) + rs1 * 32768 + f3 * 4096 + rd * 128 + op
WordS(op, f3, rs1, rs2, imm) == ImmS(imm) + rs2 * 1048576 + rs1 * 32768 + f3 * 4096 + op
WordB(op, f3, rs1, rs2, imm) == ImmB(imm) + rs2 * 1048576 + rs1 * 32768 + f3 * 4096 + op
WordU(op, rd, imm)           == ImmU(imm) + rd * 128 + op
WordJ(op, rd, imm)           == ImmJ(imm) + rd * 128 + op

-----------------------------------------------------------------------------
(* What the processor makes of a word                                      *)

Signed(v, size) == IF 2 * v < size THEN v ELSE v - size

RdOf(w)  == Field(w, 128, 32)
Rs1Of(w) == Field(w, 32768, 32)
Rs2Of(w) == Field(w, 1048576, 32)

ReadI(w) == Signed(Field(w, 1048576, 4096), 4096)
ReadS(w) == Signed(Field(w, 33554432, 128) * 32 + Field(w, 128, 32), 4096)
ReadB(w) == LET upper == Field(w, 33554432, 128)
                lower == Field(w, 128, 32)
            IN  Signed((upper \div 64) * 4096 + (lower % 2) * 2048
                       + (upper % 64) * 32 + (lower \div 2) * 2, 8192)
ReadU(w) == Signed(Field(w, 4096, 1048576), 1048576)
ReadJ(w) == LET upper == Field(w, 1048576, 4096)
            IN  Signed((upper \div 2048) * 1048576 + Field(w, 4096, 256) * 4096
                       + (upper % 2) * 2048 + Field(upper, 2, 1024) * 2, 2097152)

(* auipc adds its upper immediate to the address it is at; the addi behind *)
(* it adds the rest.                                                       *)
PairDistance(auipc, addi) == ReadU(auipc) * 4096 + ReadI(addi)

-----------------------------------------------------------------------------
(* The address pairs of the generators (fixup_auipc_addi)                  *)

Lo(offset) == LET lo == offset % 4096 IN IF lo >= 2048 THEN lo - 4096 ELSE lo
Hi(offset) == ((offset - Lo(offset)) \div 4096) % 1048576

Auipc(rd, offset) == WordU(23, rd, Hi(offset))
Addi(rd, offset)  == WordI(19, 0, rd, rd, Lo(offset) % 4096)

(* The pair the linker makes of ~label and !label, each measured from the  *)
(* address it stands at, XORed over an auipc and over the addi behind it   *)
(* whose immediates are still zero.                                        *)
LinkU(rd, disp) == WordU(23, rd, 0) + ImmU((disp + 2048) \div 4096)
LinkI(rd, disp) == WordI(19, 0, rd, rd, 0) + ImmI(disp + 4)

-----------------------------------------------------------------------------
(* The calls across functions of hex2_helper.py: a jal over one word of    *)
(* data leaves the address of the data in t0; the word is loaded, added to *)
(* that address, and the jalr behind adds its immediate.                   *)
TrampolineJal  == 8389359    \* EF 02 80 00
TrampolineJalr == 4391143    \* E7 00 43 00

LinkAddress(at)    == at + 4
JumpsOver(at)      == at + ReadJ(TrampolineJal)
LandsAt(at, value) == LinkAddress(at) + value + ReadI(TrampolineJalr)

(* What hex1 makes of the %label in the word at `data': its distance from  *)
(* the byte behind that word.                                              *)
Reference(target, data) == target - (data + 4)

(* The size of the section in the file: the code in whole units of 64.     *)
RawAligned(total) == ((total + 63) \div 64) * 64

=============================================================================
