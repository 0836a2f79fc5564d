--------------------------- MODULE ArmInstruction ---------------------------
(***************************************************************************)
(* One step of the processor: arm_instruction.c, arm_data_processing.c,    *)
(* arm_load_store.c and arm_branch_other.c.  Instructions are words; the   *)
(* operators below are the fields the code extracts from them.             *)
(*                                                                         *)
(* The shifter carry is not here: it only reaches write_flags, which       *)
(* discards it.  Neither are the functions arm_instruction.c never calls   *)
(* (ldm/stm, swi, mrs, coprocessor).                                       *)
(***************************************************************************)
EXTENDS ArmCore

Cond(w)   == w[1] \div 16
Typeop(w) == (w[1] \div 4) % 4
Opcode(w) == 8 * (w[1] % 2) + w[2] \div 32
Rn(w) == w[2] % 16
Rd(w) == w[3] \div 16
Rs(w) == w[3] % 16
Rm(w) == w[4] % 16
Low12(w) == 256 * Rs(w) + w[4]
Shift(w) == (w[4] \div 32) % 4
ShiftImm(w) == 2 * Rs(w) + w[4] \div 128

(* check_cond_failed, on the flags of a CPSR.  Condition 9 joins with && the *)
(* two halves the ARM manual joins with or.                                 *)
check_cond_failed(cpsr, cond) ==
  LET n == Bit(cpsr, 31) = 1
      z == Bit(cpsr, 30) = 1
      c == Bit(cpsr, 29) = 1
      v == Bit(cpsr, 28) = 1
  IN  ~ CASE cond = 0  -> z        [] cond = 1  -> ~z
          [] cond = 2  -> c        [] cond = 3  -> ~c
          [] cond = 4  -> n        [] cond = 5  -> ~n
          [] cond = 6  -> v        [] cond = 7  -> ~v
          [] cond = 8  -> c /\ ~z  [] cond = 9  -> ~c /\ z
          [] cond = 10 -> n = v    [] cond = 11 -> n # v
          [] cond = 12 -> ~z /\ n = v
          [] cond = 13 -> z \/ n # v
          [] cond = 14 -> TRUE     [] cond = 15 -> FALSE
-----------------------------------------------------------------------------
(* update_shifter_operand.  The operand is a uint16_t and Rm is read into a *)
(* uint8_t; the shift amount of a register shift is the number made of the  *)
(* fields Rd and Rs, not the content of Rs.  Mutation: the result of a left *)
(* shift is not cut to 16 bits.                                             *)
ShiftLeftWide(rm, n) == IF n < 16 THEN rm * Power[n + 1] ELSE 0
ShiftLeft(rm, n) == IF n < 16 THEN (rm * Power[n + 1]) % 65536 ELSE 0
ShiftRight(rm, n) == IF n < 8 THEN rm \div Power[n + 1] ELSE 0
Low16(w) == 256 * w[3] + w[4]

ShiftByRegister(w, rm) ==
  LET rs7 == 16 * Rd(w) + Rs(w)
      s == Shift(w)
  IN  CASE rs7 = 0  -> rm
        [] rs7 > 0 /\ s = 0 -> ShiftLeft(rm, rs7)
        [] rs7 > 0 /\ s = 1 -> ShiftRight(rm, rs7)
        [] rs7 > 0 /\ s = 2 -> IF rs7 < 32 THEN ShiftRight(rm, rs7) ELSE 65535
        [] rs7 > 0 /\ s = 3 -> ShiftRight(rm, Rs(w))

ShiftByImmediate(w, rm) ==
  LET n == ShiftImm(w)
      s == Shift(w)
  IN  CASE s = 0 -> ShiftLeft(rm, n)
        [] s \in {1, 2} -> IF n = 0 THEN 0 ELSE ShiftRight(rm, n)
        [] s = 3 -> IF n = 0 THEN Low12(w) ELSE Low16(ror(Small(rm), n))

update_shifter_operand(p, w) ==
  IF Bit(w, 25) = 1
  THEN Low16(ror(Small(w[4]), 2 * Rs(w)))
  ELSE LET rm == arm_read_register(p, Rm(w))[4]
       IN  IF Bit(w, 4) = 1 THEN ShiftByRegister(w, rm) ELSE ShiftByImmediate(w, rm)

(* write_flags computes the new flags with set_1_bit and discards them: it  *)
(* writes back the CPSR it has read.  Every instruction calls update_flags  *)
(* with S and Rdest exchanged: what it takes for the register is the bit S, *)
(* never 15, and what it takes for S is the number of the register.         *)
write_flags(p) == write_cpsr(p, read_cpsr(p))
update_flags(p, rdest, s) == IF s = 1 /\ rdest # PC THEN write_flags(p) ELSE p

(* The values of and_instr .. mvn_instr, a being Rn, b the shifter operand  *)
(* and c the carry flag.  "- ~(flag_C)" adds 1 + flag_C: the complement is  *)
(* that of an int.                                                          *)
and_instr(a, b) == And(a, b)
xor_instr(a, b) == Xor(a, b)
sub_instr(a, b) == Sub(a, b)
rsb_instr(a, b) == Sub(b, a)
add_instr(a, b) == Add(a, b)
adc_instr(a, b, c) == Add(Add(a, b), Small(c))
sbc_instr(a, b, c) == Add(Sub(a, b), Small(1 + c))
rsc_instr(a, b, c) == Add(Sub(b, a), Small(1 + c))
orr_instr(a, b) == Or(a, b)
bic_instr(a, b) == And(a, Not(b))
DataValue(op, a, b, c) ==
  CASE op = 0 -> and_instr(a, b)     [] op = 1 -> xor_instr(a, b)
    [] op = 2 -> sub_instr(a, b)     [] op = 3 -> rsb_instr(a, b)
    [] op = 4 -> add_instr(a, b)     [] op = 5 -> adc_instr(a, b, c)
    [] op = 6 -> sbc_instr(a, b, c)  [] op = 7 -> rsc_instr(a, b, c)
    [] op = 12 -> orr_instr(a, b)    [] op = 13 -> b
    [] op = 14 -> bic_instr(a, b)    [] op = 15 -> Not(b)

(* tst, teq, cmp and cmn only call write_flags.                             *)
compare_instr(p) == write_flags(p)

(* traitement_AR.  Mutation: the operands are exchanged.                    *)
OperandsExchanged(p, w) ==
  IF Opcode(w) \in 8..11 THEN compare_instr(p)
  ELSE LET v == DataValue(Opcode(w), Small(update_shifter_operand(p, w)),
                          arm_read_register(p, Rn(w)), Bit(read_cpsr(p), 29))
       IN  update_flags(arm_write_register(p, Rd(w), v), Bit(w, 20), Rd(w))
traitement_AR(p, w) ==
  IF Opcode(w) \in 8..11 THEN compare_instr(p)
  ELSE LET v == DataValue(Opcode(w), arm_read_register(p, Rn(w)),
                          Small(update_shifter_operand(p, w)), Bit(read_cpsr(p), 29))
       IN  update_flags(arm_write_register(p, Rd(w), v), Bit(w, 20), Rd(w))
-----------------------------------------------------------------------------
(* The address both load and store families compute, and use whether the    *)
(* access is post-indexed, pre-indexed or at an offset.  Mutation: bit U is *)
(* ignored.                                                                 *)
AddressUp(p, w, offset) == Add(arm_read_register(p, Rn(w)), offset)
Address(p, w, offset) ==
  LET base == arm_read_register(p, Rn(w))
  IN  IF Bit(w, 23) = 1 THEN Add(base, offset) ELSE Sub(base, offset)

WritesBack(w) == Bit(w, 24) = 0 \/ Bit(w, 21) = 1

(* arm_load_store_h: an unsigned half whatever bits 5 and 6 say.            *)
arm_load_store_h(p, w, junk) ==
  LET offset == IF Bit(w, 22) = 1 THEN Small(16 * Rs(w) + Rm(w))
                ELSE arm_read_register(p, Rm(w))
      a == Address(p, w, offset)
      q == IF Bit(w, 20) = 1
           THEN arm_write_register(p, Rd(w), arm_read(p, a, 2, junk))
           ELSE arm_write(p, a, 2, arm_read_register(p, Rd(w)))
  IN  IF WritesBack(w) THEN arm_write_register(q, Rn(w), a) ELSE q

(* LDR_LDRB ends with a write of the address to Rn, in every variant.       *)
(* Mutation: to Rm.                                                         *)
LoadWritesRm(p, w, a, junk) ==
  arm_write_register(
    arm_write_register(p, Rd(w), arm_read(p, a, IF Bit(w, 22) = 1 THEN 1 ELSE 4, junk)),
    Rm(w), a)
LDR_LDRB(p, w, a, junk) ==
  LET v == arm_read(p, a, IF Bit(w, 22) = 1 THEN 1 ELSE 4, junk)
      x == IF Rd(w) = PC /\ Bit(w, 22) = 0 THEN And(v, Not(Small(1))) ELSE v
  IN  arm_write_register(arm_write_register(p, Rd(w), x), Rn(w), a)

STR_STRB(p, w, a) ==
  arm_write(p, a, IF Bit(w, 22) = 1 THEN 1 ELSE 4, arm_read_register(p, Rd(w)))

ShiftedOffset(p, w) ==
  LET rm == arm_read_register(p, Rm(w))
      n == ShiftImm(w)
  IN  CASE Shift(w) = 0 -> Lsl(rm, n)
        [] Shift(w) = 1 -> Lsr(rm, n)
        [] Shift(w) = 2 -> asr(rm, n)
        [] Shift(w) = 3 -> ror(rm, n)

arm_load_store(p, w, junk) ==
  LET register == Bit(w, 25) = 1
      a == Address(p, w, IF register THEN ShiftedOffset(p, w) ELSE Small(Low12(w)))
      q == STR_STRB(p, w, a)
  IN  IF Bit(w, 20) = 1 THEN LDR_LDRB(p, w, a, junk)
      ELSE IF ~register /\ WritesBack(w) THEN arm_write_register(q, Rn(w), a)
      ELSE q

(* arm_branch: without bit 25 (ldm and stm) it reports an undefined         *)
(* instruction that traitement_BR discards.  Mutation: no sign extension.   *)
BranchForward(p, w) ==
  LET pc == arm_read_register(p, PC)
      q == IF Bit(w, 24) = 1 THEN arm_write_register(p, 14, pc) ELSE p
  IN  arm_write_register(q, PC, Add(pc, Lsl(<<0, w[2], w[3], w[4]>>, 2)))
b_bl_instr(p, w) ==
  LET pc == arm_read_register(p, PC)
      sign == IF w[2] >= 128 THEN 63 ELSE 0
      q == IF Bit(w, 24) = 1 THEN arm_write_register(p, 14, pc) ELSE p
  IN  arm_write_register(q, PC, Add(pc, Lsl(<<sign, w[2], w[3], w[4]>>, 2)))

traitement_BR(p, w) == IF Bit(w, 25) = 1 THEN b_bl_instr(p, w) ELSE p
-----------------------------------------------------------------------------
select_execute_instruction(p, w, junk) ==
  CASE Typeop(w) = 0 -> IF Bit(w, 7) = 1 /\ Bit(w, 4) = 1
                        THEN arm_load_store_h(p, w, junk)
                        ELSE traitement_AR(p, w)
    [] Typeop(w) = 1 -> arm_load_store(p, w, junk)
    [] Typeop(w) = 2 -> traitement_BR(p, w)
    [] Typeop(w) = 3 -> p

(* arm_step: a failed condition returns 1, which is RESET, and a non-zero   *)
(* result raises that exception.  rc is the value arm_step returns.         *)
arm_step(p, junk) ==
  LET w == Fetched(p)
      q == arm_fetch(p)
  IN  IF check_cond_failed(read_cpsr(q), Cond(w))
      THEN [core |-> arm_exception(q, RESET), rc |-> RESET]
      ELSE [core |-> select_execute_instruction(q, w, junk), rc |-> 0]
=============================================================================
