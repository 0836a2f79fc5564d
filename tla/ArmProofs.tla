----------------------------- MODULE ArmProofs -----------------------------
(***************************************************************************)
(* Proofs about the operators of Words, ArmCore and ArmInstruction, for a  *)
(* memory of any size and every instruction word: what a step leaves in    *)
(* the processor and which part of it a step may change.                   *)
(***************************************************************************)
EXTENDS ArmInstruction, TLAPS

Binary == {0, 1}

(* Integers below 2^8 and 2^16.                                             *)
LEMMA Low == ASSUME NEW n \in Nat PROVE n % 256 \in 0..255
OBVIOUS

LEMMA Carry == ASSUME NEW n \in Nat PROVE n \div 256 \in Nat
OBVIOUS

LEMMA High == ASSUME NEW n \in Nat, n <= 65535 PROVE n \div 256 \in Nat /\ n \div 256 <= 255
OBVIOUS

LEMMA WordOfBytes ==
  ASSUME NEW a \in Byte, NEW b \in Byte, NEW c \in Byte, NEW d \in Byte
  PROVE  <<a, b, c, d>> \in Word
BY DEF Word

LEMMA BitIsBinary ==
  ASSUME NEW w \in Word, NEW i \in 0..31
  PROVE  Bit(w, i) \in Binary
<1>1. i \div 8 \in 0..3 /\ (i % 8) + 1 \in 1..8
      OBVIOUS
<1>2. w[4 - i \div 8] \in 0..255
      BY <1>1 DEF Word, Byte
<1>3. \A k \in 1..8 : Power[k] \in 1..128
      BY DEF Power
<1>4. \A x \in 0..255, y \in 1..128 : (x \div y) % 2 \in {0, 1}
      OBVIOUS
<1> DEFINE k == (i % 8) + 1
<1>5. k \in 1..8 /\ Bit(w, i) = (w[4 - i \div 8] \div Power[k]) % 2
      BY <1>1 DEF Bit
<1> HIDE DEF k
<1>6. Power[k] \in 1..128
      BY <1>3, <1>5
<1> QED BY <1>2, <1>4, <1>5, <1>6 DEF Binary

LEMMA OfBitsIsWord ==
  ASSUME NEW b \in [0..31 -> Binary]
  PROVE  OfBits(b) \in Word
<1>1. ASSUME NEW k \in {0, 8, 16, 24}
      PROVE  b[k] + 2 * b[k+1] + 4 * b[k+2] + 8 * b[k+3]
             + 16 * b[k+4] + 32 * b[k+5] + 64 * b[k+6] + 128 * b[k+7] \in Byte
  <2> DEFINE b0 == b[k]
             b1 == b[k+1]
             b2 == b[k+2]
             b3 == b[k+3]
             b4 == b[k+4]
             b5 == b[k+5]
             b6 == b[k+6]
             b7 == b[k+7]
  <2>1. /\ b0 \in 0..1 /\ b1 \in 0..1 /\ b2 \in 0..1 /\ b3 \in 0..1
        /\ b4 \in 0..1 /\ b5 \in 0..1 /\ b6 \in 0..1 /\ b7 \in 0..1
        BY DEF Binary
  <2> SUFFICES b0 + 2 * b1 + 4 * b2 + 8 * b3 + 16 * b4 + 32 * b5 + 64 * b6 + 128 * b7 \in Byte
      OBVIOUS
  <2> HIDE DEF b0, b1, b2, b3, b4, b5, b6, b7
  <2> QED BY <2>1 DEF Byte
<1> QED BY <1>1, WordOfBytes DEF OfBits

LEMMA BitwiseIsWord ==
  ASSUME NEW a \in Word, NEW b \in Word
  PROVE  And(a, b) \in Word /\ Or(a, b) \in Word /\ Xor(a, b) \in Word
<1>1. ASSUME NEW i \in 0..31
      PROVE  /\ Bit(a, i) * Bit(b, i) \in Binary
             /\ (IF Bit(a, i) + Bit(b, i) > 0 THEN 1 ELSE 0) \in Binary
             /\ (Bit(a, i) + Bit(b, i)) % 2 \in Binary
  <2>1. Bit(a, i) \in Binary /\ Bit(b, i) \in Binary
        BY BitIsBinary
  <2> QED BY <2>1 DEF Binary
<1> QED BY <1>1, OfBitsIsWord DEF And, Or, Xor

LEMMA ShiftsAreWords ==
  ASSUME NEW w \in Word, NEW n \in 0..31
  PROVE  Lsl(w, n) \in Word /\ Lsr(w, n) \in Word /\ asr(w, n) \in Word /\ ror(w, n) \in Word
<1>1. ASSUME NEW i \in 0..31
      PROVE  /\ (IF i >= n THEN Bit(w, i - n) ELSE 0) \in Binary
             /\ (IF i + n < 32 THEN Bit(w, i + n) ELSE 0) \in Binary
             /\ Bit(w, (i + n) % 32) \in Binary
  <2>1. /\ i >= n => i - n \in 0..31
        /\ i + n < 32 => i + n \in 0..31
        /\ (i + n) % 32 \in 0..31
        OBVIOUS
  <2> QED BY <2>1, BitIsBinary DEF Binary
<1>2. \A i \in 0..31 :
        (IF Bit(w, 31) = 1 /\ (n = 0 \/ i + n >= 32) THEN 1
         ELSE IF i + n < 32 THEN Bit(w, i + n) ELSE 0) \in Binary
      BY <1>1 DEF Binary
<1> QED BY <1>1, <1>2, OfBitsIsWord DEF Lsl, Lsr, asr, ror

LEMMA SmallIsWord ==
  ASSUME NEW n \in Nat, n <= 65535
  PROVE  Small(n) \in Word
<1>1. n \div 256 \in Byte /\ n % 256 \in Byte /\ 0 \in Byte
      BY High, Low DEF Byte
<1> QED BY <1>1, WordOfBytes DEF Small

LEMMA ArithmeticIsWord ==
  ASSUME NEW a \in Word, NEW b \in Word
  PROVE  Add(a, b) \in Word /\ Not(a) \in Word /\ Sub(a, b) \in Word
<1>1. \A x \in Word, y \in Word : Add(x, y) \in Word
  <2> SUFFICES ASSUME NEW x \in Word, NEW y \in Word PROVE Add(x, y) \in Word
      OBVIOUS
  <2>1. x[1] \in Nat /\ x[2] \in Nat /\ x[3] \in Nat /\ x[4] \in Nat
        BY DEF Word, Byte
  <2>2. y[1] \in Nat /\ y[2] \in Nat /\ y[3] \in Nat /\ y[4] \in Nat
        BY DEF Word, Byte
  <2>3. \A n \in Nat : n % 256 \in Byte
        BY Low DEF Byte
  <2> DEFINE s4 == x[4] + y[4]
             c4 == s4 \div 256
             s3 == x[3] + y[3] + c4
             c3 == s3 \div 256
             s2 == x[2] + y[2] + c3
             c2 == s2 \div 256
             s1 == x[1] + y[1] + c2
  <2>4. Add(x, y) = <<s1 % 256, s2 % 256, s3 % 256, s4 % 256>>
        BY DEF Add
  <2>5. s4 \in Nat
        BY <2>1, <2>2
  <2> HIDE DEF s4
  <2>6. c4 \in Nat
        BY <2>5, Carry
  <2> HIDE DEF c4
  <2>7. s3 \in Nat
        BY <2>1, <2>2, <2>6
  <2> HIDE DEF s3
  <2>8. c3 \in Nat
        BY <2>7, Carry
  <2> HIDE DEF c3
  <2>9. s2 \in Nat
        BY <2>1, <2>2, <2>8
  <2> HIDE DEF s2
  <2>10. c2 \in Nat
        BY <2>9, Carry
  <2> HIDE DEF c2
  <2>11. s1 \in Nat
        BY <2>1, <2>2, <2>10
  <2> HIDE DEF s1
  <2> QED BY <2>3, <2>4, <2>5, <2>7, <2>9, <2>11, WordOfBytes
<1>2. \A x \in Word : Not(x) \in Word
  <2> SUFFICES ASSUME NEW x \in Word PROVE Not(x) \in Word
      OBVIOUS
  <2>1. /\ 255 - x[1] \in Byte /\ 255 - x[2] \in Byte
        /\ 255 - x[3] \in Byte /\ 255 - x[4] \in Byte
        BY DEF Word, Byte
  <2> QED BY <2>1, WordOfBytes DEF Not
<1>3. Small(1) \in Word
      BY SmallIsWord, SMT
<1> QED BY <1>1, <1>2, <1>3 DEF Sub
-----------------------------------------------------------------------------
(* The fields of an instruction.                                            *)
LEMMA Fields ==
  ASSUME NEW w \in Word
  PROVE  /\ Rn(w) \in Registers /\ Rd(w) \in Registers /\ Rs(w) \in Registers
         /\ Rm(w) \in Registers /\ Typeop(w) \in 0..3 /\ Opcode(w) \in 0..15
         /\ Shift(w) \in 0..3 /\ ShiftImm(w) \in 0..31
         /\ Low12(w) \in Nat /\ Low12(w) <= 65535
<1>1. w[1] \in 0..255 /\ w[2] \in 0..255 /\ w[3] \in 0..255 /\ w[4] \in 0..255
      BY DEF Word, Byte
<1>2. \A b \in 0..255 :
        /\ b % 16 \in 0..15 /\ b \div 16 \in 0..15 /\ (b \div 4) % 4 \in 0..3
        /\ b % 2 \in 0..1 /\ b \div 32 \in 0..7 /\ (b \div 32) % 4 \in 0..3
        /\ b \div 128 \in 0..1
      BY SMT
<1>3. Rn(w) \in Registers /\ Rd(w) \in Registers /\ Rs(w) \in Registers /\ Rm(w) \in Registers
      BY <1>1, <1>2, SMT DEF Rn, Rd, Rs, Rm, Registers
<1>4. Typeop(w) \in 0..3 /\ Shift(w) \in 0..3
      BY <1>1, <1>2, SMT DEF Typeop, Shift
<1>5. \A a \in 0..1, b \in 0..7 : 8 * a + b \in 0..15
      BY SMT
<1>6. Opcode(w) \in 0..15
      BY <1>1, <1>2, <1>5, SMT DEF Opcode
<1>7. \A a \in 0..15, b \in 0..1 : 2 * a + b \in 0..31
      BY SMT
<1>8. ShiftImm(w) \in 0..31
      BY <1>1, <1>2, <1>7, SMT DEF ShiftImm, Rs
<1>9. Low12(w) \in Nat /\ Low12(w) <= 65535
  <2>1. w[4] \in Nat /\ w[4] <= 255 /\ w[3] % 16 \in Nat /\ w[3] % 16 <= 15
        BY <1>1, SMT
  <2> QED BY <2>1, SMT DEF Low12, Rs
<1> QED BY <1>3, <1>4, <1>6, <1>8, <1>9

LEMMA CoreParts ==
  ASSUME NEW p \in Core
  PROVE  /\ p.m \in [Cell -> Byte] /\ p.r \in [Registers -> Word]
         /\ \A i \in Registers : p.r[i] \in Word
         /\ PC \in Registers /\ 14 \in Registers
BY DEF Core, Registers, PC

(* A write of a register changes that register only.                        *)
LEMMA RegisterWritten ==
  ASSUME NEW p \in Core, NEW reg \in Registers, NEW w \in Word
  PROVE  /\ arm_write_register(p, reg, w) \in Core
         /\ arm_write_register(p, reg, w).m = p.m
         /\ \A i \in Registers \ {reg} : arm_write_register(p, reg, w).r[i] = p.r[i]
         /\ arm_write_register(p, reg, w).r[reg] = w
BY DEF Core, arm_write_register

LEMMA RegisterRead ==
  ASSUME NEW p \in Core, NEW reg \in Registers
  PROVE  arm_read_register(p, reg) \in Word
<1>1. p.r[PC] \in Word /\ p.r[reg] \in Word
      BY CoreParts
<1>2. Small(4) \in Word /\ Small(2) \in Word
      BY SmallIsWord, SMT
<1> QED BY <1>1, <1>2, ArithmeticIsWord, BitwiseIsWord DEF arm_read_register

LEMMA NumIsNat ==
  ASSUME NEW a \in Word
  PROVE  Num(a) \in Nat
<1>1. a[1] \in Nat /\ a[2] \in Nat /\ a[3] \in Nat /\ a[4] \in Nat
      BY DEF Word, Byte
<1>2. \A k \in Nat : 16777216 * k \in Nat /\ 65536 * k \in Nat /\ 256 * k \in Nat
      BY SMT
<1> QED BY <1>1, <1>2, SMT DEF Num

(* An accepted access stays inside the cells of the memory.                 *)
LEMMA AccessInside ==
  ASSUME NEW a \in Nat, NEW n \in Width, Accepts(a, n)
  PROVE  a .. a + n - 1 \subseteq Cell
<1>1. a \div 4 <= Size /\ (a % 4) + n <= 4 /\ Size \in Nat
      BY MemoryAssumption DEF Accepts
<1>2. a = 4 * (a \div 4) + (a % 4)
      OBVIOUS
<1>3. a + n - 1 <= 4 * Size + 3
      BY <1>1, <1>2 DEF Width
<1> QED BY <1>1, <1>3 DEF Cell, Width

LEMMA ExtendIsWord ==
  ASSUME NEW n \in Width, NEW v \in [1..n -> Byte]
  PROVE  Extend(v, n) \in Word
<1>1. ASSUME NEW k \in 1..4 PROVE (IF k > 4 - n THEN v[k - 4 + n] ELSE 0) \in Byte
  <2>1. k > 4 - n => k - 4 + n \in 1..n
        BY DEF Width
  <2> QED BY <2>1 DEF Byte
<1> QED BY <1>1 DEF Extend, Word

LEMMA TruncateIsTyped ==
  ASSUME NEW n \in Width, NEW w \in Word
  PROVE  Truncate(w, n) \in [1..n -> Byte]
<1>1. \A k \in 1..n : k + 4 - n \in 1..4
      BY DEF Width
<1> QED BY <1>1 DEF Truncate, Word

LEMMA LaneInside ==
  ASSUME NEW n \in Width, NEW k \in 1..n
  PROVE  Lane(n, k) \in 1..n
BY DEF Lane, Width

LEMMA ReadIsWord ==
  ASSUME NEW p \in Core, NEW a \in Word, NEW n \in Width, NEW junk \in Word
  PROVE  arm_read(p, a, n, junk) \in Word
<1>1. CASE Accessible(a, n)
  <2>1. Num(a) \in Nat /\ Accepts(Num(a), n)
        BY <1>1, NumIsNat DEF Accessible
  <2>2. Num(a) .. Num(a) + n - 1 \subseteq Cell
        BY <2>1, AccessInside
  <2>3. ASSUME NEW k \in 1..n PROVE p.m[Num(a) + Lane(n, k) - 1] \in Byte
    <3>1. Lane(n, k) \in 1..n
          BY LaneInside
    <3>2. Num(a) + Lane(n, k) - 1 \in Num(a) .. Num(a) + n - 1
          BY <2>1, <3>1 DEF Width
    <3> QED BY <2>2, <3>2, CoreParts
  <2>4. Load(p.m, Num(a), n) \in [1..n -> Byte]
        BY <2>3 DEF Load
  <2> QED BY <1>1, <2>4, ExtendIsWord DEF arm_read
<1>2. CASE ~Accessible(a, n)
      BY <1>2, TruncateIsTyped, ExtendIsWord DEF arm_read
<1> QED BY <1>1, <1>2

(* A write to the memory changes no register.                               *)
LEMMA MemoryWritten ==
  ASSUME NEW p \in Core, NEW a \in Word, NEW n \in Width, NEW w \in Word
  PROVE  arm_write(p, a, n, w) \in Core /\ arm_write(p, a, n, w).r = p.r
<1>1. ASSUME NEW v \in [1..n -> Byte], NEW b \in Nat PROVE Store(p.m, b, n, v) \in [Cell -> Byte]
  <2>1. ASSUME NEW c \in Cell, c \in b .. b + n - 1 PROVE v[Lane(n, c - b + 1)] \in Byte
    <3>1. c - b + 1 \in 1..n
          BY <2>1 DEF Width
    <3> QED BY <3>1, LaneInside
  <2>2. p.m \in [Cell -> Byte]
        BY CoreParts
  <2> QED BY <2>1, <2>2 DEF Store
<1>2. Store(p.m, Num(a), n, Truncate(w, n)) \in [Cell -> Byte]
      BY <1>1, NumIsNat, TruncateIsTyped
<1> QED BY <1>2 DEF arm_write, Core
-----------------------------------------------------------------------------
(* The shifter operand, whatever the encoding, is on 16 bits.               *)
Half16(n) == n \in Nat /\ n <= 65535

LEMMA ShiftsAreHalves ==
  ASSUME NEW rm \in Nat, rm <= 255, NEW n \in Nat
  PROVE  Half16(ShiftLeft(rm, n)) /\ Half16(ShiftRight(rm, n))
<1>1. \A k \in 1..16 : Power[k] \in Nat \ {0}
      BY SMT DEF Power
<1>2. \A x \in Nat : x % 65536 \in Nat /\ x % 65536 <= 65535
      BY SMT
<1>3. \A x \in Nat : rm * x \in Nat
      BY SMT
<1>4. \A x \in Nat \ {0} : rm \div x \in Nat /\ rm \div x <= rm
      BY SMT
<1>5. n < 16 => Power[n + 1] \in Nat \ {0}
      BY <1>1, SMT
<1>6. Half16(ShiftLeft(rm, n))
      BY <1>2, <1>3, <1>5, SMT DEF ShiftLeft, Half16
<1>7. n < 8 => rm \div Power[n + 1] \in Nat /\ rm \div Power[n + 1] <= rm
      BY <1>4, <1>5, SMT
<1>8. Half16(ShiftRight(rm, n))
      BY <1>7, SMT DEF ShiftRight, Half16
<1> QED BY <1>6, <1>8

LEMMA Low16IsHalf == ASSUME NEW w \in Word PROVE Half16(Low16(w))
<1>1. w[3] \in Nat /\ w[3] <= 255 /\ w[4] \in Nat /\ w[4] <= 255
      BY SMT DEF Word, Byte
<1> QED BY <1>1, SMT DEF Half16, Low16

LEMMA OperandIsHalf ==
  ASSUME NEW p \in Core, NEW w \in Word
  PROVE  Half16(update_shifter_operand(p, w))
<1>1. Rs(w) \in 0..15 /\ Rd(w) \in 0..15 /\ Rm(w) \in Registers
      BY Fields DEF Registers
<1>2. w[4] \in Nat /\ w[4] <= 65535
      BY SMT DEF Word, Byte
<1>3. Half16(Low16(ror(Small(w[4]), 2 * Rs(w))))
  <2>1. 2 * Rs(w) \in 0..31 /\ Small(w[4]) \in Word
        BY <1>1, <1>2, SmallIsWord, SMT
  <2> QED BY <2>1, ShiftsAreWords, Low16IsHalf
<1> DEFINE rm == arm_read_register(p, Rm(w))[4]
<1>4. rm \in Nat /\ rm <= 255
      BY <1>1, RegisterRead, SMT DEF Word, Byte
<1>5. update_shifter_operand(p, w) \in {Low16(ror(Small(w[4]), 2 * Rs(w))),
                                       ShiftByRegister(w, rm), ShiftByImmediate(w, rm)}
      BY DEF update_shifter_operand
<1> HIDE DEF rm
<1>6. Half16(rm) /\ Half16(0) /\ Half16(65535)
      BY <1>4, SMT DEF Half16
<1>7. Half16(ShiftByRegister(w, rm))
  <2> DEFINE rs7 == 16 * Rd(w) + Rs(w)
  <2>1. rs7 \in Nat /\ Rs(w) \in Nat /\ Shift(w) \in {0, 1, 2, 3}
        BY <1>1, Fields, SMT
  <2>2. ShiftByRegister(w, rm) \in {rm, ShiftLeft(rm, rs7), ShiftRight(rm, rs7), 65535,
                                    ShiftRight(rm, Rs(w))}
        BY <2>1, SMT DEF ShiftByRegister
  <2> HIDE DEF rs7
  <2> QED BY <1>4, <1>6, <2>1, <2>2, ShiftsAreHalves
<1>8. Half16(ShiftByImmediate(w, rm))
  <2> DEFINE n == ShiftImm(w)
  <2>1. n \in Nat /\ n \in 0..31 /\ Shift(w) \in {0, 1, 2, 3}
        BY Fields, SMT
  <2>2. ShiftByImmediate(w, rm) \in {ShiftLeft(rm, n), 0, ShiftRight(rm, n), Low12(w),
                                     Low16(ror(Small(rm), n))}
        BY <2>1, SMT DEF ShiftByImmediate
  <2>3. Half16(Low12(w))
        BY Fields DEF Half16
  <2>4. Small(rm) \in Word
        BY <1>4, <1>6, SmallIsWord DEF Half16
  <2> HIDE DEF n
  <2>5. Half16(Low16(ror(Small(rm), n)))
        BY <2>1, <2>4, ShiftsAreWords, Low16IsHalf
  <2> QED BY <1>4, <1>6, <2>1, <2>2, <2>3, <2>5, ShiftsAreHalves
<1> QED BY <1>3, <1>5, <1>7, <1>8
-----------------------------------------------------------------------------
(* The registers an instruction may write, and what it leaves.              *)
Named(w) == {Rd(w), Rn(w), 14, PC}
Keeps(p, q, w) == q \in Core /\ \A i \in Registers \ Named(w) : q.r[i] = p.r[i]

LEMMA NamedWritten ==
  ASSUME NEW w \in Word, NEW p \in Core, NEW q, Keeps(p, q, w), NEW i \in Named(w),
         NEW v \in Word
  PROVE  Keeps(p, arm_write_register(q, i, v), w) /\ arm_write_register(q, i, v).m = q.m
<1>1. i \in Registers
      BY Fields, CoreParts DEF Named
<1> QED BY <1>1, RegisterWritten DEF Keeps

LEMMA KeepsItself == ASSUME NEW w \in Word, NEW p \in Core PROVE Keeps(p, p, w)
BY DEF Keeps

LEMMA FlagsKeep ==
  ASSUME NEW w \in Word, NEW p \in Core, NEW q, Keeps(p, q, w)
  PROVE  Keeps(p, write_flags(q), w) /\ write_flags(q).m = q.m
<1>1. q.r[PC] \in Word /\ PC \in Named(w) /\ q \in Core
      BY CoreParts DEF Keeps, Named
<1>2. write_flags(q) = arm_write_register(q, PC, q.r[PC])
      BY DEF write_flags, write_cpsr, read_cpsr, arm_write_register
<1> QED BY <1>1, <1>2, NamedWritten

LEMMA DataValueIsWord ==
  ASSUME NEW op \in (0..15) \ (8..11), NEW a \in Word, NEW b \in Word, NEW c \in Binary
  PROVE  DataValue(op, a, b, c) \in Word
<1>1. Small(c) \in Word /\ Small(1 + c) \in Word
      BY SmallIsWord, SMT DEF Binary
<1>2. Not(b) \in Word /\ Add(a, b) \in Word /\ Sub(a, b) \in Word /\ Sub(b, a) \in Word
      BY ArithmeticIsWord
<1>3. /\ Add(Add(a, b), Small(c)) \in Word /\ Add(Sub(a, b), Small(1 + c)) \in Word
      /\ Add(Sub(b, a), Small(1 + c)) \in Word
      BY <1>1, <1>2, ArithmeticIsWord
<1>4. And(a, b) \in Word /\ Xor(a, b) \in Word /\ Or(a, b) \in Word /\ And(a, Not(b)) \in Word
      BY <1>2, BitwiseIsWord
<1>5. op \in {0, 1, 2, 3, 4, 5, 6, 7, 12, 13, 14, 15}
      BY SMT
<1> QED BY <1>1, <1>2, <1>3, <1>4, <1>5
        DEF DataValue, and_instr, xor_instr, sub_instr, rsb_instr, add_instr, adc_instr,
            sbc_instr, rsc_instr, orr_instr, bic_instr

LEMMA DataProcessingKeeps ==
  ASSUME NEW p \in Core, NEW w \in Word
  PROVE  Keeps(p, traitement_AR(p, w), w) /\ traitement_AR(p, w).m = p.m
<1>1. CASE Opcode(w) \in 8..11
      BY <1>1, KeepsItself, FlagsKeep DEF traitement_AR, compare_instr
<1>2. CASE Opcode(w) \notin 8..11
  <2> DEFINE v == DataValue(Opcode(w), arm_read_register(p, Rn(w)),
                            Small(update_shifter_operand(p, w)), Bit(read_cpsr(p), 29))
             q == arm_write_register(p, Rd(w), v)
  <2>1. Small(update_shifter_operand(p, w)) \in Word
        BY OperandIsHalf, SmallIsWord DEF Half16
  <2>2. Bit(read_cpsr(p), 29) \in Binary
        BY CoreParts, BitIsBinary, SMT DEF read_cpsr
  <2>3. v \in Word
    <3>1. Opcode(w) \in (0..15) \ (8..11) /\ Rn(w) \in Registers
          BY <1>2, Fields
    <3>2. arm_read_register(p, Rn(w)) \in Word
          BY <3>1, RegisterRead
    <3> QED BY <2>1, <2>2, <3>1, <3>2, DataValueIsWord
  <2>4. traitement_AR(p, w) = update_flags(q, Bit(w, 20), Rd(w))
        BY <1>2 DEF traitement_AR
  <2> HIDE DEF v
  <2>5. Keeps(p, q, w) /\ q.m = p.m
        BY <2>3, KeepsItself, NamedWritten DEF Named
  <2> HIDE DEF q
  <2> QED BY <2>4, <2>5, FlagsKeep DEF update_flags
<1> QED BY <1>1, <1>2
-----------------------------------------------------------------------------
LEMMA AddressIsWord ==
  ASSUME NEW p \in Core, NEW w \in Word, NEW offset \in Word
  PROVE  Address(p, w, offset) \in Word
<1>1. arm_read_register(p, Rn(w)) \in Word
      BY Fields, RegisterRead
<1> QED BY <1>1, ArithmeticIsWord DEF Address

(* A transfer keeps the registers it does not name; a load keeps the memory.*)
LEMMA HalfTransferKeeps ==
  ASSUME NEW p \in Core, NEW w \in Word, NEW junk \in Word
  PROVE  /\ Keeps(p, arm_load_store_h(p, w, junk), w)
         /\ Bit(w, 20) = 1 => arm_load_store_h(p, w, junk).m = p.m
<1> DEFINE offset == IF Bit(w, 22) = 1 THEN Small(16 * Rs(w) + Rm(w))
                     ELSE arm_read_register(p, Rm(w))
           a == Address(p, w, offset)
           q == IF Bit(w, 20) = 1
                THEN arm_write_register(p, Rd(w), arm_read(p, a, 2, junk))
                ELSE arm_write(p, a, 2, arm_read_register(p, Rd(w)))
<1>1. offset \in Word
  <2>1. 16 * Rs(w) + Rm(w) \in Nat /\ 16 * Rs(w) + Rm(w) <= 65535
        BY Fields, SMT DEF Registers
  <2>2. Small(16 * Rs(w) + Rm(w)) \in Word
        BY <2>1, SmallIsWord
  <2> QED BY <2>2, Fields, RegisterRead
<1>2. arm_load_store_h(p, w, junk) =
        IF WritesBack(w) THEN arm_write_register(q, Rn(w), a) ELSE q
      BY DEF arm_load_store_h
<1> HIDE DEF offset
<1>3. a \in Word
      BY <1>1, AddressIsWord
<1> HIDE DEF a
<1>4. Keeps(p, q, w) /\ (Bit(w, 20) = 1 => q.m = p.m)
  <2>1. CASE Bit(w, 20) = 1
    <3>1. arm_read(p, a, 2, junk) \in Word
          BY <1>3, ReadIsWord DEF Width
    <3> QED BY <2>1, <3>1, KeepsItself, NamedWritten DEF Named
  <2>2. CASE Bit(w, 20) # 1
    <3>1. arm_read_register(p, Rd(w)) \in Word
          BY Fields, RegisterRead
    <3> QED BY <1>3, <2>2, <3>1, MemoryWritten DEF Width, Keeps
  <2> QED BY <2>1, <2>2
<1> HIDE DEF q
<1>5. /\ Keeps(p, arm_write_register(q, Rn(w), a), w)
      /\ arm_write_register(q, Rn(w), a).m = q.m
      BY <1>3, <1>4, NamedWritten DEF Named
<1> QED BY <1>2, <1>4, <1>5

LEMMA ByteOrWord == ASSUME NEW w PROVE (IF Bit(w, 22) = 1 THEN 1 ELSE 4) \in Width
BY DEF Width

LEMMA LoadKeeps ==
  ASSUME NEW p \in Core, NEW w \in Word, NEW a \in Word, NEW junk \in Word
  PROVE  Keeps(p, LDR_LDRB(p, w, a, junk), w) /\ LDR_LDRB(p, w, a, junk).m = p.m
<1> DEFINE v == arm_read(p, a, IF Bit(w, 22) = 1 THEN 1 ELSE 4, junk)
           x == IF Rd(w) = PC /\ Bit(w, 22) = 0 THEN And(v, Not(Small(1))) ELSE v
           q == arm_write_register(p, Rd(w), x)
<1>1. v \in Word
      BY ByteOrWord, ReadIsWord
<1>2. LDR_LDRB(p, w, a, junk) = arm_write_register(q, Rn(w), a)
      BY DEF LDR_LDRB
<1> HIDE DEF v
<1>3. Not(Small(1)) \in Word
      BY SmallIsWord, ArithmeticIsWord, SMT
<1>4. x \in Word
      BY <1>1, <1>3, BitwiseIsWord
<1> HIDE DEF x
<1>5. Keeps(p, q, w) /\ q.m = p.m
      BY <1>4, KeepsItself, NamedWritten DEF Named
<1> HIDE DEF q
<1>6. /\ Keeps(p, arm_write_register(q, Rn(w), a), w)
      /\ arm_write_register(q, Rn(w), a).m = q.m
      BY <1>5, NamedWritten DEF Named
<1> QED BY <1>2, <1>5, <1>6

LEMMA StoreKeeps ==
  ASSUME NEW p \in Core, NEW w \in Word, NEW a \in Word
  PROVE  Keeps(p, STR_STRB(p, w, a), w)
<1>1. arm_read_register(p, Rd(w)) \in Word
      BY Fields, RegisterRead
<1> QED BY <1>1, ByteOrWord, MemoryWritten DEF STR_STRB, Keeps

LEMMA TransferKeeps ==
  ASSUME NEW p \in Core, NEW w \in Word, NEW junk \in Word
  PROVE  /\ Keeps(p, arm_load_store(p, w, junk), w)
         /\ Bit(w, 20) = 1 => arm_load_store(p, w, junk).m = p.m
<1> DEFINE offset == IF Bit(w, 25) = 1 THEN ShiftedOffset(p, w) ELSE Small(Low12(w))
           a == Address(p, w, offset)
           q == STR_STRB(p, w, a)
<1>1. offset \in Word
  <2>1. arm_read_register(p, Rm(w)) \in Word
        BY Fields, RegisterRead
  <2>2. Shift(w) \in {0, 1, 2, 3} /\ ShiftImm(w) \in 0..31
        BY Fields, SMT
  <2>3. ShiftedOffset(p, w) \in Word
        BY <2>1, <2>2, ShiftsAreWords DEF ShiftedOffset
  <2>4. Small(Low12(w)) \in Word
        BY Fields, SmallIsWord
  <2> QED BY <2>3, <2>4
<1>2. arm_load_store(p, w, junk) =
        IF Bit(w, 20) = 1 THEN LDR_LDRB(p, w, a, junk)
        ELSE IF Bit(w, 25) # 1 /\ WritesBack(w) THEN arm_write_register(q, Rn(w), a)
        ELSE q
      BY DEF arm_load_store
<1> HIDE DEF offset
<1>3. a \in Word
      BY <1>1, AddressIsWord
<1> HIDE DEF a
<1>4. Keeps(p, q, w)
      BY <1>3, StoreKeeps
<1> HIDE DEF q
<1>5. Keeps(p, arm_write_register(q, Rn(w), a), w)
      BY <1>3, <1>4, NamedWritten DEF Named
<1> QED BY <1>2, <1>3, <1>4, <1>5, LoadKeeps

LEMMA BranchKeeps ==
  ASSUME NEW p \in Core, NEW w \in Word
  PROVE  Keeps(p, traitement_BR(p, w), w) /\ traitement_BR(p, w).m = p.m
<1> DEFINE pc == arm_read_register(p, PC)
           sign == IF w[2] >= 128 THEN 63 ELSE 0
           q == IF Bit(w, 24) = 1 THEN arm_write_register(p, 14, pc) ELSE p
           target == Add(pc, Lsl(<<sign, w[2], w[3], w[4]>>, 2))
<1>1. b_bl_instr(p, w) = arm_write_register(q, PC, target)
      BY DEF b_bl_instr
<1>2. pc \in Word
      BY CoreParts, RegisterRead
<1>3. target \in Word
  <2>1. sign \in Byte /\ w[2] \in Byte /\ w[3] \in Byte /\ w[4] \in Byte
        BY DEF Word, Byte
  <2>2. <<sign, w[2], w[3], w[4]>> \in Word
        BY <2>1, WordOfBytes
  <2> HIDE DEF sign, pc
  <2>3. 2 \in 0..31
        OBVIOUS
  <2>4. Lsl(<<sign, w[2], w[3], w[4]>>, 2) \in Word
        BY <2>2, <2>3, ShiftsAreWords
  <2> QED BY <1>2, <2>4, ArithmeticIsWord
<1> HIDE DEF pc, target
<1>4. Keeps(p, q, w) /\ q.m = p.m
  <2>1. /\ Keeps(p, arm_write_register(p, 14, pc), w)
        /\ arm_write_register(p, 14, pc).m = p.m
        BY <1>2, KeepsItself, NamedWritten DEF Named
  <2> QED BY <2>1, KeepsItself
<1> HIDE DEF q
<1>5. /\ Keeps(p, arm_write_register(q, PC, target), w)
      /\ arm_write_register(q, PC, target).m = q.m
      BY <1>3, <1>4, NamedWritten DEF Named
<1> QED BY <1>1, <1>4, <1>5, KeepsItself DEF traitement_BR
-----------------------------------------------------------------------------
LEMMA FetchAddressIsWord == ASSUME NEW p \in Core PROVE FetchAddress(p) \in Word
<1>1. arm_read_register(p, PC) \in Word
      BY CoreParts, RegisterRead
<1>2. Small(4) \in Word
      BY SmallIsWord, SMT
<1> QED BY <1>1, <1>2, ArithmeticIsWord DEF FetchAddress

LEMMA FetchedIsWord == ASSUME NEW p \in Core PROVE Fetched(p) \in Word
<1>1. read_cpsr(p) \in Word
      BY CoreParts DEF read_cpsr
<1> QED BY <1>1, FetchAddressIsWord, ReadIsWord DEF Fetched, Width

(* The fetch changes the pc only.                                           *)
LEMMA FetchKeeps ==
  ASSUME NEW p \in Core
  PROVE  /\ arm_fetch(p) \in Core /\ arm_fetch(p).m = p.m
         /\ \A i \in Registers \ {PC} : arm_fetch(p).r[i] = p.r[i]
<1>1. FetchAddress(p) \in Word
      BY FetchAddressIsWord
<1>2. Add(FetchAddress(p), Small(4)) \in Word
      BY <1>1, SmallIsWord, ArithmeticIsWord, SMT
<1> QED BY <1>2, CoreParts, RegisterWritten DEF arm_fetch

(* An exception changes the pc only, and reset makes it 0.                  *)
LEMMA ExceptionKeeps ==
  ASSUME NEW p \in Core, NEW e
  PROVE  /\ arm_exception(p, e) \in Core /\ arm_exception(p, e).m = p.m
         /\ \A i \in Registers \ {PC} : arm_exception(p, e).r[i] = p.r[i]
         /\ e = RESET => arm_exception(p, e).r[PC] = Zero
<1> DEFINE q == write_cpsr(p, Small(467))
<1>1. Small(467) \in Word /\ Zero \in Word
      BY SmallIsWord, SMT DEF Zero
<1>2. q = arm_write_register(p, PC, Small(467))
      BY DEF write_cpsr, arm_write_register
<1>3. /\ q \in Core /\ q.m = p.m
      /\ \A i \in Registers \ {PC} : q.r[i] = p.r[i]
      BY <1>1, <1>2, CoreParts, RegisterWritten
<1>4. arm_exception(p, e) = IF e = RESET THEN arm_write_register(q, PC, Zero) ELSE p
      BY DEF arm_exception
<1> HIDE DEF q
<1>5. /\ arm_write_register(q, PC, Zero) \in Core
      /\ arm_write_register(q, PC, Zero).m = q.m
      /\ \A i \in Registers \ {PC} : arm_write_register(q, PC, Zero).r[i] = q.r[i]
      /\ arm_write_register(q, PC, Zero).r[PC] = Zero
      BY <1>1, <1>3, CoreParts, RegisterWritten
<1> QED BY <1>3, <1>4, <1>5

(* An instruction keeps the registers it does not name, and the memory but  *)
(* for a store.                                                             *)
IsTransfer(w) ==
  Typeop(w) = 1 \/ (Typeop(w) = 0 /\ Bit(w, 7) = 1 /\ Bit(w, 4) = 1)

LEMMA InstructionKeeps ==
  ASSUME NEW p \in Core, NEW w \in Word, NEW junk \in Word
  PROVE  /\ Keeps(p, select_execute_instruction(p, w, junk), w)
         /\ ~(IsTransfer(w) /\ Bit(w, 20) = 0) => select_execute_instruction(p, w, junk).m = p.m
<1>1. Typeop(w) \in {0, 1, 2, 3} /\ Bit(w, 20) \in {0, 1}
      BY Fields, BitIsBinary, SMT DEF Binary
<1> DEFINE q == select_execute_instruction(p, w, junk)
<1>2. CASE Typeop(w) = 0
  <2>1. q = IF Bit(w, 7) = 1 /\ Bit(w, 4) = 1 THEN arm_load_store_h(p, w, junk)
            ELSE traitement_AR(p, w)
        BY <1>2 DEF select_execute_instruction
  <2> QED BY <1>1, <1>2, <2>1, HalfTransferKeeps, DataProcessingKeeps DEF IsTransfer
<1>3. CASE Typeop(w) = 1
  <2>1. q = arm_load_store(p, w, junk)
        BY <1>3 DEF select_execute_instruction
  <2> QED BY <1>1, <1>3, <2>1, TransferKeeps DEF IsTransfer
<1>4. CASE Typeop(w) = 2
  <2>1. q = traitement_BR(p, w)
        BY <1>4 DEF select_execute_instruction
  <2> QED BY <2>1, BranchKeeps
<1>5. CASE Typeop(w) = 3
  <2>1. q = p
        BY <1>5 DEF select_execute_instruction
  <2> QED BY <2>1, KeepsItself
<1> QED BY <1>1, <1>2, <1>3, <1>4, <1>5

(* arm_step: the processor stays a processor, the registers the instruction *)
(* does not name and, but for a store that executes, the memory are kept.   *)
THEOREM StepKeeps ==
  ASSUME NEW p \in Core, NEW junk \in Word
  PROVE  LET w == Fetched(p)
             runs == ~check_cond_failed(read_cpsr(arm_fetch(p)), Cond(w))
             s == arm_step(p, junk)
         IN  /\ Keeps(p, s.core, w) /\ s.rc \in {0, RESET}
             /\ s.core.m # p.m => runs /\ IsTransfer(w) /\ Bit(w, 20) = 0
             /\ s.rc = RESET => /\ s.core.r[PC] = Zero /\ s.core.m = p.m
                                /\ \A i \in Registers \ {PC} : s.core.r[i] = p.r[i]
<1> DEFINE w == Fetched(p)
           f == arm_fetch(p)
           failed == check_cond_failed(read_cpsr(f), Cond(w))
<1>1. w \in Word
      BY FetchedIsWord
<1>2. f \in Core /\ f.m = p.m /\ \A i \in Registers \ {PC} : f.r[i] = p.r[i]
      BY FetchKeeps
<1>3. arm_step(p, junk) =
        IF failed THEN [core |-> arm_exception(f, RESET), rc |-> RESET]
        ELSE [core |-> select_execute_instruction(f, w, junk), rc |-> 0]
      BY DEF arm_step
<1> SUFFICES LET s == arm_step(p, junk)
             IN  /\ Keeps(p, s.core, w) /\ s.rc \in {0, RESET}
                 /\ s.core.m # p.m => ~failed /\ IsTransfer(w) /\ Bit(w, 20) = 0
                 /\ s.rc = RESET => /\ s.core.r[PC] = Zero /\ s.core.m = p.m
                                    /\ \A i \in Registers \ {PC} : s.core.r[i] = p.r[i]
    OBVIOUS
<1> HIDE DEF w, f, failed
<1>4. CASE failed
  <2>1. arm_step(p, junk).core = arm_exception(f, RESET) /\ arm_step(p, junk).rc = RESET
        BY <1>3, <1>4
  <2>2. /\ arm_exception(f, RESET) \in Core /\ arm_exception(f, RESET).m = p.m
        /\ \A i \in Registers \ {PC} : arm_exception(f, RESET).r[i] = p.r[i]
        /\ arm_exception(f, RESET).r[PC] = Zero
        BY <1>2, ExceptionKeeps
  <2> QED BY <1>4, <2>1, <2>2 DEF Keeps, Named
<1>5. CASE ~failed
  <2> DEFINE q == select_execute_instruction(f, w, junk)
  <2>1. arm_step(p, junk).core = q /\ arm_step(p, junk).rc = 0 /\ RESET # 0
        BY <1>3, <1>5 DEF RESET
  <2>2. Keeps(f, q, w) /\ (~(IsTransfer(w) /\ Bit(w, 20) = 0) => q.m = f.m)
        BY <1>1, <1>2, InstructionKeeps
  <2> HIDE DEF q
  <2>3. Keeps(p, q, w)
        BY <1>2, <2>2 DEF Keeps, Named
  <2> QED BY <1>2, <1>5, <2>1, <2>2, <2>3
<1> QED BY <1>4, <1>5
-----------------------------------------------------------------------------
(* A word and its bits determine each other; the bits of the results of the *)
(* bitwise operators, and the shift by two places of the branches.          *)
LEMMA WordIsTuple ==
  ASSUME NEW w \in Word
  PROVE  /\ w = <<w[1], w[2], w[3], w[4]>>
         /\ w[1] \in Byte /\ w[2] \in Byte /\ w[3] \in Byte /\ w[4] \in Byte
BY DEF Word

LEMMA BitsOfByte ==
  ASSUME NEW b0 \in 0..1, NEW b1 \in 0..1, NEW b2 \in 0..1, NEW b3 \in 0..1,
         NEW b4 \in 0..1, NEW b5 \in 0..1, NEW b6 \in 0..1, NEW b7 \in 0..1, NEW n,
         n = b0 + 2 * b1 + 4 * b2 + 8 * b3 + 16 * b4 + 32 * b5 + 64 * b6 + 128 * b7
  PROVE  /\ (n \div 1) % 2 = b0 /\ (n \div 2) % 2 = b1 /\ (n \div 4) % 2 = b2
         /\ (n \div 8) % 2 = b3 /\ (n \div 16) % 2 = b4 /\ (n \div 32) % 2 = b5
         /\ (n \div 64) % 2 = b6 /\ (n \div 128) % 2 = b7
BY SMT

LEMMA ByteOfBits ==
  ASSUME NEW n \in Byte
  PROVE  /\ n = ((n \div 1) % 2) + 2 * ((n \div 2) % 2) + 4 * ((n \div 4) % 2) + 8 * ((n \div 8) % 2)
                + 16 * ((n \div 16) % 2) + 32 * ((n \div 32) % 2) + 64 * ((n \div 64) % 2)
                + 128 * ((n \div 128) % 2)
BY SMT DEF Byte

LEMMA ComplementOfByte ==
  ASSUME NEW n \in Byte, NEW k \in {1, 2, 4, 8, 16, 32, 64, 128}
  PROVE  ((255 - n) \div k) % 2 = 1 - ((n \div k) % 2)
<1>1. n \in 0..255
      BY DEF Byte
<1>2. CASE k = 1
      BY <1>1, <1>2, SMT
<1>3. CASE k = 2
      BY <1>1, <1>3, SMT
<1>4. CASE k = 4
      BY <1>1, <1>4, SMT
<1>5. CASE k = 8
      BY <1>1, <1>5, SMT
<1>6. CASE k = 16
      BY <1>1, <1>6, SMT
<1>7. CASE k = 32
      BY <1>1, <1>7, SMT
<1>8. CASE k = 64
      BY <1>1, <1>8, SMT
<1>9. CASE k = 128
      BY <1>1, <1>9, SMT
<1> QED BY <1>2, <1>3, <1>4, <1>5, <1>6, <1>7, <1>8, <1>9

(* Bit i is in byte i \div 8 from the right, and 2^(i % 8) its weight there. *)
LEMMA PowerIs ==
  /\ Power[1] = 1 /\ Power[2] = 2 /\ Power[3] = 4 /\ Power[4] = 8
  /\ Power[5] = 16 /\ Power[6] = 32 /\ Power[7] = 64 /\ Power[8] = 128
BY SMT DEF Power

LEMMA BitPlace ==
  ASSUME NEW w, NEW q \in 0..3
  PROVE  /\ Bit(w, 8 * q) = (w[4 - q] \div 1) % 2
         /\ Bit(w, 8 * q + 1) = (w[4 - q] \div 2) % 2
         /\ Bit(w, 8 * q + 2) = (w[4 - q] \div 4) % 2
         /\ Bit(w, 8 * q + 3) = (w[4 - q] \div 8) % 2
         /\ Bit(w, 8 * q + 4) = (w[4 - q] \div 16) % 2
         /\ Bit(w, 8 * q + 5) = (w[4 - q] \div 32) % 2
         /\ Bit(w, 8 * q + 6) = (w[4 - q] \div 64) % 2
         /\ Bit(w, 8 * q + 7) = (w[4 - q] \div 128) % 2
<1>1. ASSUME NEW j \in 0..7
      PROVE  Bit(w, 8 * q + j) = (w[4 - q] \div Power[j + 1]) % 2
  <2>1. (8 * q + j) \div 8 = q /\ (8 * q + j) % 8 = j
        OBVIOUS
  <2> QED BY <2>1 DEF Bit
<1>2. /\ 8 * q = 8 * q + 0 /\ 0 + 1 = 1 /\ 1 + 1 = 2 /\ 2 + 1 = 3 /\ 3 + 1 = 4
      /\ 4 + 1 = 5 /\ 5 + 1 = 6 /\ 6 + 1 = 7 /\ 7 + 1 = 8
      OBVIOUS
<1> QED BY <1>1, <1>2, PowerIs, SMT

LEMMA OfBitsInverse ==
  ASSUME NEW b \in [0..31 -> Binary], NEW i \in 0..31
  PROVE  Bit(OfBits(b), i) = b[i]
<1>1. ASSUME NEW q \in 0..3
      PROVE  LET k == 8 * q
                 n == OfBits(b)[4 - q]
             IN  n = b[k] + 2 * b[k+1] + 4 * b[k+2] + 8 * b[k+3]
                     + 16 * b[k+4] + 32 * b[k+5] + 64 * b[k+6] + 128 * b[k+7]
  <2>1. CASE q = 0
        BY <2>1 DEF OfBits
  <2>2. CASE q = 1
        BY <2>2 DEF OfBits
  <2>3. CASE q = 2
        BY <2>3 DEF OfBits
  <2>4. CASE q = 3
        BY <2>4 DEF OfBits
  <2> QED BY <2>1, <2>2, <2>3, <2>4
<1>2. ASSUME NEW q \in 0..3, NEW j \in 0..7
      PROVE  Bit(OfBits(b), 8 * q + j) = b[8 * q + j]
  <2> DEFINE n == OfBits(b)[4 - q]
             b0 == b[8 * q]
             b1 == b[8 * q + 1]
             b2 == b[8 * q + 2]
             b3 == b[8 * q + 3]
             b4 == b[8 * q + 4]
             b5 == b[8 * q + 5]
             b6 == b[8 * q + 6]
             b7 == b[8 * q + 7]
  <2>1. /\ b0 \in 0..1 /\ b1 \in 0..1 /\ b2 \in 0..1 /\ b3 \in 0..1
        /\ b4 \in 0..1 /\ b5 \in 0..1 /\ b6 \in 0..1 /\ b7 \in 0..1
        BY DEF Binary
  <2>2. n = b0 + 2 * b1 + 4 * b2 + 8 * b3 + 16 * b4 + 32 * b5 + 64 * b6 + 128 * b7
        BY <1>1
  <2>3. /\ Bit(OfBits(b), 8 * q) = (n \div 1) % 2
        /\ Bit(OfBits(b), 8 * q + 1) = (n \div 2) % 2
        /\ Bit(OfBits(b), 8 * q + 2) = (n \div 4) % 2
        /\ Bit(OfBits(b), 8 * q + 3) = (n \div 8) % 2
        /\ Bit(OfBits(b), 8 * q + 4) = (n \div 16) % 2
        /\ Bit(OfBits(b), 8 * q + 5) = (n \div 32) % 2
        /\ Bit(OfBits(b), 8 * q + 6) = (n \div 64) % 2
        /\ Bit(OfBits(b), 8 * q + 7) = (n \div 128) % 2
        BY BitPlace
  <2> HIDE DEF n, b0, b1, b2, b3, b4, b5, b6, b7
  <2>4. /\ (n \div 1) % 2 = b0 /\ (n \div 2) % 2 = b1 /\ (n \div 4) % 2 = b2
        /\ (n \div 8) % 2 = b3 /\ (n \div 16) % 2 = b4 /\ (n \div 32) % 2 = b5
        /\ (n \div 64) % 2 = b6 /\ (n \div 128) % 2 = b7
        BY <2>1, <2>2, BitsOfByte
  <2>5. j \in {0, 1, 2, 3, 4, 5, 6, 7} /\ 8 * q + 0 = 8 * q
        OBVIOUS
  <2> QED BY <2>3, <2>4, <2>5 DEF b0, b1, b2, b3, b4, b5, b6, b7
<1>3. i \div 8 \in 0..3 /\ i % 8 \in 0..7 /\ i = 8 * (i \div 8) + (i % 8)
      OBVIOUS
<1> QED BY <1>2, <1>3, Zenon

(* A word is its bits.                                                      *)
LEMMA WordIsBits ==
  ASSUME NEW w \in Word
  PROVE  OfBits([i \in 0..31 |-> Bit(w, i)]) = w
<1> DEFINE b == [i \in 0..31 |-> Bit(w, i)]
<1>1. ASSUME NEW q \in 0..3
      PROVE  LET k == 8 * q
             IN  b[k] + 2 * b[k+1] + 4 * b[k+2] + 8 * b[k+3]
                 + 16 * b[k+4] + 32 * b[k+5] + 64 * b[k+6] + 128 * b[k+7] = w[4 - q]
  <2> DEFINE k == 8 * q
  <2>1. 4 - q \in 1..4
        OBVIOUS
  <2>2. w[4 - q] \in Byte
        BY <2>1 DEF Word
  <2>3. /\ b[k] = Bit(w, 8 * q) /\ b[k + 1] = Bit(w, 8 * q + 1) /\ b[k + 2] = Bit(w, 8 * q + 2)
        /\ b[k + 3] = Bit(w, 8 * q + 3) /\ b[k + 4] = Bit(w, 8 * q + 4)
        /\ b[k + 5] = Bit(w, 8 * q + 5) /\ b[k + 6] = Bit(w, 8 * q + 6)
        /\ b[k + 7] = Bit(w, 8 * q + 7)
        OBVIOUS
  <2> DEFINE n == w[4 - q]
  <2>4. n = ((n \div 1) % 2) + 2 * ((n \div 2) % 2) + 4 * ((n \div 4) % 2) + 8 * ((n \div 8) % 2)
            + 16 * ((n \div 16) % 2) + 32 * ((n \div 32) % 2) + 64 * ((n \div 64) % 2)
            + 128 * ((n \div 128) % 2)
        BY <2>2, ByteOfBits
  <2>5. /\ b[k] = (n \div 1) % 2 /\ b[k+1] = (n \div 2) % 2 /\ b[k+2] = (n \div 4) % 2
        /\ b[k+3] = (n \div 8) % 2 /\ b[k+4] = (n \div 16) % 2 /\ b[k+5] = (n \div 32) % 2
        /\ b[k+6] = (n \div 64) % 2 /\ b[k+7] = (n \div 128) % 2
        BY <2>3, BitPlace
  <2> HIDE DEF n, k, b
  <2>6. b[k] + 2 * b[k+1] + 4 * b[k+2] + 8 * b[k+3]
        + 16 * b[k+4] + 32 * b[k+5] + 64 * b[k+6] + 128 * b[k+7] = n
        BY <2>4, <2>5
  <2> QED BY <2>6 DEF n, k
<1> HIDE DEF b
<1>2. OfBits(b) = <<w[1], w[2], w[3], w[4]>>
  <2> DEFINE byte(k) == b[k] + 2 * b[k+1] + 4 * b[k+2] + 8 * b[k+3]
                        + 16 * b[k+4] + 32 * b[k+5] + 64 * b[k+6] + 128 * b[k+7]
  <2>1. \A q \in 0..3 : byte(8 * q) = w[4 - q]
        BY <1>1
  <2>2. OfBits(b) = <<byte(24), byte(16), byte(8), byte(0)>>
        BY DEF OfBits
  <2> HIDE DEF byte
  <2>3. byte(8 * 0) = w[4 - 0] /\ byte(8 * 1) = w[4 - 1] /\ byte(8 * 2) = w[4 - 2]
        /\ byte(8 * 3) = w[4 - 3]
        BY <2>1
  <2>4. /\ 8 * 0 = 0 /\ 8 * 1 = 8 /\ 8 * 2 = 16 /\ 8 * 3 = 24
        /\ 4 - 0 = 4 /\ 4 - 1 = 3 /\ 4 - 2 = 2 /\ 4 - 3 = 1
        OBVIOUS
  <2> QED BY <2>2, <2>3, <2>4
<1> QED BY <1>2, WordIsTuple DEF b

(* The bits of the results of the bitwise operators.                        *)
LEMMA BitwiseBits ==
  ASSUME NEW a \in Word, NEW b \in Word, NEW i \in 0..31
  PROVE  /\ Bit(And(a, b), i) = Bit(a, i) * Bit(b, i)
         /\ Bit(Or(a, b), i) = IF Bit(a, i) + Bit(b, i) > 0 THEN 1 ELSE 0
         /\ Bit(Xor(a, b), i) = (Bit(a, i) + Bit(b, i)) % 2
<1>1. \A k \in 0..31 : Bit(a, k) \in Binary /\ Bit(b, k) \in Binary
      BY BitIsBinary
<1> DEFINE x == [k \in 0..31 |-> Bit(a, k) * Bit(b, k)]
           y == [k \in 0..31 |-> IF Bit(a, k) + Bit(b, k) > 0 THEN 1 ELSE 0]
           z == [k \in 0..31 |-> (Bit(a, k) + Bit(b, k)) % 2]
<1>2. \A p \in Binary, q \in Binary :
        p * q \in Binary /\ (IF p + q > 0 THEN 1 ELSE 0) \in Binary /\ (p + q) % 2 \in Binary
      BY DEF Binary
<1>3. x \in [0..31 -> Binary] /\ y \in [0..31 -> Binary] /\ z \in [0..31 -> Binary]
      BY <1>1, <1>2
<1>4. And(a, b) = OfBits(x) /\ Or(a, b) = OfBits(y) /\ Xor(a, b) = OfBits(z)
      BY DEF And, Or, Xor
<1> HIDE DEF x, y, z
<1>5. Bit(And(a, b), i) = x[i] /\ Bit(Or(a, b), i) = y[i] /\ Bit(Xor(a, b), i) = z[i]
      BY <1>3, <1>4, OfBitsInverse
<1> QED BY <1>5 DEF x, y, z

LEMMA NotBits ==
  ASSUME NEW w \in Word, NEW i \in 0..31
  PROVE  Bit(Not(w), i) = 1 - Bit(w, i)
<1> DEFINE q == i \div 8
           k == Power[(i % 8) + 1]
<1>1. q \in 0..3 /\ (i % 8) + 1 \in {1, 2, 3, 4, 5, 6, 7, 8} /\ 4 - q \in {1, 2, 3, 4}
      OBVIOUS
<1>2. k \in {1, 2, 4, 8, 16, 32, 64, 128}
      BY <1>1, PowerIs
<1>3. w[4 - q] \in Byte /\ Not(w)[4 - q] = 255 - w[4 - q]
      BY <1>1, WordIsTuple DEF Not
<1>4. Bit(Not(w), i) = (Not(w)[4 - q] \div k) % 2 /\ Bit(w, i) = (w[4 - q] \div k) % 2
      BY DEF Bit
<1> DEFINE n == w[4 - q]
<1>5. n \in Byte /\ Bit(Not(w), i) = ((255 - n) \div k) % 2 /\ Bit(w, i) = (n \div k) % 2
      BY <1>3, <1>4
<1> HIDE DEF q, k, n
<1>6. ((255 - n) \div k) % 2 = 1 - ((n \div k) % 2)
      BY <1>2, <1>5, ComplementOfByte
<1> QED BY <1>5, <1>6

(* The pc read by an instruction: bit 1 is clear already.                   *)
LEMMA MaskIsIdentity ==
  ASSUME NEW w \in Word, Bit(w, 1) = 0
  PROVE  And(w, Not(Small(2))) = w
<1>1. Small(2) = <<0, 0, 0, 2>> /\ Small(2) \in Word
      BY SmallIsWord, SMT DEF Small
<1>2. Not(Small(2)) = <<255, 255, 255, 253>>
      BY <1>1 DEF Not
<1>3. ASSUME NEW i \in 0..31, i # 1 PROVE Bit(Not(Small(2)), i) = 1
  <2> DEFINE q == i \div 8
             j == (i % 8) + 1
  <2>1. q \in {0, 1, 2, 3} /\ j \in {1, 2, 3, 4, 5, 6, 7, 8} /\ ~(q = 0 /\ j = 2)
        BY <1>3
  <2>2. Bit(Not(Small(2)), i) = (Not(Small(2))[4 - q] \div Power[j]) % 2
        BY DEF Bit
  <2> HIDE DEF q, j
  <2>3. \A n \in {1, 2, 4, 8, 16, 32, 64, 128} : (255 \div n) % 2 = 1
        BY SMT
  <2>4. \A n \in {1, 4, 8, 16, 32, 64, 128} : (253 \div n) % 2 = 1
        BY SMT
  <2>5. Power[j] \in {1, 2, 4, 8, 16, 32, 64, 128} /\ (j # 2 => Power[j] \in {1, 4, 8, 16, 32, 64, 128})
        BY <2>1, PowerIs
  <2>6. CASE q = 0
    <3>1. Not(Small(2))[4 - q] = 253 /\ j # 2
          BY <1>2, <2>1, <2>6
    <3> QED BY <2>2, <2>4, <2>5, <3>1
  <2>7. CASE q # 0
    <3>1. Not(Small(2))[4 - q] = 255
          BY <1>2, <2>1, <2>7
    <3> QED BY <2>2, <2>3, <2>5, <3>1
  <2> QED BY <2>6, <2>7
<1>4. ASSUME NEW i \in 0..31 PROVE Bit(w, i) * Bit(Not(Small(2)), i) = Bit(w, i)
  <2>1. Bit(w, i) \in {0, 1} /\ Bit(Not(Small(2)), i) \in {0, 1}
        BY <1>1, BitIsBinary, ArithmeticIsWord DEF Binary
  <2>2. CASE i = 1
        BY <2>1, <2>2
  <2>3. CASE i # 1
        BY <1>3, <2>1, <2>3
  <2> QED BY <2>2, <2>3
<1>5. [i \in 0..31 |-> Bit(w, i) * Bit(Not(Small(2)), i)] = [i \in 0..31 |-> Bit(w, i)]
      BY <1>4
<1> QED BY <1>5, WordIsBits DEF And

LEMMA NoRotation == ASSUME NEW w \in Word PROVE ror(w, 0) = w
<1>1. \A i \in 0..31 : (i + 0) % 32 = i
      OBVIOUS
<1>2. [i \in 0..31 |-> Bit(w, (i + 0) % 32)] = [i \in 0..31 |-> Bit(w, i)]
      BY <1>1
<1> QED BY <1>2, WordIsBits DEF ror

(* Lsl by 2: a byte of the result has six bits of n and two of the next, m. *)
LEMMA ShiftedByte ==
  ASSUME NEW n \in Byte, NEW m \in Byte,
         NEW f0, f0 = (m \div 64) % 2, NEW f1, f1 = (m \div 128) % 2,
         NEW f2, f2 = (n \div 1) % 2, NEW f3, f3 = (n \div 2) % 2,
         NEW f4, f4 = (n \div 4) % 2, NEW f5, f5 = (n \div 8) % 2,
         NEW f6, f6 = (n \div 16) % 2, NEW f7, f7 = (n \div 32) % 2
  PROVE  f0 + 2 * f1 + 4 * f2 + 8 * f3 + 16 * f4 + 32 * f5 + 64 * f6 + 128 * f7
         = 4 * (n % 64) + m \div 64
<1>1. n \in 0..255 /\ m \in 0..255
      BY DEF Byte
<1>2. f0 + 2 * f1 = m \div 64 /\ f0 \in 0..1 /\ f1 \in 0..1
      BY <1>1, SMT
<1>3. /\ f2 \in 0..1 /\ f3 \in 0..1 /\ f4 \in 0..1
      /\ f5 \in 0..1 /\ f6 \in 0..1 /\ f7 \in 0..1
      BY <1>1, SMT
<1>4. f2 + 2 * f3 + 4 * f4 + 8 * f5 + 16 * f6 + 32 * f7 = n % 64
      BY <1>1, SMT
<1>5. n % 64 \in Nat /\ m \div 64 \in Nat
      BY <1>1, SMT
<1> QED BY <1>2, <1>3, <1>4, <1>5

LEMMA ShiftBy2 ==
  ASSUME NEW s \in Byte, NEW a \in Byte, NEW b \in Byte, NEW c \in Byte
  PROVE  Lsl(<<s, a, b, c>>, 2) = <<4 * (s % 64) + a \div 64, 4 * (a % 64) + b \div 64,
                                    4 * (b % 64) + c \div 64, 4 * (c % 64)>>
<1> DEFINE w == <<s, a, b, c>>
           f == [i \in 0..31 |-> IF i >= 2 THEN Bit(w, i - 2) ELSE 0]
<1>1. w \in Word /\ w[1] = s /\ w[2] = a /\ w[3] = b /\ w[4] = c
      BY WordOfBytes
<1>2. Lsl(w, 2) = OfBits(f)
      BY DEF Lsl
<1> HIDE DEF w
<1>3. f[0] = 0 /\ f[1] = 0 /\ \A i \in 2..31 : f[i] = Bit(w, i - 2)
      BY SMT
<1> HIDE DEF f
<1>4. ASSUME NEW q \in 0..3
      PROVE  LET n == w[4 - q]
             IN  /\ f[8 * q + 2] = (n \div 1) % 2 /\ f[8 * q + 3] = (n \div 2) % 2
                 /\ f[8 * q + 4] = (n \div 4) % 2 /\ f[8 * q + 5] = (n \div 8) % 2
                 /\ f[8 * q + 6] = (n \div 16) % 2 /\ f[8 * q + 7] = (n \div 32) % 2
                 /\ q # 3 => /\ f[8 * q + 8] = (n \div 64) % 2
                             /\ f[8 * q + 9] = (n \div 128) % 2
  <2>1. /\ 8 * q + 2 \in 2..31 /\ 8 * q + 3 \in 2..31 /\ 8 * q + 4 \in 2..31
        /\ 8 * q + 5 \in 2..31 /\ 8 * q + 6 \in 2..31 /\ 8 * q + 7 \in 2..31
        /\ q # 3 => 8 * q + 8 \in 2..31 /\ 8 * q + 9 \in 2..31
        OBVIOUS
  <2>2. /\ f[8 * q + 2] = Bit(w, 8 * q) /\ f[8 * q + 3] = Bit(w, 8 * q + 1)
        /\ f[8 * q + 4] = Bit(w, 8 * q + 2) /\ f[8 * q + 5] = Bit(w, 8 * q + 3)
        /\ f[8 * q + 6] = Bit(w, 8 * q + 4) /\ f[8 * q + 7] = Bit(w, 8 * q + 5)
        /\ q # 3 => /\ f[8 * q + 8] = Bit(w, 8 * q + 6)
                    /\ f[8 * q + 9] = Bit(w, 8 * q + 7)
        BY <1>3, <2>1
  <2> QED BY <2>2, BitPlace
<1> DEFINE byte(k) == f[k] + 2 * f[k+1] + 4 * f[k+2] + 8 * f[k+3]
                      + 16 * f[k+4] + 32 * f[k+5] + 64 * f[k+6] + 128 * f[k+7]
<1>6. OfBits(f) = <<byte(24), byte(16), byte(8), byte(0)>>
      BY DEF OfBits
<1>7. byte(0) = 4 * (c % 64)
  <2>1. /\ f[2] = (c \div 1) % 2 /\ f[3] = (c \div 2) % 2 /\ f[4] = (c \div 4) % 2
        /\ f[5] = (c \div 8) % 2 /\ f[6] = (c \div 16) % 2 /\ f[7] = (c \div 32) % 2
        BY <1>1, <1>4, SMT
  <2>2. 0 \in Byte /\ f[0] = (0 \div 64) % 2 /\ f[1] = (0 \div 128) % 2
        BY <1>3, SMT DEF Byte
  <2>3. f[0] + 2 * f[1] + 4 * f[2] + 8 * f[3] + 16 * f[4] + 32 * f[5] + 64 * f[6] + 128 * f[7]
        = 4 * (c % 64) + 0 \div 64
        BY <2>1, <2>2, ShiftedByte
  <2>4. 0 \div 64 = 0 /\ c % 64 \in Nat
        BY SMT DEF Byte
  <2> QED BY <2>3, <2>4
<1>8. byte(8) = 4 * (b % 64) + c \div 64
  <2>1. /\ f[10] = (b \div 1) % 2 /\ f[11] = (b \div 2) % 2 /\ f[12] = (b \div 4) % 2
        /\ f[13] = (b \div 8) % 2 /\ f[14] = (b \div 16) % 2 /\ f[15] = (b \div 32) % 2
        /\ f[8] = (c \div 64) % 2 /\ f[9] = (c \div 128) % 2
        BY <1>1, <1>4, SMT
  <2>2. f[8] + 2 * f[9] + 4 * f[10] + 8 * f[11] + 16 * f[12] + 32 * f[13] + 64 * f[14] + 128 * f[15]
        = 4 * (b % 64) + c \div 64
        BY <2>1, ShiftedByte
  <2> QED BY <2>2
<1>9. byte(16) = 4 * (a % 64) + b \div 64
  <2>1. /\ f[18] = (a \div 1) % 2 /\ f[19] = (a \div 2) % 2 /\ f[20] = (a \div 4) % 2
        /\ f[21] = (a \div 8) % 2 /\ f[22] = (a \div 16) % 2 /\ f[23] = (a \div 32) % 2
        /\ f[16] = (b \div 64) % 2 /\ f[17] = (b \div 128) % 2
        BY <1>1, <1>4, SMT
  <2>2. f[16] + 2 * f[17] + 4 * f[18] + 8 * f[19] + 16 * f[20] + 32 * f[21] + 64 * f[22] + 128 * f[23]
        = 4 * (a % 64) + b \div 64
        BY <2>1, ShiftedByte
  <2> QED BY <2>2
<1>10. byte(24) = 4 * (s % 64) + a \div 64
  <2>1. /\ f[26] = (s \div 1) % 2 /\ f[27] = (s \div 2) % 2 /\ f[28] = (s \div 4) % 2
        /\ f[29] = (s \div 8) % 2 /\ f[30] = (s \div 16) % 2 /\ f[31] = (s \div 32) % 2
        /\ f[24] = (a \div 64) % 2 /\ f[25] = (a \div 128) % 2
        BY <1>1, <1>4, SMT
  <2>2. f[24] + 2 * f[25] + 4 * f[26] + 8 * f[27] + 16 * f[28] + 32 * f[29] + 64 * f[30] + 128 * f[31]
        = 4 * (s % 64) + a \div 64
        BY <2>1, ShiftedByte
  <2> QED BY <2>2
<1> HIDE DEF byte
<1> QED BY <1>2, <1>6, <1>7, <1>8, <1>9, <1>10 DEF w

LEMMA ImmediateOperand ==
  ASSUME NEW p, NEW w \in Word, Bit(w, 25) = 1, Rs(w) = 0
  PROVE  update_shifter_operand(p, w) = w[4]
<1>1. w[4] \in Nat /\ w[4] <= 255
      BY SMT DEF Word, Byte
<1>2. Small(w[4]) \in Word
      BY <1>1, SmallIsWord, SMT
<1>3. update_shifter_operand(p, w) = Low16(ror(Small(w[4]), 0))
  <2>1. 2 * 0 = 0
        OBVIOUS
  <2> QED BY <2>1 DEF update_shifter_operand
<1>4. Low16(Small(w[4])) = 256 * (w[4] \div 256) + (w[4] % 256)
      BY DEF Low16, Small
<1> QED BY <1>1, <1>2, <1>3, <1>4, NoRotation, SMT

(* update_flags writes back the CPSR it has read.                           *)
LEMMA FlagsUnchanged ==
  ASSUME NEW p \in Core, NEW rdest, NEW s
  PROVE  update_flags(p, rdest, s) = p
<1>1. p.r \in [Registers -> Word] /\ PC \in Registers
      BY CoreParts
<1>2. [p.r EXCEPT ![PC] = p.r[PC]] = p.r
      BY <1>1
<1>3. write_flags(p) = [p EXCEPT !.r = [p.r EXCEPT ![PC] = p.r[PC]]]
      BY DEF write_flags, write_cpsr, read_cpsr
<1>4. write_flags(p) = p
      BY <1>2, <1>3 DEF Core
<1> QED BY <1>4 DEF update_flags
=============================================================================
