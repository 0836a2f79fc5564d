--------------------------- MODULE MachineProofs ---------------------------
(***************************************************************************)
(* Proofs about Machine: whatever is loaded in a memory of any size, and   *)
(* whatever uninitialised variables hold, for any number of steps.         *)
(***************************************************************************)
EXTENDS Machine, ArmProofs

LEMMA TypedStep == TypeOK /\ [Next]_vars => TypeOK'
<1> SUFFICES ASSUME TypeOK, [Next]_vars PROVE TypeOK'
    OBVIOUS
<1>1. CASE Step
  <2>1. PICK junk \in Junk : core' = arm_step(core, junk).core /\ rc' = arm_step(core, junk).rc
        BY <1>1 DEF Step
  <2>2. junk \in Word /\ core \in Core
        BY MachineAssumption DEF TypeOK
  <2>3. core' \in Core /\ rc' \in {0, RESET}
        BY <2>1, <2>2, StepKeeps DEF Keeps
  <2>4. cycles' \in 0..MaxCycles
        BY <1>1, MachineAssumption DEF Step, TypeOK
  <2> QED BY <2>3, <2>4 DEF TypeOK
<1>2. CASE Exception
      BY <1>2, ExceptionKeeps DEF Exception, TypeOK
<1>3. CASE UNCHANGED vars
      BY <1>3 DEF vars, TypeOK
<1> QED BY <1>1, <1>2, <1>3 DEF Next

(* The registers stay words, the memory bytes, and arm_step returns 0 or    *)
(* RESET, the exception a failed condition is taken for.                    *)
THEOREM MachineTypeCorrect == Spec => []TypeOK
<1>1. Init => TypeOK
      BY MachineAssumption DEF Init, TypeOK
<1> QED BY <1>1, TypedStep, PTL DEF Spec

(* What a step keeps, in terms of the variables.                            *)
LEMMA StepFacts ==
  ASSUME TypeOK, Step
  PROVE  /\ Unchanged(Registers \ {Rd(Instruction), Rn(Instruction), 14, PC})
         /\ core'.m # core.m =>
              Runs /\ Transfer(Instruction) /\ Bit(Instruction, 20) = 0
         /\ rc' = RESET => core'.r[PC] = Zero /\ Unchanged(0..14) /\ core'.m = core.m
<1>1. PICK junk \in Junk : core' = arm_step(core, junk).core /\ rc' = arm_step(core, junk).rc
      BY DEF Step
<1>2. junk \in Word /\ core \in Core
      BY MachineAssumption DEF TypeOK
<1>3. 0..14 \subseteq Registers \ {PC}
      BY SMT DEF Registers, PC
<1>4. /\ Keeps(core, core', Instruction)
      /\ core'.m # core.m =>
           Runs /\ IsTransfer(Instruction) /\ Bit(Instruction, 20) = 0
      /\ rc' = RESET => /\ core'.r[PC] = Zero /\ core'.m = core.m
                        /\ \A i \in Registers \ {PC} : core'.r[i] = core.r[i]
      BY <1>1, <1>2, StepKeeps DEF Instruction, Runs
<1> QED BY <1>3, <1>4
        DEF Keeps, Named, Unchanged, IsTransfer, Transfer, Bits7And4

(* arm_step touches nothing but what its instruction is about.              *)
THEOREM StepsKeepTheRest == Spec => StepFrame
<1>1. TypeOK /\ [Next]_vars =>
        [LET w == Instruction IN
         Step => /\ Unchanged(Registers \ {Rd(w), Rn(w), 14, PC})
                 /\ core'.m # core.m => Runs /\ Transfer(w) /\ Bit(w, 20) = 0]_vars
      BY StepFacts
<1> QED BY <1>1, MachineTypeCorrect, PTL DEF Spec, StepFrame

(* The reset a failed condition causes leaves the registers and the memory. *)
THEOREM ResetsKeepData == Spec => ResetKeepsData
<1>1. TypeOK /\ [Next]_vars =>
        [Step /\ rc' = RESET
           => core'.r[PC] = Zero /\ Unchanged(0..14) /\ core'.m = core.m]_vars
      BY StepFacts
<1> QED BY <1>1, MachineTypeCorrect, PTL DEF Spec, ResetKeepsData
-----------------------------------------------------------------------------
LEMMA WholeWord == ASSUME NEW w \in Word PROVE Extend(Truncate(w, 4), 4) = w
<1>1. \A k \in 1..4 : Extend(Truncate(w, 4), 4)[k] = w[k]
      BY DEF Extend, Truncate
<1> QED BY <1>1 DEF Word, Extend

LEMMA TopBits ==
  ASSUME NEW w \in Word, w[1] < 16
  PROVE  Cond(w) = 0 /\ Bit(w, 30) = 0
<1>1. w[1] \in 0..15
      BY DEF Word, Byte
<1>2. \A b \in 0..15 : b \div 16 = 0 /\ (b \div 64) % 2 = 0
      BY SMT
<1>3. 4 - 30 \div 8 = 1 /\ (30 % 8) + 1 = 7 /\ Power[7] = 64
      BY SMT DEF Power
<1>4. Bit(w, 30) = (w[1] \div 64) % 2
      BY <1>3 DEF Bit
<1> QED BY <1>1, <1>2, <1>4 DEF Cond

(* Off the memory the pc is executed: below 2^28 that is "eq", and Z is the *)
(* bit 30 of the same word.                                                 *)
THEOREM RunningOffAlwaysResets == Spec => RunningOffResets
<1>1. TypeOK /\ [Next]_vars =>
        [Step /\ ~Accessible(At, 4) /\ read_cpsr(core)[1] < 16
         /\ read_cpsr(arm_fetch(core))[1] < 16 => rc' = RESET]_vars
  <2> SUFFICES ASSUME TypeOK, Step, ~Accessible(At, 4), read_cpsr(core)[1] < 16,
                      read_cpsr(arm_fetch(core))[1] < 16
               PROVE  rc' = RESET
      OBVIOUS
  <2>1. core \in Core /\ read_cpsr(core) \in Word /\ read_cpsr(arm_fetch(core)) \in Word
        BY FetchKeeps, CoreParts DEF TypeOK, read_cpsr
  <2>2. Fetched(core) = read_cpsr(core)
        BY <2>1, WholeWord DEF Fetched, arm_read, At
  <2>3. Cond(Fetched(core)) = 0 /\ Bit(read_cpsr(arm_fetch(core)), 30) = 0
        BY <2>1, <2>2, TopBits
  <2>4. check_cond_failed(read_cpsr(arm_fetch(core)), 0)
        BY <2>3 DEF check_cond_failed
  <2>5. \A junk : arm_step(core, junk).rc = RESET
        BY <2>3, <2>4 DEF arm_step
  <2> QED BY <2>5 DEF Step
<1> QED BY <1>1, MachineTypeCorrect, PTL DEF Spec, RunningOffResets
-----------------------------------------------------------------------------
(* Add, which adds four bytes with their carries, and the reference Total,  *)
(* which adds two halves: both are the sum modulo 2^32.  A multiple of the  *)
(* base that separates two digits is 0.                                     *)
LEMMA Multiple ==
  ASSUME NEW b \in {256, 65536}, NEW l \in Nat, NEW m \in Nat, l < b, m < b, NEW u \in Int,
         l = m + b * u
  PROVE  u = 0 /\ l = m
<1>1. CASE b = 256
      BY <1>1, SMT
<1>2. CASE b = 65536
      BY <1>2, SMT
<1> QED BY <1>1, <1>2

(* Integers that are the same 32-bit unsigned integer.                      *)
Modulus == 4294967296
Congruent(m, n) == \E k \in Int : m = n + Modulus * k

LEMMA ModulusIs == Modulus = 4294967296
BY SMT DEF Modulus

LEMMA Congruence ==
  ASSUME NEW a \in Int, NEW b \in Int, NEW c \in Int
  PROVE  /\ Congruent(a, a)
         /\ Congruent(a, b) => Congruent(b, a)
         /\ Congruent(a, b) /\ Congruent(b, c) => Congruent(a, c)
<1>1. Congruent(a, a)
  <2>1. 0 \in Int /\ a = a + Modulus * 0
        BY ModulusIs, SMT
  <2> QED BY <2>1, Zenon DEF Congruent
<1>2. ASSUME Congruent(a, b) PROVE Congruent(b, a)
  <2>1. PICK k \in Int : a = b + Modulus * k
        BY <1>2, Zenon DEF Congruent
  <2>2. 0 - k \in Int /\ b = a + Modulus * (0 - k)
        BY <2>1, ModulusIs, SMT
  <2> QED BY <2>2, Zenon DEF Congruent
<1>3. ASSUME Congruent(a, b), Congruent(b, c) PROVE Congruent(a, c)
  <2>1. PICK k \in Int : a = b + Modulus * k
        BY <1>3, Zenon DEF Congruent
  <2>2. PICK j \in Int : b = c + Modulus * j
        BY <1>3, Zenon DEF Congruent
  <2>3. k + j \in Int /\ a = c + Modulus * (k + j)
        BY <2>1, <2>2, ModulusIs, SMT
  <2> QED BY <2>3, Zenon DEF Congruent
<1> QED BY <1>1, <1>2, <1>3

LEMMA CongruentSums ==
  ASSUME NEW a \in Int, NEW b \in Int, NEW c \in Int, NEW d \in Int,
         Congruent(a, b), Congruent(c, d)
  PROVE  Congruent(a + c, b + d)
<1>1. PICK k \in Int : a = b + Modulus * k
      BY Zenon DEF Congruent
<1>2. PICK j \in Int : c = d + Modulus * j
      BY Zenon DEF Congruent
<1>3. k + j \in Int /\ a + c = (b + d) + Modulus * (k + j)
      BY <1>1, <1>2, ModulusIs, SMT
<1> QED BY <1>3, Zenon DEF Congruent

(* A pair of halves, and the number it stands for; a word and its pair.     *)
Pair(x) == x = <<x[1], x[2]>> /\ Half16(x[1]) /\ Half16(x[2])
Joined(h, l) == 65536 * h + l
Worth(x) == Joined(x[1], x[2])

LEMMA SameHalves ==
  ASSUME NEW a, NEW b, NEW c, NEW d, Half16(a), Half16(b), Half16(c), Half16(d),
         Congruent(Joined(a, b), Joined(c, d))
  PROVE  a = c /\ b = d
<1>1. /\ a \in Nat /\ b \in Nat /\ c \in Nat /\ d \in Nat
      /\ a < 65536 /\ b < 65536 /\ c < 65536 /\ d < 65536
      BY SMT DEF Half16
<1>2. PICK k \in Int : Joined(a, b) = Joined(c, d) + Modulus * k
      BY Zenon DEF Congruent
<1> DEFINE u == c - a + 65536 * k
<1>3. u \in Int /\ b = d + 65536 * u
      BY <1>1, <1>2, ModulusIs, SMT DEF Joined
<1> HIDE DEF u
<1>4. u = 0 /\ b = d
      BY <1>1, <1>3, Multiple, SMT
<1>5. a = c + 65536 * k
      BY <1>1, <1>2, <1>4, ModulusIs, SMT DEF Joined
<1> QED BY <1>1, <1>4, <1>5, Multiple, SMT

LEMMA PairsAreNumbers ==
  ASSUME NEW x, Pair(x), NEW y, Pair(y), Congruent(Worth(x), Worth(y))
  PROVE  x = y
<1>1. /\ Half16(x[1]) /\ Half16(x[2]) /\ Half16(y[1]) /\ Half16(y[2])
      /\ Congruent(Joined(x[1], x[2]), Joined(y[1], y[2]))
      BY Zenon DEF Pair, Worth
<1>2. x[1] = y[1] /\ x[2] = y[2]
      BY <1>1, SameHalves, Zenon
<1> QED BY <1>2, Zenon DEF Pair

LEMMA TotalOfHalves ==
  ASSUME NEW a, NEW b, NEW c, NEW d, Half16(a), Half16(b), Half16(c), Half16(d), NEW z \in {0, 1}
  PROVE  /\ Pair(Total(<<a, b>>, <<c, d>>, z))
         /\ Congruent(Worth(Total(<<a, b>>, <<c, d>>, z)), Joined(a, b) + Joined(c, d) + z)
<1>1. a \in Nat /\ b \in Nat /\ c \in Nat /\ d \in Nat /\ z \in Nat
      BY SMT DEF Half16
<1>2. \A n \in Nat : /\ n \div 65536 \in Nat /\ n % 65536 \in Nat /\ n % 65536 <= 65535
                     /\ n = 65536 * (n \div 65536) + (n % 65536)
      BY SMT
<1> DEFINE lo == b + d + z
           q == lo \div 65536
           hi == a + c + q
           p == hi \div 65536
           r == lo % 65536
           s == hi % 65536
<1>3. Total(<<a, b>>, <<c, d>>, z) = <<s, r>>
      BY SMT DEF Total
<1>4. lo \in Nat
      BY <1>1
<1>5. q \in Nat /\ b + d + z = 65536 * q + r /\ r \in Nat /\ r <= 65535
      BY <1>2, <1>4, SMT
<1> HIDE DEF q, r
<1>6. hi \in Nat
      BY <1>1, <1>5
<1>7. p \in Nat /\ a + c + q = 65536 * p + s /\ s \in Nat /\ s <= 65535
      BY <1>2, <1>6, SMT
<1> HIDE DEF p, s
<1>8. /\ 0 - p \in Int
      /\ Joined(s, r) = (Joined(a, b) + Joined(c, d) + z) + Modulus * (0 - p)
      BY <1>1, <1>5, <1>7, ModulusIs, SMT DEF Joined
<1>9. Congruent(Joined(s, r), Joined(a, b) + Joined(c, d) + z)
      BY <1>8, Zenon DEF Congruent
<1>10. Pair(<<s, r>>)
       BY <1>5, <1>7, SMT DEF Pair, Half16
<1>11. Worth(<<s, r>>) = Joined(s, r)
       BY DEF Worth
<1> QED BY <1>3, <1>9, <1>10, <1>11, Zenon

LEMMA TotalIsSum ==
  ASSUME NEW x, Pair(x), NEW y, Pair(y), NEW z \in {0, 1}
  PROVE  /\ Pair(Total(x, y, z))
         /\ Congruent(Worth(Total(x, y, z)), Worth(x) + Worth(y) + z)
<1>1. /\ x = <<x[1], x[2]>> /\ y = <<y[1], y[2]>>
      /\ Half16(x[1]) /\ Half16(x[2]) /\ Half16(y[1]) /\ Half16(y[2])
      BY Zenon DEF Pair
<1> DEFINE t == Total(<<x[1], x[2]>>, <<y[1], y[2]>>, z)
<1>2. t = Total(x, y, z)
      BY <1>1, Zenon
<1>3. Pair(t) /\ Congruent(Worth(t), Joined(x[1], x[2]) + Joined(y[1], y[2]) + z)
      BY <1>1, TotalOfHalves, Zenon
<1> HIDE DEF t
<1> QED BY <1>2, <1>3, Zenon DEF Worth

LEMMA HalfIsPair ==
  ASSUME NEW a \in Word
  PROVE  Pair(Half(a)) /\ Worth(Half(a)) = Num(a) /\ Num(a) \in Nat
<1>1. /\ a[1] \in Nat /\ a[1] <= 255 /\ a[2] \in Nat /\ a[2] <= 255
      /\ a[3] \in Nat /\ a[3] <= 255 /\ a[4] \in Nat /\ a[4] <= 255
      BY SMT DEF Word, Byte
<1>2. Half(a) = <<256 * a[1] + a[2], 256 * a[3] + a[4]>>
      BY DEF Half
<1> QED BY <1>1, <1>2, NumIsNat, SMT DEF Pair, Half16, Worth, Joined, Num

LEMMA HalvesOfBytes ==
  ASSUME NEW a1 \in Byte, NEW a2 \in Byte, NEW a3 \in Byte, NEW a4 \in Byte,
         NEW b1 \in Byte, NEW b2 \in Byte, NEW b3 \in Byte, NEW b4 \in Byte,
         Half(<<a1, a2, a3, a4>>) = Half(<<b1, b2, b3, b4>>)
  PROVE  a1 = b1 /\ a2 = b2 /\ a3 = b3 /\ a4 = b4
<1>1. 256 * a1 + a2 = 256 * b1 + b2 /\ 256 * a3 + a4 = 256 * b3 + b4
      BY DEF Half
<1> QED BY <1>1, SMT DEF Byte

LEMMA WordsAreHalves ==
  ASSUME NEW a \in Word, NEW b \in Word, Half(a) = Half(b)
  PROVE  a = b
<1>1. /\ a[1] \in Byte /\ a[2] \in Byte /\ a[3] \in Byte /\ a[4] \in Byte
      /\ b[1] \in Byte /\ b[2] \in Byte /\ b[3] \in Byte /\ b[4] \in Byte
      /\ a = <<a[1], a[2], a[3], a[4]>> /\ b = <<b[1], b[2], b[3], b[4]>>
      BY WordIsTuple, Zenon
<1>2. Half(<<a[1], a[2], a[3], a[4]>>) = Half(<<b[1], b[2], b[3], b[4]>>)
      BY <1>1, Zenon
<1>3. a[1] = b[1] /\ a[2] = b[2] /\ a[3] = b[3] /\ a[4] = b[4]
      BY <1>1, <1>2, HalvesOfBytes
<1> QED BY <1>1, <1>3, Zenon

LEMMA AddOfBytes ==
  ASSUME NEW a1 \in Byte, NEW a2 \in Byte, NEW a3 \in Byte, NEW a4 \in Byte,
         NEW b1 \in Byte, NEW b2 \in Byte, NEW b3 \in Byte, NEW b4 \in Byte
  PROVE  LET a == <<a1, a2, a3, a4>>
             b == <<b1, b2, b3, b4>>
         IN  Congruent(Num(Add(a, b)), Num(a) + Num(b))
<1>1. \A n \in Nat : n \div 256 \in Nat /\ n % 256 \in Nat /\ n = 256 * (n \div 256) + (n % 256)
      BY SMT
<1>2. /\ a1 \in Nat /\ a2 \in Nat /\ a3 \in Nat /\ a4 \in Nat
      /\ b1 \in Nat /\ b2 \in Nat /\ b3 \in Nat /\ b4 \in Nat
      BY DEF Byte
<1> DEFINE a == <<a1, a2, a3, a4>>
           b == <<b1, b2, b3, b4>>
           s4 == a4 + b4
           c4 == s4 \div 256
           s3 == a3 + b3 + c4
           c3 == s3 \div 256
           s2 == a2 + b2 + c3
           c2 == s2 \div 256
           s1 == a1 + b1 + c2
           c1 == s1 \div 256
           r4 == s4 % 256
           r3 == s3 % 256
           r2 == s2 % 256
           r1 == s1 % 256
<1>3. Add(a, b) = <<r1, r2, r3, r4>>
      BY DEF Add
<1>4. c4 \in Nat /\ r4 \in Nat /\ a4 + b4 = 256 * c4 + r4
      BY <1>1, <1>2
<1> HIDE DEF c4, r4
<1>5. c3 \in Nat /\ r3 \in Nat /\ a3 + b3 + c4 = 256 * c3 + r3
  <2>1. s3 \in Nat
        BY <1>2, <1>4
  <2> QED BY <1>1, <2>1
<1> HIDE DEF c3, r3
<1>6. c2 \in Nat /\ r2 \in Nat /\ a2 + b2 + c3 = 256 * c2 + r2
  <2>1. s2 \in Nat
        BY <1>2, <1>5
  <2> QED BY <1>1, <2>1
<1> HIDE DEF c2, r2
<1>7. c1 \in Nat /\ r1 \in Nat /\ a1 + b1 + c2 = 256 * c1 + r1
  <2>1. s1 \in Nat
        BY <1>2, <1>6
  <2> QED BY <1>1, <2>1
<1> HIDE DEF c1, r1
<1> DEFINE r == <<r1, r2, r3, r4>>
<1>8. /\ Num(r) = 16777216 * r1 + 65536 * r2 + 256 * r3 + r4
      /\ Num(a) = 16777216 * a1 + 65536 * a2 + 256 * a3 + a4
      /\ Num(b) = 16777216 * b1 + 65536 * b2 + 256 * b3 + b4
      BY SMT DEF Num
<1> HIDE DEF r, a, b
<1>9. 0 - c1 \in Int /\ Num(r) = (Num(a) + Num(b)) + Modulus * (0 - c1)
      BY <1>2, <1>4, <1>5, <1>6, <1>7, <1>8, ModulusIs, SMT
<1>10. Congruent(Num(r), Num(a) + Num(b))
       BY <1>9, Zenon DEF Congruent
<1> QED BY <1>3, <1>10, Zenon DEF r, a, b

(* A word is known from a number it is congruent to.                        *)
LEMMA HalfIs ==
  ASSUME NEW w \in Word, NEW t, Pair(t), NEW n \in Int,
         Congruent(Num(w), n), Congruent(Worth(t), n)
  PROVE  Half(w) = t
<1>1. Pair(Half(w)) /\ Worth(Half(w)) = Num(w) /\ Num(w) \in Int
      BY HalfIsPair
<1>2. Worth(t) \in Int
      BY SMT DEF Pair, Half16, Worth, Joined
<1>3. Congruent(n, Worth(t))
      BY <1>2, Congruence
<1>4. Congruent(Num(w), Worth(t))
      BY <1>1, <1>2, <1>3, Congruence
<1> QED BY <1>1, <1>4, PairsAreNumbers, Zenon

LEMMA AddIsSum ==
  ASSUME NEW a \in Word, NEW b \in Word
  PROVE  Congruent(Num(Add(a, b)), Num(a) + Num(b))
<1>1. /\ a[1] \in Byte /\ a[2] \in Byte /\ a[3] \in Byte /\ a[4] \in Byte
      /\ b[1] \in Byte /\ b[2] \in Byte /\ b[3] \in Byte /\ b[4] \in Byte
      /\ a = <<a[1], a[2], a[3], a[4]>> /\ b = <<b[1], b[2], b[3], b[4]>>
      BY WordIsTuple, Zenon
<1> DEFINE s == <<a[1], a[2], a[3], a[4]>>
           t == <<b[1], b[2], b[3], b[4]>>
<1>2. Congruent(Num(Add(s, t)), Num(s) + Num(t))
      BY <1>1, AddOfBytes, Zenon
<1>3. s = a /\ t = b
      BY <1>1, Zenon
<1> HIDE DEF s, t
<1> QED BY <1>2, <1>3, Zenon

(* The number of a sum, as it is needed for more than two terms.            *)
LEMMA SumOf ==
  ASSUME NEW a \in Word, NEW b \in Word, NEW m \in Int, NEW n \in Int,
         Congruent(Num(a), m), Congruent(Num(b), n)
  PROVE  Congruent(Num(Add(a, b)), m + n)
<1>1. Num(a) \in Int /\ Num(b) \in Int /\ Num(Add(a, b)) \in Int
      BY NumIsNat, ArithmeticIsWord
<1>2. Congruent(Num(a) + Num(b), m + n)
      BY <1>1, CongruentSums, Zenon
<1>3. Num(a) + Num(b) \in Int /\ m + n \in Int
      BY <1>1
<1> QED BY <1>1, <1>2, <1>3, AddIsSum, Congruence

LEMMA NumIs ==
  ASSUME NEW a \in Word
  PROVE  Num(a) \in Int /\ Congruent(Num(a), Num(a))
BY NumIsNat, Congruence

LEMMA NumOfSmall ==
  ASSUME NEW n \in Nat, n <= 65535
  PROVE  Small(n) \in Word /\ Num(Small(n)) = n /\ Half(Small(n)) = <<0, n>>
<1>1. n = 256 * (n \div 256) + (n % 256) /\ n \div 256 \in Nat /\ n % 256 \in Nat
      BY SMT
<1>2. Small(n)[1] = 0 /\ Small(n)[2] = 0 /\ Small(n)[3] = n \div 256 /\ Small(n)[4] = n % 256
      BY DEF Small
<1> QED BY <1>1, <1>2, SmallIsWord, SMT DEF Num, Half

(* Add, four bytes and their carries, is the addition of the halves, and    *)
(* Sub and the addition with carry follow.                                  *)
LEMMA AddIsTotal ==
  ASSUME NEW a \in Word, NEW b \in Word
  PROVE  /\ Half(Add(a, b)) = Total(Half(a), Half(b), 0)
         /\ \A c \in {0, 1} : Half(Add(Add(a, b), Small(c))) = Total(Half(a), Half(b), c)
<1>1. /\ Pair(Half(a)) /\ Pair(Half(b))
      /\ Worth(Half(a)) = Num(a) /\ Worth(Half(b)) = Num(b)
      /\ Num(a) \in Int /\ Num(b) \in Int
      BY HalfIsPair
<1>2. ASSUME NEW c \in {0, 1}
      PROVE  /\ Pair(Total(Half(a), Half(b), c))
             /\ Congruent(Worth(Total(Half(a), Half(b), c)), Num(a) + Num(b) + c)
      BY <1>1, TotalIsSum, Zenon
<1>3. Congruent(Num(Add(a, b)), Num(a) + Num(b)) /\ Num(a) + Num(b) \in Int
      BY <1>1, AddIsSum
<1>4. Num(a) + Num(b) + 0 = Num(a) + Num(b)
      BY <1>1
<1>5. Half(Add(a, b)) = Total(Half(a), Half(b), 0)
      BY <1>2, <1>3, <1>4, HalfIs, ArithmeticIsWord
<1>6. ASSUME NEW c \in {0, 1}
      PROVE  Half(Add(Add(a, b), Small(c))) = Total(Half(a), Half(b), c)
  <2>1. /\ c \in Int /\ Small(c) \in Word /\ Congruent(Num(Small(c)), c)
    <3>1. c \in Nat /\ c <= 65535 /\ c \in Int
          BY <1>6, SMT
    <3> QED BY <3>1, NumOfSmall, Congruence
  <2>2. /\ Congruent(Num(Add(Add(a, b), Small(c))), Num(a) + Num(b) + c)
        /\ Add(Add(a, b), Small(c)) \in Word
        BY <1>3, <2>1, SumOf, ArithmeticIsWord
  <2>3. Num(a) + Num(b) + c \in Int
        BY <1>3, <2>1
  <2> QED BY <1>2, <1>6, <2>2, <2>3, HalfIs
<1> QED BY <1>5, <1>6

LEMMA SubIsMinus ==
  ASSUME NEW a \in Word, NEW b \in Word
  PROVE  Half(Sub(a, b)) = Minus(Half(a), Half(b))
<1>1. /\ Pair(Half(a)) /\ Pair(Half(b)) /\ Pair(Half(Not(b)))
      /\ Worth(Half(a)) = Num(a) /\ Worth(Half(Not(b))) = Num(Not(b))
      /\ Num(a) \in Int /\ Num(Not(b)) \in Int
      BY HalfIsPair, ArithmeticIsWord
<1>2. Half(Not(b)) = <<65535 - Half(b)[1], 65535 - Half(b)[2]>>
  <2>1. b[1] \in Int /\ b[2] \in Int /\ b[3] \in Int /\ b[4] \in Int
        BY DEF Word, Byte
  <2>2. Half(b)[1] = 256 * b[1] + b[2] /\ Half(b)[2] = 256 * b[3] + b[4]
        BY DEF Half
  <2>3. Half(Not(b)) = <<256 * (255 - b[1]) + (255 - b[2]), 256 * (255 - b[3]) + (255 - b[4])>>
        BY DEF Half, Not
  <2> QED BY <2>1, <2>2, <2>3, SMT
<1>3. Minus(Half(a), Half(b)) = Total(Half(a), Half(Not(b)), 1)
      BY <1>2, SMT DEF Minus
<1> DEFINE t == Total(Half(a), Half(Not(b)), 1)
<1>4. Pair(t) /\ Congruent(Worth(t), Num(a) + Num(Not(b)) + 1)
      BY <1>1, TotalIsSum
<1> HIDE DEF t
<1>5. Small(1) \in Word /\ Num(Small(1)) = 1
      BY NumOfSmall, SMT
<1>6. /\ Congruent(Num(Add(Not(b), Small(1))), Num(Not(b)) + 1)
      /\ Add(Not(b), Small(1)) \in Word /\ Num(Not(b)) + 1 \in Int
  <2>1. Not(b) \in Word /\ Add(Not(b), Small(1)) \in Word
        BY <1>5, ArithmeticIsWord
  <2>2. Congruent(Num(Add(Not(b), Small(1))), Num(Not(b)) + Num(Small(1)))
        BY <1>5, <2>1, AddIsSum
  <2> QED BY <1>1, <1>5, <2>1, <2>2
<1>7. Congruent(Num(Sub(a, b)), Num(a) + (Num(Not(b)) + 1)) /\ Sub(a, b) \in Word
      BY <1>6, SumOf, NumIs, ArithmeticIsWord DEF Sub
<1>8. Num(a) + (Num(Not(b)) + 1) = Num(a) + Num(Not(b)) + 1 /\ Num(a) + Num(Not(b)) + 1 \in Int
      BY <1>1
<1> QED BY <1>3, <1>4, <1>7, <1>8, HalfIs DEF t

(* The bitwise operators are the set operators on the bits that are set.    *)
LEMMA BitwiseSets ==
  ASSUME NEW a \in Word, NEW b \in Word
  PROVE  /\ Bits(And(a, b)) = Bits(a) \cap Bits(b)
         /\ Bits(Or(a, b)) = Bits(a) \cup Bits(b)
         /\ Bits(Xor(a, b)) = (Bits(a) \ Bits(b)) \cup (Bits(b) \ Bits(a))
         /\ Bits(Not(b)) = (0..31) \ Bits(b)
         /\ Bits(And(a, Not(b))) = Bits(a) \ Bits(b)
<1>1. ASSUME NEW i \in 0..31
      PROVE  /\ Bit(a, i) \in {0, 1} /\ Bit(b, i) \in {0, 1}
             /\ Bit(And(a, b), i) = 1 <=> Bit(a, i) = 1 /\ Bit(b, i) = 1
             /\ Bit(Or(a, b), i) = 1 <=> Bit(a, i) = 1 \/ Bit(b, i) = 1
             /\ Bit(Xor(a, b), i) = 1 <=> Bit(a, i) # Bit(b, i)
             /\ Bit(Not(b), i) = 1 <=> Bit(b, i) = 0
             /\ Bit(And(a, Not(b)), i) = 1 <=> Bit(a, i) = 1 /\ Bit(b, i) = 0
  <2>1. Bit(a, i) \in {0, 1} /\ Bit(b, i) \in {0, 1}
        BY BitIsBinary DEF Binary
  <2>2. Not(b) \in Word
        BY ArithmeticIsWord
  <2>3. /\ Bit(And(a, b), i) = Bit(a, i) * Bit(b, i)
        /\ Bit(Or(a, b), i) = IF Bit(a, i) + Bit(b, i) > 0 THEN 1 ELSE 0
        /\ Bit(Xor(a, b), i) = (Bit(a, i) + Bit(b, i)) % 2
        /\ Bit(Not(b), i) = 1 - Bit(b, i)
        /\ Bit(And(a, Not(b)), i) = Bit(a, i) * (1 - Bit(b, i))
        BY <2>2, BitwiseBits, NotBits
  <2> QED BY <2>1, <2>3
<1> QED BY <1>1 DEF Bits

-----------------------------------------------------------------------------
(* A step whose condition holds executes its instruction after the fetch.   *)
LEMMA Executed ==
  ASSUME TypeOK, Step, Runs
  PROVE  /\ Instruction \in Word /\ At \in Word
         /\ arm_fetch(core) \in Core /\ arm_fetch(core).m = core.m
         /\ arm_fetch(core).r[PC] = Add(At, Small(4))
         /\ \A i \in Registers \ {PC} : arm_fetch(core).r[i] = core.r[i]
         /\ \E junk \in Word :
              core' = select_execute_instruction(arm_fetch(core), Instruction, junk)
<1>1. core \in Core /\ At \in Word /\ Instruction \in Word
      BY FetchAddressIsWord, FetchedIsWord DEF TypeOK, At, Instruction
<1>2. /\ arm_fetch(core) \in Core /\ arm_fetch(core).m = core.m
      /\ \A i \in Registers \ {PC} : arm_fetch(core).r[i] = core.r[i]
      BY <1>1, FetchKeeps
<1>3. arm_fetch(core).r[PC] = Add(At, Small(4))
  <2>1. Small(4) \in Word
        BY SmallIsWord, SMT
  <2>2. Add(At, Small(4)) \in Word
        BY <1>1, <2>1, ArithmeticIsWord
  <2> QED BY <1>1, <2>2, CoreParts, RegisterWritten DEF arm_fetch, At
<1>4. PICK junk \in Junk : core' = arm_step(core, junk).core
      BY DEF Step
<1>5. junk \in Word
      BY <1>4, MachineAssumption
<1>6. core' = select_execute_instruction(arm_fetch(core), Instruction, junk)
      BY <1>4 DEF arm_step, Runs, Instruction
<1> QED BY <1>1, <1>2, <1>3, <1>5, <1>6

(* At an aligned address an instruction reads the pc as its address + 8.    *)
LEMMA PcReads8 ==
  ASSUME NEW p \in Core, FetchAddress(p)[4] % 4 = 0
  PROVE  arm_read_register(arm_fetch(p), PC) = Add(FetchAddress(p), Small(8))
<1> DEFINE x == FetchAddress(p)
           y == Add(Add(x, Small(4)), Small(4))
           z == Add(x, Small(8))
<1>1. x \in Word /\ p \in Core
      BY FetchAddressIsWord
<1>2. /\ Small(4) \in Word /\ Num(Small(4)) = 4 /\ Small(8) \in Word /\ Num(Small(8)) = 8
      /\ Small(8)[4] = 8
      BY NumOfSmall, SMT DEF Small
<1>3. Add(x, Small(4)) \in Word
      BY <1>1, <1>2, ArithmeticIsWord
<1>4. arm_fetch(p).r[PC] = Add(x, Small(4))
      BY <1>3, CoreParts, RegisterWritten DEF arm_fetch
<1>5. arm_read_register(arm_fetch(p), PC) = And(y, Not(Small(2)))
      BY <1>4 DEF arm_read_register
<1>6. x[4] \in 0..255 /\ x[4] % 4 = 0
      BY <1>1 DEF Word, Byte
<1> HIDE DEF x
<1>7. y \in Word /\ z \in Word
      BY <1>1, <1>2, <1>3, ArithmeticIsWord
<1>8. y = z
  <2>1. Num(x) \in Int /\ Num(x) + 4 \in Int /\ Num(x) + 8 \in Int /\ (Num(x) + 4) + 4 = Num(x) + 8
        BY <1>1, NumIs
  <2>2. Congruent(Num(Add(x, Small(4))), Num(x) + Num(Small(4)))
        BY <1>1, <1>2, AddIsSum
  <2>3. Congruent(Num(Small(4)), Num(Small(4))) /\ Num(Small(4)) \in Int
        BY <1>2, NumIs
  <2>4. Congruent(Num(y), (Num(x) + 4) + 4)
        BY <1>2, <1>3, <2>1, <2>2, <2>3, SumOf
  <2>5. Congruent(Num(z), Num(x) + 8)
        BY <1>1, <1>2, AddIsSum
  <2>6. Pair(Half(z)) /\ Worth(Half(z)) = Num(z)
        BY <1>7, HalfIsPair
  <2> HIDE DEF y, z
  <2>7. Half(y) = Half(z)
        BY <1>7, <2>1, <2>4, <2>5, <2>6, HalfIs
  <2> QED BY <1>7, <2>7, WordsAreHalves
<1>9. Bit(z, 1) = 0
  <2>1. z[4] = (x[4] + 8) % 256
        BY <1>2 DEF Add
  <2>2. Bit(z, 1) = (z[4] \div 2) % 2
    <3>1. 8 * 0 + 1 = 1 /\ 4 - 0 = 4 /\ 0 \in 0..3
          OBVIOUS
    <3> HIDE DEF z
    <3>2. Bit(z, 8 * 0 + 1) = (z[4 - 0] \div 2) % 2
          BY <3>1, BitPlace
    <3> QED BY <3>1, <3>2
  <2> HIDE DEF z
  <2>3. \A n \in 0..255 : n % 4 = 0 => (((n + 8) % 256) \div 2) % 2 = 0
        BY SMT
  <2> QED BY <1>6, <2>1, <2>2, <2>3
<1> HIDE DEF y, z
<1>10. And(z, Not(Small(2))) = z
       BY <1>7, <1>9, MaskIsIdentity
<1> QED BY <1>5, <1>8, <1>10 DEF x, z

(* The offset of a branch, as the code and as the property compute it.      *)
ShiftedBranch(a, b, c) == Lsl(<<IF a >= 128 THEN 63 ELSE 0, a, b, c>>, 2)
BranchHalves(a, b, c) ==
  LET x == 4 * (65536 * a + 256 * b + c)
      sign == IF a >= 128 THEN 64512 ELSE 0
  IN  <<x \div 65536 + sign, x % 65536>>

LEMMA BranchOffset ==
  ASSUME NEW a \in Byte, NEW b \in Byte, NEW c \in Byte
  PROVE  /\ ShiftedBranch(a, b, c) \in Word
         /\ Half(ShiftedBranch(a, b, c)) = BranchHalves(a, b, c)
<1> DEFINE x == 4 * (65536 * a + 256 * b + c)
           sign == IF a >= 128 THEN 64512 ELSE 0
           s == IF a >= 128 THEN 63 ELSE 0
           l == Lsl(<<s, a, b, c>>, 2)
<1>1. /\ a \in Nat /\ a <= 255 /\ b \in Nat /\ b <= 255 /\ c \in Nat /\ c <= 255
      BY SMT DEF Byte
<1>2. s \in Byte /\ s % 64 = s /\ sign = 1024 * s
      BY <1>1, SMT DEF Byte
<1>3. l \in Word
  <2> HIDE DEF s
  <2>1. <<s, a, b, c>> \in Word
        BY <1>2, WordOfBytes
  <2> QED BY <2>1, ShiftsAreWords
<1> HIDE DEF s, sign
<1>4. l = <<4 * s + a \div 64, 4 * (a % 64) + b \div 64, 4 * (b % 64) + c \div 64, 4 * (c % 64)>>
      BY <1>2, ShiftBy2
<1> HIDE DEF l
<1>5. s \in Nat
      BY <1>2 DEF Byte
<1>6. 256 * (4 * s + a \div 64) + (4 * (a % 64) + b \div 64) = x \div 65536 + sign
  <2> DEFINE a1 == a \div 64
             a0 == a % 64
             b1 == b \div 64
             b0 == b % 64
  <2>1. /\ a = 64 * a1 + a0 /\ a1 \in Nat /\ a0 \in Nat /\ b = 64 * b1 + b0 /\ b1 \in Nat
        /\ b0 \in Nat /\ b0 <= 63
        BY <1>1, SMT
  <2> HIDE DEF a1, a0, b1, b0
  <2>2. x = 65536 * (4 * a + b1) + (1024 * b0 + 4 * c) /\ 1024 * b0 + 4 * c < 65536
        /\ 1024 * b0 + 4 * c \in Nat /\ 4 * a + b1 \in Nat
        BY <1>1, <2>1, SMT
  <2> HIDE DEF x
  <2> DEFINE h == 4 * a + b1
             k == 1024 * b0 + 4 * c
  <2>3. h \in Nat /\ k \in Nat /\ k < 65536 /\ x = 65536 * h + k
        BY <2>2
  <2> HIDE DEF h, k
  <2>4. x \div 65536 = h
        BY <2>3, SMT
  <2>5. x \div 65536 = 4 * a + b1
        BY <2>4 DEF h
  <2>6. 256 * (4 * s + a1) + (4 * a0 + b1) = (4 * a + b1) + 1024 * s
        BY <1>5, <2>1
  <2> QED BY <1>2, <2>5, <2>6 DEF a1, a0, b1
<1>7. 256 * (4 * (b % 64) + c \div 64) + 4 * (c % 64) = x % 65536
  <2> DEFINE c1 == c \div 64
             c0 == c % 64
             b1 == b \div 64
             b0 == b % 64
  <2>1. /\ c = 64 * c1 + c0 /\ c1 \in Nat /\ c0 \in Nat /\ b = 64 * b1 + b0 /\ b1 \in Nat
        /\ b0 \in Nat /\ b0 <= 63
        BY <1>1, SMT
  <2> HIDE DEF c1, c0, b1, b0
  <2>2. x = 65536 * (4 * a + b1) + (1024 * b0 + 4 * c) /\ 1024 * b0 + 4 * c < 65536
        /\ 1024 * b0 + 4 * c \in Nat /\ 4 * a + b1 \in Nat
        BY <1>1, <2>1, SMT
  <2> HIDE DEF x
  <2> DEFINE h == 4 * a + b1
             k == 1024 * b0 + 4 * c
  <2>3. h \in Nat /\ k \in Nat /\ k < 65536 /\ x = 65536 * h + k
        BY <2>2
  <2> HIDE DEF h, k
  <2>4. x % 65536 = k
        BY <2>3, SMT
  <2>5. x % 65536 = 1024 * b0 + 4 * c
        BY <2>4 DEF k
  <2>6. 256 * (4 * b0 + c1) + 4 * c0 = 1024 * b0 + 4 * c
        BY <2>1
  <2> QED BY <2>5, <2>6 DEF c1, c0, b0
<1>8. Half(l) = <<x \div 65536 + sign, x % 65536>>
      BY <1>4, <1>6, <1>7 DEF Half
<1> QED BY <1>3, <1>8, SMT DEF l, s, sign, ShiftedBranch, BranchHalves

LEMMA BranchTaken ==
  ASSUME TypeOK, Step, Runs, Typeop(Instruction) = 2, Bit(Instruction, 25) = 1, At[4] % 4 = 0
  PROVE  LET w == Instruction
         IN  /\ Half(core'.r[PC]) = Total(Half(Add(At, Small(8))), BranchHalves(w[2], w[3], w[4]), 0)
             /\ Unchanged(Registers \ {14, PC}) /\ core'.m = core.m
<1> DEFINE w == Instruction
           f == arm_fetch(core)
           pc == arm_read_register(f, PC)
           l == ShiftedBranch(w[2], w[3], w[4])
           x == BranchHalves(w[2], w[3], w[4])
           q == IF Bit(w, 24) = 1 THEN arm_write_register(f, 14, pc) ELSE f
<1>1. /\ w \in Word /\ At \in Word /\ f \in Core /\ f.m = core.m /\ core \in Core
      /\ \A i \in Registers \ {PC} : f.r[i] = core.r[i]
      BY Executed DEF TypeOK
<1>2. core' = b_bl_instr(f, w)
  <2>1. PICK junk \in Word : core' = select_execute_instruction(f, w, junk)
        BY Executed
  <2> QED BY <2>1 DEF select_execute_instruction, traitement_BR
<1>3. core' = arm_write_register(q, PC, Add(pc, l))
      BY <1>2 DEF b_bl_instr, ShiftedBranch
<1>4. pc = Add(At, Small(8)) /\ pc \in Word
      BY <1>1, PcReads8, RegisterRead, CoreParts DEF At
<1>5. l \in Word /\ Half(l) = x
  <2>1. w[2] \in Byte /\ w[3] \in Byte /\ w[4] \in Byte
        BY <1>1, WordIsTuple
  <2> HIDE DEF w
  <2> QED BY <2>1, BranchOffset
<1> HIDE DEF w, f, pc, l, x
<1>6. /\ q \in Core /\ q.m = core.m
      /\ \A i \in Registers \ {14, PC} : q.r[i] = core.r[i]
  <2>1. 14 \in Registers /\ f \in Core /\ pc \in Word
        BY <1>1, <1>4, CoreParts
  <2>2. /\ arm_write_register(f, 14, pc) \in Core /\ arm_write_register(f, 14, pc).m = f.m
        /\ \A i \in Registers \ {14} : arm_write_register(f, 14, pc).r[i] = f.r[i]
        BY <2>1, RegisterWritten
  <2> QED BY <1>1, <2>2
<1> HIDE DEF q
<1>7. Add(pc, l) \in Word /\ Half(Add(pc, l)) = Total(Half(pc), Half(l), 0)
      BY <1>4, <1>5, ArithmeticIsWord, AddIsTotal
<1>8. /\ core'.r[PC] = Add(pc, l) /\ core'.m = q.m
      /\ \A i \in Registers \ {PC} : core'.r[i] = q.r[i]
  <2>1. PC \in Registers /\ q \in Core /\ Add(pc, l) \in Word
        BY <1>6, <1>7, CoreParts
  <2> QED BY <1>3, <2>1, RegisterWritten, Zenon
<1> QED BY <1>4, <1>5, <1>6, <1>7, <1>8 DEF Unchanged, w, x

THEOREM BranchesReachTheirTarget == Spec => BranchTarget
<1>1. TypeOK /\ [Next]_vars =>
        [LET w == Instruction
             x == 4 * (65536 * w[2] + 256 * w[3] + w[4])
             sign == IF w[2] >= 128 THEN 64512 ELSE 0
         IN
         Step /\ Runs /\ Typeop(w) = 2 /\ Bit(w, 25) = 1 /\ At[4] % 4 = 0
           => /\ Half(core'.r[PC]) = Total(Half(Add(At, Small(8))),
                                           <<x \div 65536 + sign, x % 65536>>, 0)
              /\ Unchanged(Registers \ {14, PC}) /\ core'.m = core.m]_vars
      BY BranchTaken, SMT DEF BranchHalves
<1> QED BY <1>1, MachineTypeCorrect, PTL DEF Spec, BranchTarget

-----------------------------------------------------------------------------
(* Every value the data-processing functions return, but those of sbc and   *)
(* rsc, is the one of the reference.                                        *)
LEMMA DataIsCorrect ==
  ASSUME NEW op \in {0, 1, 2, 3, 4, 5, 12, 13, 14, 15}, NEW a \in Word, NEW b \in Word,
         NEW c \in Binary
  PROVE  Correct(op, a, b, c, DataValue(op, a, b, c))
<1>1. CASE op = 0
      BY <1>1, BitwiseSets DEF Correct, DataValue, and_instr
<1>2. CASE op = 1
      BY <1>2, BitwiseSets DEF Correct, DataValue, xor_instr
<1>3. CASE op = 2
      BY <1>3, SubIsMinus DEF Correct, DataValue, sub_instr
<1>4. CASE op = 3
      BY <1>4, SubIsMinus DEF Correct, DataValue, rsb_instr
<1>5. CASE op = 4
      BY <1>5, AddIsTotal DEF Correct, DataValue, add_instr
<1>6. CASE op = 5
      BY <1>6, AddIsTotal DEF Correct, DataValue, adc_instr, Binary
<1>7. CASE op = 12
      BY <1>7, BitwiseSets DEF Correct, DataValue, orr_instr
<1>8. CASE op = 13
      BY <1>8 DEF Correct, DataValue
<1>9. CASE op = 14
      BY <1>9, BitwiseSets DEF Correct, DataValue, bic_instr
<1>10. CASE op = 15
      BY <1>10, BitwiseSets DEF Correct, DataValue
<1> QED BY <1>1, <1>2, <1>3, <1>4, <1>5, <1>6, <1>7, <1>8, <1>9, <1>10

LEMMA LeftIsRead ==
  ASSUME TypeOK, Step, Runs, At[4] % 4 = 0 \/ Rn(Instruction) # PC
  PROVE  /\ arm_read_register(arm_fetch(core), Rn(Instruction)) = Left(Instruction)
         /\ Left(Instruction) \in Word
<1>1. /\ Instruction \in Word /\ arm_fetch(core) \in Core /\ core \in Core
      /\ \A i \in Registers \ {PC} : arm_fetch(core).r[i] = core.r[i]
      BY Executed DEF TypeOK
<1>2. Rn(Instruction) \in Registers
      BY <1>1, Fields
<1>3. arm_read_register(arm_fetch(core), Rn(Instruction)) \in Word
      BY <1>1, <1>2, RegisterRead
<1>4. CASE Rn(Instruction) = PC
      BY <1>1, <1>3, <1>4, PcReads8 DEF Left, At
<1>5. CASE Rn(Instruction) # PC
      BY <1>1, <1>2, <1>3, <1>5 DEF Left, arm_read_register
<1> QED BY <1>4, <1>5

LEMMA DataProcessed ==
  ASSUME TypeOK, Step, Runs, Immediate(Instruction), ~Bits7And4(Instruction),
         Opcode(Instruction) \notin {6, 7}
  PROVE  Computes(Instruction, Small(Instruction[4]))
<1> DEFINE w == Instruction
           f == arm_fetch(core)
           a == Left(w)
           b == Small(w[4])
           c == Bit(read_cpsr(f), 29)
           v == DataValue(Opcode(w), a, b, c)
           q == arm_write_register(f, Rd(w), v)
<1>1. /\ w \in Word /\ At \in Word /\ f \in Core /\ f.m = core.m /\ core \in Core
      /\ \A i \in Registers \ {PC} : f.r[i] = core.r[i]
      /\ f.r[PC] = Add(At, Small(4))
      BY Executed DEF TypeOK
<1>2. /\ Typeop(w) = 0 /\ Bit(w, 25) = 1 /\ Rs(w) = 0 /\ Opcode(w) \notin 8..11
      /\ Rd(w) # PC /\ At[4] % 4 = 0 /\ ~(Bit(w, 7) = 1 /\ Bit(w, 4) = 1)
      BY DEF Immediate, Bits7And4
<1>3. core' = traitement_AR(f, w)
  <2>1. PICK junk \in Word : core' = select_execute_instruction(f, w, junk)
        BY Executed
  <2> QED BY <1>2, <2>1 DEF select_execute_instruction
<1>4. arm_read_register(f, Rn(w)) = a /\ a \in Word
      BY <1>2, LeftIsRead
<1>5. update_shifter_operand(f, w) = w[4]
      BY <1>1, <1>2, ImmediateOperand
<1>6. core' = update_flags(q, Bit(w, 20), Rd(w))
      BY <1>2, <1>3, <1>4, <1>5 DEF traitement_AR
<1>7. Opcode(w) \in {0, 1, 2, 3, 4, 5, 12, 13, 14, 15} /\ Opcode(w) \in (0..15) \ (8..11)
      BY <1>1, <1>2, Fields, SMT
<1>8. b \in Word
  <2>1. w[4] \in Nat /\ w[4] <= 65535
        BY <1>1, SMT DEF Word, Byte
  <2> QED BY <2>1, SmallIsWord
<1>9. c \in Binary
      BY <1>1, CoreParts, BitIsBinary, SMT DEF read_cpsr
<1>10. v \in Word /\ Correct(Opcode(w), a, b, c, v)
      BY <1>4, <1>7, <1>8, <1>9, DataValueIsWord, DataIsCorrect
<1>11. Rd(w) \in Registers /\ PC \in Registers
      BY <1>1, Fields, CoreParts
<1> HIDE DEF w, f, a, b, c, v
<1>12. /\ q \in Core /\ q.m = f.m /\ q.r[Rd(w)] = v
       /\ \A i \in Registers \ {Rd(w)} : q.r[i] = f.r[i]
      BY <1>1, <1>10, <1>11, RegisterWritten
<1> HIDE DEF q
<1>13. core' = q
      BY <1>6, <1>12, FlagsUnchanged
<1>14. /\ Correct(Opcode(w), a, b, c, core'.r[Rd(w)])
       /\ core'.r[PC] = Add(At, Small(4))
       /\ Unchanged(Registers \ {Rd(w), PC})
       /\ core'.m = core.m
      BY <1>1, <1>2, <1>10, <1>11, <1>12, <1>13 DEF Unchanged
<1> QED BY <1>14, Zenon DEF Computes, w, f, a, b, c

(* A data-processing instruction with an 8-bit immediate computes what the  *)
(* ARM manual says, on every word, at every aligned address.                *)
THEOREM DataProcessingIsCorrect == Spec => DataProcessing
<1>1. TypeOK /\ [Next]_vars =>
        [LET w == Instruction IN
         Step /\ Runs /\ Immediate(w) /\ ~Bits7And4(w) /\ Opcode(w) \notin {6, 7}
           => Computes(w, Small(w[4]))]_vars
      BY DataProcessed
<1> QED BY <1>1, MachineTypeCorrect, PTL DEF Spec, DataProcessing

-----------------------------------------------------------------------------
(* The address of an access, as a word and in halves.                       *)
LEMMA AddressInHalves ==
  ASSUME NEW a \in Word, NEW n
  PROVE  /\ 65536 * Half(a)[1] + Half(a)[2] = Num(a)
         /\ InMemory(Half(a), n) <=> Accessible(a, n)
<1>1. Half(a)[1] = 256 * a[1] + a[2] /\ Half(a)[2] = 256 * a[3] + a[4]
      BY DEF Half
<1>2. /\ a[1] \in Nat /\ a[1] <= 255 /\ a[2] \in Nat /\ a[2] <= 255
      /\ a[3] \in Nat /\ a[3] <= 255 /\ a[4] \in Nat /\ a[4] <= 255
      BY SMT DEF Word, Byte
<1>3. 65536 * Half(a)[1] + Half(a)[2] = Num(a)
      BY <1>1, <1>2, SMT DEF Num
<1>4. Half(a)[1] < 32768 <=> a[1] < 128
      BY <1>1, <1>2, SMT
<1> QED BY <1>3, <1>4, SMT DEF InMemory, Accessible

LEMMA AddressIsEffective ==
  ASSUME NEW p, NEW w, NEW n \in Nat, n <= 65535, arm_read_register(p, Rn(w)) \in Word
  PROVE  LET b == Half(arm_read_register(p, Rn(w)))
         IN  /\ Address(p, w, Small(n)) \in Word
             /\ Half(Address(p, w, Small(n))) =
                  IF Bit(w, 23) = 1 THEN Total(b, <<0, n>>, 0) ELSE Minus(b, <<0, n>>)
<1>1. Small(n) \in Word /\ Half(Small(n)) = <<0, n>>
      BY NumOfSmall
<1> DEFINE b == arm_read_register(p, Rn(w))
<1>2. Address(p, w, Small(n)) = IF Bit(w, 23) = 1 THEN Add(b, Small(n)) ELSE Sub(b, Small(n))
      BY DEF Address, AddressUp
<1>3. b \in Word
      OBVIOUS
<1> HIDE DEF b
<1>4. Add(b, Small(n)) \in Word /\ Sub(b, Small(n)) \in Word
      BY <1>1, <1>3, ArithmeticIsWord
<1>5. /\ Half(Add(b, Small(n))) = Total(Half(b), <<0, n>>, 0)
      /\ Half(Sub(b, Small(n))) = Minus(Half(b), <<0, n>>)
      BY <1>1, <1>3, AddIsTotal, SubIsMinus
<1> QED BY <1>2, <1>4, <1>5 DEF b

(* What was written is read back, and only the bytes of the access change.  *)
LEMMA WrittenIsRead ==
  ASSUME NEW m, NEW a \in Nat, NEW n \in Width, NEW v \in [1..n -> Byte], Accepts(a, n)
  PROVE  /\ Load(Store(m, a, n, v), a, n) = v
         /\ \A c \in Cell : Store(m, a, n, v)[c] # m[c] => c - a \in 0..n-1
<1>1. ASSUME NEW k \in 1..n
      PROVE  Store(m, a, n, v)[a + Lane(n, k) - 1] = v[k]
  <2> DEFINE c == a + Lane(n, k) - 1
  <2>1. Lane(n, k) \in 1..n /\ Lane(n, Lane(n, k)) = k
        BY DEF Lane, Width
  <2>2. c \in a .. a + n - 1 /\ c - a + 1 = Lane(n, k)
        BY <2>1 DEF Width
  <2>3. c \in Cell
        BY <2>2, AccessInside
  <2> QED BY <2>1, <2>2, <2>3 DEF Store
<1>2. Load(Store(m, a, n, v), a, n) = [k \in 1..n |-> v[k]]
      BY <1>1 DEF Load
<1>3. ASSUME NEW c \in Cell, Store(m, a, n, v)[c] # m[c] PROVE c - a \in 0..n-1
  <2>1. c \in a .. a + n - 1
        BY <1>3 DEF Store
  <2> QED BY <2>1 DEF Width
<1> QED BY <1>2, <1>3

(* The address, the width and the effect of the transfers PreIndexed is     *)
(* about, whichever handler executes them.                                  *)
LEMMA TransferExecuted ==
  ASSUME TypeOK, Step, Runs, Indexing(Instruction, 1, 1), Ordinary(Instruction)
  PROVE  LET w == Instruction
             n == TransferWidth(w)
             f == arm_fetch(core)
         IN  /\ n \in Width
             /\ \E a \in Word, junk \in Word :
                  /\ Half(a) = Effective(w)
                  /\ core' = arm_write_register(
                               IF Bit(w, 20) = 1
                               THEN arm_write_register(f, Rd(w), arm_read(f, a, n, junk))
                               ELSE arm_write(f, a, n, arm_read_register(f, Rd(w))),
                               Rn(w), a)
<1> DEFINE w == Instruction
           n == TransferWidth(w)
           f == arm_fetch(core)
           base == arm_read_register(f, Rn(w))
           Done(a, junk) == arm_write_register(
                               IF Bit(w, 20) = 1
                               THEN arm_write_register(f, Rd(w), arm_read(f, a, n, junk))
                               ELSE arm_write(f, a, n, arm_read_register(f, Rd(w))),
                               Rn(w), a)
<1>1. w \in Word /\ f \in Core
      BY Executed
<1>2. PICK junk \in Word : core' = select_execute_instruction(f, w, junk)
      BY Executed
<1>3. /\ Transfer(w) /\ Bit(w, 25) = 0 /\ (HalfTransfer(w) => Bit(w, 22) = 1)
      /\ Bit(w, 24) = 1 /\ Bit(w, 21) = 1 /\ Rn(w) # PC /\ Rd(w) # PC
      BY DEF Indexing, Ordinary, ByImmediate
<1>4. base = Left(w) /\ base \in Word
      BY <1>3, LeftIsRead
<1>5. WritesBack(w) /\ Bit(w, 25) # 1
      BY <1>3 DEF WritesBack
<1>6. n \in Width
      BY DEF TransferWidth, Width
<1>7. CASE HalfTransfer(w)
  <2> DEFINE k == 16 * Rs(w) + Rm(w)
             a == Address(f, w, Small(k))
  <2>1. k \in Nat /\ k <= 65535
        BY <1>1, Fields, SMT DEF Registers
  <2>2. Bit(w, 22) = 1 /\ Bit(w, 7) = 1 /\ Bit(w, 4) = 1 /\ Typeop(w) = 0 /\ n = 2
        BY <1>3, <1>7 DEF HalfTransfer, Transfer, Bits7And4, TransferWidth
  <2>3. core' = arm_load_store_h(f, w, junk)
        BY <1>2, <2>2 DEF select_execute_instruction
  <2>4. core' = Done(a, junk)
        BY <1>5, <2>2, <2>3 DEF arm_load_store_h
  <2>5. a \in Word /\ Half(a) = IF Bit(w, 23) = 1 THEN Total(Half(base), <<0, k>>, 0)
                                                 ELSE Minus(Half(base), <<0, k>>)
    <3> HIDE DEF k
    <3> QED BY <1>4, <2>1, AddressIsEffective
  <2>6. Half(a) = Effective(w)
    <3> HIDE DEF a
    <3> QED BY <1>4, <1>7, <2>5 DEF Effective
  <2> HIDE DEF a, Done
  <2>7. \E b \in Word, j \in Word : Half(b) = Effective(w) /\ core' = Done(b, j)
        BY <2>4, <2>5, <2>6
  <2> QED BY <1>6, <2>7 DEF Done
<1>8. CASE ~HalfTransfer(w)
  <2> DEFINE k == Low12(w)
             a == Address(f, w, Small(k))
             v == arm_read(f, a, n, junk)
  <2>1. k \in Nat /\ k <= 65535
        BY <1>1, Fields
  <2>2. Typeop(w) = 1 /\ n = IF Bit(w, 22) = 1 THEN 1 ELSE 4
        BY <1>3, <1>8 DEF HalfTransfer, Transfer, TransferWidth
  <2>3. core' = arm_load_store(f, w, junk)
        BY <1>2, <2>2 DEF select_execute_instruction
  <2>4. core' = IF Bit(w, 20) = 1 THEN LDR_LDRB(f, w, a, junk)
                ELSE arm_write_register(STR_STRB(f, w, a), Rn(w), a)
        BY <1>5, <2>3 DEF arm_load_store
  <2>5. LDR_LDRB(f, w, a, junk) = arm_write_register(arm_write_register(f, Rd(w), v), Rn(w), a)
    <3> HIDE DEF a
    <3> QED BY <1>3, <2>2 DEF LDR_LDRB
  <2>6. core' = Done(a, junk)
    <3> HIDE DEF a
    <3> QED BY <2>2, <2>4, <2>5 DEF STR_STRB
  <2>7. a \in Word /\ Half(a) = IF Bit(w, 23) = 1 THEN Total(Half(base), <<0, k>>, 0)
                                                 ELSE Minus(Half(base), <<0, k>>)
    <3> HIDE DEF k
    <3> QED BY <1>4, <2>1, AddressIsEffective
  <2>8. Half(a) = Effective(w)
    <3> HIDE DEF a
    <3> QED BY <1>4, <1>8, <2>7 DEF Effective
  <2> HIDE DEF a, Done
  <2>9. \E b \in Word, j \in Word : Half(b) = Effective(w) /\ core' = Done(b, j)
        BY <2>6, <2>7, <2>8
  <2> QED BY <1>6, <2>9 DEF Done
<1> QED BY <1>7, <1>8, Zenon

LEMMA PreIndexedDone ==
  ASSUME TypeOK, Step, Runs, Indexing(Instruction, 1, 1), Ordinary(Instruction)
  PROVE  LET w == Instruction
             n == TransferWidth(w)
             x == Effective(w)
             at == 65536 * x[1] + x[2]
         IN  /\ Half(core'.r[Rn(w)]) = x
             /\ core'.r[PC] = Add(At, Small(4))
             /\ Unchanged(Registers \ {Rd(w), Rn(w), PC})
             /\ IF Bit(w, 20) = 1
                THEN /\ core'.m = core.m
                     /\ InMemory(x, n) => core'.r[Rd(w)] = Extend(Load(core.m, at, n), n)
                ELSE /\ core'.r[Rd(w)] = core.r[Rd(w)]
                     /\ InMemory(x, n) => Load(core'.m, at, n) = Truncate(core.r[Rd(w)], n)
                     /\ \A c \in Cell : core'.m[c] # core.m[c] =>
                          InMemory(x, n) /\ c - at \in 0..n-1
<1> DEFINE w == Instruction
           n == TransferWidth(w)
           f == arm_fetch(core)
           x == Effective(w)
           at == 65536 * x[1] + x[2]
<1>1. /\ w \in Word /\ At \in Word /\ f \in Core /\ f.m = core.m /\ core \in Core
      /\ \A i \in Registers \ {PC} : f.r[i] = core.r[i]
      /\ f.r[PC] = Add(At, Small(4))
      BY Executed DEF TypeOK
<1>2. PICK a \in Word, junk \in Word :
        /\ Half(a) = x
        /\ core' = arm_write_register(
                     IF Bit(w, 20) = 1
                     THEN arm_write_register(f, Rd(w), arm_read(f, a, n, junk))
                     ELSE arm_write(f, a, n, arm_read_register(f, Rd(w))), Rn(w), a)
      BY TransferExecuted, Zenon
<1>3. n \in Width
      BY TransferExecuted, Zenon
<1>4. at = Num(a) /\ Num(a) \in Nat /\ (InMemory(x, n) <=> Accessible(a, n))
      BY <1>2, AddressInHalves, NumIsNat
<1>5. /\ Rn(w) \in Registers /\ Rd(w) \in Registers /\ PC \in Registers
      /\ Rn(w) # PC /\ Rd(w) # PC /\ Rd(w) # Rn(w)
      BY <1>1, Fields, CoreParts DEF Ordinary
<1> HIDE DEF w, n, f, x, at
<1>6. Accessible(a, n) => Accepts(Num(a), n)
      BY DEF Accessible
<1>7. CASE Bit(w, 20) = 1
  <2> DEFINE v == arm_read(f, a, n, junk)
             q == arm_write_register(f, Rd(w), v)
  <2>1. v \in Word
        BY <1>1, <1>3, ReadIsWord
  <2>2. Accessible(a, n) => v = Extend(Load(core.m, at, n), n)
        BY <1>1, <1>4 DEF arm_read
  <2>3. core' = arm_write_register(q, Rn(w), a)
        BY <1>2, <1>7
  <2> HIDE DEF v
  <2>4. /\ q \in Core /\ q.m = f.m /\ q.r[Rd(w)] = v
        /\ \A i \in Registers \ {Rd(w)} : q.r[i] = f.r[i]
        BY <1>1, <1>5, <2>1, RegisterWritten
  <2> HIDE DEF q
  <2>5. /\ core'.m = q.m /\ core'.r[Rn(w)] = a
        /\ \A i \in Registers \ {Rn(w)} : core'.r[i] = q.r[i]
    <3>1. q \in Core /\ a \in Word /\ Rn(w) \in Registers
          BY <1>5, <2>4
    <3> QED BY <2>3, <3>1, RegisterWritten
  <2>6. /\ Half(core'.r[Rn(w)]) = x /\ core'.r[PC] = Add(At, Small(4))
        /\ Unchanged(Registers \ {Rd(w), Rn(w), PC})
        BY <1>1, <1>2, <1>5, <2>4, <2>5 DEF Unchanged
  <2>7. /\ core'.m = core.m
        /\ InMemory(x, n) => core'.r[Rd(w)] = Extend(Load(core.m, at, n), n)
        BY <1>1, <1>4, <1>5, <2>2, <2>4, <2>5
  <2> QED BY <1>7, <2>6, <2>7, SMT DEF w, n, x, at
<1>8. CASE Bit(w, 20) # 1
  <2> DEFINE d == core.r[Rd(w)]
             v == Truncate(d, n)
             q == arm_write(f, a, n, d)
  <2>1. arm_read_register(f, Rd(w)) = d /\ d \in Word
        BY <1>1, <1>5, CoreParts DEF arm_read_register
  <2>2. core' = arm_write_register(q, Rn(w), a)
        BY <1>2, <1>8, <2>1
  <2>3. v \in [1..n -> Byte]
        BY <1>3, <2>1, TruncateIsTyped
  <2>4. q \in Core /\ q.r = f.r
        BY <1>1, <1>3, <2>1, MemoryWritten
  <2>5. /\ Accessible(a, n) => q.m = Store(core.m, at, n, v)
        /\ ~Accessible(a, n) => q.m = core.m
        BY <1>1, <1>4 DEF arm_write, Core
  <2> HIDE DEF d, v, q
  <2>6. /\ core'.m = q.m /\ core'.r[Rn(w)] = a
        /\ \A i \in Registers \ {Rn(w)} : core'.r[i] = q.r[i]
    <3>1. q \in Core /\ a \in Word /\ Rn(w) \in Registers
          BY <1>5, <2>4
    <3> QED BY <2>2, <3>1, RegisterWritten
  <2>7. /\ Half(core'.r[Rn(w)]) = x /\ core'.r[PC] = Add(At, Small(4))
        /\ Unchanged(Registers \ {Rd(w), Rn(w), PC}) /\ core'.r[Rd(w)] = d
        BY <1>1, <1>2, <1>5, <2>4, <2>6 DEF Unchanged, d
  <2>8. Accessible(a, n) =>
          /\ Load(core'.m, at, n) = v
          /\ \A c \in Cell : core'.m[c] # core.m[c] => c - at \in 0..n-1
        BY <1>3, <1>4, <1>6, <2>3, <2>5, <2>6, WrittenIsRead
  <2>9. ~Accessible(a, n) => core'.m = core.m
        BY <2>5, <2>6
  <2>10. /\ InMemory(x, n) => Load(core'.m, at, n) = v
         /\ \A c \in Cell : core'.m[c] # core.m[c] => InMemory(x, n) /\ c - at \in 0..n-1
         BY <1>4, <2>8, <2>9
  <2> QED BY <1>8, <2>7, <2>10, SMT DEF w, n, x, at, v, d
<1> QED BY <1>7, <1>8, SMT

(* A pre-indexed transfer of any width moves its value between its register *)
(* and the memory, updates its base and changes nothing else.               *)
THEOREM PreIndexedIsCorrect == Spec => PreIndexed
<1>1. TypeOK /\ [Next]_vars =>
        [LET w == Instruction
             n == TransferWidth(w)
             x == Effective(w)
         IN
         Step /\ Runs /\ Indexing(w, 1, 1) /\ Ordinary(w)
           => /\ Half(core'.r[Rn(w)]) = x
              /\ core'.r[PC] = Add(At, Small(4))
              /\ Unchanged(Registers \ {Rd(w), Rn(w), PC})
              /\ IF Bit(w, 20) = 1
                 THEN /\ core'.m = core.m
                      /\ InMemory(x, n) => core'.r[Rd(w)] = Extend(Reads(core.m, x, n), n)
                 ELSE /\ core'.r[Rd(w)] = core.r[Rd(w)]
                      /\ InMemory(x, n) => Reads(core'.m, x, n) = Truncate(core.r[Rd(w)], n)
                      /\ \A c \in Cell : core'.m[c] # core.m[c] =>
                           InMemory(x, n) /\ c - (65536 * x[1] + x[2]) \in 0..n-1]_vars
      BY PreIndexedDone, SMT DEF Reads
<1> QED BY <1>1, MachineTypeCorrect, PTL DEF Spec, PreIndexed
=============================================================================
