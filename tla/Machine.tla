------------------------------ MODULE Machine ------------------------------
(***************************************************************************)
(* The simulated machine as a state machine: arm_step, called by the       *)
(* debugger's step and continue, and the exceptions irq_listener raises    *)
(* between two steps.  Threads and lock are in Simulator; here the         *)
(* instructions have their real encoding and their real effect.            *)
(***************************************************************************)
EXTENDS ArmInstruction

CONSTANTS
  Loaded,    (* the cores the debugger may have set up before execution    *)
  Junk,      (* the words an uninitialised local variable may hold         *)
  MaxCycles  (* a bound on the number of steps of a run                    *)

ASSUME MachineAssumption ==
  Loaded \subseteq Core /\ Junk \subseteq Word /\ MaxCycles \in Nat

VARIABLES
  core,      (* registers and memory                                       *)
  rc,        (* the value of the last call of arm_step                     *)
  cycles     (* cycle_count                                                *)
vars == <<core, rc, cycles>>

Init == core \in Loaded /\ rc = 0 /\ cycles = 0

Step ==
  /\ cycles < MaxCycles
  /\ cycles' = cycles + 1
  /\ \E junk \in Junk :
       LET s == arm_step(core, junk) IN core' = s.core /\ rc' = s.rc

Exception == \E e \in Exceptions :
               core' = arm_exception(core, e) /\ UNCHANGED <<rc, cycles>>

Next == Step \/ Exception
Spec == Init /\ [][Next]_vars
-----------------------------------------------------------------------------
(* The instruction a step executes, when its condition holds, and the       *)
(* address it was fetched from.                                             *)
Instruction == Fetched(core)
Runs == ~check_cond_failed(read_cpsr(arm_fetch(core)), Cond(Instruction))
At == FetchAddress(core)
Unchanged(S) == \A i \in S : core'.r[i] = core.r[i]

TypeOK == core \in Core /\ rc \in {0, RESET} /\ cycles \in 0..MaxCycles

(* A reference for the data-processing values: bitwise operations on sets   *)
(* of bits, arithmetic on 16-bit halves.                                    *)
Bits(w) == {i \in 0..31 : Bit(w, i) = 1}
Half(w) == <<256 * w[1] + w[2], 256 * w[3] + w[4]>>
Total(x, y, z) ==
  LET lo == x[2] + y[2] + z IN <<(x[1] + y[1] + lo \div 65536) % 65536, lo % 65536>>
Minus(x, y) == Total(x, <<65535 - y[1], 65535 - y[2]>>, 1)

Correct(op, a, b, carry, v) ==
  CASE op = 0  -> Bits(v) = Bits(a) \cap Bits(b)
    [] op = 1  -> Bits(v) = (Bits(a) \ Bits(b)) \cup (Bits(b) \ Bits(a))
    [] op = 2  -> Half(v) = Minus(Half(a), Half(b))
    [] op = 3  -> Half(v) = Minus(Half(b), Half(a))
    [] op = 4  -> Half(v) = Total(Half(a), Half(b), 0)
    [] op = 5  -> Half(v) = Total(Half(a), Half(b), carry)
    [] op = 6  -> Half(v) = Minus(Minus(Half(a), Half(b)), <<0, 1 - carry>>)
    [] op = 7  -> Half(v) = Minus(Minus(Half(b), Half(a)), <<0, 1 - carry>>)
    [] op = 12 -> Bits(v) = Bits(a) \cup Bits(b)
    [] op = 13 -> Bits(v) = Bits(b)
    [] op = 14 -> Bits(v) = Bits(a) \ Bits(b)
    [] op = 15 -> Bits(v) = (0..31) \ Bits(b)

(* Instruction w at At has computed v = op(a, b) into Rd and nothing else.  *)
Left(w) == IF Rn(w) = PC THEN Add(At, Small(8)) ELSE core.r[Rn(w)]
Computes(w, b) ==
  /\ Correct(Opcode(w), Left(w), b, Bit(read_cpsr(arm_fetch(core)), 29), core'.r[Rd(w)])
  /\ core'.r[PC] = Add(At, Small(4))
  /\ Unchanged(Registers \ {Rd(w), PC})
  /\ core'.m = core.m

Immediate(w) ==
  /\ Typeop(w) = 0 /\ Bit(w, 25) = 1 /\ Bit(w, 20) = 0 /\ Rs(w) = 0
  /\ Opcode(w) \notin 8..11 /\ Rd(w) # PC /\ At[4] % 4 = 0
Bits7And4(w) == Bit(w, 7) = 1 /\ Bit(w, 4) = 1

(* A data-processing instruction with an 8-bit immediate operand and S      *)
(* clear computes what the ARM manual says into Rd and only there, with the *)
(* pc read as its own address + 8 (arm_core.c), and goes on to the next     *)
(* instruction.  Excepted are sbc and rsc, whose borrow is wrong, and the   *)
(* instructions with S set: they should update the flags, and update_flags  *)
(* leaves the CPSR as it was.                                               *)
DataProcessing ==
  [][LET w == Instruction IN
     Step /\ Runs /\ Immediate(w) /\ ~Bits7And4(w) /\ Opcode(w) \notin {6, 7}
       => Computes(w, Small(w[4]))]_vars
-----------------------------------------------------------------------------
(* The effective address of a load or store with an immediate offset, in    *)
(* halves, and the width of a transfer.                                     *)
Transfer(w) == Typeop(w) = 1 \/ (Typeop(w) = 0 /\ Bits7And4(w))
HalfTransfer(w) == Typeop(w) = 0
TransferWidth(w) == IF HalfTransfer(w) THEN 2 ELSE IF Bit(w, 22) = 1 THEN 1 ELSE 4
ByImmediate(w) == Bit(w, 25) = 0 /\ (HalfTransfer(w) => Bit(w, 22) = 1)
Effective(w) ==
  LET offset == <<0, IF HalfTransfer(w) THEN 16 * Rs(w) + Rm(w) ELSE Low12(w)>>
  IN  IF Bit(w, 23) = 1 THEN Total(Half(Left(w)), offset, 0)
                        ELSE Minus(Half(Left(w)), offset)
(* The bytes at address x of memory m, x being in halves.                   *)
Reads(m, x, n) == Load(m, 65536 * x[1] + x[2], n)
InMemory(x, n) == x[1] < 32768 /\ Accepts(65536 * x[1] + x[2], n)

Indexing(w, p, wb) == Transfer(w) /\ ByImmediate(w) /\ Bit(w, 24) = p /\ Bit(w, 21) = wb
Ordinary(w) == Rn(w) # PC /\ Rd(w) \notin {PC, Rn(w)}

(* A pre-indexed transfer of any width moves its value between Rd and the   *)
(* memory at Rn +/- offset, leaves that address in Rn, and changes nothing  *)
(* else; a store outside the memory changes no byte of it.                  *)
PreIndexed ==
  [][LET w == Instruction
         n == TransferWidth(w)
         x == Effective(w)
     IN
     Step /\ Runs /\ Indexing(w, 1, 1) /\ Ordinary(w)
       => /\ Half(core'.r[Rn(w)]) = x
          /\ core'.r[PC] = Add(At, Small(4))
          /\ Unchanged(Registers \ {Rd(w), Rn(w), PC})
          /\ IF Bit(w, 20) = 1
             THEN /\ core'.m = core.m
                  /\ InMemory(x, n) => core'.r[Rd(w)] = Extend(Reads(core.m, x, n), n)
             ELSE /\ core'.r[Rd(w)] = core.r[Rd(w)]
                  /\ InMemory(x, n) => Reads(core'.m, x, n) = Truncate(core.r[Rd(w)], n)
                  /\ \A c \in Cell : core'.m[c] # core.m[c] =>
                       InMemory(x, n) /\ c - (65536 * x[1] + x[2]) \in 0..n-1]_vars

(* b and bl go to their own address + 8 + 4 * the signed 24-bit offset.     *)
BranchTarget ==
  [][LET w == Instruction
         x == 4 * (65536 * w[2] + 256 * w[3] + w[4])
         sign == IF w[2] >= 128 THEN 64512 ELSE 0
     IN
     Step /\ Runs /\ Typeop(w) = 2 /\ Bit(w, 25) = 1 /\ At[4] % 4 = 0
       => /\ Half(core'.r[PC]) = Total(Half(Add(At, Small(8))),
                                       <<x \div 65536 + sign, x % 65536>>, 0)
          /\ Unchanged(Registers \ {14, PC}) /\ core'.m = core.m]_vars
-----------------------------------------------------------------------------
(* A step that resets the processor does it before touching anything else:  *)
(* registers 0 to 14 and the memory survive, and execution restarts at 0.   *)
ResetKeepsData ==
  [][Step /\ rc' = RESET
       => core'.r[PC] = Zero /\ Unchanged(0..14) /\ core'.m = core.m]_vars

(* A program that runs off the memory executes the pc itself as an          *)
(* instruction: for the addresses below 2^28, whose condition field is eq,  *)
(* that is a reset, never an arbitrary instruction.                         *)
RunningOffResets ==
  [][Step /\ ~Accessible(At, 4) /\ read_cpsr(core)[1] < 16
     /\ read_cpsr(arm_fetch(core))[1] < 16 => rc' = RESET]_vars

(* A step disturbs at most the registers its instruction names, the link    *)
(* register and the pc, and memory only for a store.                        *)
StepFrame ==
  [][LET w == Instruction IN
     Step => /\ Unchanged(Registers \ {Rd(w), Rn(w), 14, PC})
             /\ core'.m # core.m => Runs /\ Transfer(w) /\ Bit(w, 20) = 0]_vars
=============================================================================
