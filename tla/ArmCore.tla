------------------------------ MODULE ArmCore ------------------------------
(***************************************************************************)
(* registers.c, arm_core.c and arm_exception.c: the state of the processor *)
(* and the accessors every instruction goes through.  A core p is a record *)
(* with the registers p.r and the memory p.m.                              *)
(*                                                                         *)
(* struct registers_data holds regs[15] and then cpsr, and register 15 is  *)
(* accessed as regs[15]: the program counter and the CPSR are one word in  *)
(* memory, p.r[15].  There is one mode, without an spsr (get_mode returns  *)
(* 0), so every register accessor is one of the two below.  The cycle      *)
(* counter, which only traces print, is a variable of Machine.             *)
(***************************************************************************)
EXTENDS Memory

RESET == 1
INTERRUPT == 6
Exceptions == 1..7        (* the exception numbers of arm_constants.h       *)
exception_names ==
  <<"reset", "undefined instruction", "software interrupt", "prefetch abort", "data abort",
    "interrupt", "fast interrupt">>

Registers == 0..15
PC == 15
Core == [r : [Registers -> Word], m : [Cell -> Byte]]

(* arm_read_cpsr, arm_write_cpsr, arm_write_usr_register.                   *)
read_cpsr(p) == p.r[PC]
write_cpsr(p, w) == [p EXCEPT !.r[PC] = w]
arm_write_register(p, reg, w) == [p EXCEPT !.r[reg] = w]

(* arm_read_usr_register and arm_read_register: the pc reads 4 further than *)
(* it is, with bit 1 cleared.                                               *)
arm_read_register(p, reg) ==
  IF reg = PC THEN And(Add(p.r[PC], Small(4)), Not(Small(2))) ELSE p.r[reg]

(* Only RESET is supported; the CPSR is written first, then the pc.         *)
(* Mutation: the pc is not reset.                                           *)
ResetKeepsPc(p, exception) ==
  IF exception = RESET THEN write_cpsr(p, Small(467)) ELSE p
arm_exception(p, exception) ==
  IF exception = RESET
  THEN arm_write_register(write_cpsr(p, Small(467)), PC, Zero)
  ELSE p

(* The memory accesses of arm_core.c, addresses being 32-bit words.  An     *)
(* address of 2^31 or more is beyond any memory.                            *)
Accessible(a, n) == a[1] < 128 /\ Accepts(Num(a), n)

(* A failed read leaves the local variable of its caller as it was: junk.   *)
arm_read(p, a, n, junk) ==
  IF Accessible(a, n) THEN Extend(Load(p.m, Num(a), n), n)
                      ELSE Extend(Truncate(junk, n), n)
arm_write(p, a, n, w) ==
  IF Accessible(a, n)
  THEN [p EXCEPT !.m = Store(p.m, Num(a), n, Truncate(w, n))]
  ELSE p

(* The fetch moves the pc past the instruction it reads.  arm_execute_      *)
(* instruction ignores its result: when the read fails, the word executed   *)
(* is the CPSR, that is the pc, read before the fetch.  Mutation: it is     *)
(* mov r0, r0.                                                              *)
FetchAddress(p) == Sub(arm_read_register(p, PC), Small(4))
arm_fetch(p) == arm_write_register(p, PC, Add(FetchAddress(p), Small(4)))
FetchedOrNop(p) == arm_read(p, FetchAddress(p), 4, <<225, 160, 0, 0>>)
Fetched(p) == arm_read(p, FetchAddress(p), 4, read_cpsr(p))
=============================================================================
