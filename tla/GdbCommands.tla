---------------------------- MODULE GdbCommands ----------------------------
(***************************************************************************)
(* The command handlers of gdb_protocol.c: what each reads from or writes  *)
(* to the core p, and what it replies.  Hexadecimal text and packet frames *)
(* are left out: a request is a record with the command letter and its     *)
(* arguments, a reply the value it carries.                                *)
(***************************************************************************)
EXTENDS ArmInstruction, Sequences

(* gdb_send_stop_reason.                                                    *)
stop_reason(exception) ==
  CASE exception = 2 -> "S04"
    [] exception \in {4, 5} -> "S10"
    [] exception \notin {2, 4, 5} -> "S05"

(* cont compares the word at the pc with a mask of the undefined            *)
(* instruction gdb plants as a breakpoint, 0xE7F000F0.                      *)
IsBreakpoint(w) ==
  w[1] = 231 /\ w[2] \in 240..255 /\ w[4] \div 16 = 15

(* The pc gdb is told is 4 less than the pc that reads: that of the next    *)
(* instruction, which is also where arm_fetch reads.                        *)
NextPc(p) == FetchAddress(p)

(* g: the packet is filled with r0..r14, then the pc, then the CPSR.        *)
ReadGeneral(p) == [i \in 0..14 |-> p.r[i]]

(* G: r0..r14 then r15, then the CPSR.                                      *)
WriteGeneral(p, values) == [p EXCEPT !.r = [i \in Registers |-> values[i]]]
WriteStatus(p, values) == write_cpsr(p, values[16])

(* m: bytes are read until one is refused; an access past the guard ends    *)
(* the reply without an error.                                              *)
read_memory(p, address, size) ==
  LET readable == {i \in 1..size : Accepts(address + i - 1, 1)}
  IN  [i \in readable |-> p.m[address + i - 1]]

(* X: the first address must be below memory_get_size, a number of words;   *)
(* then bytes are written until one is refused, and the reply is an error   *)
(* if one is.  Mutation: every byte is written.                             *)
WriteEverything(p, address, bytes) ==
  [p EXCEPT !.m = [c \in Cell \cup {address + i - 1 : i \in DOMAIN bytes} |->
     IF c - address + 1 \in DOMAIN bytes THEN bytes[c - address + 1] ELSE @[c]]]
write_memory(p, address, bytes) ==
  IF address < Size
  THEN [p EXCEPT !.m = [c \in Cell |->
          IF c - address + 1 \in DOMAIN bytes THEN bytes[c - address + 1] ELSE @[c]]]
  ELSE p
WriteOk(address, bytes) ==
  address < Size /\ \A i \in DOMAIN bytes : Accepts(address + i - 1, 1)

(* p: the number is sent in hexadecimal and read by atoi, in decimal up to  *)
(* the first letter.  Register 15 is told as the next pc.  P reads its      *)
(* number with %x.  In both, assert(reg < 16) aborts the simulator.         *)
atoi(reg) == IF reg % 16 < 10 THEN 10 * (reg \div 16) + (reg % 16) ELSE reg \div 16
read_register(p, reg) == IF atoi(reg) = PC THEN NextPc(p) ELSE p.r[atoi(reg)]
Aborts(r) == \/ r.cmd = "p" /\ atoi(r.reg) \notin Registers
             \/ r.cmd = "P" /\ r.reg \notin Registers

(* set_thread accepts the threads "any" and "all".                          *)
set_thread(type, value) ==
  IF type \in {"c", "g"} /\ value \in {-1, 0} THEN "OK" ELSE "E01"

(* The handlers that do their whole work between taking and releasing the   *)
(* lock in one piece, e being the exception of the last step: ? H q m X P p.*)
Simple == {"?", "H", "q", "m", "X", "P", "p"}
SimpleReply(p, e, r) ==
  CASE r.cmd = "?" -> stop_reason(e)
    [] r.cmd = "H" -> set_thread(r.type, r.value)
    [] r.cmd = "q" -> r.answer
    [] r.cmd = "m" -> read_memory(p, r.address, r.size)
    [] r.cmd = "X" -> IF WriteOk(r.address, r.bytes) THEN "OK" ELSE "E02"
    [] r.cmd = "P" -> "OK"
    [] r.cmd = "p" -> read_register(p, r.reg)
SimpleEffect(p, r) ==
  CASE r.cmd = "X" -> write_memory(p, r.address, r.bytes)
    [] r.cmd = "P" -> arm_write_register(p, r.reg, r.word)
    [] r.cmd \notin {"X", "P"} -> p
=============================================================================
