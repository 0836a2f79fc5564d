-------------------------- MODULE SimulatorProofs --------------------------
(***************************************************************************)
(* Proofs about the lock of Simulator, for any number of requests and      *)
(* interrupts, any memory and any program: the handlers and the exceptions *)
(* exclude each other, the trace state is clean whenever the lock is free, *)
(* and the state keeps its types.                                          *)
(***************************************************************************)
EXTENDS Simulator, ArmProofs

(* The holder of the lock is known from where the threads are.  This is     *)
(* what excludes them, and mutual exclusion alone would not be inductive.   *)
LockInv ==
  /\ lock \in {"free", "gdb", "irq"}
  /\ gdb \in GdbLabels /\ irq \in IrqLabels
  /\ lock = "gdb" <=> GdbInside
  /\ lock = "irq" <=> IrqInside

(* Every handler starts inside the lock.                                    *)
LEMMA FirstLabelInside ==
  ASSUME NEW cmd
  PROVE  FirstLabel(cmd) \in {"anticipate", "kill", "fetch", "quiet", "simple"}
BY DEF FirstLabel, Handlers

(* The threads are outside the lock when they start.                        *)
LEMMA LockInvInit == Init => LockInv
BY DEF Init, LockInv, GdbInside, IrqInside, GdbLabels, IrqLabels

(* The steps of gdb_listener preserve the lock invariant.                   *)
LEMMA LockInvGdb == LockInv /\ Gdb => LockInv'
<1> SUFFICES ASSUME LockInv, Gdb PROVE LockInv'
    OBVIOUS
<1> USE DEF LockInv, GdbInside, IrqInside, GdbLabels, IrqLabels, gdbUnchanged
<1>1. CASE packet_analysis \/ send_unsupported \/ end_of_file
      BY <1>1 DEF packet_analysis, send_unsupported, end_of_file
<1>2. CASE ack_fails \/ register_handler_aborts
      BY <1>2 DEF ack_fails, register_handler_aborts, Exits
<1>3. CASE gdb_lock
      BY <1>3, FirstLabelInside DEF gdb_lock
<1>4. CASE gdb_unlock
      BY <1>4 DEF gdb_unlock
<1>5. CASE send \/ simple \/ send_stop_reason \/ kill_request
      BY <1>5 DEF send, simple, send_stop_reason, kill_request, Reply
<1>6. CASE \/ trace_disable \/ read_or_write_register \/ read_general_registers
           \/ read_status_register \/ write_general_registers
           \/ write_status_register \/ trace_enable
      BY <1>6 DEF trace_disable, read_or_write_register, read_general_registers,
                  read_status_register, write_general_registers,
                  write_status_register, trace_enable
<1>7. CASE anticipate \/ fetch \/ execute
      BY <1>7 DEF anticipate, fetch, execute
<1> QED BY <1>1, <1>2, <1>3, <1>4, <1>5, <1>6, <1>7 DEF Gdb

(* So do those of irq_listener.                                             *)
LEMMA LockInvIrq == LockInv /\ Irq => LockInv'
<1> SUFFICES ASSUME LockInv, Irq PROVE LockInv'
    OBVIOUS
<1> USE DEF LockInv, GdbInside, IrqInside, GdbLabels, IrqLabels, irqUnchanged
<1>1. CASE irq_accept
      BY <1>1 DEF irq_accept
<1>2. CASE irq_lock
      BY <1>2 DEF irq_lock
<1>3. CASE reset_cpsr \/ reset_pc
      BY <1>3 DEF reset_cpsr, reset_pc
<1>4. CASE irq_unlock
      BY <1>4 DEF irq_unlock
<1> QED BY <1>1, <1>2, <1>3, <1>4 DEF Irq

(* The steps of main, of the clients and of failures do not touch the lock. *)
LEMMA RestKeepsLock ==
  Main \/ Outside \/ Failure \/ UNCHANGED vars => UNCHANGED <<lock, gdb, irq, trace>>
BY DEF Main, join, destroy, return, mainUnchanged, Outside, GdbSends, GdbReads,
       GdbCloses, IrqSent, Failure, WriteFails, irq_read_fails, Exits, vars, trace

LEMMA LockInvStep == LockInv /\ [Next]_vars => LockInv'
<1> SUFFICES ASSUME LockInv, [Next]_vars PROVE LockInv'
    OBVIOUS
<1>1. CASE Gdb
      BY <1>1, LockInvGdb
<1>2. CASE Irq
      BY <1>2, LockInvIrq
<1>3. CASE Main \/ Outside \/ Failure \/ UNCHANGED vars
      BY <1>3, RestKeepsLock DEF LockInv, GdbInside, IrqInside
<1> QED BY <1>1, <1>2, <1>3 DEF Next

LEMMA LockInvariant == Spec => []LockInv
BY LockInvInit, LockInvStep, PTL DEF Spec

(* A handler of gdb_protocol.c and an exception of irq_listener are never   *)
(* in the target at the same time.                                          *)
THEOREM HandlersExcludeExceptions == Spec => []MutualExclusion
<1>1. LockInv => MutualExclusion
      BY DEF LockInv, MutualExclusion
<1> QED BY <1>1, LockInvariant, PTL
-----------------------------------------------------------------------------
(* Tracing is only off between trace_disable and trace_enable, and the      *)
(* stack holds one entry between a push and its pop.                        *)
Entries(b) == IF b THEN 1 ELSE 0
TraceInv ==
  /\ enabled \in BOOLEAN /\ depth \in Int
  /\ ~enabled => gdb \in {"registers", "status", "loud", "peek"}
  /\ gdb \in {"registers", "status", "peek"} => ~enabled
  /\ depth = Entries(gdb = "execute") + Entries(irq = "pc")

LEMMA TraceInvInit == Init => TraceInv
BY DEF Init, TraceInv, Entries

(* The steps of gdb_listener, at most one of which traces at a time.        *)
LEMMA TraceInvGdb == LockInv /\ TraceInv /\ Gdb => TraceInv'
<1> SUFFICES ASSUME LockInv, TraceInv, Gdb PROVE TraceInv'
    OBVIOUS
<1> USE DEF TraceInv, Entries, gdbUnchanged, trace
<1>1. CASE packet_analysis \/ send_unsupported \/ end_of_file \/ gdb_unlock
      BY <1>1 DEF packet_analysis, send_unsupported, end_of_file, gdb_unlock
<1>2. CASE ack_fails \/ register_handler_aborts
      BY <1>2 DEF ack_fails, register_handler_aborts, Exits
<1>3. CASE gdb_lock
      BY <1>3, FirstLabelInside DEF gdb_lock
<1>4. CASE send \/ simple \/ send_stop_reason \/ kill_request
      BY <1>4 DEF send, simple, send_stop_reason, kill_request, Reply
<1>5. CASE trace_disable \/ trace_enable
      BY <1>5 DEF trace_disable, trace_enable
<1>6. CASE \/ read_or_write_register \/ read_general_registers
           \/ read_status_register \/ write_general_registers \/ write_status_register
      BY <1>6 DEF read_or_write_register, read_general_registers,
                  read_status_register, write_general_registers, write_status_register
<1>7. CASE anticipate
      BY <1>7 DEF anticipate
<1>8. CASE fetch
      BY <1>8 DEF fetch, Push
<1>9. CASE execute
      BY <1>9 DEF execute, Pop
<1> QED BY <1>1, <1>2, <1>3, <1>4, <1>5, <1>6, <1>7, <1>8, <1>9 DEF Gdb

(* An exception traces its accesses under the lock, so with tracing on.     *)
LEMMA TraceInvIrq == LockInv /\ TraceInv /\ Irq => TraceInv'
<1> SUFFICES ASSUME LockInv, TraceInv, Irq PROVE TraceInv'
    OBVIOUS
<1> USE DEF TraceInv, Entries, irqUnchanged, trace
<1>1. IrqInside => enabled
      BY DEF LockInv, GdbInside, GdbLabels
<1>2. CASE irq_accept \/ irq_lock \/ irq_unlock
      BY <1>2 DEF irq_accept, irq_lock, irq_unlock
<1>3. CASE reset_cpsr
      BY <1>1, <1>3 DEF reset_cpsr, Push, IrqInside
<1>4. CASE reset_pc
      BY <1>1, <1>4 DEF reset_pc, Pop, IrqInside
<1> QED BY <1>2, <1>3, <1>4 DEF Irq

LEMMA TraceInvStep == LockInv /\ TraceInv /\ [Next]_vars => TraceInv'
<1> SUFFICES ASSUME LockInv, TraceInv, [Next]_vars PROVE TraceInv'
    OBVIOUS
<1>1. CASE Gdb
      BY <1>1, TraceInvGdb
<1>2. CASE Irq
      BY <1>2, TraceInvIrq
<1>3. CASE Main \/ Outside \/ Failure \/ UNCHANGED vars
      BY <1>3, RestKeepsLock DEF TraceInv, trace
<1> QED BY <1>1, <1>2, <1>3 DEF Next

LEMMA TraceInvariant == Spec => []TraceInv
BY TraceInvInit, TraceInvStep, LockInvariant, PTL DEF Spec

(* Whenever nobody holds the lock, trace.c is on and its stack is empty.    *)
THEOREM TraceIsClean == Spec => []TraceClean
<1>1. LockInv /\ TraceInv => TraceClean
      BY DEF LockInv, TraceInv, TraceClean, Entries, GdbInside, IrqInside, GdbLabels
<1> QED BY <1>1, LockInvariant, TraceInvariant, PTL

(* The accesses of the program and of the exceptions are traced and those   *)
(* made for gdb are not, each with its own location on the stack.           *)
THEOREM TraceIsFaithful == Spec => []TraceFaithful
<1>1. LockInv /\ TraceInv => TraceFaithful
  <2> SUFFICES ASSUME LockInv, TraceInv PROVE TraceFaithful
      OBVIOUS
  <2>1. gdb = "execute" => irq # "pc"
        BY DEF LockInv, GdbInside, IrqInside, GdbLabels
  <2>2. irq \in {"cpsr", "pc"} => enabled
        BY DEF LockInv, TraceInv, GdbInside, IrqInside, GdbLabels
  <2> QED BY <2>1, <2>2 DEF TraceInv, TraceFaithful, Entries
<1> QED BY <1>1, LockInvariant, TraceInvariant, PTL
-----------------------------------------------------------------------------
(* Type correctness: between the lock and the answer of a handler there is  *)
(* a request, and arm_step has a word to execute after its fetch.           *)
TypeInv ==
  /\ TypeOK
  /\ gdb \notin {"scan", "unlock", "done"} => request \in Requests
  /\ gdb = "execute" => mot \in Word

targetTyped == core \in Core /\ exception \in {0, RESET}
clientTyped ==
  /\ signal \in Exceptions \cup {None} /\ line \in Seq(Exceptions)
  /\ client \in {"open", "closed"}
  /\ sent \in 0..MaxRequests /\ irqs \in 0..MaxIrqs
  /\ out \in BOOLEAN /\ heap \in {"live", "freed"} /\ process \in {"running", "exited"}

(* Writing a register that does not exist is not a step of the simulator,   *)
(* but keeps a core a core.                                                 *)
LEMMA AnyRegisterWritten ==
  ASSUME NEW p \in Core, NEW reg, NEW w \in Word
  PROVE  arm_write_register(p, reg, w) \in Core
BY DEF arm_write_register, Core

LEMMA StatusWritten ==
  ASSUME NEW p \in Core, NEW w \in Word
  PROVE  write_cpsr(p, w) \in Core
BY DEF write_cpsr, Core

LEMMA EffectsTyped ==
  ASSUME NEW p \in Core, NEW r \in Requests
  PROVE  /\ SimpleEffect(p, r) \in Core
         /\ r.cmd = "G" => /\ WriteGeneral(p, r.values) \in Core
                           /\ WriteStatus(p, r.values) \in Core
<1>1. CASE r.cmd = "X"
  <2>1. r.address \in Nat /\ r.bytes \in Seq(Byte)
        BY <1>1, SimulatorAssumption
  <2>2. \A c \in Cell : c - r.address + 1 \in DOMAIN r.bytes
                          => r.bytes[c - r.address + 1] \in Byte
        BY <2>1
  <2>3. p.m \in [Cell -> Byte]
        BY CoreParts
  <2> DEFINE m == [c \in Cell |-> IF c - r.address + 1 \in DOMAIN r.bytes
                                  THEN r.bytes[c - r.address + 1] ELSE p.m[c]]
  <2>4. m \in [Cell -> Byte]
        BY <2>2, <2>3
  <2>5. write_memory(p, r.address, r.bytes) = IF r.address < Size THEN [p EXCEPT !.m = m] ELSE p
        BY DEF write_memory
  <2> HIDE DEF m
  <2>6. write_memory(p, r.address, r.bytes) \in Core
        BY <2>4, <2>5 DEF Core
  <2> QED BY <1>1, <2>6 DEF SimpleEffect
<1>2. CASE r.cmd = "P"
  <2>1. SimpleEffect(p, r) = arm_write_register(p, r.reg, r.word) /\ r.word \in Word
        BY <1>2, SimulatorAssumption DEF SimpleEffect
  <2> QED BY <1>2, <2>1, AnyRegisterWritten
<1>3. CASE r.cmd = "G"
  <2>1. r.values \in [0..16 -> Word]
        BY <1>3, SimulatorAssumption
  <2>2. \A i \in 0..16 : r.values[i] \in Word
        BY <2>1
  <2>3. [i \in Registers |-> r.values[i]] \in [Registers -> Word]
        BY <2>2 DEF Registers
  <2>4. WriteGeneral(p, r.values) \in Core
        BY <2>3 DEF WriteGeneral, Core
  <2>5. r.values[16] \in Word
        BY <2>2
  <2>6. WriteStatus(p, r.values) \in Core
        BY <2>5, StatusWritten DEF WriteStatus
  <2> QED BY <1>3, <2>4, <2>6 DEF SimpleEffect
<1>4. CASE r.cmd \notin {"X", "P", "G"}
      BY <1>4 DEF SimpleEffect
<1> QED BY <1>1, <1>2, <1>3, <1>4

LEMMA ResetTyped ==
  ASSUME NEW p \in Core
  PROVE  /\ write_cpsr(p, Small(467)) \in Core /\ arm_write_register(p, PC, Zero) \in Core
         /\ arm_exception(p, RESET) \in Core
<1>1. Small(467) \in Word /\ Zero \in Word
      BY SmallIsWord, SMT DEF Zero
<1> QED BY <1>1, StatusWritten, AnyRegisterWritten, ExceptionKeeps

LEMMA TypeInvInit == Init => TypeInv
<1> SUFFICES ASSUME Init PROVE TypeInv
    OBVIOUS
<1>1. core \in Core /\ 0 \in 0..MaxRequests /\ 0 \in 0..MaxIrqs /\ 0 \in Int
      BY SimulatorAssumption DEF Init
<1>2. <<>> \in Seq(Exceptions)
      OBVIOUS
<1> QED BY <1>1, <1>2 DEF Init, TypeInv, TypeOK, GdbLabels, IrqLabels

(* The steps of gdb_listener.                                               *)
LEMMA TypeInvGdb == LockInv' /\ TraceInv' /\ TypeInv /\ Gdb => TypeInv'
<1> SUFFICES ASSUME LockInv', TraceInv', TypeInv, Gdb PROVE TypeInv'
    OBVIOUS
<1>1. targetTyped /\ clientTyped /\ main \in {"join", "destroy", "return"}
      /\ request \in Requests \cup {None}
      BY DEF TypeInv, TypeOK, targetTyped, clientTyped
<1>2. /\ lock' \in {"free", "gdb", "irq"} /\ gdb' \in GdbLabels /\ irq' \in IrqLabels
      /\ enabled' \in BOOLEAN /\ depth' \in Int
      BY DEF LockInv, TraceInv
<1>3. SUFFICES /\ targetTyped' /\ clientTyped' /\ main' \in {"join", "destroy", "return"}
               /\ request' \in Requests \cup {None}
               /\ gdb' \notin {"scan", "unlock", "done"} => request' \in Requests
               /\ gdb' = "execute" => mot' \in Word
      BY <1>2, <1>3 DEF TypeInv, TypeOK, targetTyped, clientTyped
<1>4. /\ gdb \notin {"scan", "unlock", "done"} => request \in Requests
      /\ gdb = "execute" => mot \in Word
      BY DEF TypeInv
<1> USE <1>1, <1>4 DEF targetTyped, clientTyped, gdbUnchanged, peers, locals, target
<1>5. CASE packet_analysis \/ send_unsupported \/ end_of_file \/ gdb_unlock \/ kill_request
      BY <1>5 DEF packet_analysis, send_unsupported, end_of_file, gdb_unlock, kill_request
<1>6. CASE ack_fails \/ register_handler_aborts
      BY <1>6 DEF ack_fails, register_handler_aborts, Exits
<1>7. CASE gdb_lock
      BY <1>7, FirstLabelInside DEF gdb_lock
<1>8. CASE send \/ send_stop_reason
      BY <1>8 DEF send, send_stop_reason, Reply
<1>9. CASE simple
      BY <1>9, EffectsTyped DEF simple, Reply
<1>10. CASE trace_disable \/ trace_enable \/ read_general_registers \/ read_status_register
       BY <1>10 DEF trace_disable, trace_enable, read_general_registers, read_status_register
<1>11. CASE read_or_write_register
       BY <1>11, EffectsTyped DEF read_or_write_register
<1>12. CASE write_general_registers \/ write_status_register
       BY <1>12, EffectsTyped DEF write_general_registers, write_status_register
<1>13. CASE anticipate
       BY <1>13 DEF anticipate
<1>14. CASE fetch
       BY <1>14, FetchedIsWord, FetchKeeps DEF fetch
<1>15. CASE execute
  <2>1. mot \in Word /\ gdb' \in {"anticipate", "stop"}
        BY <1>15 DEF execute
  <2>2. \A junk \in Junk : select_execute_instruction(core, mot, junk) \in Core
        BY <2>1, InstructionKeeps, SimulatorAssumption DEF Keeps
  <2>3. core' \in Core /\ exception' \in {0, RESET}
        BY <1>15, <2>2, ResetTyped DEF execute
  <2> QED BY <1>15, <2>1, <2>3 DEF execute
<1> QED BY <1>5, <1>6, <1>7, <1>8, <1>9, <1>10, <1>11, <1>12, <1>13, <1>14, <1>15 DEF Gdb

(* Those of irq_listener.                                                   *)
LEMMA TypeInvIrq == LockInv' /\ TraceInv' /\ TypeInv /\ Irq => TypeInv'
<1> SUFFICES ASSUME LockInv', TraceInv', TypeInv, Irq PROVE TypeInv'
    OBVIOUS
<1>1. /\ core \in Core /\ signal \in Exceptions \cup {None} /\ line \in Seq(Exceptions)
      /\ exception \in {0, RESET} /\ main \in {"join", "destroy", "return"}
      /\ request \in Requests \cup {None}
      /\ client \in {"open", "closed"} /\ sent \in 0..MaxRequests /\ irqs \in 0..MaxIrqs
      /\ out \in BOOLEAN /\ heap \in {"live", "freed"} /\ process \in {"running", "exited"}
      /\ gdb \notin {"scan", "unlock", "done"} => request \in Requests
      /\ gdb = "execute" => mot \in Word
      BY DEF TypeInv, TypeOK
<1>2. /\ lock' \in {"free", "gdb", "irq"} /\ gdb' \in GdbLabels /\ irq' \in IrqLabels
      /\ enabled' \in BOOLEAN /\ depth' \in Int
      BY DEF LockInv, TraceInv
<1>3. SUFFICES core' \in Core /\ signal' \in Exceptions \cup {None}
               /\ line' \in Seq(Exceptions) /\ UNCHANGED irqUnchanged
      BY <1>1, <1>2, <1>3 DEF TypeInv, TypeOK, irqUnchanged, locals
<1>4. CASE irq_accept
      BY <1>1, <1>4 DEF irq_accept, target
<1>5. CASE irq_lock \/ irq_unlock
      BY <1>1, <1>5 DEF irq_lock, irq_unlock, target
<1>6. CASE reset_cpsr \/ reset_pc
      BY <1>1, <1>6, ResetTyped DEF reset_cpsr, reset_pc
<1> QED BY <1>4, <1>5, <1>6 DEF Irq

(* Those of main, of the outside and of failures.                           *)
LEMMA TypeInvRest ==
  LockInv' /\ TraceInv' /\ TypeInv /\ (Main \/ Outside \/ Failure \/ UNCHANGED vars) => TypeInv'
<1> SUFFICES ASSUME LockInv', TraceInv', TypeInv, Main \/ Outside \/ Failure \/ UNCHANGED vars
             PROVE  TypeInv'
    OBVIOUS
<1>1. /\ lock' \in {"free", "gdb", "irq"} /\ gdb' \in GdbLabels /\ irq' \in IrqLabels
      /\ enabled' \in BOOLEAN /\ depth' \in Int
      BY DEF LockInv, TraceInv
<1> USE DEF TypeInv, TypeOK, target, peers, locals, trace
<1>2. CASE GdbSends
      BY <1>1, <1>2, SimulatorAssumption DEF GdbSends
<1>3. CASE GdbReads \/ GdbCloses
      BY <1>1, <1>3 DEF GdbReads, GdbCloses
<1>4. CASE IrqSent
  <2>1. \A a \in Arguments : Sendable(a) => irq_named(a) \in Exceptions
        BY DEF Sendable, irq_named, Exceptions, INTERRUPT
  <2> QED BY <1>1, <1>4, <2>1, SimulatorAssumption DEF IrqSent
<1>5. CASE Main
      BY <1>1, <1>5 DEF Main, join, destroy, return, mainUnchanged
<1>6. CASE Failure
      BY <1>1, <1>6 DEF Failure, WriteFails, irq_read_fails, Exits
<1>7. CASE UNCHANGED vars
      BY <1>1, <1>7 DEF vars
<1> QED BY <1>2, <1>3, <1>4, <1>5, <1>6, <1>7 DEF Outside

LEMMA TypeInvStep ==
  LockInv /\ TraceInv /\ LockInv' /\ TraceInv' /\ TypeInv /\ [Next]_vars => TypeInv'
BY TypeInvGdb, TypeInvIrq, TypeInvRest DEF Next

LEMMA TypeInvariant == Spec => []TypeInv
BY TypeInvInit, TypeInvStep, LockInvariant, TraceInvariant, PTL DEF Spec

(* The core keeps its sixteen words and its bytes, and the threads their    *)
(* labels, whatever gdb asks, the interrupts and the program do.            *)
THEOREM SimulatorTypeCorrect == Spec => []TypeOK
<1>1. TypeInv => TypeOK
      BY DEF TypeInv
<1> QED BY <1>1, TypeInvariant, PTL
=============================================================================
