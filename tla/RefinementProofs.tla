-------------------------- MODULE RefinementProofs --------------------------
(***************************************************************************)
(* The proof that the threads of Simulator, with their lock, implement     *)
(* AtomicTarget, for any program, memory, requests and interrupts.  The    *)
(* target of AtomicTarget is the one after the last whole operation, and   *)
(* the invariant says, for each place a thread may be at, how the core     *)
(* differs from it.                                                        *)
(***************************************************************************)
EXTENDS SimulatorProofs

(* Each handler serves the commands dispatched to it.                       *)
Registered == {"g", "G", "p", "P"}
Serving ==
  /\ gdb = "unsupported" => request.cmd = "other"
  /\ gdb = "lock" => request.cmd # "other"
  /\ gdb = "simple" => request.cmd \in {"?", "H", "q", "m", "X"}
  /\ gdb \in {"quiet", "registers", "loud", "send"} => request.cmd \in Registered
  /\ gdb = "status" => request.cmd \in {"g", "G"}
  /\ gdb \in {"loud", "send"} => ~Aborts(request)
  /\ gdb \in {"anticipate", "peek"} => request.cmd = "c"
  /\ gdb \in {"fetch", "execute", "stop"} => request.cmd \in {"c", "s"}
  /\ gdb = "kill" => request.cmd = "k"

(* main frees the target after the end of gdb_listener.                     *)
Joined == main # "join" \/ heap = "freed" => gdb = "done"

(* What a handler of the registers has done when tracing is on again.       *)
Done(p, r) ==
  IF r.cmd = "G" THEN WriteStatus(WriteGeneral(p, r.values), r.values) ELSE SimpleEffect(p, r)
Told(p, e, r) ==
  IF r.cmd = "g"
  THEN [general |-> ReadGeneral(p), pc |-> NextPc(p), cpsr |-> read_cpsr(p)]
  ELSE IF r.cmd = "G" THEN "OK" ELSE SimpleReply(p, e, r)

AtBreakpoint(p) == Accessible(NextPc(p), 4) => IsBreakpoint(Fetched(p))
Stepped(p) ==
  \E junk \in Junk : core = arm_step(p, junk).core /\ exception = arm_step(p, junk).rc

(* The core and the exception against stable, for each place of gdb.        *)
Stage ==
  LET p == stable.core
      e == stable.exception
  IN  /\ gdb # "stop" => exception = e
      /\ gdb \notin {"status", "loud", "send", "execute", "stop"} => core = p
      /\ gdb = "status" /\ request.cmd = "g" =>
           core = p /\ packet = [general |-> ReadGeneral(p), pc |-> NextPc(p)]
      /\ gdb = "status" /\ request.cmd = "G" => core = WriteGeneral(p, request.values)
      /\ gdb \in {"loud", "send"} => core = Done(p, request) /\ packet = Told(p, e, request)
      /\ gdb = "execute" => core = arm_fetch(p) /\ mot = Fetched(p)
      /\ gdb = "stop" /\ request.cmd = "s" => Stepped(p)
      /\ gdb = "stop" /\ request.cmd = "c" => core = p /\ exception = e /\ AtBreakpoint(p)

(* In the middle of a reset the CPSR is written and the pc is not.          *)
Resetting ==
  core = write_cpsr(stable.core, Small(467)) /\ exception = stable.exception

StageInv == heap = "live" => IF irq = "pc" THEN Resetting ELSE Stage

AtomicInv == Serving /\ Joined /\ StageInv
Before == LockInv /\ TypeInv /\ AtomicInv
abstract == <<stable.core, stable.exception, request, reply>>

LEMMA AtomicInvInit == Init => AtomicInv /\ Atomic!Init
BY DEF Init, AtomicInv, Serving, Joined, StageInv, Stage, Atomic!Init
-----------------------------------------------------------------------------
(* A step of a handler finds the interrupt thread out of the target, and    *)
(* the target not freed.                                                    *)
LEMMA Alone ==
  ASSUME Before, GdbInside, gdb # "unlock"
  PROVE  irq # "pc" /\ main = "join" /\ heap = "live" /\ Stage /\ request \in Requests
<1>1. irq # "pc"
      BY DEF Before, LockInv, IrqInside
<1>2. gdb \notin {"scan", "unlock", "done"}
      BY DEF GdbInside
<1>3. request \in Requests
      BY <1>2 DEF Before, TypeInv
<1>4. main = "join" /\ heap = "live"
      BY <1>2 DEF Before, AtomicInv, Joined, TypeInv, TypeOK
<1> QED BY <1>1, <1>3, <1>4 DEF Before, AtomicInv, StageInv

(* Outside the handlers nothing of the target moves.                        *)
LEMMA ScannerSteps ==
  ASSUME Before, packet_analysis \/ ack_fails \/ send_unsupported \/ end_of_file
  PROVE  AtomicInv' /\ [Atomic!Next]_abstract
<1> USE DEF gdbUnchanged, target, trace, locals, peers
<1>1. gdb \in {"scan", "unsupported"} /\ main = "join" /\ heap = "live"
      BY DEF packet_analysis, ack_fails, send_unsupported, end_of_file, Before, AtomicInv,
             Joined, TypeInv, TypeOK
<1>2. UNCHANGED <<core, stable, exception, irq, main, heap>>
      BY DEF packet_analysis, ack_fails, send_unsupported, end_of_file, Exits
<1>3. gdb' \in {"scan", "lock", "unsupported", "done"}
      BY <1>1 DEF packet_analysis, ack_fails, send_unsupported, end_of_file, Exits
<1>4. StageInv'
      BY <1>1, <1>2, <1>3 DEF Before, AtomicInv, StageInv, Stage, Resetting
<1>5. Joined'
      BY <1>1, <1>2 DEF Joined
<1>6. Serving' /\ [Atomic!Next]_abstract
  <2>1. CASE packet_analysis
        BY <2>1, <1>2 DEF packet_analysis, Serving, abstract
  <2>2. CASE ack_fails
        BY <2>2, <1>2 DEF ack_fails, Exits, Serving, abstract, Before, AtomicInv
  <2>3. CASE send_unsupported
    <3>1. request # None /\ request.cmd = "other"
          BY <2>3, SimulatorAssumption DEF send_unsupported, Before, AtomicInv, Serving, TypeInv
    <3>2. Atomic!ServeUnsupported
          BY <1>2, <2>3, <3>1 DEF send_unsupported, Atomic!ServeUnsupported, Atomic!Answer
    <3> QED BY <2>3, <3>2 DEF send_unsupported, Serving, Atomic!Next
  <2>4. CASE end_of_file
        BY <2>4, <1>2 DEF end_of_file, Serving, abstract
  <2> QED BY <2>1, <2>2, <2>3, <2>4
<1> QED BY <1>4, <1>5, <1>6 DEF AtomicInv

(* The lock is taken when the interrupt thread is out of the target, and    *)
(* the handler is the one of the command.                                   *)
LEMMA LockSteps ==
  ASSUME Before, gdb_lock \/ gdb_unlock
  PROVE  AtomicInv' /\ [Atomic!Next]_abstract
<1> USE DEF gdbUnchanged, target, trace, locals, peers
<1>1. gdb \in {"lock", "unlock"} /\ main = "join" /\ heap = "live" /\ irq # "pc"
      BY DEF gdb_lock, gdb_unlock, Before, AtomicInv, Joined, TypeInv, TypeOK, LockInv,
             GdbInside, IrqInside, GdbLabels
<1>2. UNCHANGED <<core, stable, exception, irq, main, heap, request, reply>>
      BY DEF gdb_lock, gdb_unlock
<1>3. gdb' \in {"scan", "anticipate", "kill", "fetch", "quiet", "simple"}
      BY FirstLabelInside DEF gdb_lock, gdb_unlock
<1>4. core = stable.core /\ exception = stable.exception
      BY <1>1 DEF Before, AtomicInv, StageInv, Stage
<1>5. Stage'
      BY <1>2, <1>3, <1>4 DEF Stage
<1>6. Serving'
  <2>1. CASE gdb_lock
    <3>1. request \in Requests /\ request.cmd # "other"
          BY <2>1 DEF gdb_lock, Before, TypeInv, AtomicInv, Serving
    <3>2. request.cmd \in Commands \ {"other"}
          BY <3>1, SimulatorAssumption
    <3>3. gdb' = FirstLabel(request.cmd)
          BY <2>1 DEF gdb_lock
    <3>4. /\ gdb' = "simple" => request.cmd \in {"?", "H", "q", "m", "X"}
          /\ gdb' = "quiet" => request.cmd \in Registered
          /\ gdb' = "anticipate" => request.cmd = "c"
          /\ gdb' = "fetch" => request.cmd = "s"
          /\ gdb' = "kill" => request.cmd = "k"
          BY <3>2, <3>3 DEF FirstLabel, Handlers, Commands, Registered
    <3> QED BY <1>2, <1>3, <3>4 DEF Serving
  <2>2. CASE gdb_unlock
        BY <2>2 DEF gdb_unlock, Serving
  <2> QED BY <2>1, <2>2
<1> QED BY <1>1, <1>2, <1>5, <1>6 DEF AtomicInv, StageInv, Joined, abstract

(* An answer is sent under the lock with the whole of its effect.           *)
LEMMA AnswerSteps ==
  ASSUME Before, send \/ simple \/ send_stop_reason \/ kill_request
  PROVE  AtomicInv' /\ [Atomic!Next]_abstract
<1> USE DEF gdbUnchanged, target, trace, locals, peers, Reply, Whole
<1>1. GdbInside /\ gdb # "unlock"
      BY DEF send, simple, send_stop_reason, kill_request, GdbInside, GdbLabels
<1>2. irq # "pc" /\ main = "join" /\ heap = "live" /\ Stage /\ request \in Requests
      BY <1>1, Alone
<1>3. UNCHANGED <<irq, main, heap>> /\ gdb' = "unlock"
      BY DEF send, simple, send_stop_reason, kill_request
<1>4. request # None
      BY <1>2, SimulatorAssumption
<1>5. Serving' /\ Joined'
      BY <1>2, <1>3 DEF Serving, Joined
<1>6. core' = stable'.core /\ exception' = stable'.exception
      BY <1>2 DEF send, simple, send_stop_reason, kill_request, Stage
<1>7. StageInv'
      BY <1>2, <1>3, <1>6 DEF StageInv, Stage
<1>8. [Atomic!Next]_abstract
  <2>1. CASE send
    <3>1. request.cmd \in Registered /\ ~Aborts(request)
          BY <2>1 DEF send, Before, AtomicInv, Serving
    <3>2. /\ core = Done(stable.core, request) /\ exception = stable.exception
          /\ packet = Told(stable.core, stable.exception, request)
          BY <1>2, <2>1 DEF send, Stage
    <3>3. /\ stable'.core = core /\ stable'.exception = exception
          /\ reply' = packet /\ request' = None
          BY <2>1 DEF send
    <3>4. CASE request.cmd = "g"
      <4>1. SimpleEffect(stable.core, request) = stable.core
            BY <3>4 DEF SimpleEffect
      <4>2. Atomic!ReadRegisters
            BY <1>4, <3>2, <3>3, <3>4, <4>1 DEF Done, Told, Atomic!ReadRegisters, Atomic!Answer
      <4> QED BY <4>2 DEF Atomic!Next
    <3>5. CASE request.cmd = "G"
      <4>1. Atomic!WriteRegisters
            BY <1>4, <3>2, <3>3, <3>5 DEF Done, Told, Atomic!WriteRegisters, Atomic!Answer
      <4> QED BY <4>1 DEF Atomic!Next
    <3>6. CASE request.cmd \in {"p", "P"}
      <4>1. Atomic!ServeSimple
            BY <1>4, <3>1, <3>2, <3>3, <3>6
               DEF Done, Told, Simple, Atomic!ServeSimple, Atomic!Answer
      <4> QED BY <4>1 DEF Atomic!Next
    <3> QED BY <3>1, <3>4, <3>5, <3>6 DEF Registered
  <2>2. CASE simple
    <3>1. request.cmd \in {"?", "H", "q", "m", "X"}
          BY <2>2 DEF simple, Before, AtomicInv, Serving
    <3>2. core = stable.core /\ exception = stable.exception
          BY <1>2, <2>2 DEF simple, Stage
    <3>3. /\ stable'.core = SimpleEffect(core, request) /\ stable'.exception = exception
          /\ reply' = SimpleReply(core, exception, request) /\ request' = None
          BY <2>2 DEF simple
    <3>4. Atomic!ServeSimple
          BY <1>4, <3>1, <3>2, <3>3 DEF Simple, Aborts, Atomic!ServeSimple, Atomic!Answer
    <3> QED BY <3>4 DEF Atomic!Next
  <2>3. CASE send_stop_reason
    <3>1. request.cmd \in {"c", "s"}
          BY <2>3 DEF send_stop_reason, Before, AtomicInv, Serving
    <3>2. /\ stable'.core = core /\ stable'.exception = exception
          /\ reply' = stop_reason(exception) /\ request' = None
          BY <2>3 DEF send_stop_reason
    <3>3. CASE request.cmd = "c"
      <4>1. core = stable.core /\ exception = stable.exception /\ AtBreakpoint(core)
            BY <1>2, <2>3, <3>3 DEF send_stop_reason, Stage
      <4>2. Atomic!ContinueStops
            BY <1>4, <3>2, <3>3, <4>1 DEF AtBreakpoint, Atomic!ContinueStops, Atomic!Answer
      <4> QED BY <4>2 DEF Atomic!Next
    <3>4. CASE request.cmd = "s"
      <4>1. Stepped(stable.core)
            BY <1>2, <2>3, <3>4 DEF send_stop_reason, Stage
      <4>2. Atomic!StepOnce
            BY <1>4, <3>2, <3>4, <4>1 DEF Stepped, Atomic!StepOnce, Atomic!Answer
      <4> QED BY <4>2 DEF Atomic!Next
    <3> QED BY <3>1, <3>3, <3>4
  <2>4. CASE kill_request
    <3>1. request.cmd = "k"
          BY <2>4 DEF kill_request, Before, AtomicInv, Serving
    <3>2. Atomic!Kill
          BY <1>4, <2>4, <3>1 DEF kill_request, Atomic!Kill
    <3> QED BY <3>2 DEF Atomic!Next
  <2> QED BY <2>1, <2>2, <2>3, <2>4
<1> QED BY <1>5, <1>7, <1>8 DEF AtomicInv

(* The steps of a handler before its answer do not show.                    *)
LEMMA RegisterSteps ==
  ASSUME Before,
         \/ trace_disable \/ register_handler_aborts \/ read_or_write_register
         \/ read_general_registers \/ read_status_register
         \/ write_general_registers \/ write_status_register \/ trace_enable
  PROVE  AtomicInv' /\ UNCHANGED abstract
<1> USE DEF gdbUnchanged, target, trace, locals, peers
<1>1. GdbInside /\ gdb # "unlock"
      BY DEF trace_disable, register_handler_aborts, read_or_write_register,
             read_general_registers, read_status_register, write_general_registers,
             write_status_register, trace_enable, GdbInside, GdbLabels
<1>2. irq # "pc" /\ main = "join" /\ heap = "live" /\ Stage /\ request \in Requests
      BY <1>1, Alone
<1>3. UNCHANGED <<stable, exception, irq, main, heap, request, reply>> /\ gdb # "stop"
      BY DEF trace_disable, register_handler_aborts, read_or_write_register,
             read_general_registers, read_status_register, write_general_registers,
             write_status_register, trace_enable, Exits
<1>4. Serving
      BY DEF Before, AtomicInv
<1>5. UNCHANGED abstract /\ Joined'
      BY <1>2, <1>3 DEF abstract, Joined
<1>6. Serving' /\ Stage'
  <2>1. CASE trace_disable
        BY <1>2, <1>3, <1>4, <2>1 DEF trace_disable, Stage, Serving
  <2>2. CASE register_handler_aborts
        BY <1>2, <1>3, <1>4, <2>2 DEF register_handler_aborts, Exits, Stage, Serving, Stepped
  <2>3. CASE read_or_write_register
    <3>1. core = stable.core /\ exception = stable.exception /\ gdb' = "loud"
          BY <1>2, <2>3 DEF read_or_write_register, Stage
    <3>2. core' = Done(core, request) /\ packet' = Told(core, exception, request)
          BY <2>3 DEF read_or_write_register, Done, Told
    <3> QED BY <1>3, <2>3, <3>1, <3>2 DEF read_or_write_register, Stage, Serving, Registered
  <2>4. CASE read_general_registers
        BY <1>2, <1>3, <2>4 DEF read_general_registers, Stage, Serving
  <2>5. CASE read_status_register
    <3>1. /\ core = stable.core /\ exception = stable.exception /\ gdb' = "loud"
          /\ packet = [general |-> ReadGeneral(core), pc |-> NextPc(core)]
          BY <1>2, <2>5 DEF read_status_register, Stage
    <3>2. core' = Done(core, request) /\ packet' = Told(core, exception, request)
          BY <2>5, <3>1 DEF read_status_register, Done, Told, SimpleEffect
    <3>3. ~Aborts(request)
          BY <2>5 DEF read_status_register, Aborts
    <3> QED BY <1>3, <2>5, <3>1, <3>2, <3>3
               DEF read_status_register, Stage, Serving, Registered
  <2>6. CASE write_general_registers
        BY <1>2, <1>3, <2>6 DEF write_general_registers, Stage, Serving
  <2>7. CASE write_status_register
    <3>1. /\ core = WriteGeneral(stable.core, request.values) /\ gdb' = "loud"
          /\ exception = stable.exception
          BY <1>2, <2>7 DEF write_status_register, Stage
    <3>2. /\ core' = Done(stable.core, request)
          /\ packet' = Told(stable.core, stable.exception, request)
          BY <2>7, <3>1 DEF write_status_register, Done, Told
    <3>3. ~Aborts(request)
          BY <2>7 DEF write_status_register, Aborts
    <3> QED BY <1>3, <2>7, <3>1, <3>2, <3>3
               DEF write_status_register, Stage, Serving, Registered
  <2>8. CASE trace_enable
        BY <1>2, <1>3, <1>4, <2>8 DEF trace_enable, Stage, Serving
  <2> QED BY <2>1, <2>2, <2>3, <2>4, <2>5, <2>6, <2>7, <2>8
<1> QED BY <1>2, <1>3, <1>5, <1>6 DEF AtomicInv, StageInv

(* Neither does the look of cont at the next instruction, nor a fetch; the  *)
(* execution that follows it is a step of the target, which s only shows    *)
(* with its answer.                                                         *)
LEMMA InstructionSteps ==
  ASSUME Before, anticipate \/ fetch \/ execute
  PROVE  AtomicInv' /\ [Atomic!Next]_abstract
<1> USE DEF gdbUnchanged, target, trace, locals, peers
<1>1. GdbInside /\ gdb # "unlock"
      BY DEF anticipate, fetch, execute, GdbInside, GdbLabels
<1>2. irq # "pc" /\ main = "join" /\ heap = "live" /\ Stage /\ request \in Requests
      BY <1>1, Alone
<1>3. UNCHANGED <<irq, main, heap, request, reply>>
      BY DEF anticipate, fetch, execute
<1>4. Serving /\ Joined'
      BY <1>2, <1>3 DEF Before, AtomicInv, Joined
<1>5. Serving' /\ Stage' /\ [Atomic!Next]_abstract
  <2>1. CASE anticipate
    <3>1. core = stable.core /\ UNCHANGED <<core, exception, stable>> /\ request.cmd = "c"
          /\ exception = stable.exception
          BY <1>2, <1>4, <2>1 DEF anticipate, Stage, Serving
    <3>2. Accessible(NextPc(core), 4) => instruction' = Fetched(core)
          BY <2>1 DEF anticipate, arm_read, Fetched, NextPc
    <3>3. (gdb' = "stop" /\ AtBreakpoint(core)) \/ gdb' = "fetch"
          BY <2>1, <3>2 DEF anticipate, AtBreakpoint
    <3>4. Serving'
          BY <1>3, <3>1, <3>3 DEF Serving
    <3>5. Stage'
          BY <1>3, <3>1, <3>3 DEF Stage
    <3> QED BY <1>3, <3>1, <3>4, <3>5 DEF abstract
  <2>2. CASE fetch
        BY <1>2, <1>3, <1>4, <2>2 DEF fetch, Stage, Serving, abstract
  <2>3. CASE execute
    <3> DEFINE p == stable.core
               s(junk) == arm_step(p, junk)
    <3>1. core = arm_fetch(p) /\ mot = Fetched(p) /\ exception = stable.exception
          BY <1>2, <2>3 DEF execute, Stage
    <3>2. request.cmd \in {"c", "s"} /\ request # None
          BY <1>2, <1>4, <2>3, SimulatorAssumption DEF execute, Serving
    <3>3. PICK junk \in Junk : core' = s(junk).core /\ exception' = s(junk).rc
      <4>1. CASE check_cond_failed(read_cpsr(core), Cond(mot))
        <5>1. PICK junk \in Junk : TRUE
              BY SimulatorAssumption
        <5>2. core' = arm_exception(core, RESET) /\ exception' = RESET
              BY <2>3, <4>1 DEF execute
        <5> QED BY <3>1, <4>1, <5>1, <5>2 DEF arm_step
      <4>2. CASE ~check_cond_failed(read_cpsr(core), Cond(mot))
        <5>1. PICK junk \in Junk : core' = select_execute_instruction(core, mot, junk)
              BY <2>3, <4>2 DEF execute
        <5>2. exception' = 0
              BY <2>3, <4>2 DEF execute
        <5> QED BY <3>1, <4>2, <5>1, <5>2 DEF arm_step
      <4> QED BY <4>1, <4>2
    <3> HIDE DEF s
    <3>4. CASE request.cmd = "c"
      <4>1. gdb' = "anticipate" /\ stable'.core = core' /\ stable'.exception = exception'
            BY <2>3, <3>4 DEF execute, Whole
      <4>2. Serving' /\ Stage'
            BY <1>3, <3>4, <4>1 DEF Serving, Stage
      <4>3. Atomic!ContinueStep
            BY <1>3, <3>2, <3>3, <3>4, <4>1 DEF s, Atomic!ContinueStep
      <4> QED BY <4>2, <4>3 DEF Atomic!Next
    <3>5. CASE request.cmd = "s"
      <4>1. gdb' = "stop" /\ UNCHANGED stable
            BY <2>3, <3>5 DEF execute
      <4>2. Serving' /\ UNCHANGED abstract
            BY <1>3, <3>5, <4>1 DEF Serving, abstract
      <4>3. Stepped(p)'
            BY <3>3, <4>1 DEF s, Stepped
      <4>4. Stage'
            BY <1>3, <3>5, <4>1, <4>3 DEF Stage
      <4> QED BY <4>2, <4>4
    <3> QED BY <3>2, <3>4, <3>5
  <2> QED BY <2>1, <2>2, <2>3
<1> QED BY <1>2, <1>3, <1>4, <1>5 DEF AtomicInv, StageInv

LEMMA GdbSteps ==
  ASSUME Before, Gdb
  PROVE  AtomicInv' /\ [Atomic!Next]_abstract
BY ScannerSteps, LockSteps, AnswerSteps, RegisterSteps, InstructionSteps DEF Gdb
-----------------------------------------------------------------------------
(* An exception is raised while no handler is in the target, and shows when *)
(* the pc is written.                                                       *)
LEMMA IrqSteps ==
  ASSUME Before, Irq
  PROVE  AtomicInv' /\ [Atomic!Next]_abstract
<1> USE DEF irqUnchanged, target, trace, locals
<1>1. UNCHANGED <<exception, gdb, main, packet, mot, request, reply, heap>>
      BY DEF Irq, irq_accept, irq_lock, reset_cpsr, reset_pc, irq_unlock
<1>2. Serving' /\ Joined'
      BY <1>1 DEF Before, AtomicInv, Serving, Joined
<1>3. StageInv' /\ [Atomic!Next]_abstract
  <2>1. CASE irq_accept \/ irq_lock \/ irq_unlock
    <3>1. UNCHANGED <<core, stable>> /\ irq # "pc" /\ irq' # "pc"
          BY <2>1 DEF irq_accept, irq_lock, irq_unlock
    <3>2. StageInv'
          BY <1>1, <3>1 DEF Before, AtomicInv, StageInv, Stage, Stepped
    <3> QED BY <1>1, <3>1, <3>2 DEF abstract
  <2>2. CASE reset_cpsr
    <3>1. UNCHANGED stable /\ irq = "cpsr" /\ irq' = "pc"
          BY <2>2 DEF reset_cpsr
    <3>2. gdb \in {"scan", "lock", "unsupported", "done"}
          BY <3>1 DEF Before, LockInv, GdbInside, IrqInside
    <3>3. heap = "live" => core = stable.core /\ exception = stable.exception
          BY <3>1, <3>2 DEF Before, AtomicInv, StageInv, Stage
    <3>4. heap = "live" => core' = write_cpsr(core, Small(467))
          BY <2>2 DEF reset_cpsr
    <3> QED BY <1>1, <3>1, <3>3, <3>4 DEF StageInv, Resetting, abstract
  <2>3. CASE reset_pc
    <3>1. irq = "pc" /\ irq' = "unlock"
          BY <2>3 DEF reset_pc
    <3>2. gdb \in {"scan", "lock", "unsupported", "done"}
          BY <3>1 DEF Before, LockInv, GdbInside, IrqInside
    <3>3. CASE heap = "live"
      <4>1. core = write_cpsr(stable.core, Small(467)) /\ exception = stable.exception
            BY <3>1, <3>3 DEF Before, AtomicInv, StageInv, Resetting
      <4>2. /\ core' = arm_write_register(core, PC, Zero)
            /\ stable'.core = core' /\ stable'.exception = exception
            BY <1>1, <2>3, <3>3 DEF reset_pc, Whole
      <4>3. core' = arm_exception(stable.core, RESET)
            BY <4>1, <4>2 DEF arm_exception
      <4>4. Atomic!Interrupt
            BY <1>1, <4>1, <4>2, <4>3 DEF Atomic!Interrupt
      <4>5. StageInv'
            BY <1>1, <3>1, <3>2, <4>2 DEF StageInv, Stage
      <4> QED BY <4>4, <4>5 DEF Atomic!Next
    <3>4. CASE heap # "live"
          BY <1>1, <2>3, <3>4 DEF reset_pc, StageInv, abstract
    <3> QED BY <3>3, <3>4
  <2> QED BY <2>1, <2>2, <2>3 DEF Irq
<1> QED BY <1>2, <1>3 DEF AtomicInv

(* The outside only shows by sending requests and reading answers.          *)
LEMMA RestSteps ==
  ASSUME Before, Main \/ Outside \/ Failure \/ UNCHANGED vars
  PROVE  AtomicInv' /\ [Atomic!Next]_abstract
<1> USE DEF target, trace, locals, peers
<1>1. UNCHANGED <<core, stable, exception, gdb, irq, packet, mot>>
      BY DEF Main, join, destroy, return, mainUnchanged, Outside, GdbSends, GdbReads,
             GdbCloses, IrqSent, Failure, WriteFails, irq_read_fails, Exits, vars
<1>2. CASE GdbSends
  <2>1. gdb \in {"scan", "unlock", "done"}
        BY <1>2, SimulatorAssumption DEF GdbSends, Before, TypeInv, TypeOK, GdbLabels
  <2>2. UNCHANGED <<main, heap>>
        BY <1>2 DEF GdbSends
  <2>3. Serving' /\ Joined' /\ StageInv'
        BY <1>1, <2>1, <2>2 DEF Before, AtomicInv, Serving, Joined, StageInv, Stage, Resetting
  <2>4. Atomic!Submit
        BY <1>1, <1>2 DEF GdbSends, Atomic!Submit
  <2> QED BY <2>3, <2>4 DEF AtomicInv, Atomic!Next
<1>3. CASE ~GdbSends
  <2>1. UNCHANGED request
        BY <1>3 DEF Main, join, destroy, return, mainUnchanged, Outside, GdbReads,
             GdbCloses, IrqSent, Failure, WriteFails, irq_read_fails, Exits, vars
  <2>2. Joined'
        BY <1>1 DEF Before, AtomicInv, Joined, Main, join, destroy, return, mainUnchanged,
             Outside, GdbSends, GdbReads, GdbCloses, IrqSent, Failure, WriteFails,
             irq_read_fails, Exits, vars
  <2>3. heap' = "live" => heap = "live"
        BY DEF Main, join, destroy, return, mainUnchanged, Outside, GdbSends, GdbReads,
             GdbCloses, IrqSent, Failure, WriteFails, irq_read_fails, Exits, vars
  <2>4. Serving' /\ StageInv'
        BY <1>1, <2>1, <2>3
           DEF Before, AtomicInv, Serving, StageInv, Stage, Resetting, Stepped
  <2>5. CASE GdbReads
    <3>1. Atomic!Read
          BY <1>1, <2>1, <2>5 DEF GdbReads, Atomic!Read
    <3> QED BY <2>2, <2>4, <3>1 DEF AtomicInv, Atomic!Next
  <2>6. CASE ~GdbReads
    <3>1. UNCHANGED reply
          BY <1>3, <2>6 DEF Main, join, destroy, return, mainUnchanged, Outside, GdbCloses,
               IrqSent, Failure, WriteFails, irq_read_fails, Exits, vars
    <3> QED BY <1>1, <2>1, <2>2, <2>4, <3>1 DEF AtomicInv, abstract
  <2> QED BY <2>5, <2>6
<1> QED BY <1>2, <1>3

LEMMA AtomicInvStep ==
  LockInv /\ TypeInv /\ AtomicInv /\ [Next]_vars => AtomicInv' /\ [Atomic!Next]_abstract
BY GdbSteps, IrqSteps, RestSteps DEF Before, Next

(* The threads of arm_simulator.c with their lock implement a target with   *)
(* no threads, on which each request of gdb and each exception of the irq   *)
(* senders takes effect at once.                                            *)
THEOREM ThreadsAreAtomic == Spec => IsAtomic
<1>1. Spec => []AtomicInv
      BY AtomicInvInit, AtomicInvStep, LockInvariant, TypeInvariant, PTL DEF Spec
<1>2. Spec => Atomic!Init /\ [][Atomic!Next]_abstract
      BY <1>1, AtomicInvInit, AtomicInvStep, LockInvariant, TypeInvariant, PTL DEF Spec
<1> QED BY <1>2 DEF IsAtomic, Atomic!Spec, abstract
=============================================================================
