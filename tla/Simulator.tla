----------------------------- MODULE Simulator -----------------------------
(***************************************************************************)
(* arm_simulator.c: the thread that serves gdb, the thread that serves the *)
(* interrupts, and main, which waits for the first of them and frees the   *)
(* target.  The two threads share the core, the memory and the global      *)
(* state of trace.c under one mutex.  Handlers that touch what the         *)
(* interrupts touch, register 15, or the trace state, are split at every   *)
(* such access; memory is only accessed by the gdb thread.                 *)
(*                                                                         *)
(* gdb sends a request and waits for its reply: GdbLink has the            *)
(* acknowledgements and retransmissions that make it so.                   *)
(***************************************************************************)
EXTENDS GdbCommands

CONSTANTS
  Requests,    (* what gdb may send                                        *)
  Loaded,      (* the cores it may have set up                             *)
  Junk,        (* the words an uninitialised local variable may hold       *)
  Arguments,   (* what the irq senders are called with                     *)
  MaxIrqs,     (* a bound on the number of interrupts                      *)
  MaxRequests, (* a bound on the number of requests                        *)
  None

(* The letters of the commands, "other" standing for those without a        *)
(* handler, and the arguments of those that write.                          *)
Commands == {"c", "k", "q", "g", "m", "p", "?", "H", "s", "G", "X", "P", "other"}
ASSUME SimulatorAssumption ==
  /\ Loaded \subseteq Core /\ Junk \subseteq Word /\ Junk # {}
  /\ MaxIrqs \in Nat /\ MaxRequests \in Nat /\ None \notin Requests
  /\ \A r \in Requests :
       /\ r.cmd \in Commands
       /\ r.cmd = "G" => r.values \in [0..16 -> Word]
       /\ r.cmd = "P" => r.word \in Word
       /\ r.cmd = "X" => r.address \in Nat /\ r.bytes \in Seq(Byte)

VARIABLES
  core, exception,     (* the target, and gdb->target_exception            *)
  enabled, depth,      (* trace.c: tracing on, entries on the stack        *)
  lock,                (* holder of shared.lock                            *)
  gdb, irq, main,      (* where each thread is                             *)
  packet,              (* the packet being filled                          *)
  instruction, mot,    (* local variables of cont and arm_step             *)
  signal,              (* the byte irq_listener has read                   *)
  line,                (* interrupts sent, not accepted yet                *)
  client, request, reply, sent,  (* gdb itself: open or closed, its        *)
                       (* request, the answer it has not read, their number*)
  irqs,                (* number of interrupts sent                        *)
  out,                 (* FALSE once the output is shut down by k          *)
  heap, process,       (* core and memory live or freed; process running   *)
  stable               (* history: core and exception after the last whole *)
                       (* operation                                        *)

target == <<core, stable>>
trace == <<enabled, depth>>
locals == <<instruction, mot>>
peers == <<client, sent, line, irqs>>
vars == <<core, exception, enabled, depth, lock, gdb, irq, main, packet,
          instruction, mot, signal, line, client, request, reply, sent, irqs, out, heap, process,
          stable>>

(* An operation on the target is complete.                                  *)
Whole == stable' = [core |-> core', exception |-> exception']

Init ==
  /\ core \in Loaded /\ exception = 0
  /\ stable = [core |-> core, exception |-> exception]
  /\ enabled = TRUE /\ depth = 0
  /\ lock = "free"
  /\ gdb = "scan" /\ irq = "accept" /\ main = "join"
  /\ packet = None /\ instruction = None /\ mot = None /\ signal = None
  /\ line = <<>> /\ irqs = 0
  /\ client = "open" /\ request = None /\ reply = None /\ sent = 0
  /\ out = TRUE /\ heap = "live" /\ process = "running"
-----------------------------------------------------------------------------
(* The outside: gdb and send_irq.                                           *)
GdbSends ==
  /\ client = "open" /\ request = None /\ reply = None /\ sent < MaxRequests
  /\ request' \in Requests
  /\ sent' = sent + 1
  /\ UNCHANGED <<target, exception, trace, lock, gdb, irq, main, packet, locals, signal,
                 line, client, reply, irqs, out, heap, process>>

GdbReads ==
  /\ client = "open" /\ reply # None
  /\ reply' = None
  /\ UNCHANGED <<target, exception, trace, lock, gdb, irq, main, packet, locals, signal,
                 peers, request, out, heap, process>>

GdbCloses ==
  /\ client = "open" /\ client' = "closed"
  /\ UNCHANGED <<target, exception, trace, lock, gdb, irq, main, packet, locals, signal,
                 line, request, reply, sent, irqs, out, heap, process>>

(* send_irq: the number of the exception its argument names, INTERRUPT when *)
(* it has none; it exits when no exception has that name.                   *)
irq_named(argument) ==
  IF argument = None THEN INTERRUPT
  ELSE CHOOSE e \in Exceptions : exception_names[e] = argument
Sendable(argument) == argument = None \/ \E e \in Exceptions : exception_names[e] = argument

IrqSent ==
  /\ irqs < MaxIrqs /\ irqs' = irqs + 1
  /\ \E a \in Arguments : Sendable(a) /\ line' = Append(line, irq_named(a))
  /\ UNCHANGED <<target, exception, trace, lock, gdb, irq, main, packet, locals, signal,
                 client, request, reply, sent, out, heap, process>>
-----------------------------------------------------------------------------
(* gdb_listener.  A write to gdb after k has shut the output down ends the  *)
(* process, by SIGPIPE; one to a connection gdb has closed may.             *)
gdbUnchanged == <<irq, main, signal, peers, heap, process>>

Exits ==
  /\ process' = "exited"
  /\ UNCHANGED <<target, exception, trace, lock, gdb, irq, main, packet, locals, signal,
                 peers, request, reply, out, heap>>

ack_fails == gdb = "scan" /\ request # None /\ ~out /\ Exits
WriteFails ==
  /\ gdb \in {"simple", "send", "unsupported", "stop"} \/ (gdb = "scan" /\ request # None)
  /\ client = "closed" /\ Exits

(* gdb_packet_analysis: the acknowledgement is sent, then the lock taken if *)
(* there is a handler; an unknown command is answered without the lock.     *)
packet_analysis ==
  /\ gdb = "scan" /\ request # None /\ out
  /\ gdb' = IF request.cmd = "other" THEN "unsupported" ELSE "lock"
  /\ UNCHANGED <<gdbUnchanged, target, exception, trace, lock, packet, locals, request,
                 reply, out>>

(* The empty packet that answers an unknown command.                        *)
send_unsupported ==
  /\ gdb = "unsupported"
  /\ reply' = "" /\ request' = None
  /\ gdb' = "scan"
  /\ UNCHANGED <<gdbUnchanged, target, exception, trace, lock, packet, locals, out>>

Handlers == [c |-> "anticipate", k |-> "kill", s |-> "fetch", g |-> "quiet",
             G |-> "quiet", p |-> "quiet", P |-> "quiet"]
FirstLabel(cmd) == IF cmd \in DOMAIN Handlers THEN Handlers[cmd] ELSE "simple"

(* Mutation: the handler runs without the lock.                             *)
gdb_lock_missing ==
  /\ gdb = "lock"
  /\ gdb' = FirstLabel(request.cmd)
  /\ UNCHANGED <<gdbUnchanged, target, exception, trace, lock, packet, locals, request,
                 reply, out>>
gdb_lock ==
  /\ gdb = "lock" /\ lock = "free"
  /\ lock' = "gdb" /\ gdb' = FirstLabel(request.cmd)
  /\ UNCHANGED <<gdbUnchanged, target, exception, trace, packet, locals, request, reply, out>>

(* The answer goes out, under the lock.                                     *)
Reply(a) ==
  /\ reply' = a /\ request' = None /\ packet' = None
  /\ gdb' = "unlock"

send ==
  /\ gdb = "send"
  /\ Reply(packet)
  /\ UNCHANGED <<gdbUnchanged, core, exception, trace, lock, locals, out>>
  /\ Whole

(* Mutation: the handler returns with the lock.                             *)
gdb_unlock_missing ==
  /\ gdb = "unlock"
  /\ gdb' = "scan"
  /\ UNCHANGED <<gdbUnchanged, target, exception, trace, lock, packet, locals, request,
                 reply, out>>
gdb_unlock ==
  /\ gdb = "unlock"
  /\ lock' = "free" /\ gdb' = "scan"
  /\ UNCHANGED <<gdbUnchanged, target, exception, trace, packet, locals, request, reply, out>>

(* ? H q m X: handlers that do not touch the registers or the trace state.  *)
simple ==
  /\ gdb = "simple"
  /\ core' = SimpleEffect(core, request)
  /\ Reply(SimpleReply(core, exception, request))
  /\ UNCHANGED <<gdbUnchanged, exception, trace, lock, locals, out>>
  /\ Whole

(* g, G, p, P turn tracing off while they access the registers, and cont    *)
(* while it looks at the next instruction.                                  *)
trace_disable ==
  /\ gdb \in {"quiet", "anticipate"}
  /\ enabled' = FALSE
  /\ gdb' = IF gdb = "quiet" THEN "registers" ELSE "peek"
  /\ UNCHANGED <<gdbUnchanged, target, exception, depth, lock, packet, locals, request,
                 reply, out>>

register_handler_aborts ==
  /\ gdb = "registers" /\ Aborts(request) /\ Exits

read_or_write_register ==
  /\ gdb = "registers" /\ request.cmd \in {"p", "P"} /\ ~Aborts(request)
  /\ packet' = SimpleReply(core, exception, request)
  /\ core' = SimpleEffect(core, request)
  /\ gdb' = "loud"
  /\ UNCHANGED <<gdbUnchanged, stable, exception, trace, lock, locals, request, reply, out>>

read_general_registers ==
  /\ gdb = "registers" /\ request.cmd = "g"
  /\ packet' = [general |-> ReadGeneral(core), pc |-> NextPc(core)]
  /\ gdb' = "status"
  /\ UNCHANGED <<gdbUnchanged, target, exception, trace, lock, locals, request, reply, out>>

read_status_register ==
  /\ gdb = "status" /\ request.cmd = "g"
  /\ packet' = [general |-> packet.general, pc |-> packet.pc, cpsr |-> read_cpsr(core)]
  /\ gdb' = "loud"
  /\ UNCHANGED <<gdbUnchanged, target, exception, trace, lock, locals, request, reply, out>>

write_general_registers ==
  /\ gdb = "registers" /\ request.cmd = "G"
  /\ core' = WriteGeneral(core, request.values)
  /\ gdb' = "status"
  /\ UNCHANGED <<gdbUnchanged, stable, exception, trace, lock, packet, locals, request,
                 reply, out>>

write_status_register ==
  /\ gdb = "status" /\ request.cmd = "G"
  /\ core' = WriteStatus(core, request.values)
  /\ packet' = "OK"
  /\ gdb' = "loud"
  /\ UNCHANGED <<gdbUnchanged, stable, exception, trace, lock, locals, request, reply, out>>

(* Mutation: a handler leaves tracing off.                                  *)
trace_enable_missing ==
  /\ gdb = "loud"
  /\ gdb' = "send"
  /\ UNCHANGED <<gdbUnchanged, target, exception, trace, lock, packet, locals,
                 request, reply, out>>
trace_enable ==
  /\ gdb = "loud"
  /\ enabled' = TRUE
  /\ gdb' = "send"
  /\ UNCHANGED <<gdbUnchanged, target, exception, depth, lock, packet, locals, request,
                 reply, out>>
-----------------------------------------------------------------------------
(* trace_location.h wraps the accesses of an instruction in a push and a    *)
(* pop of its location, which do nothing while tracing is off.              *)
Push == depth' = IF enabled THEN depth + 1 ELSE depth
Pop  == depth' = IF enabled THEN depth - 1 ELSE depth

(* cont: the next instruction is read in anticipation, and tracing turned   *)
(* on again; the local variable instruction keeps its value when the read   *)
(* fails, and has none the first time.                                      *)
anticipate ==
  /\ gdb = "peek"
  /\ enabled' = TRUE
  /\ \E junk \in Junk :
       instruction' = arm_read(core, NextPc(core), 4,
                               IF instruction = None THEN junk ELSE instruction)
  /\ gdb' = IF IsBreakpoint(instruction') THEN "stop" ELSE "fetch"
  /\ UNCHANGED <<gdbUnchanged, target, exception, depth, lock, packet, mot, request,
                 reply, out>>

(* arm_step, for s and for each turn of the loop of cont.                   *)
fetch ==
  /\ gdb = "fetch"
  /\ mot' = Fetched(core)
  /\ core' = arm_fetch(core)
  /\ Push
  /\ gdb' = "execute"
  /\ UNCHANGED <<gdbUnchanged, stable, exception, enabled, lock, packet, instruction,
                 request, reply, out>>

execute ==
  /\ gdb = "execute"
  /\ IF check_cond_failed(read_cpsr(core), Cond(mot))
     THEN core' = arm_exception(core, RESET) /\ exception' = RESET
     ELSE /\ \E junk \in Junk : core' = select_execute_instruction(core, mot, junk)
          /\ exception' = 0
  /\ Pop
  /\ mot' = None
  /\ IF request.cmd = "c" THEN gdb' = "anticipate" /\ Whole
                          ELSE gdb' = "stop" /\ UNCHANGED stable
  /\ UNCHANGED <<gdbUnchanged, enabled, lock, packet, instruction, request, reply, out>>

send_stop_reason ==
  /\ gdb = "stop"
  /\ Reply(stop_reason(exception)) /\ instruction' = None
  /\ UNCHANGED <<gdbUnchanged, core, exception, trace, lock, mot, out>>
  /\ Whole

(* k shuts the output down and leaves the request without an answer.        *)
kill_request ==
  /\ gdb = "kill"
  /\ out' = FALSE
  /\ request' = None
  /\ gdb' = "unlock"
  /\ UNCHANGED <<gdbUnchanged, target, exception, trace, lock, packet, locals, reply>>

(* The end of gdb's input ends the scanner and the thread.                  *)
(* Mutation: the scanner starts again.                                      *)
end_of_file_ignored ==
  /\ gdb = "scan" /\ client = "closed" /\ request = None
  /\ UNCHANGED vars
end_of_file ==
  /\ gdb = "scan" /\ client = "closed" /\ request = None
  /\ gdb' = "done"
  /\ UNCHANGED <<gdbUnchanged, target, exception, trace, lock, packet, locals, request,
                 reply, out>>
-----------------------------------------------------------------------------
(* irq_listener: one byte per connection, as send_irq sends it.             *)
irqUnchanged == <<exception, gdb, main, packet, locals, client, request, reply, sent, irqs,
                  out, heap, process>>

irq_accept ==
  /\ irq = "accept" /\ line # <<>>
  /\ signal' = Head(line) /\ line' = Tail(line)
  /\ irq' = "lock"
  /\ UNCHANGED <<irqUnchanged, target, trace, lock>>

(* Read exits the program when a peer resets its connection.                *)
irq_read_fails == irq = "accept" /\ line # <<>> /\ Exits

(* Mutation: the exception is raised without the lock.                      *)
irq_lock_missing ==
  /\ irq = "lock"
  /\ irq' = IF signal = RESET THEN "cpsr" ELSE "unlock"
  /\ UNCHANGED <<irqUnchanged, target, trace, signal, line, lock>>
irq_lock ==
  /\ irq = "lock" /\ lock = "free"
  /\ lock' = "irq"
  /\ irq' = IF signal = RESET THEN "cpsr" ELSE "unlock"
  /\ UNCHANGED <<irqUnchanged, target, trace, signal, line>>

(* arm_exception: RESET writes the CPSR, then the pc.  After main has freed *)
(* the core these writes go to freed memory.                                *)
reset_cpsr ==
  /\ irq = "cpsr"
  /\ core' = IF heap = "live" THEN write_cpsr(core, Small(467)) ELSE core
  /\ Push
  /\ irq' = "pc"
  /\ UNCHANGED <<irqUnchanged, stable, enabled, lock, signal, line>>

reset_pc ==
  /\ irq = "pc"
  /\ core' = IF heap = "live" THEN arm_write_register(core, PC, Zero) ELSE core
  /\ Pop
  /\ irq' = "unlock"
  /\ UNCHANGED <<irqUnchanged, enabled, lock, signal, line>>
  /\ IF heap = "live" THEN Whole ELSE UNCHANGED stable

irq_unlock ==
  /\ irq = "unlock"
  /\ lock' = "free"
  /\ signal' = None
  /\ irq' = "accept"
  /\ UNCHANGED <<irqUnchanged, target, trace, line>>
-----------------------------------------------------------------------------
(* main: after gdb_listener, arm_destroy, memory_destroy and the return     *)
(* that ends the process, irq_listener with it.                             *)
mainUnchanged == <<target, exception, trace, lock, gdb, irq, packet, locals, signal,
                   peers, request, reply, out>>

join ==
  /\ main = "join" /\ gdb = "done"
  /\ main' = "destroy"
  /\ UNCHANGED <<mainUnchanged, heap, process>>

destroy ==
  /\ main = "destroy"
  /\ heap' = "freed" /\ main' = "return"
  /\ UNCHANGED <<mainUnchanged, process>>

return ==
  /\ main = "return"
  /\ process' = "exited"
  /\ UNCHANGED <<mainUnchanged, main, heap>>
-----------------------------------------------------------------------------
Gdb ==
  \/ packet_analysis \/ ack_fails \/ send_unsupported \/ gdb_lock \/ send \/ gdb_unlock \/ simple
  \/ trace_disable \/ read_or_write_register \/ read_general_registers
  \/ read_status_register \/ write_general_registers \/ write_status_register
  \/ trace_enable \/ anticipate \/ fetch \/ execute \/ send_stop_reason
  \/ kill_request \/ end_of_file \/ register_handler_aborts
Irq == irq_accept \/ irq_lock \/ reset_cpsr \/ reset_pc \/ irq_unlock
Main == join \/ destroy \/ return
Outside == GdbSends \/ GdbReads \/ GdbCloses \/ IrqSent
Failure == WriteFails \/ irq_read_fails

(* Nothing happens once the process is gone.                                *)
Next ==
  \/ process = "running" /\ (Gdb \/ Irq \/ Main \/ Outside \/ Failure)
  \/ process = "exited" /\ UNCHANGED vars

Spec == Init /\ [][Next]_vars

(* Every thread that can run is scheduled.  glibc's mutex gives no more     *)
(* than weak fairness: it is enough because the interrupts are finitely     *)
(* many.  Nothing is asked of gdb and of the irq senders.                   *)
Running(A) == process = "running" /\ A
FairSpec ==
  /\ Spec
  /\ WF_vars(Running(Gdb)) /\ WF_vars(Running(Irq)) /\ WF_vars(Running(Main))
-----------------------------------------------------------------------------
GdbLabels == {"scan", "lock", "unlock", "simple", "quiet", "registers", "status",
              "loud", "send", "unsupported", "anticipate", "peek", "fetch", "execute", "stop",
              "kill", "done"}
IrqLabels == {"accept", "lock", "cpsr", "pc", "unlock"}

(* The control state of the three threads and the state they share.         *)
TypeOK ==
  /\ core \in Core /\ exception \in {0, RESET}
  /\ enabled \in BOOLEAN /\ depth \in Int
  /\ lock \in {"free", "gdb", "irq"}
  /\ gdb \in GdbLabels /\ irq \in IrqLabels /\ main \in {"join", "destroy", "return"}
  /\ signal \in Exceptions \cup {None} /\ line \in Seq(Exceptions)
  /\ client \in {"open", "closed"} /\ request \in Requests \cup {None}
  /\ sent \in 0..MaxRequests /\ irqs \in 0..MaxIrqs
  /\ out \in BOOLEAN /\ heap \in {"live", "freed"} /\ process \in {"running", "exited"}

(* A handler and an exception are never in the target at the same time.     *)
GdbInside == gdb \in GdbLabels \ {"scan", "lock", "unsupported", "done"}
IrqInside == irq \in {"cpsr", "pc", "unlock"}
MutualExclusion == ~(GdbInside /\ IrqInside)

(* Tracing is on and the location stack of trace.c is empty whenever nobody *)
(* holds the lock: every handler turns on again what it turned off, and a   *)
(* push made with tracing on is popped with tracing on, even though the     *)
(* interrupt thread traces its accesses too.                                *)
TraceClean == lock = "free" => enabled /\ depth = 0

(* Each access to the registers and the memory by the simulated program or  *)
(* by an exception is traced, those made on behalf of gdb are not, and an   *)
(* access that has pushed its location pops it: what one thread traces must *)
(* not depend on the handler the other is in ("outputs informations about   *)
(* each access", arm_simulator.c).                                          *)
TraceFaithful ==
  /\ gdb \in {"fetch", "execute"} \/ irq \in {"cpsr", "pc"} => enabled
  /\ gdb \in {"registers", "status", "peek"} => ~enabled
  /\ depth = (IF gdb = "execute" \/ irq = "pc" THEN 1 ELSE 0)

(* The threads with their lock implement the atomic target: each gdb        *)
(* request and each interrupt takes effect at once, and an answer such as   *)
(* the registers of g is a snapshot of one moment.                          *)
Atomic == INSTANCE AtomicTarget WITH core <- stable.core, exception <- stable.exception
IsAtomic == Atomic!Spec

(* gdb is answered, whatever interrupts arrive: no request is lost, and the *)
(* lock is never kept by a thread that waits for the other.                 *)
RequestAnswered == request # None ~> request = None \/ process = "exited"

(* "[It] can receive interrupts" (arm_simulator.c, usage): an interrupt     *)
(* that was received is eventually delivered to the target.                 *)
InterruptDelivered == irq = "lock" ~> irq = "accept" \/ process = "exited"

(* When gdb goes away, the simulator ends.                                  *)
Ends == client = "closed" ~> process = "exited"

(* The target outlives the threads that use it ("main" joins gdb_listener   *)
(* before arm_destroy): no exception is raised on a freed core.             *)
NoUseAfterFree == process = "running" /\ irq \in {"cpsr", "pc"} => heap = "live"

(* "We implement the continue command as a loop that waits for this         *)
(* instruction" (gdb_protocol.c): it stops at a breakpoint only.            *)
StopsAtBreakpoint ==
  gdb = "stop" /\ request.cmd = "c" =>
    Accessible(NextPc(core), 4) /\ IsBreakpoint(Fetched(core))
=============================================================================
