---------------------------- MODULE AtomicTarget ----------------------------
(***************************************************************************)
(* The simulator as its two clients may think of it: no threads and no     *)
(* lock, a target on which every gdb request and every interrupt takes     *)
(* effect at once.  Continue is the exception: its steps are visible one   *)
(* by one, until the instruction about to execute is a breakpoint.         *)
(*                                                                         *)
(* What a command or an instruction does to a core is a parameter: the     *)
(* operators of ArmInstruction and GdbCommands take the place of the       *)
(* constants of the same names.                                            *)
(***************************************************************************)
CONSTANTS
  Requests, Loaded, Junk, None, RESET,
  Simple,                                   (* the commands served at once *)
  Aborts(_), SimpleEffect(_, _), SimpleReply(_, _, _),
  ReadGeneral(_), WriteGeneral(_, _), WriteStatus(_, _), read_cpsr(_),
  NextPc(_), Fetched(_), Accessible(_, _), IsBreakpoint(_),
  arm_step(_, _), arm_exception(_, _), stop_reason(_)

VARIABLES
  core,       (* registers and memory                                      *)
  exception,  (* result of the last step, told by ? and by stop replies    *)
  request,    (* the request gdb waits an answer for                       *)
  reply       (* the answer gdb has not read yet                           *)

Init ==
  /\ core \in Loaded
  /\ exception = 0 /\ request = None /\ reply = None

Submit ==
  /\ request = None /\ reply = None
  /\ request' \in Requests
  /\ UNCHANGED <<core, exception, reply>>

Answer(p, e, a) ==
  /\ core' = p /\ exception' = e /\ reply' = a
  /\ request' = None

ServeSimple ==
  /\ request # None /\ request.cmd \in Simple /\ ~Aborts(request)
  /\ Answer(SimpleEffect(core, request), exception, SimpleReply(core, exception, request))

ServeUnsupported ==
  /\ request # None /\ request.cmd = "other"
  /\ Answer(core, exception, "")

ReadRegisters ==
  /\ request # None /\ request.cmd = "g"
  /\ Answer(core, exception,
            [general |-> ReadGeneral(core), pc |-> NextPc(core), cpsr |-> read_cpsr(core)])

WriteRegisters ==
  /\ request # None /\ request.cmd = "G"
  /\ Answer(WriteStatus(WriteGeneral(core, request.values), request.values), exception, "OK")

StepOnce ==
  /\ request # None /\ request.cmd = "s"
  /\ \E junk \in Junk :
       LET s == arm_step(core, junk) IN Answer(s.core, s.rc, stop_reason(s.rc))

ContinueStep ==
  /\ request # None /\ request.cmd = "c"
  /\ \E junk \in Junk :
       LET s == arm_step(core, junk) IN core' = s.core /\ exception' = s.rc
  /\ UNCHANGED <<request, reply>>

(* With a pc outside the memory there is no instruction to compare, and     *)
(* nothing is promised.                                                     *)
ContinueStops ==
  /\ request # None /\ request.cmd = "c"
  /\ Accessible(NextPc(core), 4) => IsBreakpoint(Fetched(core))
  /\ Answer(core, exception, stop_reason(exception))

Kill ==
  /\ request # None /\ request.cmd = "k"
  /\ request' = None
  /\ UNCHANGED <<core, exception, reply>>

Interrupt ==
  /\ core' = arm_exception(core, RESET)
  /\ UNCHANGED <<exception, request, reply>>

Read ==
  /\ reply # None /\ reply' = None
  /\ UNCHANGED <<core, exception, request>>

Next ==
  \/ Submit \/ ServeSimple \/ ServeUnsupported \/ ReadRegisters \/ WriteRegisters
  \/ StepOnce \/ ContinueStep \/ ContinueStops \/ Kill \/ Interrupt \/ Read

Spec == Init /\ [][Next]_<<core, exception, request, reply>>
=============================================================================
