------------------------------ MODULE Startup ------------------------------
(***************************************************************************)
(* main of arm_simulator.c up to the point where Simulator begins: the     *)
(* options, the trace and debug selections they make, the creation of the  *)
(* target, and the two threads that open their servers at the same time.   *)
(***************************************************************************)
EXTENDS DebugFiles

CONSTANTS
  Ports,      (* arguments of --gdb-port and --irq-port                     *)
  PortSpan,   (* number of ports: in_port_t has 16 bits                     *)
  Files,      (* arguments of --trace-file                                  *)
  Writable,   (* those that can be opened                                   *)
  Switches,   (* trace switches given, of REGISTERS MEMORY STATE POSITION   *)
  MaxOthers,  (* bound on the options other than --debug                    *)
  Stdout      (* the trace file by default                                  *)

ASSUME StartupAssumption ==
  /\ Ports \subseteq Nat /\ PortSpan \in Nat \ {0} /\ Writable \subseteq Files
  /\ MaxOthers \in Nat

Threads == {"gdb", "irq"}

VARIABLES
  main,          (* options, handlers, set, create, running or exited       *)
  others,        (* number of options other than --debug                    *)
  port,          (* shared.gdb_port and shared.irq_port                     *)
  trace_file,    (* local variable of main                                  *)
  flags, output, (* trace_flags and output of trace.c                       *)
  thread,        (* where each listener is                                  *)
  bound          (* the port its socket is bound to, 0 if none              *)

options == <<port, trace_file, flags>>
servers == <<thread, bound>>
startVars == <<main, others, options, output, servers>>
vars == <<debugVars, startVars>>

Init ==
  /\ DebugInit
  /\ main = "options" /\ others = 0
  /\ port = [t \in Threads |-> 0] /\ trace_file = Stdout
  /\ flags = {} /\ output = "none"
  /\ thread = [t \in Threads |-> "none"] /\ bound = [t \in Threads |-> 0]
-----------------------------------------------------------------------------
(* The loop of getopt_long: one option a turn.                              *)
Option == main = "options" /\ call = "none"
Other ==
  /\ Option /\ others < MaxOthers /\ others' = others + 1
  /\ UNCHANGED <<debugVars, output, servers>>

(* -g and -i: in_port_t keeps 16 bits of what atoi returns.  Mutation: it    *)
(* keeps them all.                                                          *)
option_port_wide(t) ==
  /\ Other
  /\ \E p \in Ports : port' = [port EXCEPT ![t] = p]
  /\ UNCHANGED <<main, trace_file, flags>>
option_port(t) ==
  /\ Other
  /\ \E p \in Ports : port' = [port EXCEPT ![t] = p % PortSpan]
  /\ UNCHANGED <<main, trace_file, flags>>

option_trace_file ==
  /\ Other
  /\ \E f \in Files :
       \/ f \in Writable /\ trace_file' = f /\ main' = main
       \/ f \notin Writable /\ trace_file' = trace_file /\ main' = "exited"
  /\ UNCHANGED <<port, flags>>

trace_add ==
  /\ Other
  /\ \E s \in Switches : flags' = flags \cup {s}
  /\ UNCHANGED <<main, port, trace_file>>

(* -h, and an unrecognized option.                                          *)
usage ==
  /\ Other
  /\ main' = "exited"
  /\ UNCHANGED options

option_debug ==
  /\ Option
  /\ \E n \in Names : add_debug_to(n)
  /\ UNCHANGED startVars

(* The end of the options: gdb_init, whose message asks whether its file is *)
(* debugged before it sets the handlers, and set_trace_file, before         *)
(* memory_create and arm_create.                                            *)
gdb_init ==
  /\ Option
  /\ \E n \in Names : is_debugged(n)
  /\ main' = "handlers"
  /\ UNCHANGED <<others, options, output, servers>>

gdb_init_handlers ==
  /\ main = "handlers"
  /\ clear_handlers
  /\ main' = "set"
  /\ UNCHANGED <<others, options, output, servers>>

set_trace_file ==
  /\ main = "set"
  /\ output' = trace_file /\ main' = "create"
  /\ UNCHANGED <<debugVars, others, options, servers>>

(* memory_create, arm_create, which resets and traces, and the threads.     *)
arm_create ==
  /\ main = "create"
  /\ main' = "running" /\ thread' = [t \in Threads |-> "socket"]
  /\ UNCHANGED <<debugVars, others, options, output, bound>>
-----------------------------------------------------------------------------
(* create_server, by each thread.  The kernel gives port 0 any free port,   *)
(* refuses to bind a socket to a port another one listens on, and may or    *)
(* may not do it while the other is only bound, SO_REUSEADDR being set;     *)
(* then it refuses to listen.  The wrappers of csapp.c exit the whole       *)
(* process on a failure.                                                    *)
Ephemeral == 1 .. PortSpan - 1
Peer(t) == IF t = "gdb" THEN "irq" ELSE "gdb"
Listening(t) == thread[t] \in {"accept", "serving"}
Running(t, label) ==
  main = "running" /\ thread[t] = label /\ (t = "gdb" => call = "none")

Fails ==
  /\ main' = "exited"
  /\ UNCHANGED <<debugVars, others, options, output, servers>>

Bind(t) ==
  /\ Running(t, "socket")
  /\ \E p \in IF port[t] = 0 THEN Ephemeral \ {bound[Peer(t)]} ELSE {port[t]} :
       /\ ~(Listening(Peer(t)) /\ bound[Peer(t)] = p)
       /\ bound' = [bound EXCEPT ![t] = p]
  /\ thread' = [thread EXCEPT ![t] = "listen"]
  /\ UNCHANGED <<debugVars, main, others, options, output>>

BindFails(t) ==
  /\ Running(t, "socket")
  /\ port[t] # 0 /\ bound[Peer(t)] = port[t]
  /\ Fails

(* Mutations: a failure is not noticed; the call is made again.             *)
ListenUnchecked(t) ==
  /\ Running(t, "listen")
  /\ thread' = [thread EXCEPT ![t] = "accept"]
  /\ UNCHANGED <<debugVars, main, others, options, output, bound>>
Listen(t) ==
  /\ Running(t, "listen")
  /\ ~(Listening(Peer(t)) /\ bound[Peer(t)] = bound[t])
  /\ thread' = [thread EXCEPT ![t] = "accept"]
  /\ UNCHANGED <<debugVars, main, others, options, output, bound>>

ListenRetries(t) ==
  /\ Running(t, "listen")
  /\ Listening(Peer(t)) /\ bound[Peer(t)] = bound[t]
  /\ UNCHANGED vars
ListenFails(t) ==
  /\ Running(t, "listen")
  /\ Listening(Peer(t)) /\ bound[Peer(t)] = bound[t]
  /\ Fails

Accept(t) ==
  /\ Running(t, "accept")
  /\ thread' = [thread EXCEPT ![t] = "serving"]
  /\ UNCHANGED <<debugVars, main, others, options, output, bound>>

(* The messages of the scanner and of the handlers.                         *)
debug ==
  /\ Running("gdb", "serving")
  /\ \E n \in Names : is_debugged(n)
  /\ UNCHANGED startVars
-----------------------------------------------------------------------------
Options ==
  \/ \E t \in Threads : option_port(t)
  \/ option_trace_file \/ trace_add \/ usage \/ option_debug
Called ==
  /\ main # "exited"
  /\ \/ InCall /\ UNCHANGED startVars
     \/ Faults /\ Fails
Main == gdb_init \/ gdb_init_handlers \/ set_trace_file \/ arm_create
Thread(t) == Bind(t) \/ BindFails(t) \/ Listen(t) \/ ListenFails(t)
Peers == debug \/ \E t \in Threads : Accept(t)

Next == Options \/ Called \/ Main \/ (\E t \in Threads : Thread(t)) \/ Peers
Spec == Init /\ [][Next]_vars

(* Every thread that can run is scheduled; there are finitely many options, *)
(* and nothing is asked of the clients.                                     *)
FairSpec ==
  /\ Spec
  /\ WF_vars(Called) /\ WF_vars(Main) /\ \A t \in Threads : WF_vars(Thread(t))
-----------------------------------------------------------------------------
TypeOK ==
  /\ DebugTypeOK
  /\ main \in {"options", "handlers", "set", "create", "running", "exited"}
  /\ others \in 0..MaxOthers
  /\ port \in [Threads -> 0 .. PortSpan - 1] /\ trace_file \in Writable \cup {Stdout}
  /\ flags \subseteq Switches /\ output \in Writable \cup {Stdout, "none"}
  /\ thread \in [Threads -> {"none", "socket", "listen", "accept", "serving"}]
  /\ bound \in [Threads -> 0 .. PortSpan - 1]

(* gdb and the irq senders are served on two ports, whatever the options    *)
(* and whichever thread opens its server first; asked for the same port     *)
(* twice, the simulator ends instead of serving one of them.                *)
TwoServers ==
  Listening("gdb") /\ Listening("irq") =>
    /\ bound["gdb"] # bound["irq"]
    /\ \A t \in Threads : port[t] # 0 => bound[t] = port[t]

(* The two ends of the search always meet, unless the process ends before:  *)
(* by the other thread, or because of an overrun of the table.              *)
SearchEnds == call = "search" ~> call = "none" \/ main = "exited"

(* The simulator gets to serve both, or ends.                               *)
Starts ==
  main = "handlers" ~> (main = "exited" \/ \A t \in Threads : Listening(t))
=============================================================================
