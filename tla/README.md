# A verification of arm_simulator

`src/arm_simulator-1.4` is an ARM instruction simulator that gdb drives over a
socket: gdb loads a program, steps it, reads and writes its registers and
memory; other programs send it interrupts. This directory holds TLA+ models of
it, the TLC runs that check them and proofs checked by TLAPS. `PROJECT.json`
says, for each definition, which lines of the source it stands for, and for
each property a plausible mistake in the code that breaks it.

Source names below are relative to `src/arm_simulator-1.4`.

## The system

| component | source | state | operations |
|---|---|---|---|
| memory | `memory.c` | an array of bytes, its size in words, its byte order | read and write of a byte, a half, a word, each with a guard and a return code |
| processor state | `registers.c`, `arm_core.c`, `arm_exception.c` | 15 registers, the CPSR, a cycle counter | register accessors, fetch, memory accessors, exceptions |
| instruction execution | `arm_instruction.c`, `arm_data_processing.c`, `arm_load_store.c`, `arm_branch_other.c` | none of its own | one step: fetch, condition, decode, execute, exception |
| gdb handlers | `gdb_protocol.c` | the packet, the exception of the last step | twelve commands, dispatched by letter under the lock |
| scanner and link | `scanner.l`, `gdb_protocol.c` | the buffer of invalid characters, the last packet sent | tokens `+`, `-`, packet, anything else, end of file; checksum; acknowledgement and retransmission |
| threads and lock | `arm_simulator.c` | a mutex, the two sockets | `gdb_listener`, `irq_listener`, `main` |
| trace | `trace.c` | an enabled flag, a stack of locations, files | enable, disable, push, pop, output |
| irq sender | `send_irq.c`, `arm_constants.c` | none | find the exception its argument names, connect, send one byte, close |
| start-up | `arm_simulator.c` | the ports asked for, the trace selections | options, creation of the target, opening of the two servers |
| debug selection | `debug.c` | a sorted table of file names | insert, binary search |
| robust I/O | `csapp.c` | none that is used | read, write, accept, connect; a failure ends the process |

How they interact. `main` reads its options, which select the debug messages,
the traces and the ports, creates the target, starts two threads and joins the
first. Each thread opens its own server; a failure of either ends the process.
`gdb_listener` accepts one gdb and runs the scanner on its connection; for each
packet with a right checksum the scanner calls `gdb_packet_analysis`, which
acknowledges it, takes the lock, runs the handler, which sends its answer, and
releases the lock. `irq_listener` accepts one sender after another, reads one
byte, takes the lock and raises that exception on the same core. Handlers and
exceptions share the registers, the memory and the globals of `trace.c`. When
gdb goes away the scanner ends, `main` frees the core and the memory, and
returns, which ends `irq_listener` wherever it is.

What is hard: the two threads and what each lock covers; a handler that has
tracing off while an exception traces; the end of the process while
`irq_listener` runs; writes that kill the process; requests and answers that
are corrupted, refused and sent again; one buffer for every answer, whose
length follows it; writes that take a part of it; words that go through the
byte order of the host; two servers opened at once; an array of 15 registers whose 16th
entry is the CPSR; return codes and reads that are ignored; operands narrower
than the registers; a memory of bytes accessed in three widths and two byte
orders. `PROJECT.json` lists these hazards one by one with the properties that
cover them.

What makes each component correct:

- memory: a value written is read back until something overlaps it, all widths
  agree on the byte order, a refused access changes nothing, an aligned access
  inside the array is not refused, and none reaches outside it;
- processor and instructions: a step computes what the ARM manual says and
  disturbs nothing else; a reset disturbs neither the registers nor the memory;
- handlers and threads: each request and each interrupt takes effect at once,
  as if there were one thread; every request is answered; the trace state is
  balanced; the simulator ends when gdb does;
- link: each request executes once, and gdb accepts each answer once; a Ctrl-C
  makes for one execution too many at most, and never for one out of order;
- text: an answer is received whole, and what gdb has read and written is what
  the target holds;
- start-up: two servers on two ports, or no process; the debug messages asked
  for and no others.

## The modules

| module | models | built from |
|---|---|---|
| `Words` | 32-bit words as four bytes, `util.c` | |
| `Memory` | the six access functions of `memory.c` as `Accepts`, `Load`, `Store` | `Words` |
| `ValueStore` | abstract: what `memory.h` promises | |
| `MemorySystem` | the memory and its clients; refines `ValueStore` | `Memory` |
| `ArmCore` | registers, CPSR, fetch, reset, names of the exceptions | `Memory` |
| `ArmInstruction` | `arm_step` and everything it calls | `ArmCore` |
| `Machine` | the processor alone: a step or an exception | `ArmInstruction` |
| `GdbCommands` | what each handler reads, writes and replies | `ArmInstruction` |
| `AtomicTarget` | abstract: the target with no threads; its handlers are parameters | |
| `Simulator` | the three threads, gdb and the irq senders; refines `AtomicTarget` | `GdbCommands` |
| `GdbHex` | bytes and words as hexadecimal digits, escaped bytes | `Memory` |
| `GdbText` | requests and answers as text, the packet buffer, its frame, short writes | `GdbCommands`, `GdbHex` |
| `GdbLink` | scanner, checksum, retransmissions, and gdb at the other end | |
| `DebugFiles` | `debug.c`: the table of names and its search | |
| `Startup` | the options of `main` and the opening of the two servers | `DebugFiles` |
| `ArmProofs` | lemmas on words, the core and each instruction | `ArmInstruction` |
| `MemoryProofs`, `MachineProofs`, `SimulatorProofs`, `GdbTextProofs`, `GdbLinkProofs`, `StartupProofs` | the proofs | the module they are named after; `ArmProofs` |
| `RefinementProofs` | the proof that `Simulator` implements `AtomicTarget` | `SimulatorProofs` |
| `MCMemory`, `MCMachine`, `MCSimulator`, `MCText`, `MCStartup` | values of the constants for TLC | |

How they fit together: `Startup` ends where `Simulator` begins, `Simulator`
takes the link and the text for granted, `GdbLink` shows that a request that is
sent again executes once whatever a handler is, and `GdbText` what one exchange
carries whatever the connection has carried before.

**Memory.** `memo` is the array. The size check of the code is `address/4 >
mem->size`, so the word after the array is accepted; the model has those four
bytes (`Cell`), and the built simulator has them too, since
malloc rounds both sizes it asks for up past them. `Lane` is the byte order.
`view` is a history variable: the values a client may rely on.

**ArmCore, ArmInstruction, Machine.** A core is a record of the 16 words of the
register array and the memory. `registers.c` allocates 15 registers and `cpsr`
is the next word, so register 15 and the CPSR are one word here. Words are four
bytes, most significant first, because the operands the code truncates to 8 and
16 bits, and the branch offset it extends by hand, are what the properties are
about. The word an ignored failed read leaves in a local variable is chosen
from the constant `Junk`; the fetch is the exception, where that variable holds
the CPSR. The cycle counter and the printing of the state are left out.

**GdbCommands, Simulator.** A request is a record with the letter of the
command and its arguments; hexadecimal text is left to `GdbText`, except for the
register number of `p`, which the code reads as a decimal number. `Simulator`
has a label for each thread (`gdb`, `irq`, `main`). Handlers whose accesses to
register 15 or to the trace state could meet those of an exception are split at
each of them: `c` is `trace_disable`, then `anticipate`, `fetch`, `execute` for
each instruction, then the stop reply; `s` is `fetch` and `execute`; `g` and
`G` separate the registers from the CPSR; memory is only touched by one thread.
`Push` and `Pop` are the location stack, which moves only when tracing is on.
`out` becomes FALSE when `k` shuts the output down; later writes end the
process (`ack_fails`), and a write to a connection gdb has closed may
(`WriteFails`). `stable` is a history variable for the refinement: the target
after the last whole operation. `gdb` and the irq senders are external; what a
sender sends is the exception its argument names (`irq_named`).

`AtomicTarget` declares the handlers, `arm_step` and `arm_exception` as
operator parameters and says only that each request and each interrupt is one
step of the target; `Simulator` instantiates it with its own. The refinement is
therefore about the order of the effects, and `Machine`, `GdbText` and the
proofs of `ArmProofs` about what the effects are.

**GdbHex, GdbText.** A character is its ASCII code. `packet` is the array of
`struct gdb_protocol_data` with the field that follows it, `len`, byte by byte,
because a long answer runs into it. `write_uint32` and `read_uint32` go through
a union, in the byte order of the host (`HostByte`, `HostWord`), and their loops
up or down (`Turn`). A handler is one step: the parsing of its arguments
(`Parsed`), the text it leaves in the buffer (`Body`), its effect, and
`gdb_send_buffer`, which looks for the terminator (`End`), sums, frames and
assigns `len`. `rio_writen` writes a piece at a time; `gdb_transmit_packet` is
what a `-` does. gdb, external, checks the sum, and `view` is what it believes
of the registers and of the memory, the CPSR included, which `g` tells and `G`
writes. As gdb does, a `G` gives the last text of `g` back with the words of the
registers it changes (`Changes`). `view.lost` names the registers gdb has
spoilt without knowing it, the pc and the CPSR being one word: the CPSR after a
`P` of the pc, and the pc after a `G` that changes either of them, since `G`
writes the CPSR last.

**DebugFiles, Startup.** A file name is its rank for `strcmp`. The two functions
take a step per turn of their loops and return to whoever called them: the
options of `main`, `gdb_init`, or a message of a thread. `wanted` is a history
variable, the names given. A name that sorts before the end of a full table is
inserted all the same, and the last entry is shifted out of the array
(`overrun`). What is there depends on the build: `after` is "nb" when
`nb_debugged_files` follows the array, as gcc lays it out without optimization,
and "handler" when the table of gdb's handlers does, as with -O2. In the first
case `nb` becomes the low half of an address plus one, so that it is negative
(`Negative`), or beyond the memory of the process (`Beyond`); in the second the
entries go on in the table of handlers until `gdb_init` clears it
(`clear_handlers`). Searches go on with what is left, and a search that is given
NULL, or reads or shifts beyond the cells of the model, ends the process
(`Faults`). `Startup` has one action per option of `getopt_long`,
then `gdb_init`, the trace file, `arm_create` (with the memory and the threads),
and `Bind`, `Listen` and `Accept` of each thread. The kernel is modelled by what
the code needs of it: a free port for port 0, and a refusal at `bind` or at
`listen` when the other server has the port (`SO_REUSEADDR` is set). A failure
ends the process, as the wrappers of `csapp.c` do.

**GdbLink.** The two directions of the connection are sequences of tokens. A
packet is the number of its request, or garbled, its checksum being wrong;
`len` is the number of characters in the error buffer, `last` what
`gdb->packet` holds. A handler is one step (`send_buffer`): `Simulator` is what
it is made of. gdb is modelled as the code expects it: it sends one request at
a time, sends again what is refused with `-`, refuses an answer with a wrong
checksum, ignores acknowledgements it does not wait for, and acknowledges and
drops an answer it does not expect. Corruption changes the content of a packet
and never its frame (`$`, `#`): a broken frame would reach the scanner as
invalid characters, for which the stray characters stand.

## What the runs check

| run | module | result | what it shows |
|---|---|---|---|
| `memory` | `MCMemory` | pass | `TypeOK`, `KnownValues`, `BytesInOrder`, refinement of `ValueStore` |
| `machine` | `MCMachine` | pass | `TypeOK`, `DataProcessing`, `PreIndexed`, `StepFrame`, `BranchTarget`, `RunningOffResets`, `ResetKeepsData` |
| `simulator` | `MCSimulator` | pass | `TypeOK`, `MutualExclusion`, `TraceClean`, `TraceFaithful`, refinement of `AtomicTarget` |
| `liveness` | `MCSimulator` | pass | `RequestAnswered`, `InterruptDelivered`, `Ends` |
| `text` | `MCText` | pass | `TypeOK`, `AnswerWhole`, `GdbKnows`, `OneByteOrder` |
| `link` | `GdbLink` | pass | `TypeOK`, `ExecutedOnce`, `AtMostOneMore`, `Answered` |
| `startup` | `MCStartup` | pass | `TypeOK`, `TwoServers`, `FilesSelected`, `SearchEnds`, `Starts` |
| `memory_bounds` | `MCMemory` | violation | an access one word after the array succeeds |
| `exception_after_free` | `MCSimulator` | violation | an exception is raised on the core `main` has freed |
| `stop_without_breakpoint` | `MCSimulator` | violation | `c` stops on an uninitialised word when the pc is outside the memory |
| `answer_too_long` | `MCText` | violation | an answer to `m` of the size announced to gdb is not received |
| `ctrl_c` | `GdbLink` | violation | after a Ctrl-C during a request, the next request executes twice |

Each violation is a disagreement between the code and what the repository says
of it, quoted under "findings" in `PROJECT.json`.

### Bounds

- `memory`: one word, its addresses 0, 1 and 2, and a refused one (the word the
  guard lets through is for `memory_bounds`); byte values 0 and 1. Accesses of
  all widths overlap in every way they can within a word, and no access spans
  two. The array starts with the same byte everywhere (`MCSpec`), since what
  was never written is unknown to the clients. The proofs need none of these
  bounds.
- `machine`: a memory of 4 words; programs of one instruction for data
  processing (16 opcodes, 8 values of the operand around the edges of 16 and 32
  bits, the pc as operand or as destination; two of the values with the S bit
  set) and for transfers (all
  combinations of the P, U, B, W, L bits, five bases, including the last word,
  beyond the end, unaligned and wrapping at 2^32), and eleven programs with
  loops, calls, jumps through registers, shifts and a store over their own
  code. `MaxCycles` = 6 steps is enough to run each of them past its
  interesting point; a reset may come before any step. Junk is all zeros or all
  ones.
- `simulator`: 3 requests of 18, 2 interrupts, a program of two instructions
  with a breakpoint. Two interrupts are needed for one to wait while another is
  served; three requests for one to find what the one before left, such as the
  output shut down.
- `liveness`: 2 requests of 4 and 1 interrupt, for the size of the behaviour
  graph.
- `text`: 4 requests, of 8 and of 4 `G` (which change nothing, one register,
  one register and the pc, or the CPSR), and one retransmission: an answer may
  follow a longer one, a write be read back by another command, and `G` restore
  what `P` has changed since. A memory of 20 words and a buffer of 160 characters
  with one word of f0..f7 keep the proportions of the program, where the answer
  to `g` fits and an `m` of half the buffer does not; the longest `m` asked
  fills the buffer to its last character. Short writes are of 60 characters or
  all. The host is little-endian and the target big-endian, as the program is
  built and run; the proofs cover the three other cases.
- `startup`: a table of 3 entries, up to 5 `--debug` options among 3 names, so
  that it overflows at each place, and once more after that; 2 other options; ports 0, 1 and 4, with as
  many as 3 ports, so that 4 is 1 as 65537 is 1 on 16 bits.
- `link`: 3 requests, 3 corrupted packets, 4 strays, an error buffer of 3
  characters instead of 1024. Three corruptions let a request, its resend and
  its answer all be corrupted; four strays overflow the buffer.

### Fairness

`FairSpec` of `Simulator` has weak fairness of each thread while the process
runs. The three are POSIX threads; a mutex of glibc gives no stronger
guarantee, and weak fairness is enough because the interrupts of an instance
are finitely many. Nothing is asked of gdb (it may stop reading or sending), of
the irq senders, or of failures. `RequestAnswered` and `InterruptDelivered`
hold for a program that reaches a breakpoint: the lock is held for the whole of
`c`, so with a program that loops for ever an interrupt is never delivered and
a request never answered. `FairSpec` of `GdbLink` has weak fairness of the
scanner, which reads in a loop, and of gdb reading what it receives; gdb need
not send anything. The bound on the corrupted packets plays the part of a line
that lets a packet through in the end. `FairSpec` of `Startup` has weak
fairness of `main` and of each thread; the options are finitely many, and a
client need not come.

`CHECK_DEADLOCK FALSE` appears in `link`, `ctrl_c`, `text` and
`answer_too_long`, where gdb may have nothing more to send, and in `startup`,
where the process may have exited; in `Simulator` a process that has exited
stutters explicitly.

## What is proved

For every value of the constants that satisfies the assumptions named in the
modules:

| theorem | statement |
|---|---|
| `MemoryTypeCorrect` | `Spec => []TypeOK` |
| `MemoryKeepsValues` | `Spec => []KnownValues` |
| `MemoryBytesInOrder` | `Spec => []BytesInOrder`, in both byte orders |
| `MemoryImplementsValueStore` | the array with its guards implements the abstract memory |
| `StepKeeps` | a step of `arm_step` on any core and any word gives a core, and changes only the registers the instruction names |
| `MachineTypeCorrect` | `Spec => []TypeOK` |
| `StepsKeepTheRest` | `Spec => StepFrame` |
| `ResetsKeepData` | `Spec => ResetKeepsData` |
| `RunningOffAlwaysResets` | `Spec => RunningOffResets` |
| `DataProcessingIsCorrect` | `Spec => DataProcessing`, for all operands and constants, the S bit clear |
| `PreIndexedIsCorrect` | `Spec => PreIndexed`, for every base, offset, width and memory |
| `BranchesReachTheirTarget` | `Spec => BranchTarget`, for every offset |
| `SimulatorTypeCorrect` | `Spec => []TypeOK` |
| `HandlersExcludeExceptions` | `Spec => []MutualExclusion` |
| `TraceIsClean`, `TraceIsFaithful` | `Spec => []TraceClean`, `Spec => []TraceFaithful` |
| `ThreadsAreAtomic` | `Spec => IsAtomic`: the threads implement `AtomicTarget` |
| `RegisterRoundTrip` | `read_uint32` reads what `write_uint32` writes |
| `AnswersWhole` | `Spec => []AnswerWhole` |
| `ByteOrdersAgree` | `Spec => []OneByteOrder` |
| `TextTypeCorrect` | `Spec => []TypeOK` of `GdbText` |
| `GdbKnowsTarget` | `Understood` implies `Spec => []GdbKnows`, for any `G`, with the exceptions of `view.lost` |
| `LinkTypeCorrect` | `Spec => []TypeOK`: the error buffer never overflows |
| `RequestsExecutedOnce` | `Spec => []ExecutedOnce` |
| `CtrlCCostsOne` | `Spec => []AtMostOneMore`: what a Ctrl-C can do to the requests |
| `TypeCorrect` | `Spec => []TypeOK` of `Startup`, overruns of the table included |
| `DebugSelects` | `Spec => FilesSelected`: after an overrun too, with the names it loses |
| `DistinctServers` | `Spec => []TwoServers` |

The assumptions:

- `MemoryAssumption`, `ClientAssumption`: the size of the memory is positive and
  below 2^28 words (addresses are compared below 2^32), the data are bytes,
  `Unknown` is not a value;
- `SimulatorAssumption`: programs are cores, junk is words, and the requests are
  what the parsing of a packet yields: a letter, words for the registers, bytes
  for the memory;
- `TextAssumption`, `HostAssumption`: the buffer has a multiple of 8 characters
  (its length is aligned after it), less than 2^16, and holds the answer to `g`
  with its frame, as 1024 does; what gdb writes is bytes and words, it asks `m`
  for no more than half of the announced size, and the content of an `X` is the
  bytes it means, `}` and any others it likes escaped (`Escaped`);
- `Understood`, for `GdbKnowsTarget` alone, and evaluated by TLC on the run
  `text`: no `p` of r10 to r15, whose numbers `atoi` misreads (below), and no
  `P` of a pc with bit 1 set, which `g` would not tell back;
- `LinkAssumption`: the error buffer has at least two characters;
- `StartupAssumption`, `DebugAssumption`: there are ports, the table has an
  entry, and at most 63 names are given more than it has entries, so that those
  written behind it in the table of handlers reach no handler that is in use
  (the first is that of `?`, character 63).

The arguments:

- *Memory.* Two lemmas carry it. A value stored is loaded back at the same
  address and width, because `Lane` is a permutation of the bytes of a value; a
  store changes nothing in the bytes of an access that does not overlap it.
  Then `KnownValues` is inductive with `TypeOK`, and `BytesInOrder` follows
  from it state by state. The refinement needs `KnownValues` for the reads,
  that the value returned is the one known, and that an aligned access inside
  the array passes the guard for the refusals.
- *Processor.* `ArmProofs` goes up from the words: every operation on words
  gives a word, an accepted access stays inside the memory, the shifter operand
  is on 16 bits whatever the encoding. Then one lemma for each class of
  instruction says what it keeps (`Keeps`), and `StepKeeps` puts them together.
  The theorems of `Machine` follow state by state. `RunningOffAlwaysResets`
  needs more: off the memory the word fetched is the pc, whose condition field
  is "eq" below 2^28, and whose bit 30, the flag Z, is then clear.
- *Arithmetic.* `DataProcessing`, `PreIndexed` and `BranchTarget` compare the
  words of the code with a second definition, on the two halves of a word as
  integers. The addition of words carries from byte to byte; that it is the
  addition of integers modulo 2^32 is proved half by half, by congruence, since
  the solver does not multiply by 2^32. The bitwise operations are compared bit
  by bit: a word is its 32 bits and they determine it (`WordIsBits`). A fetch at
  an aligned address leaves a pc that reads 8 more (`PcReads8`). Then each
  property is one lemma for the handler of its class of instructions.
- *Lock.* Mutual exclusion is not inductive: the model must know who holds the
  lock. `LockInv` says that the lock is held by gdb exactly when `gdb` is at a
  label inside a handler, and by `irq` exactly when `irq` is between its lock
  and its unlock. Each action preserves it, and two holders are impossible.
  `TraceInv` adds, for each label, whether tracing is on and how deep the stack
  is.
- *Refinement.* The abstract target is `stable`, and `AtomicInv` says, for each
  label, how the core and the packet differ from it: what the handler has done
  so far, or, between the two writes of a reset, the CPSR written and not the
  pc. Exclusion makes the cases disjoint. A step inside a handler is then a
  stutter, and the last step of one is a step of `AtomicTarget`, because what
  the invariant says of the place before is what the abstract step requires.
- *Text.* `Framed` says what the buffer holds while an answer goes out: `End`
  finds the terminator the handler wrote, wherever the previous answer ended,
  because no text has a NUL in it, and a frame that fits ends below `len`. That
  no text has one needs that the target is a core, hence that `G` writes words,
  hence that the text it sends is made of digits, those of a `g` and those of
  the words gdb changes (`ChangedDigits`): the
  invariant `TextInv` carries the three together. Each write then extends what
  gdb has by the next characters of the frame. `ByteOrdersAgree` is
  `DigitsInLanes`: the turn of the loop and the byte of the union compose into
  the lane of the memory in the four cases of host and target.
- *What gdb knows.* The checksum and the unescaping are recursive functions, and
  no induction theorem can be used. `LeastNumber`, every set of numbers that is
  not empty has a least element, replaces it: the least index at which a value
  would be wrong contradicts the equation of the function. So a checksum is a
  byte (`CheckIsByte`) and an `X` is unescaped into what gdb means
  (`UnescapedIsMeant`). `WireInv` says what the buffer holds of any answer, also
  of those whose end runs into `len` (`Shown`), and that gdb has a beginning of
  it; then gdb accepts nothing but the whole text (`AcceptedIsWhole`), since the
  bytes of `len` cannot be the end of a frame, in either byte order of the host.
  `GdbKnows` is not inductive while an answer is on its way, when the target has
  changed and gdb does not know it yet: `KnowInv` speaks instead of what gdb will
  know when it accepts the answer. One lemma for each request (`...Agrees`) says
  that its effect on the target and its effect on that knowledge agree; that of
  `G` (`GeneralWrittenAgrees`) needs that what gdb sends was the answer to a `g`
  but for the words it changes (`ChangedWordRead`). `view.lost` is part of the
  knowledge: without it the agreement is false, as a `g` and a `G` with another pc show.
- *Link.* `ExecutedOnce` depends on what is under way: `OnceInv` says that
  without strays the state is in one of the stages of one exchange (at rest,
  requesting, serving, answering), and lists what each direction of the
  connection may hold in it: one token, possibly behind the acknowledgement of
  the previous answer. Each action moves from a stage to another; the ones that
  would break the order, such as a request read during an answer, have no stage
  in which they are enabled.
  With strays there are no such stages: several copies of a request, answers and
  refusals may be under way. `AtMostOneMore` then follows from two invariants of
  the channels. Each carries its packets in the order of their numbers, a request
  on its way is none that precedes the last one executed, and an answer on its way
  is to a request executed and to none that precedes what gdb accepted
  (`RequestsInOrder`, `ExecutionsInOrder`, `AnswersInOrder`). And what may still
  make for an execution (a request on its way, whole or garbled, the one that
  runs, a stray on its way, an error buffer that is not empty, a refusal sent)
  has been paid for by one request or one stray character, whatever is corrupted
  (`ExecutionsPaidFor`).
- *Start-up.* The search is right because the table is sorted and a name that is
  in it stays between `from` and `to`; the insertion keeps the order, and the
  names it loses are those above a full table. `TableInv` says so of the entries
  and of those behind the table alike, as long as `nb` counts them (`Counting`);
  when they are cleared, NULL entries come last, and a search that meets one ends
  the process. Once a name is written over `nb` the search has nothing between
  `from` and `to`, and finds nothing, or its first middle is beyond the cells.
  Two servers have two ports
  because a socket only listens when no other does on its port.

Only model-checked: the liveness properties (`RequestAnswered`,
`InterruptDelivered`, `Ends`, `Answered`, `SearchEnds`, `Starts`), since TLAPS
has no rule for fairness. Every invariant and every action property of a passing
run is the conclusion of a theorem.

## Where the code is not an ARM, besides the runs

The models compute what the code does, not what the manual says. No run is
devoted to these differences; the properties that compare with the manual leave
them out, in their guards and in their comments:

- no instruction updates the flags: `set_1_bit` returns the new word and
  `write_flags` calls it as if it changed its argument
  (`arm_data_processing.c:78`), so `DataProcessing` is about instructions with
  the S bit clear; `cmp`,
  `cmn`, `tst` and `teq` pass it their result as a register number, and it reads
  outside the array of registers, without effect;
- the test of overflow of an addition answers the contrary of what its comment
  says (`arm_data_processing.c:123`), also without effect;
- a load at an offset writes its base register (`arm_load_store.c:146`);
- a data-processing constant with bits 7 and 4 both set, such as the `0xFF0` of
  `Examples/example_add_sub.s:5`, is decoded as a half-word transfer
  (`arm_instruction.c:343`);
- `sbc` and `rsc` add 1 + C where the comment says they subtract NOT C
  (`arm_data_processing.c:218`);
- a register operand of a data-processing instruction is cut to its low byte,
  and shifted values to 16 bits (`arm_instruction.c:108`, `173`);
- `bl` leaves in r14 the pc as it reads it, its own address + 8, where the
  instruction after it is at + 4 (`arm_branch_other.c:42`); `BranchTarget` says
  nothing of r14;
- a post-indexed transfer uses the updated address (`arm_load_store.c:116`);
- an instruction whose condition fails returns 1, which `arm_step` raises as
  exception 1, RESET (`arm_instruction.c:374`, `385`);
- a reset sets the CPSR to 0x1d3 and then the pc, the same word, to 0
  (`arm_exception.c:36`);
- `swi 0x123456`, which `arm_branch_other.c:69` describes as the end of the
  simulation, is a no-operation: nothing calls the function that handles it.

And in the rest of the program:

- `p` reads the number of its register in decimal up to the first letter, so
  that `p 0a` is answered with r0, where `P` reads it in hexadecimal
  (`gdb_protocol.c:257`);
- `X` compares its address, in bytes, with a size in words, and refuses loads
  above the first quarter of the memory (`gdb_protocol.c:337`);
- an interrupt waits as long as `c` runs (`gdb_protocol.c:437`);
- a failure of the wrappers of `csapp.c` ends the process with status 0
  (`csapp.c:35`);
- the 65th name given to `--debug` is lost when it sorts after the table;
  otherwise the entries are shifted past the end of the array, which overwrites
  `nb_debugged_files` or makes it 65 and later searches read index 64
  (`debug.c:41`): `FilesSelected` says what is still found;
- the pc and the CPSR are one word for gdb too: a `P` of the pc changes the
  CPSR, and a `G` loses the pc it carries (`gdb_protocol.c:322`):
  `GdbKnows` excepts the two until gdb reads them again.

## What is not modelled

- The text of the traces and of the debug messages, and the printing of
  registers: output only.
- `csapp.c` beyond what the simulator calls: the other wrappers are the text
  of a course.
- `arm_load_store_multiple`, `arm_coprocessor_others_swi`, `mrs_instr` and the
  other functions that `arm_instruction.c` does not call: no step of the program
  reaches them. `memory_2.c` is an earlier memory that the Makefile does not build;
  `arm.c` is empty.
- The size of the socket buffers: a write never blocks here, so a gdb that
  stops reading while the lock is held does not block the interrupts. In the
  program, gdb has read an answer before it sends another request, and an
  answer is shorter than a socket buffer.
- More than 63 names over the size of the table of debugged files: they would
  reach the handlers of gdb, or other variables.
- Requests longer than the scanner accepts: gdb stays below the size the
  simulator announces.

## What is left

The models cover the operations of every component that changes state. What
could still be added:

- `GdbLink` and `GdbText` composed, with the frame of a packet broken on its
  way.
