---------------------------- MODULE MCSimulator ----------------------------
(* The threads around a memory of 4 words that holds a program: it sets r0  *)
(* and runs into a breakpoint.                                              *)
EXTENDS Simulator

Image(code) ==
  [r |-> [i \in Registers |-> IF i = PC THEN Zero ELSE Small(i)],
   m |-> [c \in Cell |-> IF c \div 4 < Len(code) THEN code[c \div 4 + 1][(c % 4) + 1]
                         ELSE 0]]
Mov(i) == <<227, 160, 0, i>>
Breakpoint == <<231, 240, 0, 240>>

Stops == {Image(<<Mov(1), Breakpoint>>)}
(* The pc is outside the memory, where gdb may have put it.                 *)
Astray == {[p EXCEPT !.r[PC] = Small(256)] : p \in Stops}

Values == [i \in 0..16 |-> IF i >= 15 THEN Small(4) ELSE Small(i + 1)]

Controls == {[cmd |-> "c"], [cmd |-> "s"], [cmd |-> "?"], [cmd |-> "k"], [cmd |-> "other"]}
Accesses == {
  [cmd |-> "g"], [cmd |-> "G", values |-> Values],
  [cmd |-> "p", reg |-> 15], [cmd |-> "P", reg |-> 15, word |-> Small(4)]}
Others == {
  [cmd |-> "p", reg |-> 25], [cmd |-> "P", reg |-> 25, word |-> Zero],
  [cmd |-> "m", address |-> 18, size |-> 4],
  [cmd |-> "X", address |-> 3, bytes |-> <<2>>],
  [cmd |-> "X", address |-> 4, bytes |-> <<2>>],
  [cmd |-> "X", address |-> 0, bytes |-> [i \in 1..24 |-> 7]],
  [cmd |-> "H", type |-> "c", value |-> 0], [cmd |-> "H", type |-> "c", value |-> 5],
  [cmd |-> "q", answer |-> "PacketSize=400"]}

AllRequests == Controls \cup Accesses \cup Others
ServingRequests == {[cmd |-> "c"], [cmd |-> "s"], [cmd |-> "g"], [cmd |-> "k"]}
ContinueOnly == {[cmd |-> "c"]}
IrqArguments == {"reset", "software", None}
ZeroJunk == {Zero}
BreakpointJunk == {Zero, Breakpoint}
=============================================================================
