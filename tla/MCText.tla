------------------------------- MODULE MCText -------------------------------
(* Addresses at both ends of the array, answers as long as the buffer lets   *)
(* them, bytes that gdb escapes, registers with four different bytes.        *)
EXTENDS GdbText
Last == 4 * Size
Several == {
  [cmd |-> "g"],
  [cmd |-> "m", address |-> 0, size |-> (MaxPacket - 4) \div 2],
  [cmd |-> "m", address |-> Last + 1, size |-> 6],
  [cmd |-> "p", reg |-> 3],
  [cmd |-> "P", reg |-> 3, text |-> write_uint32(<<171, 0, 18, 255>>)],
  [cmd |-> "P", reg |-> 15, text |-> write_uint32(<<1, 2, 3, 4>>)],
  [cmd |-> "X", address |-> 1, size |-> 3, content |-> <<125, 93, 7, 125, 4>>,
   meant |-> <<125, 7, 36>>],
  [cmd |-> "X", address |-> Size, size |-> 1, content |-> <<5>>, meant |-> <<5>>]}

(* G: nothing changed, a register, the pc, the CPSR.                         *)
Some == {Empty, [k \in {4} |-> <<9, 8, 7, 6>>],
         [k \in {5, PC} |-> <<0, 0, 1, 0>>], [k \in {CPSR} |-> <<0, 2, 0, 0>>]}

(* The answer that runs into len.                                            *)
Longest == {[cmd |-> "m", address |-> 0, size |-> MaxPacket \div 2]}

(* The hypothesis of GdbKnowsTarget.                                         *)
ASSUME Understood
=============================================================================
