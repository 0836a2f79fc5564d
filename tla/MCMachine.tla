----------------------------- MODULE MCMachine -----------------------------
(* Machines with one or a few real instructions, in a memory of 4 words.    *)
EXTENDS Machine, Sequences

Image(code, regs) ==
  [r |-> regs,
   m |-> [c \in Cell |-> IF c \div 4 < Len(code) THEN code[c \div 4 + 1][(c % 4) + 1]
                         ELSE 0]]
(* r0 and r1 hold a and b, the other registers 0, and the pc is 0.          *)
Regs(a, b) == [i \in Registers |-> CASE i = 0 -> a [] i = 1 -> b [] OTHER -> Zero]

Ones == <<255, 255, 255, 255>>
Samples == {Zero, Small(1), Small(65535), <<0, 1, 0, 0>>, <<128, 0, 0, 0>>,
            <<127, 255, 255, 255>>, <<0, 18, 52, 255>>, Ones}

(* An assembler for the encodings used here.                                *)
Data(cond, op, s, rn, rd, imm) ==
  <<16 * cond + 2 + op \div 8, 32 * (op % 8) + 16 * s + rn, 16 * rd, imm>>
DataReg(op, s, rn, rd, rs, shift, rm) ==
  <<224 + op \div 8, 32 * (op % 8) + 16 * s + rn, 16 * rd + rs, 16 * shift + rm>>
Word12(p, u, b, w, l, rn, rd, offset) ==
  <<228 + p, 128 * u + 64 * b + 32 * w + 16 * l + rn, 16 * rd + offset \div 256,
    offset % 256>>
Half8(p, u, w, l, rn, rd, offset) ==
  <<224 + p, 128 * u + 64 + 32 * w + 16 * l + rn, 16 * rd + offset \div 16,
    176 + (offset % 16)>>
B(l, offset) == LET o == IF offset < 0 THEN 16777216 + offset ELSE offset
                IN  <<234 + l, o \div 65536, (o \div 256) % 256, o % 256>>
Swi == <<239, 18, 52, 86>>
Pattern == <<161, 178, 195, 212>>

AnyJunk == {Zero, Ones}

(* Every data-processing opcode, on sample values of Rn, also when Rn or Rd *)
(* is the pc; and with S set, on fewer.                                     *)
DataCoresOf(s, constants, values) ==
  {Image(<<Data(14, op, s, rn, rd, imm)>>, Regs(a, Ones)) :
     op \in 0..15, rn \in {0, 15}, rd \in {0, 1, 15}, imm \in constants, a \in values}
DataCores == DataCoresOf(0, {1, 170}, Samples) \cup DataCoresOf(1, {1}, {Zero, Ones})

(* Loads and stores of the three widths and the three indexings, aligned,   *)
(* unaligned and outside the memory.                                        *)
Bases == {Small(8), Small(12), Small(17), Small(24), <<255, 255, 255, 252>>}
Words12 == {Word12(p, u, b, w, l, 0, rd, o) :
              p \in {0, 1}, u \in {0, 1}, b \in {0, 1}, w \in {0, 1}, l \in {0, 1},
              rd \in {0, 1, 15}, o \in {0, 1, 4}}
Halves8 == {Half8(p, u, w, l, 0, rd, o) :
              p \in {0, 1}, u \in {0, 1}, w \in {0, 1}, l \in {0, 1},
              rd \in {1}, o \in {0, 2, 17}}
TransferCores ==
  {Image(<<w, Pattern, Pattern, Pattern>>, Regs(base, <<1, 2, 3, 4>>)) :
     w \in Words12 \cup Halves8, base \in Bases}

(* Programs of several steps.                                               *)
Programs == {
  <<Data(14, 13, 0, 0, 1, 7), Data(14, 4, 0, 1, 1, 1), B(0, -3)>>,          \* a loop
  <<B(1, 1), Swi, Data(14, 13, 0, 0, 2, 9), DataReg(13, 0, 0, 15, 0, 0, 14)>>, \* a call
  <<Data(14, 13, 0, 0, 2, 3), Data(0, 13, 0, 0, 2, 5)>>,                    \* moveq fails
  <<Data(1, 13, 0, 0, 2, 3), Data(15, 13, 0, 0, 2, 5)>>,                    \* movne runs
  [i \in 1..5 |-> Data(14, 4, 0, 2, 2, 1)],                                 \* runs off
  <<Word12(1, 1, 0, 0, 0, 2, 1, 12), B(0, 0), Swi>>,                        \* writes its code
  <<DataReg(13, 0, 0, 3, 8, 0, 0), DataReg(13, 0, 0, 15, 0, 0, 3)>>,        \* lsl #16, jump
  <<DataReg(13, 0, 0, 3, 4, 4, 0), DataReg(4, 0, 3, 15, 0, 1, 3)>>,         \* by register
  <<B(0, 4194304 - 2)>>, <<B(0, -2)>>, <<B(0, 7)>> }
ProgramCores ==
  {Image(p, Regs(a, Data(14, 13, 0, 0, 4, 4))) : p \in Programs, a \in Samples}

AllCores == DataCores \cup TransferCores \cup ProgramCores
=============================================================================
