------------------------------- MODULE Memory -------------------------------
(***************************************************************************)
(* memory.c: the simulated memory, its three access widths and its byte    *)
(* order.  The array memo is allocated with 4*Size bytes, but the guard    *)
(* "address/4 > size" of every access lets the word number Size through,   *)
(* so the four bytes that follow the array are cells of the model too:     *)
(* malloc rounds both of the sizes the program uses (16 bytes in           *)
(* memory_test.c, 512 KiB in arm_simulator.c) up past them, and they store *)
(* what is written to them.                                                *)
(*                                                                         *)
(* In this and the other modules a few definitions, introduced as          *)
(* mutations, are not the code but a plausible mistake in the definition   *)
(* after them: PROJECT.json pairs each with the property it would break.   *)
(***************************************************************************)
EXTENDS Words

CONSTANTS
  Size,         (* the argument of memory_create, in words of 4 bytes      *)
  IsBigEndian   (* its second argument: TRUE in the simulator as built     *)

ASSUME MemoryAssumption ==
  /\ Size \in Nat \ {0}
  /\ Size < 268435456     \* 2^28: address/4 is compared with Size below 2^32
  /\ IsBigEndian \in BOOLEAN

Cell      == 0 .. 4 * Size + 3     \* the bytes an accepted access can touch
Allocated == 0 .. 4 * Size - 1     \* the bytes memory_create allocates

Width == {1, 2, 4}                 \* byte, half, word

(* The guards of the six access functions, in one formula: address/4 is at *)
(* most Size, and address%4 is at most 3, 2 and 0 for the three widths.     *)
(* Mutation: only aligned words are let through.                            *)
AcceptsWordsOnly(a, n) == a \div 4 <= Size /\ a % 4 = 0
Accepts(a, n) == a \div 4 <= Size /\ (a % 4) + n <= 4

(* Byte k of a value of n bytes lives at offset Lane(n,k)-1: the value is   *)
(* laid out most significant byte first, after reverse_endianess for a      *)
(* little endian memory.  Mutation: the byte order is never reversed.       *)
LaneIgnored(n, k) == k
Lane(n, k) == IF IsBigEndian THEN k ELSE n + 1 - k

(* memory_read_byte, memory_read_half, memory_read_word, once accepted.     *)
Load(m, a, n) == [k \in 1..n |-> m[a + Lane(n, k) - 1]]

(* memory_write_byte, memory_write_half, memory_write_word, once accepted.  *)
(* Mutation: a byte is extracted with the wrong shift.                      *)
StoreShiftedBy4(m, a, n, v) ==
  [c \in Cell |-> IF c \in a .. a + n - 1 THEN (16 * v[Lane(n, c - a + 1)]) % 256
                 ELSE m[c]]
Store(m, a, n, v) ==
  [c \in Cell |-> IF c \in a .. a + n - 1 THEN v[Lane(n, c - a + 1)] ELSE m[c]]
=============================================================================
