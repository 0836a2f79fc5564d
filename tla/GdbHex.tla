------------------------------- MODULE GdbHex -------------------------------
(***************************************************************************)
(* The text of the packets of gdb_protocol.c: bytes and words written and  *)
(* read as hexadecimal digits, and the escaped bytes of X.  A character is *)
(* its ASCII code, a text a sequence of them.                              *)
(***************************************************************************)
EXTENDS Memory, Sequences

CONSTANT HostIsBigEndian   (* is_big_endian() of util.c                    *)
ASSUME HostAssumption == HostIsBigEndian \in BOOLEAN

Char == 1..127             (* those of an answer: none is the terminator   *)
NUL == 0

Digit(d) == IF d < 10 THEN 48 + d ELSE 87 + d
Value(c) == IF c < 58 THEN c - 48 ELSE c - 87

(* sprintf and sscanf of "%02x", for the bytes of a sequence.               *)
Printed(bytes) ==
  [c \in 1 .. 2 * Len(bytes) |->
     LET b == bytes[(c + 1) \div 2]
     IN  Digit(IF c % 2 = 1 THEN b \div 16 ELSE b % 16)]
Scanned(text, at) == 16 * Value(text[at]) + Value(text[at + 1])

(* The union of read_uint32 and write_uint32: byte i of a word in the       *)
(* memory of the host, and the word that has these bytes.                   *)
HostByte(w, i) == IF HostIsBigEndian THEN w[i + 1] ELSE w[4 - i]
HostWord(b) == [j \in 1..4 |-> IF HostIsBigEndian THEN b[j - 1] ELSE b[4 - j]]

(* i on turn k of their loops, which go up when the host and the target     *)
(* agree and down otherwise: past 0 the unsigned i wraps to 2^32-1, which   *)
(* is not below 4.  The function is its own inverse.  Mutation: the order   *)
(* of the target is not looked at.                                          *)
TurnIgnored(k) == k
Turn(k) == IF HostIsBigEndian = IsBigEndian THEN k ELSE 3 - k

write_uint32(w) == Printed([k \in 1..4 |-> HostByte(w, Turn(k - 1))])
read_uint32(text, at) ==
  HostWord([i \in 0..3 |-> Scanned(text, at + 2 * Turn(i))])

(* X: a byte that follows 0x7d is xored with 0x20; at[k] is the place of    *)
(* the k-th byte of the content.  Mutation: the escape is not skipped.      *)
Xor20(b) == IF (b \div 32) % 2 = 1 THEN b - 32 ELSE b + 32
UnescapedOnce(content, size) ==
  [k \in 1..size |-> IF content[k] = 125 THEN Xor20(content[k + 1]) ELSE content[k]]
Unescaped(content, size) ==
  LET at[k \in 1..size] ==
        IF k = 1 THEN 1
        ELSE LET last == at[k - 1] IN IF content[last] = 125 THEN last + 2 ELSE last + 1
  IN  [k \in 1..size |->
         IF content[at[k]] = 125 THEN Xor20(content[at[k] + 1]) ELSE content[at[k]]]
=============================================================================
