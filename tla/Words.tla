------------------------------- MODULE Words -------------------------------
(***************************************************************************)
(* The 8-, 16- and 32-bit unsigned integers of the simulator.  A value of  *)
(* n bytes is a function from 1..n to bytes, most significant byte first,  *)
(* so that no integer ever exceeds what the tools can represent and the    *)
(* width of every C type is kept: uint8_t, uint16_t and uint32_t are the   *)
(* values of 1, 2 and 4 bytes, and every operation wraps as the C one does.*)
(***************************************************************************)
EXTENDS Integers

Byte == 0 .. 255
Word == [1..4 -> Byte]

(* The constants the code writes as literals below 2^16. *)
Small(n) == <<0, 0, n \div 256, n % 256>>
Zero == Small(0)

(* The number a word stands for; TLC can only compute it when w[1] < 128.  *)
Num(w) == 16777216 * w[1] + 65536 * w[2] + 256 * w[3] + w[4]

Add(a, b) ==
  LET s4 == a[4] + b[4]
      s3 == a[3] + b[3] + s4 \div 256
      s2 == a[2] + b[2] + s3 \div 256
      s1 == a[1] + b[1] + s2 \div 256
  IN  <<s1 % 256, s2 % 256, s3 % 256, s4 % 256>>

Not(w) == <<255 - w[1], 255 - w[2], 255 - w[3], 255 - w[4]>>
Sub(a, b) == Add(a, Add(Not(b), Small(1)))

(* A value of n bytes widened to 32 bits, and a word cut down to n bytes.    *)
Extend(v, n) == [k \in 1..4 |-> IF k > 4 - n THEN v[k - 4 + n] ELSE 0]
Truncate(w, n) == [k \in 1..n |-> w[k + 4 - n]]

(* 2^k for k in 0..15, in Power[k + 1].                                     *)
Power == <<1, 2, 4, 8, 16, 32, 64, 128, 256, 512, 1024, 2048, 4096, 8192, 16384, 32768>>

(* get_bit(w, i) of util.h, and the word whose bit i is b[i].              *)
Bit(w, i) == (w[4 - i \div 8] \div Power[(i % 8) + 1]) % 2
OfBits(b) ==
  LET byte(k) == b[k] + 2 * b[k+1] + 4 * b[k+2] + 8 * b[k+3]
                 + 16 * b[k+4] + 32 * b[k+5] + 64 * b[k+6] + 128 * b[k+7]
  IN  <<byte(24), byte(16), byte(8), byte(0)>>

And(a, b) == OfBits([i \in 0..31 |-> Bit(a, i) * Bit(b, i)])
Or(a, b)  == OfBits([i \in 0..31 |-> IF Bit(a, i) + Bit(b, i) > 0 THEN 1 ELSE 0])
Xor(a, b) == OfBits([i \in 0..31 |-> (Bit(a, i) + Bit(b, i)) % 2])
Lsl(w, n) == OfBits([i \in 0..31 |-> IF i >= n THEN Bit(w, i - n) ELSE 0])
Lsr(w, n) == OfBits([i \in 0..31 |-> IF i + n < 32 THEN Bit(w, i + n) ELSE 0])

(* asr and ror of util.c.  Their shifts by 32 bits, reached with n = 0, are *)
(* undefined in C; the x86 build shifts by 0 instead, so asr(w, 0) is all   *)
(* ones for a negative w and ror(w, 0) is w.                                *)
asr(w, n) ==
  OfBits([i \in 0..31 |-> IF Bit(w, 31) = 1 /\ (n = 0 \/ i + n >= 32) THEN 1
                           ELSE IF i + n < 32 THEN Bit(w, i + n) ELSE 0])
ror(w, n) == OfBits([i \in 0..31 |-> Bit(w, (i + n) % 32)])
=============================================================================
