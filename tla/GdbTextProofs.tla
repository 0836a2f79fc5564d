--------------------------- MODULE GdbTextProofs ---------------------------
(***************************************************************************)
(* Proofs about GdbText, for any sizes of the memory and of the buffer,    *)
(* either byte order of the host and of the target, and any requests.      *)
(***************************************************************************)
EXTENDS GdbText, ArmProofs, SequenceTheorems, WellFoundedInduction

Hex == (48..57) \cup (97..102)       \* the codes of the digits

LEMMA DigitIsHex == ASSUME NEW d \in 0..15 PROVE Digit(d) \in Hex /\ Value(Digit(d)) = d
BY DEF Digit, Value, Hex

LEMMA HexIsChar == Hex \subseteq Char
BY DEF Hex, Char

LEMMA CharIsNotNul == \A c \in Char : c # NUL
BY DEF Char, NUL

LEMMA Halves == ASSUME NEW b \in Byte
                PROVE b \div 16 \in 0..15 /\ b % 16 \in 0..15 /\ 16 * (b \div 16) + (b % 16) = b
BY SMT DEF Byte

(* Two digits a byte, which are read back as that byte.                     *)
LEMMA PrintedIsText ==
  ASSUME NEW n \in Nat, NEW b \in [1..n -> Byte]
  PROVE  /\ b \in Seq(Byte) /\ Len(b) = n
         /\ Printed(b) \in Seq(Hex) /\ Len(Printed(b)) = 2 * n
         /\ \A j \in 1..n : Scanned(Printed(b), 2 * j - 1) = b[j]
<1>1. b \in Seq(Byte) /\ Len(b) = n
      BY SMT
<1> DEFINE half(c) == LET x == b[(c + 1) \div 2] IN IF c % 2 = 1 THEN x \div 16 ELSE x % 16
<1>2. Printed(b) = [c \in 1 .. 2 * n |-> Digit(half(c))]
      BY <1>1 DEF Printed
<1>3. ASSUME NEW c \in 1 .. 2 * n PROVE half(c) \in 0..15
  <2>1. (c + 1) \div 2 \in 1..n
        BY SMT
  <2> QED BY <2>1, Halves
<1>4. ASSUME NEW j \in 1..n
      PROVE  /\ 2 * j - 1 \in 1 .. 2 * n /\ 2 * j - 1 + 1 \in 1 .. 2 * n
             /\ half(2 * j - 1) = b[j] \div 16 /\ half(2 * j - 1 + 1) = b[j] % 16
  <2>1. /\ (2 * j - 1 + 1) \div 2 = j /\ (2 * j - 1) % 2 = 1
        /\ (2 * j - 1 + 1 + 1) \div 2 = j /\ (2 * j - 1 + 1) % 2 = 0
        BY SMT
  <2> QED BY <2>1, SMT
<1> HIDE DEF half
<1>5. \A c \in 1 .. 2 * n : Digit(half(c)) \in Hex
      BY <1>3, DigitIsHex
<1>6. Printed(b) \in Seq(Hex) /\ Len(Printed(b)) = 2 * n
      BY <1>2, <1>5, SMT
<1>7. ASSUME NEW j \in 1..n PROVE Scanned(Printed(b), 2 * j - 1) = b[j]
  <2>1. /\ Printed(b)[2 * j - 1] = Digit(b[j] \div 16)
        /\ Printed(b)[2 * j - 1 + 1] = Digit(b[j] % 16)
        BY <1>2, <1>4
  <2> QED BY <2>1, Halves, DigitIsHex DEF Scanned
<1> QED BY <1>1, <1>6, <1>7

LEMMA TurnInside ==
  ASSUME NEW i \in 0..3
  PROVE  Turn(i) \in 0..3 /\ Turn(Turn(i)) = i
BY DEF Turn

LEMMA HostBytes ==
  ASSUME NEW w \in Word
  PROVE  /\ \A i \in 0..3 : HostByte(w, i) \in Byte
         /\ HostWord([i \in 0..3 |-> HostByte(w, i)]) = w
<1>1. \A i \in 0..3 : i + 1 \in 1..4 /\ 4 - i \in 1..4
      OBVIOUS
<1>2. \A j \in 1..4 : j - 1 \in 0..3 /\ 4 - j \in 0..3 /\ (j - 1) + 1 = j /\ 4 - (4 - j) = j
      OBVIOUS
<1>3. HostWord([i \in 0..3 |-> HostByte(w, i)]) = [j \in 1..4 |-> w[j]]
      BY <1>2 DEF HostWord, HostByte
<1> QED BY <1>1, <1>3 DEF Word, HostByte

(* write_uint32 then read_uint32, whatever the byte orders of the host and  *)
(* of the target: the loops of both stop after the four bytes and the       *)
(* register gdb writes back is the one it read.                             *)
THEOREM RegisterRoundTrip ==
  ASSUME NEW w \in Word
  PROVE  /\ read_uint32(write_uint32(w), 1) = w
         /\ write_uint32(w) \in Seq(Hex) /\ Len(write_uint32(w)) = 8
<1> DEFINE b == [k \in 1..4 |-> HostByte(w, Turn(k - 1))]
<1>1. b \in [1..4 -> Byte]
  <2>1. \A k \in 1..4 : k - 1 \in 0..3
        OBVIOUS
  <2> QED BY <2>1, TurnInside, HostBytes
<1>2. write_uint32(w) = Printed(b)
      BY DEF write_uint32
<1>3. \A i \in 0..3 : Scanned(Printed(b), 1 + 2 * Turn(i)) = HostByte(w, i)
  <2> SUFFICES ASSUME NEW i \in 0..3 PROVE Scanned(Printed(b), 1 + 2 * Turn(i)) = HostByte(w, i)
      OBVIOUS
  <2>1. Turn(i) \in 0..3 /\ Turn(Turn(i)) = i
        BY TurnInside
  <2>2. /\ Turn(i) + 1 \in 1..4 /\ 2 * (Turn(i) + 1) - 1 = 1 + 2 * Turn(i)
        /\ (Turn(i) + 1) - 1 = Turn(i)
        BY <2>1
  <2>3. Scanned(Printed(b), 2 * (Turn(i) + 1) - 1) = b[Turn(i) + 1]
        BY <1>1, <2>2, PrintedIsText
  <2>4. b[Turn(i) + 1] = HostByte(w, Turn((Turn(i) + 1) - 1))
        BY <2>2
  <2> QED BY <2>1, <2>2, <2>3, <2>4
<1>4. read_uint32(Printed(b), 1) = HostWord([i \in 0..3 |-> HostByte(w, i)])
      BY <1>3 DEF read_uint32
<1> HIDE DEF b
<1>5. Printed(b) \in Seq(Hex) /\ Len(Printed(b)) = 2 * 4
      BY <1>1, PrintedIsText
<1> QED BY <1>2, <1>4, <1>5, HostBytes
-----------------------------------------------------------------------------
(* Induction on the numbers, by their least counterexample.                 *)
LEMMA LeastNumber ==
  ASSUME NEW T, T \subseteq Nat, T # {}
  PROVE  \E n \in T : \A k \in T : n <= k
<1>1. PICK n \in T : \A k \in T : ~(<<k, n>> \in OpToRel(<, Nat))
      BY WFMin, NatLessThanWellFounded
<1>2. ASSUME NEW k \in T PROVE n <= k
  <2>1. k \in Nat /\ n \in Nat
        OBVIOUS
  <2>2. <<k, n>> \in Nat \X Nat
        BY <2>1
  <2>3. ~(k < n)
        BY <1>1, <2>2 DEF OpToRel
  <2> QED BY <2>1, <2>3
<1> QED BY <1>2

(* The recursive definition of a sum of bytes has a value.                  *)
Sums(f, n, text) ==
  f = [k \in 0..n |-> IF k = 0 THEN 0 ELSE (f[k - 1] + text[k]) % 256]

LEMMA SumExists == ASSUME NEW text, NEW n \in Nat PROVE \E f : Sums(f, n, text)
<1> DEFINE T == {m \in Nat : ~\E f : Sums(f, m, text)}
<1>1. SUFFICES ASSUME T # {} PROVE FALSE
      OBVIOUS
<1>2. PICK m \in T : \A k \in T : m <= k
      BY <1>1, LeastNumber
<1>3. m \in Nat /\ ~\E f : Sums(f, m, text)
      OBVIOUS
<1>4. m # 0
  <2> DEFINE f == [k \in 0..0 |-> 0]
  <2>1. Sums(f, 0, text)
        BY DEF Sums
  <2> HIDE DEF f
  <2> QED BY <1>3, <2>1
<1>5. m - 1 \in Nat /\ m - 1 \notin T
      BY <1>2, <1>3, <1>4
<1>6. PICK f : Sums(f, m - 1, text)
      BY <1>5
<1> DEFINE g == [k \in 0..m |-> IF k = m THEN (f[m - 1] + text[m]) % 256 ELSE f[k]]
<1>7. Sums(g, m, text)
  <2>1. f = [k \in 0..m-1 |-> IF k = 0 THEN 0 ELSE (f[k - 1] + text[k]) % 256]
        BY <1>6 DEF Sums
  <2>2. ASSUME NEW k \in 0..m
        PROVE  g[k] = IF k = 0 THEN 0 ELSE (g[k - 1] + text[k]) % 256
    <3>1. CASE k = m
      <4>1. k # 0 /\ k - 1 \in 0..m /\ k - 1 # m /\ g[k - 1] = f[m - 1]
            BY <1>3, <1>4, <3>1
      <4> QED BY <3>1, <4>1
    <3>2. CASE k # m
      <4>1. k \in 0..m-1 /\ (k # 0 => k - 1 \in 0..m-1 /\ k - 1 \in 0..m /\ k - 1 # m)
            BY <1>3, <3>2
      <4>2. f[k] = IF k = 0 THEN 0 ELSE (f[k - 1] + text[k]) % 256
            BY <2>1, <4>1
      <4> QED BY <3>2, <4>1, <4>2
    <3> QED BY <3>1, <3>2
  <2>3. g = [k \in 0..m |-> g[k]]
        OBVIOUS
  <2> HIDE DEF g
  <2>4. g = [k \in 0..m |-> IF k = 0 THEN 0 ELSE (g[k - 1] + text[k]) % 256]
        BY <2>2, <2>3, Zenon
  <2> QED BY <2>4 DEF Sums
<1> QED BY <1>3, <1>7

(* Check is the last value of such a function, and is a byte.               *)
LEMMA CheckIsSum ==
  ASSUME NEW text, Len(text) \in Nat
  PROVE  \E f : Sums(f, Len(text), text) /\ Check(text) = f[Len(text)]
<1> DEFINE n == Len(text)
           sum == CHOOSE f : f = [k \in 0..n |-> IF k = 0 THEN 0 ELSE (f[k - 1] + text[k]) % 256]
<1>1. \E f : Sums(f, n, text)
      BY SumExists
<1>2. sum = [k \in 0..n |-> IF k = 0 THEN 0 ELSE (sum[k - 1] + text[k]) % 256]
  <2> DEFINE Is(f) == f = [k \in 0..n |-> IF k = 0 THEN 0 ELSE (f[k - 1] + text[k]) % 256]
  <2>1. \E f : Is(f)
        BY <1>1 DEF Sums
  <2> HIDE DEF Is
  <2>2. Is(CHOOSE f : Is(f))
        BY <2>1
  <2> QED BY <2>2 DEF Is
<1>3. Check(text) = sum[n]
      BY DEF Check
<1> HIDE DEF sum
<1> QED BY <1>2, <1>3 DEF Sums

LEMMA CheckIsByte == ASSUME NEW text \in Seq(Nat) PROVE Check(text) \in Byte
<1> DEFINE n == Len(text)
<1>1. n \in Nat /\ \A k \in 1..n : text[k] \in Nat
      BY LenProperties, ElementOfSeq
<1>2. PICK f : Sums(f, n, text) /\ Check(text) = f[n]
      BY <1>1, CheckIsSum
<1>3. \A k \in 0..n : f[k] = IF k = 0 THEN 0 ELSE (f[k - 1] + text[k]) % 256
      BY <1>2 DEF Sums
<1> DEFINE T == {k \in 0..n : f[k] \notin Byte}
<1> HIDE DEF n
<1>4. T = {}
  <2> SUFFICES ASSUME T # {} PROVE FALSE
      OBVIOUS
  <2>0. T \subseteq Nat
        BY <1>1
  <2>1. PICK k \in T : \A j \in T : k <= j
        BY <2>0, LeastNumber
  <2>2. k # 0
    <3>1. 0 \in 0..n
          BY <1>1
    <3>2. f[0] = 0
          BY <1>3, <3>1, Zenon
    <3>3. f[k] \notin Byte /\ 0 \in Byte
          BY <2>1 DEF Byte
    <3> QED BY <3>2, <3>3, Zenon
  <2>3. k \in 1..n /\ k - 1 \in 0..n /\ k - 1 \notin T
        BY <1>1, <2>1, <2>2
  <2>4. f[k - 1] \in Nat /\ text[k] \in Nat
    <3>1. f[k - 1] \in Byte
          BY <2>3, Zenon
    <3>2. text[k] \in Nat
          BY <1>1, <2>3, Zenon
    <3>3. Byte \subseteq Nat
          BY DEF Byte
    <3> QED BY <3>1, <3>2, <3>3, Zenon
  <2>5. f[k - 1] + text[k] \in Nat
        BY <2>4
  <2>6. f[k] = (f[k - 1] + text[k]) % 256
        BY <1>3, <2>2
  <2>7. f[k] \in Byte
        BY <2>5, <2>6, Low DEF Byte
  <2> QED BY <2>7
<1> QED BY <1>1, <1>2, <1>4

(* The bytes of X: an escaped byte is xored with 0x20 once more.            *)
LEMMA Xor20Twice == ASSUME NEW b \in Byte PROVE Xor20(Xor20(b)) = b
<1>1. b \in 0..255
      BY DEF Byte
<1> QED BY <1>1, SMT DEF Xor20

(* The places of the bytes in the content of X, as write_memory_binary      *)
(* advances over them.                                                      *)
Places(f, n, content) ==
  f = [k \in 1..n |->
         IF k = 1 THEN 1
         ELSE LET last == f[k - 1] IN IF content[last] = 125 THEN last + 2 ELSE last + 1]

LEMMA UnescapedAt ==
  ASSUME NEW content, NEW n \in Nat, NEW g, Places(g, n, content)
  PROVE  \E f : /\ Places(f, n, content)
                /\ Unescaped(content, n) =
                     [k \in 1..n |-> IF content[f[k]] = 125 THEN Xor20(content[f[k] + 1])
                                                            ELSE content[f[k]]]
<1> DEFINE Is(f) == f = [k \in 1..n |->
                IF k = 1 THEN 1
                ELSE LET last == f[k - 1] IN IF content[last] = 125 THEN last + 2 ELSE last + 1]
           at == CHOOSE f : Is(f)
<1>1. Unescaped(content, n) =
        [k \in 1..n |-> IF content[at[k]] = 125 THEN Xor20(content[at[k] + 1]) ELSE content[at[k]]]
      BY DEF Unescaped
<1>2. Is(g)
      BY DEF Places
<1>3. \A f : Is(f) => Places(f, n, content)
      BY DEF Places
<1> HIDE DEF Is
<1>4. Is(at)
      BY <1>2
<1> HIDE DEF at
<1> QED BY <1>1, <1>3, <1>4

(* write_memory_binary finds in the content of X the bytes that gdb means,  *)
(* whichever of them gdb escapes besides 0x7d.                              *)
LEMMA UnescapedIsMeant ==
  ASSUME NEW content \in Seq(Byte), NEW meant \in Seq(Byte), Escaped(content, meant)
  PROVE  Unescaped(content, Len(meant)) = meant
<1> DEFINE n == Len(meant)
<1>1. n \in Nat /\ Len(content) \in Nat /\ meant = [k \in 1..n |-> meant[k]]
      /\ \A k \in 1..n : meant[k] \in Byte
      BY LenProperties, ElementOfSeq
<1>2. PICK place \in [1 .. n + 1 -> 1 .. Len(content) + 1] :
        /\ place[1] = 1
        /\ \A k \in 1 .. n :
             \/ /\ place[k + 1] = place[k] + 1
                /\ content[place[k]] = meant[k] /\ meant[k] # 125
             \/ /\ place[k + 1] = place[k] + 2
                /\ content[place[k]] = 125 /\ content[place[k] + 1] = Xor20(meant[k])
      BY DEF Escaped
<1> HIDE DEF n
<1>3. ASSUME NEW k \in 1..n, k # 1
      PROVE  /\ k - 1 \in 1..n
             /\ place[k] = IF content[place[k - 1]] = 125 THEN place[k - 1] + 2 ELSE place[k - 1] + 1
  <2>1. k - 1 \in 1..n /\ (k - 1) + 1 = k
        BY <1>1, <1>3
  <2> DEFINE j == k - 1
  <2>2. /\ j \in 1..n /\ j + 1 = k
        BY <2>1
  <2> HIDE DEF j
  <2>3. \/ place[k] = place[j] + 1 /\ content[place[j]] # 125
        \/ place[k] = place[j] + 2 /\ content[place[j]] = 125
        BY <1>2, <2>2, Zenon
  <2> QED BY <2>1, <2>3, Zenon DEF j
<1> DEFINE g == [k \in 1..n |-> place[k]]
<1>4. Places(g, n, content)
  <2>1. ASSUME NEW k \in 1..n
        PROVE  g[k] = IF k = 1 THEN 1
                      ELSE IF content[g[k - 1]] = 125 THEN g[k - 1] + 2 ELSE g[k - 1] + 1
    <3>1. CASE k = 1
          BY <1>2, <3>1
    <3>2. CASE k # 1
      <4>1. k - 1 \in 1..n /\ g[k - 1] = place[k - 1] /\ g[k] = place[k]
            BY <1>3, <3>2
      <4> QED BY <1>3, <3>2, <4>1, Zenon
    <3> QED BY <3>1, <3>2
  <2>2. g = [k \in 1..n |-> g[k]]
        OBVIOUS
  <2> HIDE DEF g
  <2> QED BY <2>1, <2>2, Zenon DEF Places
<1> HIDE DEF g
<1>5. PICK f : /\ Places(f, n, content)
               /\ Unescaped(content, n) =
                     [k \in 1..n |-> IF content[f[k]] = 125 THEN Xor20(content[f[k] + 1])
                                                            ELSE content[f[k]]]
  <2>1. \E e : Places(e, n, content)
        BY <1>4, Zenon
  <2>2. PICK e : Places(e, n, content)
        BY <2>1, Zenon
  <2> QED BY <1>1, <2>2, UnescapedAt
<1>6. ASSUME NEW k \in 1..n
      PROVE  f[k] = IF k = 1 THEN 1
                    ELSE IF content[f[k - 1]] = 125 THEN f[k - 1] + 2 ELSE f[k - 1] + 1
  <2>1. f = [j \in 1..n |->
               IF j = 1 THEN 1
               ELSE IF content[f[j - 1]] = 125 THEN f[j - 1] + 2 ELSE f[j - 1] + 1]
        BY <1>5, Zenon DEF Places
  <2> QED BY <2>1
<1> DEFINE T == {k \in 1..n : f[k] # place[k]}
<1>7. T = {}
  <2> SUFFICES ASSUME T # {} PROVE FALSE
      OBVIOUS
  <2>1. T \subseteq Nat
        BY <1>1
  <2>2. PICK k \in T : \A j \in T : k <= j
        BY <2>1, LeastNumber
  <2>3. k \in 1..n /\ f[k] # place[k]
        OBVIOUS
  <2>4. k # 1
        BY <1>2, <1>6, <2>3, Zenon
  <2>5. k - 1 \in 1..n /\ ~(k <= k - 1)
        BY <1>3, <2>3, <2>4
  <2>6. f[k - 1] = place[k - 1]
        BY <2>2, <2>5, Zenon
  <2>7. f[k] = place[k]
    <3>1. f[k] = IF content[f[k - 1]] = 125 THEN f[k - 1] + 2 ELSE f[k - 1] + 1
          BY <1>6, <2>3, <2>4, Zenon
    <3>2. place[k] = IF content[place[k - 1]] = 125 THEN place[k - 1] + 2 ELSE place[k - 1] + 1
          BY <1>3, <2>3, <2>4, Zenon
    <3> QED BY <2>6, <3>1, <3>2
  <2> QED BY <2>3, <2>7, Zenon
<1>8. ASSUME NEW k \in 1..n
      PROVE  (IF content[f[k]] = 125 THEN Xor20(content[f[k] + 1]) ELSE content[f[k]]) = meant[k]
  <2>1. f[k] = place[k]
        BY <1>7, Zenon
  <2>2. \/ content[place[k]] = meant[k] /\ meant[k] # 125
        \/ content[place[k]] = 125 /\ content[place[k] + 1] = Xor20(meant[k])
        BY <1>2, Zenon
  <2>3. Xor20(Xor20(meant[k])) = meant[k]
        BY <1>1, Xor20Twice, Zenon
  <2> QED BY <2>1, <2>2, <2>3, Zenon
<1>9. Unescaped(content, n) = [k \in 1..n |-> meant[k]]
      BY <1>5, <1>8, Zenon
<1> QED BY <1>1, <1>9, Zenon DEF n
-----------------------------------------------------------------------------
(* The effects of requests leave a core.                                    *)
LEMMA BytesRead ==
  ASSUME NEW p \in Core, NEW address \in Nat, NEW size \in Nat
  PROVE  \E n \in Nat : read_memory(p, address, size) \in [1..n -> Byte]
<1>1. Size \in Nat
      BY MemoryAssumption
<1>2. \A a \in Nat : Accepts(a, 1) <=> a <= 4 * Size + 3
      BY <1>1, SMT DEF Accepts
<1> DEFINE readable == {i \in 1..size : Accepts(address + i - 1, 1)}
<1>3. readable = {i \in 1..size : address + i - 1 <= 4 * Size + 3}
      BY <1>2, SMT
<1>4. \E n \in Nat : readable = 1..n
  <2>1. CASE address > 4 * Size + 3
    <3>1. readable = 1..0
          BY <1>1, <1>3, <2>1, SMT
    <3> QED BY <3>1
  <2>2. CASE address <= 4 * Size + 3 /\ size <= 4 * Size + 4 - address
    <3>1. readable = 1..size
          BY <1>1, <1>3, <2>2, SMT
    <3> QED BY <3>1
  <2>3. CASE address <= 4 * Size + 3 /\ size > 4 * Size + 4 - address
    <3>1. readable = 1 .. (4 * Size + 4 - address) /\ 4 * Size + 4 - address \in Nat
          BY <1>1, <1>3, <2>3, SMT
    <3> QED BY <3>1
  <2> QED BY <1>1, <2>1, <2>2, <2>3
<1>5. ASSUME NEW i \in readable PROVE p.m[address + i - 1] \in Byte
  <2>1. i \in 1..size /\ address + i - 1 <= 4 * Size + 3
        BY <1>3
  <2>2. address + i - 1 \in Cell
        BY <1>1, <2>1 DEF Cell
  <2> QED BY <2>2, CoreParts
<1>6. read_memory(p, address, size) = [i \in readable |-> p.m[address + i - 1]]
      BY DEF read_memory
<1> HIDE DEF readable
<1> QED BY <1>4, <1>5, <1>6

LEMMA MemoryLoaded ==
  ASSUME NEW p \in Core, NEW address \in Nat, NEW size \in Nat, NEW bytes \in [1..size -> Byte]
  PROVE  write_memory(p, address, bytes) \in Core
BY CoreParts DEF write_memory, Core

LEMMA RegisterTold ==
  ASSUME NEW p \in Core, NEW reg \in Registers
  PROVE  read_register(p, reg) \in Word
<1>1. atoi(reg) \in Registers
      BY DEF atoi, Registers
<1> QED BY <1>1, CoreParts, FetchAddressIsWord DEF read_register, NextPc

(* The words of a text of general registers that the handler of G reads.    *)
Digits(text) ==
  /\ Len(text) = 8 * GeneralWords /\ text \in Seq(Char)
  /\ \A k \in Listed : \A i \in 1..8 : text[8 * k + i] \in Hex

LEMMA ListedPlaces ==
  /\ GeneralWords \in Nat /\ GeneralWords >= 18 /\ CPSR = GeneralWords - 1
  /\ Listed = (0..15) \cup {GeneralWords - 1} /\ PC = 15
  /\ CPSR \in Listed /\ PC \in Listed /\ CPSR # PC /\ ~(CPSR < 15) /\ CPSR # 15
  /\ \A k \in Listed : k \in Nat /\ (k < 15 \/ k = 15 \/ k = CPSR)
BY TextAssumption DEF GeneralWords, CPSR, Listed, Registers, PC

(* The place of character i of the word k in such a text.                   *)
LEMMA CharPlace ==
  ASSUME NEW k \in Listed, NEW i \in 1..8
  PROVE  /\ k \in Nat /\ 8 * k + i \in 1 .. 8 * GeneralWords
         /\ ((8 * k + i) - 1) \div 8 = k /\ (((8 * k + i) - 1) % 8) + 1 = i
<1>1. /\ GeneralWords \in Nat /\ GeneralWords >= 18
      /\ k \in Nat /\ k <= GeneralWords - 1
      BY ListedPlaces
<1> QED BY <1>1, SMT

LEMMA ToldIsWord == ASSUME NEW p \in Core, NEW k \in Listed PROVE Told(p, k) \in Word
BY ListedPlaces, CoreParts, FetchAddressIsWord DEF Registers, PC, NextPc, read_cpsr, Told

LEMMA GeneralTextDigits == ASSUME NEW p \in Core PROVE Digits(GeneralText(p))
<1> DEFINE char(c) == LET k == (c - 1) \div 8
                      IN  IF k \in Listed THEN write_uint32(Told(p, k))[((c - 1) % 8) + 1]
                                          ELSE 120
<1>1. GeneralWords \in Nat /\ GeneralWords >= 18
      BY ListedPlaces
<1>2. GeneralText(p) = [c \in 1 .. 8 * GeneralWords |-> char(c)]
      BY DEF GeneralText
<1>3. ASSUME NEW k \in Listed, NEW i \in 1..8 PROVE write_uint32(Told(p, k))[i] \in Hex
  <2> DEFINE t == write_uint32(Told(p, k))
  <2>1. t \in Seq(Hex) /\ Len(t) = 8
        BY ToldIsWord, RegisterRoundTrip
  <2> HIDE DEF t
  <2>2. t[i] \in Hex
        BY <2>1, ElementOfSeq
  <2> QED BY <2>2 DEF t
<1>4. ASSUME NEW c \in 1 .. 8 * GeneralWords PROVE char(c) \in Char
  <2>1. ((c - 1) % 8) + 1 \in 1..8
        BY <1>1, SMT
  <2>2. 120 \in Char
        BY DEF Char
  <2> QED BY <1>3, <2>1, <2>2, HexIsChar
<1>5. ASSUME NEW k \in Listed, NEW i \in 1..8
      PROVE  8 * k + i \in 1 .. 8 * GeneralWords /\ char(8 * k + i) \in Hex
  <2> DEFINE c == 8 * k + i
  <2>1. c \in 1 .. 8 * GeneralWords /\ (c - 1) \div 8 = k /\ ((c - 1) % 8) + 1 = i
        BY CharPlace, Zenon
  <2> HIDE DEF c
  <2>2. char(c) \in Hex
        BY <1>3, <2>1
  <2> QED BY <2>1, <2>2 DEF c
<1> HIDE DEF char
<1>6. GeneralText(p) \in Seq(Char) /\ Len(GeneralText(p)) = 8 * GeneralWords
      BY <1>1, <1>2, <1>4, SMT
<1> QED BY <1>2, <1>5, <1>6 DEF Digits

(* gdb writes a word as write_uint32 does.                                  *)
LEMMA WordWritten ==
  ASSUME NEW w \in Word PROVE Printed(InOrder(w)) = write_uint32(w)
<1>1. /\ w = <<w[1], w[2], w[3], w[4]>>
      BY WordIsTuple
<1>2. write_uint32(w) = Printed([k \in 1..4 |-> HostByte(w, Turn(k - 1))])
      BY DEF write_uint32
<1>3. ASSUME NEW k \in 1..4
      PROVE  HostByte(w, Turn(k - 1)) = IF IsBigEndian THEN w[k] ELSE w[5 - k]
  <2>1. (k - 1) + 1 = k /\ 4 - (k - 1) = 5 - k /\ 3 - (k - 1) + 1 = 5 - k /\ 4 - (3 - (k - 1)) = k
        OBVIOUS
  <2> QED BY <2>1, HostAssumption, MemoryAssumption DEF HostByte, Turn
<1>4. [k \in 1..4 |-> HostByte(w, Turn(k - 1))] =
        [k \in 1..4 |-> IF IsBigEndian THEN w[k] ELSE w[5 - k]]
      BY <1>3
<1>5. InOrder(w) = [k \in 1..4 |-> IF IsBigEndian THEN w[k] ELSE w[5 - k]]
  <2>1. CASE IsBigEndian
        BY <1>1, <2>1 DEF InOrder, Word
  <2>2. CASE ~IsBigEndian
    <3> DEFINE f == [k \in 1..4 |-> w[5 - k]]
    <3>1. f[1] = w[4] /\ f[2] = w[3] /\ f[3] = w[2] /\ f[4] = w[1]
          BY SMT
    <3>2. f = <<f[1], f[2], f[3], f[4]>>
          OBVIOUS
    <3> HIDE DEF f
    <3>3. f = <<w[4], w[3], w[2], w[1]>>
          BY <3>1, <3>2
    <3> QED BY <2>2, <3>3 DEF InOrder, f
  <2> QED BY <2>1, <2>2
<1> QED BY <1>2, <1>4, <1>5

(* The words that a G changes, in the text of the last g.                   *)
LEMMA ChangedChars ==
  ASSUME NEW text \in Seq(Char), Len(text) = 8 * GeneralWords, NEW new \in Changes
  PROVE  /\ Changed(text, new) \in Seq(Char) /\ Len(Changed(text, new)) = 8 * GeneralWords
         /\ \A k \in Listed, i \in 1..8 :
              Changed(text, new)[8 * k + i] =
                IF k \in DOMAIN new THEN write_uint32(new[k])[i] ELSE text[8 * k + i]
<1> DEFINE char(c) == LET k == (c - 1) \div 8
                      IN  IF k \in DOMAIN new THEN Printed(InOrder(new[k]))[((c - 1) % 8) + 1]
                                              ELSE text[c]
           n == 8 * GeneralWords
<1>1. n \in Nat /\ DOMAIN text = 1 .. n /\ \A c \in 1 .. n : text[c] \in Char
  <2>1. n \in Nat
        BY ListedPlaces
  <2> QED BY <2>1, LenProperties, ElementOfSeq
<1>2. Changed(text, new) = [c \in 1 .. n |-> char(c)]
      BY <1>1 DEF Changed
<1>3. ASSUME NEW k \in DOMAIN new
      PROVE  /\ Printed(InOrder(new[k])) = write_uint32(new[k])
             /\ \A i \in 1..8 : write_uint32(new[k])[i] \in Char
  <2>1. new[k] \in Word
        BY TextAssumption
  <2> DEFINE t == write_uint32(new[k])
  <2>2. t \in Seq(Hex) /\ Len(t) = 8
        BY <2>1, RegisterRoundTrip
  <2>3. Printed(InOrder(new[k])) = t
        BY <2>1, WordWritten
  <2> HIDE DEF t
  <2>4. \A i \in 1..8 : t[i] \in Char
        BY <2>2, ElementOfSeq, HexIsChar
  <2> QED BY <2>3, <2>4 DEF t
<1>4. ASSUME NEW c \in 1 .. n PROVE char(c) \in Char
  <2>1. c \in Nat
        BY <1>1
  <2>2. ((c - 1) % 8) + 1 \in 1..8
        BY <2>1, SMT
  <2> QED BY <1>1, <1>3, <2>2
<1>5. ASSUME NEW k \in Listed, NEW i \in 1..8
      PROVE  /\ 8 * k + i \in 1 .. n
             /\ char(8 * k + i) =
                  IF k \in DOMAIN new THEN write_uint32(new[k])[i] ELSE text[8 * k + i]
  <2> DEFINE c == 8 * k + i
  <2>1. c \in 1 .. n /\ (c - 1) \div 8 = k /\ ((c - 1) % 8) + 1 = i
        BY CharPlace, Zenon
  <2> HIDE DEF c
  <2>2. char(c) = IF k \in DOMAIN new THEN write_uint32(new[k])[i] ELSE text[c]
        BY <1>3, <2>1
  <2> QED BY <2>1, <2>2 DEF c
<1> HIDE DEF char
<1>6. Changed(text, new) \in Seq(Char) /\ Len(Changed(text, new)) = n
      BY <1>1, <1>2, <1>4
<1>7. ASSUME NEW k \in Listed, NEW i \in 1..8
      PROVE  Changed(text, new)[8 * k + i] =
               IF k \in DOMAIN new THEN write_uint32(new[k])[i] ELSE text[8 * k + i]
      BY <1>2, <1>5
<1> QED BY <1>6, <1>7

LEMMA ChangedDigits ==
  ASSUME NEW text, Digits(text), NEW new \in Changes
  PROVE  Digits(Changed(text, new))
<1>1. ASSUME NEW k \in Listed, NEW i \in 1..8, k \in DOMAIN new
      PROVE  write_uint32(new[k])[i] \in Hex
  <2>1. new[k] \in Word
        BY <1>1, TextAssumption
  <2> DEFINE t == write_uint32(new[k])
  <2>2. t \in Seq(Hex) /\ Len(t) = 8
        BY <2>1, RegisterRoundTrip
  <2> HIDE DEF t
  <2>3. t[i] \in Hex
        BY <2>2, ElementOfSeq
  <2> QED BY <2>3 DEF t
<1>2. /\ text \in Seq(Char) /\ Len(text) = 8 * GeneralWords
      /\ \A k \in Listed, i \in 1..8 : text[8 * k + i] \in Hex
      BY DEF Digits
<1>3. /\ Changed(text, new) \in Seq(Char) /\ Len(Changed(text, new)) = 8 * GeneralWords
      /\ \A k \in Listed, i \in 1..8 :
           Changed(text, new)[8 * k + i] =
             IF k \in DOMAIN new THEN write_uint32(new[k])[i] ELSE text[8 * k + i]
      BY <1>2, ChangedChars
<1>4. \A k \in Listed, i \in 1..8 : Changed(text, new)[8 * k + i] \in Hex
      BY <1>1, <1>2, <1>3
<1> QED BY <1>3, <1>4 DEF Digits

LEMMA GeneralRestored ==
  ASSUME NEW p \in Core, NEW text, Digits(text)
  PROVE  WriteStatus(WriteGeneral(p, GeneralRead(text)), GeneralRead(text)) \in Core
<1>1. ASSUME NEW k \in Listed PROVE read_uint32(text, 8 * k + 1) \in Word
  <2>1. \A c \in Hex : Value(c) \in 0..15
        BY DEF Value, Hex
  <2>2. ASSUME NEW i \in 0..3 PROVE Scanned(text, 8 * k + 1 + 2 * i) \in Byte
    <3>1. k \in Nat
          BY ListedPlaces
    <3>2. /\ 1 + 2 * i \in 1..8 /\ 2 + 2 * i \in 1..8
          /\ 8 * k + 1 + 2 * i = 8 * k + (1 + 2 * i)
          /\ 8 * k + 1 + 2 * i + 1 = 8 * k + (2 + 2 * i)
          BY <3>1, SMT
    <3>3. text[8 * k + 1 + 2 * i] \in Hex /\ text[8 * k + 1 + 2 * i + 1] \in Hex
          BY <3>2 DEF Digits
    <3>4. \A x, y \in 0..15 : 16 * x + y \in Byte
          BY SMT DEF Byte
    <3> QED BY <2>1, <3>3, <3>4 DEF Scanned
  <2>3. \A i \in 0..3 : Scanned(text, 8 * k + 1 + 2 * Turn(i)) \in Byte
        BY <2>2, TurnInside
  <2>4. \A j \in 1..4 : j - 1 \in 0..3 /\ 4 - j \in 0..3
        OBVIOUS
  <2> QED BY <2>3, <2>4 DEF read_uint32, HostWord, Word
<1>2. \A k \in 0..16 : GeneralRead(text)[k] \in Word
      BY <1>1, ListedPlaces DEF GeneralRead
<1> DEFINE q == WriteGeneral(p, GeneralRead(text))
<1>3. q \in Core
      BY <1>2 DEF WriteGeneral, Core, Registers
<1> HIDE DEF q
<1>4. WriteStatus(q, GeneralRead(text)) \in Core
      BY <1>2, <1>3 DEF WriteStatus, write_cpsr, Core, Registers, PC
<1> QED BY <1>4 DEF q
-----------------------------------------------------------------------------
(* The invariant the properties of GdbText need: the target is a core, and  *)
(* while a request is answered its text is of characters other than NUL,    *)
(* the buffer holds the packet when it fits, and gdb has a beginning of it. *)
Framed(cells, text) ==
  LET check == Printed(<<Check(text)>>)
  IN  /\ cells[0] = 36 /\ cells[Len(text) + 1] = 35
      /\ \A c \in 1 .. Len(text) : cells[c] = text[c]
      /\ cells[Len(text) + 2] = check[1] /\ cells[Len(text) + 3] = check[2]

Fits == Len(body) + 4 <= MaxPacket

Answering ==
  request # None =>
    /\ body \in Seq(Char)
    /\ request.cmd = "g" => Digits(body)
    /\ Fits => /\ len = Len(body) + 4 /\ Framed(packet, body)
               /\ Len(out) <= len /\ out = SubSeq(Frame, 1, Len(out))
               /\ Len(out) \in Nat

TextInv == core \in Core /\ Answering /\ (saved # <<>> => Digits(saved))

LEMMA Literals == OK \in Seq(Char) /\ E02 \in Seq(Char)
<1>1. 79 \in Char /\ 75 \in Char /\ 69 \in Char /\ 48 \in Char /\ 50 \in Char
      BY DEF Char
<1> QED BY <1>1, SMT DEF OK, E02

(* A request is one of Requests, or a G.                                    *)
LEMMA Askable ==
  ASSUME NEW r \in Asked
  PROVE  \/ r \in Requests /\ r.cmd \in {"g", "m", "p", "X", "P"}
         \/ \E new \in Changes : /\ r = WriteAll(new) /\ r.cmd = "G"
                                 /\ r.text = Changed(saved, new) /\ r.changed = DOMAIN new
BY TextAssumption DEF Asked, WriteAll

LEMMA BodyIsText ==
  ASSUME NEW p \in Core, NEW r \in Asked
  PROVE  Body(p, r) \in Seq(Char) /\ (r.cmd = "g" => Digits(Body(p, r)))
<1>1. CASE r.cmd = "g"
      BY <1>1, GeneralTextDigits DEF Body, Digits
<1>2. CASE r.cmd \in {"P", "G"}
      BY <1>2, Literals DEF Body
<1>3. CASE r \in Requests /\ r.cmd = "X"
      BY <1>3, Literals DEF Body
<1>4. CASE r \in Requests /\ r.cmd = "m"
  <2> DEFINE b == read_memory(p, r.address, r.size)
  <2>0. r.address \in Nat /\ r.size \in Nat
        BY <1>4, TextAssumption
  <2>1. PICK n \in Nat : b \in [1..n -> Byte]
        BY <2>0, BytesRead
  <2> HIDE DEF b
  <2>2. Printed(b) \in Seq(Char)
        BY <2>1, PrintedIsText, HexIsChar, SeqMonotonic
  <2>3. Body(p, r) = Printed(b)
        BY <1>4 DEF Body, SimpleReply, b
  <2> QED BY <1>4, <2>2, <2>3
<1>5. CASE r \in Requests /\ r.cmd = "p"
  <2>1. read_register(p, r.reg) \in Word
        BY <1>5, RegisterTold, TextAssumption
  <2> DEFINE t == write_uint32(read_register(p, r.reg))
  <2>2. t \in Seq(Hex)
        BY <2>1, RegisterRoundTrip
  <2>3. Body(p, r) = t
        BY <1>5 DEF Body, SimpleReply
  <2> HIDE DEF t
  <2> QED BY <1>5, <2>2, <2>3, HexIsChar, SeqMonotonic
<1> QED BY <1>1, <1>2, <1>3, <1>4, <1>5, Askable

LEMMA EffectIsCore ==
  ASSUME NEW p \in Core, NEW r \in Asked,
         r.cmd = "G" => Digits(saved)
  PROVE  Effect(p, r) \in Core
<1>1. CASE r.cmd = "G"
  <2>1. PICK new \in Changes : r.text = Changed(saved, new)
        BY <1>1, Askable
  <2>2. Digits(r.text)
        BY <1>1, <2>1, ChangedDigits
  <2> QED BY <1>1, <2>2, GeneralRestored DEF Effect
<1>2. CASE r \in Requests /\ r.cmd = "P"
  <2>1. r.reg \in Registers /\ read_uint32(r.text, 1) \in Word
        BY <1>2, TextAssumption
  <2>2. Effect(p, r) = arm_write_register(p, r.reg, read_uint32(r.text, 1))
        BY <1>2 DEF Effect, SimpleEffect, Parsed
  <2> QED BY <2>1, <2>2, RegisterWritten
<1>3. CASE r \in Requests /\ r.cmd = "X"
  <2> DEFINE b == Unescaped(r.content, r.size)
  <2>1. /\ r.address \in Nat /\ r.content \in Seq(Byte)
        /\ r.meant \in Seq(Byte) /\ Len(r.meant) = r.size /\ Escaped(r.content, r.meant)
        BY <1>3, TextAssumption
  <2>2. b = r.meant /\ r.size \in Nat
        BY <2>1, UnescapedIsMeant, LenProperties
  <2>3. b \in [1 .. r.size -> Byte]
    <3>1. r.meant \in [1 .. r.size -> Byte]
          BY <2>1, LenProperties, ElementOfSeq
    <3> QED BY <2>2, <3>1
  <2> HIDE DEF b
  <2>4. Effect(p, r) = write_memory(p, r.address, b)
        BY <1>3 DEF Effect, SimpleEffect, Parsed, b
  <2> QED BY <2>1, <2>2, <2>3, <2>4, MemoryLoaded
<1>4. CASE r \in Requests /\ r.cmd \in {"g", "m", "p"}
      BY <1>4 DEF Effect, SimpleEffect, Parsed
<1> QED BY <1>1, <1>2, <1>3, <1>4, Askable
-----------------------------------------------------------------------------
(* The frame, as the text of the packet that gdb wants.                     *)
LEMMA FrameIs ==
  ASSUME NEW text \in Seq(Char), NEW x
  PROVE  LET check == Printed(<<x>>)
             whole == <<36>> \o text \o <<35>> \o check
         IN  /\ Len(whole) = Len(text) + 4 /\ \E S : whole \in Seq(S)
             /\ whole[1] = 36 /\ \A c \in 1 .. Len(text) : whole[c + 1] = text[c]
             /\ whole[Len(text) + 2] = 35
             /\ whole[Len(text) + 3] = check[1] /\ whole[Len(text) + 4] = check[2]
<1> DEFINE check == Printed(<<x>>)
           S == Char \cup {36, 35, check[1], check[2]}
<1>1. check \in Seq(S) /\ Len(check) = 2
  <2> DEFINE digit(c) == Digit(LET y == <<x>>[(c + 1) \div 2] IN IF c % 2 = 1 THEN y \div 16 ELSE y % 16)
  <2>1. check = [c \in 1..2 |-> digit(c)]
    <3>1. 2 * Len(<<x>>) = 2
          OBVIOUS
    <3> QED BY <3>1 DEF Printed
  <2> HIDE DEF digit
  <2>2. check[1] = digit(1) /\ check[2] = digit(2)
        BY <2>1
  <2> HIDE DEF check
  <2>3. \A c \in 1..2 : digit(c) \in S
    <3>1. \A c \in 1..2 : c = 1 \/ c = 2
          OBVIOUS
    <3> QED BY <2>2, <3>1
  <2> HIDE DEF S
  <2> QED BY <2>1, <2>3
<1> HIDE DEF check
<1>2. Char \subseteq S /\ 36 \in S /\ 35 \in S
      OBVIOUS
<1> HIDE DEF S
<1>3. text \in Seq(S)
      BY <1>2, SeqMonotonic
<1>4. /\ <<36>> \in Seq(S) /\ Len(<<36>>) = 1 /\ <<36>>[1] = 36
      /\ <<35>> \in Seq(S) /\ Len(<<35>>) = 1 /\ <<35>>[1] = 35
      BY <1>2
<1> DEFINE a == <<36>> \o text
           b == a \o <<35>>
<1>5. Len(text) \in Nat
      BY <1>3, LenProperties
<1>6. /\ a \in Seq(S) /\ Len(a) = 1 + Len(text)
      /\ \A i \in 1 .. 1 + Len(text) : a[i] = IF i <= 1 THEN <<36>>[i] ELSE text[i - 1]
      BY <1>3, <1>4, ConcatProperties
<1>7. a[1] = 36 /\ \A c \in 1 .. Len(text) : a[c + 1] = text[c]
      BY <1>4, <1>5, <1>6
<1> HIDE DEF a
<1>8. /\ b \in Seq(S) /\ Len(b) = Len(text) + 2
      /\ \A i \in 1 .. Len(text) + 2 : b[i] = IF i <= Len(text) + 1 THEN a[i] ELSE <<35>>[i - Len(a)]
  <2>1. /\ b \in Seq(S) /\ Len(b) = Len(a) + Len(<<35>>)
        /\ \A i \in 1 .. Len(a) + Len(<<35>>) : b[i] = IF i <= Len(a) THEN a[i] ELSE <<35>>[i - Len(a)]
        BY <1>4, <1>6, ConcatProperties
  <2>2. Len(a) + Len(<<35>>) = Len(text) + 2 /\ Len(a) = Len(text) + 1
        BY <1>4, <1>5, <1>6
  <2> QED BY <2>1, <2>2
<1>9. /\ b[1] = 36 /\ \A c \in 1 .. Len(text) : b[c + 1] = text[c]
      /\ b[Len(text) + 2] = 35
  <2>1. Len(text) + 2 - Len(a) = 1
        BY <1>5, <1>6
  <2>2. b[Len(text) + 2] = <<35>>[Len(text) + 2 - Len(a)]
        BY <1>5, <1>8
  <2>3. b[1] = a[1] /\ \A c \in 1 .. Len(text) : b[c + 1] = a[c + 1]
        BY <1>5, <1>8
  <2> QED BY <1>4, <1>7, <2>1, <2>2, <2>3
<1> HIDE DEF b
<1> DEFINE whole == b \o check
<1>10. /\ whole \in Seq(S) /\ Len(whole) = Len(b) + Len(check)
       /\ \A i \in 1 .. Len(b) + Len(check) :
             whole[i] = IF i <= Len(b) THEN b[i] ELSE check[i - Len(b)]
  <2>1. b \in Seq(S) /\ check \in Seq(S)
        BY <1>1, <1>8
  <2> QED BY <2>1, ConcatProperties
<1>11. whole = <<36>> \o text \o <<35>> \o check
      BY DEF a, b
<1> HIDE DEF whole
<1>12. Len(whole) = Len(text) + 4 /\ Len(b) = Len(text) + 2
      BY <1>1, <1>5, <1>8, <1>10
<1>13. /\ \A i \in 1 .. Len(text) + 2 : whole[i] = b[i]
       /\ whole[Len(text) + 3] = check[Len(text) + 3 - Len(b)]
       /\ whole[Len(text) + 4] = check[Len(text) + 4 - Len(b)]
      BY <1>1, <1>5, <1>10, <1>12
<1>14. /\ Len(text) + 3 - Len(b) = 1 /\ Len(text) + 4 - Len(b) = 2
       /\ 1 \in 1 .. Len(text) + 2 /\ Len(text) + 2 \in 1 .. Len(text) + 2
       /\ \A c \in 1 .. Len(text) : c + 1 \in 1 .. Len(text) + 2
      BY <1>5, <1>12
<1> QED BY <1>9, <1>10, <1>11, <1>12, <1>13, <1>14 DEF check

(* gdb_send_buffer finds the end of the text, whatever follows it.          *)
LEMMA EndFound ==
  ASSUME NEW cells, NEW text \in Seq(Char), Len(text) <= MaxPacket
  PROVE  End(Buffered(cells, text)) = Len(text) + 1
<1> DEFINE s == Buffered(cells, text)
           n == Len(text) + 1
<1>1. Len(text) \in Nat /\ MaxPacket \in Nat
      BY LenProperties, TextAssumption
<1>2. n \in Offsets \ {0} /\ 1 .. Len(text) \subseteq Offsets
      BY <1>1 DEF Offsets
<1>3. s[n] = NUL /\ \A j \in 1 .. Len(text) : s[j] = text[j]
      BY <1>1, <1>2 DEF Buffered
<1>4. ASSUME NEW j \in 1 .. Len(text) PROVE text[j] # NUL
  <2>1. text[j] \in Char
        BY ElementOfSeq
  <2> QED BY <2>1, CharIsNotNul
<1> HIDE DEF s
<1> DEFINE ends(i) == s[i] = NUL /\ \A j \in 1 .. i - 1 : s[j] # NUL
<1>5. ends(n)
      BY <1>1, <1>3, <1>4
<1>6. ASSUME NEW i \in Offsets \ {0}, ends(i) PROVE i = n
  <2>1. i \in Nat /\ i >= 1
        BY <1>1 DEF Offsets
  <2>2. ~(i < n)
    <3>1. i < n => i \in 1 .. Len(text)
          BY <1>1, <2>1
    <3> QED BY <1>3, <1>4, <1>6, <3>1
  <2>3. ~(n < i)
    <3>1. n < i => n \in 1 .. i - 1
          BY <1>1, <2>1
    <3> QED BY <1>3, <1>6, <3>1
  <2> QED BY <1>1, <2>1, <2>2, <2>3
<1>7. End(s) = CHOOSE i \in Offsets \ {0} : ends(i)
      BY DEF End
<1> HIDE DEF ends
<1> QED BY <1>2, <1>5, <1>6, <1>7 DEF s

(* The buffer then holds the packet, and len its length.                    *)
LEMMA SentIsFramed ==
  ASSUME NEW cells, NEW text \in Seq(Char), Len(text) + 4 <= MaxPacket
  PROVE  LET s == gdb_send_buffer(Buffered(cells, text))
         IN  /\ Framed(s, text)
             /\ s[MaxPacket + HostOrder(0)] + 256 * s[MaxPacket + HostOrder(1)] = Len(text) + 4
<1> DEFINE b == Buffered(cells, text)
           n == Len(text) + 1
           check == Printed(<<Check(text)>>)
<1>1. Len(text) \in Nat /\ MaxPacket \in Nat /\ MaxPacket < 65536
      BY LenProperties, TextAssumption
<1>2. End(b) = n
      BY <1>1, EndFound
<1>3. \A j \in 1 .. Len(text) : j \in Offsets /\ b[j] = text[j]
      BY <1>1 DEF Buffered, Offsets
<1> HIDE DEF b
<1>4. [j \in 1 .. End(b) - 1 |-> b[j]] = text
  <2>1. [j \in 1 .. End(b) - 1 |-> b[j]] = [j \in 1 .. Len(text) |-> text[j]]
        BY <1>1, <1>2, <1>3
  <2> QED BY <2>1, LenProperties
<1> DEFINE s == FramedAs(b, text)
           framed == [c \in Offsets |->
                   CASE c = 0 -> 36 [] c = n -> 35 [] c = n + 1 -> check[1]
                     [] c = n + 2 -> check[2] [] c = n + 3 -> NUL
                     [] c \notin {0, n, n + 1, n + 2, n + 3} -> b[c]]
<1>5. s = [c \in Offsets |-> IF c \in MaxPacket .. MaxPacket + 3
                             THEN IntByte(n + 3, c - MaxPacket) ELSE framed[c]]
      BY DEF FramedAs
<1>6. gdb_send_buffer(b) = s
      BY <1>4 DEF gdb_send_buffer
<1> HIDE DEF s, check
<1>7. /\ framed[0] = 36 /\ framed[n] = 35
      /\ framed[n + 1] = check[1] /\ framed[n + 2] = check[2]
      /\ \A c \in 1 .. Len(text) : framed[c] = b[c]
  <2>1. /\ 0 \in Offsets /\ n \in Offsets /\ n + 1 \in Offsets /\ n + 2 \in Offsets
        /\ \A c \in 1 .. Len(text) : c \in Offsets /\ c \notin {0, n, n + 1, n + 2, n + 3}
        BY <1>1 DEF Offsets
  <2> QED BY <1>1, <2>1
<1> HIDE DEF framed
<1>8. \A c \in 0 .. n + 2 : s[c] = framed[c]
  <2>1. \A c \in 0 .. n + 2 : c \in Offsets /\ c \notin MaxPacket .. MaxPacket + 3
        BY <1>1 DEF Offsets
  <2> QED BY <1>5, <2>1
<1>9. Framed(s, text)
  <2>1. /\ 0 \in 0 .. n + 2 /\ n \in 0 .. n + 2 /\ n + 1 \in 0 .. n + 2 /\ n + 2 \in 0 .. n + 2
        /\ Len(text) + 2 = n + 1 /\ Len(text) + 3 = n + 2
        /\ \A c \in 1 .. Len(text) : c \in 0 .. n + 2
        BY <1>1
  <2> QED BY <1>3, <1>7, <1>8, <2>1 DEF Framed, check
<1>10. s[MaxPacket + HostOrder(0)] + 256 * s[MaxPacket + HostOrder(1)] = n + 3
  <2>1. \A k \in 0..3 : HostOrder(k) \in 0..3 /\ HostOrder(HostOrder(k)) = k
        BY DEF HostOrder
  <2>2. \A h \in 0..3 : s[MaxPacket + h] = IntByte(n + 3, h)
    <3> SUFFICES ASSUME NEW h \in 0..3 PROVE s[MaxPacket + h] = IntByte(n + 3, h)
        OBVIOUS
    <3> DEFINE c == MaxPacket + h
    <3>1. c \in Offsets /\ c \in MaxPacket .. MaxPacket + 3 /\ c - MaxPacket = h
          BY <1>1 DEF Offsets
    <3> HIDE DEF c
    <3>2. s[c] = IntByte(n + 3, c - MaxPacket)
          BY <1>5, <3>1
    <3> QED BY <3>1, <3>2 DEF c
  <2>3. /\ s[MaxPacket + HostOrder(0)] = IntByte(n + 3, HostOrder(0))
        /\ s[MaxPacket + HostOrder(1)] = IntByte(n + 3, HostOrder(1))
    <3>1. HostOrder(0) \in 0..3 /\ HostOrder(1) \in 0..3
          BY <2>1
    <3> QED BY <2>2, <3>1
  <2>4. IntByte(n + 3, HostOrder(0)) = (n + 3) % 256 /\ IntByte(n + 3, HostOrder(1)) = (n + 3) \div 256
        BY <2>1 DEF IntByte
  <2>5. ((n + 3) % 256) + 256 * ((n + 3) \div 256) = n + 3
        BY <1>1, SMT
  <2> QED BY <2>3, <2>4, <2>5
<1>11. n + 3 = Len(text) + 4
      BY <1>1
<1> QED BY <1>6, <1>9, <1>10, <1>11 DEF b
-----------------------------------------------------------------------------
LEMMA TextInvInit == Init => TextInv
<1> SUFFICES ASSUME Init PROVE TextInv
    OBVIOUS
<1>1. ASSUME NEW i \in Registers PROVE Small(4 * i) \in Word
  <2>1. 4 * i \in Nat /\ 4 * i <= 65535
        BY SMT DEF Registers
  <2> QED BY <2>1, SmallIsWord
<1>2. \A c \in Cell : c % 256 \in Byte
  <2>1. \A c \in Cell : c \in Nat
        BY DEF Cell
  <2> QED BY <2>1, Low DEF Byte
<1>3. core \in Core
      BY <1>1, <1>2 DEF Init, Core
<1> QED BY <1>3 DEF Init, TextInv, Answering

(* A handler leaves the whole packet in the buffer and nothing is sent.     *)
LEMMA HandlerStep == TextInv /\ handler => TextInv'
<1> SUFFICES ASSUME TextInv, handler PROVE TextInv'
    OBVIOUS
<1>1. PICK r \in Asked :
        /\ r.cmd = "G" => saved # <<>>
        /\ request' = r /\ body' = Body(core, r) /\ core' = Effect(core, r)
      BY DEF handler
<1>2. packet' = gdb_send_buffer(Buffered(packet, body')) /\ out' = <<>> /\ saved' = saved
      BY DEF handler
<1>3. core' \in Core /\ body' \in Seq(Char) /\ (r.cmd = "g" => Digits(body'))
      BY <1>1, EffectIsCore, BodyIsText DEF TextInv
<1>4. Len(body') \in Nat
      BY <1>3, LenProperties
<1>5. ASSUME Len(body') + 4 <= MaxPacket
      PROVE  /\ len' = Len(body') + 4 /\ Framed(packet', body')
             /\ Len(out') <= len' /\ out' = SubSeq(Frame', 1, Len(out')) /\ Len(out') \in Nat
  <2>1. /\ Framed(packet', body')
        /\ packet'[MaxPacket + HostOrder(0)] + 256 * packet'[MaxPacket + HostOrder(1)] = Len(body') + 4
        BY <1>2, <1>3, <1>5, SentIsFramed
  <2>2. len' = Len(body') + 4
        BY <2>1 DEF len
  <2>3. Len(out') = 0
        BY <1>2
  <2>4. out' = SubSeq(Frame', 1, Len(out'))
        BY <1>2, <2>3, SubSeqEmpty
  <2> QED BY <1>4, <2>1, <2>2, <2>3, <2>4
<1>6. Answering'
      BY <1>1, <1>3, <1>5 DEF Answering, Fits
<1>7. saved' # <<>> => Digits(saved')
      BY <1>2 DEF TextInv
<1> QED BY <1>3, <1>6, <1>7 DEF TextInv

(* What a packet that fits looks like in the buffer, cell by cell.          *)
LEMMA FrameCells ==
  ASSUME TextInv, request # None, Fits
  PROVE  /\ Len(Frame) = Len(body) + 4 /\ len = Len(Frame) /\ Len(body) \in Nat
         /\ \E S : Frame \in Seq(S)
         /\ \A c \in 1 .. Len(Frame) : packet[c - 1] = Frame[c]
<1> DEFINE check == Printed(<<Check(body)>>)
           n == Len(body)
<1>1. body \in Seq(Char) /\ Framed(packet, body) /\ len = n + 4
      BY DEF TextInv, Answering
<1>2. n \in Nat
      BY <1>1, LenProperties
<1>3. /\ Len(Frame) = n + 4 /\ \E S : Frame \in Seq(S)
      /\ Frame[1] = 36 /\ \A c \in 1 .. n : Frame[c + 1] = body[c]
      /\ Frame[n + 2] = 35 /\ Frame[n + 3] = check[1] /\ Frame[n + 4] = check[2]
      BY <1>1, FrameIs DEF Frame
<1>4. /\ packet[0] = 36 /\ packet[n + 1] = 35
      /\ \A c \in 1 .. n : packet[c] = body[c]
      /\ packet[n + 2] = check[1] /\ packet[n + 3] = check[2]
      BY <1>1 DEF Framed
<1> HIDE DEF check, n
<1>5. ASSUME NEW c \in 1 .. n + 4 PROVE packet[c - 1] = Frame[c]
  <2>1. CASE c \in 2 .. n + 1
    <3>1. c - 1 \in 1 .. n /\ (c - 1) + 1 = c
          BY <1>2, <2>1
    <3> QED BY <1>3, <1>4, <3>1
  <2>2. CASE c \in {1, n + 2, n + 3, n + 4}
    <3>1. /\ c = 1 => c - 1 = 0
          /\ c = n + 2 => c - 1 = n + 1
          /\ c = n + 3 => c - 1 = n + 2
          /\ c = n + 4 => c - 1 = n + 3
          BY <1>2
    <3>2. CASE c = 1
          BY <1>3, <1>4, <3>1, <3>2
    <3>3. CASE c = n + 2
          BY <1>3, <1>4, <3>1, <3>3
    <3>4. CASE c = n + 3
          BY <1>3, <1>4, <3>1, <3>4
    <3>5. CASE c = n + 4
          BY <1>3, <1>4, <3>1, <3>5
    <3> QED BY <2>2, <3>2, <3>3, <3>4, <3>5
  <2> QED BY <1>2, <2>1, <2>2
<1> QED BY <1>1, <1>2, <1>3, <1>5 DEF n

(* A write, even a short one, goes on from where the last one stopped.      *)
LEMMA WriteStep == TextInv /\ rio_writen => TextInv'
<1> SUFFICES ASSUME TextInv, rio_writen PROVE TextInv'
    OBVIOUS
<1>1. /\ UNCHANGED <<core, packet, request, body, saved>> /\ request # None
      /\ Left > 0 /\ Left = len - Len(out)
      BY DEF rio_writen, Left
<1>2. PICK k \in (Pieces \cup {Left}) \cap (1..Left) : out' = Written(Len(out), k)
      BY DEF rio_writen
<1>3. len' = len /\ Frame' = Frame /\ Fits' = Fits
      BY <1>1 DEF len, Frame, Fits
<1>4. ASSUME Fits
      PROVE  Len(out') \in Nat /\ Len(out') <= len /\ out' = SubSeq(Frame, 1, Len(out'))
  <2> DEFINE n == Len(out)
             more == [j \in 1..k |-> packet[n + j - 1]]
  <2>1. /\ Len(Frame) = len /\ len \in Nat /\ \A c \in 1 .. len : packet[c - 1] = Frame[c]
        BY <1>1, <1>4, FrameCells
  <2>2. n \in Nat /\ out = SubSeq(Frame, 1, n)
        BY <1>1, <1>4 DEF TextInv, Answering
  <2>3. k \in Nat /\ n + k <= len
        BY <1>1, <1>2, <2>1, <2>2
  <2>4. PICK S : Frame \in Seq(S)
        BY <1>1, <1>4, FrameCells
  <2>5. out' = out \o more
        BY <1>2 DEF Written
  <2> HIDE DEF n
  <2>6. ASSUME NEW j \in 1..k PROVE more[j] = Frame[n + j] /\ more[j] \in S
    <3>1. n + j \in 1 .. len /\ (n + j) - 1 = n + j - 1
          BY <2>1, <2>2, <2>3
    <3>2. Frame[n + j] \in S
          BY <2>1, <2>4, <3>1, ElementOfSeq
    <3> QED BY <2>1, <3>1, <3>2
  <2>7. more \in Seq(S) /\ Len(more) = k
    <3>1. \A j \in 1..k : packet[n + j - 1] \in S
          BY <2>6
    <3> QED BY <2>3, <3>1
  <2> HIDE DEF more
  <2>8. \A i \in 1 .. len : Frame[i] \in S
        BY <2>1, <2>4, ElementOfSeq
  <2>9. /\ out \in Seq(S) /\ Len(out) = n /\ \A i \in 1..n : out[i] = Frame[i]
    <3>1. \A i \in 1..n : Frame[i] \in S
          BY <2>1, <2>2, <2>3, <2>8
    <3>2. /\ SubSeq(Frame, 1, n) \in Seq(S)
          /\ \A i \in 1 .. n - 1 + 1 : SubSeq(Frame, 1, n)[i] = Frame[1 + i - 1]
          BY <2>2, <3>1, SubSeqProperties
    <3>3. \A i \in 1..n : 1 + i - 1 = i /\ i \in 1 .. n - 1 + 1
          BY <2>2
    <3> QED BY <2>2, <3>2, <3>3 DEF n
  <2>10. /\ out' \in Seq(S) /\ Len(out') = n + k
         /\ \A i \in 1 .. n + k : out'[i] = IF i <= n THEN out[i] ELSE more[i - n]
        BY <2>5, <2>7, <2>9, ConcatProperties
  <2>11. \A i \in 1 .. n + k : out'[i] = Frame[i]
    <3> SUFFICES ASSUME NEW i \in 1 .. n + k PROVE out'[i] = Frame[i]
        OBVIOUS
    <3>1. CASE i <= n
      <4>1. i \in 1..n
            BY <2>2, <3>1
      <4> QED BY <2>9, <2>10, <3>1, <4>1
    <3>2. CASE i > n
      <4>1. i - n \in 1..k /\ n + (i - n) = i /\ ~(i <= n)
            BY <2>2, <2>3, <3>2
      <4>2. out'[i] = more[i - n]
            BY <2>10, <4>1
      <4>3. more[i - n] = Frame[n + (i - n)]
            BY <2>6, <4>1
      <4> QED BY <4>1, <4>2, <4>3
    <3> QED BY <2>2, <3>1, <3>2
  <2> DEFINE t == n + k
  <2>12. /\ SubSeq(Frame, 1, t) \in Seq(S) /\ Len(SubSeq(Frame, 1, t)) = t
         /\ \A i \in 1 .. t : SubSeq(Frame, 1, t)[i] = Frame[i]
    <3>1. t \in Nat /\ t >= 1 /\ t <= len
          BY <1>2, <2>2, <2>3
    <3> HIDE DEF t
    <3>2. 1 .. t \subseteq 1 .. len
          BY <2>1, <3>1
    <3>3. \A i \in 1 .. t : Frame[i] \in S
          BY <2>8, <3>2
    <3>4. /\ SubSeq(Frame, 1, t) \in Seq(S)
          /\ Len(SubSeq(Frame, 1, t)) = IF 1 <= t THEN t - 1 + 1 ELSE 0
          /\ \A i \in 1 .. t - 1 + 1 : SubSeq(Frame, 1, t)[i] = Frame[1 + i - 1]
          BY <3>1, <3>3, SubSeqProperties
    <3>5. /\ (IF 1 <= t THEN t - 1 + 1 ELSE 0) = t
          /\ \A i \in 1 .. t : 1 + i - 1 = i /\ i \in 1 .. t - 1 + 1
          BY <3>1
    <3> QED BY <3>4, <3>5
  <2>13. out' = SubSeq(Frame, 1, n + k)
        BY <2>10, <2>11, <2>12, SeqEqual
  <2> QED BY <2>2, <2>3, <2>10, <2>13
<1>5. Answering'
      BY <1>1, <1>3, <1>4 DEF TextInv, Answering
<1> QED BY <1>1, <1>5 DEF TextInv
(* Nothing else touches the buffer, the text or the target.                 *)
LEMMA OtherSteps ==
  TextInv /\ (gdb_transmit_packet \/ Accepted \/ UNCHANGED vars) => TextInv'
<1> SUFFICES ASSUME TextInv, gdb_transmit_packet \/ Accepted \/ UNCHANGED vars PROVE TextInv'
    OBVIOUS
<1>1. CASE UNCHANGED vars
  <2>1. core' = core /\ saved' = saved /\ request' = request
        BY <1>1 DEF vars
  <2>2. Answering'
        BY <1>1 DEF vars, TextInv, Answering, Fits, Frame, Framed, len
  <2> QED BY <2>1, <2>2 DEF TextInv
<1>2. CASE gdb_transmit_packet
  <2>1. /\ core' = core /\ packet' = packet /\ request' = request /\ body' = body
        /\ saved' = saved /\ out' = <<>> /\ request # None
        BY <1>2 DEF gdb_transmit_packet
  <2>2. len' = len /\ Frame' = Frame /\ Fits' = Fits
        BY <2>1 DEF len, Frame, Fits
  <2>3. ASSUME Fits
        PROVE  Len(out') = 0 /\ Len(out') <= len /\ out' = SubSeq(Frame, 1, Len(out'))
    <3>1. Len(out') = 0
          BY <2>1
    <3>2. len \in Nat
          BY <2>1, <2>3, FrameCells
    <3> QED BY <2>1, <3>1, <3>2, SubSeqEmpty
  <2>4. Answering'
        BY <2>1, <2>2, <2>3 DEF TextInv, Answering
  <2> QED BY <2>1, <2>4 DEF TextInv
<1>3. CASE Accepted
  <2>1. /\ core' = core /\ request' = None /\ request # None /\ Left = 0
        /\ saved' = IF request.cmd = "g" THEN Answer ELSE saved
        BY <1>3 DEF Accepted
  <2>2. CASE request.cmd = "g"
    <3>1. Digits(body) /\ body \in Seq(Char)
          BY <2>1, <2>2 DEF TextInv, Answering
    <3>2. Fits
          BY <3>1, TextAssumption DEF Fits, Digits, GeneralWords
    <3>3. /\ Len(out) = len /\ out = SubSeq(Frame, 1, Len(out))
      <4>1. Len(out) \in Nat /\ out = SubSeq(Frame, 1, Len(out))
            BY <2>1, <3>2 DEF TextInv, Answering
      <4>2. len \in Nat
            BY <2>1, <3>2, FrameCells
      <4>3. len - Len(out) = 0
            BY <2>1 DEF Left
      <4> DEFINE l == Len(out)
      <4> HIDE DEF l
      <4>4. \A x \in Nat, y \in Nat : x - y = 0 => y = x
            OBVIOUS
      <4>5. l = len
            BY <4>1, <4>2, <4>3, <4>4 DEF l
      <4> QED BY <4>1, <4>5 DEF l
    <3>4. PICK S : Frame \in Seq(S)
          BY <2>1, <3>2, FrameCells
    <3>5. /\ Len(Frame) = Len(body) + 4 /\ len = Len(Frame) /\ Len(body) \in Nat
          /\ \A c \in 1 .. Len(Frame) : packet[c - 1] = Frame[c]
          BY <2>1, <3>2, FrameCells
    <3>6. out = Frame
          BY <3>3, <3>4, <3>5, SubSeqFull
    <3> DEFINE n == Len(body)
    <3>7. \A c \in 1 .. n : Frame[c + 1] = body[c]
          BY <3>1, FrameIs DEF Frame
    <3>8. Answer = SubSeq(Frame, 2, n + 1)
      <4>1. Len(out) - 3 = n + 1
            BY <3>3, <3>5
      <4> QED BY <3>6, <4>1 DEF Answer
    <3>9. Answer = body
      <4> HIDE DEF n
      <4>1. ASSUME NEW i \in 2 .. n + 1 PROVE Frame[i] \in Char /\ Frame[i] = body[i - 1]
        <5>1. i - 1 \in 1 .. n /\ (i - 1) + 1 = i
              BY <3>5 DEF n
        <5>2. body[i - 1] \in Char
              BY <3>1, <5>1, ElementOfSeq DEF n
        <5> QED BY <3>7, <5>1, <5>2
      <4>2. n \in Nat
            BY <3>5 DEF n
      <4>3. 2 \in Int /\ n + 1 \in Int /\ \A i \in 2 .. n + 1 : Frame[i] \in Char
            BY <4>1, <4>2
      <4> DEFINE e == n + 1
      <4>4. /\ e \in Int /\ (IF 2 <= e THEN e - 2 + 1 ELSE 0) = n
            /\ \A i \in 1 .. n : i \in 1 .. e - 2 + 1 /\ 2 + i - 1 = i + 1
            BY <4>2
      <4> HIDE DEF e
      <4>5. /\ SubSeq(Frame, 2, e) \in Seq(Char)
            /\ Len(SubSeq(Frame, 2, e)) = IF 2 <= e THEN e - 2 + 1 ELSE 0
            /\ \A i \in 1 .. e - 2 + 1 : SubSeq(Frame, 2, e)[i] = Frame[2 + i - 1]
        <5>1. \A i \in 2 .. e : Frame[i] \in Char
              BY <4>3 DEF e
        <5> QED BY <4>4, <5>1, SubSeqProperties
      <4>6. Answer \in Seq(Char) /\ Len(Answer) = n /\ \A i \in 1 .. n : Answer[i] = body[i]
            BY <3>7, <3>8, <4>4, <4>5 DEF e
      <4> QED BY <3>1, <4>6, SeqEqual DEF n
    <3> QED BY <2>1, <2>2, <3>1, <3>9 DEF TextInv, Answering
  <2>3. CASE request.cmd # "g"
        BY <2>1, <2>3 DEF TextInv, Answering
  <2> QED BY <2>2, <2>3
<1> QED BY <1>1, <1>2, <1>3

LEMMA TextInvariant == Spec => []TextInv
<1>1. TextInv /\ [Next]_vars => TextInv'
      BY HandlerStep, WriteStep, OtherSteps DEF Next
<1> QED BY <1>1, TextInvInit, PTL DEF Spec

(* gdb_send_buffer, rio_writen and gdb_transmit_packet: whatever the        *)
(* handlers left in the buffer, however the writes are cut, and every time  *)
(* the packet is sent again, an answer that fits is received as it should.  *)
THEOREM AnswersWhole == Spec => []AnswerWhole
<1>1. TextInv => AnswerWhole
  <2> SUFFICES ASSUME TextInv, request # None, Len(body) + 4 <= MaxPacket
               PROVE  len = Len(Frame) /\ Len(out) <= len /\ out = SubSeq(Frame, 1, Len(out))
      BY DEF AnswerWhole
  <2>1. Fits
        BY DEF Fits
  <2> QED BY <2>1, FrameCells DEF TextInv, Answering
<1> QED BY <1>1, TextInvariant, PTL
-----------------------------------------------------------------------------
(* Where the digits of a register come from, and where its bytes go.        *)
LEMMA DigitsInLanes ==
  ASSUME NEW w \in Word, NEW k \in 1..4
  PROVE  HostByte(w, Turn(k - 1)) = w[Lane(4, k)]
BY MemoryAssumption, HostAssumption DEF HostByte, Turn, Lane

LEMMA CellAddress ==
  ASSUME NEW a \in Cell, a % 4 = 0
  PROVE  LET address == <<a \div 16777216, (a \div 65536) % 256, (a \div 256) % 256, a % 256>>
         IN  Accessible(address, 4) /\ Num(address) = a
<1> DEFINE address == <<a \div 16777216, (a \div 65536) % 256, (a \div 256) % 256, a % 256>>
<1>1. Size \in Nat /\ Size < 268435456 /\ a \in Nat /\ a <= 4 * Size + 3
      BY MemoryAssumption DEF Cell
<1>2. a \div 16777216 < 128
      BY <1>1, SMT
<1>3. 16777216 * (a \div 16777216) + 65536 * ((a \div 65536) % 256)
      + 256 * ((a \div 256) % 256) + (a % 256) = a
      BY <1>1, SMT
<1>4. Num(address) = a
      BY <1>3 DEF Num
<1>5. a \div 4 <= Size /\ (a % 4) + 4 <= 4
      BY <1>1
<1> QED BY <1>2, <1>4, <1>5 DEF Accessible, Accepts

(* is_big_endian, write_uint32 and memory.c: gdb reads the same byte order  *)
(* in a register and in the memory, for every host and every target.        *)
THEOREM ByteOrdersAgree == Spec => []OneByteOrder
<1>1. TextInv => OneByteOrder
  <2> SUFFICES ASSUME core \in Core, NEW r \in Registers, NEW a \in Cell, a % 4 = 0
               PROVE  LET address == <<a \div 16777216, (a \div 65536) % 256,
                                       (a \div 256) % 256, a % 256>>
                          stored == arm_write(core, address, 4, core.r[r])
                      IN  write_uint32(core.r[r]) = Printed(read_memory(stored, a, 4))
      BY DEF OneByteOrder, TextInv
  <2> DEFINE address == <<a \div 16777216, (a \div 65536) % 256, (a \div 256) % 256, a % 256>>
             w == core.r[r]
             stored == arm_write(core, address, 4, w)
  <2>1. w \in Word
        BY CoreParts
  <2>2. Accessible(address, 4) /\ Num(address) = a
        BY CellAddress
  <2> HIDE DEF w, address
  <2>3. stored.m = Store(core.m, a, 4, Truncate(w, 4))
        BY <2>2 DEF arm_write, Core
  <2>4. Size \in Nat /\ a \in Nat /\ a <= 4 * Size + 3 /\ a \div 4 <= Size
        BY MemoryAssumption DEF Cell
  <2>5. ASSUME NEW k \in 1..4
        PROVE  /\ a + k - 1 \in Cell /\ a + k - 1 \in a .. a + 4 - 1
               /\ a + k - 1 - a + 1 = k /\ Accepts(a + k - 1, 1)
    <3>1. a + k - 1 <= 4 * Size + 3 /\ a + k - 1 \in Nat
          BY <2>4
    <3> QED BY <2>4, <3>1, SMT DEF Cell, Accepts
  <2>6. ASSUME NEW k \in 1..4 PROVE stored.m[a + k - 1] = w[Lane(4, k)]
    <3> DEFINE c == a + k - 1
    <3>1. c \in Cell /\ c \in a .. a + 4 - 1 /\ c - a + 1 = k
          BY <2>4 DEF Cell
    <3> HIDE DEF c
    <3>2. stored.m[c] = Truncate(w, 4)[Lane(4, c - a + 1)]
          BY <2>3, <3>1 DEF Store
    <3>3. Lane(4, k) \in 1..4
          BY LaneInside DEF Width
    <3>4. \A j \in 1..4 : Truncate(w, 4)[j] = w[j]
      <4>1. \A j \in 1..4 : j + 4 - 4 = j
            OBVIOUS
      <4> QED BY <4>1 DEF Truncate
    <3> QED BY <3>1, <3>2, <3>3, <3>4 DEF c
  <2>7. {i \in 1..4 : Accepts(a + i - 1, 1)} = 1..4
        BY <2>5
  <2>8. read_memory(stored, a, 4) = [k \in 1..4 |-> HostByte(w, Turn(k - 1))]
    <3>1. read_memory(stored, a, 4) = [k \in 1..4 |-> stored.m[a + k - 1]]
          BY <2>7 DEF read_memory
    <3> HIDE DEF stored
    <3>2. \A k \in 1..4 : stored.m[a + k - 1] = HostByte(w, Turn(k - 1))
          BY <2>1, <2>6, DigitsInLanes
    <3> QED BY <3>1, <3>2
  <2> QED BY <2>8 DEF write_uint32, w, address
<1> QED BY <1>1, TextInvariant, PTL
-----------------------------------------------------------------------------
(* gdb reads a word of a text as the handlers of P and G do.                *)
LEMMA WordIsRead ==
  ASSUME NEW text, NEW k \in Nat
  PROVE  WordAt(text, k) = read_uint32(text, 8 * k + 1)
<1> DEFINE b == [j \in 1..4 |-> Scanned(text, 8 * k + 2 * j - 1)]
           x == 8 * k + 1
<1>1. b = [j \in 1..4 |-> Scanned(text, x + 2 * (j - 1))]
  <2>1. \A j \in 1..4 : 8 * k + 2 * j - 1 = x + 2 * (j - 1)
        OBVIOUS
  <2> QED BY <2>1
<1>2. WordAt(text, k) = IF IsBigEndian THEN b ELSE <<b[4], b[3], b[2], b[1]>>
      BY DEF WordAt, InOrder
<1> HIDE DEF x
<1>3. WordAt(text, k) =
        [j \in 1..4 |-> Scanned(text, x + 2 * (IF IsBigEndian THEN j - 1 ELSE 4 - j))]
  <2>1. CASE IsBigEndian
        BY <1>1, <1>2, <2>1
  <2>2. CASE ~IsBigEndian
    <3>1. b[4] = Scanned(text, x + 2 * (4 - 1)) /\ b[3] = Scanned(text, x + 2 * (4 - 2))
          /\ b[2] = Scanned(text, x + 2 * (4 - 3)) /\ b[1] = Scanned(text, x + 2 * (4 - 4))
      <4>1. 3 - 1 = 4 - 2 /\ 2 - 1 = 4 - 3 /\ 1 - 1 = 4 - 4
            OBVIOUS
      <4> QED BY <1>1, <4>1
    <3> HIDE DEF b
    <3>2. [j \in 1..4 |-> Scanned(text, x + 2 * (4 - j))] =
            <<Scanned(text, x + 2 * (4 - 1)), Scanned(text, x + 2 * (4 - 2)),
              Scanned(text, x + 2 * (4 - 3)), Scanned(text, x + 2 * (4 - 4))>>
          OBVIOUS
    <3> QED BY <1>2, <2>2, <3>1, <3>2
  <2> QED BY <2>1, <2>2
<1>4. read_uint32(text, x) =
        [j \in 1..4 |-> Scanned(text, x + 2 * Turn(IF HostIsBigEndian THEN j - 1 ELSE 4 - j))]
      BY DEF read_uint32, HostWord
<1>5. \A j \in 1..4 : Turn(IF HostIsBigEndian THEN j - 1 ELSE 4 - j) =
                      IF IsBigEndian THEN j - 1 ELSE 4 - j
      BY MemoryAssumption, HostAssumption DEF Turn
<1>6. WordAt(text, k) = read_uint32(text, x)
      BY <1>3, <1>4, <1>5
<1> QED BY <1>6 DEF x

(* A word that is, digit by digit, the one of write_uint32.                 *)
LEMMA WordsRead ==
  ASSUME NEW g, NEW w \in Word, NEW k \in Listed,
         \A i \in 1..8 : g[8 * k + i] = write_uint32(w)[i]
  PROVE  read_uint32(g, 8 * k + 1) = w /\ WordAt(g, k) = w
<1> DEFINE t == write_uint32(w)
<1>1. k \in Nat
      BY ListedPlaces
<1>2. \A i \in 1..8 : g[8 * k + i] = t[i]
      OBVIOUS
<1> HIDE DEF t
<1>3. ASSUME NEW i \in 0..3
      PROVE  Scanned(g, (8 * k + 1) + 2 * Turn(i)) = Scanned(t, 1 + 2 * Turn(i))
  <2> DEFINE j == Turn(i)
  <2>1. j \in 0..3
        BY TurnInside
  <2> HIDE DEF j
  <2>2. /\ 1 + 2 * j \in 1..8 /\ 1 + 2 * j + 1 \in 1..8
        /\ (8 * k + 1) + 2 * j = 8 * k + (1 + 2 * j)
        /\ (8 * k + 1) + 2 * j + 1 = 8 * k + (1 + 2 * j + 1)
        BY <1>1, <2>1
  <2>3. /\ g[(8 * k + 1) + 2 * j] = t[1 + 2 * j]
        /\ g[(8 * k + 1) + 2 * j + 1] = t[1 + 2 * j + 1]
        BY <1>2, <2>2
  <2> QED BY <2>3 DEF Scanned, j
<1>4. read_uint32(g, 8 * k + 1) = read_uint32(t, 1)
      BY <1>3 DEF read_uint32
<1> QED BY <1>1, <1>4, RegisterRoundTrip, WordIsRead DEF t

LEMMA GeneralWordRead ==
  ASSUME NEW p \in Core, NEW k \in Listed
  PROVE  WordAt(GeneralText(p), k) = Told(p, k)
<1> DEFINE g == GeneralText(p)
           w == Told(p, k)
<1>1. w \in Word
      BY ToldIsWord
<1>2. ASSUME NEW i \in 1..8 PROVE g[8 * k + i] = write_uint32(w)[i]
  <2> DEFINE c == 8 * k + i
  <2>1. c \in 1 .. 8 * GeneralWords /\ (c - 1) \div 8 = k /\ ((c - 1) % 8) + 1 = i
        BY CharPlace, Zenon
  <2> HIDE DEF c
  <2>2. g[c] = write_uint32(Told(p, (c - 1) \div 8))[((c - 1) % 8) + 1]
        BY <2>1 DEF GeneralText
  <2> QED BY <2>1, <2>2 DEF c
<1> HIDE DEF g, w
<1>3. WordAt(g, k) = w
      BY <1>1, <1>2, WordsRead
<1> QED BY <1>3 DEF g, w

(* The words of a G, from those that g had told of q.                       *)
Meant(q, new) == [k \in Listed |-> IF k \in DOMAIN new THEN new[k] ELSE Told(q, k)]

LEMMA ChangedWordRead ==
  ASSUME NEW q \in Core, NEW new \in Changes, NEW k \in Listed
  PROVE  /\ Meant(q, new)[k] \in Word
         /\ read_uint32(Changed(GeneralText(q), new), 8 * k + 1) = Meant(q, new)[k]
         /\ WordAt(Changed(GeneralText(q), new), k) = Meant(q, new)[k]
<1> DEFINE g == GeneralText(q)
           w == IF k \in DOMAIN new THEN new[k] ELSE Told(q, k)
<1>1. w \in Word
      BY ToldIsWord, TextAssumption
<1>2. ASSUME NEW i \in 1..8 PROVE g[8 * k + i] = write_uint32(Told(q, k))[i]
  <2> DEFINE c == 8 * k + i
  <2>1. c \in 1 .. 8 * GeneralWords /\ (c - 1) \div 8 = k /\ ((c - 1) % 8) + 1 = i
        BY CharPlace, Zenon
  <2> HIDE DEF c
  <2>2. g[c] = write_uint32(Told(q, (c - 1) \div 8))[((c - 1) % 8) + 1]
        BY <2>1 DEF GeneralText
  <2> QED BY <2>1, <2>2 DEF c
<1>3. Digits(g)
      BY GeneralTextDigits
<1> HIDE DEF g
<1> DEFINE h == Changed(g, new)
<1>4. ASSUME NEW i \in 1..8 PROVE h[8 * k + i] = write_uint32(w)[i]
  <2>1. g \in Seq(Char) /\ Len(g) = 8 * GeneralWords
        BY <1>3 DEF Digits
  <2>2. h[8 * k + i] = IF k \in DOMAIN new THEN write_uint32(new[k])[i] ELSE g[8 * k + i]
        BY <2>1, ChangedChars
  <2> QED BY <1>2, <2>2
<1>5. Meant(q, new)[k] = w
      BY DEF Meant
<1> HIDE DEF h, w
<1>6. read_uint32(h, 8 * k + 1) = w /\ WordAt(h, k) = w
      BY <1>1, <1>4, WordsRead
<1> QED BY <1>1, <1>5, <1>6 DEF h, g

(* What the handler of G leaves: r0 to r14 as they are written; the word of *)
(* the pc is written, then overwritten with that of the CPSR.               *)
LEMMA GeneralGivenBack ==
  ASSUME NEW p \in Core, NEW q \in Core, NEW new \in Changes
  PROVE  LET v == GeneralRead(Changed(GeneralText(q), new))
             e == WriteStatus(WriteGeneral(p, v), v)
         IN  /\ e.m = p.m /\ \A k \in 0..14 : e.r[k] = Meant(q, new)[k]
             /\ e.r[PC] = Meant(q, new)[CPSR]
<1> DEFINE v == GeneralRead(Changed(GeneralText(q), new))
           f == [i \in Registers |-> v[i]]
           e == WriteStatus(WriteGeneral(p, v), v)
<1>1. ASSUME NEW k \in 0..16 PROVE v[k] = Meant(q, new)[IF k = 16 THEN CPSR ELSE k]
  <2>1. (IF k = 16 THEN CPSR ELSE k) \in Listed
        BY ListedPlaces
  <2> QED BY <2>1, ChangedWordRead DEF GeneralRead
<1>2. v[16] = Meant(q, new)[CPSR] /\ \A k \in 0..14 : v[k] = Meant(q, new)[k]
      BY <1>1
<1> HIDE DEF v
<1>3. WriteGeneral(p, v) = [r |-> f, m |-> p.m]
      BY DEF WriteGeneral, Core
<1>4. e = [r |-> [f EXCEPT ![PC] = v[16]], m |-> p.m]
      BY <1>3 DEF WriteStatus, write_cpsr
<1>5. [f EXCEPT ![PC] = v[16]] = [i \in Registers |-> IF i = PC THEN v[16] ELSE v[i]]
      OBVIOUS
<1>6. PC \in Registers /\ \A k \in 0..14 : k \in Registers /\ k # PC
      BY DEF Registers, PC
<1> HIDE DEF e, f
<1>7. e.m = p.m /\ e.r[PC] = v[16] /\ \A k \in 0..14 : e.r[k] = v[k]
      BY <1>4, <1>5, <1>6
<1> QED BY <1>2, <1>7 DEF e, v

(* A pc written by P, at an aligned address, is the one told.               *)
LEMMA FourOfBytes ==
  ASSUME NEW a \in Byte, NEW b \in Byte, NEW c \in Byte, NEW d \in Byte
  PROVE  Sub(Add(<<a, b, c, d>>, Small(4)), Small(4)) = <<a, b, c, d>>
<1> DEFINE d4 == (d + 4) \div 256
           r4 == (d + 4) % 256
           d3 == (c + d4) \div 256
           r3 == (c + d4) % 256
           d2 == (b + d3) \div 256
           r2 == (b + d3) % 256
           d1 == (a + d2) \div 256
           r1 == (a + d2) % 256
<1>1. /\ d4 \in 0..1 /\ r4 \in Byte
      /\ (r4 + 252) % 256 = d /\ (r4 + 252) \div 256 = 1 - d4
  <2>1. d \in 0..255
        BY DEF Byte
  <2> QED BY <2>1, SMT DEF Byte
<1>2. Add(<<a, b, c, d>>, Small(4)) =
        <<(a + 0 + ((b + 0 + ((c + 0 + d4) \div 256)) \div 256)) % 256,
          (b + 0 + ((c + 0 + d4) \div 256)) % 256, (c + 0 + d4) % 256, r4>>
      BY SMT DEF Add, Small
<1> HIDE DEF d4, r4
<1>3. c + 0 + d4 = c + d4
      BY <1>1, SMT DEF Byte
<1>4. /\ d3 \in 0..1 /\ r3 \in Byte
      /\ (r3 + 255 + (1 - d4)) % 256 = c /\ (r3 + 255 + (1 - d4)) \div 256 = 1 - d3
  <2>1. c \in 0..255 /\ d4 \in 0..1
        BY <1>1 DEF Byte
  <2> QED BY <2>1, SMT DEF Byte
<1>5. Add(<<a, b, c, d>>, Small(4)) =
        <<(a + 0 + ((b + 0 + d3) \div 256)) % 256, (b + 0 + d3) % 256, r3, r4>>
      BY <1>2, <1>3
<1> HIDE DEF d3, r3
<1>6. b + 0 + d3 = b + d3
      BY <1>4, SMT DEF Byte
<1>7. /\ d2 \in 0..1 /\ r2 \in Byte
      /\ (r2 + 255 + (1 - d3)) % 256 = b /\ (r2 + 255 + (1 - d3)) \div 256 = 1 - d2
  <2>1. b \in 0..255 /\ d3 \in 0..1
        BY <1>4 DEF Byte
  <2> QED BY <2>1, SMT DEF Byte
<1>8. Add(<<a, b, c, d>>, Small(4)) = <<(a + 0 + d2) % 256, r2, r3, r4>>
      BY <1>5, <1>6
<1> HIDE DEF d2, r2
<1>9. a + 0 + d2 = a + d2
      BY <1>7, SMT DEF Byte
<1>10. r1 \in Byte /\ (r1 + 255 + (1 - d2)) % 256 = a
  <2>1. a \in 0..255 /\ d2 \in 0..1
        BY <1>7 DEF Byte
  <2> QED BY <2>1, SMT DEF Byte
<1>11. Add(<<a, b, c, d>>, Small(4)) = <<r1, r2, r3, r4>>
       BY <1>8, <1>9
<1> HIDE DEF r1
<1>12. Sub(<<r1, r2, r3, r4>>, Small(4)) = Add(<<r1, r2, r3, r4>>, <<255, 255, 255, 252>>)
  <2>1. Add(Not(Small(4)), Small(1)) = <<255, 255, 255, 252>>
        BY SMT DEF Not, Small, Add
  <2> QED BY <2>1 DEF Sub
<1>13. Add(<<r1, r2, r3, r4>>, <<255, 255, 255, 252>>) =
          LET s4 == r4 + 252
              s3 == r3 + 255 + s4 \div 256
              s2 == r2 + 255 + s3 \div 256
              s1 == r1 + 255 + s2 \div 256
          IN  <<s1 % 256, s2 % 256, s3 % 256, s4 % 256>>
       BY DEF Add
<1> QED BY <1>1, <1>4, <1>7, <1>10, <1>11, <1>12, <1>13

LEMMA FourGivenBack == ASSUME NEW w \in Word PROVE Sub(Add(w, Small(4)), Small(4)) = w
<1>1. /\ w = <<w[1], w[2], w[3], w[4]>>
      /\ w[1] \in Byte /\ w[2] \in Byte /\ w[3] \in Byte /\ w[4] \in Byte
      BY WordIsTuple
<1>2. Sub(Add(<<w[1], w[2], w[3], w[4]>>, Small(4)), Small(4)) = <<w[1], w[2], w[3], w[4]>>
      BY <1>1, FourOfBytes
<1> QED BY <1>1, <1>2, Zenon

LEMMA PcGivenBack ==
  ASSUME NEW p \in Core, NEW w \in Word, (w[4] \div 2) % 2 = 0
  PROVE  NextPc(arm_write_register(p, PC, w)) = w
<1> DEFINE x == Add(w, Small(4))
<1>1. arm_write_register(p, PC, w).r[PC] = w
      BY CoreParts, RegisterWritten
<1>2. x \in Word
  <2>1. 4 \in Nat /\ 4 <= 65535
        BY SMT
  <2>2. Small(4) \in Word
        BY <2>1, SmallIsWord
  <2> HIDE DEF x
  <2>3. Add(w, Small(4)) \in Word
        BY <2>2, ArithmeticIsWord
  <2> QED BY <2>3 DEF x
<1>3. Bit(x, 1) = 0
  <2>1. w[4] \in 0..255 /\ x[4] = (w[4] + 4) % 256
    <3>1. w[4] \in 0..255
          BY WordIsTuple DEF Byte
    <3>2. Small(4)[4] = 4
          BY SMT DEF Small
    <3> QED BY <3>1, <3>2 DEF Add
  <2>2. \A n \in 0..255 : (n \div 2) % 2 = 0 => (((n + 4) % 256) \div 2) % 2 = 0
        BY SMT
  <2>3. Bit(x, 1) = (x[4] \div 2) % 2
    <3>1. 8 * 0 + 1 = 1 /\ 4 - 0 = 4 /\ 0 \in 0..3
          OBVIOUS
    <3> HIDE DEF x
    <3>2. Bit(x, 8 * 0 + 1) = (x[4 - 0] \div 2) % 2
          BY <3>1, BitPlace
    <3> QED BY <3>1, <3>2
  <2> QED BY <2>1, <2>2, <2>3
<1>4. And(x, Not(Small(2))) = x
      BY <1>2, <1>3, MaskIsIdentity
<1> HIDE DEF x
<1>5. arm_read_register(arm_write_register(p, PC, w), PC) = x
      BY <1>1, <1>4 DEF arm_read_register, x
<1> QED BY <1>5, FourGivenBack DEF NextPc, FetchAddress, x

(* What m reads, byte by byte; what X writes, and what it says of it.       *)
LEMMA BytesTold ==
  ASSUME NEW p \in Core, NEW address \in Nat, NEW size \in Nat
  PROVE  \E n \in Nat :
           LET b == read_memory(p, address, size)
           IN  /\ n <= size /\ b \in [1..n -> Byte]
               /\ \A i \in 1..n : address + i - 1 \in Cell /\ b[i] = p.m[address + i - 1]
<1> DEFINE b == read_memory(p, address, size)
           readable == {i \in 1..size : Accepts(address + i - 1, 1)}
<1>1. PICK n \in Nat : b \in [1..n -> Byte]
      BY BytesRead
<1>2. b = [i \in readable |-> p.m[address + i - 1]]
      BY DEF read_memory
<1> HIDE DEF b
<1>3. readable = 1..n
      BY <1>1, <1>2
<1>4. \A i \in 1..n : i \in 1..size /\ Accepts(address + i - 1, 1)
      BY <1>3
<1>5. n <= size
  <2>1. n # 0 => n \in 1..n
        OBVIOUS
  <2> QED BY <1>4, <2>1
<1>6. ASSUME NEW i \in 1..n PROVE address + i - 1 \in Cell
  <2>1. address + i - 1 \in Nat /\ Accepts(address + i - 1, 1)
        BY <1>4
  <2> QED BY <2>1, AccessInside DEF Width
<1>7. \A i \in 1..n : b[i] = p.m[address + i - 1]
      BY <1>2, <1>3
<1> QED BY <1>1, <1>5, <1>6, <1>7 DEF b

LEMMA BytesWritten ==
  ASSUME NEW p \in Core, NEW address \in Nat, NEW size \in Nat, NEW bytes \in [1..size -> Byte]
  PROVE  LET q == write_memory(p, address, bytes)
         IN  /\ q.r = p.r
             /\ \A a \in Cell : a \notin Addresses(address, size) => q.m[a] = p.m[a]
             /\ WriteOk(address, bytes) => \A a \in Addresses(address, size) :
                  /\ a \in Cell /\ a - address + 1 \in 1..size
                  /\ q.m[a] = bytes[a - address + 1]
<1> DEFINE q == write_memory(p, address, bytes)
<1>1. q.r = p.r
      BY DEF write_memory, Core
<1>2. \A a \in Cell : a \in Nat
      BY DEF Cell
<1>3. \A a \in Nat : a - address + 1 \in 1..size <=> a \in Addresses(address, size)
      BY DEF Addresses
<1>4. ASSUME address < Size
      PROVE  q.m = [c \in Cell |-> IF c - address + 1 \in 1..size THEN bytes[c - address + 1]
                                                               ELSE p.m[c]]
      BY <1>4 DEF write_memory, Core
<1>5. ~(address < Size) => q = p
      BY DEF write_memory
<1> HIDE DEF q
<1>6. ASSUME NEW a \in Cell, a \notin Addresses(address, size) PROVE q.m[a] = p.m[a]
      BY <1>2, <1>3, <1>4, <1>5, <1>6
<1>7. ASSUME WriteOk(address, bytes), NEW a \in Addresses(address, size)
      PROVE  /\ a \in Cell /\ a - address + 1 \in 1..size
             /\ q.m[a] = bytes[a - address + 1]
  <2>1. a \in Nat /\ a - address + 1 \in 1..size /\ address + (a - address + 1) - 1 = a
        BY DEF Addresses
  <2> DEFINE i == a - address + 1
  <2> HIDE DEF i
  <2>2. Accepts(address + i - 1, 1) /\ address < Size
        BY <1>7, <2>1 DEF WriteOk, i
  <2>3. a \in Cell
        BY <2>1, <2>2, AccessInside DEF Width, i
  <2> QED BY <1>4, <2>1, <2>2, <2>3
<1> QED BY <1>1, <1>6, <1>7 DEF q

(* A view is a record of two functions, which hold what is true of a core,  *)
(* and of the registers that are excepted.                                  *)
IsView(v) ==
  /\ v = [r |-> v.r, m |-> v.m, lost |-> v.lost]
  /\ DOMAIN v.r \subseteq Listed /\ DOMAIN v.m \subseteq Cell /\ v.lost \subseteq {PC, CPSR}
Agrees(v, p) ==
  /\ \A k \in DOMAIN v.r \ v.lost : v.r[k] = Told(p, k)
  /\ \A a \in DOMAIN v.m : v.m[a] = p.m[a]

(* The word of the pc, which is the CPSR, is what the others are told from. *)
LEMMA ToldFromWords ==
  ASSUME NEW p \in Core, NEW e, e.r = p.r
  PROVE  \A k \in Listed : Told(e, k) = Told(p, k)
BY DEF Told, NextPc, FetchAddress, arm_read_register, read_cpsr

LEMMA Updated ==
  ASSUME NEW f, NEW g
  PROVE  /\ DOMAIN Update(f, g) = DOMAIN f \cup DOMAIN g
         /\ \A x \in DOMAIN g : Update(f, g)[x] = g[x]
         /\ \A x \in DOMAIN f \ DOMAIN g : Update(f, g)[x] = f[x]
BY DEF Update

(* The answer to each request, accepted by gdb, leaves a view, which agrees *)
(* with the target after the request if it agreed before.                   *)
GivesBack(r, p) ==
  LET v == Learnt(r, Body(p, r))
  IN  IsView(v) /\ (Understood /\ Agrees(view, p) => Agrees(v, Effect(p, r)))

LEMMA GeneralToldAgrees ==
  ASSUME NEW p \in Core, NEW r, r.cmd = "g", IsView(view)
  PROVE  GivesBack(r, p)
<1> DEFINE v == Learnt(r, Body(p, r))
<1>1. v = [r |-> Words(GeneralText(p)), m |-> view.m, lost |-> {}]
      BY DEF Learnt, Body, IsView
<1>2. Effect(p, r) = p
      BY DEF Effect, SimpleEffect, Parsed
<1> HIDE DEF v
<1>3. DOMAIN v.r = Listed /\ \A k \in Listed : v.r[k] = Told(p, k)
      BY <1>1, GeneralWordRead DEF Words
<1>4. IsView(v)
      BY <1>1, <1>3 DEF IsView
<1>5. Agrees(view, p) => Agrees(v, p)
      BY <1>1, <1>3 DEF Agrees
<1> QED BY <1>2, <1>4, <1>5 DEF GivesBack, v

(* Of a G that changes neither the pc nor the CPSR, all is in the target;   *)
(* of another, all but the pc.                                              *)
LEMMA GeneralWrittenAgrees ==
  ASSUME NEW p \in Core, NEW q \in Core, NEW r, NEW new \in Changes, IsView(view),
         r.cmd = "G", r.text = Changed(GeneralText(q), new), r.changed = DOMAIN new
  PROVE  GivesBack(r, p)
<1> DEFINE v == Learnt(r, Body(p, r))
           e == Effect(p, r)
<1>1. v = [r |-> Words(r.text), m |-> view.m,
           lost |-> IF r.changed \cap {PC, CPSR} = {} THEN {} ELSE {PC}]
      BY DEF Learnt, IsView
<1>2. /\ e.m = p.m /\ \A k \in 0..14 : e.r[k] = Meant(q, new)[k]
      /\ e.r[PC] = Meant(q, new)[CPSR]
      BY GeneralGivenBack DEF Effect
<1> HIDE DEF v, e
<1>3. DOMAIN v.r = Listed /\ \A k \in Listed : v.r[k] = Meant(q, new)[k]
      BY <1>1, ChangedWordRead DEF Words
<1>4. IsView(v)
      BY <1>1, <1>3 DEF IsView
<1>5. ASSUME NEW k \in Listed \ v.lost PROVE Meant(q, new)[k] = Told(e, k)
  <2>1. CASE k < 15
    <3>1. k \in 0..14
          BY <2>1, ListedPlaces
    <3> QED BY <1>2, <2>1, <3>1 DEF Told
  <2>2. CASE k = CPSR
    <3>1. Told(e, k) = e.r[PC]
          BY <2>2, ListedPlaces DEF Told, read_cpsr
    <3> QED BY <1>2, <2>2, <3>1
  <2>3. CASE k = PC
    <3>1. PC \notin DOMAIN new /\ CPSR \notin DOMAIN new
          BY <1>1, <2>3
    <3>2. /\ Meant(q, new)[PC] = Told(q, PC) /\ Meant(q, new)[CPSR] = Told(q, CPSR)
          BY <3>1, ListedPlaces DEF Meant
    <3>3. /\ Told(q, PC) = NextPc(q) /\ Told(e, PC) = NextPc(e) /\ Told(q, CPSR) = q.r[PC]
          BY ListedPlaces DEF Told, read_cpsr
    <3>4. e.r[PC] = q.r[PC]
          BY <1>2, <3>2, <3>3
    <3>5. NextPc(e) = NextPc(q)
          BY <3>4 DEF NextPc, FetchAddress, arm_read_register
    <3> QED BY <2>3, <3>2, <3>3, <3>5
  <2> QED BY <2>1, <2>2, <2>3, ListedPlaces
<1>6. Agrees(view, p) => Agrees(v, e)
      BY <1>1, <1>2, <1>3, <1>5 DEF Agrees
<1> QED BY <1>4, <1>6 DEF GivesBack, v, e

LEMMA RegisterToldAgrees ==
  ASSUME NEW p \in Core, NEW r \in Requests, r.cmd = "p", IsView(view)
  PROVE  GivesBack(r, p)
<1> DEFINE w == read_register(p, r.reg)
           g == [k \in {r.reg} |-> WordAt(write_uint32(w), 0)]
           v == Learnt(r, Body(p, r))
<1>0. r.reg \in Registers /\ w \in Word
      BY TextAssumption, RegisterTold
<1>1. v = [r |-> Update(view.r, g), m |-> view.m, lost |-> view.lost \ {r.reg}]
      BY DEF Learnt, Body, SimpleReply, IsView
<1>2. Effect(p, r) = p
      BY DEF Effect, SimpleEffect, Parsed
<1>3. g[r.reg] = w
  <2>1. WordAt(write_uint32(w), 0) = read_uint32(write_uint32(w), 8 * 0 + 1)
        BY WordIsRead, SMT
  <2>2. 8 * 0 + 1 = 1
        OBVIOUS
  <2> HIDE DEF w
  <2> QED BY <1>0, <2>1, <2>2, RegisterRoundTrip
<1>4. DOMAIN g = {r.reg}
      OBVIOUS
<1> HIDE DEF g, v
<1>5. /\ DOMAIN v.r = DOMAIN view.r \cup {r.reg} /\ v.r[r.reg] = w
      /\ \A k \in DOMAIN view.r : k # r.reg => v.r[k] = view.r[k]
  <2> DEFINE u == Update(view.r, g)
  <2>1. /\ DOMAIN u = DOMAIN view.r \cup DOMAIN g
        /\ \A k \in DOMAIN g : u[k] = g[k]
        /\ \A k \in DOMAIN view.r \ DOMAIN g : u[k] = view.r[k]
        BY Updated, Zenon
  <2>2. v.r = u
        BY <1>1
  <2> HIDE DEF u
  <2> QED BY <1>3, <1>4, <2>1, <2>2
<1>6. IsView(v)
      BY <1>0, <1>1, <1>5 DEF IsView, Listed
<1>7. Understood => w = Told(p, r.reg)
  <2> SUFFICES ASSUME Understood PROVE w = Told(p, r.reg)
      OBVIOUS
  <2>1. r.reg \in 0..9
        BY <1>0 DEF Understood, Registers
  <2>2. \A n \in 0..9 : atoi(n) = n
        BY SMT DEF atoi
  <2>3. PC = 15
        BY DEF PC
  <2> QED BY <2>1, <2>2, <2>3 DEF read_register, Told
<1> HIDE DEF w
<1>8. Understood /\ Agrees(view, p) => Agrees(v, p)
      BY <1>1, <1>5, <1>7 DEF Agrees
<1> QED BY <1>2, <1>6, <1>8 DEF GivesBack, v

LEMMA RegisterWrittenAgrees ==
  ASSUME NEW p \in Core, NEW r \in Requests, r.cmd = "P", IsView(view)
  PROVE  GivesBack(r, p)
<1> DEFINE w == read_uint32(r.text, 1)
           g == [k \in {r.reg} |-> WordAt(r.text, 0)]
           v == Learnt(r, Body(p, r))
           e == Effect(p, r)
<1>0. r.reg \in Registers /\ w \in Word
      BY TextAssumption
<1>1. v = [r |-> Update(view.r, g), m |-> view.m,
           lost |-> IF r.reg = PC THEN {CPSR} ELSE view.lost]
      BY DEF Learnt, IsView
<1>2. e = arm_write_register(p, r.reg, w)
      BY DEF Effect, SimpleEffect, Parsed
<1>3. g[r.reg] = w
  <2>1. WordAt(r.text, 0) = read_uint32(r.text, 8 * 0 + 1)
        BY WordIsRead, SMT
  <2>2. 8 * 0 + 1 = 1
        OBVIOUS
  <2> QED BY <2>1, <2>2
<1>4. DOMAIN g = {r.reg}
      OBVIOUS
<1>5. Understood /\ r.reg = PC => (w[4] \div 2) % 2 = 0
      BY DEF Understood
<1> HIDE DEF g, v, w, e
<1>6. /\ DOMAIN v.r = DOMAIN view.r \cup {r.reg} /\ v.r[r.reg] = w
      /\ \A k \in DOMAIN view.r : k # r.reg => v.r[k] = view.r[k]
  <2> DEFINE u == Update(view.r, g)
  <2>1. /\ DOMAIN u = DOMAIN view.r \cup DOMAIN g
        /\ \A k \in DOMAIN g : u[k] = g[k]
        /\ \A k \in DOMAIN view.r \ DOMAIN g : u[k] = view.r[k]
        BY Updated, Zenon
  <2>2. v.r = u
        BY <1>1
  <2> HIDE DEF u
  <2> QED BY <1>3, <1>4, <2>1, <2>2
<1>7. IsView(v)
      BY <1>0, <1>1, <1>6 DEF IsView, Listed
<1>8. /\ e.m = p.m /\ e.r[r.reg] = w
      /\ \A k \in Registers : k # r.reg => e.r[k] = p.r[k]
      BY <1>0, <1>2, RegisterWritten
<1>9. Understood => w = Told(e, r.reg)
  <2> SUFFICES ASSUME Understood PROVE w = Told(e, r.reg)
      OBVIOUS
  <2>1. CASE r.reg = PC
    <3>1. NextPc(e) = w
          BY <1>0, <1>2, <1>5, <2>1, PcGivenBack
    <3> QED BY <2>1, <3>1 DEF Told, PC
  <2>2. CASE r.reg # PC
    <3>1. r.reg < 15
          BY <1>0, <2>2 DEF Registers, PC
    <3> QED BY <1>8, <3>1 DEF Told
  <2> QED BY <2>1, <2>2
<1>10. ASSUME NEW k \in Listed, k # r.reg, r.reg = PC => k # CPSR
       PROVE  Told(e, k) = Told(p, k)
  <2>1. CASE k < 15
    <3>1. k \in Registers
          BY <2>1, ListedPlaces DEF Registers
    <3> QED BY <1>8, <1>10, <2>1, <3>1 DEF Told
  <2>2. CASE ~(k < 15)
    <3>1. (k = PC \/ k = CPSR) /\ r.reg # PC /\ PC \in Registers
          BY <1>10, <2>2, ListedPlaces DEF Registers, PC
    <3>2. e.r[PC] = p.r[PC]
          BY <1>8, <3>1
    <3> QED BY <2>2, <3>2 DEF Told, NextPc, FetchAddress, arm_read_register, read_cpsr
  <2> QED BY <2>1, <2>2
<1>11. Understood /\ Agrees(view, p) => Agrees(v, e)
  <2> SUFFICES ASSUME Understood, Agrees(view, p) PROVE Agrees(v, e)
      OBVIOUS
  <2>1. ASSUME NEW k \in DOMAIN v.r \ v.lost PROVE v.r[k] = Told(e, k)
    <3>1. CASE k = r.reg
          BY <1>6, <1>9, <3>1
    <3>2. CASE k # r.reg
      <4>1. k \in DOMAIN view.r /\ k \in Listed /\ v.r[k] = view.r[k]
            BY <1>6, <3>2 DEF IsView
      <4>2. r.reg = PC => k # CPSR
            BY <1>1
      <4>3. k \notin view.lost
        <5>1. CASE r.reg = PC
              BY <3>2, <4>2, <5>1 DEF IsView
        <5>2. CASE r.reg # PC
              BY <1>1, <5>2
        <5> QED BY <5>1, <5>2
      <4>4. view.r[k] = Told(p, k)
            BY <4>1, <4>3 DEF Agrees
      <4> QED BY <1>10, <3>2, <4>1, <4>2, <4>4
    <3> QED BY <3>1, <3>2
  <2>2. \A a \in DOMAIN v.m : v.m[a] = e.m[a]
        BY <1>1, <1>8 DEF Agrees
  <2> QED BY <2>1, <2>2 DEF Agrees
<1> QED BY <1>7, <1>11 DEF GivesBack, v, e

LEMMA MemoryToldAgrees ==
  ASSUME NEW p \in Core, NEW r \in Requests, r.cmd = "m", IsView(view)
  PROVE  GivesBack(r, p) /\ Len(Body(p, r)) <= 2 * r.size
<1> DEFINE b == read_memory(p, r.address, r.size)
           t == Printed(b)
           g == [a \in Addresses(r.address, Len(t) \div 2) |-> Scanned(t, 2 * (a - r.address) + 1)]
           v == Learnt(r, Body(p, r))
<1>0. r.address \in Nat /\ r.size \in Nat
      BY TextAssumption
<1>1. /\ v = [r |-> view.r, m |-> Update(view.m, g), lost |-> view.lost]
      /\ Body(p, r) = t
      BY DEF Learnt, Body, SimpleReply, IsView
<1>2. Effect(p, r) = p
      BY DEF Effect, SimpleEffect, Parsed
<1>3. PICK n \in Nat :
        /\ n <= r.size /\ b \in [1..n -> Byte]
        /\ \A i \in 1..n : r.address + i - 1 \in Cell /\ b[i] = p.m[r.address + i - 1]
      BY <1>0, BytesTold
<1> HIDE DEF b
<1>4. Len(t) = 2 * n /\ \A j \in 1..n : Scanned(t, 2 * j - 1) = b[j]
      BY <1>3, PrintedIsText
<1> HIDE DEF t
<1>5. DOMAIN g = Addresses(r.address, n)
  <2>1. (2 * n) \div 2 = n
        BY SMT
  <2> QED BY <1>4, <2>1
<1>6. ASSUME NEW a \in Addresses(r.address, n) PROVE a \in Cell /\ g[a] = p.m[a]
  <2> DEFINE i == a - r.address + 1
  <2>1. a \in Nat /\ i \in 1..n /\ r.address + i - 1 = a /\ 2 * (a - r.address) + 1 = 2 * i - 1
        BY <1>0 DEF Addresses
  <2>2. g[a] = Scanned(t, 2 * (a - r.address) + 1)
        BY <1>5
  <2> HIDE DEF i, g
  <2> QED BY <1>3, <1>4, <2>1, <2>2
<1> HIDE DEF g, v
<1>7. /\ DOMAIN v.m = DOMAIN view.m \cup Addresses(r.address, n)
      /\ \A a \in Addresses(r.address, n) : v.m[a] = g[a]
      /\ \A a \in DOMAIN view.m \ Addresses(r.address, n) : v.m[a] = view.m[a]
  <2> DEFINE u == Update(view.m, g)
  <2>1. /\ DOMAIN u = DOMAIN view.m \cup DOMAIN g
        /\ \A k \in DOMAIN g : u[k] = g[k]
        /\ \A k \in DOMAIN view.m \ DOMAIN g : u[k] = view.m[k]
        BY Updated, Zenon
  <2>2. v.m = u
        BY <1>1
  <2> HIDE DEF u
  <2> QED BY <1>5, <2>1, <2>2
<1>8. IsView(v)
      BY <1>1, <1>6, <1>7 DEF IsView
<1>9. Agrees(view, p) => Agrees(v, p)
      BY <1>1, <1>6, <1>7 DEF Agrees
<1>10. Len(Body(p, r)) <= 2 * r.size
      BY <1>0, <1>1, <1>3, <1>4
<1> QED BY <1>2, <1>8, <1>9, <1>10 DEF GivesBack, v

LEMMA MemoryWrittenAgrees ==
  ASSUME NEW p \in Core, NEW r \in Requests, r.cmd = "X", IsView(view)
  PROVE  GivesBack(r, p)
<1> DEFINE b == Unescaped(r.content, r.size)
           n == r.size
           A == Addresses(r.address, n)
           g == [a \in A |-> r.meant[a - r.address + 1]]
           v == Learnt(r, Body(p, r))
           e == Effect(p, r)
<1>1. /\ r.address \in Nat /\ n \in Nat /\ r.content \in Seq(Byte)
      /\ r.meant \in Seq(Byte) /\ Len(r.meant) = n /\ Escaped(r.content, r.meant)
      BY TextAssumption
<1>2. b = r.meant /\ b \in [1..n -> Byte]
  <2>1. b = r.meant
        BY <1>1, UnescapedIsMeant
  <2>2. \A k \in 1..n : r.meant[k] \in Byte
        BY <1>1, ElementOfSeq
  <2>3. r.meant = [k \in 1..n |-> r.meant[k]]
        BY <1>1, LenProperties
  <2> HIDE DEF b, n
  <2> QED BY <2>1, <2>2, <2>3
<1>3. Body(p, r) = IF WriteOk(r.address, b) THEN OK ELSE E02
      BY DEF Body, SimpleReply, Parsed
<1>4. OK # E02
      BY DEF OK, E02
<1>5. v = [r |-> view.r,
           m |-> IF WriteOk(r.address, b) THEN Update(view.m, g)
                 ELSE [a \in DOMAIN view.m \ A |-> view.m[a]],
           lost |-> view.lost]
      BY <1>3, <1>4 DEF Learnt, IsView
<1>6. e = write_memory(p, r.address, b)
      BY DEF Effect, SimpleEffect, Parsed
<1> HIDE DEF b, n, v, e
<1>7. /\ e.r = p.r
      /\ \A a \in Cell : a \notin A => e.m[a] = p.m[a]
      /\ WriteOk(r.address, b) => \A a \in A : a \in Cell /\ e.m[a] = r.meant[a - r.address + 1]
      BY <1>1, <1>2, <1>6, BytesWritten
<1>8. \A k \in Listed : Told(e, k) = Told(p, k)
      BY <1>7, ToldFromWords
<1>9. DOMAIN g = A /\ \A a \in A : g[a] = r.meant[a - r.address + 1]
      OBVIOUS
<1> HIDE DEF g, A
<1>10. CASE WriteOk(r.address, b)
  <2>1. /\ DOMAIN v.m = DOMAIN view.m \cup A
        /\ \A a \in A : v.m[a] = g[a]
        /\ \A a \in DOMAIN view.m \ A : v.m[a] = view.m[a]
    <3> DEFINE u == Update(view.m, g)
    <3>1. /\ DOMAIN u = DOMAIN view.m \cup DOMAIN g
          /\ \A k \in DOMAIN g : u[k] = g[k]
          /\ \A k \in DOMAIN view.m \ DOMAIN g : u[k] = view.m[k]
          BY Updated, Zenon
    <3>2. v.m = u
          BY <1>5, <1>10
    <3> HIDE DEF u
    <3> QED BY <1>9, <3>1, <3>2
  <2>2. v.r = view.r /\ v.lost = view.lost /\ v = [r |-> v.r, m |-> v.m, lost |-> v.lost]
        BY <1>5
  <2>3. IsView(v)
        BY <1>7, <1>10, <2>1, <2>2 DEF IsView
  <2>4. Agrees(view, p) => Agrees(v, e)
        BY <1>7, <1>8, <1>9, <1>10, <2>1, <2>2 DEF Agrees, IsView
  <2> QED BY <2>3, <2>4 DEF GivesBack, v, e
<1>11. CASE ~WriteOk(r.address, b)
  <2>1. /\ DOMAIN v.m = DOMAIN view.m \ A
        /\ \A a \in DOMAIN view.m \ A : v.m[a] = view.m[a]
        BY <1>5, <1>11
  <2>2. v.r = view.r /\ v.lost = view.lost /\ v = [r |-> v.r, m |-> v.m, lost |-> v.lost]
        BY <1>5
  <2>3. IsView(v)
        BY <2>1, <2>2 DEF IsView
  <2>4. Agrees(view, p) => Agrees(v, e)
        BY <1>7, <1>8, <2>1, <2>2 DEF Agrees, IsView
  <2> QED BY <2>3, <2>4 DEF GivesBack, v, e
<1> QED BY <1>10, <1>11

(* All the requests: the invariant needs no more of them.                   *)
LEMMA RequestAgrees ==
  ASSUME NEW p \in Core, NEW r \in Asked,
         r.cmd = "G" => \E q \in Core : saved = GeneralText(q), IsView(view)
  PROVE  GivesBack(r, p)
<1>1. CASE r \in Requests
  <2>1. r.cmd \in {"g", "m", "p", "X", "P"}
        BY <1>1, TextAssumption
  <2> QED BY <1>1, <2>1, GeneralToldAgrees, MemoryToldAgrees, RegisterToldAgrees,
             MemoryWrittenAgrees, RegisterWrittenAgrees, Zenon
<1>2. CASE r \notin Requests
  <2>1. PICK new \in Changes : /\ r.cmd = "G" /\ r.text = Changed(saved, new)
                               /\ r.changed = DOMAIN new
        BY <1>2, Askable
  <2>2. PICK q \in Core : saved = GeneralText(q)
        BY <2>1
  <2> QED BY <2>1, <2>2, GeneralWrittenAgrees
<1> QED BY <1>1, <1>2
-----------------------------------------------------------------------------
(* The two digits of a checksum.                                            *)
LEMMA ByteIsTwoDigits ==
  ASSUME NEW x \in Byte PROVE Printed(<<x>>) \in Seq(Hex) /\ Len(Printed(<<x>>)) = 2
<1>1. <<x>> \in [1..1 -> Byte] /\ 1 \in Nat
      OBVIOUS
<1>2. Printed(<<x>>) \in Seq(Hex) /\ Len(Printed(<<x>>)) = 2 * 1
      BY <1>1, PrintedIsText
<1> QED BY <1>2

(* What the buffer holds of any answer gdb may want, even one that runs     *)
(* into len: the text below len, and the bytes of len, which is assigned    *)
(* after the frame.                                                         *)
Shown(cells, text) ==
  /\ \A c \in 1 .. Len(text) : c < MaxPacket => cells[c] = text[c]
  /\ \A i \in 0..3 : cells[MaxPacket + i] = IntByte(Len(text) + 4, i)

(* len, in the buffer, is what was assigned to it.                          *)
LEMMA IntBytes ==
  ASSUME NEW n \in Nat, n < 65536, NEW i \in 0..3
  PROVE  IntByte(n, i) \in Byte
<1>1. HostOrder(i) \in 0..3
      BY DEF HostOrder
<1>2. n % 256 \in Byte /\ n \div 256 \in Byte /\ 0 \in Byte
      BY SMT DEF Byte
<1> QED BY <1>1, <1>2 DEF IntByte

LEMMA LengthRead ==
  ASSUME NEW cells, NEW text, Len(text) \in Nat, Shown(cells, text)
  PROVE  cells[MaxPacket + HostOrder(0)] + 256 * cells[MaxPacket + HostOrder(1)] = Len(text) + 4
<1> DEFINE n == Len(text) + 4
<1>1. /\ HostOrder(0) \in 0..3 /\ HostOrder(1) \in 0..3
      /\ HostOrder(HostOrder(0)) = 0 /\ HostOrder(HostOrder(1)) = 1
      BY DEF HostOrder
<1> HIDE DEF n
<1>2. IntByte(n, HostOrder(0)) = n % 256 /\ IntByte(n, HostOrder(1)) = n \div 256
      BY <1>1 DEF IntByte
<1>3. /\ cells[MaxPacket + HostOrder(0)] = n % 256
      /\ cells[MaxPacket + HostOrder(1)] = n \div 256
      BY <1>1, <1>2 DEF Shown, n
<1>4. n \in Nat
      BY DEF n
<1>5. (n % 256) + 256 * (n \div 256) = n
      BY <1>4, SMT
<1> QED BY <1>3, <1>5 DEF n

(* gdb_send_buffer stays in the structure and leaves that in it.            *)
LEMMA SentIsShown ==
  ASSUME NEW cells \in [Offsets -> Byte], NEW text \in Seq(Char), Len(text) <= MaxPacket
  PROVE  LET s == gdb_send_buffer(Buffered(cells, text))
         IN  s \in [Offsets -> Byte] /\ Shown(s, text)
<1> DEFINE b == Buffered(cells, text)
           n == Len(text) + 1
           check == Printed(<<Check(text)>>)
<1>1. Len(text) \in Nat /\ MaxPacket \in Nat /\ MaxPacket < 65532
  <2>1. MaxPacket \in Nat /\ MaxPacket < 65536 /\ MaxPacket % 8 = 0
        BY TextAssumption
  <2> QED BY <2>1, LenProperties
<1>2. End(b) = n
      BY EndFound
<1>3. \A j \in 1 .. Len(text) : j \in Offsets /\ b[j] = text[j]
      BY <1>1 DEF Buffered, Offsets
<1>4. b \in [Offsets -> Byte]
  <2>1. \A j \in 1 .. Len(text) : text[j] \in Byte
    <3>1. Char \subseteq Byte
          BY DEF Char, Byte
    <3> QED BY <3>1, ElementOfSeq
  <2>2. NUL \in Byte
        BY DEF NUL, Byte
  <2> QED BY <2>1, <2>2 DEF Buffered
<1> HIDE DEF b
<1>5. [j \in 1 .. End(b) - 1 |-> b[j]] = text
  <2>1. [j \in 1 .. End(b) - 1 |-> b[j]] = [j \in 1 .. Len(text) |-> text[j]]
        BY <1>1, <1>2, <1>3
  <2> QED BY <2>1, LenProperties
<1> DEFINE s == FramedAs(b, text)
           framed == [c \in Offsets |->
                   CASE c = 0 -> 36 [] c = n -> 35 [] c = n + 1 -> check[1]
                     [] c = n + 2 -> check[2] [] c = n + 3 -> NUL
                     [] c \notin {0, n, n + 1, n + 2, n + 3} -> b[c]]
<1>6. s = [c \in Offsets |-> IF c \in MaxPacket .. MaxPacket + 3
                             THEN IntByte(n + 3, c - MaxPacket) ELSE framed[c]]
      BY DEF FramedAs
<1>7. gdb_send_buffer(b) = s
      BY <1>5 DEF gdb_send_buffer
<1>8. check[1] \in Byte /\ check[2] \in Byte
  <2>1. Check(text) \in Byte
    <3>1. Char \subseteq Nat
          BY DEF Char
    <3> QED BY <3>1, CheckIsByte, SeqMonotonic
  <2>2. check \in Seq(Hex) /\ Len(check) = 2
        BY <2>1, ByteIsTwoDigits
  <2> HIDE DEF check
  <2>3. check[1] \in Hex /\ check[2] \in Hex
    <3>1. 1 \in 1 .. Len(check) /\ 2 \in 1 .. Len(check)
          BY <2>2
    <3> QED BY <2>2, <3>1, ElementOfSeq, Zenon
  <2>4. Hex \subseteq Byte
        BY DEF Hex, Byte
  <2> QED BY <2>3, <2>4
<1> HIDE DEF s, check
<1>9. framed \in [Offsets -> Byte]
  <2>1. 36 \in Byte /\ 35 \in Byte /\ NUL \in Byte
        BY DEF NUL, Byte
  <2>2. ASSUME NEW c \in Offsets PROVE framed[c] \in Byte
    <3>1. b[c] \in Byte
          BY <1>4
    <3> QED BY <1>8, <2>1, <3>1
  <2> QED BY <2>2
<1>10. \A c \in 1 .. Len(text) : framed[c] = text[c]
  <2>1. \A c \in 1 .. Len(text) : c \in Offsets /\ c \notin {0, n, n + 1, n + 2, n + 3}
        BY <1>1 DEF Offsets
  <2> QED BY <1>1, <1>3, <2>1
<1> HIDE DEF framed
<1>11. n + 3 \in Nat /\ n + 3 < 65536 /\ n + 3 = Len(text) + 4
       BY <1>1
<1>12. \A c \in MaxPacket .. MaxPacket + 3 : c - MaxPacket \in 0..3
       BY <1>1
<1>13. s \in [Offsets -> Byte]
  <2>1. \A i \in 0..3 : IntByte(n + 3, i) \in Byte
        BY <1>11, IntBytes
  <2> QED BY <1>6, <1>9, <1>12, <2>1
<1>14. ASSUME NEW c \in 1 .. Len(text), c < MaxPacket PROVE s[c] = text[c]
  <2>1. c \in Offsets /\ c \notin MaxPacket .. MaxPacket + 3
        BY <1>1, <1>14 DEF Offsets
  <2> QED BY <1>6, <1>10, <2>1
<1>15. ASSUME NEW i \in 0..3 PROVE s[MaxPacket + i] = IntByte(n + 3, i)
  <2> DEFINE c == MaxPacket + i
  <2>1. c \in Offsets /\ c \in MaxPacket .. MaxPacket + 3 /\ c - MaxPacket = i
        BY <1>1 DEF Offsets
  <2> HIDE DEF c
  <2>2. s[c] = IntByte(n + 3, c - MaxPacket)
        BY <1>6, <2>1
  <2> QED BY <2>1, <2>2 DEF c
<1> QED BY <1>7, <1>11, <1>13, <1>14, <1>15 DEF Shown, b
-----------------------------------------------------------------------------
(* An answer to what gdb may ask is no longer than the buffer.              *)
LEMMA BodyFits ==
  ASSUME NEW p \in Core, NEW r \in Asked, IsView(view)
  PROVE  Len(Body(p, r)) <= MaxPacket
<1>1. 8 * GeneralWords <= MaxPacket /\ MaxPacket \in Nat /\ MaxPacket >= 148
      BY TextAssumption DEF GeneralWords
<1>2. CASE r.cmd = "g"
      BY <1>1, <1>2, GeneralTextDigits DEF Body, Digits
<1>3. Len(OK) <= 3 /\ Len(E02) <= 3
      BY DEF OK, E02
<1>4. CASE r.cmd \in {"P", "G", "X"}
  <2>1. Body(p, r) \in {OK, E02}
        BY <1>4 DEF Body
  <2> QED BY <1>1, <1>3, <2>1
<1>5. CASE r \in Requests /\ r.cmd = "m"
  <2>1. Len(Body(p, r)) <= 2 * r.size /\ Len(Body(p, r)) \in Nat
        BY <1>5, MemoryToldAgrees, BodyIsText, LenProperties
  <2>2. r.size \in Nat /\ 2 * r.size <= MaxPacket
        BY <1>5, TextAssumption
  <2> QED BY <1>1, <2>1, <2>2
<1>6. CASE r \in Requests /\ r.cmd = "p"
  <2> DEFINE w == read_register(p, r.reg)
  <2>1. w \in Word
        BY <1>6, RegisterTold, TextAssumption
  <2>2. Body(p, r) = write_uint32(w)
        BY <1>6 DEF Body, SimpleReply
  <2> HIDE DEF w
  <2>3. Len(Body(p, r)) = 8
        BY <2>1, <2>2, RegisterRoundTrip
  <2> QED BY <1>1, <2>3
<1> QED BY <1>2, <1>4, <1>5, <1>6, Askable

(* The invariant of the types: what gdb has received is a beginning of what *)
(* the buffer holds, up to len, even of an answer that runs into len.       *)
WireInv ==
  /\ TextInv /\ IsView(view)
  /\ packet \in [Offsets -> Byte] /\ body \in Seq(Char)
  /\ asked \in 0..MaxRequests /\ corrupted \in 0..MaxCorrupt
  /\ request = None => out = <<>>
  /\ request # None =>
       /\ Len(body) <= MaxPacket /\ Shown(packet, body) /\ IsView(Learnt(request, body))
       /\ Len(out) \in Nat /\ Len(out) <= Len(body) + 4
       /\ out = [i \in 1 .. Len(out) |-> packet[i - 1]]
  /\ saved # <<>> => \E q \in Core : saved = GeneralText(q)
  /\ request # None /\ request.cmd = "g" => \E q \in Core : body = GeneralText(q)

LEMMA WireInit == Init => WireInv
<1> SUFFICES ASSUME Init PROVE WireInv
    OBVIOUS
<1>1. NUL \in Byte
      BY DEF NUL, Byte
<1>2. packet \in [Offsets -> Byte]
      BY <1>1 DEF Init
<1>3. IsView(view)
      BY DEF Init, IsView, Empty
<1>4. asked \in 0..MaxRequests /\ corrupted \in 0..MaxCorrupt
      BY TextAssumption DEF Init
<1>5. TextInv
      BY TextInvInit
<1> QED BY <1>2, <1>3, <1>4, <1>5 DEF Init, WireInv

LEMMA WireHandler == WireInv /\ handler => WireInv'
<1> SUFFICES ASSUME WireInv, handler PROVE WireInv'
    OBVIOUS
<1>1. PICK r \in Asked :
        /\ r.cmd = "G" => saved # <<>>
        /\ request' = r /\ body' = Body(core, r) /\ core' = Effect(core, r)
      BY DEF handler
<1>2. /\ packet' = gdb_send_buffer(Buffered(packet, body')) /\ out' = <<>>
      /\ saved' = saved /\ view' = view /\ corrupted' = corrupted
      /\ asked' = asked + 1 /\ asked < MaxRequests
      BY DEF handler
<1>3. TextInv'
      BY HandlerStep DEF WireInv
<1>4. core \in Core /\ IsView(view) /\ packet \in [Offsets -> Byte]
      BY DEF WireInv, TextInv
<1>5. body' \in Seq(Char) /\ Len(body') <= MaxPacket
      BY <1>1, <1>4, BodyIsText, BodyFits
<1>6. packet' \in [Offsets -> Byte] /\ Shown(packet', body')
      BY <1>2, <1>4, <1>5, SentIsShown
<1>7. IsView(Learnt(r, Body(core, r)))
  <2>1. r.cmd = "G" => \E q \in Core : saved = GeneralText(q)
        BY <1>1 DEF WireInv
  <2> QED BY <1>1, <1>4, <2>1, RequestAgrees DEF GivesBack
<1>8. Learnt(request, body)' = Learnt(r, Body(core, r))
      BY <1>1, <1>2 DEF Learnt
<1>9. IsView(view') /\ IsView(Learnt(request, body)')
      BY <1>2, <1>4, <1>7, <1>8
<1>10. Len(out') = 0 /\ out' = [i \in 1 .. 0 |-> packet'[i - 1]]
       BY <1>2
<1>11. Len(body') \in Nat
       BY <1>5, LenProperties
<1>12. r.cmd = "g" => body' = GeneralText(core)
       BY <1>1 DEF Body
<1>13. asked' \in 0..MaxRequests
       BY <1>2, TextAssumption DEF WireInv
<1> QED BY <1>1, <1>2, <1>3, <1>4, <1>5, <1>6, <1>9, <1>10, <1>11, <1>12, <1>13 DEF WireInv

(* What rio_writen still has to write is in the structure.                  *)
LEMMA CellsLeft ==
  ASSUME WireInv, request # None
  PROVE  /\ len = Len(body) + 4 /\ Len(body) \in Nat /\ Len(out) \in Nat
         /\ \A i \in 1 .. Len(body) + 4 : i - 1 \in Offsets /\ packet[i - 1] \in Byte
<1>1. Len(body) \in Nat /\ Len(body) <= MaxPacket /\ MaxPacket \in Nat
      BY LenProperties, TextAssumption DEF WireInv
<1>2. len = Len(body) + 4
      BY <1>1, LengthRead DEF WireInv, len
<1>3. ASSUME NEW i \in 1 .. Len(body) + 4 PROVE i - 1 \in Offsets
      BY <1>1 DEF Offsets
<1> QED BY <1>1, <1>2, <1>3 DEF WireInv

LEMMA WireWrite == WireInv /\ rio_writen => WireInv'
<1> SUFFICES ASSUME WireInv, rio_writen PROVE WireInv'
    OBVIOUS
<1>1. /\ UNCHANGED <<core, packet, request, body, view, saved, asked, corrupted>>
      /\ request # None /\ Left > 0 /\ Left = len - Len(out)
      BY DEF rio_writen, Left
<1>2. PICK k \in (Pieces \cup {Left}) \cap (1..Left) : out' = Written(Len(out), k)
      BY DEF rio_writen
<1>3. /\ len = Len(body) + 4 /\ Len(body) \in Nat /\ Len(out) \in Nat
      /\ out = [i \in 1 .. Len(out) |-> packet[i - 1]]
      BY <1>1, CellsLeft DEF WireInv
<1> DEFINE n == Len(out)
           more == [j \in 1..k |-> packet[n + j - 1]]
<1>4. out' = out \o more
      BY <1>2 DEF Written
<1>5. k \in Nat /\ n \in Nat /\ n + k <= Len(body) + 4
      BY <1>1, <1>2, <1>3
<1> HIDE DEF n
<1>6. out = [i \in 1 .. n |-> packet[i - 1]]
      BY <1>3 DEF n
<1>7. out' = [i \in 1 .. n + k |-> packet[i - 1]] /\ Len(out') = n + k
  <2>0. /\ \A i \in 1..n : packet[i - 1] \in Byte
        /\ \A j \in 1..k : packet[n + j - 1] \in Byte
    <3>1. \A i \in 1 .. Len(body) + 4 : packet[i - 1] \in Byte
          BY <1>1, CellsLeft
    <3>2. ASSUME NEW i \in 1..n PROVE packet[i - 1] \in Byte
      <4>1. i \in 1 .. Len(body) + 4
            BY <1>3, <1>5
      <4> QED BY <3>1, <4>1, Zenon
    <3>3. ASSUME NEW j \in 1..k PROVE packet[n + j - 1] \in Byte
      <4> DEFINE i == n + j
      <4>1. i \in 1 .. Len(body) + 4
            BY <1>3, <1>5
      <4> HIDE DEF i
      <4>2. packet[i - 1] \in Byte
            BY <3>1, <4>1, Zenon
      <4>3. i - 1 = n + j - 1
            BY <1>5 DEF i
      <4> QED BY <4>2, <4>3, Zenon
    <3> QED BY <3>2, <3>3
  <2>1. out \in Seq(Byte) /\ Len(out) = n
        BY <1>5, <1>6, <2>0
  <2>2. more \in Seq(Byte) /\ Len(more) = k
        BY <1>5, <2>0
  <2> HIDE DEF more
  <2>3. /\ out' \in Seq(Byte) /\ Len(out') = n + k
        /\ \A i \in 1 .. n + k : out'[i] = IF i <= n THEN out[i] ELSE more[i - n]
        BY <1>4, <2>1, <2>2, ConcatProperties
  <2>4. ASSUME NEW i \in 1 .. n + k PROVE out'[i] = packet[i - 1]
    <3>1. CASE i <= n
          BY <1>5, <1>6, <2>3, <3>1
    <3>2. CASE i > n
      <4>1. i - n \in 1..k /\ n + (i - n) - 1 = i - 1 /\ ~(i <= n)
            BY <1>5, <3>2
      <4>2. more[i - n] = packet[n + (i - n) - 1]
            BY <4>1 DEF more
      <4> QED BY <2>3, <4>1, <4>2
    <3> QED BY <1>5, <3>1, <3>2
  <2> QED BY <2>3, <2>4, LenProperties
<1>8. TextInv'
      BY WriteStep DEF WireInv
<1>9. Learnt(request, body)' = Learnt(request, body)
      BY <1>1 DEF Learnt
<1> QED BY <1>1, <1>5, <1>7, <1>8, <1>9 DEF WireInv

(* gdb_transmit_packet starts again with the same buffer.                   *)
LEMMA WireSentAgain == WireInv /\ gdb_transmit_packet => WireInv'
<1> SUFFICES ASSUME WireInv, gdb_transmit_packet PROVE WireInv'
    OBVIOUS
<1>1. /\ UNCHANGED <<core, packet, request, body, view, saved, asked>>
      /\ request # None /\ out' = <<>>
      /\ corrupted' = corrupted + 1 /\ corrupted < MaxCorrupt
      BY DEF gdb_transmit_packet
<1>2. TextInv'
      BY OtherSteps DEF WireInv
<1>3. Learnt(request, body)' = Learnt(request, body)
      BY <1>1 DEF Learnt
<1>4. Len(out') = 0 /\ out' = [i \in 1 .. 0 |-> packet'[i - 1]]
      BY <1>1
<1>5. Len(body) \in Nat
      BY <1>1, CellsLeft
<1>6. corrupted' \in 0..MaxCorrupt
      BY <1>1, TextAssumption DEF WireInv
<1> QED BY <1>1, <1>2, <1>3, <1>4, <1>5, <1>6 DEF WireInv

(* gdb accepts no packet whose text it did not get whole: the checksum is   *)
(* in the way when the answer runs into len, whatever its value.            *)
LEMMA AcceptedIsWhole ==
  ASSUME WireInv, request # None, Left = 0, Checked
  PROVE  Answer = body
<1> DEFINE n == Len(body)
<1>1. /\ len = n + 4 /\ n \in Nat /\ Len(out) \in Nat
      /\ \A i \in 1 .. n + 4 : i - 1 \in Offsets /\ packet[i - 1] \in Byte
      BY CellsLeft
<1>2. Len(out) = n + 4
      BY <1>1 DEF Left
<1>3. out = [i \in 1 .. n + 4 |-> packet[i - 1]]
      BY <1>2 DEF WireInv
<1>4. body \in Seq(Char) /\ n <= MaxPacket /\ Shown(packet, body) /\ MaxPacket \in Nat
      BY TextAssumption DEF WireInv
<1> HIDE DEF n
<1>5. out \in Seq(Byte) /\ \A i \in 1 .. n + 4 : out[i] \in Byte /\ out[i] = packet[i - 1]
      BY <1>1, <1>3
<1>6. Answer \in Seq(Byte) /\ Len(Answer) = n /\ \A i \in 1..n : Answer[i] = packet[i]
  <2> DEFINE e == n + 1
  <2>1. /\ e \in Int /\ 2 \in Int /\ (IF 2 <= e THEN e - 2 + 1 ELSE 0) = n
        /\ \A i \in 2 .. e : i \in 1 .. n + 4
        /\ \A i \in 1..n : i \in 1 .. e - 2 + 1 /\ 2 + i - 1 = i + 1
                           /\ i + 1 \in 1 .. n + 4 /\ (i + 1) - 1 = i
        BY <1>1
  <2>2. Answer = SubSeq(out, 2, e)
    <3>1. Len(out) - 3 = e
          BY <1>1, <1>2
    <3> QED BY <3>1 DEF Answer
  <2> HIDE DEF e
  <2>3. /\ SubSeq(out, 2, e) \in Seq(Byte)
        /\ Len(SubSeq(out, 2, e)) = IF 2 <= e THEN e - 2 + 1 ELSE 0
        /\ \A i \in 1 .. e - 2 + 1 : SubSeq(out, 2, e)[i] = out[2 + i - 1]
    <3>1. \A i \in 2 .. e : out[i] \in Byte
          BY <1>5, <2>1
    <3> QED BY <2>1, <3>1, SubSeqProperties
  <2> QED BY <1>5, <2>1, <2>2, <2>3
<1>7. CASE n < MaxPacket
  <2>1. \A i \in 1..n : packet[i] = body[i]
        BY <1>1, <1>4, <1>7 DEF Shown, n
  <2>2. \A i \in 1..n : Answer[i] = body[i]
        BY <1>6, <2>1
  <2>3. \A i \in 1..n : body[i] \in Char
        BY <1>4, ElementOfSeq DEF n
  <2> QED BY <1>4, <1>6, <2>2, LenProperties, SeqEqual DEF n
<1>8. CASE n = MaxPacket
  <2> DEFINE check == Printed(<<Check(Answer)>>)
             begin == SubSeq(out, 1, n + 1)
             whole == begin \o <<35>> \o check
  <2>1. Check(Answer) \in Byte
    <3>1. Byte \subseteq Nat
          BY DEF Byte
    <3> QED BY <1>6, <3>1, CheckIsByte, SeqMonotonic
  <2>2. check \in Seq(Hex) /\ Len(check) = 2
        BY <2>1, ByteIsTwoDigits
  <2>3. out = whole
    <3>1. Len(out) - 3 = n + 1
          BY <1>1, <1>2
    <3> QED BY <3>1 DEF Checked
  <2> HIDE DEF check
  <2>4. check \in Seq(Byte) /\ check[1] \in Hex
    <3>1. Hex \subseteq Byte
          BY DEF Hex, Byte
    <3> QED BY <2>2, <3>1, SeqMonotonic, ElementOfSeq
  <2>5. begin \in Seq(Byte) /\ Len(begin) = n + 1
    <3> DEFINE e == n + 1
    <3>1. e \in Int /\ e >= 1 /\ (IF 1 <= e THEN e - 1 + 1 ELSE 0) = n + 1
          BY <1>1
    <3>2. \A i \in 1 .. e : out[i] \in Byte
          BY <1>1, <1>5
    <3> HIDE DEF e
    <3>3. SubSeq(out, 1, e) \in Seq(Byte) /\ Len(SubSeq(out, 1, e)) = IF 1 <= e THEN e - 1 + 1 ELSE 0
          BY <3>1, <3>2, SubSeqProperties
    <3> QED BY <3>1, <3>3 DEF e
  <2> HIDE DEF begin
  <2>6. whole[n + 2] = 35 /\ whole[n + 3] = check[1]
    <3>1. <<35>> \in Seq(Byte) /\ Len(<<35>>) = 1 /\ <<35>>[1] = 35
          BY DEF Byte
    <3> DEFINE b == begin \o <<35>>
    <3>2. /\ b \in Seq(Byte) /\ Len(b) = Len(begin) + Len(<<35>>)
          /\ \A i \in 1 .. Len(begin) + Len(<<35>>) :
               b[i] = IF i <= Len(begin) THEN begin[i] ELSE <<35>>[i - Len(begin)]
          BY <2>5, <3>1, ConcatProperties
    <3>3. Len(b) = n + 2 /\ b[n + 2] = 35
      <4>1. /\ Len(begin) + Len(<<35>>) = n + 2 /\ n + 2 \in 1 .. n + 2
            /\ ~(n + 2 <= Len(begin)) /\ n + 2 - Len(begin) = 1
            BY <1>1, <2>5, <3>1
      <4> HIDE DEF b
      <4> QED BY <3>1, <3>2, <4>1
    <3>4. whole = b \o check
          OBVIOUS
    <3> HIDE DEF b, whole
    <3>5. b \in Seq(Byte) /\ check \in Seq(Byte)
          BY <2>4, <3>2
    <3>6. \A i \in 1 .. Len(b) + Len(check) :
            (b \o check)[i] = IF i <= Len(b) THEN b[i] ELSE check[i - Len(b)]
          BY <3>5, ConcatProperties
    <3>7. \A i \in 1 .. n + 4 : whole[i] = IF i <= n + 2 THEN b[i] ELSE check[i - (n + 2)]
      <4>1. Len(b) + Len(check) = n + 4
            BY <1>1, <2>2, <3>3
      <4> QED BY <3>3, <3>4, <3>6, <4>1
    <3>8. /\ n + 2 \in 1 .. n + 4 /\ n + 2 <= n + 2
          /\ n + 3 \in 1 .. n + 4 /\ ~(n + 3 <= n + 2) /\ (n + 3) - (n + 2) = 1
          BY <1>1
    <3>9. whole[n + 2] = b[n + 2]
          BY <3>7, <3>8
    <3>10. whole[n + 3] = check[(n + 3) - (n + 2)]
          BY <3>7, <3>8
    <3> QED BY <3>3, <3>8, <3>9, <3>10
  <2> HIDE DEF whole
  <2>7. packet[MaxPacket + 1] = 35 /\ packet[MaxPacket + 2] = check[1]
    <3>1. /\ n + 2 \in 1 .. n + 4 /\ n + 3 \in 1 .. n + 4
          /\ (n + 2) - 1 = MaxPacket + 1 /\ (n + 3) - 1 = MaxPacket + 2
          BY <1>1, <1>8
    <3>2. ASSUME NEW i \in 1 .. n + 4 PROVE out[i] = packet[i - 1]
          BY <1>5
    <3>3. out[n + 2] = packet[(n + 2) - 1]
          BY <3>1, <3>2, Zenon
    <3>4. out[n + 3] = packet[(n + 3) - 1]
          BY <3>1, <3>2, Zenon
    <3> QED BY <2>3, <2>6, <3>1, <3>3, <3>4
  <2>8. packet[MaxPacket + 1] = IntByte(n + 4, 1) /\ packet[MaxPacket + 2] = IntByte(n + 4, 2)
        BY <1>4 DEF Shown, n
  <2>9. CASE HostIsBigEndian
    <3>1. IntByte(n + 4, 1) = 0
          BY <2>9 DEF IntByte, HostOrder
    <3> QED BY <2>7, <2>8, <3>1
  <2>10. CASE ~HostIsBigEndian
    <3>1. IntByte(n + 4, 2) = 0
          BY <2>10 DEF IntByte, HostOrder
    <3>2. 0 \notin Hex
          BY DEF Hex
    <3> QED BY <2>4, <2>7, <2>8, <3>1, <3>2
  <2> QED BY <2>9, <2>10
<1> QED BY <1>1, <1>4, <1>7, <1>8

(* gdb forgets the answer once it has taken it into account.                *)
LEMMA WireAccepted == WireInv /\ Accepted => WireInv'
<1> SUFFICES ASSUME WireInv, Accepted PROVE WireInv'
    OBVIOUS
<1>1. /\ request # None /\ Left = 0 /\ Checked
      /\ view' = Learnt(request, Answer)
      /\ saved' = IF request.cmd = "g" THEN Answer ELSE saved
      /\ request' = None /\ body' = <<>> /\ out' = <<>>
      /\ UNCHANGED <<core, packet, asked, corrupted>>
      BY DEF Accepted
<1>2. Answer = body
      BY <1>1, AcceptedIsWhole
<1>3. TextInv'
      BY <1>1, OtherSteps DEF WireInv
<1>4. IsView(view')
      BY <1>1, <1>2 DEF WireInv
<1>5. saved' # <<>> => \E q \in Core : saved' = GeneralText(q)
      BY <1>1, <1>2 DEF WireInv
<1> QED BY <1>1, <1>3, <1>4, <1>5 DEF WireInv

LEMMA WireUnchanged == WireInv /\ UNCHANGED vars => WireInv'
<1> SUFFICES ASSUME WireInv, UNCHANGED vars PROVE WireInv'
    OBVIOUS
<1>1. UNCHANGED <<core, packet, request, body, out, view, saved, asked, corrupted>>
      BY DEF vars
<1>2. TextInv'
      BY OtherSteps DEF WireInv
<1>3. Learnt(request, body)' = Learnt(request, body)
      BY <1>1 DEF Learnt
<1> QED BY <1>1, <1>2, <1>3 DEF WireInv

LEMMA WireInvariant == Spec => []WireInv
<1>1. WireInv /\ [Next]_vars => WireInv'
      BY WireHandler, WireWrite, WireSentAgain, WireAccepted, WireUnchanged DEF Next
<1> QED BY <1>1, WireInit, PTL DEF Spec

(* gdb_protocol.c: the handlers, gdb_send_buffer and rio_writen keep the    *)
(* target a core, every cell of the structure and every byte sent a byte,   *)
(* the text of the answer free of NUL; gdb learns of no register and of no  *)
(* address that the target does not have.                                   *)
THEOREM TextTypeCorrect == Spec => []TypeOK
<1>1. WireInv => TypeOK
  <2> SUFFICES ASSUME WireInv PROVE TypeOK
      OBVIOUS
  <2>1. out \in Seq(Byte)
    <3>1. CASE request = None
          BY <3>1 DEF WireInv
    <3>2. CASE request # None
      <4> DEFINE n == Len(out)
      <4>1. /\ n \in Nat /\ n <= Len(body) + 4 /\ out = [i \in 1 .. n |-> packet[i - 1]]
            /\ Len(body) \in Nat /\ \A i \in 1 .. Len(body) + 4 : packet[i - 1] \in Byte
            BY <3>2, CellsLeft DEF WireInv
      <4> HIDE DEF n
      <4>2. ASSUME NEW i \in 1 .. n PROVE packet[i - 1] \in Byte
        <5>1. i \in 1 .. Len(body) + 4
              BY <4>1
        <5> QED BY <4>1, <5>1, Zenon
      <4> QED BY <4>1, <4>2
    <3> QED BY <3>1, <3>2
  <2> QED BY <2>1 DEF WireInv, TextInv, IsView, TypeOK
<1> QED BY <1>1, WireInvariant, PTL

-----------------------------------------------------------------------------
(* What gdb knows, and what it will know once the answer is accepted, is    *)
(* what the target holds.                                                   *)
KnowInv == Agrees(IF request = None THEN view ELSE Learnt(request, body), core)

LEMMA KnowStep ==
  ASSUME Understood
  PROVE  WireInv /\ KnowInv /\ [Next]_vars => KnowInv'
<1> SUFFICES ASSUME WireInv, KnowInv, [Next]_vars PROVE KnowInv'
    OBVIOUS
<1>1. CASE handler
  <2>1. PICK r \in Asked :
          /\ r.cmd = "G" => saved # <<>>
          /\ request' = r /\ body' = Body(core, r) /\ core' = Effect(core, r)
        BY <1>1 DEF handler
  <2>2. request = None /\ view' = view
        BY <1>1 DEF handler
  <2>3. Agrees(view, core)
        BY <2>2 DEF KnowInv
  <2>4. r.cmd = "G" => \E q \in Core : saved = GeneralText(q)
        BY <2>1 DEF WireInv
  <2>5. core \in Core /\ IsView(view)
        BY DEF WireInv, TextInv
  <2>6. Agrees(Learnt(r, Body(core, r)), Effect(core, r))
        BY <2>1, <2>3, <2>4, <2>5, RequestAgrees DEF GivesBack
  <2>7. request' # None
    <3>1. r.cmd \in {"g", "m", "p", "X", "P", "G"}
          BY <2>1, Askable
    <3> QED BY <2>1, <3>1 DEF None
  <2>8. Learnt(request, body)' = Learnt(r, Body(core, r))
        BY <2>1, <2>2 DEF Learnt
  <2> QED BY <2>1, <2>6, <2>7, <2>8 DEF KnowInv
<1>2. CASE Accepted
  <2>1. /\ request # None /\ Left = 0 /\ Checked /\ view' = Learnt(request, Answer)
        /\ request' = None /\ core' = core
        BY <1>2 DEF Accepted
  <2>2. view' = Learnt(request, body)
        BY <2>1, AcceptedIsWhole
  <2> QED BY <2>1, <2>2 DEF KnowInv
<1>3. CASE rio_writen \/ gdb_transmit_packet \/ UNCHANGED vars
  <2>1. request' = request /\ body' = body /\ core' = core /\ view' = view
        BY <1>3 DEF rio_writen, gdb_transmit_packet, vars
  <2>2. Learnt(request, body)' = Learnt(request, body)
        BY <2>1 DEF Learnt
  <2> QED BY <2>1, <2>2 DEF KnowInv
<1> QED BY <1>1, <1>2, <1>3 DEF Next

(* gdb_protocol.c: after any sequence of g, G, m, p, P and X, answered in   *)
(* any number of writes and sent again any number of times, every register, *)
(* the CPSR included, and every byte that gdb has read or written is in the *)
(* target what gdb believes, except, until gdb reads them again, the CPSR   *)
(* after a P of the pc and the pc after a G that changes the pc or the      *)
(* CPSR; requests that do not mean the same to both are left out.           *)
THEOREM GdbKnowsTarget ==
  ASSUME Understood
  PROVE  Spec => []GdbKnows
<1>1. Init => KnowInv
      BY DEF Init, KnowInv, Agrees, Empty
<1>2. WireInv /\ KnowInv /\ [Next]_vars => KnowInv'
      BY KnowStep
<1>3. KnowInv => GdbKnows
      BY DEF KnowInv, GdbKnows, Believed, Agrees
<1> QED BY <1>1, <1>2, <1>3, WireInvariant, PTL DEF Spec
=============================================================================
