---------------------------- MODULE MemoryProofs ----------------------------
(***************************************************************************)
(* What holds of memory.c for every size, both byte orders and every set   *)
(* of addresses and bytes the clients use.                                 *)
(***************************************************************************)
EXTENDS MemorySystem, TLAPS

(* Lane is its own inverse on the bytes of a value: reading undoes the      *)
(* layout of writing.                                                       *)
LEMMA LaneInvolution ==
  ASSUME NEW n \in Width, NEW k \in 1..n
  PROVE  Lane(n, k) \in 1..n /\ Lane(n, Lane(n, k)) = k
BY MemoryAssumption DEF Width, Lane

(* An accepted access touches cells of the model only.                      *)
LEMMA AcceptedCells ==
  ASSUME NEW a \in Nat, NEW n \in Width, Accepts(a, n), NEW i \in 0..n-1
  PROVE  a + i \in Cell
BY MemoryAssumption DEF Accepts, Cell, Width

(* A load returns a value of its width.                                     *)
LEMMA LoadType ==
  ASSUME NEW m \in [Cell -> Data], NEW a \in Nat, NEW n \in Width, Accepts(a, n)
  PROVE  Load(m, a, n) \in [1..n -> Data]
<1> SUFFICES ASSUME NEW k \in 1..n
             PROVE  m[a + Lane(n, k) - 1] \in Data
  BY DEF Load
<1>1. Lane(n, k) \in 1..n
  BY LaneInvolution
<1>2. Lane(n, k) - 1 \in 0..n-1
  BY <1>1 DEF Width
<1>3. a + (Lane(n, k) - 1) \in Cell
  BY <1>2, AcceptedCells
<1>4. a + (Lane(n, k) - 1) = a + Lane(n, k) - 1
  BY <1>1 DEF Width
<1> QED
  BY <1>3, <1>4

(* A store keeps the cells of the array.                                    *)
LEMMA StoreType ==
  ASSUME NEW m \in [Cell -> Data], NEW a \in Nat, NEW n \in Width,
         NEW v \in [1..n -> Data]
  PROVE  Store(m, a, n, v) \in [Cell -> Data]
<1> SUFFICES ASSUME NEW c \in Cell, c \in a .. a + n - 1
             PROVE  v[Lane(n, c - a + 1)] \in Data
  BY DEF Store
<1>1. c - a + 1 \in 1..n
  BY MemoryAssumption DEF Width, Cell
<1> QED
  BY <1>1, LaneInvolution

(* What a store wrote, a load of the same width at the same address reads.  *)
LEMMA LoadAfterStore ==
  ASSUME NEW m \in [Cell -> Data], NEW a \in Nat, NEW n \in Width, Accepts(a, n),
         NEW v \in [1..n -> Data]
  PROVE  Load(Store(m, a, n, v), a, n) = v
<1>1. ASSUME NEW k \in 1..n
      PROVE  Store(m, a, n, v)[a + Lane(n, k) - 1] = v[k]
  <2> DEFINE c == a + Lane(n, k) - 1
  <2>1. Lane(n, k) \in 1..n /\ Lane(n, Lane(n, k)) = k
    BY LaneInvolution
  <2>2. c \in a .. a + n - 1 /\ c - a + 1 = Lane(n, k) /\ c = a + (Lane(n, k) - 1)
    BY <2>1 DEF Width
  <2>3. c \in Cell
    BY <2>1, <2>2, AcceptedCells DEF Width
  <2> QED
    BY <2>1, <2>2, <2>3 DEF Store
<1> QED
  BY <1>1 DEF Load

(* A store leaves alone every value that shares no byte with it.            *)
LEMMA LoadBesideStore ==
  ASSUME NEW m \in [Cell -> Data],
         NEW a \in Nat, NEW n \in Width, NEW v \in [1..n -> Data],
         NEW b \in Nat, NEW j \in Width, Accepts(b, j),
         ~Abstract!Overlap(a, n, b, j)
  PROVE  Load(Store(m, a, n, v), b, j) = Load(m, b, j)
<1>1. ASSUME NEW k \in 1..j
      PROVE  Store(m, a, n, v)[b + Lane(j, k) - 1] = m[b + Lane(j, k) - 1]
  <2> DEFINE c == b + Lane(j, k) - 1
  <2>1. Lane(j, k) \in 1..j
    BY LaneInvolution
  <2>2. c \notin a .. a + n - 1 /\ c = b + (Lane(j, k) - 1)
    BY <2>1 DEF Width, Abstract!Overlap
  <2>3. c \in Cell
    BY <2>1, <2>2, AcceptedCells DEF Width
  <2> QED
    BY <2>2, <2>3 DEF Store
<1> QED
  BY <1>1 DEF Load
-----------------------------------------------------------------------------
(* The array keeps its cells and the last access has its shape.             *)
THEOREM MemoryTypeCorrect == Spec => []TypeOK
<1> USE ClientAssumption DEF Known
<1>1. Init => TypeOK
  <2>1. 1 \in Width /\ 0 \in Nat
    BY DEF Width
  <2> QED
    BY <2>1 DEF Init, TypeOK, Abstract!Init, Abstract!Width, Width
<1>2. TypeOK /\ [Next]_vars => TypeOK'
  <2> SUFFICES ASSUME TypeOK, [Next]_vars
               PROVE  TypeOK'
    OBVIOUS
  <2>1. ASSUME NEW a \in Addr, NEW n \in Width, refused(a, n)
        PROVE  TypeOK'
    BY <2>1 DEF TypeOK, refused
  <2>2. ASSUME NEW a \in Addr, NEW n \in Width, memory_read(a, n)
        PROVE  TypeOK'
    <3>1. Load(memo, a, n) \in [1..n -> Data]
      BY <2>2, LoadType DEF TypeOK, memory_read
    <3> QED
      BY <3>1, <2>2 DEF TypeOK, memory_read
  <2>3. ASSUME NEW a \in Addr, NEW n \in Width, memory_write(a, n)
        PROVE  TypeOK'
    <3>1. PICK v \in [1..n -> Data] :
            /\ memo' = Store(memo, a, n, v)
            /\ reply' = [addr |-> a, width |-> n, rc |-> 0, value |-> v]
            /\ view' = [s \in Addr \X Width |->
                          IF s = <<a, n>> THEN v
                          ELSE IF Abstract!Overlap(a, n, s[1], s[2]) THEN Unknown
                          ELSE view[s]]
      BY <2>3 DEF memory_write
    <3>2. memo' \in [Cell -> Data]
      BY <3>1, StoreType DEF TypeOK
    <3>3. view' \in [Addr \X Width -> Known \cup {Unknown}]
      BY <3>1 DEF TypeOK
    <3> QED
      BY <3>1, <3>2, <3>3 DEF TypeOK
  <2>4. CASE UNCHANGED vars
    BY <2>4 DEF TypeOK, vars
  <2> QED
    BY <2>1, <2>2, <2>3, <2>4 DEF Next
<1> QED
  BY <1>1, <1>2, PTL DEF Spec

(* A step keeps what clients know readable.                                 *)
LEMMA KnownValuesStep ==
  TypeOK /\ KnownValues /\ [Next]_vars => KnownValues'
<1> USE ClientAssumption
<1> SUFFICES ASSUME TypeOK, KnownValues, [Next]_vars
             PROVE  KnownValues'
  OBVIOUS
<1>1. ASSUME NEW a \in Addr, NEW n \in Width, memory_write(a, n)
      PROVE  KnownValues'
  <2>1. PICK v \in [1..n -> Data] :
          /\ memo' = Store(memo, a, n, v)
          /\ view' = [s \in Addr \X Width |->
                        IF s = <<a, n>> THEN v
                        ELSE IF Abstract!Overlap(a, n, s[1], s[2]) THEN Unknown
                        ELSE view[s]]
    BY <1>1 DEF memory_write
  <2> SUFFICES ASSUME NEW b \in Addr, NEW j \in Width, view'[<<b, j>>] # Unknown
               PROVE  Accepts(b, j) /\ view'[<<b, j>>] = Load(memo', b, j)
    BY DEF KnownValues
  <2>2. CASE <<b, j>> = <<a, n>>
    <3>1. Accepts(a, n) /\ view'[<<b, j>>] = v
      BY <1>1, <2>1, <2>2 DEF memory_write
    <3> QED
      BY <3>1, <2>1, <2>2, LoadAfterStore DEF TypeOK
  <2>3. CASE <<b, j>> # <<a, n>>
    <3>1. ~Abstract!Overlap(a, n, b, j) /\ view'[<<b, j>>] = view[<<b, j>>]
      BY <2>1, <2>3
    <3>2. Accepts(b, j) /\ view[<<b, j>>] = Load(memo, b, j)
      BY <3>1 DEF KnownValues
    <3>3. a \in Nat /\ b \in Nat /\ memo \in [Cell -> Data]
      BY DEF TypeOK
    <3>4. Load(Store(memo, a, n, v), b, j) = Load(memo, b, j)
      BY <3>1, <3>2, <3>3, LoadBesideStore, SMTT(30)
    <3> QED
      BY <3>1, <3>2, <3>4, <2>1
  <2> QED
    BY <2>2, <2>3
<1>2. CASE UNCHANGED <<memo, view>>
  BY <1>2 DEF KnownValues
<1> QED
  BY <1>1, <1>2 DEF Next, refused, memory_read, vars

(* What was written last at an address, and not overlapped since, is what   *)
(* memory.c reads there.                                                    *)
THEOREM MemoryKeepsValues == Spec => []KnownValues
<1>1. Init => KnownValues
  BY DEF Init, KnownValues, Abstract!Init, Abstract!Width, Width
<1> QED
  BY <1>1, KnownValuesStep, MemoryTypeCorrect, PTL DEF Spec

(* The bytes of a half or a word are where the byte order of the memory     *)
(* says, for the one-byte accesses of the same memory.                      *)
THEOREM MemoryBytesInOrder == Spec => []BytesInOrder
<1>1. KnownValues => BytesInOrder
  <2> SUFFICES ASSUME NEW a \in Addr, NEW n \in Width, NEW i \in 1..n,
                      view[<<a, n>>] = Load(memo, a, n)
               PROVE  view[<<a, n>>][i]
                        = Load(memo, IF IsBigEndian THEN a + i - 1 ELSE a + n - i, 1)[1]
    BY DEF KnownValues, BytesInOrder
  <2>1. view[<<a, n>>][i] = memo[a + Lane(n, i) - 1]
    BY DEF Load
  <2>2. \A b \in Nat : Load(memo, b, 1)[1] = memo[b]
    BY DEF Load, Lane
  <2>3. a + Lane(n, i) - 1 = IF IsBigEndian THEN a + i - 1 ELSE a + n - i
    BY ClientAssumption DEF Lane, Width
  <2>4. a + Lane(n, i) - 1 \in Nat
    BY <2>3, ClientAssumption DEF Width
  <2> QED
    BY <2>1, <2>2, <2>3, <2>4
<1> QED
  BY <1>1, MemoryKeepsValues, PTL
-----------------------------------------------------------------------------
(* An aligned access inside the array is accepted.                          *)
LEMMA AlignedAccepted ==
  ASSUME NEW a \in Nat, NEW n \in Width, Abstract!MustSucceed(a, n)
  PROVE  Accepts(a, n)
BY MemoryAssumption DEF Abstract!MustSucceed, Accepts, Width

(* The byte array of memory.c implements the abstract memory of memory.h.   *)
THEOREM MemoryImplementsValueStore == Spec => ImplementsValueStore
<1> USE ClientAssumption
<1>1. Init => Abstract!Init
  BY DEF Init
<1>2. TypeOK /\ KnownValues /\ [Next]_vars => [Abstract!Next]_<<view, reply>>
  <2> SUFFICES ASSUME TypeOK, KnownValues, [Next]_vars
               PROVE  Abstract!Next \/ UNCHANGED <<view, reply>>
    OBVIOUS
  <2>1. ASSUME NEW a \in Addr, NEW n \in Width, refused(a, n)
        PROVE  Abstract!Fail(a, n)
    BY <2>1, AlignedAccepted DEF refused, Abstract!Fail
  <2>2. ASSUME NEW a \in Addr, NEW n \in Width, memory_read(a, n)
        PROVE  Abstract!Read(a, n)
    <3>1. Load(memo, a, n) \in [1..n -> Data]
      BY <2>2, LoadType DEF TypeOK, memory_read
    <3>2. view[<<a, n>>] \in {Load(memo, a, n), Unknown}
      BY DEF KnownValues
    <3> QED
      BY <3>1, <3>2, <2>2 DEF memory_read, Abstract!Read, Abstract!Value
  <2>3. ASSUME NEW a \in Addr, NEW n \in Width, memory_write(a, n)
        PROVE  Abstract!Write(a, n)
    BY <2>3 DEF memory_write, Abstract!Write, Abstract!Value, Abstract!Width, Width
  <2>4. CASE UNCHANGED vars
    BY <2>4 DEF vars
  <2> QED
    BY <2>1, <2>2, <2>3, <2>4 DEF Next, Abstract!Next, Abstract!Width, Width
<1> QED
  BY <1>1, <1>2, MemoryTypeCorrect, MemoryKeepsValues, PTL
  DEF Spec, ImplementsValueStore, Abstract!Spec
=============================================================================
