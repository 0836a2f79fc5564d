---------------------------- MODULE MemorySystem ----------------------------
(***************************************************************************)
(* memory.c as a component: clients call the six access functions in any   *)
(* order.  The history variable view remembers what the calls made so far  *)
(* let a client expect; it is what ValueStore, the abstract memory, keeps. *)
(***************************************************************************)
EXTENDS Memory

CONSTANTS
  Addr,      (* the addresses clients use, some of them beyond the array   *)
  Data,      (* the bytes they store                                       *)
  Unknown    (* no expectation                                             *)

ASSUME ClientAssumption ==
  /\ Addr \subseteq Nat
  /\ Data \subseteq Byte /\ Data # {}
  /\ \A n \in Width : Unknown \notin [1..n -> Data]

VARIABLES memo, view, reply
vars == <<memo, view, reply>>

Abstract == INSTANCE ValueStore

Init ==
  /\ memo \in [Cell -> Data]          \* malloc leaves any content
  /\ Abstract!Init

(* The early return of each of the six functions.                           *)
refused(a, n) ==
  /\ ~Accepts(a, n)
  /\ reply' = [addr |-> a, width |-> n, rc |-> -1, value |-> Unknown]
  /\ UNCHANGED <<memo, view>>

memory_read(a, n) ==
  /\ Accepts(a, n)
  /\ reply' = [addr |-> a, width |-> n, rc |-> 0, value |-> Load(memo, a, n)]
  /\ UNCHANGED <<memo, view>>

memory_write(a, n) ==
  /\ Accepts(a, n)
  /\ \E v \in [1..n -> Data] :
       /\ memo' = Store(memo, a, n, v)
       /\ reply' = [addr |-> a, width |-> n, rc |-> 0, value |-> v]
       /\ view' = [s \in Addr \X Width |->
                     IF s = <<a, n>> THEN v
                     ELSE IF Abstract!Overlap(a, n, s[1], s[2]) THEN Unknown
                     ELSE view[s]]

Next ==
  \E a \in Addr, n \in Width :
    refused(a, n) \/ memory_read(a, n) \/ memory_write(a, n)

Spec == Init /\ [][Next]_vars
-----------------------------------------------------------------------------
Known == UNION {[1..n -> Data] : n \in Width}

(* The array keeps its cells and the last access has its shape.             *)
TypeOK ==
  /\ memo \in [Cell -> Data]
  /\ view \in [Addr \X Width -> Known \cup {Unknown}]
  /\ reply \in [addr : Nat, width : Width, rc : {0, -1},
                value : Known \cup {Unknown}]

(* Whatever the order, widths and overlaps of the calls before it, what was *)
(* written last and not overlapped since is what the access functions load: *)
(* memory.c lays out and reads back a value of any width the same way, in   *)
(* both byte orders.                                                        *)
KnownValues ==
  \A a \in Addr, n \in Width :
    view[<<a, n>>] # Unknown =>
      /\ Accepts(a, n)
      /\ view[<<a, n>>] = Load(memo, a, n)

(* Accesses of different widths agree on the byte order, as memory_test.c   *)
(* expects: byte i of a half or a word last written at a is what a one-byte *)
(* read returns at a+i-1 (big endian) or a+n-i (little endian).             *)
BytesInOrder ==
  \A a \in Addr, n \in Width :
    view[<<a, n>>] # Unknown =>
      \A i \in 1..n :
        view[<<a, n>>][i]
          = Load(memo, IF IsBigEndian THEN a + i - 1 ELSE a + n - i, 1)[1]

(* The byte array with its guards implements the abstract memory of         *)
(* memory.h.                                                                *)
ImplementsValueStore == Abstract!Spec

(* memory.h: an access either succeeds on the data of mem or fails with -1: *)
(* one that succeeds touches only the 4*size bytes memory_create allocated. *)
AccessInsideArray ==
  reply.rc = 0 => reply.addr + reply.width <= 4 * Size
=============================================================================
