----------------------------- MODULE ValueStore -----------------------------
(***************************************************************************)
(* What memory.h promises its clients, with no bytes in an array and no    *)
(* byte order: a read returns what was last written with the same width at *)
(* the same address, provided nothing overlapping was written since; a     *)
(* failed access (-1) changes nothing; an aligned access inside the Size   *)
(* words does not fail.  Nothing is promised of what was never written.    *)
(***************************************************************************)
EXTENDS Integers

CONSTANTS Size, Addr, Data, Unknown

VARIABLES
  view,    (* the value known to be at an address, for each width          *)
  reply    (* the last access: address, width, return code, value          *)

Width == {1, 2, 4}
Value(n) == [1..n -> Data]

Overlap(a, n, b, k) == a < b + k /\ b < a + n
MustSucceed(a, n) == a % n = 0 /\ a + n <= 4 * Size

Init ==
  /\ view = [s \in Addr \X Width |-> Unknown]
  /\ reply = [addr |-> 0, width |-> 1, rc |-> -1, value |-> Unknown]

Fail(a, n) ==
  /\ ~MustSucceed(a, n)
  /\ reply' = [addr |-> a, width |-> n, rc |-> -1, value |-> Unknown]
  /\ UNCHANGED view

Read(a, n) ==
  \E v \in Value(n) :
    /\ view[<<a, n>>] \in {v, Unknown}
    /\ reply' = [addr |-> a, width |-> n, rc |-> 0, value |-> v]
    /\ UNCHANGED view

Write(a, n) ==
  \E v \in Value(n) :
    /\ view' = [s \in Addr \X Width |->
                  IF s = <<a, n>> THEN v
                  ELSE IF Overlap(a, n, s[1], s[2]) THEN Unknown
                  ELSE view[s]]
    /\ reply' = [addr |-> a, width |-> n, rc |-> 0, value |-> v]

Next == \E a \in Addr, n \in Width : Fail(a, n) \/ Read(a, n) \/ Write(a, n)

Spec == Init /\ [][Next]_<<view, reply>>
=============================================================================
