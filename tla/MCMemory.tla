------------------------------ MODULE MCMemory ------------------------------
(* A one-word memory, with overlapping accesses of the three widths at the  *)
(* even and odd addresses of the word, and an address that is refused.      *)
EXTENDS MemorySystem

MCAddr == {0, 1, 2, 8}

(* The array starts with one byte everywhere: what was never written is     *)
(* Unknown to the clients whatever its value.                               *)
MCInit == Init /\ \A c \in Cell : memo[c] = memo[0]
MCSpec == MCInit /\ [][Next]_vars

(* The word the guard lets through after the array, for memory_bounds.      *)
BoundsAddr == {0, 3, 4, 8}
=============================================================================
