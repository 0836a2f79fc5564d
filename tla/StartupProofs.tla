--------------------------- MODULE StartupProofs ---------------------------
(***************************************************************************)
(* Proofs about Startup, for tables of any size, any names and any number  *)
(* of options: the state keeps its shape, and the table of debug.c selects *)
(* the files it was given, up to what is said of a table that is overrun.  *)
(***************************************************************************)
EXTENDS Startup, TLAPS

USE DebugAssumption

(* What a step of the program may do to the table.                          *)
DebugNext ==
  \/ \E n \in Names : add_debug_to(n) \/ is_debugged(n)
  \/ InCall \/ clear_handlers

LEMMA StartupCallsDebug == [Next]_vars => [DebugNext]_debugVars
<1> SUFFICES ASSUME [Next]_vars PROVE [DebugNext]_debugVars
    OBVIOUS
<1>1. CASE Options
      BY <1>1 DEF Options, option_port, option_trace_file, trace_add, usage, Other,
                  option_debug, DebugNext
<1>2. CASE Called
      BY <1>2 DEF Called, Fails, DebugNext
<1>3. CASE Main
      BY <1>3 DEF Main, gdb_init, gdb_init_handlers, set_trace_file, arm_create, DebugNext
<1>4. ASSUME NEW t \in Threads, Thread(t) PROVE UNCHANGED debugVars
      BY <1>4 DEF Thread, Bind, BindFails, Listen, ListenFails, Fails
<1>5. CASE Peers
      BY <1>5 DEF Peers, debug, Accept, DebugNext
<1>6. CASE UNCHANGED vars
      BY <1>6 DEF vars
<1> QED BY <1>1, <1>2, <1>3, <1>4, <1>5, <1>6 DEF Next
-----------------------------------------------------------------------------
(* nb counts the names given, but those a full table dropped, until one of  *)
(* them is written over it.                                                 *)
Counts == nb \in 0..adds /\ (nb < MaxFiles => nb = adds)
Count ==
  /\ adds \in 0..MaxAdds
  /\ \/ Counts
     \/ nb \in Negative .. Negative + adds /\ adds > MaxFiles
     \/ nb = Beyond /\ adds > MaxFiles

(* The interval of the search stays within one step of the entries, and so  *)
(* does the place where a name is to be inserted.                           *)
Within ==
  /\ Count
  /\ \A k \in Cells : k < nb /\ k < MaxFiles => files[k] \in Names
  /\ call = "add" => adds < MaxAdds /\ (i <= nb \/ i = 0)
  /\ call = "search" => to <= nb - 1 /\ (nb >= 0 => from <= to + 1)
  /\ call \in {"add", "search"} => name \in Names
Typed == DebugTypeOK /\ Within

LEMMA Constants ==
  /\ MaxFiles \in Nat \ {0} /\ MaxAdds \in Nat
  /\ Negative \in Int /\ Negative < 0 /\ Beyond \in Nat /\ Beyond > MaxFiles + MaxAdds
  /\ Cells \subseteq Nat
BY DEF Negative, Beyond, Cells

LEMMA CellsAreNumbers == ASSUME Typed PROVE \A k \in Cells : files[k] \in Nat /\ k \in Nat
<1>1. \A k \in Cells : files[k] \in Names \cup {0}
      BY DEF Typed, DebugTypeOK
<1>2. Names \cup {0} \subseteq Nat
      OBVIOUS
<1> QED BY <1>1, <1>2, Constants

LEMMA TypedInit == DebugInit => Typed
<1> SUFFICES ASSUME DebugInit PROVE Typed
    OBVIOUS
<1> USE Constants DEF DebugInit
<1>1. files \in [Cells -> Names \cup {0}] /\ wanted \subseteq Names
      OBVIOUS
<1>2. /\ nb \in Negative .. Beyond /\ i \in 0..MaxFiles /\ from \in 0..Beyond
      /\ to \in Negative - 1 .. Beyond /\ adds \in 0..MaxAdds
      OBVIOUS
<1>3. Count
      BY DEF Count, Counts
<1>4. Within
      BY <1>3 DEF Within
<1> QED BY <1>1, <1>2, <1>4 DEF Typed, DebugTypeOK

LEMMA MiddleInside ==
  ASSUME Typed, call = "search", from < to
  PROVE  middle \in Nat /\ from <= middle /\ middle < to /\ middle < nb
<1>1. from \in Nat /\ to \in Int /\ nb \in Int /\ to <= nb - 1
      BY Constants DEF Typed, Within, DebugTypeOK
<1> QED BY <1>1 DEF middle

(* A shift moves each entry at most one cell further.                       *)
LEMMA ShiftTyped ==
  ASSUME Typed, Placed, i < MaxFiles, Shifted
  PROVE  /\ files' \in [Cells -> Names \cup {0}]
         /\ \A k \in Cells : k < nb + 1 /\ k < MaxFiles => files'[k] \in Names
<1>1. nb \in Int /\ i \in Nat /\ name \in Names /\ (i <= nb \/ i = 0) /\ i \in Cells
      BY Constants DEF Typed, Within, DebugTypeOK, Placed, Cells
<1>2. \A k \in Cells : files'[k] = IF k = i THEN name
                          ELSE IF i < k /\ k <= nb THEN files[k - 1] ELSE files[k]
      BY DEF Shifted
<1>3. \A k \in Cells : i < k => k - 1 \in Cells
      BY <1>1 DEF Cells
<1>4. \A k \in Cells : files[k] \in Names \cup {0}
      BY DEF Typed, DebugTypeOK
<1>5. \A k \in Cells : files'[k] \in Names \cup {0}
      BY <1>1, <1>2, <1>3, <1>4
<1>6. files' \in [Cells -> Names \cup {0}]
      BY <1>5 DEF Shifted
<1>7. ASSUME NEW k \in Cells, k < nb + 1, k < MaxFiles PROVE files'[k] \in Names
  <2>1. \A j \in Cells : j < nb /\ j < MaxFiles => files[j] \in Names
        BY DEF Typed, Within
  <2>2. CASE k = i
        BY <1>1, <1>2, <2>2
  <2>3. CASE k < i
        BY <1>1, <1>2, <1>7, <2>1, <2>3, Constants
  <2>4. CASE k > i
    <3>1. k - 1 \in Cells /\ k - 1 < nb /\ k - 1 < MaxFiles /\ files'[k] = files[k - 1]
          BY <1>1, <1>2, <1>3, <1>7, <2>4, Constants
    <3> QED BY <2>1, <3>1
  <2> QED BY <1>1, <2>2, <2>3, <2>4, Constants
<1> QED BY <1>6, <1>7

LEMMA TypedAdd == Typed /\ (insert \/ overrun) => Typed'
<1> SUFFICES ASSUME Typed, insert \/ overrun PROVE Typed'
    OBVIOUS
<1>1. /\ call = "add" /\ Placed /\ i < MaxFiles /\ Shifted /\ call' = "none"
      /\ adds' = adds + 1 /\ wanted' = wanted \cup {name} /\ adds < MaxAdds /\ name \in Names
      BY DEF insert, overrun, Placed, Typed, Within
<1>2. UNCHANGED <<after, name, i, from, to, answer>>
      BY DEF insert, overrun
<1>3. nb \in Int /\ adds \in Nat /\ MaxAdds \in Nat
      BY Constants DEF Typed, DebugTypeOK
<1>4. adds' \in 0..MaxAdds
      BY <1>1, <1>3
<1>5. Count' /\ nb' \in Negative .. Beyond /\ nb' <= IF nb' = Beyond THEN nb' ELSE nb + 1
  <2> USE Constants, <1>1, <1>3, <1>4
  <2>1. CASE insert
    <3>1. nb' = nb + 1 /\ nb < MaxFiles
          BY <2>1 DEF insert
    <3>2. CASE Counts
          BY <3>1, <3>2 DEF Count, Counts
    <3>3. CASE nb \in Negative .. Negative + adds /\ adds > MaxFiles
          BY <3>1, <3>3 DEF Count, Negative
    <3>4. nb # Beyond
          BY <3>1
    <3> QED BY <3>2, <3>3, <3>4 DEF Typed, Within, Count
  <2>2. CASE overrun
    <3>1. nb >= MaxFiles /\ nb \in Cells
          BY <2>2 DEF overrun
    <3>2. nb \in 0..adds
          BY <3>1 DEF Typed, Within, Count, Counts, Negative, Beyond, Cells
    <3>3. CASE nb' = nb + 1
          BY <3>1, <3>2, <3>3 DEF Count, Counts
    <3>4. CASE nb' \in {Negative, Beyond}
          BY <3>1, <3>2, <3>4 DEF Count, Negative
    <3> QED BY <2>2, <3>3, <3>4 DEF overrun
  <2> QED BY <2>1, <2>2
<1>6. \A k \in Cells : k < nb' /\ k < MaxFiles => files'[k] \in Names
  <2> SUFFICES ASSUME NEW k \in Cells, k < nb', k < MaxFiles PROVE files'[k] \in Names
      OBVIOUS
  <2>1. nb' = Beyond => nb >= MaxFiles
        BY <1>3, Constants DEF insert, overrun
  <2>2. k < nb + 1
        BY <1>3, <1>5, <2>1, Constants
  <2> QED BY <1>1, <2>2, ShiftTyped
<1>7. files' \in [Cells -> Names \cup {0}]
      BY <1>1, ShiftTyped
<1>8. Within'
      BY <1>1, <1>5, <1>6 DEF Within
<1> QED BY <1>1, <1>2, <1>4, <1>5, <1>7, <1>8 DEF Typed, DebugTypeOK

LEMMA TypedStep == Typed /\ [DebugNext]_debugVars => Typed'
<1> SUFFICES ASSUME Typed, [DebugNext]_debugVars PROVE Typed'
    OBVIOUS
<1> USE Constants DEF Typed, Within, DebugTypeOK, table, history
<1>1. ASSUME NEW n \in Names, add_debug_to(n) \/ is_debugged(n) PROVE Typed'
  <2>1. /\ nb - 1 \in Negative - 1 .. Beyond
        /\ 0 \in 0..MaxFiles /\ 0 \in 0..Beyond
        OBVIOUS
  <2>2. CASE add_debug_to(n)
        BY <2>1, <2>2 DEF add_debug_to, Count, Counts
  <2>3. CASE is_debugged(n)
        BY <2>1, <2>3 DEF is_debugged, Count, Counts
  <2> QED BY <1>1, <2>2, <2>3
<1>2. CASE scan
      BY <1>2 DEF scan, Before, Count, Counts
<1>3. CASE dropped
  <2>1. /\ call = "add" /\ call' = "none" /\ adds' = adds + 1 /\ i = MaxFiles
        /\ wanted' = wanted \cup {name} /\ UNCHANGED <<table, name, i, from, to, answer>>
        BY <1>3 DEF dropped, Placed
  <2>2. MaxFiles <= nb
        BY <2>1
  <2>3. adds' \in 0..MaxAdds /\ Count'
        BY <2>1, <2>2 DEF Count, Counts, Negative
  <2> QED BY <2>1, <2>3
<1>4. CASE insert \/ overrun
      BY <1>4, TypedAdd
<1>5. CASE clear_handlers
  <2>1. /\ files' \in [Cells -> Names \cup {0}]
        /\ \A k \in Cells : k < nb /\ k < MaxFiles => files'[k] \in Names
        BY <1>5 DEF clear_handlers
  <2> QED BY <1>5, <2>1 DEF clear_handlers, Count, Counts
<1>6. CASE halve
  <2>1. middle \in Nat /\ from <= middle /\ middle < to /\ middle < nb
        BY <1>6, MiddleInside DEF halve
  <2>2. call' \in {"search", "none"} /\ answer' \in BOOLEAN
        BY <1>6 DEF halve, Returns
  <2>3. /\ from' \in 0..Beyond /\ to' \in Negative - 1 .. Beyond
        /\ to' <= nb - 1 /\ from' <= to' + 1
        BY <1>6, <2>1 DEF halve, Returns
  <2>4. UNCHANGED <<table, name, i, history>>
        BY <1>6 DEF halve
  <2> QED BY <1>6, <2>2, <2>3, <2>4 DEF halve, Count, Counts
<1>7. CASE found
      BY <1>7 DEF found, Returns, Count, Counts
<1>8. CASE UNCHANGED debugVars
      BY <1>8 DEF debugVars, Count, Counts
<1> QED BY <1>1, <1>2, <1>3, <1>4, <1>5, <1>6, <1>7, <1>8 DEF DebugNext, InCall

LEMMA TypedInvariant == Spec => []Typed
<1>1. Init => Typed
      BY TypedInit DEF Init
<1> QED BY <1>1, TypedStep, StartupCallsDebug, PTL DEF Spec
-----------------------------------------------------------------------------
(* As long as nb counts them, the entries are sorted, those that are NULL   *)
(* come last, and every name given is one, but for those that sort after    *)
(* the table.  The place of a name is after the entries that sort before    *)
(* it; an entry that is looked for is between from and to.                  *)
Counting == 0 <= nb /\ nb # Beyond
Sorted ==
  Counting => \A j, k \in Cells :
    j <= k /\ k < nb /\ files[k] # 0 => files[j] # 0 /\ files[j] <= files[k]
Holds(n) == \E k \in Cells : k < nb /\ files[k] = n
Lost(n) == adds > MaxFiles /\ nb >= MaxFiles /\ files[MaxFiles - 1] < n
Entries == \A k \in Cells : files[k] \in wanted \cup {0}
Contents == Counting => \A n \in wanted : Holds(n) \/ Lost(n)
Place == call = "add" /\ Counting => \A k \in Cells : k < i => files[k] < name
Interval ==
  /\ call = "search" /\ Counting =>
       \A k \in Cells : k < nb /\ files[k] = name => from <= k /\ k <= to
  /\ call = "search" /\ nb = Beyond => from = 0 /\ to = Beyond - 1
TableInv == Sorted /\ Entries /\ Contents /\ Place /\ Interval

LEMMA CountingRange ==
  ASSUME Typed, Counting
  PROVE  nb \in 0..adds /\ adds \in 0..MaxAdds /\ (nb < MaxFiles => nb = adds)
BY Constants DEF Typed, Within, Count, Counts, Counting, Negative

LEMMA TableInit == DebugInit => TableInv
<1> SUFFICES ASSUME DebugInit PROVE TableInv
    OBVIOUS
<1>1. \A k \in Cells : ~(k < nb) /\ files[k] = 0
      BY Constants DEF DebugInit, Cells
<1>2. wanted = {} /\ call = "none"
      BY DEF DebugInit
<1> QED BY <1>1, <1>2 DEF TableInv, Sorted, Entries, Contents, Place, Interval

(* A name put after the entries before it and before the others, in a table *)
(* that nb counts before and after.                                         *)
LEMMA ShiftSorts ==
  ASSUME Typed, TableInv, Placed, i < MaxFiles, Shifted, nb' = nb + 1, Counting
  PROVE  Sorted' /\ \A n \in wanted' : (Holds(n) \/ Lost(n))'
<1>1. /\ nb \in Nat /\ i \in 0..nb /\ name \in Nat \ {0} /\ nb + 1 <= MaxAdds
      /\ wanted' = wanted \cup {name} /\ adds' = adds + 1 /\ adds \in Nat /\ nb <= adds
  <2>1. nb \in 0..adds /\ adds \in 0..MaxAdds
        BY CountingRange
  <2>2. call = "add" /\ wanted' = wanted \cup {name} /\ adds' = adds + 1
        BY DEF Placed
  <2>3. adds < MaxAdds /\ name \in Names /\ (i <= nb \/ i = 0) /\ i \in Nat
        BY <2>2 DEF Typed, Within, DebugTypeOK
  <2> QED BY <2>1, <2>2, <2>3, Constants
<1>c. \A k : k \in Cells <=> k \in Nat /\ k < MaxFiles + MaxAdds
      BY Constants DEF Cells
<1>2. \A k \in Cells : files[k] \in Nat
      BY CellsAreNumbers
<1>3. \A k \in Cells : files'[k] = IF k = i THEN name
                          ELSE IF i < k /\ k <= nb THEN files[k - 1] ELSE files[k]
      BY DEF Shifted
<1>4. \A k \in Cells : k < i => files[k] < name
      BY DEF TableInv, Place, Placed
<1>s. \A j, k \in Cells :
        j <= k /\ k < nb /\ files[k] # 0 => files[j] # 0 /\ files[j] <= files[k]
      BY DEF TableInv, Sorted
<1>5. \A k \in Cells : i <= k /\ k < nb /\ files[k] # 0 => name <= files[k]
  <2>1. i < nb => files[i] \in Nat /\ name <= files[i]
    <3>1. i \in Cells
          BY <1>1, <1>c, Constants
    <3> QED BY <1>1, <1>2, <3>1, Constants DEF Placed, Before
  <2>2. ASSUME NEW k \in Cells, i <= k, k < nb, files[k] # 0 PROVE name <= files[k]
    <3>1. i \in Cells /\ i < nb
          BY <1>1, <1>c, <2>2, Constants
    <3>2. files[i] <= files[k]
          BY <1>s, <2>2, <3>1
    <3> QED BY <1>1, <1>2, <2>1, <3>1, <3>2
  <2> QED BY <2>2
<1>6. \A j, k \in Cells :
        j <= k /\ k < nb' /\ files'[k] # 0 => files'[j] # 0 /\ files'[j] <= files'[k]
  <2> SUFFICES ASSUME NEW j \in Cells, NEW k \in Cells, j <= k, k < nb', files'[k] # 0
               PROVE  files'[j] # 0 /\ files'[j] <= files'[k]
      OBVIOUS
  <2>n. j \in Nat /\ k \in Nat /\ k <= nb
        BY <1>1, <1>c
  <2>1. CASE k < i
    <3>1. files'[k] = files[k] /\ files'[j] = files[j] /\ k < nb
          BY <1>1, <1>3, <2>1, <2>n
    <3> QED BY <1>s, <3>1
  <2>2. CASE k = i
    <3>1. CASE j = i
          BY <1>1, <1>3, <2>2, <3>1
    <3>2. CASE j < i
      <4>1. files'[k] = name /\ files'[j] = files[j] /\ files[j] < name /\ files[j] \in Nat
            BY <1>1, <1>2, <1>3, <1>4, <2>2, <2>n, <3>2
      <4>2. files[j] # 0
        <5>1. j < nb /\ j < MaxFiles
              BY <1>1, <2>n, <3>2, Constants
        <5>2. files[j] \in Names
              BY <5>1 DEF Typed, Within
        <5> QED BY <5>2
      <4> QED BY <1>1, <4>1, <4>2
    <3> QED BY <1>1, <2>2, <2>n, <3>1, <3>2
  <2>3. CASE k > i
    <3>1. k - 1 \in Cells /\ i <= k - 1 /\ k - 1 < nb /\ files'[k] = files[k - 1]
          BY <1>1, <1>3, <1>c, <2>3, <2>n
    <3>2. CASE j < i
      <4>1. files'[j] = files[j] /\ j <= k - 1
            BY <1>1, <1>3, <2>n, <3>1, <3>2
      <4> QED BY <1>s, <3>1, <4>1
    <3>3. CASE j = i
          BY <1>1, <1>3, <1>5, <3>1, <3>3
    <3>4. CASE j > i
      <4>1. j - 1 \in Cells /\ j - 1 <= k - 1 /\ files'[j] = files[j - 1]
            BY <1>1, <1>3, <1>c, <2>n, <3>4
      <4> QED BY <1>s, <3>1, <4>1
    <3> QED BY <1>1, <2>n, <3>2, <3>3, <3>4
  <2> QED BY <1>1, <2>n, <2>1, <2>2, <2>3
<1>7. Sorted'
      BY <1>6 DEF Sorted
<1>8. ASSUME NEW n \in wanted' PROVE (\E k \in Cells : k < nb' /\ files'[k] = n) \/ Lost(n)'
  <2>1. CASE n = name
    <3>1. i \in Cells /\ i < nb' /\ files'[i] = name
          BY <1>1, <1>3, <1>c, Constants
    <3> QED BY <2>1, <3>1
  <2>2. CASE n # name /\ Holds(n)
    <3>1. PICK k \in Cells : k < nb /\ files[k] = n
          BY <2>2 DEF Holds
    <3>2. CASE k < i
      <4>1. files'[k] = n /\ k < nb'
            BY <1>1, <1>3, <1>c, <3>1, <3>2
      <4> QED BY <4>1
    <3>3. CASE k >= i
      <4>1. k + 1 \in Cells /\ k + 1 < nb' /\ files'[k + 1] = files[k]
            BY <1>1, <1>3, <1>c, <3>1, <3>3, Constants
      <4> QED BY <3>1, <4>1
    <3> QED BY <1>1, <1>c, <3>2, <3>3
  <2>3. CASE n # name /\ Lost(n)
    <3> DEFINE m == MaxFiles - 1
    <3>1. m \in Cells /\ m < nb /\ i <= m /\ files[m] < n /\ adds > MaxFiles
          BY <1>1, <1>c, <2>3, Constants DEF Lost
    <3>2. files[m] # 0
          BY <3>1, Constants DEF Typed, Within
    <3>3. files'[m] <= files[m]
      <4>1. CASE i = m
            BY <1>1, <1>2, <1>3, <1>5, <3>1, <3>2, <4>1
      <4>2. CASE i < m
        <5>1. m - 1 \in Cells /\ files'[m] = files[m - 1]
              BY <1>1, <1>3, <1>c, <3>1, <4>2
        <5> QED BY <1>1, <1>c, <1>s, <3>1, <3>2, <5>1
      <4> QED BY <1>1, <1>c, <3>1, <4>1, <4>2
    <3>4. files'[m] < n
      <4>1. n \in Nat
            BY <1>8, <1>1 DEF Typed, DebugTypeOK
      <4>2. files'[m] \in Nat
        <5>1. files'[m] \in Names \cup {0}
              BY <3>1, ShiftTyped
        <5>2. Names \cup {0} \subseteq Nat
              OBVIOUS
        <5> QED BY <5>1, <5>2
      <4> QED BY <1>2, <3>1, <3>3, <4>1, <4>2
    <3> QED BY <1>1, <3>1, <3>4, Constants DEF Lost
  <2>4. n = name \/ Holds(n) \/ Lost(n)
        BY <1>1, <1>8 DEF TableInv, Contents
  <2> QED BY <2>1, <2>2, <2>3, <2>4
<1> QED BY <1>7, <1>8 DEF Holds

LEMMA TableInsert == Typed /\ TableInv /\ (insert \/ overrun) => TableInv'
<1> SUFFICES ASSUME Typed, TableInv, insert \/ overrun PROVE TableInv'
    OBVIOUS
<1>1. /\ Placed /\ i < MaxFiles /\ Shifted /\ call' = "none"
      /\ wanted' = wanted \cup {name}
      BY DEF insert, overrun, Placed
<1>2. Entries'
  <2>1. \A k \in Cells : i < k => k - 1 \in Cells
        BY Constants DEF Cells, Typed, DebugTypeOK
  <2>2. \A k \in Cells : files'[k] = IF k = i THEN name
                            ELSE IF i < k /\ k <= nb THEN files[k - 1] ELSE files[k]
        BY <1>1 DEF Shifted
  <2>3. \A k \in Cells : files'[k] \in wanted' \cup {0}
        BY <1>1, <2>1, <2>2 DEF TableInv, Entries
  <2> QED BY <2>3 DEF Entries
<1>3. ASSUME Counting' PROVE nb' = nb + 1 /\ Counting
  <2>1. nb \in Int /\ adds \in 0..MaxAdds
        BY Constants DEF Typed, DebugTypeOK
  <2>2. CASE insert
    <3>1. nb' = nb + 1 /\ nb < MaxFiles /\ adds < MaxAdds
          BY <1>1, <2>2 DEF insert, Placed, Typed, Within
    <3>2. nb >= 0
          BY <1>3, <2>1, <3>1, Constants DEF Counting, Typed, Within, Count, Counts, Negative
    <3> QED BY <2>1, <3>1, <3>2, Constants DEF Counting
  <2>3. CASE overrun
    <3>1. nb' # Negative /\ nb' # Beyond
          BY <1>3, Constants DEF Counting
    <3> QED BY <2>3, <3>1, Constants DEF overrun, Counting, Cells, Beyond
  <2> QED BY <2>2, <2>3
<1>4. Sorted'
      BY <1>1, <1>3, ShiftSorts DEF Sorted
<1>5. Contents'
  <2>1. ASSUME Counting' PROVE \A n \in wanted' : (Holds(n) \/ Lost(n))'
        BY <1>1, <1>3, <2>1, ShiftSorts
  <2> QED BY <2>1 DEF Contents
<1> QED BY <1>1, <1>2, <1>4, <1>5 DEF TableInv, Place, Interval

(* gdb_init leaves the entries of the table; a name that was behind them    *)
(* and is not one sorts after them.                                         *)
LEMMA TableClear == Typed /\ TableInv /\ clear_handlers => TableInv'
<1> SUFFICES ASSUME Typed, TableInv, clear_handlers PROVE TableInv'
    OBVIOUS
<1>1. UNCHANGED <<nb, after, call, name, i, from, to, answer, wanted, adds>> /\ call = "none"
      BY DEF clear_handlers, history
<1>2. \A k \in Cells : files'[k] = files[k] \/ files'[k] = 0
      BY DEF clear_handlers
<1>3. \A k \in Cells : k < MaxFiles => files'[k] = files[k]
      BY Constants DEF clear_handlers
<1>c. \A k : k \in Cells <=> k \in Nat /\ k < MaxFiles + MaxAdds
      BY Constants DEF Cells
<1>4. Entries'
      BY <1>1, <1>2 DEF TableInv, Entries
<1>5. CASE after = "handler"
  <2>1. \A k \in Cells : files'[k] = IF k < MaxFiles THEN files[k] ELSE 0
        BY <1>5 DEF clear_handlers
  <2>2. ASSUME Counting, NEW j \in Cells, NEW k \in Cells, j <= k, k < nb, files'[k] # 0
        PROVE  files'[j] # 0 /\ files'[j] <= files'[k]
    <3>1. k < MaxFiles /\ j < MaxFiles
          BY <2>1, <2>2, <1>c, Constants
    <3> QED BY <1>3, <2>2, <3>1 DEF TableInv, Sorted
  <2>3. ASSUME Counting, NEW n \in wanted, NEW k \in Cells, k < nb, files[k] = n
        PROVE  (\E l \in Cells : l < nb /\ files'[l] = n) \/ Lost(n)'
    <3>1. CASE k < MaxFiles
          BY <1>3, <2>3, <3>1
    <3>2. CASE k >= MaxFiles
      <4> DEFINE m == MaxFiles - 1
      <4>1. m \in Cells /\ m <= k /\ m < nb /\ nb >= MaxFiles /\ nb \in 0..adds
            BY <1>c, <2>3, <3>2, CountingRange, Constants
      <4>2. n \in Nat \ {0}
            BY <2>3 DEF Typed, DebugTypeOK
      <4>3. files[m] <= n /\ files[m] \in Nat
            BY <2>3, <4>1, <4>2 DEF TableInv, Sorted, Typed, DebugTypeOK
      <4>4. adds > MaxFiles /\ files'[m] = files[m]
            BY <1>3, <1>c, <2>3, <3>2, <4>1, Constants DEF Typed, DebugTypeOK
      <4>5. CASE files[m] = n
            BY <4>1, <4>4, <4>5
      <4>6. CASE files[m] < n
            BY <1>1, <4>1, <4>4, <4>6 DEF Lost
      <4> QED BY <4>2, <4>3, <4>5, <4>6
    <3> QED BY <1>c, <3>1, <3>2, Constants
  <2>4. ASSUME NEW n, Lost(n) PROVE Lost(n)'
    <3>1. MaxFiles - 1 \in Cells /\ MaxFiles - 1 < MaxFiles
          BY <1>c, Constants
    <3> QED BY <1>1, <1>3, <2>4, <3>1 DEF Lost
  <2>5. Sorted'
        BY <1>1, <2>2 DEF Sorted, Counting
  <2>6. Contents'
    <3>1. ASSUME Counting, NEW n \in wanted
          PROVE  (\E l \in Cells : l < nb /\ files'[l] = n) \/ Lost(n)'
          BY <2>3, <2>4, <3>1 DEF TableInv, Contents, Holds
    <3> QED BY <1>1, <3>1 DEF Contents, Holds, Counting
  <2> QED BY <1>1, <1>4, <2>5, <2>6 DEF TableInv, Place, Interval
<1>6. CASE after # "handler"
  <2>1. files' = files
        BY <1>6 DEF clear_handlers
  <2> QED BY <1>1, <2>1 DEF TableInv, Sorted, Counting, Entries, Contents, Holds, Lost,
                            Place, Interval
<1> QED BY <1>5, <1>6

(* A half that is left out does not hold the name: the table is sorted.     *)
LEMMA TableHalve == Typed /\ TableInv /\ halve => TableInv'
<1> SUFFICES ASSUME Typed, TableInv, halve PROVE TableInv'
    OBVIOUS
<1>1. middle \in Nat /\ from <= middle /\ middle < to /\ middle < nb
      BY MiddleInside DEF halve
<1>2. /\ UNCHANGED <<files, nb, name, wanted, adds>> /\ call' \in {"search", "none"}
      /\ middle \in Cells /\ files[middle] # 0
      BY DEF halve, table, history, Returns, Readable
<1>3. Sorted' /\ Entries' /\ Contents' /\ Place'
      BY <1>2 DEF TableInv, Sorted, Counting, Entries, Contents, Holds, Lost, Place, halve
<1>4. \A k \in Cells : files[k] \in Nat /\ k \in Nat
      BY CellsAreNumbers
<1>5. name \in Nat \ {0} /\ nb \in Int /\ from \in Nat /\ to \in Int
      BY Constants DEF Typed, Within, DebugTypeOK, halve
<1>6. ASSUME call' = "search", Counting, NEW k \in Cells, k < nb, files[k] = name
      PROVE  from' <= k /\ k <= to'
  <2>1. from <= k /\ k <= to
        BY <1>6 DEF TableInv, Interval, halve
  <2>2. CASE files[middle] < name /\ from' = middle + 1 /\ to' = to
    <3>1. ~(k <= middle)
      <4>1. k <= middle => files[k] <= files[middle]
            BY <1>1, <1>2, <1>6 DEF TableInv, Sorted
      <4> QED BY <1>2, <1>4, <1>5, <1>6, <2>2, <4>1
    <3> QED BY <1>1, <1>4, <2>1, <2>2, <3>1
  <2>3. CASE files[middle] > name /\ to' = middle - 1 /\ from' = from
    <3>1. ~(middle <= k)
      <4>1. middle <= k => files[middle] <= files[k]
            BY <1>2, <1>5, <1>6 DEF TableInv, Sorted
      <4> QED BY <1>2, <1>4, <1>5, <1>6, <2>3, <4>1
    <3> QED BY <1>1, <1>4, <2>1, <2>3, <3>1
  <2> QED BY <1>6, <2>2, <2>3 DEF halve, Returns
<1>7. nb # Beyond
  <2>1. ASSUME nb = Beyond PROVE FALSE
    <3>1. from = 0 /\ to = Beyond - 1 /\ middle \in Cells
          BY <1>2, <2>1 DEF TableInv, Interval, halve
    <3> QED BY <3>1, Constants DEF middle, Beyond, Cells
  <2> QED BY <2>1
<1>8. Interval'
      BY <1>2, <1>6, <1>7 DEF Interval, Counting
<1> QED BY <1>3, <1>8 DEF TableInv

LEMMA TableStep == Typed /\ TableInv /\ [DebugNext]_debugVars => TableInv'
<1> SUFFICES ASSUME Typed, TableInv, [DebugNext]_debugVars PROVE TableInv'
    OBVIOUS
<1> USE DEF table, history, Counting
<1>c. \A k \in Cells : k \in Nat
      BY Constants
<1>1. ASSUME NEW n \in Names, add_debug_to(n) PROVE TableInv'
  <2>1. UNCHANGED <<files, nb, wanted, adds>> /\ call' = "add" /\ i' = 0 /\ call = "none"
        BY <1>1 DEF add_debug_to
  <2>2. \A k \in Cells : ~(k < 0)
        BY <1>c
  <2> QED BY <2>1, <2>2 DEF TableInv, Sorted, Entries, Contents, Holds, Lost, Place, Interval
<1>2. ASSUME NEW n \in Names, is_debugged(n) PROVE TableInv'
  <2>1. /\ UNCHANGED <<files, nb, wanted, adds>> /\ call' = "search" /\ call = "none"
        /\ from' = 0 /\ to' = nb - 1
        BY <1>2 DEF is_debugged
  <2>2. \A k \in Cells : k < nb => 0 <= k /\ k <= nb - 1
        BY <1>c, Constants DEF Typed, DebugTypeOK
  <2> QED BY <2>1, <2>2 DEF TableInv, Sorted, Entries, Contents, Holds, Lost, Place, Interval
<1>3. CASE scan
  <2>1. /\ UNCHANGED <<files, nb, wanted, adds, call, name>> /\ call = "add" /\ i' = i + 1
        /\ files[i] < name
        BY <1>3 DEF scan, Before
  <2>2. \A k \in Cells : k < i + 1 => k < i \/ k = i
        BY <1>c DEF Typed, DebugTypeOK
  <2> QED BY <2>1, <2>2 DEF TableInv, Sorted, Entries, Contents, Holds, Lost, Place, Interval
<1>4. CASE dropped
  <2>1. /\ UNCHANGED <<files, nb, name>> /\ wanted' = wanted \cup {name}
        /\ adds' = adds + 1 /\ call = "add" /\ call' = "none"
        BY <1>4 DEF dropped, Placed
  <2>2. i = MaxFiles /\ nb >= MaxFiles
        BY <1>4, <2>1, Constants DEF dropped, Typed, Within, DebugTypeOK
  <2>3. MaxFiles - 1 \in Cells /\ MaxFiles - 1 < MaxFiles
        BY Constants DEF Cells
  <2>4. ASSUME Counting PROVE adds >= MaxFiles /\ adds \in Nat
        BY <2>2, <2>4, CountingRange, Constants
  <2>5. ASSUME Counting PROVE Lost(name)'
        BY <2>1, <2>2, <2>3, <2>4, <2>5, Constants DEF TableInv, Place, Lost
  <2>6. ASSUME Counting, NEW n \in wanted PROVE (Holds(n) \/ Lost(n))'
        BY <2>1, <2>2, <2>4, <2>6, Constants DEF TableInv, Contents, Holds, Lost
  <2>7. Contents'
        BY <2>1, <2>5, <2>6 DEF Contents
  <2> QED BY <2>1, <2>7 DEF TableInv, Sorted, Entries, Place, Interval
<1>5. CASE insert \/ overrun
      BY <1>5, TableInsert
<1>6. CASE clear_handlers
      BY <1>6, TableClear
<1>7. CASE halve
      BY <1>7, TableHalve
<1>8. CASE found
  <2>1. UNCHANGED <<files, nb, wanted, adds>> /\ call' = "none" /\ call = "search"
        BY <1>8 DEF found, Returns
  <2> QED BY <2>1 DEF TableInv, Sorted, Entries, Contents, Holds, Lost, Place, Interval
<1>9. CASE UNCHANGED debugVars
      BY <1>9 DEF debugVars, TableInv, Sorted, Entries, Contents, Holds, Lost, Place, Interval
<1> QED BY <1>1, <1>2, <1>3, <1>4, <1>5, <1>6, <1>7, <1>8, <1>9 DEF DebugNext, InCall

LEMMA TableInvariant == Spec => [](Typed /\ TableInv)
<1>1. Init => Typed /\ TableInv
      BY TypedInit, TableInit DEF Init
<1>2. Typed /\ TableInv /\ [Next]_vars => (Typed /\ TableInv)'
      BY TypedStep, TableStep, StartupCallsDebug
<1> QED BY <1>1, <1>2, PTL DEF Spec

(* What __is_debugged returns when its search stops.                        *)
Overlooked == adds > MaxFiles /\ (nb < 0 \/ files[MaxFiles - 1] < name)
LEMMA Search ==
  ASSUME Typed, TableInv, halve \/ found, call' = "none"
  PROVE  (answer' => name \in wanted) /\ (name \in wanted /\ ~answer' => Overlooked)
<1>1. call = "search"
      BY DEF halve, found
<1>2. /\ nb \in Int /\ from \in Nat /\ to \in Int /\ to <= nb - 1 /\ name # 0
      /\ \A k \in Cells : k \in Nat
      BY <1>1, Constants DEF Typed, Within, DebugTypeOK
<1>3. CASE halve
  <2>1. answer' = TRUE /\ files[middle] = name /\ middle \in Cells
        BY <1>1, <1>3 DEF halve, Returns, Readable
  <2> QED BY <1>2, <2>1 DEF TableInv, Entries
<1>4. CASE found
  <2>1. from >= to /\ answer' = (from = to /\ files[from] = name)
        /\ (from = to => from \in Cells)
        BY <1>4 DEF found, Returns, Readable
  <2>2. answer' => name \in wanted
        BY <1>2, <2>1 DEF TableInv, Entries
  <2>3. ASSUME name \in wanted, ~answer' PROVE Overlooked
    <3>1. CASE nb < 0
          BY <3>1, Constants DEF Typed, Within, Count, Counts, Overlooked
    <3>2. nb # Beyond
          BY <1>1, <2>1, Constants DEF TableInv, Interval
    <3>3. CASE nb >= 0
      <4>1. Counting
            BY <3>2, <3>3 DEF Counting
      <4>2. CASE Holds(name)
        <5>1. PICK k \in Cells : k < nb /\ files[k] = name
              BY <4>2 DEF Holds
        <5>2. from <= k /\ k <= to
              BY <1>1, <4>1, <5>1 DEF TableInv, Interval
        <5>3. k = from /\ from = to
              BY <1>2, <2>1, <5>1, <5>2
        <5> QED BY <2>1, <2>3, <5>1, <5>3
      <4>3. CASE Lost(name)
            BY <4>3 DEF Lost, Overlooked
      <4> QED BY <2>3, <4>1, <4>2, <4>3 DEF TableInv, Contents
    <3> QED BY <1>2, <3>1, <3>3
  <2> QED BY <2>2, <2>3
<1> QED BY <1>3, <1>4

(* debug.c: the files whose messages are reported are the ones named by the *)
(* --debug options, whatever their order and their number, with the two     *)
(* exceptions that FilesSelected states.                                    *)
THEOREM DebugSelects == Spec => FilesSelected
<1>1. Typed /\ TableInv /\ [Next]_vars =>
        [call = "search" /\ call' = "none" =>
           /\ answer' => name \in wanted
           /\ name \in wanted /\ ~answer' =>
                adds > MaxFiles /\ (nb < 0 \/ files[MaxFiles - 1] < name)
        ]_debugVars
  <2> SUFFICES ASSUME Typed, TableInv, [Next]_vars, ~UNCHANGED debugVars,
                      call = "search", call' = "none"
               PROVE  /\ answer' => name \in wanted
                      /\ name \in wanted /\ ~answer' =>
                           adds > MaxFiles /\ (nb < 0 \/ files[MaxFiles - 1] < name)
      OBVIOUS
  <2>1. DebugNext
        BY StartupCallsDebug
  <2>2. halve \/ found
        BY <2>1 DEF DebugNext, InCall, add_debug_to, is_debugged, scan, dropped, insert,
                    overrun, clear_handlers, Placed
  <2> QED BY <2>2, Search DEF Overlooked
<1> QED BY <1>1, TableInvariant, PTL DEF Spec, FilesSelected
-----------------------------------------------------------------------------
StartTypeOK ==
  /\ main \in {"options", "handlers", "set", "create", "running", "exited"}
  /\ others \in 0..MaxOthers
  /\ port \in [Threads -> 0 .. PortSpan - 1] /\ trace_file \in Writable \cup {Stdout}
  /\ flags \subseteq Switches /\ output \in Writable \cup {Stdout, "none"}
  /\ thread \in [Threads -> {"none", "socket", "listen", "accept", "serving"}]
  /\ bound \in [Threads -> 0 .. PortSpan - 1]

LEMMA StartTypeInit == Init => StartTypeOK
BY StartupAssumption DEF Init, StartTypeOK

LEMMA StartTypeStep == StartTypeOK /\ [Next]_vars => StartTypeOK'
<1> SUFFICES ASSUME StartTypeOK, [Next]_vars PROVE StartTypeOK'
    OBVIOUS
<1> USE DEF StartTypeOK, options, servers, startVars
<1>1. CASE Options
  <2>1. ASSUME Other, others' \in 0..MaxOthers,
               main' \in {main, "exited"},
               port' \in [Threads -> 0 .. PortSpan - 1],
               trace_file' \in Writable \cup {Stdout}, flags' \subseteq Switches
        PROVE  StartTypeOK'
        BY <2>1 DEF Other
  <2>2. ASSUME Other PROVE others' \in 0..MaxOthers
        BY <2>2, StartupAssumption DEF Other
  <2>3. ASSUME NEW t \in Threads, option_port(t) PROVE StartTypeOK'
    <3>1. \A p \in Ports : p % PortSpan \in 0 .. PortSpan - 1
          BY StartupAssumption
    <3> QED BY <2>1, <2>2, <2>3, <3>1 DEF option_port
  <2>4. CASE option_trace_file
        BY <2>1, <2>2, <2>4 DEF option_trace_file
  <2>5. CASE trace_add
        BY <2>1, <2>2, <2>5 DEF trace_add
  <2>6. CASE usage
        BY <2>1, <2>2, <2>6 DEF usage
  <2>7. CASE option_debug
        BY <2>7 DEF option_debug
  <2> QED BY <1>1, <2>3, <2>4, <2>5, <2>6, <2>7 DEF Options
<1>2. CASE Called
      BY <1>2 DEF Called, Fails
<1>3. CASE Main
      BY <1>3 DEF Main, gdb_init, gdb_init_handlers, set_trace_file, arm_create
<1>4. ASSUME NEW t \in Threads, Thread(t) PROVE StartTypeOK'
  <2>1. CASE Bind(t)
    <3>1. PICK p \in (IF port[t] = 0 THEN Ephemeral \ {bound[Peer(t)]} ELSE {port[t]}) :
            bound' = [bound EXCEPT ![t] = p]
          BY <2>1 DEF Bind
    <3>2. p \in 0 .. PortSpan - 1
          BY <3>1, StartupAssumption DEF Ephemeral
    <3> QED BY <2>1, <3>1, <3>2 DEF Bind, Running
  <2>2. CASE BindFails(t) \/ ListenFails(t)
        BY <2>2 DEF BindFails, ListenFails, Fails
  <2>3. CASE Listen(t)
        BY <2>3 DEF Listen
  <2> QED BY <1>4, <2>1, <2>2, <2>3 DEF Thread
<1>5. CASE Peers
      BY <1>5 DEF Peers, debug, Accept
<1>6. CASE UNCHANGED vars
      BY <1>6 DEF vars
<1> QED BY <1>1, <1>2, <1>3, <1>4, <1>5, <1>6 DEF Next

(* Every variable of main, of debug.c and of trace.c keeps its type.        *)
THEOREM TypeCorrect == Spec => []TypeOK
<1>1. StartTypeOK /\ Typed => TypeOK
      BY DEF StartTypeOK, Typed, TypeOK
<1> QED BY <1>1, StartTypeInit, StartTypeStep, TypedInvariant, PTL DEF Spec
-----------------------------------------------------------------------------
(* A socket has the port that was asked for it, and the options are over    *)
(* when there is one; at most one thread listens on a port.                 *)
Opened(t) == thread[t] \in {"listen", "accept", "serving"}
ServersInv ==
  /\ main = "options" => \A t \in Threads : ~Opened(t)
  /\ \A t \in Threads : Opened(t) /\ port[t] # 0 => bound[t] = port[t]
  /\ Listening("gdb") /\ Listening("irq") => bound["gdb"] # bound["irq"]

LEMMA ServersInit == Init => ServersInv
BY DEF Init, ServersInv, Opened, Listening, Threads

LEMMA ServersStep == StartTypeOK /\ ServersInv /\ [Next]_vars => ServersInv'
<1> SUFFICES ASSUME StartTypeOK, ServersInv, [Next]_vars PROVE ServersInv'
    OBVIOUS
<1> USE DEF options, servers, startVars
<1>1. CASE Options
  <2>1. main = "options" /\ UNCHANGED <<thread, bound>>
        BY <1>1 DEF Options, option_port, option_trace_file, trace_add, usage, Other,
                    Option, option_debug
  <2> QED BY <2>1 DEF ServersInv, Opened, Listening, Threads
<1>2. CASE Called
      BY <1>2 DEF Called, Fails, ServersInv, Opened, Listening
<1>3. CASE Main
  <2>1. CASE gdb_init \/ gdb_init_handlers \/ set_trace_file
        BY <2>1 DEF gdb_init, gdb_init_handlers, set_trace_file, ServersInv, Opened, Listening
  <2>2. CASE arm_create
        BY <2>2 DEF arm_create, ServersInv, Opened, Listening, Threads
  <2> QED BY <1>3, <2>1, <2>2 DEF Main
<1>4. ASSUME NEW t \in Threads, Thread(t) PROVE ServersInv'
  <2> USE DEF ServersInv, Opened, Listening, Threads, Peer, StartTypeOK
  <2>1. CASE Bind(t)
        BY <2>1 DEF Bind, Running
  <2>2. CASE BindFails(t) \/ ListenFails(t)
        BY <2>2 DEF BindFails, ListenFails, Fails
  <2>3. CASE Listen(t)
        BY <2>3 DEF Listen, Running
  <2> QED BY <1>4, <2>1, <2>2, <2>3 DEF Thread
<1>5. CASE Peers
  <2>1. CASE debug
        BY <2>1 DEF debug, ServersInv, Opened, Listening
  <2>2. ASSUME NEW t \in Threads, Accept(t) PROVE ServersInv'
        BY <2>2 DEF Accept, Running, ServersInv, Opened, Listening, Threads, StartTypeOK
  <2> QED BY <1>5, <2>1, <2>2 DEF Peers
<1>6. CASE UNCHANGED vars
      BY <1>6 DEF vars, ServersInv, Opened, Listening
<1> QED BY <1>1, <1>2, <1>3, <1>4, <1>5, <1>6 DEF Next

(* arm_simulator.c: whatever the ports asked for and the order of the two   *)
(* threads, both servers are never opened on one port.                      *)
THEOREM DistinctServers == Spec => []TwoServers
<1>1. Init => StartTypeOK /\ ServersInv
      BY StartTypeInit, ServersInit
<1>2. StartTypeOK /\ ServersInv /\ [Next]_vars => (StartTypeOK /\ ServersInv)'
      BY StartTypeStep, ServersStep
<1>3. ServersInv => TwoServers
      BY DEF ServersInv, TwoServers, Opened, Listening, Threads
<1> QED BY <1>1, <1>2, <1>3, PTL DEF Spec
=============================================================================
