----------------------------- MODULE DebugFiles -----------------------------
(***************************************************************************)
(* debug.c: the sorted table of the files whose debug messages are wanted. *)
(* add_debug_to and __is_debugged take one step per turn of their loops.   *)
(* A name is its rank in the order of strcmp, and 0 stands for NULL.       *)
(***************************************************************************)
EXTENDS Integers

CONSTANTS
  MaxFiles,  (* MAX_FILES_NUMBER                                           *)
  Names,     (* the names of files                                         *)
  MaxAdds    (* bound on the number of names given                         *)

(* At most 63 names too many: they overwrite nothing but NULL in the table  *)
(* of the handlers of gdb, whose first entry in use is that of '?'.         *)
ASSUME DebugAssumption ==
  /\ MaxFiles \in Nat \ {0} /\ Names \subseteq Nat \ {0}
  /\ MaxAdds \in Nat /\ MaxAdds <= MaxFiles + 63

VARIABLES
  files, nb,       (* debugged_files, what follows it, nb_debugged_files   *)
  after,           (* the variable that the linker puts after the table    *)
  call, name,      (* the function that runs, if one does, and its argument*)
  i, from, to,     (* local variables of the two functions                 *)
  answer,          (* what the last search returned                        *)
  wanted, adds     (* history: the names given, and how many times one was *)

table == <<files, nb, after>>
history == <<wanted, adds>>
debugVars == <<table, call, name, i, from, to, answer, history>>

(* The entries of the table, and behind them the words of memory that can   *)
(* be taken for entries: nb itself, or the handlers of gdb.                 *)
Cells == 0 .. MaxFiles + MaxAdds - 1

(* The two values of nb when a name has been written over it, the low half  *)
(* of an address: a negative number, or one beyond the memory of the        *)
(* process.                                                                 *)
Negative == -1 - MaxAdds
Beyond == 4 * (MaxFiles + MaxAdds)

DebugInit ==
  /\ files = [k \in Cells |-> 0] /\ nb = 0 /\ after \in {"nb", "handler"}
  /\ call = "none" /\ name = 0
  /\ i = 0 /\ from = 0 /\ to = 0 /\ answer = FALSE
  /\ wanted = {} /\ adds = 0
-----------------------------------------------------------------------------
(* add_debug_to looks for the place of its argument.                        *)
add_debug_to(n) ==
  /\ call = "none" /\ adds < MaxAdds
  /\ call' = "add" /\ name' = n /\ i' = 0
  /\ UNCHANGED <<table, from, to, answer, history>>

Before == i < nb /\ i < MaxFiles /\ files[i] < name
scan ==
  /\ call = "add" /\ Before
  /\ i' = i + 1
  /\ UNCHANGED <<table, call, name, from, to, answer, history>>

Placed == call = "add" /\ ~Before /\ wanted' = wanted \cup {name} /\ adds' = adds + 1

(* A name that sorts after a full table is dropped.                         *)
dropped ==
  /\ Placed /\ i >= MaxFiles
  /\ call' = "none"
  /\ UNCHANGED <<table, name, i, from, to, answer>>

(* Mutation: the name is written before the end of the table is shifted.    *)
insert_no_shift ==
  /\ Placed /\ i < MaxFiles /\ nb < MaxFiles
  /\ files' = [files EXCEPT ![i] = name]
  /\ nb' = nb + 1 /\ call' = "none"
  /\ UNCHANGED <<after, name, i, from, to, answer>>
Shifted ==
  files' = [k \in Cells |-> IF k = i THEN name
                            ELSE IF i < k /\ k <= nb THEN files[k - 1] ELSE files[k]]
insert ==
  /\ Placed /\ i < MaxFiles /\ nb < MaxFiles
  /\ Shifted /\ nb' = nb + 1 /\ call' = "none"
  /\ UNCHANGED <<after, name, i, from, to, answer>>

(* Nothing looks at nb: the last entry of a full table is shifted into what *)
(* follows it, which may be nb (gcc -O0) or the table of handlers (gcc -O2).*)
overrun ==
  /\ Placed /\ i < MaxFiles /\ nb >= MaxFiles /\ nb \in Cells
  /\ Shifted /\ call' = "none"
  /\ \/ after = "handler" /\ nb' = nb + 1
     \/ after = "nb" /\ nb' \in {Negative, Beyond}
  /\ UNCHANGED <<after, name, i, from, to, answer>>

(* gdb_init sets the handlers, and thereby the cells after the table.       *)
clear_handlers ==
  /\ call = "none"
  /\ files' = IF after = "handler"
              THEN [k \in Cells |-> IF k < MaxFiles THEN files[k] ELSE 0] ELSE files
  /\ UNCHANGED <<nb, after, call, name, i, from, to, answer, history>>

(* __is_debugged: a binary search, of any name.                             *)
is_debugged(n) ==
  /\ call = "none"
  /\ call' = "search" /\ name' = n
  /\ from' = 0 /\ to' = nb - 1
  /\ UNCHANGED <<table, i, answer, history>>

middle == (from + to) \div 2
Readable(k) == k \in Cells /\ files[k] # 0
Returns(b) == answer' = b /\ call' = "none"

(* Mutation: the middle stays in the interval.                              *)
halve_keeping ==
  /\ call = "search" /\ from < to /\ Readable(middle)
  /\ \/ files[middle] < name /\ from' = middle /\ UNCHANGED <<to, answer, call>>
     \/ files[middle] > name /\ to' = middle /\ UNCHANGED <<from, answer, call>>
     \/ files[middle] = name /\ Returns(TRUE) /\ UNCHANGED <<from, to>>
  /\ UNCHANGED <<table, name, i, history>>
halve ==
  /\ call = "search" /\ from < to /\ Readable(middle)
  /\ \/ files[middle] < name /\ from' = middle + 1 /\ UNCHANGED <<to, answer, call>>
     \/ files[middle] > name /\ to' = middle - 1 /\ UNCHANGED <<from, answer, call>>
     \/ files[middle] = name /\ Returns(TRUE) /\ UNCHANGED <<from, to>>
  /\ UNCHANGED <<table, name, i, history>>

found ==
  /\ call = "search" /\ from >= to /\ (from = to => Readable(from))
  /\ Returns(from = to /\ files[from] = name)
  /\ UNCHANGED <<table, name, i, from, to, history>>

InCall == scan \/ dropped \/ insert \/ overrun \/ halve \/ found

(* The end of the process: strcmp is given NULL, or the table is shifted or *)
(* read far behind its end.                                                 *)
Faults ==
  \/ call = "search" /\ from < to /\ ~Readable(middle)
  \/ call = "search" /\ from = to /\ ~Readable(from)
  \/ call = "add" /\ ~Before /\ i < MaxFiles /\ nb > MaxFiles /\ nb \notin Cells
-----------------------------------------------------------------------------
DebugTypeOK ==
  /\ files \in [Cells -> Names \cup {0}] /\ nb \in Negative .. Beyond
  /\ after \in {"nb", "handler"}
  /\ call \in {"none", "add", "search"} /\ name \in Names \cup {0}
  /\ i \in 0..MaxFiles /\ from \in 0..Beyond /\ to \in Negative - 1 .. Beyond
  /\ answer \in BOOLEAN /\ wanted \subseteq Names /\ adds \in 0..MaxAdds

(* "Selective reporting of debug messages on a per source file basis"       *)
(* (arm_simulator.c): a search that returns finds exactly the names given,  *)
(* in whatever order and however many times they were, with two exceptions, *)
(* which need more names than the table has entries: none is found when one *)
(* has been written over nb (debug.c:42), and those that sort after the     *)
(* table are lost, when they did at the time they were given or have been   *)
(* shifted out of it since.                                                 *)
FilesSelected ==
  [][call = "search" /\ call' = "none" =>
       /\ answer' => name \in wanted
       /\ name \in wanted /\ ~answer' =>
            adds > MaxFiles /\ (nb < 0 \/ files[MaxFiles - 1] < name)
    ]_debugVars
=============================================================================
