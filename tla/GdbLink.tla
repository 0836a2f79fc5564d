------------------------------ MODULE GdbLink ------------------------------
(***************************************************************************)
(* scanner.l and the packet layer of gdb_protocol.c: acknowledgements,     *)
(* checksums and retransmissions between gdb and the command handlers.     *)
(* The socket keeps the order of what it carries; a packet may arrive with *)
(* a wrong checksum.  A packet is the number of its request, and the       *)
(* answer to request n is n; a handler is one step here, and Simulator     *)
(* says what is in it.                                                     *)
(*                                                                         *)
(* gdb is what the code expects of it: it sends its next request when it   *)
(* has the answer to the last one, sends again what is refused with "-",   *)
(* and may send the character Ctrl-C while it waits for an answer.         *)
(***************************************************************************)
EXTENDS Integers, Sequences

CONSTANTS
  MaxErrorSize,  (* size of the buffer of invalid characters               *)
  MaxRequests,   (* bounds on the requests, on the packets corrupted       *)
  MaxCorrupt,    (* and on the stray characters gdb sends                  *)
  MaxStrays

ASSUME LinkAssumption ==
  /\ MaxErrorSize \in Nat /\ MaxErrorSize >= 2
  /\ MaxRequests \in Nat /\ MaxCorrupt \in Nat /\ MaxStrays \in Nat

VARIABLES
  toSim, toGdb,  (* the two directions of the connection                   *)
  len,           (* characters in the error buffer of the scanner          *)
  serving,       (* the request whose handler runs, 0 if none              *)
  last,          (* content of gdb->packet, 0 before the first answer      *)
  gdb, sent,     (* gdb: idle, waiting for "+", or for an answer; number   *)
                 (* of its last request                                    *)
  corrupted, strays,  (* packets corrupted, stray characters sent so far   *)
  executed, answers   (* history: requests executed, answers gdb accepted  *)

scanner == <<len, serving, last, executed>>
client == <<gdb, sent, strays, answers>>
vars == <<toSim, toGdb, scanner, client, corrupted>>

Ack == <<"+", 0>>
Nak == <<"-", 0>>
Stray == <<"stray", 0>>
Packet(n) == <<"packet", n>>
Garbled == <<"garbled", 0>>
Tokens == {Ack, Nak, Stray, Garbled} \cup {Packet(n) : n \in 1..MaxRequests}

Init ==
  /\ toSim = <<>> /\ toGdb = <<>>
  /\ len = 0 /\ serving = 0 /\ last = 0
  /\ gdb = "idle" /\ sent = 0
  /\ corrupted = 0 /\ strays = 0
  /\ executed = <<>> /\ answers = <<>>

(* Packet n, or what is left of it, is added to a channel after the tokens  *)
(* t.                                                                       *)
Sent(channel, t, n) ==
  \/ channel' = channel \o t \o <<Packet(n)>> /\ UNCHANGED corrupted
  \/ /\ corrupted < MaxCorrupt /\ corrupted' = corrupted + 1
     /\ channel' = channel \o t \o <<Garbled>>
-----------------------------------------------------------------------------
(* The scanner matches the next token.  handle_error, which every rule but  *)
(* that of an invalid character calls first, asks for a retransmission when *)
(* invalid characters were received, and empties the buffer.                *)
Matches(token) == serving = 0 /\ toSim # <<>> /\ Head(toSim) = token /\ toSim' = Tail(toSim)
Errors == IF len > 0 THEN <<Nak>> ELSE <<>>

plus ==
  /\ Matches(Ack)
  /\ toGdb' = toGdb \o Errors /\ len' = 0
  /\ UNCHANGED <<serving, last, executed, client, corrupted>>

(* gdb_transmit_packet writes gdb->len characters: none before an answer.   *)
(* Mutation: nothing is sent again.                                         *)
minus_ignored ==
  /\ Matches(Nak)
  /\ len' = 0 /\ toGdb' = toGdb \o Errors
  /\ UNCHANGED <<serving, last, executed, client, corrupted>>
minus ==
  /\ Matches(Nak)
  /\ len' = 0
  /\ IF last = 0 THEN toGdb' = toGdb \o Errors /\ UNCHANGED corrupted
                 ELSE Sent(toGdb, Errors, last)
  /\ UNCHANGED <<serving, last, executed, client>>

(* add_character_to_error: MAX_ERROR_SIZE-2 leaves room for the terminator. *)
(* Mutation: it does not.                                                   *)
add_character_full ==
  /\ Matches(Stray)
  /\ IF len > MaxErrorSize - 1
     THEN toGdb' = toGdb \o Errors /\ len' = 1
     ELSE toGdb' = toGdb /\ len' = len + 1
  /\ UNCHANGED <<serving, last, executed, client, corrupted>>
add_character_to_error ==
  /\ Matches(Stray)
  /\ IF len > MaxErrorSize - 2
     THEN toGdb' = toGdb \o Errors /\ len' = 1
     ELSE toGdb' = toGdb /\ len' = len + 1
  /\ UNCHANGED <<serving, last, executed, client, corrupted>>

(* gdb_packet_analysis: a wrong checksum is refused, a right one is         *)
(* acknowledged before the handler runs.  Mutation: the return after the    *)
(* refusal is missing, and the handler runs all the same.                   *)
refused_and_served ==
  /\ Matches(Garbled)
  /\ toGdb' = toGdb \o Errors \o <<Nak>> /\ len' = 0
  /\ serving' = sent
  /\ UNCHANGED <<last, executed, client, corrupted>>
require_retransmission ==
  /\ Matches(Garbled)
  /\ toGdb' = toGdb \o Errors \o <<Nak>> /\ len' = 0
  /\ UNCHANGED <<serving, last, executed, client, corrupted>>

packet_analysis(n) ==
  /\ Matches(Packet(n))
  /\ toGdb' = toGdb \o Errors \o <<Ack>> /\ len' = 0
  /\ serving' = n
  /\ UNCHANGED <<last, executed, client, corrupted>>

(* The handler fills gdb->packet, with its checksum, and sends it.          *)
send_buffer ==
  /\ serving # 0
  /\ executed' = Append(executed, serving)
  /\ last' = serving /\ serving' = 0
  /\ Sent(toGdb, <<>>, serving)
  /\ UNCHANGED <<toSim, len, client>>
-----------------------------------------------------------------------------
(* gdb.                                                                     *)
Sends ==
  /\ gdb = "idle" /\ sent < MaxRequests
  /\ sent' = sent + 1 /\ gdb' = "ack"
  /\ Sent(toSim, <<>>, sent + 1)
  /\ UNCHANGED <<toGdb, scanner, strays, answers>>

CtrlC ==
  /\ gdb = "answer" /\ strays < MaxStrays
  /\ strays' = strays + 1 /\ toSim' = Append(toSim, Stray)
  /\ UNCHANGED <<toGdb, scanner, gdb, sent, answers, corrupted>>

Reads(token) == toGdb # <<>> /\ Head(toGdb) = token /\ toGdb' = Tail(toGdb)

(* Waiting for "+", gdb sends its request again when it gets "-", and       *)
(* acknowledges and drops an answer, which it thinks is an old one.         *)
Acknowledged ==
  /\ gdb = "ack" /\ Reads(Ack)
  /\ gdb' = "answer"
  /\ UNCHANGED <<toSim, scanner, sent, strays, answers, corrupted>>

Resends ==
  /\ gdb = "ack" /\ Reads(Nak)
  /\ Sent(toSim, <<>>, sent)
  /\ UNCHANGED <<scanner, client>>

DropsOldAnswer ==
  /\ gdb = "ack" /\ toGdb # <<>> /\ Head(toGdb) \notin {Ack, Nak}
  /\ toGdb' = Tail(toGdb) /\ toSim' = Append(toSim, Ack)
  /\ UNCHANGED <<scanner, client, corrupted>>

(* Waiting for an answer, it ignores "+" and "-" and refuses an answer with *)
(* a wrong checksum.                                                        *)
Ignores ==
  /\ gdb = "answer" /\ \E t \in {Ack, Nak} : Reads(t)
  /\ UNCHANGED <<toSim, scanner, client, corrupted>>

Refuses ==
  /\ gdb = "answer" /\ Reads(Garbled)
  /\ toSim' = Append(toSim, Nak)
  /\ UNCHANGED <<scanner, client, corrupted>>

Accepts(n) ==
  /\ gdb = "answer" /\ Reads(Packet(n))
  /\ answers' = Append(answers, n)
  /\ toSim' = Append(toSim, Ack)
  /\ gdb' = "idle"
  /\ UNCHANGED <<scanner, sent, strays, corrupted>>
-----------------------------------------------------------------------------
Scanner ==
  \/ plus \/ minus \/ add_character_to_error \/ require_retransmission \/ send_buffer
  \/ \E n \in 1..MaxRequests : packet_analysis(n)
Receives ==
  \/ Acknowledged \/ Resends \/ DropsOldAnswer \/ Ignores \/ Refuses
  \/ \E n \in 1..MaxRequests : Accepts(n)
Next == Scanner \/ Receives \/ Sends \/ CtrlC

Spec == Init /\ [][Next]_vars

(* The scanner and gdb read what arrives; gdb need not send anything.       *)
FairSpec == Spec /\ WF_vars(Scanner) /\ WF_vars(Receives)
-----------------------------------------------------------------------------
(* In particular the error buffer always has room for the terminator that   *)
(* handle_error writes at data->len.                                        *)
TypeOK ==
  /\ toSim \in Seq(Tokens) /\ toGdb \in Seq(Tokens)
  /\ len \in 0 .. MaxErrorSize - 1
  /\ serving \in 0..MaxRequests /\ last \in 0..MaxRequests
  /\ gdb \in {"idle", "ack", "answer"} /\ sent \in 0..MaxRequests
  /\ corrupted \in 0..MaxCorrupt /\ strays \in 0..MaxStrays
  /\ executed \in Seq(1..MaxRequests) /\ answers \in Seq(1..MaxRequests)

(* Each request is executed once, in order, and gdb takes the answer to a   *)
(* request for no other, whatever packets are corrupted in either direction *)
(* and sent again: a step must not be made twice.                           *)
InOrder(s) == \A i \in DOMAIN s : s[i] = i
OnceEach == InOrder(executed) /\ InOrder(answers) /\ Len(answers) <= Len(executed)
                              /\ Len(executed) <= sent
ExecutedOnce == strays = 0 => OnceEach

(* Ctrl-C while a request runs has the next one refused once more than gdb  *)
(* knows, and executed again: see ExecutedOnceAfterCtrlC.  What remains     *)
(* true: no request is executed after a later one, gdb takes no answer      *)
(* after that to a later request nor to one that was not executed, and each *)
(* Ctrl-C makes for one execution too many at most.                         *)
Sorted(s) == \A i, j \in DOMAIN s : i <= j => s[i] <= s[j]
AtMostOneMore ==
  /\ Sorted(executed) /\ Sorted(answers)
  /\ \A i \in DOMAIN answers : \E j \in DOMAIN executed : executed[j] = answers[i]
  /\ Len(executed) <= sent + strays

(* gdb gets an answer to every request, Ctrl-C or not.                      *)
Answered == gdb # "idle" ~> gdb = "idle"

(* "Implementation of gdb remote protocol" (README): each request is        *)
(* executed once also when Ctrl-C was pressed while one was running.        *)
ExecutedOnceAfterCtrlC == OnceEach
=============================================================================
