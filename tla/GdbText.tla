------------------------------ MODULE GdbText ------------------------------
(***************************************************************************)
(* The packets of gdb_protocol.c as text: the requests that read or write  *)
(* the target are parsed, their answers are put together in the one buffer *)
(* of the connection, framed there, and written to gdb by rio_writen.  The *)
(* effects on the target are those of GdbCommands; the threads are in      *)
(* Simulator, and the lost or corrupted requests in GdbLink.               *)
(*                                                                         *)
(* struct gdb_protocol_data ends with packet, len and a pointer: cell c is *)
(* packet[c] below MaxPacket, then the four bytes of len, then four bytes  *)
(* of padding.  No answer to a request gdb makes reaches the pointer.      *)
(***************************************************************************)
EXTENDS GdbCommands, GdbHex

CONSTANTS
  MaxPacket,    (* MAX_PACKET_SIZE, also announced to gdb                   *)
  FloatWords,   (* words of f0..f7, which are not implemented               *)
  Requests,     (* what gdb may ask, G aside                                *)
  Changes,      (* the registers gdb may change in a G, with their words    *)
  Pieces,       (* sizes of the short writes                                *)
  MaxRequests, MaxCorrupt    (* bounds on requests and on corrupted answers *)

(* The content of X for the bytes gdb means: a byte is written as itself or, *)
(* as those that have a meaning in a packet, escaped by 0x7d and xored with  *)
(* 0x20; place[k] is where the k-th byte is.                                *)
Escaped(content, meant) ==
  \E place \in [1 .. Len(meant) + 1 -> 1 .. Len(content) + 1] :
    /\ place[1] = 1
    /\ \A k \in 1 .. Len(meant) :
         \/ /\ place[k + 1] = place[k] + 1
            /\ content[place[k]] = meant[k] /\ meant[k] # 125
         \/ /\ place[k + 1] = place[k] + 2
            /\ content[place[k]] = 125 /\ content[place[k] + 1] = Xor20(meant[k])

(* The registers with a word in the texts of g and G, by its place there:   *)
(* r0 to r15, the pc, come first, the CPSR last, after f0..f7 and fps.      *)
GeneralWords == 18 + FloatWords
CPSR == GeneralWords - 1
Listed == Registers \cup {CPSR}

(* What gdb asks: no more than the announced size, numbers of registers the *)
(* target has, words of eight digits.                                       *)
ASSUME TextAssumption ==
  /\ MaxPacket \in Nat \ {0} /\ MaxPacket % 8 = 0 /\ MaxPacket < 65536
  /\ FloatWords \in Nat /\ MaxRequests \in Nat /\ MaxCorrupt \in Nat
  /\ Pieces \subseteq Nat \ {0}
  /\ 8 * GeneralWords + 4 <= MaxPacket    \* the answer to g fits
  /\ \A new \in Changes :
       DOMAIN new \subseteq Listed /\ \A k \in DOMAIN new : new[k] \in Word
  /\ \A r \in Requests :
       /\ r.cmd \in {"g", "m", "p", "X", "P"}
       /\ r.cmd \in {"m", "X"} => r.address \in Nat /\ r.size \in Nat
       /\ r.cmd \in {"p", "P"} => r.reg \in Registers
       /\ r.cmd = "P" => read_uint32(r.text, 1) \in Word
       /\ r.cmd = "m" => 2 * r.size <= MaxPacket
       /\ r.cmd = "X" => /\ r.content \in Seq(Byte) /\ r.meant \in Seq(Byte)
                         /\ Len(r.meant) = r.size /\ Escaped(r.content, r.meant)

(* The requests that mean the same to the handlers as to gdb: atoi misreads *)
(* the numbers of r10 to r15 in p, and the pc that is told has lost bit 1   *)
(* of the one that P wrote.                                                 *)
Understood ==
  \A r \in Requests :
    /\ r.cmd = "p" => r.reg < 10
    /\ r.cmd = "P" /\ r.reg = PC => (read_uint32(r.text, 1)[4] \div 2) % 2 = 0

VARIABLES
  core,       (* the target                                                *)
  packet,     (* gdb->packet and gdb->len, as bytes                        *)
  request,    (* the request that is answered, None between requests       *)
  body,       (* history: the text of the answer                           *)
  out,        (* what gdb has received of the answer                       *)
  view,       (* what gdb knows of the target: registers r, bytes m; lost  *)
              (* are the registers it has spoilt by writing others         *)
  saved,      (* the last answer to g                                      *)
  asked, corrupted   (* the counters of the bounds                         *)

vars == <<core, packet, request, body, out, view, saved, asked, corrupted>>

Offsets == 0 .. MaxPacket + 7
None == [cmd |-> "none"]

(* The bytes of n, an int, in the memory of the host, from the lowest as k  *)
(* goes up; len reads them back.                                            *)
HostOrder(i) == IF HostIsBigEndian THEN 3 - i ELSE i
IntByte(n, i) ==
  LET k == HostOrder(i)
  IN  CASE k = 0 -> n % 256 [] k = 1 -> n \div 256 [] k \in {2, 3} -> 0
len == packet[MaxPacket + HostOrder(0)] + 256 * packet[MaxPacket + HostOrder(1)]

Empty == [x \in {} |-> 0]
Init ==
  /\ core = [r |-> [i \in Registers |-> Small(4 * i)], m |-> [c \in Cell |-> c % 256]]
  /\ packet = [c \in Offsets |-> NUL]
  /\ request = None /\ body = <<>> /\ out = <<>>
  /\ view = [r |-> Empty, m |-> Empty, lost |-> {}] /\ saved = <<>>
  /\ asked = 0 /\ corrupted = 0
-----------------------------------------------------------------------------
(* The texts of answers.  g: the registers listed, the others as "x".       *)
Told(p, k) == IF k < 15 THEN p.r[k] ELSE IF k = 15 THEN NextPc(p) ELSE read_cpsr(p)
GeneralText(p) ==
  [c \in 1 .. 8 * GeneralWords |->
     LET k == (c - 1) \div 8
     IN  IF k \in Listed THEN write_uint32(Told(p, k))[((c - 1) % 8) + 1] ELSE 120]

OK == <<79, 75>>
E02 == <<69, 48, 50>>

(* The request X once its content is parsed.                                *)
Parsed(r) ==
  CASE r.cmd = "X" -> [cmd |-> "X", address |-> r.address,
                       bytes |-> Unescaped(r.content, r.size)]
    [] r.cmd = "P" -> [cmd |-> "P", reg |-> r.reg, word |-> read_uint32(r.text, 1)]
    [] r.cmd \notin {"X", "P"} -> r

Body(p, r) ==
  CASE r.cmd = "g" -> GeneralText(p)
    [] r.cmd = "m" -> Printed(SimpleReply(p, 0, r))
    [] r.cmd = "p" -> write_uint32(SimpleReply(p, 0, r))
    [] r.cmd = "X" -> IF SimpleReply(p, 0, Parsed(r)) = "OK" THEN OK ELSE E02
    [] r.cmd \in {"P", "G"} -> OK

(* G: r0..r15, then the CPSR, which is 16 for WriteStatus.                  *)
GeneralRead(text) ==
  [k \in 0..16 |-> read_uint32(text, 8 * (IF k = 16 THEN CPSR ELSE k) + 1)]
Effect(p, r) ==
  CASE r.cmd = "G" -> WriteStatus(WriteGeneral(p, GeneralRead(r.text)), GeneralRead(r.text))
    [] r.cmd \in {"g", "m", "p", "X", "P"} -> SimpleEffect(p, Parsed(r))
-----------------------------------------------------------------------------
(* gdb_send_buffer: the text, which starts after the '$' and ends with a    *)
(* NUL, is summed on 8 bits and framed; then len is assigned.  Mutation:    *)
(* the sum is kept in an int, which has more than two digits.               *)
CheckWide(text) ==
  LET sum[k \in 0 .. Len(text)] == IF k = 0 THEN 0 ELSE sum[k - 1] + text[k]
  IN  sum[Len(text)]
Check(text) ==
  LET sum[k \in 0 .. Len(text)] == IF k = 0 THEN 0 ELSE (sum[k - 1] + text[k]) % 256
  IN  sum[Len(text)]
Buffered(cells, text) ==
  [c \in Offsets |-> IF c \in 1 .. Len(text) THEN text[c]
                     ELSE IF c = Len(text) + 1 THEN NUL ELSE cells[c]]
End(cells) == CHOOSE i \in Offsets \ {0} :
                cells[i] = NUL /\ \A j \in 1 .. i - 1 : cells[j] # NUL
FramedAs(cells, text) ==
  LET i == Len(text) + 1
      check == Printed(<<Check(text)>>)
      framed == [c \in Offsets |->
                   CASE c = 0 -> 36 [] c = i -> 35 [] c = i + 1 -> check[1]
                     [] c = i + 2 -> check[2] [] c = i + 3 -> NUL
                     [] c \notin {0, i, i + 1, i + 2, i + 3} -> cells[c]]
  IN  [c \in Offsets |-> IF c \in MaxPacket .. MaxPacket + 3
                         THEN IntByte(i + 3, c - MaxPacket) ELSE framed[c]]
gdb_send_buffer(cells) == FramedAs(cells, [j \in 1 .. End(cells) - 1 |-> cells[j]])

(* gdb writes the bytes of a word, from the highest, in the byte order of   *)
(* the target, and reads them back.  Its G gives the last text of g back,   *)
(* with the words of the registers it changes.                              *)
InOrder(b) == IF IsBigEndian THEN b ELSE <<b[4], b[3], b[2], b[1]>>
Changed(text, new) ==
  [c \in DOMAIN text |->
     LET k == (c - 1) \div 8
     IN  IF k \in DOMAIN new THEN Printed(InOrder(new[k]))[((c - 1) % 8) + 1] ELSE text[c]]
WriteAll(new) == [cmd |-> "G", text |-> Changed(saved, new), changed |-> DOMAIN new]
Asked == Requests \cup {WriteAll(new) : new \in Changes}

(* A request, whatever the state of the connection: the handler fills the   *)
(* buffer and changes the target, and the answer is about to be written.    *)
handler ==
  /\ request = None /\ asked < MaxRequests
  /\ \E r \in Asked :
       /\ r.cmd = "G" => saved # <<>>
       /\ request' = r /\ body' = Body(core, r) /\ core' = Effect(core, r)
  /\ packet' = gdb_send_buffer(Buffered(packet, body'))
  /\ out' = <<>> /\ asked' = asked + 1
  /\ UNCHANGED <<view, saved, corrupted>>

(* rio_writen: one write of what is left, which may be short.  Mutation:    *)
(* the pointer stays at the beginning.                                      *)
Left == IF request = None THEN 0 ELSE len - Len(out)
Written(from, k) == out \o [j \in 1..k |-> packet[from + j - 1]]
rio_writen_again ==
  /\ Left > 0
  /\ \E k \in (Pieces \cup {Left}) \cap 1..Left : out' = Written(0, k)
  /\ UNCHANGED <<core, packet, request, body, view, saved, asked, corrupted>>
rio_writen ==
  /\ Left > 0
  /\ \E k \in (Pieces \cup {Left}) \cap 1..Left : out' = Written(Len(out), k)
  /\ UNCHANGED <<core, packet, request, body, view, saved, asked, corrupted>>

(* The packet is not what it should be, or was damaged on its way, and gdb  *)
(* answers "-": gdb_transmit_packet writes what the buffer holds again.     *)
gdb_transmit_packet ==
  /\ request # None /\ Left = 0 /\ corrupted < MaxCorrupt
  /\ corrupted' = corrupted + 1 /\ out' = <<>>
  /\ UNCHANGED <<core, packet, request, body, view, saved, asked>>
-----------------------------------------------------------------------------
(* gdb: it wants the checksum of the text at the end of the packet, reads   *)
(* it, and takes what it has written for what the target holds, unless the  *)
(* answer is an error.  It cannot know that the pc and the CPSR are one     *)
(* word (registers.c): P of the pc changes the CPSR too, and the CPSR that  *)
(* G writes last takes the place of the pc.                                 *)
Answer == SubSeq(out, 2, Len(out) - 3)
Checked == out = SubSeq(out, 1, Len(out) - 3) \o <<35>> \o Printed(<<Check(Answer)>>)
WordAt(text, k) == InOrder([j \in 1..4 |-> Scanned(text, 8 * k + 2 * j - 1)])
Words(text) == [k \in Listed |-> WordAt(text, k)]
Update(f, g) == [x \in DOMAIN f \cup DOMAIN g |-> IF x \in DOMAIN g THEN g[x] ELSE f[x]]
Addresses(address, n) == address .. address + n - 1

Learnt(r, answer) ==
  CASE r.cmd = "g" -> [view EXCEPT !.r = Words(answer), !.lost = {}]
    [] r.cmd = "G" ->
         [view EXCEPT !.r = Words(r.text),
                      !.lost = IF r.changed \cap {PC, CPSR} = {} THEN {} ELSE {PC}]
    [] r.cmd = "p" ->
         [view EXCEPT !.r = Update(@, [k \in {r.reg} |-> WordAt(answer, 0)]),
                      !.lost = @ \ {r.reg}]
    [] r.cmd = "P" ->
         [view EXCEPT !.r = Update(@, [k \in {r.reg} |-> WordAt(r.text, 0)]),
                      !.lost = IF r.reg = PC THEN {CPSR} ELSE @]
    [] r.cmd = "m" ->
         [view EXCEPT !.m = Update(@, [a \in Addresses(r.address, Len(answer) \div 2) |->
                                         Scanned(answer, 2 * (a - r.address) + 1)])]
    [] r.cmd = "X" ->
         [view EXCEPT !.m = IF answer = OK
            THEN Update(@, [a \in Addresses(r.address, r.size) |-> r.meant[a - r.address + 1]])
            ELSE [a \in DOMAIN @ \ Addresses(r.address, r.size) |-> @[a]]]

Accepted ==
  /\ request # None /\ Left = 0 /\ Checked
  /\ view' = Learnt(request, Answer)
  /\ saved' = IF request.cmd = "g" THEN Answer ELSE saved
  /\ request' = None /\ body' = <<>> /\ out' = <<>>
  /\ UNCHANGED <<core, packet, asked, corrupted>>

Next == handler \/ rio_writen \/ gdb_transmit_packet \/ Accepted
Spec == Init /\ [][Next]_vars
-----------------------------------------------------------------------------
TypeOK ==
  /\ core \in Core
  /\ packet \in [Offsets -> Byte]
  /\ body \in Seq(Char) /\ out \in Seq(Byte)
  /\ DOMAIN view.r \subseteq Listed /\ DOMAIN view.m \subseteq Cell
  /\ view.lost \subseteq {PC, CPSR}
  /\ asked \in 0..MaxRequests /\ corrupted \in 0..MaxCorrupt

(* What gdb gets of an answer that fits in the buffer with its frame is     *)
(* '$', the text, '#' and the checksum of the text, up to a point, whatever *)
(* the handlers left in the buffer before, the sizes of the writes and the  *)
(* number of times the packet is sent; and it gets all of it.               *)
Frame == <<36>> \o body \o <<35>> \o Printed(<<Check(body)>>)
AnswerWhole ==
  request # None /\ Len(body) + 4 <= MaxPacket =>
    /\ len = Len(Frame)
    /\ Len(out) <= len /\ out = SubSeq(Frame, 1, Len(out))

(* gdb knows the target: every register, the CPSR included, and every byte  *)
(* it has read or written, in any order, by itself or with others, is what  *)
(* it believes.  Two registers are excepted until gdb reads them again, the *)
(* pc and the CPSR being one word: the CPSR after a P of the pc, and the pc *)
(* after a G that changes the pc or the CPSR.                               *)
Believed(registers) == \A k \in registers : view.r[k] = Told(core, k)
GdbKnows ==
  request = None =>
    /\ Believed(DOMAIN view.r \ view.lost)
    /\ \A a \in DOMAIN view.m : view.m[a] = core.m[a]

(* The digits of a register, in p, P, g and G, come in the order of the     *)
(* bytes in memory, in m and X, of the word that instructions would store.  *)
OneByteOrder ==
  \A k \in Registers, a \in Cell : a % 4 = 0 =>
    LET address == <<a \div 16777216, (a \div 65536) % 256, (a \div 256) % 256, a % 256>>
        stored == arm_write(core, address, 4, core.r[k])
    IN  write_uint32(core.r[k]) = Printed(read_memory(stored, a, 4))

(* gdb_protocol.c answers "PacketSize=400" to qSupported, and gdb asks m    *)
(* for up to half as many bytes: it should get a packet.                    *)
AnnouncedSizeAnswered ==
  request # None /\ request.cmd = "m" /\ Left = 0 => Checked
=============================================================================
