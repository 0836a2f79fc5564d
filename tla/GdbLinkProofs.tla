--------------------------- MODULE GdbLinkProofs ---------------------------
(***************************************************************************)
(* Proofs about GdbLink, for any number of requests, corrupted packets and *)
(* stray characters and any size of the error buffer.                      *)
(***************************************************************************)
EXTENDS GdbLink, SequenceTheorems, FiniteSetTheorems, FunctionTheorems, TLAPS

USE LinkAssumption

(* gdb only waits for a request it has sent: what it sends again is one.    *)
Requested == gdb # "idle" => sent > 0

LEMMA TypeInit == Init => TypeOK /\ Requested
BY DEF Init, TypeOK, Requested

LEMMA RequestedStep == TypeOK /\ Requested /\ [Next]_vars => Requested'
<1> SUFFICES ASSUME TypeOK, Requested, [Next]_vars PROVE Requested'
    OBVIOUS
<1> USE DEF TypeOK, Requested, client
<1>1. CASE Scanner
      BY <1>1 DEF Scanner, plus, minus, add_character_to_error, require_retransmission,
                  send_buffer, packet_analysis
<1>2. CASE Receives
      BY <1>2 DEF Receives, Acknowledged, Resends, DropsOldAnswer, Ignores, Refuses, Accepts
<1>3. CASE Sends \/ CtrlC
      BY <1>3 DEF Sends, CtrlC
<1>4. CASE UNCHANGED vars
      BY <1>4 DEF vars
<1> QED BY <1>1, <1>2, <1>3, <1>4 DEF Next

(* What is appended to a channel are tokens.                                *)
LEMMA ConcatTokens ==
  ASSUME NEW S, NEW c \in Seq(S), NEW t \in Seq(S), NEW e \in S
  PROVE  c \o t \in Seq(S) /\ c \o t \o <<e>> \in Seq(S)
<1>1. c \o t \in Seq(S)
      OBVIOUS
<1>2. <<e>> \in Seq(S)
      OBVIOUS
<1> QED BY <1>1, <1>2

LEMMA TokenTypes ==
  /\ Ack \in Tokens /\ Nak \in Tokens /\ Stray \in Tokens /\ Garbled \in Tokens
  /\ \A n \in 1..MaxRequests : Packet(n) \in Tokens
BY DEF Tokens

(* A packet sent by either side, garbled or not.                            *)
LEMMA SentToGdb ==
  ASSUME toGdb \in Seq(Tokens), corrupted \in 0..MaxCorrupt,
         NEW t \in Seq(Tokens), NEW n \in 1..MaxRequests, Sent(toGdb, t, n)
  PROVE  toGdb' \in Seq(Tokens) /\ corrupted' \in 0..MaxCorrupt
<1>1. /\ toGdb \o t \o <<Packet(n)>> \in Seq(Tokens)
      /\ toGdb \o t \o <<Garbled>> \in Seq(Tokens)
      BY TokenTypes, ConcatTokens
<1>2. CASE toGdb' = toGdb \o t \o <<Packet(n)>> /\ UNCHANGED corrupted
      BY <1>1, <1>2
<1>3. CASE /\ corrupted < MaxCorrupt /\ corrupted' = corrupted + 1
           /\ toGdb' = toGdb \o t \o <<Garbled>>
      BY <1>1, <1>3
<1> QED BY <1>2, <1>3 DEF Sent

LEMMA SentToSim ==
  ASSUME toSim \in Seq(Tokens), corrupted \in 0..MaxCorrupt,
         NEW t \in Seq(Tokens), NEW n \in 1..MaxRequests, Sent(toSim, t, n)
  PROVE  toSim' \in Seq(Tokens) /\ corrupted' \in 0..MaxCorrupt
<1>1. /\ toSim \o t \o <<Packet(n)>> \in Seq(Tokens)
      /\ toSim \o t \o <<Garbled>> \in Seq(Tokens)
      BY TokenTypes, ConcatTokens
<1>2. CASE toSim' = toSim \o t \o <<Packet(n)>> /\ UNCHANGED corrupted
      BY <1>1, <1>2
<1>3. CASE /\ corrupted < MaxCorrupt /\ corrupted' = corrupted + 1
           /\ toSim' = toSim \o t \o <<Garbled>>
      BY <1>1, <1>3
<1> QED BY <1>2, <1>3 DEF Sent

(* The steps of the scanner.                                                *)
LEMMA TypeScanner == TypeOK /\ Scanner => TypeOK'
<1> SUFFICES ASSUME TypeOK, Scanner PROVE TypeOK'
    OBVIOUS
<1> USE DEF TypeOK, client
<1>1. /\ Errors \in Seq(Tokens) /\ toGdb \o Errors \in Seq(Tokens)
      /\ toGdb \o Errors \o <<Nak>> \in Seq(Tokens)
      /\ toGdb \o Errors \o <<Ack>> \in Seq(Tokens)
  <2>1. Errors \in Seq(Tokens)
        BY TokenTypes DEF Errors
  <2> QED BY <2>1, TokenTypes, ConcatTokens
<1>2. ASSUME NEW token, Matches(token) PROVE toSim' \in Seq(Tokens)
      BY <1>2 DEF Matches
<1>3. CASE plus
      BY <1>1, <1>2, <1>3 DEF plus
<1>4. CASE minus
  <2>1. toSim' \in Seq(Tokens)
        BY <1>2, <1>4 DEF minus
  <2>2. toGdb' \in Seq(Tokens) /\ corrupted' \in 0..MaxCorrupt
    <3>1. CASE last = 0
          BY <1>1, <1>4, <3>1 DEF minus
    <3>2. CASE last # 0
          BY <1>1, <1>4, <3>2, SentToGdb DEF minus
    <3> QED BY <3>1, <3>2
  <2> QED BY <1>4, <2>1, <2>2 DEF minus
<1>5. CASE add_character_to_error
  <2>1. toSim' \in Seq(Tokens) /\ toGdb' \in Seq(Tokens)
        BY <1>1, <1>2, <1>5 DEF add_character_to_error
  <2>2. len' \in 0 .. MaxErrorSize - 1
        BY <1>5 DEF add_character_to_error
  <2> QED BY <1>5, <2>1, <2>2 DEF add_character_to_error
<1>6. CASE require_retransmission
      BY <1>1, <1>2, <1>6 DEF require_retransmission
<1>7. ASSUME NEW n \in 1..MaxRequests, packet_analysis(n) PROVE TypeOK'
      BY <1>1, <1>2, <1>7 DEF packet_analysis
<1>8. CASE send_buffer
  <2>1. serving \in 1..MaxRequests
        BY <1>8 DEF send_buffer
  <2>2. toGdb' \in Seq(Tokens) /\ corrupted' \in 0..MaxCorrupt
    <3>1. <<>> \in Seq(Tokens) /\ Sent(toGdb, <<>>, serving)
          BY <1>8 DEF send_buffer
    <3> QED BY <2>1, <3>1, SentToGdb
  <2>3. executed' \in Seq(1..MaxRequests)
        BY <1>8, <2>1 DEF send_buffer
  <2> QED BY <1>8, <2>1, <2>2, <2>3 DEF send_buffer
<1> QED BY <1>3, <1>4, <1>5, <1>6, <1>7, <1>8 DEF Scanner

(* The steps of gdb.                                                        *)
LEMMA TypeGdb == TypeOK /\ Requested /\ (Receives \/ Sends \/ CtrlC) => TypeOK'
<1> SUFFICES ASSUME TypeOK, Requested, Receives \/ Sends \/ CtrlC PROVE TypeOK'
    OBVIOUS
<1> USE DEF TypeOK, scanner, client
<1>1. ASSUME NEW token, Reads(token) PROVE toGdb' \in Seq(Tokens)
      BY <1>1 DEF Reads
<1>2. /\ Append(toSim, Ack) \in Seq(Tokens) /\ Append(toSim, Nak) \in Seq(Tokens)
      /\ Append(toSim, Stray) \in Seq(Tokens)
      BY TokenTypes
<1>3. CASE Acknowledged
      BY <1>1, <1>3 DEF Acknowledged
<1>4. CASE Resends
  <2>1. sent \in 1..MaxRequests
        BY <1>4 DEF Resends, Requested
  <2>2. toGdb' \in Seq(Tokens)
        BY <1>1, <1>4 DEF Resends
  <2>3. toSim' \in Seq(Tokens) /\ corrupted' \in 0..MaxCorrupt
    <3>1. <<>> \in Seq(Tokens) /\ Sent(toSim, <<>>, sent)
          BY <1>4 DEF Resends
    <3> QED BY <2>1, <3>1, SentToSim
  <2> QED BY <1>4, <2>2, <2>3 DEF Resends
<1>5. CASE DropsOldAnswer
      BY <1>2, <1>5 DEF DropsOldAnswer
<1>6. CASE Ignores
      BY <1>1, <1>6 DEF Ignores
<1>7. CASE Refuses
      BY <1>1, <1>2, <1>7 DEF Refuses
<1>8. ASSUME NEW n \in 1..MaxRequests, Accepts(n) PROVE TypeOK'
      BY <1>1, <1>2, <1>8 DEF Accepts
<1>9. CASE Sends
  <2>1. sent + 1 \in 1..MaxRequests
        BY <1>9 DEF Sends
  <2>2. toSim' \in Seq(Tokens) /\ corrupted' \in 0..MaxCorrupt
    <3>1. <<>> \in Seq(Tokens) /\ Sent(toSim, <<>>, sent + 1)
          BY <1>9 DEF Sends
    <3> QED BY <2>1, <3>1, SentToSim
  <2> QED BY <1>9, <2>1, <2>2 DEF Sends
<1>10. CASE CtrlC
      BY <1>2, <1>10 DEF CtrlC
<1> QED BY <1>3, <1>4, <1>5, <1>6, <1>7, <1>8, <1>9, <1>10 DEF Receives

(* Whatever gdb sends and however packets are corrupted, the state keeps    *)
(* its shape; in particular the error buffer of the scanner, filled one     *)
(* character at a time, has room for the terminator handle_error writes.    *)
THEOREM LinkTypeCorrect == Spec => []TypeOK
<1>1. TypeOK /\ Requested /\ [Next]_vars => TypeOK'
  <2>1. TypeOK /\ UNCHANGED vars => TypeOK'
        BY DEF TypeOK, vars, scanner, client
  <2> QED BY <2>1, TypeScanner, TypeGdb DEF Next
<1> QED BY <1>1, TypeInit, RequestedStep, PTL DEF Spec
-----------------------------------------------------------------------------
(* Without stray characters one token or answer is under way at a time.     *)
(* The request sent, k, is in one of five stages; the acknowledgement of    *)
(* the answer to the request before may still precede it.                   *)
Finished(k, n, m) == Len(executed) = n /\ Len(answers) = m /\ sent = k
Content(n) == {<<Packet(n)>>, <<Garbled>>}

AtRest(k) ==
  /\ gdb = "idle" /\ serving = 0 /\ Finished(k, k, k)
  /\ toSim \in {<<>>, <<Ack>>} /\ toGdb = <<>>
Requesting(k) ==
  /\ gdb = "ack" /\ serving = 0 /\ Finished(k, k - 1, k - 1)
  /\ \/ toSim \in Content(k) \cup {<<Ack, Packet(k)>>, <<Ack, Garbled>>} /\ toGdb = <<>>
     \/ toSim = <<>> /\ toGdb = <<Nak>>
Serving(k) ==
  /\ serving = k /\ Finished(k, k - 1, k - 1) /\ toSim = <<>>
  /\ \/ gdb = "ack" /\ toGdb = <<Ack>>
     \/ gdb = "answer" /\ toGdb = <<>>
Answering(k) ==
  /\ serving = 0 /\ last = k /\ Finished(k, k, k - 1)
  /\ \/ gdb = "ack" /\ toSim = <<>> /\ toGdb \in {<<Ack, Packet(k)>>, <<Ack, Garbled>>}
     \/ gdb = "answer" /\ toSim = <<>> /\ toGdb \in Content(k)
     \/ gdb = "answer" /\ toSim = <<Nak>> /\ toGdb = <<>>

Orderly ==
  /\ len = 0 /\ InOrder(executed) /\ InOrder(answers)
  /\ \/ AtRest(sent)
     \/ sent > 0 /\ (Requesting(sent) \/ Serving(sent) \/ Answering(sent))
OnceInv == strays = 0 => Orderly

LEMMA OnceInvInit == Init => OnceInv
BY DEF Init, OnceInv, Orderly, AtRest, Finished, InOrder

(* Sequences of at most two tokens, and the tokens told apart.              *)
LEMMA Short ==
  /\ <<>> \o <<>> = <<>>
  /\ \A a : /\ <<a>> # <<>> /\ Head(<<a>>) = a /\ Tail(<<a>>) = <<>>
            /\ <<>> \o <<a>> = <<a>> /\ Append(<<>>, a) = <<a>>
  /\ \A a, b : /\ <<a, b>> # <<>> /\ Head(<<a, b>>) = a /\ Tail(<<a, b>>) = <<b>>
               /\ <<a>> \o <<b>> = <<a, b>>
<1>1. <<>> \o <<>> = <<>>
      OBVIOUS
<1>2. ASSUME NEW a
      PROVE  /\ <<a>> # <<>> /\ Head(<<a>>) = a /\ Tail(<<a>>) = <<>>
             /\ <<>> \o <<a>> = <<a>> /\ Append(<<>>, a) = <<a>>
      OBVIOUS
<1>3. ASSUME NEW a, NEW b
      PROVE  /\ <<a, b>> # <<>> /\ Head(<<a, b>>) = a /\ Tail(<<a, b>>) = <<b>>
             /\ <<a>> \o <<b>> = <<a, b>>
  <2>1. <<a, b>> # <<>> /\ Head(<<a, b>>) = a
        OBVIOUS
  <2>2. Tail(<<a, b>>) = <<b>>
        OBVIOUS
  <2>3. <<a>> \o <<b>> = <<a, b>>
    <3>1. <<a>> \in Seq({a, b}) /\ <<b>> \in Seq({a, b}) /\ <<a, b>> \in Seq({a, b})
          OBVIOUS
    <3>2. /\ <<a>> \o <<b>> \in Seq({a, b}) /\ Len(<<a>> \o <<b>>) = 2
          /\ (<<a>> \o <<b>>)[1] = a /\ (<<a>> \o <<b>>)[2] = b
          BY <3>1, ConcatProperties
    <3>3. /\ Len(<<a, b>>) = 2 /\ <<a, b>>[1] = a /\ <<a, b>>[2] = b
          OBVIOUS
    <3>4. \A i \in 1 .. 2 : i = 1 \/ i = 2
          OBVIOUS
    <3>5. \A i \in 1 .. 2 : (<<a>> \o <<b>>)[i] = <<a, b>>[i]
          BY <3>2, <3>3, <3>4
    <3> QED BY <3>1, <3>2, <3>3, <3>5, SeqEqual
  <2> QED BY <2>1, <2>2, <2>3
<1> QED BY <1>1, <1>2, <1>3

LEMMA Distinct ==
  /\ Ack # Nak /\ Ack # Garbled /\ Nak # Garbled
  /\ Stray \notin {Ack, Nak, Garbled}
  /\ \A n : Packet(n) \notin {Ack, Nak, Stray, Garbled}
  /\ \A n, k : Packet(n) = Packet(k) => n = k
BY DEF Ack, Nak, Stray, Garbled, Packet

(* The next request or answer keeps its history in order.                   *)
LEMMA NextInOrder ==
  ASSUME NEW s \in Seq(1..MaxRequests), NEW k \in 1..MaxRequests,
         InOrder(s), Len(s) = k - 1
  PROVE  InOrder(Append(s, k)) /\ Len(Append(s, k)) = k
BY DEF InOrder

LEMMA OrderlyScanner == TypeOK /\ Orderly /\ Scanner => Orderly'
<1> SUFFICES ASSUME TypeOK, Orderly, Scanner PROVE Orderly'
    OBVIOUS
<1>1. sent \in Nat /\ serving \in Nat /\ len = 0 /\ Errors = <<>>
      BY DEF TypeOK, Orderly, Errors
<1>2. CASE plus
  <2>1. toSim # <<>> /\ Head(toSim) = Ack /\ toSim' = Tail(toSim) /\ serving = 0
        BY <1>2 DEF plus, Matches
  <2>2. /\ toGdb' = toGdb \o <<>> /\ len' = 0
        /\ UNCHANGED <<serving, last, executed, gdb, sent, answers>>
        BY <1>1, <1>2 DEF plus, client
  <2>3. CASE AtRest(sent)
    <3>1. toSim' = <<>> /\ toGdb' = <<>>
          BY <2>1, <2>2, <2>3, Short DEF AtRest
    <3> QED BY <2>2, <2>3, <3>1, <1>1 DEF Orderly, AtRest, Finished, InOrder
  <2>4. CASE sent > 0 /\ Requesting(sent)
    <3>1. toSim \in {<<Ack, Packet(sent)>>, <<Ack, Garbled>>} /\ toGdb = <<>>
      <4>1. toSim \notin Content(sent) /\ toSim # <<>>
            BY <2>1, Short, Distinct DEF Content
      <4> QED BY <2>4, <4>1 DEF Requesting
    <3>2. toGdb' = <<>>
          BY <2>2, <3>1, Short
    <3>3. CASE toSim = <<Ack, Packet(sent)>>
      <4>1. toSim' = <<Packet(sent)>>
            BY <2>1, <3>3, Short
      <4> QED BY <1>1, <2>2, <2>4, <3>2, <4>1
              DEF Orderly, Requesting, Content, Finished, InOrder
    <3>4. CASE toSim = <<Ack, Garbled>>
      <4>1. toSim' = <<Garbled>>
            BY <2>1, <3>4, Short
      <4> QED BY <1>1, <2>2, <2>4, <3>2, <4>1
              DEF Orderly, Requesting, Content, Finished, InOrder
    <3> QED BY <3>1, <3>3, <3>4
  <2>5. ~ Serving(sent) /\ ~ Answering(sent)
        BY <2>1, Short, Distinct DEF Serving, Answering
  <2> QED BY <2>3, <2>4, <2>5 DEF Orderly
<1>3. CASE minus
  <2>1. toSim # <<>> /\ Head(toSim) = Nak /\ toSim' = Tail(toSim)
        BY <1>3 DEF minus, Matches
  <2>2. ~ AtRest(sent) /\ ~ Requesting(sent) /\ ~ Serving(sent)
        BY <2>1, Short, Distinct DEF AtRest, Requesting, Serving, Content
  <2>3. sent > 0 /\ Answering(sent)
        BY <2>2 DEF Orderly
  <2>4. toSim = <<Nak>> /\ toGdb = <<>> /\ gdb = "answer" /\ last = sent
        BY <2>1, <2>3, Short DEF Answering
  <2>5. toSim' = <<>>
        BY <2>1, <2>4, Short
  <2>6. /\ len' = 0 /\ Sent(toGdb, <<>>, sent)
        /\ UNCHANGED <<serving, last, executed, gdb, sent, answers>>
        BY <1>1, <1>3, <2>3, <2>4 DEF minus, client
  <2>7. toGdb' \in Content(sent)
        BY <2>4, <2>6, Short DEF Sent, Content
  <2> QED BY <2>3, <2>4, <2>5, <2>6, <2>7 DEF Orderly, Answering, Finished, InOrder
<1>4. ~ add_character_to_error
      BY Short, Distinct
      DEF add_character_to_error, Matches, Orderly, AtRest, Requesting, Serving, Answering, Content
<1>5. CASE require_retransmission
  <2>1. toSim # <<>> /\ Head(toSim) = Garbled /\ toSim' = Tail(toSim)
        BY <1>5 DEF require_retransmission, Matches
  <2>2. ~ AtRest(sent) /\ ~ Serving(sent) /\ ~ Answering(sent)
        BY <2>1, Short, Distinct DEF AtRest, Serving, Answering
  <2>3. sent > 0 /\ Requesting(sent)
        BY <2>2 DEF Orderly
  <2>4. toSim = <<Garbled>> /\ toGdb = <<>>
        BY <2>1, <2>3, Short, Distinct DEF Requesting, Content
  <2>5. /\ len' = 0 /\ toGdb' = toGdb \o <<>> \o <<Nak>>
        /\ UNCHANGED <<serving, last, executed, gdb, sent, answers>>
        BY <1>1, <1>5 DEF require_retransmission, client
  <2>6. toSim' = <<>> /\ toGdb' = <<Nak>>
        BY <2>1, <2>4, <2>5, Short
  <2> QED BY <2>3, <2>5, <2>6 DEF Orderly, Requesting, Finished, InOrder
<1>6. ASSUME NEW n \in 1..MaxRequests, packet_analysis(n) PROVE Orderly'
  <2>1. toSim # <<>> /\ Head(toSim) = Packet(n) /\ toSim' = Tail(toSim)
        BY <1>6 DEF packet_analysis, Matches
  <2>2. ~ AtRest(sent) /\ ~ Serving(sent) /\ ~ Answering(sent)
        BY <2>1, Short, Distinct DEF AtRest, Serving, Answering
  <2>3. sent > 0 /\ Requesting(sent)
        BY <2>2 DEF Orderly
  <2>4. toSim = <<Packet(n)>> /\ toGdb = <<>> /\ n = sent
        BY <2>1, <2>3, Short, Distinct DEF Requesting, Content
  <2>5. /\ len' = 0 /\ serving' = n /\ toGdb' = toGdb \o <<>> \o <<Ack>>
        /\ UNCHANGED <<last, executed, gdb, sent, answers>>
        BY <1>1, <1>6 DEF packet_analysis, client
  <2>6. toSim' = <<>> /\ toGdb' = <<Ack>>
        BY <2>1, <2>4, <2>5, Short
  <2>7. gdb = "ack" /\ Finished(sent, sent - 1, sent - 1)
        BY <2>3 DEF Requesting
  <2> QED BY <2>3, <2>4, <2>5, <2>6, <2>7 DEF Orderly, Serving, Finished, InOrder
<1>7. CASE send_buffer
  <2>1. sent > 0 /\ Serving(sent)
        BY <1>7 DEF send_buffer, Orderly, AtRest, Requesting, Answering
  <2>2. serving = sent /\ sent \in 1..MaxRequests
        BY <1>1, <2>1 DEF Serving, TypeOK
  <2>3. /\ executed' = Append(executed, sent) /\ last' = sent /\ serving' = 0
        /\ Sent(toGdb, <<>>, sent) /\ UNCHANGED <<toSim, len, gdb, sent, answers>>
        BY <1>7, <2>2 DEF send_buffer, client
  <2>4. InOrder(executed') /\ Len(executed') = sent
        BY <2>1, <2>2, <2>3, NextInOrder DEF Orderly, Serving, Finished, TypeOK
  <2>5. CASE gdb = "ack" /\ toGdb = <<Ack>>
    <3>1. <<Ack>> \o <<>> = <<Ack>>
          BY TokenTypes, ConcatEmptySeq
    <3>2. toGdb' \in {<<Ack, Packet(sent)>>, <<Ack, Garbled>>}
          BY <2>3, <2>5, <3>1, Short DEF Sent
    <3> QED BY <2>1, <2>3, <2>4, <2>5, <3>2 DEF Orderly, Serving, Answering, Finished, InOrder
  <2>6. CASE gdb = "answer" /\ toGdb = <<>>
    <3>1. toGdb' \in Content(sent)
          BY <2>3, <2>6, Short DEF Sent, Content
    <3> QED BY <2>1, <2>3, <2>4, <2>6, <3>1 DEF Orderly, Serving, Answering, Finished, InOrder
  <2> QED BY <2>1, <2>5, <2>6 DEF Serving
<1> QED BY <1>2, <1>3, <1>4, <1>5, <1>6, <1>7 DEF Scanner

LEMMA OrderlyGdb == TypeOK /\ Orderly /\ (Receives \/ Sends) => Orderly'
<1> SUFFICES ASSUME TypeOK, Orderly, Receives \/ Sends PROVE Orderly'
    OBVIOUS
<1>1. sent \in Nat /\ len = 0 /\ InOrder(executed) /\ InOrder(answers)
      BY DEF TypeOK, Orderly
<1>2. CASE Acknowledged
  <2>1. gdb = "ack" /\ toGdb # <<>> /\ Head(toGdb) = Ack /\ toGdb' = Tail(toGdb)
        BY <1>2 DEF Acknowledged, Reads
  <2>2. gdb' = "answer" /\ UNCHANGED <<toSim, len, serving, last, executed, sent, answers>>
        BY <1>2 DEF Acknowledged, scanner
  <2>3. ~ AtRest(sent) /\ ~ Requesting(sent)
        BY <2>1, Short, Distinct DEF AtRest, Requesting
  <2>4. CASE sent > 0 /\ Serving(sent)
    <3>1. toGdb' = <<>>
          BY <2>1, <2>4, Short DEF Serving
    <3> QED BY <1>1, <2>2, <2>4, <3>1 DEF Orderly, Serving, Finished, InOrder
  <2>5. CASE sent > 0 /\ Answering(sent)
    <3>1. toSim = <<>> /\ toGdb \in {<<Ack, Packet(sent)>>, <<Ack, Garbled>>}
          BY <2>1, <2>5 DEF Answering
    <3>2. CASE toGdb = <<Ack, Packet(sent)>>
      <4>1. toGdb' = <<Packet(sent)>>
            BY <2>1, <3>2, Short
      <4> QED BY <1>1, <2>2, <2>5, <3>1, <4>1
              DEF Orderly, Answering, Content, Finished, InOrder
    <3>3. CASE toGdb = <<Ack, Garbled>>
      <4>1. toGdb' = <<Garbled>>
            BY <2>1, <3>3, Short
      <4> QED BY <1>1, <2>2, <2>5, <3>1, <4>1
              DEF Orderly, Answering, Content, Finished, InOrder
    <3> QED BY <3>1, <3>2, <3>3
  <2> QED BY <2>3, <2>4, <2>5 DEF Orderly
<1>3. CASE Resends
  <2>1. gdb = "ack" /\ toGdb # <<>> /\ Head(toGdb) = Nak /\ toGdb' = Tail(toGdb)
        BY <1>3 DEF Resends, Reads
  <2>2. Sent(toSim, <<>>, sent) /\ UNCHANGED <<len, serving, last, executed, gdb, sent, answers>>
        BY <1>3 DEF Resends, scanner, client
  <2>3. ~ AtRest(sent) /\ ~ Serving(sent) /\ ~ Answering(sent)
        BY <2>1, Short, Distinct DEF AtRest, Serving, Answering
  <2>4. sent > 0 /\ Requesting(sent)
        BY <2>3 DEF Orderly
  <2>5. toSim = <<>> /\ toGdb = <<Nak>>
        BY <2>1, <2>4 DEF Requesting
  <2>6. toSim' \in Content(sent) /\ toGdb' = <<>>
        BY <2>1, <2>2, <2>5, Short DEF Sent, Content
  <2> QED BY <1>1, <2>2, <2>4, <2>6 DEF Orderly, Requesting, Finished, InOrder
<1>4. ~ DropsOldAnswer /\ ~ Ignores
  <2>1. ~ DropsOldAnswer
        BY Short DEF DropsOldAnswer, Orderly, AtRest, Requesting, Serving, Answering
  <2>2. ~ Ignores
        BY Short, Distinct
        DEF Ignores, Reads, Orderly, AtRest, Requesting, Serving, Answering, Content
  <2> QED BY <2>1, <2>2
<1>5. CASE Refuses
  <2>1. gdb = "answer" /\ toGdb # <<>> /\ toGdb' = Tail(toGdb) /\ toSim' = Append(toSim, Nak)
        BY <1>5 DEF Refuses, Reads
  <2>2. UNCHANGED <<len, serving, last, executed, gdb, sent, answers>>
        BY <1>5 DEF Refuses, scanner, client
  <2>3. sent > 0 /\ Answering(sent)
        BY <2>1 DEF Orderly, AtRest, Requesting, Serving
  <2>4. toSim = <<>> /\ toGdb \in Content(sent)
        BY <2>1, <2>3 DEF Answering
  <2>5. toSim' = <<Nak>> /\ toGdb' = <<>>
        BY <2>1, <2>4, Short DEF Content
  <2> QED BY <1>1, <2>1, <2>2, <2>3, <2>5 DEF Orderly, Answering, Finished, InOrder
<1>6. ASSUME NEW n \in 1..MaxRequests, Accepts(n) PROVE Orderly'
  <2>1. /\ gdb = "answer" /\ toGdb # <<>> /\ Head(toGdb) = Packet(n) /\ toGdb' = Tail(toGdb)
        /\ toSim' = Append(toSim, Ack)
        BY <1>6 DEF Accepts, Reads
  <2>2. /\ gdb' = "idle" /\ answers' = Append(answers, n)
        /\ UNCHANGED <<len, serving, last, executed, sent>>
        BY <1>6 DEF Accepts, scanner
  <2>3. sent > 0 /\ Answering(sent)
        BY <2>1 DEF Orderly, AtRest, Requesting, Serving
  <2>4. toSim = <<>> /\ toGdb = <<Packet(n)>> /\ n = sent
        BY <2>1, <2>3, Short, Distinct DEF Answering, Content
  <2>5. toSim' = <<Ack>> /\ toGdb' = <<>>
        BY <2>1, <2>4, Short
  <2>6. InOrder(answers') /\ Len(answers') = sent
        BY <1>1, <2>2, <2>3, <2>4, NextInOrder DEF Answering, Finished, TypeOK
  <2> QED BY <1>1, <2>2, <2>3, <2>5, <2>6 DEF Orderly, AtRest, Answering, Finished, InOrder
<1>7. CASE Sends
  <2>1. AtRest(sent)
        BY <1>7 DEF Sends, Orderly, Requesting, Serving, Answering
  <2>2. /\ sent' = sent + 1 /\ gdb' = "ack" /\ Sent(toSim, <<>>, sent + 1)
        /\ UNCHANGED <<toGdb, len, serving, last, executed, answers>>
        BY <1>7 DEF Sends, scanner
  <2>3. toSim' \in Content(sent') \cup {<<Ack, Packet(sent')>>, <<Ack, Garbled>>}
    <3>1. CASE toSim = <<>>
          BY <2>2, <3>1, Short DEF Sent, Content
    <3>2. CASE toSim = <<Ack>>
      <4>1. <<Ack>> \o <<>> = <<Ack>>
            BY TokenTypes, ConcatEmptySeq
      <4> QED BY <2>2, <3>2, <4>1, Short DEF Sent
    <3> QED BY <2>1, <3>1, <3>2 DEF AtRest
  <2> QED BY <1>1, <2>1, <2>2, <2>3 DEF Orderly, AtRest, Requesting, Finished, InOrder
<1> QED BY <1>2, <1>3, <1>4, <1>5, <1>6, <1>7 DEF Receives

LEMMA OnceInvStep == TypeOK /\ OnceInv /\ [Next]_vars => OnceInv'
<1> SUFFICES ASSUME TypeOK, OnceInv, [Next]_vars, strays' = 0 PROVE Orderly'
    BY DEF OnceInv
<1>1. CASE Scanner
  <2>1. strays' = strays
        BY <1>1 DEF Scanner, plus, minus, add_character_to_error, require_retransmission,
                    send_buffer, packet_analysis, client
  <2> QED BY <1>1, <2>1, OrderlyScanner DEF OnceInv
<1>2. CASE Receives \/ Sends
  <2>1. strays' = strays
        BY <1>2 DEF Receives, Acknowledged, Resends, DropsOldAnswer, Ignores, Refuses, Accepts,
                    Sends, client
  <2> QED BY <1>2, <2>1, OrderlyGdb DEF OnceInv
<1>3. CASE CtrlC
      BY <1>3 DEF CtrlC, TypeOK
<1>4. CASE UNCHANGED vars
  <2>1. Orderly
        BY <1>4 DEF OnceInv, vars, client
  <2> QED BY <1>4, <2>1 DEF vars, scanner, client, Orderly, AtRest, Requesting, Serving, Answering,
                            Finished, InOrder
<1> QED BY <1>1, <1>2, <1>3, <1>4 DEF Next

LEMMA OnceInvEnough == TypeOK /\ OnceInv => ExecutedOnce
BY DEF TypeOK, OnceInv, Orderly, ExecutedOnce, OnceEach, AtRest, Requesting, Serving, Answering,
       Finished

(* Requests are executed once each and in order, and their answers accepted *)
(* once each and in order, however many packets are corrupted in either     *)
(* direction, when gdb sends no stray character.                            *)
THEOREM RequestsExecutedOnce == Spec => []ExecutedOnce
BY TypeInit, OnceInvInit, OnceInvStep, OnceInvEnough, LinkTypeCorrect, PTL DEF Spec
-----------------------------------------------------------------------------
(* With Ctrl-C.  The packets of a channel are in the order of their         *)
(* requests: a number that a channel carries, and what a token read or      *)
(* added changes to it.                                                     *)
Numbers == 1..MaxRequests
Carries(c, n) == \E i \in DOMAIN c : c[i] = Packet(n)
Ascending(c) ==
  \A i, j \in 1 .. Len(c), a, b \in Numbers :
    i <= j /\ c[i] = Packet(a) /\ c[j] = Packet(b) => a <= b

LEMMA ChannelGrows ==
  ASSUME NEW c \in Seq(Tokens), NEW e \in Tokens
  PROVE  /\ Append(c, e) \in Seq(Tokens)
         /\ \A n \in Numbers : Carries(Append(c, e), n) => Carries(c, n) \/ e = Packet(n)
         /\ /\ Ascending(c)
            /\ \A a, n \in Numbers : Carries(c, a) /\ e = Packet(n) => a <= n
            => Ascending(Append(c, e))
<1> DEFINE d == Append(c, e)
<1>1. /\ d \in Seq(Tokens) /\ Len(c) \in Nat /\ Len(d) = Len(c) + 1
      /\ \A i \in 1 .. Len(c) : d[i] = c[i]
      /\ d[Len(c) + 1] = e /\ DOMAIN c = 1 .. Len(c) /\ DOMAIN d = 1 .. Len(d)
      BY AppendProperties, LenProperties
<1> HIDE DEF d
<1>2. ASSUME NEW n \in Numbers, Carries(d, n) PROVE Carries(c, n) \/ e = Packet(n)
  <2>1. PICK i \in 1 .. Len(d) : d[i] = Packet(n)
        BY <1>1, <1>2 DEF Carries
  <2>2. i \in 1 .. Len(c) \/ i = Len(c) + 1
        BY <1>1
  <2> QED BY <1>1, <2>1, <2>2, Zenon DEF Carries
<1>3. ASSUME Ascending(c), \A a, n \in Numbers : Carries(c, a) /\ e = Packet(n) => a <= n
      PROVE  Ascending(d)
  <2> SUFFICES ASSUME NEW i \in 1 .. Len(d), NEW j \in 1 .. Len(d),
                      NEW a \in Numbers, NEW b \in Numbers,
                      i <= j, d[i] = Packet(a), d[j] = Packet(b)
               PROVE  a <= b
      BY DEF Ascending
  <2>1. CASE j \in 1 .. Len(c)
    <3>1. i \in 1 .. Len(c)
          BY <1>1, <2>1
    <3>2. c[i] = Packet(a) /\ c[j] = Packet(b)
          BY <1>1, <2>1, <3>1, Zenon
    <3> QED BY <1>3, <2>1, <3>1, <3>2, Zenon DEF Ascending
  <2>2. CASE j \notin 1 .. Len(c)
    <3>1. j = Len(c) + 1 /\ e = Packet(b)
          BY <1>1, <2>2
    <3>2. CASE i \in 1 .. Len(c)
      <4>1. Carries(c, a)
            BY <1>1, <3>2, Zenon DEF Carries
      <4> QED BY <1>3, <3>1, <4>1, Zenon
    <3>3. CASE i \notin 1 .. Len(c)
      <4>1. i = Len(c) + 1
            BY <1>1, <3>3
      <4>2. a = b
            BY <3>1, <4>1, Distinct, Zenon
      <4> QED BY <4>2 DEF Numbers
    <3> QED BY <3>2, <3>3
  <2> QED BY <2>1, <2>2
<1> QED BY <1>1, <1>2, <1>3 DEF d

LEMMA ChannelRead ==
  ASSUME NEW c \in Seq(Tokens), c # <<>>
  PROVE  /\ Tail(c) \in Seq(Tokens)
         /\ \A n \in Numbers : Carries(Tail(c), n) => Carries(c, n)
         /\ \A n \in Numbers : Head(c) = Packet(n) => Carries(c, n)
         /\ Ascending(c) =>
              /\ Ascending(Tail(c))
              /\ \A a, n \in Numbers : Head(c) = Packet(n) /\ Carries(Tail(c), a) => n <= a
<1> DEFINE d == Tail(c)
<1>1. /\ d \in Seq(Tokens) /\ Len(c) \in Nat /\ Len(d) \in Nat /\ Len(d) = Len(c) - 1
      /\ \A i \in 1 .. Len(d) : d[i] = c[i + 1]
      /\ DOMAIN c = 1 .. Len(c) /\ DOMAIN d = 1 .. Len(d)
      BY HeadTailProperties, LenProperties
<1>2. Head(c) = c[1] /\ 1 \in 1 .. Len(c)
  <2>1. Len(c) # 0
        BY EmptySeq
  <2> QED BY <1>1, <2>1
<1>3. \A i \in 1 .. Len(d) : i + 1 \in 1 .. Len(c) /\ 1 <= i + 1
      BY <1>1
<1> HIDE DEF d
<1>4. ASSUME NEW n \in Numbers, Carries(d, n)
      PROVE  \E i \in 1 .. Len(c) : 1 <= i /\ c[i] = Packet(n)
  <2>1. PICK i \in 1 .. Len(d) : d[i] = Packet(n)
        BY <1>1, <1>4 DEF Carries
  <2> QED BY <1>1, <1>3, <2>1
<1>5. ASSUME Ascending(c) PROVE Ascending(d)
  <2> SUFFICES ASSUME NEW i \in 1 .. Len(d), NEW j \in 1 .. Len(d),
                      NEW a \in Numbers, NEW b \in Numbers,
                      i <= j, d[i] = Packet(a), d[j] = Packet(b)
               PROVE  a <= b
      BY DEF Ascending
  <2>1. i + 1 \in 1 .. Len(c) /\ j + 1 \in 1 .. Len(c) /\ i + 1 <= j + 1
        BY <1>3
  <2>2. c[i + 1] = Packet(a) /\ c[j + 1] = Packet(b)
        BY <1>1, Zenon
  <2> QED BY <1>5, <2>1, <2>2, Zenon DEF Ascending
<1>6. ASSUME Ascending(c), NEW a \in Numbers, NEW n \in Numbers, Head(c) = Packet(n), Carries(d, a)
      PROVE  n <= a
  <2>1. PICK i \in 1 .. Len(c) : 1 <= i /\ c[i] = Packet(a)
        BY <1>4, <1>6
  <2> QED BY <1>2, <1>6, <2>1, Zenon DEF Ascending
<1> QED BY <1>1, <1>2, <1>4, <1>5, <1>6 DEF Carries, d

(* How many tokens of a channel are among T.                                *)
Count(c, T) == Cardinality({i \in 1 .. Len(c) : c[i] \in T})

LEMMA CountGrows ==
  ASSUME NEW c \in Seq(Tokens), NEW e \in Tokens, NEW T
  PROVE  /\ Count(c, T) \in Nat
         /\ Count(Append(c, e), T) = Count(c, T) + (IF e \in T THEN 1 ELSE 0)
<1> DEFINE d == Append(c, e)
           l == Len(c)
           A == {i \in 1..l : c[i] \in T}
           B == {i \in 1 .. l + 1 : d[i] \in T}
<1>1. l \in Nat /\ Len(d) = l + 1 /\ d[l + 1] = e /\ \A i \in 1..l : d[i] = c[i]
      BY AppendProperties, LenProperties
<1>2. IsFiniteSet(A) /\ Cardinality(A) \in Nat
  <2>1. IsFiniteSet(1..l)
        BY <1>1, FS_Interval
  <2>2. A \in SUBSET (1..l)
        OBVIOUS
  <2> HIDE DEF A, l
  <2> QED BY <2>1, <2>2, FS_Subset, FS_CardinalityType
<1>3. Count(d, T) = Cardinality(B) /\ Count(c, T) = Cardinality(A)
      BY <1>1 DEF Count
<1> HIDE DEF d, l
<1>4. l + 1 \notin A
      BY <1>1
<1>5. B = IF e \in T THEN A \cup {l + 1} ELSE A
  <2>1. ASSUME NEW i \in 1 .. l + 1 PROVE i \in 1..l \/ i = l + 1
        BY <1>1
  <2>2. 1..l \subseteq 1 .. l + 1 /\ l + 1 \in 1 .. l + 1
        BY <1>1
  <2>3. CASE e \in T
    <3>1. \A i : i \in B <=> i \in A \cup {l + 1}
          BY <1>1, <2>1, <2>2, <2>3, Zenon
    <3> HIDE DEF A, B
    <3> QED BY <2>3, <3>1
  <2>4. CASE e \notin T
    <3>1. \A i : i \in B <=> i \in A
          BY <1>1, <2>1, <2>2, <2>4, Zenon
    <3> HIDE DEF A, B
    <3> QED BY <2>4, <3>1
  <2> QED BY <2>3, <2>4
<1> HIDE DEF A, B
<1>6. Cardinality(A \cup {l + 1}) = Cardinality(A) + 1
      BY <1>2, <1>4, FS_AddElement
<1> QED BY <1>2, <1>3, <1>5, <1>6 DEF d

LEMMA CountRead ==
  ASSUME NEW c \in Seq(Tokens), c # <<>>, NEW T
  PROVE  /\ Count(c, T) \in Nat /\ Count(Tail(c), T) \in Nat
         /\ Count(c, T) = Count(Tail(c), T) + (IF Head(c) \in T THEN 1 ELSE 0)
<1> DEFINE d == Tail(c)
           l == Len(d)
           A == {i \in 1..l : d[i] \in T}
           B == {i \in 1 .. l + 1 : c[i] \in T}
           C == {i \in 2 .. l + 1 : c[i] \in T}
<1>1. /\ d \in Seq(Tokens) /\ l \in Nat /\ Len(c) = l + 1 /\ Head(c) = c[1]
      /\ \A i \in 1..l : d[i] = c[i + 1]
  <2>1. /\ d \in Seq(Tokens) /\ Len(d) = Len(c) - 1
        /\ \A i \in 1 .. Len(d) : d[i] = c[i + 1]
        BY HeadTailProperties
  <2>2. Len(c) \in Nat /\ Len(d) \in Nat /\ Head(c) = c[1]
        BY <2>1, LenProperties
  <2> QED BY <2>1, <2>2
<1>2. IsFiniteSet(A) /\ IsFiniteSet(C)
  <2>1. IsFiniteSet(1..l) /\ IsFiniteSet(2 .. l + 1)
        BY <1>1, FS_Interval
  <2>2. A \in SUBSET (1..l) /\ C \in SUBSET (2 .. l + 1)
        OBVIOUS
  <2> HIDE DEF A, C, l
  <2> QED BY <2>1, <2>2, FS_Subset
<1>3. Count(c, T) = Cardinality(B) /\ Count(d, T) = Cardinality(A)
      BY <1>1 DEF Count
<1> HIDE DEF d, l
<1>4. Cardinality(C) = Cardinality(A)
  <2> DEFINE f == [i \in A |-> i + 1]
  <2>1. ASSUME NEW i \in A PROVE i + 1 \in C
        BY <1>1
  <2>2. ASSUME NEW j \in C PROVE j - 1 \in A /\ (j - 1) + 1 = j
    <3>1. j - 1 \in 1..l /\ (j - 1) + 1 = j /\ c[j] \in T
          BY <1>1
    <3>2. d[j - 1] = c[(j - 1) + 1]
          BY <1>1, <3>1, Zenon
    <3> QED BY <3>1, <3>2
  <2>3. \A i \in A : i \in Int
        BY <1>1
  <2> HIDE DEF A, C
  <2>4. f \in [A -> C]
        BY <2>1
  <2>5. \A i, j \in A : f[i] = f[j] => i = j
        BY <2>3
  <2>6. \A j \in C : \E i \in A : f[i] = j
        BY <2>2
  <2> HIDE DEF f
  <2>7. f \in Bijection(A, C)
        BY <2>4, <2>5, <2>6, Fun_IsBij
  <2> QED BY <1>2, <2>7, FS_Bijection DEF ExistsBijection
<1>5. B = IF Head(c) \in T THEN C \cup {1} ELSE C
  <2>1. ASSUME NEW i \in 1 .. l + 1 PROVE i \in 2 .. l + 1 \/ i = 1
        BY <1>1
  <2>2. 2 .. l + 1 \subseteq 1 .. l + 1 /\ 1 \in 1 .. l + 1
        BY <1>1
  <2>3. CASE Head(c) \in T
    <3>1. \A i : i \in B <=> i \in C \cup {1}
          BY <1>1, <2>1, <2>2, <2>3, Zenon
    <3> HIDE DEF B, C
    <3> QED BY <2>3, <3>1
  <2>4. CASE Head(c) \notin T
    <3>1. \A i : i \in B <=> i \in C
          BY <1>1, <2>1, <2>2, <2>4, Zenon
    <3> HIDE DEF B, C
    <3> QED BY <2>4, <3>1
  <2> QED BY <2>3, <2>4
<1>6. 1 \notin C
      OBVIOUS
<1> HIDE DEF A, B, C
<1>7. Cardinality(C \cup {1}) = Cardinality(C) + 1
      BY <1>2, <1>6, FS_AddElement
<1>8. Cardinality(A) \in Nat
      BY <1>2, FS_CardinalityType
<1> QED BY <1>3, <1>4, <1>5, <1>7, <1>8 DEF d

(* What is added to a channel.                                              *)
LEMMA Added ==
  ASSUME NEW c \in Seq(Tokens), NEW e \in Tokens
  PROVE  c \o <<>> = c /\ c \o <<e>> = Append(c, e)
BY ConcatEmptySeq, AppendIsConcat

LEMMA SimReceives ==
  ASSUME toSim \in Seq(Tokens), NEW n \in Numbers, Sent(toSim, <<>>, n)
  PROVE  \E e \in {Packet(n), Garbled} : e \in Tokens /\ toSim' = Append(toSim, e)
BY Added, TokenTypes DEF Sent, Numbers

LEMMA GdbReceives ==
  ASSUME toGdb \in Seq(Tokens), NEW t \in Seq(Tokens), NEW n \in Numbers, Sent(toGdb, t, n)
  PROVE  \E e \in {Packet(n), Garbled} : e \in Tokens /\ toGdb' = Append(toGdb \o t, e)
<1>1. toGdb \o t \in Seq(Tokens)
      OBVIOUS
<1> QED BY <1>1, Added, TokenTypes DEF Sent, Numbers

LEMMA ErrorsSent ==
  ASSUME TypeOK
  PROVE  LET c == toGdb \o Errors IN
         /\ c \in Seq(Tokens) /\ Errors \in Seq(Tokens)
         /\ Ascending(toGdb) => Ascending(c)
         /\ \A n \in Numbers : Carries(c, n) => Carries(toGdb, n)
         /\ Count(c, {Nak}) = Count(toGdb, {Nak}) + (IF len = 0 THEN 0 ELSE 1)
<1>1. toGdb \in Seq(Tokens) /\ Nak \in Tokens /\ len \in Nat
      BY TokenTypes DEF TypeOK
<1>2. CASE len = 0
  <2>1. Errors = <<>> /\ toGdb \o Errors = toGdb
        BY <1>1, <1>2, Added DEF Errors
  <2>2. Count(toGdb, {Nak}) \in Nat
        BY <1>1, CountGrows
  <2> QED BY <1>1, <1>2, <2>1, <2>2
<1>3. CASE len # 0
  <2>1. Errors = <<Nak>> /\ toGdb \o Errors = Append(toGdb, Nak)
        BY <1>1, <1>3, Added DEF Errors
  <2>2. \A n \in Numbers : Nak # Packet(n)
        BY Distinct
  <2>3. /\ Append(toGdb, Nak) \in Seq(Tokens)
        /\ \A n \in Numbers : Carries(Append(toGdb, Nak), n) => Carries(toGdb, n)
        /\ Ascending(toGdb) => Ascending(Append(toGdb, Nak))
        BY <1>1, <2>2, ChannelGrows
  <2>4. Count(Append(toGdb, Nak), {Nak}) = Count(toGdb, {Nak}) + 1
        BY <1>1, CountGrows
  <2>5. <<Nak>> \in Seq(Tokens)
        BY <1>1
  <2> QED BY <1>3, <2>1, <2>3, <2>4, <2>5
<1> QED BY <1>2, <1>3

(* The requests on their way are not executed yet, but for the last one     *)
(* that was, and so is the one that runs.                                   *)
RequestsInOrder ==
  /\ Ascending(toSim)
  /\ \A n \in Numbers : Carries(toSim, n) => n <= sent /\ serving <= n /\ last <= n
  /\ serving <= sent /\ last <= sent /\ (serving # 0 => last <= serving)

LEMMA RequestsInOrderStep ==
  TypeOK /\ Requested /\ RequestsInOrder /\ [Next]_vars => RequestsInOrder'
<1> SUFFICES ASSUME TypeOK, Requested, RequestsInOrder, [Next]_vars PROVE RequestsInOrder'
    OBVIOUS
<1>1. /\ sent \in Nat /\ serving \in Nat /\ last \in Nat /\ toSim \in Seq(Tokens)
      /\ \A n \in Numbers : n \in Nat
      BY DEF TypeOK, Numbers
<1>2. ASSUME NEW token, Matches(token)
      PROVE  /\ serving = 0 /\ Ascending(toSim')
             /\ \A n \in Numbers : Carries(toSim', n) => n <= sent /\ last <= n
             /\ \A n \in Numbers : token = Packet(n) =>
                  /\ n <= sent /\ last <= n
                  /\ \A a \in Numbers : Carries(toSim', a) => n <= a
      BY <1>1, <1>2, ChannelRead DEF Matches, RequestsInOrder
<1>3. ASSUME NEW e \in {Ack, Nak, Stray, Garbled}, toSim' = Append(toSim, e)
      PROVE  /\ Ascending(toSim')
             /\ \A n \in Numbers : Carries(toSim', n) => Carries(toSim, n)
      BY <1>1, <1>3, ChannelGrows, TokenTypes, Distinct DEF RequestsInOrder
<1>4. ASSUME NEW k \in Numbers, sent <= k, Sent(toSim, <<>>, k)
      PROVE  /\ Ascending(toSim')
             /\ \A n \in Numbers : Carries(toSim', n) => Carries(toSim, n) \/ n = k
  <2>1. PICK e \in {Packet(k), Garbled} : e \in Tokens /\ toSim' = Append(toSim, e)
        BY <1>1, <1>4, SimReceives
  <2>2. \A n \in Numbers : e = Packet(n) => n = k
        BY <2>1, Distinct
  <2>3. \A a, n \in Numbers : Carries(toSim, a) /\ e = Packet(n) => a <= n
        BY <1>1, <1>4, <2>2 DEF RequestsInOrder
  <2> QED BY <1>1, <2>1, <2>2, <2>3, ChannelGrows DEF RequestsInOrder
<1>5. CASE plus \/ minus \/ add_character_to_error \/ require_retransmission
  <2>1. \E token : Matches(token)
        BY <1>5 DEF plus, minus, add_character_to_error, require_retransmission
  <2>2. UNCHANGED <<serving, last, sent>>
        BY <1>5 DEF plus, minus, add_character_to_error, require_retransmission, client
  <2> QED BY <1>1, <1>2, <2>1, <2>2 DEF RequestsInOrder
<1>6. ASSUME NEW n \in 1..MaxRequests, packet_analysis(n) PROVE RequestsInOrder'
  <2>1. Matches(Packet(n)) /\ serving' = n /\ UNCHANGED <<last, sent>>
        BY <1>6 DEF packet_analysis, client
  <2>2. n \in Numbers
        BY DEF Numbers
  <2> QED BY <1>1, <1>2, <2>1, <2>2 DEF RequestsInOrder
<1>7. CASE send_buffer
  <2>1. serving # 0 /\ last' = serving /\ serving' = 0 /\ UNCHANGED <<toSim, sent>>
        BY <1>7 DEF send_buffer, client
  <2> QED BY <1>1, <2>1 DEF RequestsInOrder
<1>8. CASE Acknowledged \/ Ignores \/ UNCHANGED vars
  <2>1. UNCHANGED <<toSim, serving, last, sent>>
        BY <1>8 DEF Acknowledged, Ignores, vars, scanner, client
  <2> QED BY <2>1 DEF RequestsInOrder
<1>9. CASE DropsOldAnswer \/ Refuses \/ CtrlC \/ \E n \in 1..MaxRequests : Accepts(n)
  <2>1. /\ \E e \in {Ack, Nak, Stray, Garbled} : toSim' = Append(toSim, e)
        /\ UNCHANGED <<serving, last, sent>>
        BY <1>9 DEF DropsOldAnswer, Refuses, CtrlC, Accepts, scanner, client
  <2> QED BY <1>3, <2>1 DEF RequestsInOrder
<1>10. CASE Resends
  <2>1. Sent(toSim, <<>>, sent) /\ UNCHANGED <<serving, last, sent>>
        BY <1>10 DEF Resends, scanner, client
  <2>2. sent \in Numbers /\ sent <= sent
        BY <1>1, <1>10 DEF Resends, Requested, TypeOK, Numbers
  <2> QED BY <1>1, <1>4, <2>1, <2>2 DEF RequestsInOrder
<1>11. CASE Sends
  <2>1. Sent(toSim, <<>>, sent + 1) /\ sent' = sent + 1 /\ UNCHANGED <<serving, last>>
        BY <1>11 DEF Sends, scanner
  <2>2. sent + 1 \in Numbers /\ sent <= sent + 1
        BY <1>1, <1>11 DEF Sends, TypeOK, Numbers
  <2> QED BY <1>1, <1>4, <2>1, <2>2 DEF RequestsInOrder
<1> QED BY <1>5, <1>6, <1>7, <1>8, <1>9, <1>10, <1>11 DEF Next, Scanner, Receives

(* A number added to those of a history.                                    *)
LEMMA HistoryGrows ==
  ASSUME NEW s \in Seq(Numbers), NEW n \in Numbers
  PROVE  /\ Append(s, n) \in Seq(Numbers) /\ Len(Append(s, n)) = Len(s) + 1
         /\ \E i \in DOMAIN Append(s, n) : Append(s, n)[i] = n
         /\ \A i \in DOMAIN s : \E j \in DOMAIN Append(s, n) : Append(s, n)[j] = s[i]
         /\ \A j \in DOMAIN Append(s, n) :
              Append(s, n)[j] = n \/ \E i \in DOMAIN s : Append(s, n)[j] = s[i]
         /\ Sorted(s) /\ (\A i \in DOMAIN s : s[i] <= n) => Sorted(Append(s, n))
<1> DEFINE d == Append(s, n)
<1>1. /\ d \in Seq(Numbers) /\ Len(s) \in Nat /\ Len(d) = Len(s) + 1
      /\ \A i \in 1 .. Len(s) : d[i] = s[i]
      /\ d[Len(s) + 1] = n /\ DOMAIN s = 1 .. Len(s) /\ DOMAIN d = 1 .. Len(d)
      BY AppendProperties, LenProperties
<1> HIDE DEF d
<1>2. /\ \A i \in DOMAIN s : i \in DOMAIN d /\ d[i] = s[i]
      /\ \A i \in DOMAIN d : i \in DOMAIN s \/ i = Len(s) + 1
      /\ Len(s) + 1 \in DOMAIN d
      /\ \A i \in DOMAIN d : Len(s) + 1 <= i => i = Len(s) + 1
      /\ \A i \in DOMAIN s : ~ Len(s) + 1 <= i
      /\ n <= n
      BY <1>1 DEF Numbers
<1>3. ASSUME Sorted(s), \A i \in DOMAIN s : s[i] <= n PROVE Sorted(d)
  <2> SUFFICES ASSUME NEW i \in DOMAIN d, NEW j \in DOMAIN d, i <= j PROVE d[i] <= d[j]
      BY DEF Sorted
  <2> QED BY <1>1, <1>2, <1>3, Zenon DEF Sorted
<1> QED BY <1>1, <1>2, <1>3, Zenon DEF d

(* What was executed, and what gdb was told of it.                          *)
Executed(n) == \E i \in DOMAIN executed : executed[i] = n
ExecutionsInOrder ==
  /\ Sorted(executed) /\ (last # 0 => Executed(last))
  /\ \A i \in DOMAIN executed : executed[i] <= last
AnswersInOrder ==
  /\ Ascending(toGdb) /\ Sorted(answers)
  /\ \A n \in Numbers : Carries(toGdb, n) =>
       n <= last /\ Executed(n) /\ \A i \in DOMAIN answers : answers[i] <= n
  /\ \A i \in DOMAIN answers : answers[i] <= last /\ Executed(answers[i])

(* A handler that ends: the request becomes the last one executed.          *)
LEMMA HandlerEnds ==
  ASSUME TypeOK, RequestsInOrder, ExecutionsInOrder, send_buffer
  PROVE  /\ serving \in Numbers /\ last <= serving
         /\ ExecutionsInOrder' /\ Len(executed') = Len(executed) + 1
         /\ \A n : Executed(n) => Executed(n)'
         /\ last' = serving /\ Executed(last)'
<1>1. /\ executed' = Append(executed, serving) /\ last' = serving
      /\ serving \in Numbers /\ last <= serving
      /\ executed \in Seq(Numbers) /\ last \in Nat
      BY DEF send_buffer, TypeOK, RequestsInOrder, Numbers
<1>2. \A i \in DOMAIN executed : executed[i] <= serving /\ executed[i] \in Numbers
      BY <1>1, LenProperties, ElementOfSeq DEF ExecutionsInOrder, Numbers
<1>3. serving <= serving
      BY <1>1 DEF Numbers
<1>4. /\ Len(executed') = Len(executed) + 1
      /\ \E i \in DOMAIN executed' : executed'[i] = serving
      /\ \A i \in DOMAIN executed : \E j \in DOMAIN executed' : executed'[j] = executed[i]
      /\ \A j \in DOMAIN executed' :
           executed'[j] = serving \/ \E i \in DOMAIN executed : executed'[j] = executed[i]
      /\ Sorted(executed')
  <2>1. Sorted(executed) /\ \A i \in DOMAIN executed : executed[i] <= serving
        BY <1>2 DEF ExecutionsInOrder
  <2> QED BY <1>1, <2>1, HistoryGrows, Zenon
<1>5. (\A n : Executed(n) => Executed(n)') /\ last' = serving /\ Executed(last)'
  <2>1. ASSUME NEW n, Executed(n) PROVE Executed(n)'
    <3>1. PICK i \in DOMAIN executed : executed[i] = n
          BY <2>1 DEF Executed
    <3>2. PICK j \in DOMAIN executed' : executed'[j] = n
          BY <1>4, <3>1, Zenon
    <3> QED BY <3>2, Zenon DEF Executed
  <2>2. Executed(last)'
        BY <1>1, <1>4, Zenon DEF Executed
  <2> QED BY <1>1, <2>1, <2>2
<1>6. \A j \in DOMAIN executed' : executed'[j] <= serving
      BY <1>2, <1>3, <1>4
<1>7. \E i \in DOMAIN executed' : executed'[i] = last'
      BY <1>1, <1>4, Zenon
<1>8. ExecutionsInOrder'
      BY <1>1, <1>4, <1>6, <1>7, Zenon DEF ExecutionsInOrder, Executed
<1> QED BY <1>1, <1>4, <1>5, <1>8

LEMMA ExecutionsInOrderStep ==
  TypeOK /\ RequestsInOrder /\ ExecutionsInOrder /\ [Next]_vars => ExecutionsInOrder'
<1> SUFFICES ASSUME TypeOK, RequestsInOrder, ExecutionsInOrder, [Next]_vars, ~ send_buffer
             PROVE  ExecutionsInOrder'
    BY HandlerEnds
<1>1. UNCHANGED <<last, executed>>
      BY DEF Next, Scanner, plus, minus, add_character_to_error, require_retransmission,
             packet_analysis, Receives, Acknowledged, Resends, DropsOldAnswer, Ignores, Refuses,
             Accepts, Sends, CtrlC, scanner, vars
<1> QED BY <1>1 DEF ExecutionsInOrder, Executed

LEMMA AnswersInOrderStep ==
  TypeOK /\ RequestsInOrder /\ ExecutionsInOrder /\ AnswersInOrder /\ [Next]_vars
    => AnswersInOrder'
<1> SUFFICES ASSUME TypeOK, RequestsInOrder, ExecutionsInOrder, AnswersInOrder, [Next]_vars
             PROVE  AnswersInOrder'
    OBVIOUS
<1>1. /\ last \in Nat /\ toGdb \in Seq(Tokens) /\ answers \in Seq(Numbers)
      /\ \A i \in DOMAIN answers : answers[i] \in Numbers
      /\ \A n \in Numbers : n \in Nat /\ n <= n
      BY LenProperties, ElementOfSeq DEF TypeOK, Numbers
<1> DEFINE c == toGdb \o Errors
<1>2. /\ c \in Seq(Tokens) /\ Ascending(c)
      /\ \A n \in Numbers : Carries(c, n) => Carries(toGdb, n)
      BY ErrorsSent DEF AnswersInOrder
<1>3. c \o <<Ack>> = Append(c, Ack) /\ c \o <<Nak>> = Append(c, Nak)
      BY <1>2, Added, TokenTypes
<1> HIDE DEF c
<1>4. ASSUME UNCHANGED <<last, executed, answers>>, Ascending(toGdb'),
             \A n \in Numbers : Carries(toGdb', n) => Carries(toGdb, n) \/ n = last
      PROVE  AnswersInOrder'
  <2>1. ASSUME NEW n \in Numbers, Carries(toGdb', n)
        PROVE  n <= last /\ Executed(n) /\ \A i \in DOMAIN answers : answers[i] <= n
    <3>1. CASE Carries(toGdb, n)
          BY <3>1 DEF AnswersInOrder
    <3>2. CASE n = last
      <4>1. last # 0
            BY <3>2 DEF Numbers
      <4> QED BY <1>1, <3>2, <4>1 DEF AnswersInOrder, ExecutionsInOrder
    <3> QED BY <1>4, <2>1, <3>1, <3>2
  <2> QED BY <1>4, <2>1 DEF AnswersInOrder, Executed
<1>5. ASSUME NEW d \in Seq(Tokens), Ascending(d),
             \A n \in Numbers : Carries(d, n) => Carries(toGdb, n),
             NEW e \in {Ack, Nak, Garbled}, toGdb' = Append(d, e)
      PROVE  /\ Ascending(toGdb')
             /\ \A n \in Numbers : Carries(toGdb', n) => Carries(toGdb, n)
      BY <1>5, ChannelGrows, TokenTypes, Distinct
<1>6. CASE plus \/ add_character_to_error
  <2>1. (toGdb' = c \/ toGdb' = toGdb) /\ UNCHANGED <<last, executed, answers>>
        BY <1>6 DEF plus, add_character_to_error, client, c
  <2>2. Ascending(toGdb') /\ \A n \in Numbers : Carries(toGdb', n) => Carries(toGdb, n)
        BY <1>2, <2>1 DEF AnswersInOrder
  <2> QED BY <1>4, <2>1, <2>2
<1>7. CASE require_retransmission \/ \E n \in 1..MaxRequests : packet_analysis(n)
  <2>1. /\ \E e \in {Ack, Nak, Garbled} : toGdb' = Append(c, e)
        /\ UNCHANGED <<last, executed, answers>>
        BY <1>3, <1>7 DEF require_retransmission, packet_analysis, client, c
  <2>2. Ascending(toGdb') /\ \A n \in Numbers : Carries(toGdb', n) => Carries(toGdb, n)
        BY <1>2, <1>5, <2>1
  <2> QED BY <1>4, <2>1, <2>2
<1>8. CASE minus
  <2>1. UNCHANGED <<last, executed, answers>>
        BY <1>8 DEF minus, client
  <2>2. /\ Ascending(toGdb')
        /\ \A n \in Numbers : Carries(toGdb', n) => Carries(toGdb, n) \/ n = last
    <3>1. CASE last = 0
          BY <1>2, <1>8, <3>1 DEF minus, c
    <3>2. CASE last # 0
      <4>1. last \in Numbers /\ Sent(toGdb, Errors, last) /\ Errors \in Seq(Tokens)
            BY <1>8, <3>2, ErrorsSent DEF minus, TypeOK, Numbers
      <4>2. PICK e \in {Packet(last), Garbled} : e \in Tokens /\ toGdb' = Append(c, e)
            BY <1>1, <4>1, GdbReceives DEF c
      <4>3. \A n \in Numbers : e = Packet(n) => n = last
            BY <4>2, Distinct
      <4>4. \A a, n \in Numbers : Carries(c, a) /\ e = Packet(n) => a <= n
            BY <1>2, <4>3 DEF AnswersInOrder
      <4> QED BY <1>2, <4>2, <4>3, <4>4, ChannelGrows
    <3> QED BY <3>1, <3>2
  <2> QED BY <1>4, <2>1, <2>2
<1>9. CASE send_buffer
  <2>1. /\ serving \in Numbers /\ last <= serving /\ last' = serving
        /\ (\A n : Executed(n) => Executed(n)') /\ Executed(last)'
        BY <1>9, HandlerEnds
  <2>2. Sent(toGdb, <<>>, serving) /\ UNCHANGED answers /\ <<>> \in Seq(Tokens)
        BY <1>9 DEF send_buffer, client
  <2>3. PICK e \in {Packet(serving), Garbled} : e \in Tokens /\ toGdb' = Append(toGdb, e)
    <3>1. toGdb \o <<>> = toGdb
          BY <1>1, Added, TokenTypes
    <3> QED BY <1>1, <2>1, <2>2, <3>1, GdbReceives
  <2>4. \A n \in Numbers : e = Packet(n) => n = serving
        BY <2>3, Distinct
  <2>5. \A a \in Numbers : Carries(toGdb, a) => a <= serving
        BY <1>1, <2>1 DEF AnswersInOrder
  <2>6. \A a, n \in Numbers : Carries(toGdb, a) /\ e = Packet(n) => a <= n
        BY <2>4, <2>5
  <2>7. /\ Ascending(toGdb')
        /\ \A n \in Numbers : Carries(toGdb', n) => Carries(toGdb, n) \/ n = serving
        BY <1>1, <2>3, <2>4, <2>6, ChannelGrows DEF AnswersInOrder
  <2>8. \A i \in DOMAIN answers : answers[i] <= serving
        BY <1>1, <2>1 DEF AnswersInOrder
  <2>9. ASSUME NEW n \in Numbers, Carries(toGdb', n)
        PROVE  n <= last' /\ Executed(n)' /\ \A i \in DOMAIN answers : answers[i] <= n
    <3>1. CASE Carries(toGdb, n)
          BY <2>1, <2>5, <3>1 DEF AnswersInOrder
    <3>2. CASE n = serving
      <4>1. Executed(n)'
            BY <2>1, <3>2, Zenon DEF Executed
      <4> QED BY <1>1, <2>1, <2>8, <3>2, <4>1
    <3> QED BY <2>7, <2>9, <3>1, <3>2
  <2>10. \A i \in DOMAIN answers : \E j \in DOMAIN executed' : executed'[j] = answers[i]
    <3> SUFFICES ASSUME NEW i \in DOMAIN answers
                 PROVE  \E j \in DOMAIN executed' : executed'[j] = answers[i]
        OBVIOUS
    <3>1. Executed(answers[i])
          BY DEF AnswersInOrder
    <3>2. \A n : Executed(n) => \E j \in DOMAIN executed' : executed'[j] = n
          BY <2>1 DEF Executed
    <3> QED BY <3>1, <3>2
  <2> QED BY <2>1, <2>2, <2>7, <2>8, <2>9, <2>10 DEF AnswersInOrder, Executed
<1>10. ASSUME NEW n \in 1..MaxRequests, Accepts(n) PROVE AnswersInOrder'
  <2>1. /\ toGdb # <<>> /\ Head(toGdb) = Packet(n) /\ toGdb' = Tail(toGdb)
        /\ answers' = Append(answers, n) /\ UNCHANGED <<last, executed>> /\ n \in Numbers
        BY <1>10 DEF Accepts, Reads, scanner, Numbers
  <2>2. /\ Ascending(toGdb') /\ Carries(toGdb, n)
        /\ \A a \in Numbers : Carries(toGdb', a) => Carries(toGdb, a) /\ n <= a
        BY <1>1, <2>1, ChannelRead DEF AnswersInOrder
  <2>3. n <= last /\ Executed(n) /\ \A i \in DOMAIN answers : answers[i] <= n
        BY <2>1, <2>2 DEF AnswersInOrder
  <2>4. /\ Sorted(answers')
        /\ \A j \in DOMAIN answers' :
             answers'[j] = n \/ \E i \in DOMAIN answers : answers'[j] = answers[i]
    <3>1. Sorted(answers)
          BY DEF AnswersInOrder
    <3> QED BY <1>1, <2>1, <2>3, <3>1, HistoryGrows, Zenon
  <2>5. \A j \in DOMAIN answers' : answers'[j] <= last /\ Executed(answers'[j])
        BY <2>3, <2>4 DEF AnswersInOrder
  <2>6. ASSUME NEW a \in Numbers, Carries(toGdb', a)
        PROVE  a <= last /\ Executed(a) /\ \A j \in DOMAIN answers' : answers'[j] <= a
    <3>1. Carries(toGdb, a) /\ n <= a
          BY <2>2, <2>6
    <3> QED BY <2>4, <3>1 DEF AnswersInOrder
  <2> QED BY <2>1, <2>2, <2>4, <2>5, <2>6 DEF AnswersInOrder, Executed
<1>11. CASE Acknowledged \/ Resends \/ DropsOldAnswer \/ Ignores \/ Refuses
  <2>1. /\ toGdb # <<>> /\ toGdb' = Tail(toGdb)
        /\ UNCHANGED <<last, executed, answers>>
        BY <1>11 DEF Acknowledged, Resends, DropsOldAnswer, Ignores, Refuses, Reads, scanner, client
  <2>2. Ascending(toGdb') /\ \A n \in Numbers : Carries(toGdb', n) => Carries(toGdb, n)
        BY <1>1, <2>1, ChannelRead DEF AnswersInOrder
  <2> QED BY <1>4, <2>1, <2>2
<1>12. CASE Sends \/ CtrlC \/ UNCHANGED vars
  <2>1. UNCHANGED <<toGdb, last, executed, answers>>
        BY <1>12 DEF Sends, CtrlC, scanner, client, vars
  <2> QED BY <2>1 DEF AnswersInOrder, Executed
<1> QED BY <1>6, <1>7, <1>8, <1>9, <1>10, <1>11, <1>12 DEF Next, Scanner, Receives

(* What may still make for an execution: a request on its way, whole or     *)
(* garbled, or the one that runs; a character that may have a request       *)
(* refused, sent or in the error buffer; a refusal sent.  Each has been     *)
(* paid for by a request or by a stray character.                           *)
Due == {Stray, Garbled} \cup {Packet(n) : n \in Numbers}
Running == IF serving = 0 THEN 0 ELSE 1
Received == IF len = 0 THEN 0 ELSE 1
ExecutionsPaidFor ==
  Len(executed) + Running + Received + Count(toSim, Due) + Count(toGdb, {Nak})
    <= sent + strays

LEMMA ExecutionsPaidForStep ==
  TypeOK /\ Requested /\ ExecutionsPaidFor /\ [Next]_vars => ExecutionsPaidFor'
<1> SUFFICES ASSUME TypeOK, Requested, ExecutionsPaidFor, [Next]_vars
             PROVE  Len(executed') + Running' + Received' + Count(toSim', Due)
                      + Count(toGdb', {Nak}) <= sent' + strays'
    BY DEF ExecutionsPaidFor
<1> DEFINE c == toGdb \o Errors
           x == Len(executed)
           s == Count(toSim, Due)
           g == Count(toGdb, {Nak})
<1>1. /\ sent \in Nat /\ strays \in Nat /\ serving \in Nat /\ len \in Nat
      /\ x \in Nat /\ toSim \in Seq(Tokens) /\ toGdb \in Seq(Tokens)
      BY LenProperties DEF TypeOK
<1>2. /\ Stray \in Due /\ Garbled \in Due /\ \A n \in Numbers : Packet(n) \in Due
      /\ Ack \notin Due /\ Nak \notin Due
      BY Distinct DEF Due
<1>3. s \in Nat /\ g \in Nat /\ Running \in {0, 1} /\ Received \in {0, 1}
      BY <1>1, CountGrows, TokenTypes DEF Running, Received
<1>4. /\ c \in Seq(Tokens) /\ Count(c, {Nak}) = g + Received
      /\ c \o <<Ack>> = Append(c, Ack) /\ c \o <<Nak>> = Append(c, Nak)
  <2>1. c \in Seq(Tokens) /\ Count(c, {Nak}) = g + Received
        BY ErrorsSent DEF Received
  <2> QED BY <2>1, Added, TokenTypes
<1>5. x + Running + Received + s + g <= sent + strays
      BY DEF ExecutionsPaidFor
<1> HIDE DEF c, x, s, g
<1>6. ASSUME NEW token, Matches(token)
      PROVE  /\ serving = 0 /\ Count(toSim', Due) \in Nat
             /\ s = Count(toSim', Due) + (IF token \in Due THEN 1 ELSE 0)
      BY <1>1, <1>6, CountRead DEF Matches, s
<1>7. ASSUME NEW e \in Tokens, toSim' = Append(toSim, e)
      PROVE  Count(toSim', Due) = s + (IF e \in Due THEN 1 ELSE 0)
      BY <1>1, <1>7, CountGrows DEF s
<1>8. ASSUME NEW e \in Tokens, toGdb' = Append(c, e)
      PROVE  /\ e = Nak => Count(toGdb', {Nak}) = g + Received + 1
             /\ e # Nak => Count(toGdb', {Nak}) = g + Received
  <2>1. Count(toGdb', {Nak}) = g + Received + (IF e \in {Nak} THEN 1 ELSE 0)
        BY <1>4, <1>8, CountGrows
  <2> QED BY <1>3, <2>1
<1>9. ASSUME NEW e, toGdb # <<>>, Head(toGdb) = e, toGdb' = Tail(toGdb)
      PROVE  /\ Count(toGdb', {Nak}) \in Nat
             /\ e = Nak => g = Count(toGdb', {Nak}) + 1
             /\ Count(toGdb', {Nak}) <= g
  <2>1. /\ Count(toGdb', {Nak}) \in Nat
        /\ g = Count(toGdb', {Nak}) + (IF e \in {Nak} THEN 1 ELSE 0)
        BY <1>1, <1>9, CountRead DEF g
  <2> QED BY <1>3, <2>1
<1>10. CASE plus
  <2>1. /\ Matches(Ack) /\ toGdb' = c /\ len' = 0
        /\ UNCHANGED <<serving, executed, sent, strays>>
        BY <1>10 DEF plus, client, c
  <2>2. /\ Len(executed') = x /\ Running' = Running /\ Received' = 0
        /\ sent' = sent /\ strays' = strays
        BY <2>1 DEF Running, Received, x
  <2>3. Count(toSim', Due) \in Nat /\ s = Count(toSim', Due)
        BY <1>2, <1>6, <2>1
  <2>4. Count(toGdb', {Nak}) = g + Received
        BY <1>4, <2>1
  <2> QED BY <1>1, <1>3, <1>5, <2>2, <2>3, <2>4
<1>11. CASE minus
  <2>1. Matches(Nak) /\ len' = 0 /\ UNCHANGED <<serving, executed, sent, strays>>
        BY <1>11 DEF minus, client
  <2>2. /\ Len(executed') = x /\ Running' = Running /\ Received' = 0
        /\ sent' = sent /\ strays' = strays
        BY <2>1 DEF Running, Received, x
  <2>3. Count(toSim', Due) \in Nat /\ s = Count(toSim', Due)
        BY <1>2, <1>6, <2>1
  <2>4. Count(toGdb', {Nak}) = g + Received
    <3>1. CASE last = 0
      <4>1. toGdb' = c
            BY <1>11, <3>1 DEF minus, c
      <4> QED BY <1>4, <4>1
    <3>2. CASE last # 0
      <4>1. last \in Numbers /\ Sent(toGdb, Errors, last) /\ Errors \in Seq(Tokens)
            BY <1>11, <3>2, ErrorsSent DEF minus, TypeOK, Numbers
      <4>2. PICK e \in {Packet(last), Garbled} : e \in Tokens /\ toGdb' = Append(c, e)
            BY <1>1, <4>1, GdbReceives DEF c
      <4>3. e # Nak
            BY <4>2, Distinct
      <4> QED BY <1>3, <1>8, <4>2, <4>3
    <3> QED BY <3>1, <3>2
  <2> QED BY <1>1, <1>3, <1>5, <2>2, <2>3, <2>4
<1>12. CASE add_character_to_error
  <2>1. Matches(Stray) /\ UNCHANGED <<serving, executed, sent, strays>>
        BY <1>12 DEF add_character_to_error, client
  <2>2. /\ Len(executed') = x /\ Running' = Running
        /\ sent' = sent /\ strays' = strays
        BY <2>1 DEF Running, x
  <2>3. Count(toSim', Due) \in Nat /\ s = Count(toSim', Due) + 1
        BY <1>2, <1>6, <2>1
  <2>4. CASE len > MaxErrorSize - 2
    <3>1. toGdb' = c /\ len' = 1
          BY <1>12, <2>4 DEF add_character_to_error, c
    <3>2. Count(toGdb', {Nak}) = g + Received /\ Received' = 1
          BY <1>4, <3>1 DEF Received
    <3> QED BY <1>1, <1>3, <1>5, <2>2, <2>3, <3>2
  <2>5. CASE ~ len > MaxErrorSize - 2
    <3>1. toGdb' = toGdb /\ len' = len + 1
          BY <1>12, <2>5 DEF add_character_to_error
    <3>2. Count(toGdb', {Nak}) = g /\ Received' = 1
          BY <1>1, <3>1 DEF Received, g
    <3> QED BY <1>1, <1>3, <1>5, <2>2, <2>3, <3>2
  <2> QED BY <2>4, <2>5
<1>13. CASE require_retransmission
  <2>1. /\ Matches(Garbled) /\ toGdb' = Append(c, Nak) /\ len' = 0
        /\ UNCHANGED <<serving, executed, sent, strays>>
        BY <1>4, <1>13 DEF require_retransmission, client, c
  <2>2. /\ Len(executed') = x /\ Running' = Running /\ Received' = 0
        /\ sent' = sent /\ strays' = strays
        BY <2>1 DEF Running, Received, x
  <2>3. Count(toSim', Due) \in Nat /\ s = Count(toSim', Due) + 1
        BY <1>2, <1>6, <2>1
  <2>4. Count(toGdb', {Nak}) = g + Received + 1
        BY <1>8, <2>1, TokenTypes
  <2> QED BY <1>1, <1>3, <1>5, <2>2, <2>3, <2>4
<1>14. CASE \E n \in 1..MaxRequests : packet_analysis(n)
  <2>1. PICK n \in Numbers : packet_analysis(n)
        BY <1>14 DEF Numbers
  <2>2. /\ Matches(Packet(n)) /\ toGdb' = Append(c, Ack) /\ len' = 0 /\ serving' = n
        /\ UNCHANGED <<executed, sent, strays>>
        BY <1>4, <2>1 DEF packet_analysis, client, c
  <2>3. /\ Len(executed') = x /\ Running = 0 /\ Running' = 1 /\ Received' = 0
        /\ sent' = sent /\ strays' = strays
        BY <1>6, <2>2 DEF Running, Received, x, Numbers
  <2>4. Count(toSim', Due) \in Nat /\ s = Count(toSim', Due) + 1
        BY <1>2, <1>6, <2>2
  <2>5. Count(toGdb', {Nak}) = g + Received
        BY <1>3, <1>8, <2>2, TokenTypes, Distinct
  <2> QED BY <1>1, <1>3, <1>5, <2>3, <2>4, <2>5
<1>15. CASE send_buffer
  <2>1. /\ serving \in Numbers /\ serving' = 0 /\ executed' = Append(executed, serving)
        /\ executed \in Seq(Numbers) /\ Sent(toGdb, <<>>, serving) /\ <<>> \in Seq(Tokens)
        /\ UNCHANGED <<toSim, len, sent, strays>>
        BY <1>15 DEF send_buffer, client, TypeOK, Numbers
  <2>2. Len(executed') = x + 1
        BY <2>1 DEF x
  <2>3. /\ Running = 1 /\ Running' = 0 /\ Received' = Received /\ Count(toSim', Due) = s
        /\ sent' = sent /\ strays' = strays
        BY <2>1 DEF Running, Received, s, Numbers
  <2>4. Count(toGdb', {Nak}) = g
    <3>1. PICK e \in {Packet(serving), Garbled} :
            e \in Tokens /\ toGdb' = Append(toGdb \o <<>>, e)
          BY <1>1, <2>1, GdbReceives
    <3>2. toGdb' = Append(toGdb, e) /\ e \notin {Nak}
          BY <1>1, <3>1, Added, TokenTypes, Distinct
    <3>3. Count(Append(toGdb, e), {Nak}) = Count(toGdb, {Nak}) + 0
          BY <1>1, <3>1, <3>2, CountGrows
    <3> QED BY <1>3, <3>2, <3>3 DEF g
  <2> QED BY <1>1, <1>3, <1>5, <2>2, <2>3, <2>4
<1>16. CASE Acknowledged \/ Ignores
  <2>1. /\ toGdb # <<>> /\ toGdb' = Tail(toGdb)
        /\ UNCHANGED <<toSim, serving, len, executed, sent, strays>>
        BY <1>16 DEF Acknowledged, Ignores, Reads, scanner, client
  <2>2. /\ Len(executed') = x /\ Running' = Running /\ Received' = Received
        /\ Count(toSim', Due) = s
        /\ sent' = sent /\ strays' = strays
        BY <2>1 DEF Running, Received, x, s
  <2>3. Count(toGdb', {Nak}) \in Nat /\ Count(toGdb', {Nak}) <= g
        BY <1>9, <2>1
  <2> QED BY <1>1, <1>3, <1>5, <2>2, <2>3
<1>17. CASE Resends
  <2>1. /\ toGdb # <<>> /\ Head(toGdb) = Nak /\ toGdb' = Tail(toGdb) /\ Sent(toSim, <<>>, sent)
        /\ UNCHANGED <<serving, len, executed, sent, strays>>
        BY <1>17 DEF Resends, Reads, scanner, client
  <2>2. /\ Len(executed') = x /\ Running' = Running /\ Received' = Received
        /\ sent' = sent /\ strays' = strays
        BY <2>1 DEF Running, Received, x
  <2>3. sent \in Numbers
        BY <1>1, <1>17 DEF Resends, Requested, TypeOK, Numbers
  <2>4. PICK e \in {Packet(sent), Garbled} : e \in Tokens /\ toSim' = Append(toSim, e)
        BY <1>1, <2>1, <2>3, SimReceives
  <2>5. Count(toSim', Due) = s + 1
        BY <1>2, <1>7, <2>3, <2>4
  <2>6. Count(toGdb', {Nak}) \in Nat /\ g = Count(toGdb', {Nak}) + 1
        BY <1>9, <2>1
  <2> QED BY <1>1, <1>3, <1>5, <2>2, <2>5, <2>6
<1>18. CASE DropsOldAnswer \/ Refuses \/ \E n \in 1..MaxRequests : Accepts(n)
  <2>1. /\ toGdb # <<>> /\ toGdb' = Tail(toGdb)
        /\ \E e \in {Ack, Nak} : toSim' = Append(toSim, e)
        /\ UNCHANGED <<serving, len, executed, sent, strays>>
        BY <1>18 DEF DropsOldAnswer, Refuses, Accepts, Reads, scanner, client
  <2>2. /\ Len(executed') = x /\ Running' = Running /\ Received' = Received
        /\ sent' = sent /\ strays' = strays
        BY <2>1 DEF Running, Received, x
  <2>3. Count(toSim', Due) = s
        BY <1>2, <1>3, <1>7, <2>1, TokenTypes
  <2>4. Count(toGdb', {Nak}) \in Nat /\ Count(toGdb', {Nak}) <= g
        BY <1>9, <2>1
  <2> QED BY <1>1, <1>3, <1>5, <2>2, <2>3, <2>4
<1>19. CASE Sends
  <2>1. /\ Sent(toSim, <<>>, sent + 1) /\ sent' = sent + 1 /\ sent + 1 \in Numbers
        /\ UNCHANGED <<toGdb, serving, len, executed, strays>>
        BY <1>1, <1>19 DEF Sends, scanner, TypeOK, Numbers
  <2>2. /\ Len(executed') = x /\ Running' = Running /\ Received' = Received
        /\ Count(toGdb', {Nak}) = g
        /\ sent' = sent + 1 /\ strays' = strays
        BY <2>1 DEF Running, Received, x, g
  <2>3. PICK e \in {Packet(sent + 1), Garbled} : e \in Tokens /\ toSim' = Append(toSim, e)
        BY <1>1, <2>1, SimReceives
  <2>4. Count(toSim', Due) = s + 1
        BY <1>2, <1>7, <2>1, <2>3
  <2> QED BY <1>1, <1>3, <1>5, <2>2, <2>4
<1>20. CASE CtrlC
  <2>1. /\ toSim' = Append(toSim, Stray) /\ strays' = strays + 1
        /\ UNCHANGED <<toGdb, serving, len, executed, sent>>
        BY <1>20 DEF CtrlC, scanner
  <2>2. /\ Len(executed') = x /\ Running' = Running /\ Received' = Received
        /\ Count(toGdb', {Nak}) = g
        /\ sent' = sent /\ strays' = strays + 1
        BY <2>1 DEF Running, Received, x, g
  <2>3. Count(toSim', Due) = s + 1
        BY <1>2, <1>7, <2>1, TokenTypes
  <2> QED BY <1>1, <1>3, <1>5, <2>2, <2>3
<1>21. CASE UNCHANGED vars
  <2>1. UNCHANGED <<toSim, toGdb, serving, len, executed, sent, strays>>
        BY <1>21 DEF vars, scanner, client
  <2>2. /\ Len(executed') = x /\ Running' = Running /\ Received' = Received
        /\ Count(toSim', Due) = s /\ Count(toGdb', {Nak}) = g
        /\ sent' = sent /\ strays' = strays
        BY <2>1 DEF Running, Received, x, s, g
  <2> QED BY <1>5, <2>2
<1> QED BY <1>10, <1>11, <1>12, <1>13, <1>14, <1>15, <1>16, <1>17, <1>18, <1>19, <1>20, <1>21
        DEF Next, Scanner, Receives

LEMMA InOrderInit ==
  Init => RequestsInOrder /\ ExecutionsInOrder /\ AnswersInOrder /\ ExecutionsPaidFor
<1> SUFFICES ASSUME Init
             PROVE  RequestsInOrder /\ ExecutionsInOrder /\ AnswersInOrder /\ ExecutionsPaidFor
    OBVIOUS
<1> USE DEF Init
<1>1. Count(<<>>, Due) = 0 /\ Count(<<>>, {Nak}) = 0
  <2>1. \A T : {i \in 1 .. Len(<<>>) : <<>>[i] \in T} = {}
        OBVIOUS
  <2> QED BY <2>1, FS_EmptySet DEF Count
<1>2. RequestsInOrder /\ ExecutionsInOrder /\ AnswersInOrder
      BY DEF RequestsInOrder, ExecutionsInOrder, AnswersInOrder, Ascending, Sorted, Carries
<1> QED BY <1>1, <1>2 DEF ExecutionsPaidFor, Running, Received

LEMMA InOrderEnough ==
  TypeOK /\ ExecutionsInOrder /\ AnswersInOrder /\ ExecutionsPaidFor => AtMostOneMore
<1> SUFFICES ASSUME TypeOK, ExecutionsInOrder, AnswersInOrder, ExecutionsPaidFor
             PROVE  AtMostOneMore
    OBVIOUS
<1>1. Len(executed) <= sent + strays
  <2>1. Count(toSim, Due) \in Nat /\ Count(toGdb, {Nak}) \in Nat
        BY CountGrows, TokenTypes DEF TypeOK
  <2>2. Len(executed) \in Nat /\ sent \in Nat /\ strays \in Nat
        BY LenProperties DEF TypeOK
  <2>3. Running \in {0, 1} /\ Received \in {0, 1}
        BY DEF Running, Received
  <2> QED BY <2>1, <2>2, <2>3 DEF ExecutionsPaidFor
<1> QED BY <1>1 DEF AtMostOneMore, ExecutionsInOrder, AnswersInOrder, Executed

(* Ctrl-C or not, and however many packets are corrupted: requests are      *)
(* executed in the order gdb sent them, what gdb accepts are answers, in    *)
(* that order, to requests that were executed, and there are no more        *)
(* executions than requests and stray characters together.                  *)
THEOREM CtrlCCostsOne == Spec => []AtMostOneMore
<1>1. TypeOK /\ Requested /\ [Next]_vars => Requested'
      BY RequestedStep
<1> QED BY <1>1, TypeInit, InOrderInit, RequestsInOrderStep, ExecutionsInOrderStep,
           AnswersInOrderStep, ExecutionsPaidForStep, InOrderEnough, LinkTypeCorrect, PTL
        DEF Spec
=============================================================================
