----------------------- MODULE StreamTransferInvariant ------------------------
(***************************************************************************)
(* The inductive invariant behind the safety of one stream direction, and  *)
(* the proof that its parts about the writing end, the frames and the      *)
(* drain of the reorder buffer are preserved.                              *)
(***************************************************************************)
EXTENDS StreamTransferTypes

-------------------------------------------------------------------------------
(* The inductive invariant, one part per concern.                          *)

\* The FIN has been handed to the retransmit queue.
FinSent == writeFIN /\ closing = "none" /\ writeErr = "nil"

\* The bytes in the first i chunks.
Upto(i) == IF i = 0 THEN 0 ELSE End(chunks[i])

\* The chunks written tile the byte stream, and the ends of the write side
\* are decided once.
WriterInv ==
  /\ sentOffset = Upto(writeSeq)
  /\ \A i \in 1..writeSeq : /\ chunks[i].from = Upto(i - 1)
                            /\ End(chunks[i]) <= sentOffset
  /\ \A i, j \in 0..writeSeq : i <= j => Upto(i) <= Upto(j)
  /\ writeErr = "reset" => writeFIN
  /\ closing = "fin" => writeFIN /\ writeErr = "nil"
  /\ closing = "reset" => writeErr = "reset"

\* A frame of the writing end carries what was written at its sequence
\* number; the FIN or RESET comes right after the last chunk.
Genuine(f) ==
  /\ f.kind = "data" => f.seq < writeSeq /\ f.data = chunks[f.seq + 1]
  /\ f.kind = "fin" => f.seq = writeSeq /\ FinSent
  /\ f.kind = "reset" => f.seq = writeSeq /\ writeErr = "reset"

FrameInv == \A f \in entries \cup net : Genuine(f)

\* The reader's position and its reorder map agree with what was written.
PositionInv ==
  /\ readSeq <= writeSeq + 1
  /\ readSeq = writeSeq + 1 => FinSent
  /\ finRecvd => finSeq = writeSeq /\ FinSent
  /\ \A s \in DOMAIN reorder : /\ readSeq <= s /\ s < writeSeq
                               /\ reorder[s] = chunks[s + 1]
  /\ readErr # "nil" => DOMAIN reorder = {}
  /\ readCanceled => readErr # "nil"

\* What was delivered, and how many of its bytes are still in the ring.
DeliveryInv ==
  /\ DeliveredInOrder
  /\ readErr = "nil" => Len(delivered) = readSeq
  /\ readErr = "EOF" => Len(delivered) = writeSeq /\ FinSent
  /\ readErr # "reset" /\ ~readCanceled =>
       consumed + readLen = Upto(Len(delivered))
  /\ readErr = "reset" \/ readCanceled => readLen = 0
  /\ 0 <= readLen

\* Everything an ACK covers, wherever that ACK is by now, was received.
AckInv ==
  /\ ackedThrough <= readSeq
  /\ \A s \in ackPending \cup ackReplay : Received(s)
  /\ idsToAck # {} => readErr # "nil"
  /\ \A m \in net : m.kind = "ack" => /\ m.cum <= readSeq
                                     /\ \A s \in m.seqs : Received(s)

\* The reading end has granted the ring it has, less the consumed bytes it
\* still holds back, and holds back less than a quarter of the ring.
GrantInv ==
  /\ readErr = "nil" => peerOffset = (ringCap + consumed) - grantPending
  /\ grantPending = 0 \/ grantPending < ringCap \div 4

SafetyInv ==
  /\ TypeOK
  /\ WriterInv
  /\ FrameInv
  /\ PositionInv
  /\ DeliveryInv
  /\ AckInv
  /\ GrantInv
  /\ NoAckedLoss
  /\ NoStrandedEntry

\* No watermark on its way to the writer, or already there, exceeds what the
\* reading end granted, and the writer stays below it.
CreditInv ==
  /\ sentOffset <= maxSendOffset
  /\ maxSendOffset <= peerOffset
  /\ \A m \in net : m.kind = "wu" => m.offset <= peerOffset

-------------------------------------------------------------------------------
(* The writing end's history.                                              *)

\* The steps that change what was written or how the direction ends.
LEMMA WriterSteps ==
  ASSUME [Next]_vars
  PROVE  \/ \E k \in ChunkSizes : Write(k)
         \/ CloseWrite
         \/ SendFin
         \/ CancelWrite
         \/ SendReset
         \/ \E m \in net : RecvStopSending(m)
         \/ UNCHANGED <<chunks, sentOffset, writeFIN, writeErr, closing>>
<1> DEFINE Same == UNCHANGED <<chunks, sentOffset, writeFIN, writeErr, closing>>
<1>1. ASSUME NEW e \in entries, Resend(e)
      PROVE  Same
  BY <1>1 DEF Resend, sendVars
<1>2. CASE CreditAcked
  BY <1>2 DEF CreditAcked
<1>3. ASSUME NEW n \in 1..readLen, Read(n)
      PROVE  Same
  BY <1>3 DEF Read, ReadUpTo, sendVars
<1>4. CASE CancelRead \/ FlushAcks
  BY <1>4 DEF CancelRead, FlushAcks, sendVars
<1>5. ASSUME NEW m \in net, RecvAck(m) \/ RecvWindowUpdate(m) \/ Lose(m)
      PROVE  Same
  BY <1>5 DEF RecvAck, RecvWindowUpdate, Lose, sendVars
<1>6. ASSUME NEW m \in net, RecvAtReader(m)
      PROVE  Same
  BY ZenonT(30), <1>6 DEF RecvAtReader, RecvDiscarded, RecvFin, RecvDuplicate, RecvOutOfOrder,
              RecvInOrder, RecvInOrderUpTo, RecvRefused, RecvReset, sendVars
<1>7. CASE UNCHANGED vars
  BY <1>7 DEF vars, sendVars
<1> QED
  BY <1>1, <1>2, <1>3, <1>4, <1>5, <1>6, <1>7 DEF Next, RecvAtWriter

\* What Write cut stays as it is, and a direction that was closed or reset
\* stays so, with no chunk added.
LEMMA WriterHistory ==
  ASSUME TypeOK, WriterInv, [Next]_vars
  PROVE  /\ writeSeq \in Nat /\ writeSeq' \in Nat /\ writeSeq <= writeSeq'
         /\ \A i \in 1..writeSeq : chunks'[i] = chunks[i]
         /\ writeFIN => writeSeq' = writeSeq
         /\ FinSent => FinSent'
         /\ writeErr = "reset" => writeErr' = "reset"
<1>1. writeSeq \in Nat /\ chunks \in Seq(Payload)
  BY DEF TypeOK, writeSeq
<1>2. ASSUME NEW k \in ChunkSizes, Write(k)
      PROVE  /\ writeSeq' = writeSeq + 1
             /\ \A i \in 1..writeSeq : chunks'[i] = chunks[i]
             /\ ~writeFIN /\ writeErr = "nil"
  <2> DEFINE p == [from |-> sentOffset, len |-> k]
  <2>1. chunks' = Append(chunks, p)
    BY <1>2 DEF Write, DataFrame
  <2>2. p \in Payload
    BY SizesAssumption DEF TypeOK, Payload
  <2>3. writeSeq' = writeSeq + 1
    BY <1>1, <2>1, <2>2 DEF writeSeq
  <2>4. \A i \in 1..writeSeq : chunks'[i] = chunks[i]
    BY <1>1, <2>1, <2>2 DEF writeSeq
  <2> QED  BY ZenonT(30), <1>2, <2>3, <2>4 DEF Write
<1>3. CASE \E k \in ChunkSizes : Write(k)
  BY <1>1, <1>2, <1>3 DEF FinSent
<1>4. CASE CloseWrite
  BY <1>1, <1>4 DEF CloseWrite, FinSent, writeSeq
<1>5. CASE SendFin
  BY <1>1, <1>5 DEF SendFin, FinSent, writeSeq
<1>6. CASE CancelWrite
  BY <1>1, <1>6 DEF CancelWrite, AbortWrite, FinSent, writeSeq
<1>7. CASE SendReset
  BY <1>1, <1>7 DEF SendReset, FinSent, writeSeq
<1>8. CASE \E m \in net : RecvStopSending(m)
  BY <1>1, <1>8 DEF RecvStopSending, AbortWrite, FinSent, writeSeq
<1>9. CASE UNCHANGED <<chunks, writeFIN, writeErr, closing>>
  BY <1>1, <1>9 DEF FinSent, writeSeq
<1> QED
  BY <1>3, <1>4, <1>5, <1>6, <1>7, <1>8, <1>9, WriterSteps

LEMMA EndTyped ==
  ASSUME NEW p \in Payload
  PROVE  /\ p.from \in Nat /\ p.len \in Nat /\ End(p) \in Nat
         /\ p.from < End(p) /\ p.len <= MaxPayload
<1>1. p.from \in Nat /\ p.len \in 1..MaxPayload
  BY DEF Payload
<1> QED  BY <1>1, SizesAssumption DEF End

LEMMA UptoTyped ==
  ASSUME TypeOK, NEW i \in 0..writeSeq
  PROVE  Upto(i) \in Nat
<1>1. writeSeq \in Nat /\ chunks \in Seq(Payload)
  BY DEF TypeOK, writeSeq
<1>2. CASE i # 0
  <2>1. chunks[i] \in Payload
    BY <1>1, <1>2 DEF writeSeq
  <2> QED  BY <1>2, <2>1, EndTyped DEF Upto
<1> QED  BY <1>2 DEF Upto

LEMMA WriterInvStep ==
  ASSUME TypeOK, WriterInv, [Next]_vars
  PROVE  WriterInv'
<1>1. writeSeq \in Nat /\ chunks \in Seq(Payload)
  BY DEF TypeOK, writeSeq
<1>2. ASSUME NEW k \in ChunkSizes, Write(k)
      PROVE  WriterInv'
  <2> DEFINE p == [from |-> sentOffset, len |-> k]
  <2>1. /\ chunks' = Append(chunks, p)
        /\ sentOffset' = sentOffset + k
        /\ UNCHANGED <<writeFIN, writeErr, closing>>
    BY <1>2 DEF Write, DataFrame
  <2>2. p \in Payload /\ sentOffset \in Nat /\ k \in Nat
    BY SizesAssumption DEF TypeOK, Payload
  <2>3. /\ writeSeq' = writeSeq + 1
        /\ chunks'[writeSeq + 1] = p
        /\ \A i \in 1..writeSeq : chunks'[i] = chunks[i]
    BY <1>1, <2>1, <2>2 DEF writeSeq
  <2>4. \A i \in 0..writeSeq : Upto(i)' = Upto(i)
    BY <1>1, <2>3 DEF Upto
  <2>5. sentOffset' = Upto(writeSeq)'
    <3>1. Upto(writeSeq)' = End(p)
      BY <1>1, <2>3 DEF Upto, End
    <3> QED  BY <2>1, <3>1 DEF End
  <2>6. ASSUME NEW i \in 1..writeSeq'
        PROVE  chunks'[i].from = Upto(i - 1)' /\ End(chunks'[i]) <= sentOffset'
    <3>1. CASE i = writeSeq + 1
      <4>1. chunks'[i].from = sentOffset /\ End(chunks'[i]) = sentOffset + k
        BY <2>3, <3>1 DEF End
      <4>2. Upto(i - 1)' = sentOffset
        <5>1. i - 1 = writeSeq /\ i - 1 \in 0..writeSeq
          BY <1>1, <3>1
        <5>2. Upto(i - 1)' = Upto(i - 1)
          BY <2>4, <5>1
        <5> QED  BY <5>1, <5>2 DEF WriterInv
      <4>3. End(chunks'[i]) <= sentOffset'
        <5>1. End(chunks'[i]) = sentOffset'
          BY ZenonT(30), <2>1, <4>1
        <5>2. sentOffset' \in Nat
          BY <2>1, <2>2
        <5> QED  BY <5>1, <5>2
      <4> QED  BY <4>1, <4>2, <4>3
    <3>2. CASE i \in 1..writeSeq
      <4>1. chunks'[i] = chunks[i] /\ Upto(i - 1)' = Upto(i - 1)
        BY <1>1, <2>3, <2>4, <3>2
      <4>2. chunks[i] \in Payload
        BY <1>1, <3>2 DEF writeSeq
      <4>3. chunks[i].from = Upto(i - 1) /\ End(chunks[i]) <= sentOffset
        BY <3>2 DEF WriterInv
      <4>4. End(chunks[i]) <= sentOffset'
        BY <2>1, <2>2, <4>2, <4>3, EndTyped
      <4> QED  BY <4>1, <4>3, <4>4
    <3> QED  BY <1>1, <2>3, <3>1, <3>2
  <2>7. \A i \in 1..writeSeq' : /\ chunks'[i].from = Upto(i - 1)'
                                 /\ End(chunks'[i]) <= sentOffset'
    BY <2>6
  <2>8. ASSUME NEW i \in 0..writeSeq', NEW j \in 0..writeSeq', i <= j
        PROVE  Upto(i)' <= Upto(j)'
    <3>1. CASE j \in 0..writeSeq
      <4>1. i \in 0..writeSeq
        BY <1>1, <2>3, <2>8, <3>1
      <4>2. Upto(i)' = Upto(i) /\ Upto(j)' = Upto(j)
        BY <2>4, <3>1, <4>1
      <4> QED  BY <2>8, <3>1, <4>1, <4>2 DEF WriterInv
    <3>2. CASE j = writeSeq + 1
      <4>1. Upto(j)' = sentOffset + k
        BY <2>1, <2>3, <2>5, <3>2
      <4>2. CASE i = j
        <5>1. sentOffset + k <= sentOffset + k
          BY <2>2
        <5> QED  BY <4>1, <4>2, <5>1
      <4>3. CASE i # j
        <5>1. i \in 0..writeSeq /\ i <= writeSeq /\ writeSeq \in 0..writeSeq
          BY <1>1, <2>3, <2>8, <3>2, <4>3
        <5>2. Upto(i)' = Upto(i) /\ Upto(i) <= sentOffset
          BY <2>4, <5>1 DEF WriterInv
        <5>3. Upto(i) \in Nat
          BY <5>1, UptoTyped
        <5>4. Upto(i) <= sentOffset + k
          BY <2>2, <5>2, <5>3
        <5> QED  BY <4>1, <5>2, <5>4
      <4> QED  BY <4>2, <4>3
    <3> QED  BY <1>1, <2>3, <3>1, <3>2
  <2> QED
    BY ZenonT(30), <2>1, <2>5, <2>7, <2>8 DEF WriterInv, End
<1>3. ASSUME UNCHANGED <<chunks, sentOffset>>
      PROVE  /\ (sentOffset = Upto(writeSeq))'
             /\ (\A i \in 1..writeSeq : /\ chunks[i].from = Upto(i - 1)
                                        /\ End(chunks[i]) <= sentOffset)'
             /\ (\A i, j \in 0..writeSeq : i <= j => Upto(i) <= Upto(j))'
  BY <1>3 DEF WriterInv, Upto, End, writeSeq
<1>4. CASE CloseWrite
  BY <1>3, <1>4 DEF CloseWrite, WriterInv
<1>5. CASE SendFin
  BY <1>3, <1>5 DEF SendFin, WriterInv
<1>6. CASE CancelWrite
  BY <1>3, <1>6 DEF CancelWrite, AbortWrite, WriterInv
<1>7. CASE SendReset
  BY <1>3, <1>7 DEF SendReset, WriterInv
<1>8. CASE \E m \in net : RecvStopSending(m)
  BY <1>3, <1>8 DEF RecvStopSending, AbortWrite, WriterInv
<1>9. CASE UNCHANGED <<chunks, sentOffset, writeFIN, writeErr, closing>>
  BY <1>3, <1>9 DEF WriterInv
<1> QED
  BY <1>2, <1>4, <1>5, <1>6, <1>7, <1>8, <1>9, WriterSteps

-------------------------------------------------------------------------------
(* Frames in the queue and on the path.                                    *)

\* A frame that was genuine when sent stays so, however late it arrives.
LEMMA GenuineStable ==
  ASSUME TypeOK, WriterInv, [Next]_vars, NEW f \in Message, Genuine(f)
  PROVE  Genuine(f)'
<1>1. /\ writeSeq \in Nat /\ writeSeq' \in Nat /\ writeSeq <= writeSeq'
      /\ \A i \in 1..writeSeq : chunks'[i] = chunks[i]
      /\ writeFIN => writeSeq' = writeSeq
      /\ FinSent => FinSent'
      /\ writeErr = "reset" => writeErr' = "reset"
  BY WriterHistory
<1>2. CASE f.kind = "data"
  <2>1. f.seq \in Nat /\ f.seq < writeSeq /\ f.data = chunks[f.seq + 1]
    BY <1>2, MessageFields DEF Genuine
  <2>2. f.seq + 1 \in 1..writeSeq /\ f.seq < writeSeq'
    BY <1>1, <2>1
  <2>3. f.data = chunks'[f.seq + 1]
    BY <1>1, <2>1, <2>2
  <2> QED  BY <1>2, <2>2, <2>3 DEF Genuine
<1>3. CASE f.kind = "fin"
  BY <1>1, <1>3 DEF Genuine, FinSent
<1>4. CASE f.kind = "reset"
  BY <1>1, <1>4 DEF Genuine, WriterInv
<1>5. CASE f.kind \notin {"data", "fin", "reset"}
  BY <1>5 DEF Genuine
<1> QED  BY <1>2, <1>3, <1>4, <1>5

\* What a step puts on the path: a frame of the queue, the ACKs of a flush,
\* a watermark the reading end has granted, or STOP_SENDING.
LEMMA NewMessages ==
  ASSUME TypeOK, [Next]_vars, NEW m \in net', m \notin net
  PROVE  \/ m \in entries'
         \/ FlushAcks /\ m = AckFrame(readSeq, SnapshotSeqs)
         \/ FlushAcks /\ m = AckFrame(0, idsToAck) /\ idsToAck # {}
         \/ m.kind = "wu" /\ m.offset <= peerOffset'
         \/ m.kind = "stop"
<1>1. ASSUME NEW k \in ChunkSizes, Write(k)
      PROVE  m \in entries'
  BY <1>1, EmitIn DEF Write
<1>2. CASE SendFin
  BY <1>2, EmitIn DEF SendFin
<1>3. CASE SendReset
  BY <1>3, EmitIn DEF SendReset
<1>4. ASSUME NEW e \in entries, Resend(e)
      PROVE  m \in entries'
  BY <1>4, EmitIn DEF Resend, sendVars
<1>5. CASE CloseWrite \/ CancelWrite \/ CreditAcked \/ UNCHANGED vars
  BY <1>5 DEF CloseWrite, CancelWrite, CreditAcked, vars
<1>6. ASSUME NEW n \in 1..readLen, Read(n)
      PROVE  m.kind = "wu" /\ m.offset <= peerOffset'
  <2>1. PICK stop, cap \in Nat : ReadEffect(n, stop, cap)
    BY <1>6, ReadHasEffect
  <2> DEFINE grown == peerOffset + (cap - ringCap)
  <2>2. grown \in Int /\ n \in Nat /\ grantPending \in Nat
    BY SizesAssumption DEF TypeOK
  <2> HIDE DEF grown
  <2>3. m \in Grants({grown, peerOffset'})
    BY ZenonT(30), <2>1 DEF ReadEffect, grown
  <2>4. peerOffset' \in {grown, grown + (grantPending + n)}
    BY <2>1 DEF ReadEffect, grown
  <2>5. grown <= peerOffset' /\ peerOffset' <= peerOffset'
    BY <2>2, <2>4
  <2> QED  BY <2>3, <2>5 DEF Grants, WindowUpdate
<1>7. CASE CancelRead
  BY <1>7, EmitIn DEF CancelRead, StopSending
<1>8. CASE FlushAcks
  <2>1. peerOffset' = peerOffset /\ peerOffset <= peerOffset
    BY <1>8 DEF FlushAcks, TypeOK
  <2>2. \/ m \in {AckFrame(readSeq, SnapshotSeqs), WindowUpdate(peerOffset)}
        \/ idsToAck # {} /\ m = AckFrame(0, idsToAck)
    BY ZenonT(30), <1>8, EmitIn DEF FlushAcks
  <2> QED  BY <1>8, <2>1, <2>2 DEF WindowUpdate
<1>9. ASSUME NEW d \in net, RecvAtWriter(d)
      PROVE  FALSE
  BY <1>9, ArriveSilent DEF RecvAtWriter, RecvAck, RecvWindowUpdate, RecvStopSending
<1>10. ASSUME NEW d \in net, RecvDiscarded(d)
       PROVE  m.kind = "wu" /\ m.offset <= peerOffset'
  <2>1. peerOffset' = GrantDiscarded(FrameLen(d))
    BY <1>10 DEF RecvDiscarded
  <2>2. m = WindowUpdate(peerOffset')
    BY <1>10, <2>1, ArriveIn DEF RecvDiscarded
  <2>3. peerOffset' \in Nat
    BY SMTT(30), TypeStep DEF TypeOK
  <2> QED  BY <2>2, <2>3 DEF WindowUpdate
<1>11. ASSUME NEW d \in net, RecvFin(d) \/ RecvDuplicate(d) \/ RecvOutOfOrder(d)
                               \/ RecvRefused(d) \/ RecvReset(d)
       PROVE  FALSE
  BY ZenonT(30), <1>11, ArriveSilent
     DEF RecvFin, RecvDuplicate, RecvOutOfOrder, RecvRefused, RecvReset
<1>12. ASSUME NEW d \in net, RecvInOrder(d)
       PROVE  m.kind = "wu" /\ m.offset <= peerOffset'
  <2>1. PICK stop, grown, cap \in Nat : InOrderEffect(d, stop, grown, cap)
    BY <1>12, InOrderHasEffect
  <2>2. m \in Grants({peerOffset + (grown - ringCap), peerOffset'})
    BY ZenonT(30), <2>1 DEF InOrderEffect
  <2>3. peerOffset' = peerOffset + (cap - ringCap) /\ grown <= cap
    BY <2>1 DEF InOrderEffect
  <2>4. peerOffset \in Nat /\ ringCap \in Nat
    BY SizesAssumption DEF TypeOK
  <2>5. /\ peerOffset + (grown - ringCap) <= peerOffset'
        /\ peerOffset' <= peerOffset'
    BY <2>3, <2>4
  <2> QED  BY <2>2, <2>5 DEF Grants, WindowUpdate
<1>13. ASSUME NEW d \in net, Lose(d)
       PROVE  FALSE
  BY <1>13 DEF Lose
<1> QED
  BY ZenonT(30), <1>1, <1>2, <1>3, <1>4, <1>5, <1>6, <1>7, <1>8, <1>9, <1>10, <1>11, <1>12,
     <1>13 DEF Next, RecvAtReader

\* A frame that joins the retransmit queue is genuine.
LEMMA NewEntries ==
  ASSUME TypeOK, WriterInv, [Next]_vars, NEW e \in entries', e \notin entries
  PROVE  Genuine(e)'
<1>1. writeSeq \in Nat /\ chunks \in Seq(Payload)
  BY DEF TypeOK, writeSeq
<1>2. ASSUME NEW k \in ChunkSizes, Write(k)
      PROVE  Genuine(e)'
  <2> DEFINE p == [from |-> sentOffset, len |-> k]
  <2>1. chunks' = Append(chunks, p) /\ e = DataFrame(writeSeq, p)
    BY ZenonT(30), <1>2 DEF Write, DataFrame
  <2>2. p \in Payload
    BY SizesAssumption DEF TypeOK, Payload
  <2>3. writeSeq' = writeSeq + 1 /\ chunks'[writeSeq + 1] = p
    BY <1>1, <2>1, <2>2 DEF writeSeq
  <2>4. e.kind = "data" /\ e.seq = writeSeq /\ e.data = p
    BY <2>1 DEF DataFrame
  <2>5. e.seq < writeSeq'
    BY <1>1, <2>3, <2>4
  <2> QED  BY <2>3, <2>4, <2>5 DEF Genuine
<1>3. CASE SendFin
  <2>1. e = FinFrame(writeSeq) /\ writeSeq' = writeSeq /\ FinSent'
    BY <1>3 DEF SendFin, WriterInv, FinSent, writeSeq
  <2> QED  BY <2>1 DEF Genuine, FinFrame
<1>4. CASE SendReset
  <2>1. e = ResetFrame(writeSeq) /\ writeSeq' = writeSeq /\ writeErr' = "reset"
    BY ZenonT(30), <1>4 DEF SendReset, WriterInv, writeSeq
  <2> QED  BY <2>1 DEF Genuine, ResetFrame
<1>5. CASE CloseWrite \/ CancelWrite \/ CreditAcked \/ CancelRead \/ FlushAcks
              \/ UNCHANGED vars
  BY <1>5 DEF CloseWrite, CancelWrite, CreditAcked, CancelRead, FlushAcks, vars, sendVars
<1>6. ASSUME NEW f \in entries, Resend(f)
      PROVE  FALSE
  BY <1>6 DEF Resend, sendVars
<1>7. ASSUME NEW n \in 1..readLen, Read(n)
      PROVE  FALSE
  BY SMTT(30), <1>7 DEF Read, ReadUpTo, sendVars
<1>8. ASSUME NEW m \in net, RecvAtWriter(m) \/ Lose(m)
      PROVE  FALSE
  BY ZenonT(30), <1>8 DEF RecvAtWriter, RecvAck, RecvWindowUpdate, RecvStopSending, Lose, sendVars
<1>9. ASSUME NEW m \in net, RecvAtReader(m)
      PROVE  FALSE
  BY ZenonT(30), <1>9 DEF RecvAtReader, RecvDiscarded, RecvFin, RecvDuplicate, RecvOutOfOrder,
              RecvInOrder, RecvInOrderUpTo, RecvRefused, RecvReset, sendVars
<1> QED
  BY ZenonT(30), <1>2, <1>3, <1>4, <1>5, <1>6, <1>7, <1>8, <1>9 DEF Next

LEMMA FrameInvStep ==
  ASSUME TypeOK, WriterInv, FrameInv, [Next]_vars
  PROVE  FrameInv'
<1>1. \A f \in entries \cup net : f \in Message
  BY MessagesTyped DEF TypeOK
<1>2. ASSUME NEW f \in entries \cup net
      PROVE  Genuine(f)'
  BY <1>1, <1>2, GenuineStable DEF FrameInv
<1>3. ASSUME NEW e \in entries'
      PROVE  Genuine(e)'
  BY <1>2, NewEntries
<1>4. ASSUME NEW m \in net', m \notin net
      PROVE  Genuine(m)'
  <2>1. CASE m \in entries'
    BY <1>3, <2>1
  <2>2. CASE m \notin entries'
    <3>1. m.kind \in {"ack", "wu", "stop"}
      BY <1>4, <2>2, NewMessages DEF AckFrame
    <3> QED  BY <3>1 DEF Genuine
  <2> QED  BY <2>1, <2>2
<1> QED  BY <1>2, <1>3, <1>4 DEF FrameInv

-------------------------------------------------------------------------------
(* The drain.                                                              *)

\* What a drain that stops at n moves into the ring: the chunks a+1..n.
LEMMA DrainFacts ==
  ASSUME TypeOK, WriterInv, PositionInv, NEW a \in Nat, NEW n \in Nat, a <= n,
         \A s \in a..(n - 1) : s \in DOMAIN reorder
  PROVE  /\ n = a \/ n <= writeSeq
         /\ \A i \in 1..(n - a) : Run(a, n)[i] = chunks[a + i]
         /\ a <= writeSeq => RunBytes(a, n) = Upto(n) - Upto(a)
<1>1. writeSeq \in Nat /\ chunks \in Seq(Payload)
  BY DEF TypeOK, writeSeq
<1>2. \A s \in a..(n - 1) : s < writeSeq /\ reorder[s] = chunks[s + 1]
  BY DEF PositionInv
<1>3. n = a \/ n <= writeSeq
  BY <1>1, <1>2
<1>4. ASSUME NEW i \in 1..(n - a)
      PROVE  Run(a, n)[i] = chunks[a + i]
  <2>1. a + i - 1 \in a..(n - 1) /\ (a + i - 1) + 1 = a + i
    OBVIOUS
  <2>2. reorder[a + i - 1] = chunks[a + i]
    BY <1>2, <2>1
  <2> QED  BY <2>2 DEF Run
<1>5. ASSUME n = a, a <= writeSeq
      PROVE  RunBytes(a, n) = Upto(n) - Upto(a)
  <2>1. Upto(a) \in Nat
    BY <1>1, <1>5, UptoTyped
  <2>2. RunBytes(a, n) = 0
    BY <1>5 DEF RunBytes
  <2> QED  BY <1>5, <2>1, <2>2
<1>6. ASSUME n # a
      PROVE  RunBytes(a, n) = Upto(n) - Upto(a)
  <2>1. /\ a \in a..(n - 1) /\ n - 1 \in a..(n - 1) /\ (n - 1) + 1 = n
        /\ a + 1 \in 1..writeSeq /\ (a + 1) - 1 = a
    BY <1>1, <1>3, <1>6
  <2>2. reorder[n - 1] = chunks[n] /\ reorder[a] = chunks[a + 1]
    BY <1>2, <2>1
  <2>3. chunks[a + 1].from = Upto(a)
    BY <2>1 DEF WriterInv
  <2>4. Upto(n) = End(chunks[n])
    BY <1>6 DEF Upto
  <2> QED  BY <1>6, <2>2, <2>3, <2>4 DEF RunBytes
<1> QED  BY <1>3, <1>4, <1>5, <1>6

\* The frames that stay buffered after a drain.
LEMMA RemainingFacts ==
  ASSUME NEW n
  PROVE  /\ DOMAIN Remaining(n) = {t \in DOMAIN reorder : t >= n}
         /\ \A s \in DOMAIN Remaining(n) : Remaining(n)[s] = reorder[s]
BY DEF Remaining
===============================================================================
