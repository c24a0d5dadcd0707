------------------------- MODULE StreamTransferReader -------------------------
(***************************************************************************)
(* The inductive invariant, concluded: the reader's position, what it has  *)
(* been given, acknowledgements and grants.                                *)
(***************************************************************************)
EXTENDS StreamTransferInvariant

-------------------------------------------------------------------------------
(* The reader's position.                                                  *)

\* The steps that leave the reader's position alone.
LEMMA PositionSteps ==
  ASSUME [Next]_vars
  PROVE  \/ \E n \in 1..readLen : Read(n)
         \/ CancelRead
         \/ \E m \in net : \/ RecvDiscarded(m) \/ RecvFin(m) \/ RecvOutOfOrder(m)
                           \/ RecvInOrder(m) \/ RecvReset(m)
         \/ UNCHANGED <<readSeq, reorder, finRecvd, finSeq, readErr, readCanceled,
                        delivered, consumed, readLen, ringCap>>
<1> DEFINE Same == UNCHANGED <<readSeq, reorder, finRecvd, finSeq, readErr,
                               readCanceled, delivered, consumed, readLen, ringCap>>
<1>1. ASSUME NEW k \in ChunkSizes, Write(k)
      PROVE  Same
  BY <1>1 DEF Write, recvVars, ringVars
<1>2. CASE CloseWrite \/ SendFin \/ CancelWrite \/ SendReset \/ CreditAcked
  BY <1>2 DEF CloseWrite, SendFin, CancelWrite, SendReset, CreditAcked, recvVars, ringVars
<1>3. ASSUME NEW e \in entries, Resend(e)
      PROVE  Same
  BY <1>3 DEF Resend, recvVars, ringVars
<1>4. CASE FlushAcks
  BY <1>4 DEF FlushAcks, recvVars, ringVars
<1>5. ASSUME NEW m \in net, RecvAtWriter(m) \/ Lose(m)
      PROVE  Same
  BY <1>5 DEF RecvAtWriter, RecvAck, RecvWindowUpdate, RecvStopSending, Lose,
              recvVars, ringVars
<1>6. ASSUME NEW m \in net, RecvDuplicate(m) \/ RecvRefused(m)
      PROVE  Same
  BY <1>6 DEF RecvDuplicate, RecvRefused, recvVars, ringVars
<1>7. CASE UNCHANGED vars
  BY <1>7 DEF vars, recvVars, ringVars
<1> QED
  BY <1>1, <1>2, <1>3, <1>4, <1>5, <1>6, <1>7 DEF Next, RecvAtReader

LEMMA PositionInvStep ==
  ASSUME TypeOK, WriterInv, FrameInv, PositionInv, [Next]_vars
  PROVE  PositionInv'
<1> DEFINE Buffered(s) == /\ readSeq <= s /\ s < writeSeq
                          /\ reorder[s] = chunks[s + 1]
<1>0. /\ writeSeq \in Nat /\ writeSeq' \in Nat /\ writeSeq <= writeSeq'
      /\ \A i \in 1..writeSeq : chunks'[i] = chunks[i]
      /\ writeFIN => writeSeq' = writeSeq
      /\ FinSent => FinSent' /\ writeFIN
  BY WriterHistory DEF FinSent
<1>1. readSeq \in Nat /\ finSeq \in Nat /\ DOMAIN reorder \subseteq Nat
  BY DEF TypeOK
\* What was buffered under the old history is so under the new one.
<1>2. ASSUME NEW s \in Nat, s < writeSeq
      PROVE  s < writeSeq' /\ chunks'[s + 1] = chunks[s + 1]
  BY <1>0, <1>2
<1>3. ASSUME readSeq' \in Nat, readSeq' <= writeSeq + 1, readSeq' = writeSeq + 1 => FinSent
      PROVE  readSeq' <= writeSeq' + 1 /\ (readSeq' = writeSeq' + 1 => FinSent')
  <2>0. /\ writeSeq \in Nat /\ writeSeq' \in Nat /\ writeSeq <= writeSeq'
        /\ readSeq' \in Nat /\ readSeq' <= writeSeq + 1
    BY <1>0, <1>3
  <2>1. readSeq' <= writeSeq' + 1
    BY <2>0 DEF writeSeq
  <2>2. ASSUME readSeq' = writeSeq' + 1
        PROVE  readSeq' = writeSeq + 1
    BY <2>0, <2>2 DEF writeSeq
  <2> QED  BY ZenonT(30), <1>0, <1>3, <2>1, <2>2
<1>4. CASE UNCHANGED <<readSeq, reorder, finRecvd, finSeq, readErr, readCanceled>>
  <2>1. readSeq' <= writeSeq' + 1 /\ (readSeq' = writeSeq' + 1 => FinSent')
    BY <1>1, <1>3, <1>4 DEF PositionInv
  <2>2. finRecvd' => finSeq' = writeSeq' /\ FinSent'
    BY <1>0, <1>4 DEF PositionInv
  <2>3. \A s \in DOMAIN reorder' : Buffered(s)'
    BY <1>1, <1>2, <1>4 DEF PositionInv
  <2> QED  BY <1>4, <2>1, <2>2, <2>3 DEF PositionInv
<1>5. ASSUME NEW n \in 1..readLen, Read(n)
      PROVE  PositionInv'
  <2>1. PICK stop, cap \in Nat : ReadEffect(n, stop, cap)
    BY <1>5, ReadHasEffect
  <2>2. /\ readSeq <= stop /\ readSeq' = stop /\ reorder' = Remaining(stop)
        /\ \A s \in readSeq..(stop - 1) : s \in DOMAIN reorder
        /\ readErr' = ErrAfter(stop, finRecvd, finSeq)
        /\ UNCHANGED <<chunks, writeFIN, writeErr, closing, finRecvd, finSeq,
                       readCanceled>>
    BY <2>1 DEF ReadEffect, sendVars
  <2>3. writeSeq' = writeSeq /\ FinSent' = FinSent
    BY <2>2 DEF writeSeq, FinSent
  <2>4. stop = readSeq \/ stop <= writeSeq
    BY ZenonT(30), <1>1, <2>2, DrainFacts
  <2>5. readSeq' <= writeSeq' + 1 /\ (readSeq' = writeSeq' + 1 => FinSent')
    BY <1>0, <2>2, <2>3, <2>4 DEF PositionInv
  <2>6. finRecvd' => finSeq' = writeSeq' /\ FinSent'
    BY <2>2, <2>3 DEF PositionInv
  <2>7. \A s \in DOMAIN reorder' : Buffered(s)'
    BY ZenonT(30), <1>1, <2>2, <2>3, RemainingFacts DEF PositionInv
  <2>8. readErr' # "nil" => DOMAIN reorder' = {}
    <3>1. CASE readErr # "nil"
      BY <2>2, <3>1, RemainingFacts DEF PositionInv
    <3>2. CASE readErr = "nil" /\ readErr' # "nil"
      <4>1. finRecvd /\ stop >= finSeq
        BY <2>2, <3>2 DEF ErrAfter
      <4>2. \A s \in DOMAIN reorder : ~(s >= stop)
        BY <1>0, <1>1, <4>1 DEF PositionInv
      <4> QED  BY ZenonT(30), <2>2, <4>2, RemainingFacts
    <3> QED  BY <3>1, <3>2
  <2>9. readCanceled' => readErr' # "nil"
    BY <2>2 DEF PositionInv, ErrAfter
  <2> QED  BY <2>5, <2>6, <2>7, <2>8, <2>9 DEF PositionInv
<1>6. ASSUME NEW m \in net, RecvInOrder(m)
      PROVE  PositionInv'
  <2>1. PICK stop, grown, cap \in Nat : InOrderEffect(m, stop, grown, cap)
    BY <1>6, InOrderHasEffect
  <2>2. /\ m.kind = "data" /\ m.seq = readSeq
        /\ readSeq + 1 <= stop /\ readSeq' = stop /\ reorder' = Remaining(stop)
        /\ \A s \in (readSeq + 1)..(stop - 1) : s \in DOMAIN reorder
        /\ readErr' = ErrAfter(stop, finRecvd, finSeq)
        /\ readErr = "nil"
        /\ UNCHANGED <<chunks, writeFIN, writeErr, closing, finRecvd, finSeq,
                       readCanceled>>
    BY <2>1 DEF InOrderEffect, sendVars, ReadDone
  <2>3. writeSeq' = writeSeq /\ FinSent' = FinSent
    BY <2>2 DEF writeSeq, FinSent
  <2>4. stop <= writeSeq
    <3>1. readSeq < writeSeq
      BY <2>2 DEF FrameInv, Genuine
    <3>2. readSeq + 1 \in Nat
      BY <1>1
    <3>3. stop = readSeq + 1 \/ stop <= writeSeq
      BY <2>2, <3>2, DrainFacts
    <3> QED  BY <1>0, <1>1, <3>1, <3>3
  <2>5. readSeq' <= writeSeq' + 1 /\ (readSeq' = writeSeq' + 1 => FinSent')
    BY <1>0, <2>2, <2>3, <2>4
  <2>6. finRecvd' => finSeq' = writeSeq' /\ FinSent'
    BY <2>2, <2>3 DEF PositionInv
  <2>7. \A s \in DOMAIN reorder' : Buffered(s)'
    BY ZenonT(30), <1>1, <2>2, <2>3, RemainingFacts DEF PositionInv
  <2>8. readErr' # "nil" => DOMAIN reorder' = {}
    <3>1. ASSUME readErr' # "nil"
          PROVE  finRecvd /\ stop >= finSeq
      BY <2>2, <3>1 DEF ErrAfter
    <3>2. ASSUME readErr' # "nil"
          PROVE  \A s \in DOMAIN reorder : ~(s >= stop)
      BY <1>0, <1>1, <3>1, <3>2 DEF PositionInv
    <3> QED  BY ZenonT(30), <2>2, <3>2, RemainingFacts
  <2>9. readCanceled' => readErr' # "nil"
    BY <2>2 DEF PositionInv, ErrAfter
  <2> QED  BY <2>5, <2>6, <2>7, <2>8, <2>9 DEF PositionInv
<1>7. ASSUME NEW m \in net, RecvDiscarded(m)
      PROVE  PositionInv'
  <2>1. /\ m.kind \in {"data", "fin"}
        /\ readCanceled \/ readErr # "nil"
        /\ readSeq' \in {m.seq + 1, readSeq}
        /\ UNCHANGED <<chunks, writeFIN, writeErr, closing, reorder, finRecvd,
                       finSeq, readErr, readCanceled>>
    BY <1>7 DEF RecvDiscarded, ReadDone, sendVars
  <2>2. writeSeq' = writeSeq /\ FinSent' = FinSent
    BY <2>1 DEF writeSeq, FinSent
  <2>3. /\ m.seq \in Nat
        /\ m.seq < writeSeq \/ (m.seq = writeSeq /\ FinSent)
    <3>1. m \in Message /\ Genuine(m)
      BY DEF TypeOK, FrameInv
    <3> QED  BY <2>1, <3>1, MessageFields DEF Genuine
  <2>4. readSeq' <= writeSeq' + 1 /\ (readSeq' = writeSeq' + 1 => FinSent')
    BY <1>0, <1>1, <2>1, <2>2, <2>3 DEF PositionInv
  <2>5. DOMAIN reorder' = {}
    BY <2>1 DEF PositionInv
  <2> QED  BY <2>1, <2>2, <2>4, <2>5 DEF PositionInv
<1>8. ASSUME NEW m \in net, RecvFin(m)
      PROVE  PositionInv'
  <2>1. /\ m.kind = "fin" /\ readErr = "nil"
        /\ finRecvd' = (m.seq >= readSeq \/ finRecvd)
        /\ finSeq' = (IF m.seq >= readSeq THEN m.seq ELSE finSeq)
        /\ readErr' = IF m.seq >= readSeq THEN ErrAfter(readSeq, TRUE, m.seq)
                                          ELSE readErr
        /\ UNCHANGED <<chunks, writeFIN, writeErr, closing, reorder, readSeq,
                       readCanceled>>
    BY <1>8 DEF RecvFin, ReadDone, sendVars, ringVars
  <2>2. writeSeq' = writeSeq /\ FinSent' = FinSent
    BY <2>1 DEF writeSeq, FinSent
  <2>3. m.seq = writeSeq /\ FinSent
    BY <2>1 DEF FrameInv, Genuine
  <2>4. finRecvd' => finSeq' = writeSeq' /\ FinSent'
    BY ZenonT(30), <2>1, <2>2, <2>3 DEF PositionInv
  <2>5. readErr' # "nil" => DOMAIN reorder' = {}
    <3>1. ASSUME readErr' # "nil"
          PROVE  readSeq >= writeSeq
      BY <2>1, <2>3, <3>1 DEF ErrAfter
    <3>2. ASSUME readErr' # "nil", NEW s \in DOMAIN reorder
          PROVE  FALSE
      BY <1>0, <1>1, <3>1, <3>2 DEF PositionInv
    <3> QED  BY ZenonT(30), <2>1, <3>2
  <2>6. readCanceled' => readErr' # "nil"
    BY <2>1 DEF PositionInv
  <2> QED  BY ZenonT(30), <2>1, <2>2, <2>4, <2>5, <2>6 DEF PositionInv
<1>9. ASSUME NEW m \in net, RecvOutOfOrder(m)
      PROVE  PositionInv'
  <2>1. /\ m.kind = "data" /\ readErr = "nil" /\ m.seq > readSeq
        /\ reorder' = [s \in DOMAIN reorder \cup {m.seq} |->
                         IF s = m.seq THEN m.data ELSE reorder[s]]
        /\ UNCHANGED <<chunks, writeFIN, writeErr, closing, readSeq, finRecvd,
                       finSeq, readErr, readCanceled>>
    BY <1>9 DEF RecvOutOfOrder, ReadDone, sendVars
  <2>2. writeSeq' = writeSeq /\ FinSent' = FinSent
    BY <2>1 DEF writeSeq, FinSent
  <2>3. m.seq \in Nat /\ m.seq < writeSeq /\ m.data = chunks[m.seq + 1]
    <3>1. m \in Message /\ Genuine(m)
      BY DEF TypeOK, FrameInv
    <3> QED  BY <2>1, <3>1, MessageFields DEF Genuine
  <2>4. ASSUME NEW s \in DOMAIN reorder'
        PROVE  Buffered(s)'
    <3>1. CASE s = m.seq
      BY <1>1, <2>1, <2>2, <2>3, <3>1
    <3>2. CASE s # m.seq
      BY <1>1, <2>1, <2>2, <3>2 DEF PositionInv
    <3> QED  BY <3>1, <3>2
  <2> QED  BY <2>1, <2>2, <2>4 DEF PositionInv
<1>10. ASSUME CancelRead \/ \E m \in net : RecvReset(m)
       PROVE  PositionInv'
  <2>1. /\ DOMAIN reorder' = {} /\ readErr' # "nil"
        /\ UNCHANGED <<chunks, writeFIN, writeErr, closing, readSeq, finRecvd, finSeq>>
    BY <1>10 DEF CancelRead, RecvReset, DiscardReadState, ErrAfterReset, sendVars
  <2>2. writeSeq' = writeSeq /\ FinSent' = FinSent
    BY <2>1 DEF writeSeq, FinSent
  <2> QED  BY <2>1, <2>2 DEF PositionInv
<1> QED
  BY <1>4, <1>5, <1>6, <1>7, <1>8, <1>9, <1>10, PositionSteps

-------------------------------------------------------------------------------
(* What was delivered.                                                     *)

\* A fact of arithmetic for the leaves that are not given to SMT.
LEMMA NatInt == Nat \subseteq Int
  OBVIOUS

LEMMA UptoStable ==
  ASSUME TypeOK, WriterInv, [Next]_vars, NEW i \in 0..writeSeq
  PROVE  Upto(i)' = Upto(i)
BY WriterHistory DEF Upto, End

\* Delivering a run of the chunks that come next.
LEMMA ConcatInOrder ==
  ASSUME NEW c \in Seq(Payload), NEW d \in Seq(Payload), NEW r \in Seq(Payload),
         \A i \in 1..Len(d) : d[i] = c[i],
         \A i \in 1..Len(r) : r[i] = c[Len(d) + i]
  PROVE  /\ Len(d \o r) = Len(d) + Len(r)
         /\ \A i \in 1..Len(d \o r) : (d \o r)[i] = c[i]
<1>1. Len(d \o r) = Len(d) + Len(r) /\ Len(d) \in Nat /\ Len(r) \in Nat
  OBVIOUS
<1>2. ASSUME NEW i \in 1..(Len(d) + Len(r))
      PROVE  (d \o r)[i] = c[i]
  <2>1. CASE i <= Len(d)
    <3>1. i \in 1..Len(d) /\ (d \o r)[i] = d[i]
      BY <1>1, <2>1
    <3> QED  BY <3>1
  <2>2. CASE i > Len(d)
    <3>1. i - Len(d) \in 1..Len(r) /\ (d \o r)[i] = r[i - Len(d)]
      BY <1>1, <2>2
    <3>2. Len(d) + (i - Len(d)) = i
      BY <1>1
    <3> QED  BY <3>1, <3>2
  <2> QED  BY <1>1, <2>1, <2>2
<1> QED  BY <1>1, <1>2

\* The same as above, for the state's own sequences.
LEMMA DeliverRun ==
  ASSUME TypeOK, WriterInv, PositionInv, NEW d \in Seq(Payload), NEW n \in Nat,
         Len(d) <= n, Len(d) <= writeSeq,
         \A i \in 1..Len(d) : d[i] = chunks[i],
         \A s \in Len(d)..(n - 1) : s \in DOMAIN reorder
  PROVE  /\ Len(d \o Run(Len(d), n)) = n
         /\ n <= writeSeq
         /\ \A i \in 1..n : (d \o Run(Len(d), n))[i] = chunks[i]
         /\ RunBytes(Len(d), n) = Upto(n) - Upto(Len(d))
<1>1. Len(d) \in Nat /\ writeSeq \in Nat /\ chunks \in Seq(Payload)
  BY DEF TypeOK, writeSeq
<1> DEFINE r == Run(Len(d), n)
<1>2. r \in Seq(Payload) /\ Len(r) = n - Len(d)
  BY <1>1, RunTyped
<1>3. /\ n = Len(d) \/ n <= writeSeq
      /\ \A i \in 1..(n - Len(d)) : r[i] = chunks[Len(d) + i]
      /\ RunBytes(Len(d), n) = Upto(n) - Upto(Len(d))
  BY <1>1, DrainFacts
<1> HIDE DEF r
<1>4. n <= writeSeq
  BY <1>1, <1>3
<1>5. /\ Len(d \o r) = Len(d) + Len(r)
      /\ \A i \in 1..Len(d \o r) : (d \o r)[i] = chunks[i]
  BY <1>1, <1>2, <1>3, ConcatInOrder
<1>6. Len(d \o r) = n
  BY <1>1, <1>2, <1>5
<1> QED  BY <1>3, <1>4, <1>5, <1>6 DEF r

LEMMA DeliveryInvStep ==
  ASSUME TypeOK, WriterInv, FrameInv, PositionInv, DeliveryInv, [Next]_vars
  PROVE  DeliveryInv'
<1>0. /\ writeSeq \in Nat /\ writeSeq' \in Nat /\ writeSeq <= writeSeq'
      /\ \A i \in 1..writeSeq : chunks'[i] = chunks[i]
      /\ FinSent => FinSent' /\ writeSeq' = writeSeq
  BY WriterHistory DEF FinSent
<1>1. /\ readSeq \in Nat /\ consumed \in Nat /\ readLen \in Int
      /\ delivered \in Seq(Payload) /\ Len(delivered) \in Nat
      /\ readErr \in Errors /\ chunks \in Seq(Payload)
  BY DEF TypeOK
<1>2. /\ Len(delivered) <= writeSeq
      /\ \A i \in 1..Len(delivered) : delivered[i] = chunks[i]
  BY DEF DeliveryInv, DeliveredInOrder, writeSeq
<1>3. ASSUME Len(delivered') <= writeSeq',
             \A i \in 1..Len(delivered') : delivered'[i] = chunks'[i]
      PROVE  DeliveredInOrder'
  BY <1>3 DEF DeliveredInOrder, writeSeq
<1>4. ASSUME delivered' = delivered
      PROVE  DeliveredInOrder' /\ Upto(Len(delivered))' = Upto(Len(delivered))
  <2>1. Len(delivered) \in 0..writeSeq /\ Len(delivered) <= writeSeq'
    BY <1>0, <1>1, <1>2
  <2>2. \A i \in 1..Len(delivered) : delivered[i] = chunks'[i]
    BY <1>0, <1>1, <1>2
  <2>3. Upto(Len(delivered))' = Upto(Len(delivered))
    BY <1>4, <2>1, UptoStable DEF Upto
  <2> QED  BY <1>3, <1>4, <2>1, <2>2, <2>3
<1>5. CASE UNCHANGED <<readSeq, readErr, readCanceled, delivered, consumed, readLen>>
  BY <1>0, <1>4, <1>5 DEF DeliveryInv
<1>6. ASSUME NEW n \in 1..readLen, Read(n)
      PROVE  DeliveryInv'
  <2>1. PICK stop, cap \in Nat : ReadEffect(n, stop, cap)
    BY <1>6, ReadHasEffect
  <2>2. /\ n \in Nat /\ readSeq <= stop /\ readSeq' = stop
        /\ \A s \in readSeq..(stop - 1) : s \in DOMAIN reorder
        /\ consumed' = consumed + n
        /\ readLen' = (readLen - n) + RunBytes(readSeq, stop)
        /\ delivered' = delivered \o Run(readSeq, stop)
        /\ readErr' = ErrAfter(stop, finRecvd, finSeq)
        /\ UNCHANGED <<chunks, readCanceled>>
    BY <2>1 DEF ReadEffect, sendVars
  <2>3. readErr # "reset" /\ ~readCanceled
    <3>1. readLen # 0
      BY <1>1
    <3> QED  BY <3>1 DEF DeliveryInv
  <2>4. consumed + readLen = Upto(Len(delivered))
    BY <2>3 DEF DeliveryInv
  <2>5. Upto(Len(delivered)) \in Nat
    BY <1>0, <1>1, <1>2, UptoTyped
  <2>6. CASE readErr = "nil"
    <3>1. Len(delivered) = readSeq
      BY <2>6 DEF DeliveryInv
    <3>2. /\ Len(delivered') = stop /\ stop <= writeSeq
          /\ \A i \in 1..stop : delivered'[i] = chunks[i]
          /\ RunBytes(readSeq, stop) = Upto(stop) - Upto(readSeq)
      BY ZenonT(30), <1>1, <1>2, <2>2, <3>1, DeliverRun
    <3>3. Upto(stop) \in Nat /\ Upto(stop)' = Upto(stop)
      BY <1>0, <3>2, UptoTyped, UptoStable
    <3>4. consumed' + readLen' = Upto(stop) /\ 0 <= readLen'
      <4>1. readSeq \in 0..writeSeq /\ stop \in 0..writeSeq
        BY <1>0, <1>1, <2>2, <3>2
      <4>2. Upto(readSeq) <= Upto(stop)
        BY ZenonT(30), <2>2, <4>1 DEF WriterInv
      <4>3. /\ consumed' = consumed + n
            /\ readLen' = (readLen - n) + RunBytes(readSeq, stop)
            /\ RunBytes(readSeq, stop) = Upto(stop) - Upto(readSeq)
            /\ consumed + readLen = Upto(readSeq)
        BY Zenon, <2>2, <2>4, <3>1, <3>2
      <4>4. /\ readLen \in Int /\ consumed \in Int /\ n \in 1..readLen
            /\ Upto(readSeq) \in Nat
        BY Zenon, <1>1, <2>5, <3>1, NatInt
      <4> QED  BY <3>3, <4>2, <4>3, <4>4
    <3>5. DeliveredInOrder'
      BY <2>2, <3>2 DEF DeliveredInOrder, writeSeq
    <3>6. Upto(Len(delivered))' = Upto(stop)
      BY <3>2, <3>3 DEF Upto
    <3>7. /\ readErr' \in {"nil", "EOF"}
          /\ readErr' = "EOF" => finRecvd /\ stop >= finSeq
      BY ZenonT(30), <2>2, <2>6 DEF ErrAfter
    <3>8. readErr' = "EOF" => stop = writeSeq /\ FinSent
      BY <1>0, <3>2, <3>7 DEF PositionInv
    <3>9. readErr' = "EOF" => Len(delivered') = writeSeq' /\ FinSent'
      BY <1>0, <3>2, <3>8
    <3> QED
      BY <2>2, <2>3, <3>2, <3>4, <3>5, <3>6, <3>7, <3>9 DEF DeliveryInv
  <2>7. CASE readErr = "EOF"
    <3>1. stop = readSeq
      <4>1. DOMAIN reorder = {}
        BY <2>7 DEF PositionInv
      <4>2. ASSUME readSeq < stop
            PROVE  FALSE
        <5>1. readSeq \in readSeq..(stop - 1)
          BY <1>1, <4>2
        <5> QED  BY <2>2, <4>1, <5>1
      <4> QED  BY <1>1, <2>2, <4>2
    <3>2. RunBytes(readSeq, stop) = 0 /\ Run(readSeq, stop) = <<>>
      <4>1. 1..(stop - readSeq) = {}
        BY <1>1, <3>1
      <4> QED  BY <3>1, <4>1 DEF RunBytes, Run
    <3>3. delivered' = delivered
      BY <1>1, <2>2, <3>2
    <3>4. consumed' + readLen' = consumed + readLen /\ 0 <= readLen'
      BY <1>1, <2>2, <3>2
    <3>5. readErr' = "EOF"
      BY SMTT(30), <2>2, <2>7 DEF ErrAfter
    <3> QED
      BY <1>0, <1>4, <2>2, <2>3, <2>4, <2>7, <3>3, <3>4, <3>5 DEF DeliveryInv
  <2> QED  BY <1>1, <2>3, <2>6, <2>7 DEF Errors
<1>7. ASSUME NEW m \in net, RecvInOrder(m)
      PROVE  DeliveryInv'
  <2>1. PICK stop, grown, cap \in Nat : InOrderEffect(m, stop, grown, cap)
    BY ZenonT(30), <1>7, InOrderHasEffect
  <2> DEFINE d == Append(delivered, m.data)
  <2>2. /\ m.kind = "data" /\ m.seq = readSeq /\ m.data \in Payload
        /\ readErr = "nil" /\ ~readCanceled
        /\ readSeq + 1 <= stop /\ readSeq' = stop
        /\ \A s \in (readSeq + 1)..(stop - 1) : s \in DOMAIN reorder
        /\ readLen' = (readLen + m.data.len) + RunBytes(readSeq + 1, stop)
        /\ delivered' = d \o Run(readSeq + 1, stop)
        /\ readErr' = ErrAfter(stop, finRecvd, finSeq)
        /\ UNCHANGED <<chunks, consumed, readCanceled>>
    BY ZenonT(30), <2>1 DEF InOrderEffect, ReadDone, sendVars
  <2>3. m.seq < writeSeq /\ m.data = chunks[readSeq + 1]
    BY <2>2 DEF FrameInv, Genuine
  <2>4. /\ Len(delivered) = readSeq
        /\ consumed + readLen = Upto(readSeq)
    BY <2>2 DEF DeliveryInv
  <2>5. /\ d \in Seq(Payload) /\ Len(d) = readSeq + 1
        /\ \A i \in 1..(readSeq + 1) : d[i] = chunks[i]
    <3>1. d \in Seq(Payload) /\ Len(d) = readSeq + 1
      BY <1>1, <2>2, <2>4
    <3>2. d[readSeq + 1] = m.data
      BY <1>1, <2>2, <2>4
    <3>3. \A i \in 1..readSeq : d[i] = delivered[i]
      BY <1>1, <2>2, <2>4
    <3>4. \A i \in 1..readSeq : delivered[i] = chunks[i]
      BY <1>2, <2>4
    <3>5. \A i \in 1..(readSeq + 1) : i = readSeq + 1 \/ i \in 1..readSeq
      BY <1>1
    <3> HIDE DEF d
    <3> QED  BY <2>3, <3>1, <3>2, <3>3, <3>4, <3>5
  <2>6. readSeq + 1 <= writeSeq
    BY SMTT(30), <1>0, <1>1, <2>2, <2>3
  <2> HIDE DEF d
  <2>7. /\ Len(delivered') = stop /\ stop <= writeSeq
        /\ \A i \in 1..stop : delivered'[i] = chunks[i]
        /\ RunBytes(readSeq + 1, stop) = Upto(stop) - Upto(readSeq + 1)
    <3>1. /\ Len(d) <= stop /\ Len(d) <= writeSeq
          /\ \A i \in 1..Len(d) : d[i] = chunks[i]
          /\ \A s \in Len(d)..(stop - 1) : s \in DOMAIN reorder
      BY Zenon, <2>2, <2>5, <2>6
    <3>2. /\ Len(d \o Run(Len(d), stop)) = stop /\ stop <= writeSeq
          /\ \A i \in 1..stop : (d \o Run(Len(d), stop))[i] = chunks[i]
          /\ RunBytes(Len(d), stop) = Upto(stop) - Upto(Len(d))
      BY ZenonT(30), <2>5, <3>1, DeliverRun
    <3> QED  BY Zenon, <2>2, <2>5, <3>2
  <2>8. /\ Upto(readSeq) \in Nat /\ Upto(readSeq + 1) \in Nat
        /\ Upto(stop) \in Nat /\ Upto(stop)' = Upto(stop)
    <3>1. readSeq \in 0..writeSeq /\ readSeq + 1 \in 0..writeSeq /\ stop \in 0..writeSeq
      BY <1>0, <1>1, <2>6, <2>7
    <3> QED  BY <3>1, UptoTyped, UptoStable
  <2>9. m.data.len = Upto(readSeq + 1) - Upto(readSeq)
    <3>1. readSeq + 1 \in 1..writeSeq /\ (readSeq + 1) - 1 = readSeq
      BY <1>0, <1>1, <2>6
    <3>2. chunks[readSeq + 1].from = Upto(readSeq)
      BY <3>1 DEF WriterInv
    <3>3. Upto(readSeq + 1) = m.data.from + m.data.len
      BY <1>1, <2>3 DEF Upto, End
    <3>4. m.data.from \in Nat /\ m.data.len \in Nat
      BY <2>2, EndTyped
    <3> QED  BY <2>3, <3>2, <3>3, <3>4
  <2>10. consumed' + readLen' = Upto(stop) /\ 0 <= readLen'
    <3>0. /\ writeSeq \in Nat /\ readSeq \in Nat
          /\ stop <= writeSeq /\ readSeq + 1 <= writeSeq
      BY Zenon, <1>0, <1>1, <2>6, <2>7
    <3>1. readSeq + 1 \in 0..writeSeq /\ stop \in 0..writeSeq
      BY <3>0
    <3>2. Upto(readSeq + 1) <= Upto(stop)
      BY ZenonT(30), <2>2, <3>1 DEF WriterInv
    <3>3. 0 <= readLen /\ m.data.len \in Nat
      BY SMTT(30), <2>2, EndTyped DEF DeliveryInv
    <3>4. /\ readLen' = (readLen + m.data.len) + RunBytes(readSeq + 1, stop)
          /\ consumed' = consumed
          /\ RunBytes(readSeq + 1, stop) = Upto(stop) - Upto(readSeq + 1)
      BY Zenon, <2>2, <2>7
    <3>5. readLen \in Int /\ consumed \in Int
      BY <1>1
    <3>6. consumed' + readLen' = Upto(stop)
      <4>1. /\ Upto(readSeq) \in Int /\ Upto(readSeq + 1) \in Int
            /\ Upto(stop) \in Int
        BY Zenon, <2>8, NatInt
      <4>2. consumed + ((readLen + (Upto(readSeq + 1) - Upto(readSeq)))
                         + (Upto(stop) - Upto(readSeq + 1))) = Upto(stop)
        BY SMTT(30), <2>4, <3>5, <4>1
      <4> QED  BY Zenon, <2>9, <3>4, <4>2
    <3>7. 0 <= readLen'
      <4>1. /\ Upto(stop) - Upto(readSeq + 1) \in Nat
            /\ readLen + m.data.len \in Nat
        BY <2>8, <3>2, <3>3, <3>5
      <4> QED  BY <3>4, <4>1
    <3> QED  BY <3>6, <3>7
  <2>11. DeliveredInOrder'
    BY ZenonT(30), <2>2, <2>7 DEF DeliveredInOrder, writeSeq
  <2>12. Upto(Len(delivered))' = Upto(stop)
    BY ZenonT(30), <2>7, <2>8 DEF Upto
  <2>13. /\ readErr' \in {"nil", "EOF"}
         /\ readErr' = "EOF" => finRecvd /\ stop >= finSeq
    BY ZenonT(30), <2>2 DEF ErrAfter
  <2>14. readErr' = "EOF" => stop = writeSeq /\ FinSent
    BY <1>0, <2>7, <2>13 DEF PositionInv
  <2>15. readErr' = "EOF" => Len(delivered') = writeSeq' /\ FinSent'
    BY ZenonT(30), <1>0, <2>7, <2>14
  <2> QED
    BY <2>2, <2>7, <2>10, <2>11, <2>12, <2>13, <2>15 DEF DeliveryInv
<1>8. ASSUME NEW m \in net, RecvDiscarded(m)
      PROVE  DeliveryInv'
  <2>1. /\ ReadDone
        /\ UNCHANGED <<readErr, readCanceled, delivered, consumed, readLen>>
    BY ZenonT(30), <1>8 DEF RecvDiscarded
  <2>2. readErr # "nil"
    BY <2>1 DEF ReadDone, PositionInv
  <2> QED  BY ZenonT(30), <1>0, <1>4, <2>1, <2>2 DEF DeliveryInv
<1>9. ASSUME NEW m \in net, RecvFin(m)
      PROVE  DeliveryInv'
  <2>1. /\ m.kind = "fin" /\ readErr = "nil"
        /\ readErr' = IF m.seq >= readSeq THEN ErrAfter(readSeq, TRUE, m.seq)
                                          ELSE readErr
        /\ UNCHANGED <<readSeq, readCanceled, delivered, consumed, readLen>>
    BY <1>9 DEF RecvFin, ReadDone, ringVars
  <2>2. m.seq = writeSeq /\ FinSent
    BY <2>1 DEF FrameInv, Genuine
  <2>3. readErr' \in {"nil", "EOF"} /\ (readErr' = "EOF" => readSeq >= writeSeq)
    BY <2>1, <2>2 DEF ErrAfter
  <2>4. readErr' = "EOF" => Len(delivered') = writeSeq'
    <3>0. Len(delivered) = readSeq
      BY <2>1 DEF DeliveryInv
    <3>1. ASSUME readErr' = "EOF"
          PROVE  Len(delivered) = writeSeq
      <4>1. /\ writeSeq \in Nat /\ readSeq \in Nat
            /\ readSeq <= writeSeq /\ readSeq >= writeSeq
        BY Zenon, <1>0, <1>1, <1>2, <2>3, <3>0, <3>1
      <4> QED  BY <3>0, <4>1
    <3> QED  BY ZenonT(30), <1>0, <2>1, <2>2, <3>1
  <2> QED  BY ZenonT(30), <1>0, <1>4, <2>1, <2>2, <2>3, <2>4 DEF DeliveryInv
<1>10. ASSUME NEW m \in net, RecvOutOfOrder(m)
       PROVE  DeliveryInv'
  BY <1>5, <1>10 DEF RecvOutOfOrder
<1>11. CASE CancelRead
  <2>1. /\ readCanceled' /\ readLen' = 0 /\ readErr' # "nil"
        /\ readErr' = "EOF" => readErr = "EOF"
        /\ delivered' = delivered
    BY <1>11 DEF CancelRead, DiscardReadState, ErrAfterReset
  <2>2. readErr' = "EOF" => Len(delivered') = writeSeq' /\ FinSent'
    BY Zenon, <1>0, <2>1 DEF DeliveryInv
  <2> QED  BY <1>4, <2>1, <2>2 DEF DeliveryInv
<1>12. ASSUME NEW m \in net, RecvReset(m)
       PROVE  DeliveryInv'
  <2>1. /\ m.kind = "reset" /\ readLen' = 0 /\ readErr' # "nil"
        /\ readErr' = "EOF" => readErr = "EOF"
        /\ delivered' = delivered
    BY <1>12 DEF RecvReset, DiscardReadState, ErrAfterReset
  <2>2. writeErr = "reset"
    BY <2>1 DEF FrameInv, Genuine
  <2>3. readErr' = "reset"
    <3>1. readErr # "EOF"
      BY <2>2 DEF DeliveryInv, FinSent
    <3> QED  BY <1>1, <1>12, <3>1 DEF RecvReset, ErrAfterReset, Errors
  <2> QED  BY <1>4, <2>1, <2>3 DEF DeliveryInv
<1> QED
  BY ZenonT(30), <1>5, <1>6, <1>7, <1>8, <1>9, <1>10, <1>11, <1>12, PositionSteps

-------------------------------------------------------------------------------
(* Acknowledgements.                                                       *)

\* The reader's position never goes back, and what was received stays so.
LEMMA ReceivedStable ==
  ASSUME TypeOK, FrameInv, PositionInv, [Next]_vars
  PROVE  /\ readSeq <= readSeq'
         /\ readErr # "nil" => readErr' # "nil"
         /\ \A s \in Nat : Received(s) => Received(s)'
<1>1. readSeq \in Nat /\ DOMAIN reorder \subseteq Nat
  BY DEF TypeOK
<1>2. CASE UNCHANGED <<readSeq, reorder, finRecvd, finSeq, readErr>>
  BY <1>1, <1>2 DEF Received
<1>3. ASSUME NEW n \in 1..readLen, Read(n)
      PROVE  /\ readSeq <= readSeq'
             /\ readErr # "nil" => readErr' # "nil"
             /\ \A s \in Nat : Received(s) => Received(s)'
  <2>1. PICK stop, cap \in Nat : ReadEffect(n, stop, cap)
    BY <1>3, ReadHasEffect
  <2>2. /\ readSeq <= stop /\ readSeq' = stop /\ reorder' = Remaining(stop)
        /\ readErr' = ErrAfter(stop, finRecvd, finSeq)
        /\ UNCHANGED <<finRecvd, finSeq>>
    BY <2>1 DEF ReadEffect
  <2>3. readErr # "nil" => readErr' # "nil"
    BY <2>2 DEF ErrAfter
  <2>4. \A s \in Nat : s < stop \/ s >= stop
    OBVIOUS
  <2>5. \A s \in Nat : s < readSeq => s < stop
    BY <1>1, <2>2
  <2>6. \A s \in DOMAIN reorder : s < stop \/ s \in DOMAIN reorder'
    BY ZenonT(30), <1>1, <2>2, <2>4, RemainingFacts
  <2> QED  BY <2>2, <2>3, <2>5, <2>6 DEF Received
<1>4. ASSUME NEW m \in net, RecvInOrder(m)
      PROVE  /\ readSeq <= readSeq'
             /\ readErr # "nil" => readErr' # "nil"
             /\ \A s \in Nat : Received(s) => Received(s)'
  <2>1. PICK stop, grown, cap \in Nat : InOrderEffect(m, stop, grown, cap)
    BY <1>4, InOrderHasEffect
  <2>2. /\ readSeq + 1 <= stop /\ readSeq' = stop /\ reorder' = Remaining(stop)
        /\ readErr' = ErrAfter(stop, finRecvd, finSeq)
        /\ UNCHANGED <<finRecvd, finSeq>>
    BY <2>1 DEF InOrderEffect
  <2>3. readErr # "nil" => readErr' # "nil"
    BY <2>2 DEF ErrAfter
  <2>4. \A s \in Nat : s < stop \/ s >= stop
    OBVIOUS
  <2>5. readSeq <= stop /\ \A s \in Nat : s < readSeq => s < stop
    BY <1>1, <2>2
  <2>6. \A s \in DOMAIN reorder : s < stop \/ s \in DOMAIN reorder'
    BY ZenonT(30), <1>1, <2>2, <2>4, RemainingFacts
  <2> QED  BY <2>2, <2>3, <2>5, <2>6 DEF Received
<1>5. ASSUME NEW m \in net, RecvDiscarded(m)
      PROVE  readSeq <= readSeq' /\ readErr # "nil" /\ readErr' = readErr
  <2>1. /\ m.kind \in {"data", "fin"}
        /\ readSeq' = IF m.seq >= readSeq THEN m.seq + 1 ELSE readSeq
        /\ readErr # "nil" /\ readErr' = readErr
    BY <1>5 DEF RecvDiscarded, ReadDone, PositionInv
  <2>2. m.seq \in Nat
    BY <2>1, MessageFields DEF TypeOK
  <2> QED  BY <1>1, <2>1, <2>2
<1>6. ASSUME NEW m \in net, RecvFin(m)
      PROVE  /\ readSeq' = readSeq /\ readErr = "nil"
             /\ \A s \in Nat : Received(s) => Received(s)'
  <2>1. /\ m.kind = "fin" /\ readErr = "nil"
        /\ finRecvd => finRecvd'
        /\ finSeq' \in {m.seq, finSeq}
        /\ UNCHANGED <<readSeq, reorder>>
    BY ZenonT(30), <1>6 DEF RecvFin, ReadDone, ringVars
  <2>2. finRecvd => finSeq = m.seq
    BY <2>1 DEF PositionInv, FrameInv, Genuine
  <2> QED  BY <2>1, <2>2 DEF Received
<1>7. ASSUME NEW m \in net, RecvOutOfOrder(m)
      PROVE  /\ readSeq' = readSeq /\ readErr' = readErr
             /\ \A s \in Nat : Received(s) => Received(s)'
  BY <1>7 DEF RecvOutOfOrder, Received
<1>8. ASSUME CancelRead \/ \E m \in net : RecvReset(m)
      PROVE  readSeq' = readSeq /\ readErr' # "nil"
  BY <1>8 DEF CancelRead, RecvReset, ErrAfterReset
<1>9. ASSUME readErr' # "nil"
      PROVE  \A s \in Nat : Received(s) => Received(s)'
  BY <1>9 DEF Received
<1> QED
  BY <1>1, <1>2, <1>3, <1>4, <1>5, <1>6, <1>7, <1>8, <1>9, PositionSteps

\* The steps that add to what the next ACKs will cover.
LEMMA AckSteps ==
  ASSUME TypeOK, FrameInv, PositionInv, [Next]_vars
  PROVE  \A s \in ackPending' \cup ackReplay' :
           s \in ackPending \cup ackReplay \/ (s \in Nat /\ Received(s)')
<1> SUFFICES ASSUME NEW s \in ackPending' \cup ackReplay',
                    s \notin ackPending \cup ackReplay
             PROVE  s \in Nat /\ Received(s)'
  OBVIOUS
<1>1. s \in Nat
  BY ZenonT(30), TypeStep DEF TypeOK
<1>2. ASSUME NEW m \in net, RecvDuplicate(m)
      PROVE  Received(s)'
  <2>1. s = m.seq /\ s >= readSeq /\ IsDuplicate(s) /\ readSeq \in Nat
    BY <1>2 DEF RecvDuplicate, TypeOK
  <2>2. s \in DOMAIN reorder
    BY <1>1, <2>1 DEF IsDuplicate
  <2> QED  BY <1>2, <2>2 DEF Received, RecvDuplicate, ringVars
<1>3. ASSUME NEW m \in net, RecvOutOfOrder(m)
      PROVE  Received(s)'
  BY <1>3 DEF RecvOutOfOrder, Received
<1>4. ASSUME NEW k \in ChunkSizes, Write(k)
      PROVE  FALSE
  BY <1>4 DEF Write, recvVars
<1>5. CASE CloseWrite \/ SendFin \/ CancelWrite \/ SendReset \/ CreditAcked
  BY <1>5 DEF CloseWrite, SendFin, CancelWrite, SendReset, CreditAcked, recvVars
<1>6. ASSUME NEW e \in entries, Resend(e)
      PROVE  FALSE
  BY <1>6 DEF Resend, recvVars
<1>7. ASSUME NEW n \in 1..readLen, Read(n)
      PROVE  FALSE
  BY <1>7 DEF Read, ReadUpTo
<1>8. CASE CancelRead \/ FlushAcks \/ UNCHANGED vars
  BY ZenonT(30), <1>8 DEF CancelRead, DiscardReadState, FlushAcks, vars, recvVars
<1>9. ASSUME NEW m \in net, RecvAtWriter(m) \/ Lose(m)
      PROVE  FALSE
  BY <1>9 DEF RecvAtWriter, RecvAck, RecvWindowUpdate, RecvStopSending, Lose, recvVars
<1>10. ASSUME NEW m \in net, \/ RecvDiscarded(m) \/ RecvFin(m) \/ RecvInOrder(m)
                             \/ RecvRefused(m) \/ RecvReset(m)
       PROVE  FALSE
  BY ZenonT(30), <1>10 DEF RecvDiscarded, RecvFin, RecvInOrder, RecvInOrderUpTo, RecvRefused,
               RecvReset, DiscardReadState, recvVars
<1> QED
  BY ZenonT(30), <1>1, <1>2, <1>3, <1>4, <1>5, <1>6, <1>7, <1>8, <1>9, <1>10
     DEF Next, RecvAtReader

\* The steps that change the retransmit queue.
LEMMA QueueSteps ==
  ASSUME [Next]_vars
  PROVE  \/ \E k \in ChunkSizes : Write(k)
         \/ SendFin
         \/ SendReset
         \/ \E m \in net : RecvAck(m)
         \/ UNCHANGED <<entries, ackedThrough>>
<1> DEFINE Same == UNCHANGED <<entries, ackedThrough>>
<1>1. CASE CloseWrite \/ CancelWrite \/ CreditAcked \/ CancelRead \/ FlushAcks
              \/ UNCHANGED vars
  BY <1>1 DEF CloseWrite, CancelWrite, CreditAcked, CancelRead, FlushAcks, vars, sendVars
<1>2. ASSUME NEW e \in entries, Resend(e)
      PROVE  Same
  BY <1>2 DEF Resend, sendVars
<1>3. ASSUME NEW n \in 1..readLen, Read(n)
      PROVE  Same
  BY <1>3 DEF Read, ReadUpTo, sendVars
<1>4. ASSUME NEW m \in net, RecvWindowUpdate(m) \/ RecvStopSending(m) \/ Lose(m)
      PROVE  Same
  BY <1>4 DEF RecvWindowUpdate, RecvStopSending, Lose, sendVars
<1>5. ASSUME NEW m \in net, RecvAtReader(m)
      PROVE  Same
  BY ZenonT(30), <1>5 DEF RecvAtReader, RecvDiscarded, RecvFin, RecvDuplicate, RecvOutOfOrder,
              RecvInOrder, RecvInOrderUpTo, RecvRefused, RecvReset, sendVars
<1> QED
  BY <1>1, <1>2, <1>3, <1>4, <1>5 DEF Next, RecvAtWriter

\* Only a RESET adds to the frame numbers acknowledged on their own.
LEMMA ResetAckSteps ==
  ASSUME [Next]_vars
  PROVE  idsToAck' \subseteq idsToAck \/ readErr' # "nil"
<1>1. ASSUME NEW k \in ChunkSizes, Write(k)
      PROVE  idsToAck' = idsToAck
  BY <1>1 DEF Write, flushVars
<1>2. CASE CloseWrite \/ SendFin \/ CancelWrite \/ SendReset \/ CreditAcked
              \/ CancelRead \/ FlushAcks \/ UNCHANGED vars
  BY <1>2 DEF CloseWrite, SendFin, CancelWrite, SendReset, CreditAcked, CancelRead,
              FlushAcks, vars, flushVars
<1>3. ASSUME NEW e \in entries, Resend(e)
      PROVE  idsToAck' = idsToAck
  BY <1>3 DEF Resend, flushVars
<1>4. ASSUME NEW n \in 1..readLen, Read(n)
      PROVE  idsToAck' = idsToAck
  BY ZenonT(30), <1>4 DEF Read, ReadUpTo, flushVars
<1>5. ASSUME NEW m \in net, RecvAtWriter(m) \/ Lose(m)
      PROVE  idsToAck' = idsToAck
  <2>1. CASE RecvAck(m)
    BY ZenonT(30), <2>1 DEF RecvAck, flushVars
  <2>2. CASE RecvWindowUpdate(m)
    BY ZenonT(30), <2>2 DEF RecvWindowUpdate, flushVars
  <2>3. CASE RecvStopSending(m)
    BY ZenonT(30), <2>3 DEF RecvStopSending, flushVars
  <2>4. CASE Lose(m)
    BY ZenonT(30), <2>4 DEF Lose, flushVars
  <2> QED  BY <1>5, <2>1, <2>2, <2>3, <2>4 DEF RecvAtWriter
<1>6. ASSUME NEW m \in net, RecvAtReader(m)
      PROVE  idsToAck' = idsToAck \/ readErr' # "nil"
  BY ZenonT(30), <1>6 DEF RecvAtReader, RecvDiscarded, RecvFin, RecvDuplicate, RecvOutOfOrder,
              RecvInOrder, RecvInOrderUpTo, RecvRefused, RecvReset, ErrAfterReset,
              flushVars
<1> QED
  BY <1>1, <1>2, <1>3, <1>4, <1>5, <1>6 DEF Next

LEMMA AckInvStep ==
  ASSUME TypeOK, FrameInv, PositionInv, AckInv, [Next]_vars
  PROVE  AckInv'
<1>1. /\ readSeq \in Nat /\ readSeq' \in Nat /\ ackedThrough \in Nat
      /\ readSeq <= readSeq'
      /\ readErr # "nil" => readErr' # "nil"
      /\ \A s \in Nat : Received(s) => Received(s)'
  BY TypeStep, ReceivedStable DEF TypeOK
<1>2. ackedThrough' <= readSeq'
  <2>1. ackedThrough' \in {0, ackedThrough}
          \/ \E m \in net : m.kind = "ack" /\ ackedThrough' = m.cum
    BY ZenonT(30), QueueSteps DEF Write, SendFin, SendReset, RecvAck
  <2>2. \A m \in net : m.kind = "ack" => m.cum \in Nat /\ m.cum <= readSeq
    BY MessageFields DEF TypeOK, AckInv
  <2>3. ackedThrough' \in Nat /\ ackedThrough' <= readSeq
    BY <1>1, <2>1, <2>2 DEF AckInv
  <2> QED  BY <1>1, <2>3
<1>3. ackPending \subseteq Nat /\ ackReplay \subseteq Nat
  BY DEF TypeOK
<1>4. \A s \in ackPending' \cup ackReplay' : Received(s)'
  BY ZenonT(30), <1>1, <1>3, AckSteps DEF AckInv
<1>5. idsToAck' # {} => readErr' # "nil"
  BY <1>1, ResetAckSteps DEF AckInv
<1>6. ASSUME NEW m \in net', m.kind = "ack"
      PROVE  m.cum <= readSeq' /\ \A s \in m.seqs : Received(s)'
  <2>1. CASE m \in net
    <3>1. m.cum \in Nat /\ m.seqs \subseteq Nat
      BY <1>6, <2>1, MessageFields DEF TypeOK
    <3>2. m.cum <= readSeq /\ \A s \in m.seqs : Received(s)
      BY <1>6, <2>1 DEF AckInv
    <3>3. m.cum <= readSeq'
      BY <1>1, <3>1, <3>2
    <3> QED  BY <1>1, <3>1, <3>2, <3>3
  <2>2. CASE m \notin net
    <3>1. m \notin entries'
      BY ZenonT(30), <1>6, TypeStep DEF TypeOK, Frame
    <3>2. CASE FlushAcks /\ m = AckFrame(readSeq, SnapshotSeqs)
      <4>1. \A s \in SnapshotSeqs : s \in Nat /\ Received(s)
        BY <1>3 DEF SnapshotSeqs, AckInv, Received, TypeOK
      <4>2. m.cum = readSeq /\ m.seqs = SnapshotSeqs
        BY <3>2 DEF AckFrame
      <4> QED  BY <1>1, <4>1, <4>2
    <3>3. CASE FlushAcks /\ m = AckFrame(0, idsToAck) /\ idsToAck # {}
      <4>1. readErr' # "nil"
        BY <1>1, <3>3 DEF AckInv
      <4>2. m.cum = 0
        BY <3>3 DEF AckFrame
      <4>3. 0 <= readSeq'
        BY <1>1
      <4> QED  BY <4>1, <4>2, <4>3 DEF Received
    <3> QED  BY <1>6, <2>2, <3>1, <3>2, <3>3, NewMessages
  <2> QED  BY <2>1, <2>2
<1> QED  BY <1>2, <1>4, <1>5, <1>6 DEF AckInv

LEMMA NoAckedLossStep ==
  ASSUME TypeOK, WriterInv, FrameInv, PositionInv, AckInv, NoAckedLoss, [Next]_vars
  PROVE  NoAckedLoss'
<1> DEFINE Gone(s) == /\ writeErr = "nil"
                      /\ s = writeSeq => writeFIN /\ closing = "none"
                      /\ \A e \in entries : e.seq # s
<1> SUFFICES ASSUME NEW s \in 0..writeSeq', Gone(s)'
             PROVE  Received(s)'
  BY DEF NoAckedLoss
<1>1. /\ writeSeq \in Nat /\ writeSeq' \in Nat /\ writeSeq <= writeSeq'
  BY WriterHistory
<1>2. s \in Nat /\ (Received(s) => Received(s)')
  BY <1>1, ReceivedStable
<1>3. ASSUME s \in 0..writeSeq, Gone(s)
      PROVE  Received(s)'
  BY <1>2, <1>3 DEF NoAckedLoss
<1>4. ASSUME NEW k \in ChunkSizes, Write(k)
      PROVE  Received(s)'
  <2>1. /\ entries' = entries \cup {DataFrame(writeSeq, [from |-> sentOffset, len |-> k])}
        /\ ~writeFIN /\ UNCHANGED <<writeFIN, writeErr, closing>>
    BY <1>4 DEF Write
  <2>2. writeSeq' = writeSeq + 1
    BY <1>4 DEF Write, writeSeq, TypeOK
  <2>3. s # writeSeq' /\ s # writeSeq
    <3> DEFINE f == DataFrame(writeSeq, [from |-> sentOffset, len |-> k])
    <3>1. f \in entries' /\ f.seq = writeSeq
      BY <2>1 DEF DataFrame
    <3> HIDE DEF f
    <3> QED  BY <2>1, <3>1
  <2>4. s \in 0..writeSeq
    BY <1>1, <2>2, <2>3
  <2> QED  BY ZenonT(30), <1>3, <2>1, <2>3, <2>4
<1>5. CASE SendFin
  <2>1. /\ entries' = entries \cup {FinFrame(writeSeq)} /\ writeSeq' = writeSeq
        /\ UNCHANGED <<writeFIN, writeErr>>
    BY <1>5 DEF SendFin, writeSeq
  <2>2. s # writeSeq
    <3>1. FinFrame(writeSeq) \in entries' /\ FinFrame(writeSeq).seq = writeSeq
      BY <2>1 DEF FinFrame
    <3> QED  BY <3>1
  <2> QED  BY <1>3, <2>1, <2>2
<1>6. CASE SendReset
  BY <1>6 DEF SendReset, WriterInv
<1>7. ASSUME NEW m \in net, RecvAck(m)
      PROVE  Received(s)'
  <2>1. /\ m.kind = "ack"
        /\ entries' = entries \ {e \in entries : e.seq \in Swept(m.cum) \cup m.seqs}
        /\ UNCHANGED <<chunks, writeFIN, writeErr, closing>>
    BY <1>7 DEF RecvAck
  <2>2. writeSeq' = writeSeq
    BY <2>1 DEF writeSeq
  <2>3. CASE \E e \in entries : e.seq = s
    <3>1. s \in Swept(m.cum) \/ s \in m.seqs
      BY <2>1, <2>3
    <3>2. CASE s \in m.seqs
      BY <1>2, <2>1, <3>2 DEF AckInv
    <3>3. CASE s \in Swept(m.cum)
      <4>1. m.cum \in Nat /\ m.cum <= readSeq /\ readSeq \in Nat /\ ackedThrough \in Nat
        BY <2>1, MessageFields DEF AckInv, TypeOK
      <4>2. s \in ackedThrough..(m.cum - 1)
        BY <3>3 DEF Swept
      <4>3. s < readSeq
        BY <4>1, <4>2
      <4> QED  BY ZenonT(30), <1>2, <4>3 DEF Received
    <3> QED  BY <3>1, <3>2, <3>3
  <2>4. CASE \A e \in entries : e.seq # s
    BY <1>3, <2>1, <2>2, <2>4
  <2> QED  BY ZenonT(30), <2>3, <2>4
<1>8. ASSUME UNCHANGED entries
      PROVE  Received(s)'
  <2>1. CASE UNCHANGED <<chunks, writeFIN, writeErr, closing>>
    BY <1>3, <1>8, <2>1 DEF writeSeq
  <2>2. CASE CloseWrite
    BY <1>3, <1>8, <2>2 DEF CloseWrite, writeSeq
  <2>3. CASE CancelWrite
    BY <1>3, <1>8, <2>3 DEF CancelWrite, AbortWrite, writeSeq
  <2>4. CASE \E m \in net : RecvStopSending(m)
    BY <1>3, <1>8, <2>4 DEF RecvStopSending, AbortWrite, writeSeq
  <2> QED  BY ZenonT(30), <1>4, <1>5, <1>6, <2>1, <2>2, <2>3, <2>4, WriterSteps
<1> QED  BY <1>4, <1>5, <1>6, <1>7, <1>8, QueueSteps

LEMMA NoStrandedEntryStep ==
  ASSUME TypeOK, WriterInv, PositionInv, AckInv, NoStrandedEntry, [Next]_vars
  PROVE  NoStrandedEntry'
<1>1. writeSeq \in Nat /\ ackedThrough \in Nat /\ readSeq \in Nat
  BY DEF TypeOK, writeSeq
\* Until the FIN is queued nothing at or past writeSeq can have been covered.
<1>2. ASSUME ~FinSent
      PROVE  writeSeq >= ackedThrough
  <2>1. readSeq # writeSeq + 1 /\ readSeq <= writeSeq + 1 /\ ackedThrough <= readSeq
    BY <1>2 DEF PositionInv, AckInv
  <2> QED  BY <1>1, <2>1
<1>3. ASSUME NEW k \in ChunkSizes, Write(k)
      PROVE  NoStrandedEntry'
  <2> DEFINE f == DataFrame(writeSeq, [from |-> sentOffset, len |-> k])
  <2>1. /\ entries' = entries \cup {f} /\ ackedThrough' = ackedThrough
        /\ f.seq = writeSeq /\ ~FinSent
    BY <1>3 DEF Write, DataFrame, FinSent
  <2> HIDE DEF f
  <2> QED  BY <1>2, <2>1 DEF NoStrandedEntry
<1>4. CASE SendFin
  <2> DEFINE f == FinFrame(writeSeq)
  <2>1. /\ entries' = entries \cup {f} /\ ackedThrough' = ackedThrough
        /\ f.seq = writeSeq /\ ~FinSent
    BY <1>4 DEF SendFin, FinFrame, FinSent
  <2> HIDE DEF f
  <2> QED  BY <1>2, <2>1 DEF NoStrandedEntry
<1>5. CASE SendReset
  <2> DEFINE f == ResetFrame(writeSeq)
  <2>1. entries' = {f} /\ ackedThrough' = 0 /\ f.seq = writeSeq
    BY <1>5 DEF SendReset, ResetFrame
  <2>2. writeSeq >= 0
    BY <1>1
  <2> HIDE DEF f
  <2> QED  BY <2>1, <2>2 DEF NoStrandedEntry
<1>6. ASSUME NEW m \in net, RecvAck(m)
      PROVE  NoStrandedEntry'
  <2>1. /\ m.kind = "ack"
        /\ entries' = entries \ {e \in entries : e.seq \in Swept(m.cum) \cup m.seqs}
        /\ ackedThrough' = IF Plausible(m.cum) THEN m.cum ELSE ackedThrough
    BY ZenonT(30), <1>6 DEF RecvAck
  <2>2. m.cum \in Nat
    BY <2>1, MessageFields DEF TypeOK
  <2>3. ASSUME NEW e \in entries'
        PROVE  e.seq >= ackedThrough'
    <3>1. /\ e \in entries /\ e.seq \in Nat /\ e.seq >= ackedThrough
          /\ e.seq \notin Swept(m.cum)
      BY <2>1 DEF NoStrandedEntry, TypeOK, Frame
    <3>2. CASE Plausible(m.cum)
      <4>1. e.seq \notin ackedThrough..(m.cum - 1)
        BY <3>1, <3>2 DEF Swept
      <4>2. e.seq >= m.cum
        BY <1>1, <2>2, <3>1, <4>1
      <4> QED  BY <2>1, <3>2, <4>2
    <3>3. CASE ~Plausible(m.cum)
      BY <2>1, <3>1, <3>3
    <3> QED  BY ZenonT(30), <3>2, <3>3
  <2> QED  BY ZenonT(30), <2>3 DEF NoStrandedEntry
<1>7. CASE UNCHANGED <<entries, ackedThrough>>
  BY <1>7 DEF NoStrandedEntry
<1> QED  BY <1>3, <1>4, <1>5, <1>6, <1>7, QueueSteps

-------------------------------------------------------------------------------
(* Flow control.                                                           *)

\* The steps that change what the reading end has granted.
LEMMA GrantSteps ==
  ASSUME [Next]_vars
  PROVE  \/ \E n \in 1..readLen : Read(n)
         \/ \E m \in net : RecvInOrder(m) \/ RecvDiscarded(m)
         \/ UNCHANGED <<peerOffset, ringCap, consumed, grantPending>>
<1> DEFINE Same == UNCHANGED <<peerOffset, ringCap, consumed, grantPending>>
<1>1. ASSUME NEW k \in ChunkSizes, Write(k)
      PROVE  Same
  BY ZenonT(30), <1>1 DEF Write, recvVars, ringVars
<1>2. CASE CloseWrite \/ SendFin \/ CancelWrite \/ SendReset \/ CreditAcked
  BY <1>2 DEF CloseWrite, SendFin, CancelWrite, SendReset, CreditAcked, recvVars, ringVars
<1>3. ASSUME NEW e \in entries, Resend(e)
      PROVE  Same
  BY ZenonT(30), <1>3 DEF Resend, recvVars, ringVars
<1>4. CASE CancelRead \/ FlushAcks \/ UNCHANGED vars
  BY ZenonT(30), <1>4 DEF CancelRead, FlushAcks, vars, recvVars, ringVars
<1>5. ASSUME NEW m \in net, RecvAtWriter(m) \/ Lose(m)
      PROVE  Same
  BY ZenonT(30), <1>5 DEF RecvAtWriter, RecvAck, RecvWindowUpdate, RecvStopSending, Lose,
              recvVars, ringVars
<1>6. ASSUME NEW m \in net, \/ RecvFin(m) \/ RecvDuplicate(m) \/ RecvOutOfOrder(m)
                            \/ RecvRefused(m) \/ RecvReset(m)
      PROVE  Same
  BY ZenonT(30), <1>6 DEF RecvFin, RecvDuplicate, RecvOutOfOrder, RecvRefused, RecvReset,
              recvVars, ringVars
<1> QED
  BY <1>1, <1>2, <1>3, <1>4, <1>5, <1>6 DEF Next, RecvAtReader

LEMMA GrantInvStep ==
  ASSUME TypeOK, FrameInv, PositionInv, GrantInv, [Next]_vars
  PROVE  GrantInv'
<1>1. /\ ringCap \in Nat /\ consumed \in Nat /\ grantPending \in Nat
      /\ peerOffset \in Nat
  BY SizesAssumption DEF TypeOK
<1>2. readErr' = "nil" => readErr = "nil"
  BY ReceivedStable
<1>3. ASSUME NEW n \in 1..readLen, Read(n)
      PROVE  GrantInv'
  <2>1. PICK stop, cap \in Nat : ReadEffect(n, stop, cap)
    BY ZenonT(30), <1>3, ReadHasEffect
  <2>2. /\ n \in Nat /\ ringCap' = cap /\ consumed' = consumed + n
        /\ \/ /\ grantPending' = 0
              /\ peerOffset' = (peerOffset + (cap - ringCap)) + (grantPending + n)
           \/ /\ grantPending' = grantPending + n
              /\ ~(grantPending + n >= cap \div 4)
              /\ peerOffset' = peerOffset + (cap - ringCap)
    BY <2>1 DEF ReadEffect, GrantDue
  <2>3. ASSUME readErr = "nil"
        PROVE  peerOffset' = (ringCap' + consumed') - grantPending'
    <3>1. peerOffset = (ringCap + consumed) - grantPending
      BY <2>3 DEF GrantInv
    <3> QED  BY <1>1, <2>2, <3>1
  <2>4. cap \div 4 \in Nat
    OBVIOUS
  <2>5. grantPending' = 0 \/ grantPending' < cap \div 4
    BY <1>1, <2>2, <2>4
  <2> QED  BY <1>2, <2>2, <2>3, <2>5 DEF GrantInv
<1>4. ASSUME NEW m \in net, RecvInOrder(m)
      PROVE  GrantInv'
  <2>1. PICK stop, grown, cap \in Nat : InOrderEffect(m, stop, grown, cap)
    BY ZenonT(30), <1>4, InOrderHasEffect
  <2>2. /\ ringCap' = cap /\ peerOffset' = peerOffset + (cap - ringCap)
        /\ ringCap <= grown /\ grown <= cap
        /\ UNCHANGED <<consumed, grantPending>>
    BY <2>1 DEF InOrderEffect
  <2>3. ASSUME readErr = "nil"
        PROVE  peerOffset' = (ringCap' + consumed') - grantPending'
    <3>1. peerOffset = (ringCap + consumed) - grantPending
      BY <2>3 DEF GrantInv
    <3> QED  BY <1>1, <2>2, <3>1
  <2>4. ringCap \div 4 <= cap \div 4 /\ ringCap \div 4 \in Nat /\ cap \div 4 \in Nat
    BY <1>1, <2>2
  <2>5. grantPending' = 0 \/ grantPending' < cap \div 4
    BY <1>1, <2>2, <2>4 DEF GrantInv
  <2> QED  BY <1>2, <2>2, <2>3, <2>5 DEF GrantInv
<1>5. ASSUME NEW m \in net, RecvDiscarded(m)
      PROVE  GrantInv'
  <2>1. readErr' # "nil" /\ UNCHANGED <<ringCap, grantPending>>
    BY <1>5 DEF RecvDiscarded, ReadDone, PositionInv
  <2> QED  BY ZenonT(30), <2>1 DEF GrantInv
<1>6. CASE UNCHANGED <<peerOffset, ringCap, consumed, grantPending>>
  BY <1>2, <1>6 DEF GrantInv
<1> QED  BY ZenonT(30), <1>3, <1>4, <1>5, <1>6, GrantSteps
===============================================================================
