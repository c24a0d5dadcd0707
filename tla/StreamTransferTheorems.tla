------------------------ MODULE StreamTransferTheorems ------------------------
(***************************************************************************)
(* What holds of one stream direction for every value of the constants:    *)
(* its safety properties, its flow control between ends that agree on the  *)
(* window, and that it implements BytePipe.                                *)
(***************************************************************************)
EXTENDS StreamTransferReader

LEMMA SafetyInit == Init => SafetyInv
<1> SUFFICES ASSUME Init
             PROVE  SafetyInv
  OBVIOUS
<1>1. TypeOK
  BY TypeInit
<1>2. writeSeq = 0 /\ Len(delivered) = 0 /\ Upto(0) = 0
  BY DEF Init, writeSeq, Upto
<1>3. WriterInv
  <2>1. \A i \in 0..writeSeq : Upto(i) = 0
    BY <1>2
  <2>2. \A i, j \in 0..writeSeq : i <= j => Upto(i) <= Upto(j)
    BY <2>1
  <2> QED  BY <1>2, <2>2 DEF Init, WriterInv
<1>4. FrameInv
  BY DEF Init, FrameInv
<1>5. PositionInv
  BY <1>2 DEF Init, PositionInv
<1>6. DeliveryInv
  BY <1>2 DEF Init, DeliveryInv, DeliveredInOrder, writeSeq
<1>7. AckInv
  BY DEF Init, AckInv
<1>8. GrantInv
  BY SizesAssumption DEF Init, GrantInv
<1>9. NoAckedLoss
  BY <1>2 DEF Init, NoAckedLoss
<1>10. NoStrandedEntry
  BY DEF Init, NoStrandedEntry
<1> QED
  BY <1>1, <1>3, <1>4, <1>5, <1>6, <1>7, <1>8, <1>9, <1>10 DEF SafetyInv

LEMMA SafetyStep ==
  ASSUME SafetyInv, [Next]_vars
  PROVE  SafetyInv'
<1>1. /\ TypeOK /\ WriterInv /\ FrameInv /\ PositionInv /\ DeliveryInv /\ AckInv
      /\ GrantInv /\ NoAckedLoss /\ NoStrandedEntry
  BY DEF SafetyInv
<1>2. TypeOK' /\ WriterInv' /\ FrameInv' /\ PositionInv' /\ DeliveryInv'
  BY <1>1, TypeStep, WriterInvStep, FrameInvStep, PositionInvStep, DeliveryInvStep
<1>3. AckInv' /\ GrantInv' /\ NoAckedLoss' /\ NoStrandedEntry'
  BY <1>1, AckInvStep, GrantInvStep, NoAckedLossStep, NoStrandedEntryStep
<1> QED  BY <1>2, <1>3 DEF SafetyInv

\* The inductive invariant holds of every behaviour of Write, Read, deliver,
\* the ACK handlers and the retransmit queue over the lossy path.
THEOREM Safety == Spec => []SafetyInv
<1>1. Init => SafetyInv
  BY SafetyInit
<1>2. SafetyInv /\ [Next]_vars => SafetyInv'
  BY SafetyStep
<1> QED  BY <1>1, <1>2, PTL DEF Spec

\* deliverLocked and drainReorderLocked hand over every chunk of Write at most
\* once and in order.
THEOREM InOrderDelivery == Spec => []DeliveredInOrder
<1>1. SafetyInv => DeliveredInOrder
  BY DEF SafetyInv, DeliveryInv
<1> QED  BY <1>1, Safety, PTL

\* A frame is taken off the retransmit queue by ackCumulative or ackMany only
\* when the reading end has it.
THEOREM NothingAckedIsLost == Spec => []NoAckedLoss
<1>1. SafetyInv => NoAckedLoss
  BY DEF SafetyInv
<1> QED  BY <1>1, Safety, PTL

\* The mark ackCumulative sweeps up to never passes an entry of the queue.
THEOREM NoEntryStranded == Spec => []NoStrandedEntry
<1>1. SafetyInv => NoStrandedEntry
  BY DEF SafetyInv
<1> QED  BY <1>1, Safety, PTL

\* io.EOF means that CloseWrite was called and all its data delivered.
THEOREM EOFIsClean == Spec => []CleanEOF
<1>1. ASSUME SafetyInv
      PROVE  CleanEOF
  <2>1. /\ TypeOK /\ WriterInv /\ DeliveryInv
    BY <1>1 DEF SafetyInv
  <2> SUFFICES ASSUME readErr = "EOF"
               PROVE  /\ writeFIN /\ writeErr = "nil"
                      /\ delivered = chunks
                      /\ ~readCanceled => consumed + readLen = sentOffset
    BY DEF CleanEOF
  <2>2. Len(delivered) = writeSeq /\ FinSent
    BY <2>1 DEF DeliveryInv
  <2>3. /\ delivered \in Seq(Payload) /\ chunks \in Seq(Payload)
        /\ Len(delivered) = Len(chunks)
        /\ \A i \in 1..Len(delivered) : delivered[i] = chunks[i]
    BY <2>1, <2>2 DEF TypeOK, DeliveryInv, DeliveredInOrder, writeSeq
  <2>4. delivered = chunks
    BY <2>3, SeqEqual
  <2>5. ~readCanceled => consumed + readLen = sentOffset
    BY <2>1, <2>2 DEF DeliveryInv, WriterInv
  <2> QED  BY <2>2, <2>4, <2>5 DEF FinSent
<1> QED  BY <1>1, Safety, PTL

\* An application that has read everything sent has granted the writer room
\* for another chunk, whatever Read still holds back.
THEOREM WindowReopens == Spec => []DrainedWindowOpen
<1>1. ASSUME SafetyInv
      PROVE  DrainedWindowOpen
  <2>1. /\ TypeOK /\ WriterInv /\ DeliveryInv /\ GrantInv
    BY <1>1 DEF SafetyInv
  <2> SUFFICES ASSUME ~ReadDone, readLen = 0, readSeq = writeSeq
               PROVE  peerOffset - sentOffset >= MaxPayload
    BY DEF DrainedWindowOpen
  <2>2. readErr = "nil" /\ ~readCanceled
    BY DEF ReadDone
  <2>3. consumed + readLen = sentOffset
    BY <2>1, <2>2 DEF DeliveryInv, WriterInv
  <2>4. peerOffset = (ringCap + consumed) - grantPending
    BY <2>1, <2>2 DEF GrantInv
  <2>5. /\ ringCap \in Nat /\ consumed \in Nat /\ grantPending \in Nat
        /\ InitCap \in Nat /\ InitCap <= ringCap
        /\ MaxPayload \in Nat /\ 2 * MaxPayload <= InitCap
    BY <2>1, SizesAssumption DEF TypeOK
  <2>6. grantPending = 0 \/ grantPending < ringCap \div 4
    BY <2>1 DEF GrantInv
  <2>7. ringCap - grantPending >= MaxPayload
    <3>1. grantPending <= ringCap \div 4 /\ 4 * (ringCap \div 4) <= ringCap
      BY <2>5, <2>6
    <3> QED  BY <2>5, <3>1
  <2>8. sentOffset = consumed
    BY <2>3, <2>5
  <2> QED  BY <2>4, <2>5, <2>7, <2>8
<1> QED  BY <1>1, Safety, PTL

-------------------------------------------------------------------------------
(* Flow control between ends configured with matching windows.             *)

LEMMA GrantsGrow ==
  ASSUME TypeOK, [Next]_vars
  PROVE  peerOffset \in Nat /\ peerOffset' \in Nat /\ peerOffset <= peerOffset'
<1>1. /\ peerOffset \in Nat /\ peerOffset' \in Nat
      /\ ringCap \in Nat /\ grantPending \in Nat
  BY TypeStep, SizesAssumption DEF TypeOK
<1>2. ASSUME NEW n \in 1..readLen, Read(n)
      PROVE  peerOffset <= peerOffset'
  <2>1. PICK stop, cap \in Nat : ReadEffect(n, stop, cap)
    BY <1>2, ReadHasEffect
  <2>2. /\ n \in Nat /\ ringCap <= cap
        /\ \/ peerOffset' = (peerOffset + (cap - ringCap)) + (grantPending + n)
           \/ peerOffset' = peerOffset + (cap - ringCap)
    BY <2>1 DEF ReadEffect
  <2> QED  BY <1>1, <2>2
<1>3. ASSUME NEW m \in net, RecvInOrder(m)
      PROVE  peerOffset <= peerOffset'
  <2>1. PICK stop, grown, cap \in Nat : InOrderEffect(m, stop, grown, cap)
    BY <1>3, InOrderHasEffect
  <2>2. ringCap <= grown /\ grown <= cap /\ peerOffset' = peerOffset + (cap - ringCap)
    BY <2>1 DEF InOrderEffect
  <2> QED  BY <1>1, <2>2
<1>4. ASSUME NEW m \in net, RecvDiscarded(m)
      PROVE  peerOffset <= peerOffset'
  <2>1. m.kind \in {"data", "fin"} /\ peerOffset' = GrantDiscarded(FrameLen(m))
    BY <1>4 DEF RecvDiscarded
  <2>2. FrameLen(m) \in Nat
    <3>1. m \in Message
      BY DEF TypeOK
    <3>2. CASE m.kind = "data"
      BY <3>1, <3>2, MessageFields, EndTyped DEF FrameLen
    <3>3. CASE m.kind = "fin"
      BY <3>3 DEF FrameLen
    <3> QED  BY <2>1, <3>2, <3>3
  <2>3. peerOffset' \in {peerOffset, peerOffset + FrameLen(m)}
    BY <2>1 DEF GrantDiscarded
  <2> QED  BY <1>1, <2>2, <2>3
<1>5. CASE UNCHANGED peerOffset
  BY <1>1, <1>5
<1> QED  BY <1>1, <1>2, <1>3, <1>4, <1>5, GrantSteps

\* The steps that change the window the writer works against.
LEMMA CreditSteps ==
  ASSUME [Next]_vars
  PROVE  \/ \E k \in ChunkSizes : Write(k)
         \/ \E m \in net : RecvWindowUpdate(m)
         \/ UNCHANGED <<sentOffset, maxSendOffset>>
<1> DEFINE Same == UNCHANGED <<sentOffset, maxSendOffset>>
<1>1. CASE CloseWrite \/ SendFin \/ CancelWrite \/ SendReset \/ CreditAcked
              \/ CancelRead \/ FlushAcks \/ UNCHANGED vars
  BY <1>1 DEF CloseWrite, SendFin, CancelWrite, SendReset, CreditAcked, CancelRead,
              FlushAcks, vars, sendVars
<1>2. ASSUME NEW e \in entries, Resend(e)
      PROVE  Same
  BY <1>2 DEF Resend, sendVars
<1>3. ASSUME NEW n \in 1..readLen, Read(n)
      PROVE  Same
  BY ZenonT(30), <1>3 DEF Read, ReadUpTo, sendVars
<1>4. ASSUME NEW m \in net, RecvAck(m) \/ RecvStopSending(m) \/ Lose(m)
      PROVE  Same
  <2>1. CASE RecvAck(m)
    BY ZenonT(30), <2>1 DEF RecvAck
  <2>2. CASE RecvStopSending(m)
    BY ZenonT(30), <2>2 DEF RecvStopSending
  <2>3. CASE Lose(m)
    BY ZenonT(30), <2>3 DEF Lose, sendVars
  <2> QED  BY <1>4, <2>1, <2>2, <2>3
<1>5. ASSUME NEW m \in net, RecvAtReader(m)
      PROVE  Same
  BY ZenonT(30), <1>5 DEF RecvAtReader, RecvDiscarded, RecvFin, RecvDuplicate, RecvOutOfOrder,
              RecvInOrder, RecvInOrderUpTo, RecvRefused, RecvReset, sendVars
<1> QED
  BY ZenonT(30), <1>1, <1>2, <1>3, <1>4, <1>5 DEF Next, RecvAtWriter

LEMMA CreditStep ==
  ASSUME TypeOK, CreditInv, [Next]_vars
  PROVE  CreditInv'
<1>1. /\ peerOffset \in Nat /\ peerOffset' \in Nat /\ peerOffset <= peerOffset'
  BY GrantsGrow
<1>2. /\ sentOffset \in Nat /\ maxSendOffset \in Nat
      /\ sentOffset <= maxSendOffset /\ maxSendOffset <= peerOffset
  BY DEF TypeOK, CreditInv
<1>3. ASSUME NEW m \in net', m.kind = "wu"
      PROVE  m.offset <= peerOffset'
  <2>1. CASE m \in net
    <3>1. m.offset \in Nat /\ m.offset <= peerOffset
      BY <1>3, <2>1, MessageFields DEF TypeOK, CreditInv
    <3> QED  BY <1>1, <3>1
  <2>2. CASE m \notin net
    <3>1. m \notin entries'
      BY ZenonT(30), <1>3, TypeStep DEF TypeOK, Frame
    <3> QED  BY <1>3, <2>2, <3>1, NewMessages DEF AckFrame
  <2> QED  BY <2>1, <2>2
<1>4. sentOffset' <= maxSendOffset' /\ maxSendOffset' <= peerOffset'
  <2>1. ASSUME NEW k \in ChunkSizes, Write(k)
        PROVE  sentOffset' <= maxSendOffset' /\ maxSendOffset' = maxSendOffset
    <3>1. /\ maxSendOffset - sentOffset >= k /\ sentOffset' = sentOffset + k
          /\ maxSendOffset' = maxSendOffset
      BY <2>1 DEF Write, HasCredit
    <3>2. k \in Nat
      BY SizesAssumption
    <3> QED  BY <1>2, <3>1, <3>2
  <2>2. ASSUME NEW m \in net, RecvWindowUpdate(m)
        PROVE  sentOffset' <= maxSendOffset' /\ maxSendOffset' <= peerOffset
    <3>1. /\ m.kind = "wu" /\ sentOffset' = sentOffset
          /\ maxSendOffset' = IF m.offset > maxSendOffset THEN m.offset
                                                          ELSE maxSendOffset
      BY <2>2 DEF RecvWindowUpdate
    <3>2. m.offset \in Nat /\ m.offset <= peerOffset
      BY <3>1, MessageFields DEF TypeOK, CreditInv
    <3> QED  BY <1>2, <3>1, <3>2
  <2>3. maxSendOffset' \in Nat
    BY TypeStep DEF TypeOK
  <2>4. sentOffset' <= maxSendOffset' /\ maxSendOffset' <= peerOffset
    BY <1>2, <2>1, <2>2, CreditSteps
  <2> QED  BY <1>1, <2>3, <2>4
<1> QED  BY <1>3, <1>4 DEF CreditInv

\* When the writing end assumes no larger window than the reading end opens
\* with, no watermark at the writer or on the path exceeds what grantLocked
\* and growLocked have granted, and Write stays within it.
THEOREM CreditIsGranted ==
  ASSUME SendInit <= InitCap
  PROVE  Spec => []CreditInv
<1>1. Init => CreditInv
  <2> SUFFICES ASSUME Init
               PROVE  CreditInv
    OBVIOUS
  <2>1. sentOffset = 0 /\ maxSendOffset = SendInit /\ peerOffset = InitCap /\ net = {}
    BY DEF Init
  <2>2. 0 <= SendInit
    BY SizesAssumption
  <2> QED  BY <2>1, <2>2 DEF CreditInv
<1>2. SafetyInv /\ CreditInv /\ [Next]_vars => CreditInv'
  BY CreditStep DEF SafetyInv
<1> QED  BY <1>1, <1>2, Safety, PTL DEF Spec

\* Between such ends the ring always has room for the frame that is due:
\* deliverLocked never refuses it.
THEOREM NextFrameFits ==
  ASSUME SendInit <= InitCap
  PROVE  Spec => []InOrderFits
<1>1. ASSUME SafetyInv, CreditInv
      PROVE  InOrderFits
  <2>1. /\ TypeOK /\ WriterInv /\ FrameInv /\ DeliveryInv /\ GrantInv
    BY <1>1 DEF SafetyInv
  <2> SUFFICES ASSUME NEW m \in net, m.kind = "data", m.seq = readSeq, ~ReadDone
               PROVE  readLen + m.data.len <= ringCap
    BY DEF InOrderFits
  <2>2. readErr = "nil" /\ ~readCanceled
    BY DEF ReadDone
  <2>3. /\ readSeq \in Nat /\ writeSeq \in Nat /\ readLen \in Int /\ ringCap \in Nat
        /\ consumed \in Nat /\ grantPending \in Nat /\ sentOffset \in Nat
        /\ maxSendOffset \in Nat /\ peerOffset \in Nat
    BY <2>1, SizesAssumption DEF TypeOK, writeSeq
  <2>4. readSeq < writeSeq /\ m.data = chunks[readSeq + 1]
    BY <2>1 DEF FrameInv, Genuine
  <2>5. readSeq + 1 \in 1..writeSeq /\ (readSeq + 1) - 1 = readSeq
    BY <2>3, <2>4
  <2>6. m.data.from = Upto(readSeq) /\ End(m.data) <= sentOffset
    BY <2>1, <2>4, <2>5 DEF WriterInv
  <2>7. m.data.from \in Nat /\ m.data.len \in Nat
    BY <2>1, MessageFields, EndTyped DEF TypeOK
  <2>8. consumed + readLen = m.data.from
    BY <2>1, <2>2, <2>6 DEF DeliveryInv
  <2>9. peerOffset = (ringCap + consumed) - grantPending
    BY <2>1, <2>2 DEF GrantInv
  <2>10. m.data.from + m.data.len <= peerOffset
    <3>1. m.data.from + m.data.len <= sentOffset
      BY <2>6 DEF End
    <3>2. sentOffset <= maxSendOffset /\ maxSendOffset <= peerOffset
      BY <1>1 DEF CreditInv
    <3> QED  BY <2>3, <2>7, <3>1, <3>2
  <2> QED  BY <2>3, <2>7, <2>8, <2>9, <2>10
<1> QED  BY <1>1, Safety, CreditIsGranted, PTL

-------------------------------------------------------------------------------
(* Refinement of BytePipe.                                                 *)

\* The bytes in a prefix of the chunks written.
LEMMA PipeBytes ==
  ASSUME TypeOK, NEW s \in Seq(Payload), Len(s) <= writeSeq,
         \A i \in 1..Len(s) : s[i] = chunks[i]
  PROVE  Pipe!Bytes(s) = Upto(Len(s))
<1>1. CASE Len(s) = 0
  <2>1. s = <<>>
    BY <1>1, EmptySeq
  <2> QED  BY <1>1, <2>1 DEF Pipe!Bytes, Upto
<1>2. CASE Len(s) # 0
  <2>1. s # <<>> /\ Len(s) \in 1..Len(s)
    BY <1>2
  <2>2. s[Len(s)] = chunks[Len(s)]
    BY <2>1
  <2> QED  BY <1>2, <2>1, <2>2 DEF Pipe!Bytes, Upto, End
<1> QED  BY <1>1, <1>2

\* A step of the reading end that delivers a run of chunks, or hands bytes to
\* the application, is an Advance of the pipe.
LEMMA AdvanceStep ==
  ASSUME SafetyInv, SafetyInv', UNCHANGED <<chunks, writerState, readCanceled>>,
         readErr = "nil" \/ (delivered' = delivered /\ readErr' = readErr),
         Len(delivered) <= Len(delivered'),
         NEW n \in Nat, n <= readLen, consumed' = consumed + n,
         readErr # "reset" /\ ~readCanceled,
         readErr' \in {readErr, "EOF"}
  PROVE  Pipe!Advance
<1>1. /\ TypeOK /\ WriterInv /\ PositionInv /\ DeliveryInv
      /\ TypeOK' /\ DeliveryInv'
  BY DEF SafetyInv
<1>2. Len(delivered') <= Len(chunks) /\ \A i \in 1..Len(delivered') : delivered'[i] = chunks[i]
  BY <1>1 DEF DeliveryInv, DeliveredInOrder
<1>3. Pipe!Bytes(delivered) = Upto(Len(delivered))
  BY ZenonT(30), <1>1, PipeBytes DEF TypeOK, DeliveryInv, DeliveredInOrder, writeSeq
<1>4. consumed + readLen = Upto(Len(delivered))
  BY <1>1 DEF DeliveryInv
<1>5. consumed \in Nat /\ readLen \in Int
  BY <1>1 DEF TypeOK
<1>6. consumed <= consumed'
  BY <1>5
<1>7. consumed' <= Pipe!Bytes(delivered)
  <2>1. consumed + n <= consumed + readLen
    BY <1>5
  <2> QED  BY <1>3, <1>4, <2>1
<1>8. \/ readErr' = readErr
      \/ readErr' = "EOF" /\ writerState = "fin" /\ Len(delivered') = Len(chunks)
  <2>1. CASE readErr' = "EOF"
    <3>1. Len(delivered') = Len(chunks') /\ FinSent'
      BY <1>1, <2>1 DEF DeliveryInv, writeSeq
    <3>2. writerState' = "fin"
      BY <3>1 DEF FinSent, writerState
    <3> QED  BY <2>1, <3>1, <3>2
  <2> QED  BY <2>1
<1> QED  BY <1>2, <1>6, <1>7, <1>8 DEF Pipe!Advance

LEMMA PipeStep ==
  ASSUME SafetyInv, SafetyInv', [Next]_vars
  PROVE  [Pipe!Next]_Pipe!vars
<1>1. /\ TypeOK /\ WriterInv /\ FrameInv /\ PositionInv /\ DeliveryInv
  BY DEF SafetyInv
<1>2. ASSUME UNCHANGED <<readErr, readCanceled, delivered, consumed>>
      PROVE  [Pipe!Next]_Pipe!vars
  <2>1. CASE UNCHANGED <<chunks, writeFIN, writeErr>>
    BY <1>2, <2>1 DEF Pipe!vars, writerState
  <2>2. ASSUME NEW k \in ChunkSizes, Write(k)
        PROVE  Pipe!Send
    <3> DEFINE p == [from |-> sentOffset, len |-> k]
    <3>1. /\ chunks' = Append(chunks, p) /\ writeErr = "nil" /\ ~writeFIN
          /\ UNCHANGED <<writeFIN, writeErr>>
      BY <2>2 DEF Write, DataFrame
    <3>2. p \in Payload /\ chunks \in Seq(Payload)
      BY ZenonT(30), <1>1, SizesAssumption DEF TypeOK, Payload
    <3>3. /\ Len(chunks') = Len(chunks) + 1 /\ chunks'[Len(chunks')] = p
          /\ \A i \in 1..Len(chunks) : chunks'[i] = chunks[i]
      BY <3>1, <3>2
    <3>4. Pipe!Bytes(chunks) = Upto(writeSeq)
      <4>1. Len(chunks) <= writeSeq
        BY <3>2 DEF writeSeq
      <4> QED  BY <1>1, <3>2, <4>1, PipeBytes DEF writeSeq
    <3>5. p.from = Pipe!Bytes(chunks)
      BY <1>1, <3>4 DEF WriterInv
    <3>6. writerState = "open" /\ writerState' = "open"
      BY <3>1 DEF writerState
    <3> HIDE DEF p
    <3> QED  BY <1>2, <3>3, <3>5, <3>6 DEF Pipe!Send
  <2>3. ASSUME CloseWrite
        PROVE  Pipe!Finish
    <3>1. writerState = "open" /\ writerState' = "fin" /\ chunks' = chunks
      BY <2>3 DEF CloseWrite, writerState
    <3> QED  BY <1>2, <3>1 DEF Pipe!Finish
  <2>4. ASSUME AbortWrite, chunks' = chunks
        PROVE  Pipe!Abort \/ UNCHANGED Pipe!vars
    <3>1. \/ UNCHANGED <<writeErr, writeFIN>>
          \/ writerState = "open" /\ writerState' = "reset"
      BY <1>1, <2>4 DEF AbortWrite, writerState, TypeOK
    <3> QED  BY <1>2, <2>1, <2>4, <3>1 DEF Pipe!Abort, Pipe!vars, writerState
  <2>5. CASE CancelWrite \/ \E m \in net : RecvStopSending(m)
    BY <2>4, <2>5 DEF CancelWrite, RecvStopSending, Pipe!Next
  <2>6. CASE SendFin \/ SendReset
    BY <2>1, <2>6 DEF SendFin, SendReset
  <2> QED
    BY <2>1, <2>2, <2>3, <2>5, <2>6, WriterSteps DEF Pipe!Next
<1>3. ASSUME UNCHANGED sendVars
      PROVE  UNCHANGED <<chunks, writeFIN, writeErr, writerState>>
  BY <1>3 DEF sendVars, writerState
<1>4. ASSUME NEW n \in 1..readLen, Read(n)
      PROVE  Pipe!Advance
  <2>1. PICK stop, cap \in Nat : ReadEffect(n, stop, cap)
    BY <1>1, <1>4, ReadHasEffect
  <2>2. /\ n \in Nat /\ readSeq <= stop
        /\ \A s \in readSeq..(stop - 1) : s \in DOMAIN reorder
        /\ consumed' = consumed + n
        /\ delivered' = delivered \o Run(readSeq, stop)
        /\ readErr' = ErrAfter(stop, finRecvd, finSeq)
        /\ UNCHANGED <<sendVars, readCanceled>>
    BY <2>1 DEF ReadEffect
  <2>3. /\ readSeq \in Nat /\ readLen \in Int /\ delivered \in Seq(Payload)
    BY <1>1 DEF TypeOK
  <2>4. n <= readLen /\ readLen # 0
    BY <2>3
  <2>5. readErr # "reset" /\ ~readCanceled
    BY <1>1, <2>4 DEF DeliveryInv
  <2>6. Run(readSeq, stop) \in Seq(Payload) /\ Len(Run(readSeq, stop)) = stop - readSeq
    BY <1>1, <2>2, <2>3, RunTyped
  <2>7. Len(delivered) <= Len(delivered')
    BY <2>2, <2>3, <2>6
  <2>8. readErr = "nil" \/ (delivered' = delivered /\ readErr' = readErr)
    <3>1. CASE readErr # "nil"
      <4>1. DOMAIN reorder = {}
        BY <1>1, <3>1 DEF PositionInv
      <4>2. stop - readSeq = 0
        <5>1. ~(readSeq < stop)
          <6>1. readSeq < stop => readSeq \in readSeq..(stop - 1)
            BY <2>3
          <6> QED  BY <2>2, <4>1, <6>1
        <5> QED  BY <2>2, <2>3, <5>1
      <4>3. Run(readSeq, stop) = <<>>
        BY <2>6, <4>2, EmptySeq
      <4>4. delivered' = delivered
        BY <2>2, <2>3, <4>3
      <4> QED  BY <2>2, <3>1, <4>4 DEF ErrAfter
    <3> QED  BY <3>1
  <2>9. readErr' \in {readErr, "EOF"}
    BY <2>2 DEF ErrAfter
  <2> QED
    BY ZenonT(30), <1>3, <2>2, <2>4, <2>5, <2>7, <2>8, <2>9, AdvanceStep
<1>5. ASSUME NEW m \in net, RecvInOrder(m)
      PROVE  Pipe!Advance
  <2>1. PICK stop, grown, cap \in Nat : InOrderEffect(m, stop, grown, cap)
    BY ZenonT(30), <1>1, <1>5, InOrderHasEffect
  <2>2. /\ m.data \in Payload /\ readErr = "nil" /\ ~readCanceled
        /\ readSeq + 1 <= stop
        /\ \A s \in (readSeq + 1)..(stop - 1) : s \in DOMAIN reorder
        /\ delivered' = Append(delivered, m.data) \o Run(readSeq + 1, stop)
        /\ readErr' = ErrAfter(stop, finRecvd, finSeq)
        /\ UNCHANGED <<sendVars, consumed, readCanceled>>
    BY ZenonT(30), <2>1 DEF InOrderEffect, ReadDone
  <2>3. /\ readSeq + 1 \in Nat /\ delivered \in Seq(Payload) /\ consumed \in Nat
    <3>1. readSeq \in Nat /\ delivered \in Seq(Payload) /\ consumed \in Nat
      BY Zenon, <1>1 DEF TypeOK
    <3> QED  BY <3>1
  <2>4. Run(readSeq + 1, stop) \in Seq(Payload)
    BY <1>1, <2>2, <2>3, RunTyped
  <2>5. Len(delivered) <= Len(delivered')
    <3> DEFINE d == Append(delivered, m.data)
    <3>1. d \in Seq(Payload) /\ Len(d) = Len(delivered) + 1
      BY <2>2, <2>3
    <3>2. Len(delivered') = Len(d) + Len(Run(readSeq + 1, stop))
      BY <2>2, <2>4, <3>1
    <3> HIDE DEF d
    <3>3. Len(Run(readSeq + 1, stop)) \in Nat /\ Len(delivered) \in Nat
      BY <2>3, <2>4
    <3> QED  BY <3>1, <3>2, <3>3
  <2>6. 0 \in Nat /\ 0 <= readLen /\ consumed' = consumed + 0
    BY <1>1, <2>2, <2>3 DEF DeliveryInv
  <2>7. readErr' \in {readErr, "EOF"}
    BY <2>2 DEF ErrAfter
  <2> QED
    BY <1>3, <2>2, <2>5, <2>6, <2>7, AdvanceStep
<1>6. ASSUME NEW m \in net, RecvFin(m)
      PROVE  Pipe!Advance
  <2>1. /\ readErr = "nil" /\ ~readCanceled
        /\ readErr' \in {readErr, "EOF"}
        /\ UNCHANGED <<sendVars, delivered, consumed, readCanceled>>
    BY <1>6 DEF RecvFin, ReadDone, ErrAfter, ringVars
  <2>2. 0 \in Nat /\ 0 <= readLen /\ consumed' = consumed + 0
    BY <1>1, <2>1 DEF DeliveryInv, TypeOK
  <2>3. Len(delivered) <= Len(delivered')
    BY <1>1, <2>1 DEF TypeOK
  <2> QED  BY ZenonT(30), <1>3, <2>1, <2>2, <2>3, AdvanceStep
<1>7. ASSUME NEW m \in net, RecvReset(m)
      PROVE  Pipe!Fail
  <2>1. /\ m.kind = "reset" /\ readErr' = ErrAfterReset
        /\ UNCHANGED <<sendVars, delivered, consumed, readCanceled>>
    BY <1>7 DEF RecvReset
  <2>2. writerState = "reset"
    BY <1>1, <2>1 DEF FrameInv, Genuine, writerState
  <2> QED  BY <1>3, <2>1, <2>2 DEF Pipe!Fail, ErrAfterReset
<1>8. ASSUME CancelRead
      PROVE  Pipe!Cancel
  <2>1. /\ readErr' = ErrAfterReset /\ readCanceled' = TRUE
        /\ UNCHANGED <<sendVars, delivered, consumed>>
    BY ZenonT(30), <1>8 DEF CancelRead
  <2> QED  BY <1>3, <2>1 DEF Pipe!Cancel, ErrAfterReset
<1>9. ASSUME NEW m \in net, RecvDiscarded(m) \/ RecvOutOfOrder(m)
      PROVE  UNCHANGED <<readErr, readCanceled, delivered, consumed>>
  BY <1>9 DEF RecvDiscarded, RecvOutOfOrder
<1> QED
  BY ZenonT(30), <1>2, <1>4, <1>5, <1>6, <1>7, <1>8, <1>9, PositionSteps DEF Pipe!Next

\* Retransmission, reordering, duplicate suppression, flow control, close and
\* cancel implement BytePipe: the reader gets the writer's bytes in order and
\* once, a clean end only after all of them, a reset only if one was asked for.
THEOREM ImplementsPipe == Spec => PipeSpec
<1>1. Init => Pipe!Init
  BY DEF Init, Pipe!Init, writerState
<1>2. SafetyInv /\ SafetyInv' /\ [Next]_vars => [Pipe!Next]_Pipe!vars
  BY PipeStep
<1> QED  BY <1>1, <1>2, Safety, PTL DEF Spec, PipeSpec, Pipe!Spec
===============================================================================
