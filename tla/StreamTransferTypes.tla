------------------------- MODULE StreamTransferTypes --------------------------
(***************************************************************************)
(* Type correctness of StreamTransfer for every value of its constants,    *)
(* and the lemmas on the path, the ring's growth and the drain it rests on.*)
(***************************************************************************)
EXTENDS StreamTransfer, SequenceTheorems, TLAPS

-------------------------------------------------------------------------------
(* The path.                                                               *)

\* Whatever the path loses, nothing is in flight that was not sent.
LEMMA QueueIn ==
  ASSUME NEW S, NEW out, Queue(S, out)
  PROVE  net' \subseteq S \cup out
BY DEF Queue

LEMMA EmitIn ==
  ASSUME NEW out, Emit(out)
  PROVE  net' \subseteq net \cup out
BY QueueIn DEF Emit

LEMMA ArriveIn ==
  ASSUME NEW m, NEW out, Arrive(m, out)
  PROVE  m \in net /\ net' \subseteq net \cup out
<1>1. CASE Queue(net \ {m}, out)
  BY <1>1, QueueIn DEF Arrive
<1>2. CASE Queue(net, out)
  BY <1>2, QueueIn DEF Arrive
<1> QED  BY <1>1, <1>2 DEF Arrive

LEMMA ArriveSilent ==
  ASSUME NEW m, Arrive(m, {})
  PROVE  m \in net /\ net' \subseteq net
BY ArriveIn

-------------------------------------------------------------------------------
(* The ring's growth.                                                      *)

\* maybeGrowLocked never shrinks the ring and never exceeds the maximum.
LEMMA MaybeGrowBounds ==
  ASSUME NEW c \in Nat, c <= MaxBuf, NEW len \in Int, NEW ramp \in BOOLEAN
  PROVE  MaybeGrow(c, len, ramp) \in c..MaxBuf
<1>1. MaxBuf \in Nat
  BY SizesAssumption
<1>2. /\ Min({2 * c, MaxBuf}) \in {2 * c, MaxBuf}
      /\ Min({2 * c, MaxBuf}) <= MaxBuf
  <2>1. \E x \in {2 * c, MaxBuf} : \A y \in {2 * c, MaxBuf} : x =< y
    BY <1>1
  <2> QED  BY <2>1 DEF Min
<1>3. \/ MaybeGrow(c, len, ramp) = c
      \/ c < MaxBuf /\ MaybeGrow(c, len, ramp) = Min({2 * c, MaxBuf})
  BY Zenon DEF MaybeGrow
<1> QED  BY <1>1, <1>2, <1>3

-------------------------------------------------------------------------------
(* Types.                                                                  *)

LEMMA MessageFields ==
  ASSUME NEW m \in Message
  PROVE  /\ m.kind \in {"data", "fin", "reset"} => m \in Frame /\ m.seq \in Nat
         /\ m.kind = "data" => m.data \in Payload
         /\ m.kind = "ack" => m.cum \in Nat /\ m.seqs \subseteq Nat
         /\ m.kind = "wu" => m.offset \in Nat
BY DEF Message, Frame

LEMMA MessagesTyped ==
  /\ \A s \in Nat, p \in Payload : DataFrame(s, p) \in Frame
  /\ \A s \in Nat : FinFrame(s) \in Frame /\ ResetFrame(s) \in Frame
  /\ \A c \in Nat, S \in SUBSET Nat : AckFrame(c, S) \in Message
  /\ \A o \in Nat : WindowUpdate(o) \in Message
  /\ StopSending \in Message
  /\ Frame \subseteq Message
BY DEF DataFrame, FinFrame, ResetFrame, AckFrame, WindowUpdate, StopSending,
       Frame, Message

\* The drain's run of buffered payloads is a sequence of payloads.
LEMMA RunTyped ==
  ASSUME TypeOK, NEW a \in Nat, NEW n \in Nat, a <= n,
         \A s \in a..(n - 1) : s \in DOMAIN reorder
  PROVE  /\ Run(a, n) \in Seq(Payload)
         /\ Len(Run(a, n)) = n - a
         /\ \A i \in 1..(n - a) : Run(a, n)[i] = reorder[a + i - 1]
<1> DEFINE r == [i \in 1..(n - a) |-> reorder[a + i - 1]]
<1>1. n - a \in Nat
  OBVIOUS
<1>2. \A i \in 1..(n - a) : reorder[a + i - 1] \in Payload
  BY DEF TypeOK
<1>3. r \in [1..(n - a) -> Payload]
  BY <1>2
<1>4. r \in Seq(Payload) /\ Len(r) = n - a
  BY <1>1, <1>3
<1> QED  BY <1>4 DEF Run

LEMMA RunBytesTyped ==
  ASSUME TypeOK, NEW a \in Nat, NEW n \in Nat, a <= n,
         \A s \in a..(n - 1) : s \in DOMAIN reorder
  PROVE  RunBytes(a, n) \in Int
<1>1. CASE n = a
  BY <1>1 DEF RunBytes
<1>2. CASE n # a
  <2>1. a \in DOMAIN reorder /\ n - 1 \in DOMAIN reorder
    BY <1>2
  <2> QED  BY <1>2, <2>1 DEF RunBytes, TypeOK, Payload, End
<1> QED  BY <1>1, <1>2

LEMMA TypeInit == Init => TypeOK
<1> SUFFICES ASSUME Init
             PROVE  TypeOK
  OBVIOUS
<1>1. ringCap \in InitCap..MaxBuf /\ peerOffset \in Nat /\ maxSendOffset \in Nat
  BY SizesAssumption DEF Init
<1>2. chunks \in Seq(Payload) /\ delivered \in Seq(Payload)
  BY DEF Init
<1>3. DOMAIN reorder = {}
  BY DEF Init
<1>4. /\ sentOffset \in Nat /\ ackedThrough \in Nat /\ readSeq \in Nat
      /\ readLen \in Int /\ reorderBytes \in Int /\ finSeq \in Nat
      /\ grantPending \in Nat /\ consumed \in Nat
  BY DEF Init
<1>5. /\ writeFIN \in BOOLEAN /\ finRecvd \in BOOLEAN /\ readCanceled \in BOOLEAN
      /\ ackDirty \in BOOLEAN
      /\ writeErr \in {"nil", "reset"} /\ closing \in {"none", "fin", "reset"}
      /\ readErr \in Errors
  BY ZenonT(30) DEF Init, Errors
<1>6. /\ entries \subseteq Frame /\ net \subseteq Message
      /\ ackPending \subseteq Nat /\ ackReplay \subseteq Nat /\ idsToAck \subseteq Nat
  BY DEF Init
<1> QED  BY <1>1, <1>2, <1>3, <1>4, <1>5, <1>6 DEF TypeOK

\* What Read does once its drain has stopped at stop, with capacity cap.
ReadEffect(n, stop, cap) ==
  /\ n \in Nat /\ readSeq <= stop
  /\ \A s \in readSeq..(stop - 1) : s \in DOMAIN reorder
  /\ ringCap <= cap /\ cap <= MaxBuf
  /\ consumed' = consumed + n
  /\ readSeq' = stop
  /\ readLen' = (readLen - n) + RunBytes(readSeq, stop)
  /\ ringCap' = cap
  /\ delivered' = delivered \o Run(readSeq, stop)
  /\ reorder' = Remaining(stop)
  /\ reorderBytes' = reorderBytes - RunBytes(readSeq, stop)
  /\ readErr' = ErrAfter(stop, finRecvd, finSeq)
  /\ \/ /\ grantPending' = 0
        /\ peerOffset' = (peerOffset + (cap - ringCap)) + (grantPending + n)
     \/ /\ grantPending' = grantPending + n
        /\ ~GrantDue(grantPending + n, cap)
        /\ peerOffset' = peerOffset + (cap - ringCap)
  /\ net' \subseteq net \cup Grants({peerOffset + (cap - ringCap), peerOffset'})
  /\ UNCHANGED <<sendVars, ackPending, ackReplay, finRecvd, finSeq,
                 readCanceled, flushVars>>

LEMMA ReadHasEffect ==
  ASSUME TypeOK, NEW n \in 1..readLen, Read(n)
  PROVE  \E stop, cap \in Nat : ReadEffect(n, stop, cap)
<1>1. PICK stop \in readSeq..(MaxFrames + 1), cap \in ringCap..MaxBuf :
        ReadUpTo(n, stop, cap)
  BY DEF Read
<1>2. /\ stop \in Nat /\ cap \in Nat
      /\ n \in Nat /\ readSeq <= stop /\ ringCap <= cap /\ cap <= MaxBuf
  BY SizesAssumption, LimitsAssumption DEF TypeOK
<1>3. \A s \in readSeq..(stop - 1) : s \in DOMAIN reorder
  BY <1>1 DEF ReadUpTo, DrainStops
<1>4. net' \subseteq net \cup Grants({peerOffset + (cap - ringCap), peerOffset'})
  BY <1>1, EmitIn DEF ReadUpTo
<1>5. \/ /\ grantPending' = 0
         /\ peerOffset' = (peerOffset + (cap - ringCap)) + (grantPending + n)
      \/ /\ grantPending' = grantPending + n
         /\ ~GrantDue(grantPending + n, cap)
         /\ peerOffset' = peerOffset + (cap - ringCap)
  BY <1>1 DEF ReadUpTo
<1>6. /\ consumed' = consumed + n
      /\ readSeq' = stop
      /\ readLen' = (readLen - n) + RunBytes(readSeq, stop)
      /\ ringCap' = cap
      /\ delivered' = delivered \o Run(readSeq, stop)
      /\ reorder' = Remaining(stop)
      /\ reorderBytes' = reorderBytes - RunBytes(readSeq, stop)
      /\ readErr' = ErrAfter(stop, finRecvd, finSeq)
      /\ UNCHANGED <<sendVars, ackPending, ackReplay, finRecvd, finSeq,
                     readCanceled, flushVars>>
  BY <1>1 DEF ReadUpTo
<1> QED  BY ZenonT(30), <1>2, <1>3, <1>4, <1>5, <1>6 DEF ReadEffect

\* What the next frame due does once its drain has stopped at stop, with
\* capacity grown before and cap after the early growth.
InOrderEffect(m, stop, grown, cap) ==
  /\ m.kind = "data" /\ m.seq = readSeq /\ m.data \in Payload
  /\ ~ReadDone /\ readSeq + 1 <= stop
  /\ \A s \in (readSeq + 1)..(stop - 1) : s \in DOMAIN reorder
  /\ ringCap <= grown /\ grown <= cap /\ cap <= MaxBuf
  /\ readSeq' = stop
  /\ readLen' = (readLen + m.data.len) + RunBytes(readSeq + 1, stop)
  /\ ringCap' = cap
  /\ delivered' = Append(delivered, m.data) \o Run(readSeq + 1, stop)
  /\ reorder' = Remaining(stop)
  /\ reorderBytes' = reorderBytes - RunBytes(readSeq + 1, stop)
  /\ readErr' = ErrAfter(stop, finRecvd, finSeq)
  /\ peerOffset' = peerOffset + (cap - ringCap)
  /\ net' \subseteq net \cup Grants({peerOffset + (grown - ringCap), peerOffset'})
  /\ ackDirty' = TRUE
  /\ UNCHANGED <<sendVars, consumed, ackPending, ackReplay, finRecvd,
                 finSeq, readCanceled, grantPending, idsToAck>>

LEMMA InOrderHasEffect ==
  ASSUME TypeOK, NEW m \in net, RecvInOrder(m)
  PROVE  \E stop, grown, cap \in Nat : InOrderEffect(m, stop, grown, cap)
<1>1. PICK stop \in (readSeq + 1)..MaxFrames, grown \in ringCap..MaxBuf,
           ramp \in BOOLEAN : RecvInOrderUpTo(m, stop, grown, ramp)
  BY DEF RecvInOrder
<1> DEFINE len == (readLen + m.data.len) + RunBytes(readSeq + 1, stop)
           cap == MaybeGrow(grown, len, ramp)
<1>2. /\ readSeq + 1 \in Nat /\ stop \in Nat /\ readSeq + 1 <= stop
      /\ ringCap <= grown /\ grown \in Nat /\ grown <= MaxBuf
      /\ readLen \in Int /\ MaxBuf \in Nat
  BY SizesAssumption, LimitsAssumption DEF TypeOK
<1>3. m.kind = "data" /\ m.seq = readSeq /\ ~ReadDone
  BY <1>1 DEF RecvInOrderUpTo
<1>4. m.data \in Payload /\ m.data.len \in Int
  <2>1. m \in Message
    BY DEF TypeOK
  <2> QED  BY <1>3, <2>1, MessageFields, SizesAssumption DEF Payload
<1>5. \A s \in (readSeq + 1)..(stop - 1) : s \in DOMAIN reorder
  BY <1>1 DEF RecvInOrderUpTo, DrainStops
<1>6. RunBytes(readSeq + 1, stop) \in Int
  BY <1>2, <1>5, RunBytesTyped
<1>7. len \in Int
  BY <1>2, <1>4, <1>6
<1>8. cap \in grown..MaxBuf
  BY <1>2, <1>7, MaybeGrowBounds
<1>9. net' \subseteq net \cup Grants({peerOffset + (grown - ringCap), peerOffset'})
  BY <1>1, ArriveIn DEF RecvInOrderUpTo
<1>10. /\ readSeq' = stop
       /\ readLen' = (readLen + m.data.len) + RunBytes(readSeq + 1, stop)
       /\ ringCap' = cap
       /\ delivered' = Append(delivered, m.data) \o Run(readSeq + 1, stop)
       /\ reorder' = Remaining(stop)
       /\ reorderBytes' = reorderBytes - RunBytes(readSeq + 1, stop)
       /\ readErr' = ErrAfter(stop, finRecvd, finSeq)
       /\ peerOffset' = peerOffset + (cap - ringCap)
       /\ ackDirty' = TRUE
       /\ UNCHANGED <<sendVars, consumed, ackPending, ackReplay, finRecvd,
                      finSeq, readCanceled, grantPending, idsToAck>>
  BY <1>1 DEF RecvInOrderUpTo
<1> HIDE DEF cap
<1>11. cap \in Nat /\ grown <= cap /\ cap <= MaxBuf
  BY <1>2, <1>8
<1> QED  BY ZenonT(30), <1>2, <1>3, <1>4, <1>5, <1>9, <1>10, <1>11 DEF InOrderEffect

\* Every step of either end keeps every variable in its type.
LEMMA TypeStep ==
  ASSUME TypeOK, [Next]_vars
  PROVE  TypeOK'
<1>0. net \subseteq Message
  BY DEF TypeOK
<1>1. ASSUME NEW k \in ChunkSizes, Write(k)
      PROVE  TypeOK'
  <2> DEFINE p == [from |-> sentOffset, len |-> k]
  <2>1. p \in Payload /\ writeSeq \in Nat
    BY SizesAssumption DEF TypeOK, Payload, writeSeq
  <2>2. DataFrame(writeSeq, p) \in Frame /\ Frame \subseteq Message
    BY <2>1, MessagesTyped
  <2>3. Emit({DataFrame(writeSeq, p)}) /\ chunks' = Append(chunks, p)
    BY <1>1 DEF Write, DataFrame
  <2>4. net' \subseteq Message
    BY <2>2, <2>3, EmitIn DEF TypeOK
  <2>5. sentOffset' \in Nat
    BY <1>1, SizesAssumption DEF Write, TypeOK
  <2>6. chunks' \in Seq(Payload)
    BY <2>1, <2>3 DEF TypeOK
  <2>7. entries' \subseteq Frame
    BY <1>1, <2>2 DEF Write, TypeOK, DataFrame
  <2> QED
    BY <1>1, <2>4, <2>5, <2>6, <2>7 DEF Write, TypeOK, recvVars, ringVars, flushVars
<1>2. CASE CloseWrite
  BY <1>2 DEF CloseWrite, TypeOK, recvVars, ringVars, flushVars
<1>3. CASE SendFin
  <2>1. FinFrame(writeSeq) \in Frame /\ Frame \subseteq Message
    BY MessagesTyped DEF TypeOK, writeSeq
  <2>2. net' \subseteq Message
    BY <1>3, <2>1, EmitIn DEF SendFin, TypeOK
  <2> QED
    BY <1>3, <2>1, <2>2 DEF SendFin, TypeOK, recvVars, ringVars, flushVars
<1>4. CASE CancelWrite
  BY ZenonT(30), <1>4 DEF CancelWrite, AbortWrite, TypeOK, recvVars, ringVars, flushVars
<1>5. CASE SendReset
  <2>1. ResetFrame(writeSeq) \in Frame /\ Frame \subseteq Message
    BY MessagesTyped DEF TypeOK, writeSeq
  <2>2. net' \subseteq Message
    BY <1>5, <2>1, EmitIn DEF SendReset, TypeOK
  <2> QED
    BY <1>5, <2>1, <2>2 DEF SendReset, TypeOK, recvVars, ringVars, flushVars
<1>6. ASSUME NEW e \in entries, Resend(e)
      PROVE  TypeOK'
  <2>1. net' \subseteq Message
    BY <1>6, EmitIn, MessagesTyped DEF Resend, TypeOK
  <2> QED
    BY <1>6, <2>1 DEF Resend, TypeOK, sendVars, recvVars, ringVars, flushVars
<1>7. CASE CreditAcked
  BY <1>7 DEF CreditAcked, TypeOK, recvVars, ringVars, flushVars
<1>8. ASSUME NEW n \in 1..readLen, Read(n)
      PROVE  TypeOK'
  <2>0. PICK stop, cap \in Nat : ReadEffect(n, stop, cap)
    BY <1>8, ReadHasEffect
  <2>1. /\ n \in Nat /\ readSeq <= stop
        /\ \A s \in readSeq..(stop - 1) : s \in DOMAIN reorder
        /\ ringCap <= cap /\ cap <= MaxBuf
        /\ consumed' = consumed + n
        /\ readSeq' = stop
        /\ readLen' = (readLen - n) + RunBytes(readSeq, stop)
        /\ ringCap' = cap
        /\ delivered' = delivered \o Run(readSeq, stop)
        /\ reorder' = Remaining(stop)
        /\ reorderBytes' = reorderBytes - RunBytes(readSeq, stop)
        /\ readErr' = ErrAfter(stop, finRecvd, finSeq)
        /\ grantPending' \in {0, grantPending + n}
        /\ peerOffset' \in {peerOffset + (cap - ringCap),
                            (peerOffset + (cap - ringCap)) + (grantPending + n)}
        /\ net' \subseteq net \cup Grants({peerOffset + (cap - ringCap), peerOffset'})
        /\ UNCHANGED <<sendVars, ackPending, ackReplay, finRecvd, finSeq,
                       readCanceled, flushVars>>
    BY ZenonT(30), <2>0 DEF ReadEffect
  <2>2. /\ readSeq \in Nat /\ ringCap \in Nat /\ InitCap <= ringCap
        /\ readLen \in Int /\ reorderBytes \in Int
        /\ peerOffset \in Nat /\ grantPending \in Nat /\ consumed \in Nat
        /\ InitCap \in Nat /\ MaxBuf \in Nat
    BY SizesAssumption DEF TypeOK
  <2>3. RunBytes(readSeq, stop) \in Int /\ Run(readSeq, stop) \in Seq(Payload)
    BY ZenonT(30), <2>1, <2>2, RunTyped, RunBytesTyped
  <2>4. peerOffset' \in Nat
    BY <2>1, <2>2
  <2>5. grantPending' \in Nat
    BY <2>1, <2>2
  <2>6. consumed' \in Nat
    BY <2>1, <2>2
  <2>7. readLen' \in Int
    BY <2>1, <2>2, <2>3
  <2>8. reorderBytes' \in Int
    BY <2>1, <2>2, <2>3
  <2>9. net' \subseteq Message
    <3>1. peerOffset + (cap - ringCap) \in Nat
      BY <2>1, <2>2
    <3>2. Grants({peerOffset + (cap - ringCap), peerOffset'}) \subseteq Message
      BY <2>4, <3>1, MessagesTyped DEF Grants
    <3> QED  BY ZenonT(30), <1>0, <2>1, <3>2
  <2>10. delivered' \in Seq(Payload)
    <3>1. delivered \in Seq(Payload)
      BY DEF TypeOK
    <3> QED  BY <2>1, <2>3, <3>1
  <2>11. /\ DOMAIN reorder' \subseteq Nat
         /\ \A s \in DOMAIN reorder' : reorder'[s] \in Payload
    BY <2>1 DEF Remaining, TypeOK
  <2>12. readErr' \in Errors
    BY <2>1 DEF ErrAfter, TypeOK, Errors
  <2>13. readSeq' \in Nat /\ ringCap' \in InitCap..MaxBuf
    BY <2>1, <2>2
  <2> QED
    BY ZenonT(30), <2>1, <2>4, <2>5, <2>6, <2>7, <2>8, <2>9, <2>10, <2>11, <2>12, <2>13
       DEF TypeOK, sendVars, flushVars
<1>9. CASE CancelRead
  <2>1. net' \subseteq Message
    BY <1>9, EmitIn, MessagesTyped DEF CancelRead, TypeOK
  <2> QED
    BY <1>9, <2>1
       DEF CancelRead, DiscardReadState, ErrAfterReset, TypeOK, Errors, sendVars,
           flushVars
<1>10. CASE FlushAcks
  <2> DEFINE cum == AckFrame(readSeq, SnapshotSeqs)
             wu == WindowUpdate(peerOffset)
             ids == AckFrame(0, idsToAck)
  <2>1. SnapshotSeqs \subseteq Nat
    BY ZenonT(30) DEF SnapshotSeqs, TypeOK
  <2>2. cum \in Message /\ wu \in Message /\ ids \in Message
    BY <2>1, MessagesTyped DEF TypeOK
  <2> HIDE DEF cum, wu, ids
  <2>3. Emit((IF ackDirty THEN {cum, wu} ELSE {})
              \cup (IF idsToAck # {} THEN {ids} ELSE {}))
    BY <1>10 DEF FlushAcks, cum, wu, ids
  <2>4. net' \subseteq Message
    BY <2>2, <2>3, EmitIn DEF TypeOK
  <2> QED
    BY ZenonT(30), <1>10, <2>4 DEF FlushAcks, TypeOK, sendVars, ringVars
<1>11. ASSUME NEW m \in net, RecvAck(m) \/ RecvWindowUpdate(m) \/ RecvStopSending(m)
       PROVE  TypeOK'
  <2>1. m \in Message
    BY DEF TypeOK
  <2>2. Arrive(m, {})
    BY <1>11 DEF RecvAck, RecvWindowUpdate, RecvStopSending
  <2>3. net' \subseteq Message
    BY <1>0, <2>2, ArriveSilent
  <2>4. CASE RecvAck(m)
    BY ZenonT(30), <2>1, <2>3, <2>4, MessageFields
       DEF RecvAck, TypeOK, recvVars, ringVars, flushVars
  <2>5. CASE RecvWindowUpdate(m)
    BY <2>1, <2>3, <2>5, MessageFields
       DEF RecvWindowUpdate, TypeOK, recvVars, ringVars, flushVars
  <2>6. CASE RecvStopSending(m)
    BY ZenonT(30), <2>3, <2>6
       DEF RecvStopSending, AbortWrite, TypeOK, recvVars, ringVars, flushVars
  <2> QED  BY <1>11, <2>4, <2>5, <2>6
<1>12. ASSUME NEW m \in net, RecvDiscarded(m)
       PROVE  TypeOK'
  <2>1. m \in Message /\ m.kind \in {"data", "fin"}
    BY <1>12 DEF RecvDiscarded, TypeOK
  <2>2. FrameLen(m) \in Nat /\ m.seq \in Nat
    BY <2>1, MessageFields, SizesAssumption DEF FrameLen, Payload
  <2>3. GrantDiscarded(FrameLen(m)) \in Nat
    BY <2>2 DEF GrantDiscarded, TypeOK
  <2>4. net' \subseteq Message
    <3>1. WindowUpdate(GrantDiscarded(FrameLen(m))) \in Message
      BY <2>3, MessagesTyped
    <3>2. net' \subseteq net \cup {WindowUpdate(GrantDiscarded(FrameLen(m)))}
      BY <1>12, ArriveIn DEF RecvDiscarded
    <3> QED  BY <1>0, <3>1, <3>2
  <2> QED
    BY SMTT(30), <1>12, <2>2, <2>3, <2>4 DEF RecvDiscarded, TypeOK, sendVars
<1>13. ASSUME NEW m \in net, RecvFin(m)
       PROVE  TypeOK'
  <2>1. m.seq \in Nat
    BY ZenonT(30), <1>13, MessageFields DEF RecvFin, TypeOK
  <2>2. net' \subseteq Message
    BY <1>0, <1>13, ArriveSilent DEF RecvFin
  <2>3. finRecvd' \in BOOLEAN /\ finSeq' \in Nat /\ readErr' \in Errors
    BY <1>13, <2>1 DEF RecvFin, ErrAfter, TypeOK, Errors
  <2> QED
    BY ZenonT(30), <1>13, <2>2, <2>3 DEF RecvFin, TypeOK, sendVars, ringVars
<1>14. ASSUME NEW m \in net, RecvDuplicate(m)
       PROVE  TypeOK'
  <2>1. m.seq \in Nat
    BY <1>14, MessageFields DEF RecvDuplicate, TypeOK
  <2>2. net' \subseteq Message
    BY <1>0, <1>14, ArriveSilent DEF RecvDuplicate
  <2> QED
    BY ZenonT(30), <1>14, <2>1, <2>2 DEF RecvDuplicate, TypeOK, sendVars, ringVars
<1>15. ASSUME NEW m \in net, RecvOutOfOrder(m)
       PROVE  TypeOK'
  <2>1. m.seq \in Nat /\ m.data \in Payload /\ m.data.len \in Int
    <3>1. m \in Message /\ m.kind = "data"
      BY ZenonT(30), <1>15 DEF RecvOutOfOrder, TypeOK
    <3> QED  BY <3>1, MessageFields, SizesAssumption DEF Payload
  <2>2. net' \subseteq Message
    BY ZenonT(30), <1>0, <1>15, ArriveSilent DEF RecvOutOfOrder
  <2>3. /\ DOMAIN reorder' \subseteq Nat
        /\ \A s \in DOMAIN reorder' : reorder'[s] \in Payload
    BY <1>15, <2>1 DEF RecvOutOfOrder, TypeOK
  <2>4. reorderBytes' \in Int /\ ackPending' \subseteq Nat
    <3>1. /\ reorderBytes' = reorderBytes + m.data.len
          /\ ackPending' = ackPending \cup {m.seq}
      BY <1>15 DEF RecvOutOfOrder
    <3>2. reorderBytes \in Int /\ ackPending \subseteq Nat
      BY DEF TypeOK
    <3>3. reorderBytes' \in Int
      BY <2>1, <3>1, <3>2
    <3>4. ackPending' \subseteq Nat
      BY ZenonT(30), <2>1, <3>1, <3>2
    <3> QED  BY ZenonT(30), <3>3, <3>4
  <2> QED
    BY ZenonT(30), <1>15, <2>2, <2>3, <2>4 DEF RecvOutOfOrder, TypeOK, sendVars
<1>16. ASSUME NEW m \in net, RecvInOrder(m)
       PROVE  TypeOK'
  <2>0. PICK stop, grown, cap \in Nat : InOrderEffect(m, stop, grown, cap)
    BY SMTT(30), <1>16, InOrderHasEffect
  <2>1. /\ m.data \in Payload
        /\ readSeq + 1 <= stop
        /\ \A s \in (readSeq + 1)..(stop - 1) : s \in DOMAIN reorder
        /\ ringCap <= grown /\ grown <= cap /\ cap <= MaxBuf
        /\ readSeq' = stop
        /\ readLen' = (readLen + m.data.len) + RunBytes(readSeq + 1, stop)
        /\ ringCap' = cap
        /\ delivered' = Append(delivered, m.data) \o Run(readSeq + 1, stop)
        /\ reorder' = Remaining(stop)
        /\ reorderBytes' = reorderBytes - RunBytes(readSeq + 1, stop)
        /\ readErr' = ErrAfter(stop, finRecvd, finSeq)
        /\ peerOffset' = peerOffset + (cap - ringCap)
        /\ net' \subseteq net \cup Grants({peerOffset + (grown - ringCap), peerOffset'})
        /\ ackDirty' = TRUE
        /\ UNCHANGED <<sendVars, consumed, ackPending, ackReplay, finRecvd,
                       finSeq, readCanceled, grantPending, idsToAck>>
    BY ZenonT(30), <2>0 DEF InOrderEffect
  <2>2. /\ readSeq + 1 \in Nat /\ ringCap \in Nat /\ InitCap <= ringCap
        /\ readLen \in Int /\ reorderBytes \in Int /\ peerOffset \in Nat
        /\ InitCap \in Nat /\ MaxBuf \in Nat
    BY SizesAssumption DEF TypeOK
  <2>3. m.data \in Payload /\ m.data.len \in Int
    <3>1. m.data \in Payload
      BY Zenon, <2>1
    <3> QED  BY <3>1, SizesAssumption DEF Payload
  <2>4. /\ RunBytes(readSeq + 1, stop) \in Int
        /\ Run(readSeq + 1, stop) \in Seq(Payload)
    BY ZenonT(30), <2>1, <2>2, RunTyped, RunBytesTyped
  <2>5. /\ ringCap <= grown /\ grown <= cap /\ cap <= MaxBuf /\ ringCap' = cap
        /\ peerOffset' = peerOffset + (cap - ringCap)
        /\ readLen' = (readLen + m.data.len) + RunBytes(readSeq + 1, stop)
        /\ reorderBytes' = reorderBytes - RunBytes(readSeq + 1, stop)
    BY Zenon, <2>1
  <2>6. peerOffset' \in Nat /\ ringCap' \in InitCap..MaxBuf
    BY <2>2, <2>5
  <2>7. readLen' \in Int
    BY <2>2, <2>3, <2>4, <2>5
  <2>8. reorderBytes' \in Int
    BY <2>2, <2>4, <2>5
  <2>9. net' \subseteq Message
    <3>1. peerOffset + (grown - ringCap) \in Nat
      BY <2>2, <2>5
    <3>2. Grants({peerOffset + (grown - ringCap), peerOffset'}) \subseteq Message
      BY ZenonT(30), <2>6, <3>1, MessagesTyped DEF Grants
    <3> QED  BY ZenonT(30), <1>0, <2>1, <3>2
  <2>10. delivered' \in Seq(Payload)
    <3>1. delivered \in Seq(Payload)
      BY ZenonT(30) DEF TypeOK
    <3>2. Append(delivered, m.data) \in Seq(Payload)
      BY <2>3, <3>1
    <3> QED  BY <2>1, <2>4, <3>2
  <2>11. /\ DOMAIN reorder' \subseteq Nat
         /\ \A s \in DOMAIN reorder' : reorder'[s] \in Payload
    BY ZenonT(30), <2>1 DEF Remaining, TypeOK
  <2>12. readErr' \in Errors
    BY ZenonT(30), <2>1 DEF ErrAfter, TypeOK, Errors
  <2> QED
    BY ZenonT(30), <2>1, <2>6, <2>7, <2>8, <2>9, <2>10, <2>11, <2>12
       DEF TypeOK, sendVars
<1>17. ASSUME NEW m \in net, RecvRefused(m)
       PROVE  TypeOK'
  <2>1. net' \subseteq Message
    BY <1>0, <1>17, ArriveSilent DEF RecvRefused
  <2> QED
    BY <1>17, <2>1 DEF RecvRefused, TypeOK, sendVars, recvVars, ringVars
<1>18. ASSUME NEW m \in net, RecvReset(m)
       PROVE  TypeOK'
  <2>1. m.seq \in Nat
    BY <1>18, MessageFields DEF RecvReset, TypeOK
  <2>2. net' \subseteq Message
    BY <1>0, <1>18, ArriveSilent DEF RecvReset
  <2>3. idsToAck' \subseteq Nat
    BY ZenonT(30), <1>18, <2>1 DEF RecvReset, TypeOK
  <2>4. readErr' \in Errors
    BY <1>18 DEF RecvReset, ErrAfterReset, TypeOK, Errors
  <2> QED
    BY SMTT(30), <1>18, <2>2, <2>3, <2>4 DEF RecvReset, DiscardReadState, TypeOK, sendVars
<1>19. ASSUME NEW m \in net, Lose(m)
       PROVE  TypeOK'
  BY ZenonT(30), <1>19 DEF Lose, TypeOK, sendVars, recvVars, ringVars, flushVars
<1>20. CASE UNCHANGED vars
  BY <1>20 DEF vars, TypeOK, sendVars, recvVars, ringVars, flushVars
<1> QED
  BY <1>1, <1>2, <1>3, <1>4, <1>5, <1>6, <1>7, <1>8, <1>9, <1>10, <1>11, <1>12,
     <1>13, <1>14, <1>15, <1>16, <1>17, <1>18, <1>19, <1>20
     DEF Next, RecvAtWriter, RecvAtReader

\* Both ends' state keeps its types in every behaviour of the protocol.
THEOREM TypeCorrect == Spec => []TypeOK
<1>1. Init => TypeOK
  BY TypeInit
<1>2. TypeOK /\ [Next]_vars => TypeOK'
  BY TypeStep
<1> QED  BY <1>1, <1>2, PTL DEF Spec
===============================================================================
