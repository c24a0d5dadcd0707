---------------------------- MODULE StreamTransfer ----------------------------
(***************************************************************************)
(* One direction of one stream: the writing end (Stream.Write, CloseWrite, *)
(* CancelWrite and the connection's retransmit queue), the reading end     *)
(* (Stream.Read, CancelRead, deliver, the ACK flush) and the UDP path      *)
(* between them, which loses, duplicates and reorders datagrams.           *)
(*                                                                         *)
(* A payload is the interval of the written byte stream it carries, so     *)
(* bytes are told apart by their offset.  Every critical section of the    *)
(* code is one action; a call that releases its lock and takes another     *)
(* (CloseWrite, CancelWrite, the receive batch and its ACK flush) is one   *)
(* action per critical section.                                            *)
(***************************************************************************)
EXTENDS Integers, Sequences, FiniteSets, FiniteSetsExt

CONSTANTS
  MaxPayload,     \* cfg.dataCap(): the longest chunk Write cuts
  ChunkSizes,     \* the chunk lengths the writing application produces
  SendInit,       \* initial window the writing end assumes (its own config)
  InitCap,        \* initial ring capacity of the reading end (its own config)
  MaxBuf,         \* maxBufSize() of the reading end
  InFlightCap,    \* inFlightCap() of the writing end
  MaxCumAdvance,  \* plausibility limit of ackCumulative
  ResetLen,       \* length of a RESET frame's payload
  Lossy,          \* the kinds of frame the path may drop
  Duplicates,     \* whether the path may deliver a datagram twice
  AppCalls,       \* which of CloseWrite, CancelWrite, CancelRead are called
  MaxFrames,      \* bound: chunks the application writes
  PathCap         \* bound: droppable datagrams in flight at once

Kinds == {"data", "fin", "reset", "ack", "wu", "stop"}

ASSUME SizesAssumption ==
  /\ MaxPayload \in Nat \ {0}
  /\ ChunkSizes \subseteq 1..MaxPayload
  /\ InitCap \in Nat
  /\ MaxBuf \in Nat
  /\ 2 * MaxPayload <= InitCap
  /\ InitCap <= MaxBuf
  /\ SendInit \in Nat

ASSUME LimitsAssumption ==
  /\ InFlightCap \in Nat
  /\ MaxCumAdvance \in Nat
  /\ ResetLen \in Nat
  /\ MaxFrames \in Nat
  /\ PathCap \in Nat \ {0, 1}
  /\ Lossy \subseteq Kinds
  /\ Duplicates \in BOOLEAN
  /\ AppCalls \subseteq {"CloseWrite", "CancelWrite", "CancelRead"}

VARIABLES
  \* writing end, guarded by writeMu (entries and ackedThrough by q.mu)
  chunks,         \* history: the payload of every DATA frame written
  sentOffset,
  maxSendOffset,
  ackedBytes,
  writeFIN,
  writeErr,
  closing,        \* the FIN or RESET decided on but not yet sent
  entries,        \* retransmitQueue.entries: the unacknowledged frames
  ackedThrough,
  uncredited,     \* bytes handleACK has freed but not yet credited
  \* reading end, guarded by readMu
  readSeq,
  readLen,        \* bytes in the ring
  ringCap,        \* len(readBuf)
  reorder,
  reorderBytes,
  ackPending,
  ackReplay,
  finRecvd,
  finSeq,
  readErr,
  readCanceled,
  grantPending,
  peerOffset,
  delivered,      \* history: the payloads moved into the ring, in order
  consumed,       \* history: bytes the application has read
  \* reading end, guarded by recvMu
  ackDirty,       \* the stream is in sAckDirty
  idsToAck,       \* sReadIdsToAck
  \* the path
  net

sendVars == <<chunks, sentOffset, maxSendOffset, ackedBytes, writeFIN,
              writeErr, closing, entries, ackedThrough, uncredited>>
ringVars == <<readSeq, readLen, ringCap, reorder, reorderBytes,
              delivered, consumed>>
recvVars == <<ringVars, ackPending, ackReplay, finRecvd, finSeq, readErr,
              readCanceled, grantPending, peerOffset>>
flushVars == <<ackDirty, idsToAck>>
vars == <<sendVars, recvVars, flushVars, net>>

-------------------------------------------------------------------------------
(* Frames.                                                                 *)

Payload == [from : Nat, len : 1..MaxPayload]

DataFrame(s, p) == [kind |-> "data", seq |-> s, data |-> p]
FinFrame(s) == [kind |-> "fin", seq |-> s]
ResetFrame(s) == [kind |-> "reset", seq |-> s]
AckFrame(c, S) == [kind |-> "ack", cum |-> c, seqs |-> S]
WindowUpdate(o) == [kind |-> "wu", offset |-> o]
StopSending == [kind |-> "stop"]

\* len(entry.data) of a pending frame.
FrameLen(f) ==
  CASE f.kind = "data" -> f.data.len
    [] f.kind = "fin" -> 0
    [] f.kind = "reset" -> ResetLen

End(p) == p.from + p.len

writeSeq == Len(chunks)

-------------------------------------------------------------------------------
(* The path: UDP datagrams in flight.                                      *)

Droppable(S) == {f \in S : f.kind \in Lossy}

\* The frames of out join those of S; beyond the capacity of the path, older
\* datagrams are dropped.
Queue(S, out) ==
  \E lost \in SUBSET (Droppable(S) \ out) :
    /\ Cardinality(lost) = Max({0, Cardinality(Droppable(S \cup out)) - PathCap})
    /\ net' = (S \ lost) \cup out

Emit(out) == Queue(net, out)

\* m reaches its destination, whose handler sends the frames of out; a
\* duplicated datagram is still in flight afterwards.
Arrive(m, out) ==
  /\ m \in net
  /\ Queue(net \ {m}, out) \/ (Duplicates /\ Queue(net, out))

Lose(m) ==
  /\ m \in net
  /\ m.kind \in Lossy
  /\ net' = net \ {m}
  /\ UNCHANGED <<sendVars, recvVars, flushVars>>

-------------------------------------------------------------------------------
(* Writing end.                                                            *)

\* Mutant: any credit at all admits a chunk.
HasSomeCredit(k) == maxSendOffset > sentOffset

HasCredit(k) == maxSendOffset - sentOffset >= k

bytesInFlight == sentOffset - ackedBytes

\* One chunk of Write: the loop waits until every guard holds.
Write(k) ==
  LET f == DataFrame(writeSeq, [from |-> sentOffset, len |-> k])
  IN  /\ writeErr = "nil"
      /\ ~writeFIN
      /\ HasCredit(k)
      /\ bytesInFlight + k <= InFlightCap
      /\ writeSeq < MaxFrames
      /\ chunks' = Append(chunks, f.data)
      /\ sentOffset' = sentOffset + k
      /\ entries' = entries \cup {f}
      /\ Emit({f})
      /\ UNCHANGED <<maxSendOffset, ackedBytes, writeFIN, writeErr, closing,
                     ackedThrough, uncredited, recvVars, flushVars>>

\* CloseWrite up to its unlock of writeMu.
CloseWrite ==
  /\ "CloseWrite" \in AppCalls
  /\ ~writeFIN
  /\ writeErr = "nil"
  /\ writeFIN' = TRUE
  /\ closing' = "fin"
  /\ UNCHANGED <<chunks, sentOffset, maxSendOffset, ackedBytes, writeErr,
                 entries, ackedThrough, uncredited, recvVars, flushVars, net>>

\* The rest of CloseWrite: sendReliableFrame.
SendFin ==
  /\ closing = "fin"
  /\ closing' = "none"
  /\ entries' = entries \cup {FinFrame(writeSeq)}
  /\ Emit({FinFrame(writeSeq)})
  /\ UNCHANGED <<chunks, sentOffset, maxSendOffset, ackedBytes, writeFIN,
                 writeErr, ackedThrough, uncredited, recvVars, flushVars>>

\* Mutant: a cancel after CloseWrite is not ignored.
AbortFinished ==
  IF writeErr # "nil"
    THEN UNCHANGED <<writeErr, writeFIN, closing>>
    ELSE /\ writeErr' = "reset"
         /\ writeFIN' = TRUE
         /\ closing' = "reset"

\* abortWriteLocked up to its unlock of writeMu.
AbortWrite ==
  IF writeFIN \/ writeErr # "nil"
    THEN UNCHANGED <<writeErr, writeFIN, closing>>
    ELSE /\ writeErr' = "reset"
         /\ writeFIN' = TRUE
         /\ closing' = "reset"

CancelWrite ==
  /\ "CancelWrite" \in AppCalls
  /\ ~writeFIN
  /\ AbortWrite
  /\ UNCHANGED <<chunks, sentOffset, maxSendOffset, ackedBytes, entries,
                 ackedThrough, uncredited, recvVars, flushVars, net>>

\* The rest of abortWriteLocked: purgeStream, then the reliable RESET.
SendReset ==
  /\ closing = "reset"
  /\ closing' = "none"
  /\ entries' = {ResetFrame(writeSeq)}
  /\ ackedThrough' = 0
  /\ Emit({ResetFrame(writeSeq)})
  /\ UNCHANGED <<chunks, sentOffset, maxSendOffset, ackedBytes, writeFIN,
                 writeErr, uncredited, recvVars, flushVars>>

\* The resend worker sends an outstanding frame again.
Resend(e) ==
  /\ e \in entries
  /\ Emit({e})
  /\ UNCHANGED <<sendVars, recvVars, flushVars>>

Plausible(cum) == ackedThrough < cum /\ cum - ackedThrough <= MaxCumAdvance

\* Mutant: the watermark itself, the next sequence due, is swept too.
SweptThrough(cum) == IF Plausible(cum) THEN ackedThrough..cum ELSE {}

\* Mutant: the sweep starts one too late.
SweptAfter(cum) == IF Plausible(cum) THEN (ackedThrough + 1)..(cum - 1) ELSE {}

\* The sequence numbers ackCumulative sweeps.
Swept(cum) == IF Plausible(cum) THEN ackedThrough..(cum - 1) ELSE {}

\* Frames for the writing end are handled one at a time, under recvMu.
RecvIdle == uncredited = 0

\* handleACK up to its last use of the queue: ackCumulative and ackMany.
RecvAck(m) ==
  LET acked == {e \in entries : e.seq \in Swept(m.cum) \cup m.seqs}
  IN  /\ m.kind = "ack"
      /\ RecvIdle
      /\ Arrive(m, {})
      /\ entries' = entries \ acked
      /\ ackedThrough' = IF Plausible(m.cum) THEN m.cum ELSE ackedThrough
      /\ uncredited' = MapThenSumSet(FrameLen, acked)
      /\ UNCHANGED <<chunks, sentOffset, maxSendOffset, ackedBytes, writeFIN,
                     writeErr, closing, recvVars, flushVars>>

\* Mutant: the freed bytes are credited but stay owed.
CreditAckedAgain ==
  /\ uncredited > 0
  /\ ackedBytes' = ackedBytes + uncredited
  /\ UNCHANGED <<chunks, sentOffset, maxSendOffset, writeFIN, writeErr,
                 closing, entries, ackedThrough, uncredited, recvVars,
                 flushVars, net>>

\* The rest of handleACK: creditAcked, which needs writeMu.
CreditAcked ==
  /\ uncredited > 0
  /\ ackedBytes' = ackedBytes + uncredited
  /\ uncredited' = 0
  /\ UNCHANGED <<chunks, sentOffset, maxSendOffset, writeFIN, writeErr,
                 closing, entries, ackedThrough, recvVars, flushVars, net>>

\* Mutant: the watermark is taken for a relative grant.
RecvRelativeUpdate(m) ==
  /\ m.kind = "wu"
  /\ RecvIdle
  /\ Arrive(m, {})
  /\ maxSendOffset' = maxSendOffset + m.offset
  /\ UNCHANGED <<chunks, sentOffset, ackedBytes, writeFIN, writeErr, closing,
                 entries, ackedThrough, uncredited, recvVars, flushVars>>

\* setMaxSendOffset never lowers the watermark.
RecvWindowUpdate(m) ==
  /\ m.kind = "wu"
  /\ RecvIdle
  /\ Arrive(m, {})
  /\ maxSendOffset' = IF m.offset > maxSendOffset THEN m.offset
                                                  ELSE maxSendOffset
  /\ UNCHANGED <<chunks, sentOffset, ackedBytes, writeFIN, writeErr, closing,
                 entries, ackedThrough, uncredited, recvVars, flushVars>>

RecvStopSending(m) ==
  /\ m.kind = "stop"
  /\ RecvIdle
  /\ Arrive(m, {})
  /\ AbortWrite
  /\ UNCHANGED <<chunks, sentOffset, maxSendOffset, ackedBytes, entries,
                 ackedThrough, uncredited, recvVars, flushVars>>

-------------------------------------------------------------------------------
(* Reading end: the ring and its growth.                                   *)

\* growLocked: the capacity that holds len bytes, by doubling up to MaxBuf.
GrowTo(c, len) ==
  IF len <= c
    THEN c
    ELSE Min({MaxBuf} \cup {d \in {c * 2^i : i \in 1..len} : d >= len})

\* maybeGrowLocked; ramp says that the paced early growth is due.
MaybeGrow(c, len, ramp) ==
  IF c < MaxBuf /\ (len * 2 >= c \/ ramp)
    THEN Min({2 * c, MaxBuf})
    ELSE c

\* Bytes of the buffered frames a..n-1 (consecutive chunks are contiguous).
RunBytes(a, n) == IF n = a THEN 0 ELSE End(reorder[n - 1]) - reorder[a].from

\* drainReorderLocked, started at sequence a with len bytes in the ring,
\* stops at n: the first frame that is missing or has no room.
DrainStops(a, n, len) ==
  /\ \A s \in a..(n - 1) : /\ s \in DOMAIN reorder
                           /\ len + RunBytes(a, s + 1) <= MaxBuf
  /\ n \in DOMAIN reorder => len + RunBytes(a, n + 1) > MaxBuf

\* Mutant: the drain looks up the same sequence number every time.
RunOfFirst(a, n) == [i \in 1..(n - a) |-> reorder[a]]

\* The payloads of the buffered frames a..n-1, in order.
Run(a, n) == [i \in 1..(n - a) |-> reorder[a + i - 1]]

\* Mutant: a frame is deleted before it is known to fit the ring.
RemainingAfter(n) ==
  [s \in {t \in DOMAIN reorder : t > n} |-> reorder[s]]

\* The buffer without the frames below n.
Remaining(n) ==
  [s \in {t \in DOMAIN reorder : t >= n} |-> reorder[s]]

\* Watermarks announced when the offset is granted in the steps of S.
Grants(S) == {WindowUpdate(o) : o \in {p \in S : p > peerOffset}}

\* maybeEOFLocked: the sticky read result once data up to seq is delivered.
ErrAfter(seq, fin, fseq) ==
  IF fin /\ seq >= fseq /\ readErr = "nil" THEN "EOF" ELSE readErr

\* Mutant: a reset replaces an earlier result.
ErrAlwaysReset == "reset"

\* The sticky read result once the direction is reset.
ErrAfterReset == IF readErr = "nil" THEN "reset" ELSE readErr

\* Mutant: credit is returned only for more than a full ring.
GrantDueLate(pending, cap) == pending > cap

\* Consumed bytes are granted back once enough accumulate.
GrantDue(pending, cap) == pending >= cap \div 4

\* Read returns n bytes; its drain stops at sequence stop, with capacity cap.
ReadUpTo(n, stop, cap) ==
  LET left == readLen - n
      len == left + RunBytes(readSeq, stop)
      pending == grantPending + n
      due == GrantDue(pending, cap)
      grown == peerOffset + (cap - ringCap)
  IN  /\ DrainStops(readSeq, stop, left)
      /\ cap = GrowTo(ringCap, len)
      /\ consumed' = consumed + n
      /\ readSeq' = stop
      /\ readLen' = len
      /\ ringCap' = cap
      /\ delivered' = delivered \o Run(readSeq, stop)
      /\ reorder' = Remaining(stop)
      /\ reorderBytes' = reorderBytes - RunBytes(readSeq, stop)
      /\ readErr' = ErrAfter(stop, finRecvd, finSeq)
      /\ grantPending' = IF due THEN 0 ELSE pending
      /\ peerOffset' = IF due THEN grown + pending ELSE grown
      /\ Emit(Grants({grown, peerOffset'}))
      /\ UNCHANGED <<sendVars, ackPending, ackReplay, finRecvd, finSeq,
                     readCanceled, flushVars>>

Read(n) ==
  \E stop \in readSeq..(MaxFrames + 1), cap \in ringCap..MaxBuf :
    ReadUpTo(n, stop, cap)

-------------------------------------------------------------------------------
(* Reading end: arrivals (deliverLocked, under recvMu and readMu).         *)

ReadDone == readCanceled \/ readErr # "nil"

IsDuplicate(s) == s < readSeq \/ s \in DOMAIN reorder

\* The watermark after len discarded bytes are granted back.  Watermarks
\* beyond everything the application will write are not told apart.
GrantDiscarded(len) ==
  IF peerOffset < MaxFrames * MaxPayload THEN peerOffset + len ELSE peerOffset

\* A frame for a finished read side: granted back and acknowledged.
RecvDiscarded(m) ==
  LET granted == GrantDiscarded(FrameLen(m))
  IN  /\ m.kind \in {"data", "fin"}
      /\ ReadDone
      /\ Arrive(m, IF m.kind = "data" THEN {WindowUpdate(granted)} ELSE {})
      /\ peerOffset' = granted
      /\ readSeq' = IF m.seq >= readSeq THEN m.seq + 1 ELSE readSeq
      /\ ackDirty' = TRUE
      /\ UNCHANGED <<sendVars, readLen, ringCap, reorder, reorderBytes,
                     delivered, consumed, ackPending, ackReplay, finRecvd,
                     finSeq, readErr, readCanceled, grantPending, idsToAck>>

RecvFin(m) ==
  LET valid == m.seq >= readSeq
  IN  /\ m.kind = "fin"
      /\ ~ReadDone
      /\ Arrive(m, {})
      /\ finRecvd' = (valid \/ finRecvd)
      /\ finSeq' = IF valid THEN m.seq ELSE finSeq
      /\ readErr' = IF valid THEN ErrAfter(readSeq, TRUE, m.seq) ELSE readErr
      /\ ackDirty' = TRUE
      /\ UNCHANGED <<sendVars, ringVars, ackPending, ackReplay, readCanceled,
                     grantPending, peerOffset, idsToAck>>

RecvDuplicate(m) ==
  /\ m.kind = "data"
  /\ ~ReadDone
  /\ IsDuplicate(m.seq)
  /\ Arrive(m, {})
  /\ ackPending' = IF m.seq >= readSeq THEN ackPending \cup {m.seq}
                                       ELSE ackPending
  /\ ackDirty' = TRUE
  /\ UNCHANGED <<sendVars, ringVars, ackReplay, finRecvd, finSeq, readErr,
                 readCanceled, grantPending, peerOffset, idsToAck>>

RecvOutOfOrder(m) ==
  /\ m.kind = "data"
  /\ ~ReadDone
  /\ m.seq > readSeq
  /\ ~IsDuplicate(m.seq)
  /\ reorderBytes + m.data.len <= MaxBuf
  /\ Arrive(m, {})
  /\ reorder' = [s \in DOMAIN reorder \cup {m.seq} |->
                   IF s = m.seq THEN m.data ELSE reorder[s]]
  /\ reorderBytes' = reorderBytes + m.data.len
  /\ ackPending' = ackPending \cup {m.seq}
  /\ ackDirty' = TRUE
  /\ UNCHANGED <<sendVars, readSeq, readLen, ringCap, delivered, consumed,
                 ackReplay, finRecvd, finSeq, readErr, readCanceled,
                 grantPending, peerOffset, idsToAck>>

\* The drain that follows stops at sequence stop; grown is the capacity
\* growLocked makes for the data, MaybeGrow the early growth on top of it.
RecvInOrderUpTo(m, stop, grown, ramp) ==
  LET first == readLen + m.data.len
      len == first + RunBytes(readSeq + 1, stop)
      cap == MaybeGrow(grown, len, ramp)
  IN  /\ m.kind = "data"
      /\ ~ReadDone
      /\ m.seq = readSeq
      /\ ~IsDuplicate(m.seq)
      /\ first <= MaxBuf
      /\ DrainStops(readSeq + 1, stop, first)
      /\ grown = GrowTo(ringCap, len)
      /\ readSeq' = stop
      /\ readLen' = len
      /\ ringCap' = cap
      /\ delivered' = Append(delivered, m.data) \o Run(readSeq + 1, stop)
      /\ reorder' = Remaining(stop)
      /\ reorderBytes' = reorderBytes - RunBytes(readSeq + 1, stop)
      /\ readErr' = ErrAfter(stop, finRecvd, finSeq)
      /\ peerOffset' = peerOffset + (cap - ringCap)
      /\ Arrive(m, Grants({peerOffset + (grown - ringCap), peerOffset'}))
      /\ ackDirty' = TRUE
      /\ UNCHANGED <<sendVars, consumed, ackPending, ackReplay, finRecvd,
                     finSeq, readCanceled, grantPending, idsToAck>>

RecvInOrder(m) ==
  \E stop \in (readSeq + 1)..MaxFrames, grown \in ringCap..MaxBuf,
     ramp \in BOOLEAN :
    RecvInOrderUpTo(m, stop, grown, ramp)

\* deliverLocked returns false: no room in the ring, or over the budget.
RecvRefused(m) ==
  /\ m.kind = "data"
  /\ ~ReadDone
  /\ ~IsDuplicate(m.seq)
  /\ \/ m.seq = readSeq /\ readLen + m.data.len > MaxBuf
     \/ m.seq > readSeq /\ reorderBytes + m.data.len > MaxBuf
  /\ Arrive(m, {})
  /\ ackDirty' = TRUE
  /\ UNCHANGED <<sendVars, recvVars, idsToAck>>

\* discardReadStateLocked.
DiscardReadState ==
  /\ readLen' = 0
  /\ reorder' = [s \in {} |-> 0]
  /\ reorderBytes' = 0
  /\ ackPending' = {}
  /\ ackReplay' = {}

\* handleStreamReset and deliverReset.
RecvReset(m) ==
  /\ m.kind = "reset"
  /\ Arrive(m, {})
  /\ idsToAck' = idsToAck \cup {m.seq}
  /\ readErr' = ErrAfterReset
  /\ DiscardReadState
  /\ UNCHANGED <<sendVars, readSeq, ringCap, delivered, consumed, finRecvd,
                 finSeq, readCanceled, grantPending, peerOffset, ackDirty>>

CancelRead ==
  /\ "CancelRead" \in AppCalls
  /\ ~readCanceled
  /\ readCanceled' = TRUE
  /\ readErr' = ErrAfterReset
  /\ DiscardReadState
  /\ Emit({StopSending})
  /\ UNCHANGED <<sendVars, readSeq, ringCap, delivered, consumed, finRecvd,
                 finSeq, grantPending, peerOffset, flushVars>>

\* The selective part of ackSnapshot.
SnapshotSeqs ==
  {s \in ackReplay \cup ackPending : s >= readSeq}
    \cup {s \in {finSeq} : finRecvd /\ s >= readSeq}

\* flushPendingAcksLocked at the end of a receive batch.
FlushAcks ==
  /\ ackDirty \/ idsToAck # {}
  /\ Emit((IF ackDirty THEN {AckFrame(readSeq, SnapshotSeqs),
                             WindowUpdate(peerOffset)}
                       ELSE {})
           \cup (IF idsToAck # {} THEN {AckFrame(0, idsToAck)} ELSE {}))
  /\ ackReplay' = IF ackDirty THEN ackPending ELSE ackReplay
  /\ ackPending' = IF ackDirty THEN {} ELSE ackPending
  /\ ackDirty' = FALSE
  /\ idsToAck' = {}
  /\ UNCHANGED <<sendVars, ringVars, finRecvd, finSeq, readErr, readCanceled,
                 grantPending, peerOffset>>

-------------------------------------------------------------------------------
Init ==
  /\ chunks = <<>>
  /\ sentOffset = 0
  /\ maxSendOffset = SendInit
  /\ ackedBytes = 0
  /\ writeFIN = FALSE
  /\ writeErr = "nil"
  /\ closing = "none"
  /\ entries = {}
  /\ ackedThrough = 0
  /\ uncredited = 0
  /\ readSeq = 0
  /\ readLen = 0
  /\ ringCap = InitCap
  /\ reorder = [s \in {} |-> 0]
  /\ reorderBytes = 0
  /\ ackPending = {}
  /\ ackReplay = {}
  /\ finRecvd = FALSE
  /\ finSeq = 0
  /\ readErr = "nil"
  /\ readCanceled = FALSE
  /\ grantPending = 0
  /\ peerOffset = InitCap
  /\ delivered = <<>>
  /\ consumed = 0
  /\ ackDirty = FALSE
  /\ idsToAck = {}
  /\ net = {}

\* A frame that reaches the writing end.
RecvAtWriter(m) == RecvAck(m) \/ RecvWindowUpdate(m) \/ RecvStopSending(m)

\* A frame that reaches the reading end.
RecvAtReader(m) ==
  \/ RecvDiscarded(m)
  \/ RecvFin(m)
  \/ RecvDuplicate(m)
  \/ RecvOutOfOrder(m)
  \/ RecvInOrder(m)
  \/ RecvRefused(m)
  \/ RecvReset(m)

Next ==
  \/ \E k \in ChunkSizes : Write(k)
  \/ CloseWrite
  \/ SendFin
  \/ CancelWrite
  \/ SendReset
  \/ \E e \in entries : Resend(e)
  \/ CreditAcked
  \/ \E n \in 1..readLen : Read(n)
  \/ CancelRead
  \/ FlushAcks
  \/ \E m \in net : RecvAtWriter(m) \/ RecvAtReader(m) \/ Lose(m)

Spec == Init /\ [][Next]_vars

-------------------------------------------------------------------------------
(* Fairness.  The connection's own goroutines keep running: the receive    *)
(* loop ends each batch with an ACK flush, a FIN or RESET decided on is    *)
(* sent, and the retransmit loop's 20 ms tick resends the frame that has   *)
(* been outstanding longest.  The path may drop any datagram but not every *)
(* copy of a frame that is sent again and again.  Applications owe nothing,*)
(* except where a property is about an application that reads.             *)

Oldest == {e \in entries : \A f \in entries : e.seq <= f.seq}

Current(m) ==
  \/ m.kind = "ack" /\ m.cum = readSeq
  \/ m.kind = "wu" /\ m.offset = peerOffset

SystemFairness ==
  /\ WF_vars(SendFin)
  /\ WF_vars(SendReset)
  /\ WF_vars(CreditAcked)
  /\ WF_vars(FlushAcks)
  /\ WF_vars(\E e \in Oldest : Resend(e))
  /\ SF_vars(\E e \in Oldest : RecvAtReader(e))
  /\ SF_vars(\E m \in net : Current(m) /\ RecvAck(m))
  /\ SF_vars(\E m \in net : Current(m) /\ RecvWindowUpdate(m))

ReaderReads == WF_vars(\E n \in 1..readLen : Read(n))

FairSpec == Spec /\ SystemFairness /\ ReaderReads

-------------------------------------------------------------------------------
(* What the direction promises its two applications.                       *)

writerState ==
  IF writeErr = "reset" THEN "reset" ELSE IF writeFIN THEN "fin" ELSE "open"

Pipe == INSTANCE BytePipe WITH
  sent <- chunks, wstate <- writerState, got <- delivered,
  taken <- consumed, rstate <- readErr, canceled <- readCanceled

\* Retransmission, reordering, duplicate suppression and flow control together
\* implement the byte pipe the Stream API documents.
PipeSpec == Pipe!Spec

-------------------------------------------------------------------------------
(* Properties.                                                             *)

Errors == {"nil", "EOF", "reset"}

Frame ==
  [kind : {"data"}, seq : Nat, data : Payload]
    \cup [kind : {"fin", "reset"}, seq : Nat]

Message ==
  Frame \cup [kind : {"ack"}, cum : Nat, seqs : SUBSET Nat]
        \cup [kind : {"wu"}, offset : Nat]
        \cup [kind : {"stop"}]

\* The types of both ends' state; the byte counters that are sums over sets
\* of frames are pinned down by BufferAccounting and InFlightAccounting.
TypeOK ==
  /\ chunks \in Seq(Payload)
  /\ sentOffset \in Nat
  /\ maxSendOffset \in Nat
  /\ writeFIN \in BOOLEAN
  /\ writeErr \in {"nil", "reset"}
  /\ closing \in {"none", "fin", "reset"}
  /\ entries \subseteq Frame
  /\ ackedThrough \in Nat
  /\ readSeq \in Nat
  /\ readLen \in Int
  /\ ringCap \in InitCap..MaxBuf
  /\ DOMAIN reorder \subseteq Nat
  /\ \A s \in DOMAIN reorder : reorder[s] \in Payload
  /\ reorderBytes \in Int
  /\ ackPending \subseteq Nat
  /\ ackReplay \subseteq Nat
  /\ finRecvd \in BOOLEAN
  /\ finSeq \in Nat
  /\ readErr \in Errors
  /\ readCanceled \in BOOLEAN
  /\ grantPending \in Nat
  /\ peerOffset \in Nat
  /\ delivered \in Seq(Payload)
  /\ consumed \in Nat
  /\ ackDirty \in BOOLEAN
  /\ idsToAck \subseteq Nat
  /\ net \subseteq Message

\* deliverLocked and drainReorderLocked move every written frame into the
\* ring at most once and in the order Write produced them, whatever the path
\* loses, repeats or reorders.
DeliveredInOrder ==
  /\ Len(delivered) <= Len(chunks)
  /\ \A i \in 1..Len(delivered) : delivered[i] = chunks[i]

\* Sequence number s needs no further transmission: the reading end holds or
\* has delivered it, or its read side has ended.
Received(s) ==
  \/ s < readSeq
  \/ s \in DOMAIN reorder
  \/ finRecvd /\ s = finSeq
  \/ readErr # "nil"

\* A frame leaves the retransmit queue (ackCumulative, ackMany) only once the
\* reading end has it: no ACK, however stale or repeated, covers a frame
\* that still has to be sent again.
NoAckedLoss ==
  \A s \in 0..writeSeq :
    /\ writeErr = "nil"
    /\ s = writeSeq => writeFIN /\ closing = "none"
    /\ \A e \in entries : e.seq # s
    => Received(s)

\* Read reports io.EOF only for a stream the writer closed with CloseWrite
\* and whose every byte was delivered; unless CancelRead threw them away,
\* all of them have been read or are still in the ring.
CleanEOF ==
  readErr = "EOF" =>
    /\ writeFIN /\ writeErr = "nil"
    /\ delivered = chunks
    /\ ~readCanceled => consumed + readLen = sentOffset

\* "The receiver's ring is sized exactly to the credit it has granted": the
\* next frame due, whenever it arrives, fits the ring as it is.
InOrderFits ==
  \A m \in net :
    m.kind = "data" /\ m.seq = readSeq /\ ~ReadDone =>
      readLen + m.data.len <= ringCap

\* Once the application has read everything sent, the watermark the reading
\* end has granted admits a full chunk: the credit Read holds back until a
\* quarter of the ring was consumed never blocks the writer for good.
DrainedWindowOpen ==
  ~ReadDone /\ readLen = 0 /\ readSeq = writeSeq =>
    peerOffset - sentOffset >= MaxPayload

\* ackCumulative sweeps each sequence number once; no entry is ever left
\* below the swept mark, where no cumulative ACK would find it again.
NoStrandedEntry == \A e \in entries : e.seq >= ackedThrough

\* creditAcked counts every acknowledged byte exactly once, so the in-flight
\* bytes Write compares with the cap are the bytes still in the queue and
\* those an ACK being handled has just freed.
InFlightAccounting ==
  writeErr = "nil" =>
    bytesInFlight = MapThenSumSet(FrameLen, entries) + uncredited

\* readLen and reorderBytes are the lengths of what the ring and the reorder
\* map hold.
BufferAccounting ==
  ~ReadDone =>
    LET DeliveredLen(i) == delivered[i].len
        BufferedLen(s) == reorder[s].len
    IN  /\ consumed + readLen
             = MapThenSumSet(DeliveredLen, DOMAIN delivered)
        /\ reorderBytes = MapThenSumSet(BufferedLen, DOMAIN reorder)

\* Every chunk written reaches the reader's ring, unless one side gave the
\* direction up: NACK and RTO retransmission, selective and cumulative ACKs
\* and the reorder buffer together recover every loss.
EventuallyDelivered ==
  \A s \in 0..(MaxFrames - 1) :
    writeSeq > s ~> Len(delivered) > s \/ readErr # "nil" \/ writeErr # "nil"

\* After CloseWrite the reader sees the end of the stream and the retransmit
\* queue empties: the FIN "is retransmitted until acknowledged", and the ACKs
\* for everything before it get through as well.
EventuallyClosed == writeFIN ~> readErr # "nil" /\ entries = {}

\* A writer waiting for credit gets it as long as the application at the
\* other end reads: whenever all data was read the window opens again.
EventuallyCredit ==
  []<>(writeFIN \/ readErr # "nil" \/ maxSendOffset - sentOffset >= MaxPayload)
===============================================================================
