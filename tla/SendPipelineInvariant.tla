------------------------ MODULE SendPipelineInvariant -------------------------
(***************************************************************************)
(* The inductive invariant of SendPipeline, and that no step breaks what   *)
(* it says of types, buffers, the wire, the holder of sendMu and the       *)
(* frames that wait for a slot.                                            *)
(***************************************************************************)
EXTENDS SendPipeline, TLAPS

\* The slots whose content is still to be read: those of the batch being
\* built and those submitted to the ring.
Live == {<<set, i>> : i \in 1..sendN} \cup inflight

\* The peer has the frame: what other copies of it contain does not matter.
Arrived(k) == first[k] # None

\* Where the holder of sendMu can be while the batch is empty, a pack is open,
\* or operations are in flight.  Outside waitGen the set being filled has none.
\* Close releases the descriptor while nobody is past the check of IsShutdown.
StepInv ==
  /\ sendMu \in {"drain", "wait", "mark", "place"} => sendN = 0
  /\ sendMu # "free" => ~packOpen
  /\ packOpen => sendN > 0
  /\ sendMu # "wait" => genDone(set)
  /\ sendMu = "drain" \/ ~Ring => inflight = {}
  /\ sendMu = "mark" => old = {}
  /\ closeStep \in {"wait", "done"} => shutdown
  /\ closeStep = "done" => sendMu # "send"

\* What buffers hold: an entry's its payload, the worker's a copy of one.
BytesInv ==
  /\ \A k \in Keys : entry[k] # None => bytes[entry[k]] = k
  /\ \A k \in queued : entry[k] # None
  /\ \A k \in unsent : entry[k] = None
  /\ worker.buf # None => worker.key \in Keys /\ bytes[worker.buf] = worker.key

\* A frame that has yet to get its slot still has its entry, unless it has
\* arrived; a frame to be copied is the worker's.
FrameOK(f) ==
  /\ f.zero => f.buf # None /\ f.key \in Keys
  /\ f.zero /\ f.key \in Data => Arrived(f.key) \/ entry[f.key] = f.buf
  /\ ~f.zero /\ f.buf # None => f.buf = worker.buf /\ f.key = worker.key

NextInv ==
  /\ \A k \in Data : data[k] # None => Arrived(k) \/ entry[k] = data[k]
  /\ \A f \in next : FrameOK(f)

\* A slot's payload is its own.  The buffer it refers to belongs to the entry,
\* or waits in pendingFree; below the watermark, only while the operation is
\* of the generation the next flush waits for.
SlotOK(op, s) ==
  /\ s.buf = None => s.copy = s.key
  /\ s.buf # None /\ s.key \in Data =>
       \/ Arrived(s.key)
       \/ /\ bytes[s.buf] = s.key
          /\ entry[s.key] = s.buf \/ s.buf \in old \cup new
          /\ s.buf \in old => /\ op \in inflight
                              /\ op[1] = IF sendMu = "wait" THEN set ELSE 1 - set

SlotInv == \A op \in Live : \A s \in slots[op[1]][op[2]] : SlotOK(op, s)

WireInv == \A d \in wire : d.key \in Data => d.bytes = d.key \/ Arrived(d.key)

PipelineInv ==
  /\ TypeOK /\ OneOwner /\ StepInv /\ BytesInv /\ NextInv /\ SlotInv /\ WireInv
  /\ DataIntact

-------------------------------------------------------------------------------
USE PipelineAssumption

\* A slot is free for the frame that Put is called for.
HasSlot(f) ==
  \/ sendMu = "free" /\ ~mustFlush(f)
  \/ sendMu = "place"

\* InSlot yields what a slot can hold.
LEMMA InSlotType ==
  ASSUME TypeOK, NEW f \in Frames
  PROVE  InSlot(f) \in InSlots
BY DEF TypeOK, Frames, InSlots, InSlot, Keys

\* Put writes one slot of the set being filled, which it leaves a batch.
LEMMA PutSlot ==
  ASSUME TypeOK, StepInv, NEW f \in Frames, Put(f), HasSlot(f)
  PROVE  \E i \in 1..mode.batchSize :
           /\ \/ i = sendN + 1 /\ slots' = [slots EXCEPT ![set][i] = {InSlot(f)}]
              \/ /\ i = sendN
                 /\ slots' = [slots EXCEPT ![set][i] = slots[set][i] \cup {InSlot(f)}]
           /\ sendN' = i
           /\ sendMu' \in {"flush", "free"}
           /\ packOpen' \in BOOLEAN
           /\ sendMu' = "flush" => ~packOpen'
<1> mode.batchSize \in Nat \ {0} /\ sendN \in 0..mode.batchSize
  BY DEF TypeOK
<1>1. CASE inPack(f) /\ packOpen
  <2>1. sendN \in 1..mode.batchSize
    BY <1>1 DEF StepInv
  <2>2. /\ slots' = [slots EXCEPT ![set][sendN] = slots[set][sendN] \cup {InSlot(f)}]
        /\ sendN' = sendN /\ sendMu' \in {"flush", "free"}
        /\ packOpen' \in BOOLEAN /\ (sendMu' = "flush" => ~packOpen')
    BY <1>1, Zenon DEF Put, queueFrameGSO
  <2> QED
    BY Zenon, <2>1, <2>2
<1>2. CASE inPack(f) /\ ~packOpen
  <2>1. sendN + 1 \in 1..mode.batchSize
    BY <1>2 DEF StepInv, HasSlot, mustFlush
  <2>2. /\ slots' = [slots EXCEPT ![set][sendN + 1] = {InSlot(f)}]
        /\ sendN' = sendN + 1 /\ sendMu' \in {"flush", "free"}
        /\ packOpen' \in BOOLEAN /\ (sendMu' = "flush" => ~packOpen')
    BY <1>2, Zenon DEF Put, queueFrameGSO
  <2> QED
    BY Zenon, <2>1, <2>2
<1>3. CASE ~inPack(f)
  <2>1. sendN + 1 \in 1..mode.batchSize
    BY <1>3 DEF StepInv, HasSlot, mustFlush
  <2>2. /\ slots' = [slots EXCEPT ![set][sendN + 1] = {InSlot(f)}]
        /\ sendN' = sendN + 1 /\ sendMu' \in {"flush", "free"}
        /\ packOpen' \in BOOLEAN /\ (sendMu' = "flush" => ~packOpen')
    BY <1>3, Zenon DEF Put, commitSendSlot
  <2> QED
    BY Zenon, <2>1, <2>2
<1> QED
  BY Zenon, <1>1, <1>2, <1>3 DEF TypeOK

\* The batch's accounting keeps its types.
LEMMA AccountTypes ==
  ASSUME TypeOK, NEW f \in Frames, Put(f)
  PROVE  sendDatagrams' \in Nat /\ sendPaceClass' \in 0..2
BY DEF TypeOK, Frames, Put, queueFrameGSO, commitSendSlot, accountDatagram

LEMMA PutTypes ==
  ASSUME TypeOK, StepInv, NEW f \in Frames, Put(f), HasSlot(f)
  PROVE  /\ slots' \in [{0, 1} -> [1..mode.batchSize -> SUBSET InSlots]]
         /\ sendN' \in 0..mode.batchSize
         /\ sendDatagrams' \in Nat /\ sendPaceClass' \in 0..2
         /\ packOpen' \in BOOLEAN
         /\ sendMu' \in {"flush", "free"}
         /\ sendMu' = "flush" => ~packOpen'
         /\ sendN' > 0
<1>1. InSlot(f) \in InSlots
  BY InSlotType
<1>2. PICK i \in 1..mode.batchSize :
        /\ \/ i = sendN + 1 /\ slots' = [slots EXCEPT ![set][i] = {InSlot(f)}]
           \/ /\ i = sendN
              /\ slots' = [slots EXCEPT ![set][i] = slots[set][i] \cup {InSlot(f)}]
        /\ sendN' = i
        /\ sendMu' \in {"flush", "free"}
        /\ packOpen' \in BOOLEAN
        /\ sendMu' = "flush" => ~packOpen'
  BY PutSlot
<1>3. slots' \in [{0, 1} -> [1..mode.batchSize -> SUBSET InSlots]]
  <2> set \in {0, 1} /\ slots \in [{0, 1} -> [1..mode.batchSize -> SUBSET InSlots]]
    BY DEF TypeOK
  <2>1. PICK v \in SUBSET InSlots : slots' = [slots EXCEPT ![set][i] = v]
    <3>1. slots[set][i] \in SUBSET InSlots
      OBVIOUS
    <3> QED
      BY <1>1, <1>2, <3>1
  <2> HIDE <1>2
  <2> QED
    BY <2>1
<1>4. mode.batchSize \in Nat
  BY DEF TypeOK
<1> QED
  BY <1>2, <1>3, <1>4, AccountTypes

\* What acquireSendSlot does, whoever calls it.
LEMMA AcquireTypes ==
  ASSUME TypeOK, StepInv, NEW f \in Frames, acquireSendSlot(f)
  PROVE  /\ slots' \in [{0, 1} -> [1..mode.batchSize -> SUBSET InSlots]]
         /\ sendN' \in 0..mode.batchSize
         /\ sendDatagrams' \in Nat /\ sendPaceClass' \in 0..2
         /\ packOpen' \in BOOLEAN
         /\ sendMu' \in {"flush", "free"}
         /\ set' = set
         /\ next' \subseteq Frames
         /\ UNCHANGED <<envVars, retransmitVars, inflight, closed, shutdown>>
<1> UNCHANGED <<envVars, retransmitVars, inflight, closed, shutdown>>
  BY DEF acquireSendSlot
<1>1. CASE mustFlush(f)
  <2>1. /\ next' = {f} /\ packOpen' = FALSE /\ sendMu' = "flush" /\ slots' = slots
        /\ set' = set /\ sendN' = sendN /\ sendDatagrams' = sendDatagrams
        /\ sendPaceClass' = sendPaceClass
    BY <1>1, Zenon DEF acquireSendSlot
  <2> QED
    BY Zenon, <2>1 DEF TypeOK
<1>2. CASE ~mustFlush(f)
  <2>1. Put(f) /\ HasSlot(f) /\ next' = next /\ set' = set
    BY <1>2 DEF acquireSendSlot, HasSlot
  <2> QED
    BY <2>1, PutTypes DEF TypeOK
<1> QED
  BY <1>1, <1>2

\* The frames the callers of acquireSendSlot bring.
LEMMA FrameTypes ==
  ASSUME TypeOK
  PROVE  /\ \A k \in Keys : data[k] # None =>
              Frame(k, IF k \in Data THEN paceBulk ELSE paceCritical, data[k], TRUE)
                \in Frames
         /\ worker.buf # None /\ worker.key \in Keys =>
              Frame(worker.key, paceRecovery, worker.buf, FALSE) \in Frames
         /\ Frame(Ctl, paceCritical, None, FALSE) \in Frames
BY DEF TypeOK, Frames, Frame, paceBulk, paceCritical, paceRecovery

\* No step leaves the types.
LEMMA TypeOKStep ==
  ASSUME PipelineInv, [Next]_vars
  PROVE  TypeOK'
<1> USE DEF PipelineInv, Keys, vars, retransmitVars, arenaVars, queueVars,
           writerVars, sendVars, batchVars, resendVars, closeVars, envVars, peerVars
<1>1. ASSUME NEW k \in Keys, add(k) PROVE TypeOK'
  BY <1>1 DEF add, TypeOK, StepInv
<1>2. ASSUME NEW k \in Keys, Ack(k) \/ purgeStream(k) PROVE TypeOK'
  BY SMTT(30), <1>2 DEF Ack, purgeStream, removeLocked, TypeOK, StepInv
<1>3. ASSUME NEW k \in Keys, requestForResend(k) PROVE TypeOK'
  BY <1>3 DEF requestForResend, TypeOK, StepInv
<1>4. ASSUME NEW k \in Keys, sendFrame(k) PROVE TypeOK'
  <2>1. PICK f \in Frames : acquireSendSlot(f)
    BY Zenon, <1>4, FrameTypes DEF sendFrame
  <2> QED
    <3>1. /\ data' \in [Keys -> Bufs \cup {None}]
          /\ UNCHANGED <<unsent, resendVars, closeStep>>
      BY <1>4 DEF sendFrame, TypeOK
    <3> QED
      BY SMTT(30), <2>1, <3>1, AcquireTypes DEF TypeOK
<1>5. CASE sendControlFrame
  <2>1. PICK f \in Frames : acquireSendSlot(f)
    BY Zenon, <1>5, FrameTypes DEF sendControlFrame
  <2> QED
    BY SMTT(60), <1>5, <2>1, AcquireTypes DEF TypeOK, sendControlFrame, Idle
<1>6. CASE Place
  <2>1. PICK f \in next : Put(f)
    BY <1>6 DEF Place
  <2>2. f \in Frames /\ HasSlot(f)
    BY <1>6, <2>1 DEF TypeOK, HasSlot, Place
  <2>3. /\ next' = {}
        /\ UNCHANGED <<envVars, retransmitVars, writerVars, set, inflight, resendVars,
                       closeVars>>
    BY <1>6 DEF Place
  <2> QED
    BY SMTT(30), <2>1, <2>2, <2>3, PutTypes DEF TypeOK
<1>7. CASE flushSend \/ flushChecked
  BY ZenonT(30), <1>7 DEF flushSend, flushChecked, TypeOK, StepInv
<1>8. CASE flushFails
  BY <1>8 DEF flushFails, resetBatch, Emptied, paceBulk, TypeOK, StepInv
<1>9. CASE sendMMsg
  <2>1. \A i \in 1..sendN : slots[set][i] \subseteq InSlots
    <3>1. /\ slots \in [{0, 1} -> [1..mode.batchSize -> SUBSET InSlots]]
          /\ set \in {0, 1} /\ sendN \in 0..mode.batchSize /\ mode.batchSize \in Nat
      BY DEF TypeOK
    <3> QED
      BY <3>1
  <2>2. wire' \subseteq [key : Keys \cup {Ctl}, bytes : Keys \cup {Ctl, None}]
    BY SMTT(60), <1>9, <2>1 DEF sendMMsg, Datagram, InSlots, TypeOK
  <2>3. slots' \in [{0, 1} -> [1..mode.batchSize -> SUBSET InSlots]]
    BY <1>9 DEF TypeOK, sendMMsg, Emptied
  <2>4. /\ sendN' = 0 /\ sendDatagrams' = 0 /\ sendPaceClass' = 2 /\ sendMu' = "drain"
        /\ UNCHANGED <<retransmitVars, writerVars, next, set, packOpen, inflight,
                       resendVars, closeVars, first, mode>>
    BY <1>9 DEF sendMMsg, resetBatch, paceBulk
  <2>5. 0 \in 0..mode.batchSize
    BY DEF TypeOK
  <2> QED
    BY <2>2, <2>3, <2>4, <2>5 DEF TypeOK
<1>10. CASE drainPendingFree
  <2>1. /\ free' \subseteq Bufs /\ old' = {} /\ new' = {}
        /\ sendMu' \in {"place", "free"} /\ next' \subseteq Frames
    BY <1>10 DEF drainPendingFree, flushReturns, TypeOK
  <2>2. UNCHANGED <<envVars, bytes, queueVars, writerVars, batchVars, inflight,
                    resendVars, closeVars>>
    BY <1>10 DEF drainPendingFree
  <2> QED
    BY <2>1, <2>2 DEF TypeOK
<1>11. CASE submitSendmsg
  <2>1. inflight' \subseteq {0, 1} \X (1..mode.batchSize) /\ set' \in {0, 1}
    BY SMTT(30), <1>11 DEF submitSendmsg, TypeOK
  <2>2. /\ sendN' = 0 /\ sendDatagrams' = 0 /\ sendPaceClass' = 2 /\ sendMu' = "wait"
        /\ UNCHANGED <<envVars, retransmitVars, writerVars, next, slots, packOpen,
                       resendVars, closeVars>>
    BY <1>11 DEF submitSendmsg, resetBatch, paceBulk
  <2>3. 0 \in 0..mode.batchSize
    BY DEF TypeOK
  <2> QED
    BY <2>1, <2>2, <2>3 DEF TypeOK
<1>12. CASE waitGen
  BY <1>12 DEF waitGen, drainPendingFreeFirst, TypeOK, StepInv
<1>13. CASE takeMark
  BY SMTT(30), <1>13 DEF takeMark, flushReturns, TypeOK, StepInv
<1>14. ASSUME NEW op \in inflight, kernelSends(op) PROVE TypeOK'
  <2>1. \A s \in slots[op[1]][op[2]] : s \in InSlots
    BY DEF TypeOK
  <2>2. wire' \subseteq [key : Keys \cup {Ctl}, bytes : Keys \cup {Ctl, None}]
    <3>1. /\ bytes \in [Bufs -> Keys \cup {None}]
          /\ wire \subseteq [key : Keys \cup {Ctl}, bytes : Keys \cup {Ctl, None}]
      BY DEF TypeOK
    <3>2. wire' = wire \cup {Datagram(s) : s \in slots[op[1]][op[2]]}
      BY <1>14 DEF kernelSends
    <3> QED
      BY SMTT(30), <2>1, <3>1, <3>2 DEF Datagram, InSlots
  <2>3. /\ slots' \in [{0, 1} -> [1..mode.batchSize -> SUBSET InSlots]]
        /\ inflight' \subseteq {0, 1} \X (1..mode.batchSize)
    BY <1>14 DEF kernelSends, TypeOK
  <2>4. UNCHANGED <<retransmitVars, writerVars, sendMu, next, set, sendN, packOpen,
                    sendDatagrams, sendPaceClass, resendVars, closeVars, first, mode>>
    BY <1>14 DEF kernelSends
  <2> QED
    BY SMTT(30), <2>2, <2>3, <2>4 DEF TypeOK
<1>15. ASSUME NEW k \in resendQueue, popResend(k) PROVE TypeOK'
  BY ZenonT(30), <1>15 DEF popResend, Idle, TypeOK, StepInv
<1>16. CASE takeForResend
  <2>1. CASE worker.key \notin queued
    <3>1. worker' = Idle /\ UNCHANGED <<free, bytes, queued>>
      BY <1>16, <2>1, Zenon DEF takeForResend
    <3>2. UNCHANGED <<envVars, old, new, entry, writerVars, sendVars, resendQueue,
                      closeVars>>
      BY <1>16 DEF takeForResend
    <3> QED
      BY SMTT(30), <3>1, <3>2 DEF TypeOK, Idle
  <2>2. CASE worker.key \in queued
    <3>1. PICK b \in free :
            /\ free' = free \ {b}
            /\ bytes' = [bytes EXCEPT ![b] = bytes[entry[worker.key]]]
            /\ worker' = [key |-> worker.key, buf |-> b, copied |-> FALSE]
      BY <1>16, <2>2 DEF takeForResend
    <3>2. worker.key \in Keys /\ entry[worker.key] \in Bufs
      BY <2>2 DEF TypeOK, BytesInv
    <3>3. /\ queued' = queued \ {worker.key}
          /\ UNCHANGED <<envVars, old, new, entry, writerVars, sendVars, resendQueue,
                         closeVars>>
      BY <1>16, <2>2 DEF takeForResend, takenFrom
    <3>4. bytes' \in [Bufs -> Keys \cup {None}]
      BY <3>1, <3>2 DEF TypeOK
    <3> QED
      BY SMTT(30), <3>1, <3>2, <3>3, <3>4 DEF TypeOK
  <2> QED
    BY <2>1, <2>2
<1>17. CASE queueResendCopy
  <2>1. PICK f \in Frames : acquireSendSlot(f)
    BY Zenon, <1>17, FrameTypes DEF queueResendCopy, BytesInv
  <2> QED
    BY ZenonT(30), <1>17, <2>1, AcquireTypes DEF TypeOK, queueResendCopy, Idle
<1>18. CASE releaseResendCopy
  BY ZenonT(30), <1>18 DEF releaseResendCopy, Idle, TypeOK, StepInv
<1>19. CASE CloseGoAway
  <2>1. PICK f \in Frames : acquireSendSlot(f)
    BY Zenon, <1>19, FrameTypes DEF CloseGoAway
  <2> QED
    BY ZenonT(30), <1>19, <2>1, AcquireTypes DEF TypeOK, CloseGoAway, Idle
<1>20. CASE CloseFlush
  BY ZenonT(30), <1>20 DEF CloseFlush, TypeOK, StepInv
<1>21. CASE CloseBegin \/ CloseDrain \/ CloseShutdown \/ CloseRelease
  BY ZenonT(30), <1>21 DEF CloseBegin, CloseDrain, CloseShutdown, CloseRelease, TypeOK,
       StepInv
<1>22. ASSUME NEW d \in wire, Receive(d) PROVE TypeOK'
  BY SMTT(60), <1>22 DEF Receive, TypeOK, StepInv
<1>23. CASE UNCHANGED vars
  BY SMTT(30), <1>23 DEF TypeOK, StepInv
<1> QED
  BY <1>1, <1>2, <1>3, <1>4, <1>5, <1>6, <1>7, <1>8, <1>9, <1>10, <1>11,
     <1>12, <1>13, <1>14, <1>15, <1>16, <1>17, <1>18, <1>19, <1>20,
     <1>21, <1>22, <1>23
     DEF Next, Queue, Flush, Resend, Close

\* acquireSendSlot leaves the retransmit queue and the peer alone.
LEMMA AcquireLeaves ==
  ASSUME NEW f, acquireSendSlot(f)
  PROVE  UNCHANGED <<envVars, retransmitVars, inflight, closed, shutdown>>
BY DEF acquireSendSlot

\* No step gives a buffer a second owner.
LEMMA OneOwnerStep ==
  ASSUME PipelineInv, [Next]_vars
  PROVE  OneOwner'
<1> USE DEF PipelineInv, Keys, vars, retransmitVars, arenaVars, queueVars,
           writerVars, sendVars, batchVars, resendVars, closeVars, envVars, peerVars
<1>0. /\ free \subseteq Bufs /\ old \subseteq Bufs /\ new \subseteq Bufs
      /\ bytes \in [Bufs -> Keys \cup {None}]
      /\ entry \in [Keys -> Bufs \cup {None}]
      /\ worker \in [key : Keys \cup {None}, buf : Bufs \cup {None}, copied : BOOLEAN]
  BY DEF TypeOK
<1>1. ASSUME NEW k \in Keys, add(k) PROVE OneOwner'
  <2>1. PICK b \in free :
          free' = free \ {b} /\ entry' = [entry EXCEPT ![k] = b]
    BY Zenon, <1>1 DEF add
  <2>2. UNCHANGED <<old, new, worker>>
    BY <1>1 DEF add, resendVars
  <2>3. entry \in [Keys -> Bufs \cup {None}] /\ free \subseteq Bufs
    BY DEF TypeOK
  <2> QED
    BY <2>1, <2>2, <2>3 DEF OneOwner
<1>2. ASSUME NEW k \in Keys, Ack(k) \/ purgeStream(k) PROVE OneOwner'
  <2>1. removeLocked(k) /\ worker' = worker
    BY <1>2 DEF Ack, purgeStream, resendVars
  <2>2. entry \in [Keys -> Bufs \cup {None}]
    BY DEF TypeOK
  <2> QED
    BY <2>1, <2>2 DEF OneOwner, removeLocked
<1>3. ASSUME NEW k \in Keys, requestForResend(k) PROVE OneOwner'
  BY <1>3, <1>0 DEF requestForResend, OneOwner
<1>4. ASSUME NEW k \in Keys, sendFrame(k) PROVE OneOwner'
  <2>1. UNCHANGED <<free, old, new, entry, worker.buf>>
    BY Zenon, <1>4, AcquireLeaves, <1>0 DEF sendFrame
  <2> QED
    BY <2>1 DEF OneOwner
<1>5. CASE sendControlFrame
  <2>1. UNCHANGED <<free, old, new, entry, worker.buf>>
    BY Zenon, <1>5, AcquireLeaves, <1>0 DEF sendControlFrame
  <2> QED
    BY <2>1 DEF OneOwner
<1>6. CASE CloseGoAway
  <2>1. UNCHANGED <<free, old, new, entry, worker.buf>>
    BY Zenon, <1>6, AcquireLeaves, <1>0 DEF CloseGoAway
  <2> QED
    BY <2>1 DEF OneOwner
<1>7. CASE queueResendCopy
  <2>1. UNCHANGED <<free, old, new, entry, worker.buf>>
    BY Zenon, <1>7, AcquireLeaves, <1>0 DEF queueResendCopy
  <2> QED
    BY <2>1 DEF OneOwner
<1>8. CASE Place \/ flushSend \/ flushChecked \/ flushFails
  BY <1>8, <1>0 DEF Place, flushSend, flushChecked, flushFails, OneOwner
<1>9. CASE sendMMsg \/ submitSendmsg
  BY <1>9, <1>0 DEF sendMMsg, submitSendmsg, OneOwner
<1>10. CASE drainPendingFree
  BY SMTT(30), <1>10, <1>0 DEF drainPendingFree, OneOwner
<1>11. CASE waitGen
  BY SMTT(30), <1>11, <1>0 DEF waitGen, drainPendingFreeFirst, OneOwner
<1>12. CASE takeMark
  BY SMTT(30), <1>12, <1>0 DEF takeMark, OneOwner
<1>13. ASSUME NEW op \in inflight, kernelSends(op) PROVE OneOwner'
  BY <1>13, <1>0 DEF kernelSends, OneOwner
<1>14. ASSUME NEW k \in resendQueue, popResend(k) PROVE OneOwner'
  BY <1>14, <1>0 DEF popResend, Idle, OneOwner
<1>15. CASE takeForResend
  <2>1. UNCHANGED <<old, new, entry>> /\ worker.buf = None
    BY <1>15 DEF takeForResend
  <2>2. \/ free' = free /\ worker'.buf = None
        \/ \E b \in free : free' = free \ {b} /\ worker'.buf = b
    BY <1>15 DEF takeForResend, Idle
  <2> QED
    BY <2>1, <2>2, <1>0 DEF OneOwner
<1>16. CASE releaseResendCopy
  <2>1. UNCHANGED <<old, new, entry>>
    BY <1>16 DEF releaseResendCopy
  <2>2. worker.buf # None /\ free' = free \cup {worker.buf} /\ worker'.buf = None
    BY <1>16 DEF releaseResendCopy, Idle
  <2> QED
    BY <2>1, <2>2, <1>0 DEF OneOwner
<1>17. CASE CloseBegin \/ CloseFlush \/ CloseDrain \/ CloseShutdown \/ CloseRelease
  BY Zenon, <1>17, <1>0
     DEF CloseBegin, CloseFlush, CloseDrain, CloseShutdown, CloseRelease, OneOwner
<1>18. ASSUME NEW d \in wire, Receive(d) PROVE OneOwner'
  BY Zenon, <1>18, <1>0 DEF Receive, OneOwner
<1>19. CASE UNCHANGED vars
  BY <1>19, <1>0 DEF OneOwner
<1> QED
  BY <1>1, <1>2, <1>3, <1>4, <1>5, <1>6, <1>7, <1>8, <1>9, <1>10, <1>11,
     <1>12, <1>13, <1>14, <1>15, <1>16, <1>17, <1>18, <1>19
     DEF Next, Queue, Flush, Resend, Close

\* No step writes a buffer that an entry or the worker holds.
LEMMA BytesInvStep ==
  ASSUME PipelineInv, [Next]_vars
  PROVE  BytesInv'
<1> USE DEF PipelineInv, Keys, vars, retransmitVars, arenaVars, queueVars,
           writerVars, sendVars, batchVars, resendVars, closeVars, envVars, peerVars
<1>0. /\ free \subseteq Bufs /\ old \subseteq Bufs /\ new \subseteq Bufs
      /\ bytes \in [Bufs -> Keys \cup {None}]
      /\ entry \in [Keys -> Bufs \cup {None}]
      /\ worker \in [key : Keys \cup {None}, buf : Bufs \cup {None}, copied : BOOLEAN]
  BY DEF TypeOK
<1>1. ASSUME NEW k \in Keys, add(k) PROVE BytesInv'
  <2>1. PICK b \in free :
          bytes' = [bytes EXCEPT ![b] = k] /\ entry' = [entry EXCEPT ![k] = b]
    BY Zenon, <1>1 DEF add
  <2>2. k \in unsent /\ unsent' = unsent \ {k} /\ UNCHANGED <<queued, worker>>
    BY <1>1 DEF add
  <2>3. /\ \A l \in Keys : entry[l] # b
        /\ worker.buf # b
    BY <1>0 DEF OneOwner
  <2>4. b \in Bufs /\ b # None
    BY <1>0, PipelineAssumption
  <2> QED
    BY <2>1, <2>2, <2>3, <2>4, <1>0 DEF BytesInv
<1>2. ASSUME NEW k \in Keys, Ack(k) \/ purgeStream(k) PROVE BytesInv'
  <2>1. removeLocked(k) /\ UNCHANGED <<unsent, worker>>
    BY <1>2 DEF Ack, purgeStream
  <2> QED
    BY <2>1, <1>0 DEF removeLocked, BytesInv
<1>3. ASSUME NEW k \in Keys, requestForResend(k) PROVE BytesInv'
  BY <1>3, <1>0 DEF requestForResend, BytesInv, OneOwner
<1>4. ASSUME NEW k \in Keys, sendFrame(k) PROVE BytesInv'
  <2>1. UNCHANGED <<bytes, entry, queued, unsent, worker.buf, worker.key>>
    BY Zenon, <1>4, AcquireLeaves, <1>0 DEF sendFrame
  <2> QED
    BY <2>1 DEF BytesInv
<1>5. CASE sendControlFrame
  <2>1. UNCHANGED <<bytes, entry, queued, unsent, worker.buf, worker.key>>
    BY Zenon, <1>5, AcquireLeaves, <1>0 DEF sendControlFrame
  <2> QED
    BY <2>1 DEF BytesInv
<1>6. CASE CloseGoAway
  <2>1. UNCHANGED <<bytes, entry, queued, unsent, worker.buf, worker.key>>
    BY Zenon, <1>6, AcquireLeaves, <1>0 DEF CloseGoAway
  <2> QED
    BY <2>1 DEF BytesInv
<1>7. CASE queueResendCopy
  <2>1. UNCHANGED <<bytes, entry, queued, unsent, worker.buf, worker.key>>
    BY Zenon, <1>7, AcquireLeaves, <1>0 DEF queueResendCopy
  <2> QED
    BY <2>1 DEF BytesInv
<1>8. CASE Place \/ flushSend \/ flushChecked \/ flushFails
  BY <1>8, <1>0 DEF Place, flushSend, flushChecked, flushFails, BytesInv,
       OneOwner
<1>9. CASE sendMMsg \/ submitSendmsg
  BY ZenonT(30), <1>9, <1>0 DEF sendMMsg, submitSendmsg, BytesInv, OneOwner
<1>10. CASE drainPendingFree \/ waitGen \/ takeMark
  BY <1>10, <1>0 DEF drainPendingFree, waitGen, takeMark, BytesInv, OneOwner
<1>11. ASSUME NEW op \in inflight, kernelSends(op) PROVE BytesInv'
  BY <1>11, <1>0 DEF kernelSends, BytesInv, OneOwner
<1>12. ASSUME NEW k \in resendQueue, popResend(k) PROVE BytesInv'
  BY <1>12, <1>0 DEF popResend, Idle, BytesInv, OneOwner
<1>13. CASE takeForResend
  <2>1. UNCHANGED <<entry, unsent>> /\ worker.key # None
    BY <1>13 DEF takeForResend
  <2>2. CASE worker.key \notin queued
    <3>1. worker' = Idle /\ UNCHANGED <<bytes, queued>>
      BY <1>13, <2>2, Zenon DEF takeForResend
    <3> QED
      BY <2>1, <3>1 DEF BytesInv, Idle
  <2>3. CASE worker.key \in queued
    <3>1. PICK b \in free :
            /\ bytes' = [bytes EXCEPT ![b] = bytes[entry[worker.key]]]
            /\ worker' = [key |-> worker.key, buf |-> b, copied |-> FALSE]
      BY <1>13, <2>3 DEF takeForResend
    <3>2. queued' = queued \ {worker.key}
      BY <1>13, <2>3 DEF takeForResend, takenFrom
    <3>3. \A l \in Keys : entry[l] # b
      BY <1>0, PipelineAssumption DEF OneOwner
    <3>4. worker.key \in Keys
      BY <1>0, <2>1
    <3>5. entry[worker.key] # None
      BY <2>3 DEF BytesInv
    <3> QED
      BY SMTT(30), <2>1, <3>1, <3>2, <3>3, <3>4, <3>5, <1>0 DEF BytesInv
  <2> QED
    BY <2>2, <2>3
<1>14. CASE releaseResendCopy
  BY <1>14, <1>0 DEF releaseResendCopy, Idle, BytesInv, OneOwner
<1>15. CASE CloseBegin \/ CloseFlush \/ CloseDrain \/ CloseShutdown \/ CloseRelease
  BY Zenon, <1>15, <1>0
     DEF CloseBegin, CloseFlush, CloseDrain, CloseShutdown, CloseRelease, BytesInv, OneOwner
<1>16. ASSUME NEW d \in wire, Receive(d) PROVE BytesInv'
  BY Zenon, <1>16, <1>0 DEF Receive, BytesInv, OneOwner
<1>17. CASE UNCHANGED vars
  BY <1>17, <1>0 DEF BytesInv, OneOwner
<1> QED
  BY <1>1, <1>2, <1>3, <1>4, <1>5, <1>6, <1>7, <1>8, <1>9, <1>10, <1>11,
     <1>12, <1>13, <1>14, <1>15, <1>16, <1>17
     DEF Next, Queue, Flush, Resend, Close

\* Only the steps that send, and the peer's, touch the wire and the peer.
LEMMA PeerKept ==
  ASSUME [Next]_vars
  PROVE  \/ UNCHANGED <<wire, first>>
         \/ sendMMsg
         \/ \E op \in inflight : kernelSends(op)
         \/ \E d \in wire : Receive(d)
<1> USE DEF vars, sendVars, batchVars, envVars, peerVars
<1>1. CASE Queue
  BY <1>1 DEF Queue, add, Ack, purgeStream, requestForResend
<1>2. CASE (\E k \in Keys : sendFrame(k)) \/ sendControlFrame \/ Place
  BY Zenon, <1>2, AcquireLeaves DEF sendFrame, sendControlFrame, Place
<1>3. CASE Flush
  BY <1>3 DEF Flush, flushSend, flushFails, flushChecked, drainPendingFree,
       submitSendmsg, waitGen, takeMark
<1>4. CASE Resend
  BY Zenon, <1>4, AcquireLeaves DEF Resend, popResend, takeForResend, queueResendCopy,
       releaseResendCopy
<1>5. CASE Close
  BY Zenon, <1>5, AcquireLeaves DEF Close, CloseBegin, CloseGoAway, CloseFlush,
       CloseDrain, CloseShutdown, CloseRelease
<1> QED
  BY <1>1, <1>2, <1>3, <1>4, <1>5 DEF Next

\* What arrives first is intact because all that has not arrived is.
LEMMA DataIntactStep ==
  ASSUME PipelineInv, [Next]_vars
  PROVE  DataIntact'
<1>1. first' = first \/ \E d \in wire : Receive(d)
  BY Zenon, PeerKept DEF sendMMsg, kernelSends
<1>2. CASE \E d \in wire : Receive(d)
  BY SMTT(30), <1>2 DEF Receive, PipelineInv, TypeOK, DataIntact, WireInv, Arrived, Keys
<1> QED
  BY <1>1, <1>2 DEF PipelineInv, DataIntact

\* A slot is sent while its payload is its own.
LEMMA WireInvStep ==
  ASSUME PipelineInv, [Next]_vars
  PROVE  WireInv'
<1>0. WireInv /\ SlotInv /\ TypeOK
  BY DEF PipelineInv
<1>1. CASE UNCHANGED <<wire, first>>
  BY <1>0, <1>1 DEF WireInv, Arrived
<1>2. ASSUME NEW ss, first' = first, wire' = wire \cup {Datagram(s) : s \in ss},
             \A s \in ss : s.key \in Data /\ ~Arrived(s.key) => Datagram(s).bytes = s.key
      PROVE  WireInv'
  <2>1. \A s : Datagram(s).key = s.key
    BY DEF Datagram
  <2> QED
    BY <1>0, <1>2, <2>1 DEF WireInv, Arrived
<1>3. CASE sendMMsg
  <2> DEFINE ss == UNION {slots[set][i] : i \in 1..sendN}
  <2>1. ASSUME NEW i \in 1..sendN, NEW s \in slots[set][i], s.key \in Data, ~Arrived(s.key)
        PROVE  Datagram(s).bytes = s.key
    <3>1. SlotOK(<<set, i>>, s)
      BY <1>0 DEF SlotInv, Live
    <3> QED
      BY <2>1, <3>1 DEF SlotOK, Datagram
  <2>2. \A s \in ss : s.key \in Data /\ ~Arrived(s.key) => Datagram(s).bytes = s.key
    BY Zenon, <2>1
  <2>3. first' = first /\ wire' = wire \cup {Datagram(s) : s \in ss}
    BY Zenon, <1>3 DEF sendMMsg
  <2> HIDE DEF ss
  <2> QED
    BY <1>2, <2>2, <2>3
<1>4. ASSUME NEW op \in inflight, kernelSends(op) PROVE WireInv'
  <2>1. ASSUME NEW s \in slots[op[1]][op[2]], s.key \in Data, ~Arrived(s.key)
        PROVE  Datagram(s).bytes = s.key
    <3>1. SlotOK(op, s)
      BY <1>0 DEF SlotInv, Live
    <3> QED
      BY <2>1, <3>1 DEF SlotOK, Datagram
  <2>2. /\ first' = first
        /\ wire' = wire \cup {Datagram(s) : s \in slots[op[1]][op[2]]}
    BY Zenon, <1>4 DEF kernelSends
  <2> QED
    BY <1>2, <2>1, <2>2
<1>5. CASE \E d \in wire : Receive(d)
  BY <1>0, <1>5 DEF Receive, WireInv, Arrived, TypeOK, Keys
<1> QED
  BY <1>1, <1>3, <1>4, <1>5, PeerKept

\* A frame that gets a slot, or a flush, leaves the batch as StepInv says.
LEMMA AcquireStep ==
  ASSUME TypeOK, StepInv, NEW f \in Frames, acquireSendSlot(f)
  PROVE  /\ sendMu' \in {"flush", "free"} /\ set' = set
         /\ sendMu' = "flush" => ~packOpen'
         /\ packOpen' => sendN' > 0
<1>1. CASE mustFlush(f)
  <2>1. packOpen' = FALSE /\ sendMu' = "flush" /\ set' = set
    BY <1>1, Zenon DEF acquireSendSlot
  <2> QED
    BY <2>1
<1>2. CASE ~mustFlush(f)
  <2>1. Put(f) /\ HasSlot(f) /\ set' = set
    BY <1>2 DEF acquireSendSlot, HasSlot
  <2> QED
    BY <2>1, PutTypes
<1> QED
  BY <1>1, <1>2

\* No step breaks the discipline of sendMu, the ring and Close.
LEMMA StepInvStep ==
  ASSUME PipelineInv, [Next]_vars
  PROVE  StepInv'
<1> USE DEF retransmitVars, arenaVars, queueVars, writerVars, sendVars, batchVars,
            resendVars, closeVars, envVars, peerVars
<1>0. StepInv /\ TypeOK /\ BytesInv
  BY DEF PipelineInv
<1>a. CASE UNCHANGED <<mode, old, sendMu, set, sendN, packOpen, inflight, closeStep, shutdown>>
  BY <1>0, <1>a DEF StepInv, genDone, Ring
<1>1. ASSUME NEW k \in Keys, add(k) \/ Ack(k) \/ purgeStream(k) \/ requestForResend(k)
      PROVE  StepInv'
  BY Zenon, <1>1, <1>a DEF add, Ack, purgeStream, removeLocked, requestForResend
<1>2. ASSUME NEW k \in Keys, sendFrame(k) PROVE StepInv'
  <2>1. PICK f \in Frames : acquireSendSlot(f)
    BY Zenon, <1>2, FrameTypes, <1>0 DEF sendFrame
  <2>2. sendMu = "free" /\ UNCHANGED <<envVars, retransmitVars, inflight, closed, shutdown>>
    BY <2>1 DEF acquireSendSlot
  <2>3. closeStep' = closeStep \/ closeStep' = "flush"
    BY <1>2 DEF sendFrame, closeVars
  <2> QED
    BY <2>1, <2>2, <2>3, AcquireStep, <1>0 DEF StepInv, genDone, Ring
<1>3. CASE sendControlFrame
  <2>1. PICK f \in Frames : acquireSendSlot(f)
    BY Zenon, <1>3, FrameTypes, <1>0 DEF sendControlFrame
  <2>2. sendMu = "free" /\ UNCHANGED <<envVars, retransmitVars, inflight, closed, shutdown>>
    BY <2>1 DEF acquireSendSlot
  <2>3. closeStep' = closeStep \/ closeStep' = "flush"
    BY <1>3 DEF sendControlFrame, closeVars
  <2> QED
    BY <2>1, <2>2, <2>3, AcquireStep, <1>0 DEF StepInv, genDone, Ring
<1>4. CASE CloseGoAway
  <2>1. PICK f \in Frames : acquireSendSlot(f)
    BY Zenon, <1>4, FrameTypes, <1>0 DEF CloseGoAway
  <2>2. sendMu = "free" /\ UNCHANGED <<envVars, retransmitVars, inflight, closed, shutdown>>
    BY <2>1 DEF acquireSendSlot
  <2>3. closeStep' = closeStep \/ closeStep' = "flush"
    BY <1>4 DEF CloseGoAway, closeVars
  <2> QED
    BY <2>1, <2>2, <2>3, AcquireStep, <1>0 DEF StepInv, genDone, Ring
<1>5. CASE queueResendCopy
  <2>1. PICK f \in Frames : acquireSendSlot(f)
    BY Zenon, <1>5, FrameTypes, <1>0 DEF queueResendCopy, BytesInv
  <2>2. sendMu = "free" /\ UNCHANGED <<envVars, retransmitVars, inflight, closed, shutdown>>
    BY <2>1 DEF acquireSendSlot
  <2>3. closeStep' = closeStep \/ closeStep' = "flush"
    BY <1>5 DEF queueResendCopy, closeVars
  <2> QED
    BY <2>1, <2>2, <2>3, AcquireStep, <1>0 DEF StepInv, genDone, Ring
<1>6. CASE Place
  <2>1. PICK f \in next : Put(f)
    BY <1>6 DEF Place
  <2>2. f \in Frames /\ HasSlot(f)
    BY <1>6, <2>1, <1>0 DEF TypeOK, HasSlot, Place
  <2>3. sendMu = "place" /\ UNCHANGED <<envVars, retransmitVars, set, inflight, closeVars>>
    BY <1>6 DEF Place
  <2> QED
    BY <2>1, <2>2, <2>3, PutTypes, <1>0 DEF StepInv, genDone, Ring
<1>7. CASE flushSend
  BY <1>0, <1>7 DEF flushSend, StepInv, genDone, Ring
<1>8. CASE flushChecked
  BY <1>0, <1>8 DEF flushChecked, StepInv, genDone, Ring
<1>9. CASE flushFails
  BY <1>0, <1>9 DEF flushFails, resetBatch, StepInv, genDone, Ring
<1>10. CASE sendMMsg
  BY <1>0, <1>10 DEF sendMMsg, resetBatch, StepInv, genDone, Ring
<1>11. CASE drainPendingFree
  BY <1>0, <1>11 DEF drainPendingFree, flushReturns, StepInv, genDone, Ring
<1>12. CASE submitSendmsg
  BY <1>0, <1>12 DEF submitSendmsg, resetBatch, StepInv, Ring
<1>13. CASE waitGen
  BY <1>0, <1>13 DEF waitGen, drainPendingFreeFirst, StepInv, genDone, Ring
<1>14. CASE takeMark
  BY <1>0, <1>14 DEF takeMark, flushReturns, StepInv, genDone, Ring
<1>15. ASSUME NEW op \in inflight, kernelSends(op) PROVE StepInv'
  <2>1. /\ inflight' = inflight \ {op}
        /\ UNCHANGED <<mode, old, sendMu, set, sendN, packOpen, closeStep, shutdown>>
    BY Zenon, <1>15 DEF kernelSends
  <2> QED
    BY <1>0, <2>1 DEF StepInv, genDone, Ring
<1>16. ASSUME NEW k \in resendQueue, popResend(k) PROVE StepInv'
  BY Zenon, <1>16, <1>a DEF popResend
<1>17. CASE takeForResend
  BY Zenon, <1>17, <1>a DEF takeForResend
<1>18. CASE releaseResendCopy
  BY Zenon, <1>18, <1>a DEF releaseResendCopy
<1>19. CASE CloseBegin
  BY <1>0, <1>19 DEF CloseBegin, StepInv, TypeOK, genDone, Ring
<1>20. CASE CloseFlush
  BY <1>0, <1>20 DEF CloseFlush, StepInv, TypeOK, genDone, Ring
<1>21. CASE CloseDrain
  BY <1>0, <1>21 DEF CloseDrain, StepInv, genDone, Ring
<1>22. CASE CloseShutdown
  BY <1>0, <1>22 DEF CloseShutdown, StepInv, genDone, Ring
<1>23. CASE CloseRelease
  BY <1>0, <1>23 DEF CloseRelease, lockedForClose, StepInv, genDone, Ring
<1>24. ASSUME NEW d \in wire, Receive(d) PROVE StepInv'
  BY Zenon, <1>24, <1>a DEF Receive
<1>25. CASE UNCHANGED vars
  BY Zenon, <1>25, <1>a DEF vars
<1> QED
  BY <1>1, <1>2, <1>3, <1>4, <1>5, <1>6, <1>7, <1>8, <1>9, <1>10, <1>11, <1>12, <1>13,
     <1>14, <1>15, <1>16, <1>17, <1>18, <1>19, <1>20, <1>21, <1>22, <1>23, <1>24, <1>25
     DEF Next, Queue, Flush, Resend, Close

\* A frame that waits for its slot keeps its entry until it has arrived.
LEMMA NextInvStep ==
  ASSUME PipelineInv, [Next]_vars
  PROVE  NextInv'
<1> USE DEF retransmitVars, arenaVars, queueVars, writerVars, sendVars, batchVars,
            resendVars, closeVars, envVars, peerVars
<1>0. NextInv /\ BytesInv /\ TypeOK
  BY DEF PipelineInv
<1>a. CASE UNCHANGED <<entry, data, first, next, worker>>
  BY <1>0, <1>a DEF NextInv, FrameOK, Arrived
<1>b. /\ entry \in [Keys -> Bufs \cup {None}] /\ data \in [Keys -> Bufs \cup {None}]
      /\ first \in [Keys -> Keys \cup {Ctl, None}] /\ Data \subseteq Keys
  BY <1>0 DEF TypeOK, Keys
<1>1. ASSUME NEW k \in Keys, add(k) PROVE NextInv'
  <2>1. PICK b \in free : entry' = [entry EXCEPT ![k] = b] /\ data' = [data EXCEPT ![k] = b]
    BY Zenon, <1>1 DEF add
  <2>2. entry[k] = None /\ UNCHANGED <<first, next, worker>>
    BY Zenon, <1>0, <1>1 DEF add, BytesInv
  <2> QED
    BY <1>0, <1>b, <2>1, <2>2 DEF NextInv, FrameOK, Arrived
<1>2. ASSUME NEW k \in Keys, Ack(k) PROVE NextInv'
  <2>1. /\ entry' = [entry EXCEPT ![k] = None] /\ first[k] # None
        /\ UNCHANGED <<data, first, next, worker>>
    BY Zenon, <1>2 DEF Ack, removeLocked
  <2> QED
    BY <1>0, <1>b, <2>1 DEF NextInv, FrameOK, Arrived
<1>3. ASSUME NEW k \in Keys, purgeStream(k) PROVE NextInv'
  <2>1. /\ entry' = [entry EXCEPT ![k] = None]
        /\ k \in Data => data[k] = None /\ \A f \in next : f.key # k
        /\ UNCHANGED <<data, first, next, worker>>
    BY Zenon, <1>3 DEF purgeStream, removeLocked
  <2> QED
    BY <1>0, <1>b, <2>1 DEF NextInv, FrameOK, Arrived
<1>4. ASSUME NEW k \in Keys, requestForResend(k) PROVE NextInv'
  BY Zenon, <1>4, <1>a DEF requestForResend
<1>5. ASSUME NEW k1 \in Keys, sendFrame(k1) PROVE NextInv'
  <2> DEFINE f == Frame(k1, IF k1 \in Data THEN paceBulk ELSE paceCritical, data[k1], TRUE)
  <2>1. next' = {f} \/ next' = next
    BY <1>5, Zenon DEF sendFrame, acquireSendSlot
  <2>2. FrameOK(f)
    BY <1>0, <1>5 DEF sendFrame, FrameOK, NextInv, TypeOK, Frame, BytesInv
  <2>3. UNCHANGED <<first, entry, worker.buf, worker.key>>
    BY Zenon, <1>0, <1>5, AcquireLeaves DEF sendFrame, TypeOK
  <2>4. \A k \in Data : data'[k] # None => data'[k] = data[k]
    BY <1>b, <1>5 DEF sendFrame, writerVars
  <2> HIDE DEF f
  <2> QED
    BY <1>0, <2>1, <2>2, <2>3, <2>4 DEF NextInv, FrameOK, Arrived
<1>6. CASE sendControlFrame
  <2> DEFINE f == Frame(Ctl, paceCritical, None, FALSE)
  <2>1. next' = {f} \/ next' = next
    BY <1>6, Zenon DEF sendControlFrame, acquireSendSlot
  <2>2. FrameOK(f)
    BY <1>0, <1>6 DEF sendControlFrame, FrameOK, NextInv, TypeOK, Frame, BytesInv
  <2>3. UNCHANGED <<first, entry, worker.buf, worker.key>>
    BY Zenon, <1>0, <1>6, AcquireLeaves DEF sendControlFrame, TypeOK
  <2>4. \A k \in Data : data'[k] # None => data'[k] = data[k]
    BY <1>b, <1>6 DEF sendControlFrame, writerVars
  <2> HIDE DEF f
  <2> QED
    BY <1>0, <2>1, <2>2, <2>3, <2>4 DEF NextInv, FrameOK, Arrived
<1>7. CASE CloseGoAway
  <2> DEFINE f == Frame(Ctl, paceCritical, None, FALSE)
  <2>1. next' = {f} \/ next' = next
    BY <1>7, Zenon DEF CloseGoAway, acquireSendSlot
  <2>2. FrameOK(f)
    BY <1>0, <1>7 DEF CloseGoAway, FrameOK, NextInv, TypeOK, Frame, BytesInv
  <2>3. UNCHANGED <<first, entry, worker.buf, worker.key>>
    BY Zenon, <1>0, <1>7, AcquireLeaves DEF CloseGoAway, TypeOK
  <2>4. \A k \in Data : data'[k] # None => data'[k] = data[k]
    BY <1>b, <1>7 DEF CloseGoAway, writerVars
  <2> HIDE DEF f
  <2> QED
    BY <1>0, <2>1, <2>2, <2>3, <2>4 DEF NextInv, FrameOK, Arrived
<1>8. CASE queueResendCopy
  <2> DEFINE f == Frame(worker.key, paceRecovery, worker.buf, FALSE)
  <2>1. next' = {f} \/ next' = next
    BY <1>8, Zenon DEF queueResendCopy, acquireSendSlot
  <2>2. FrameOK(f)
    BY <1>0, <1>8 DEF queueResendCopy, FrameOK, NextInv, TypeOK, Frame, BytesInv
  <2>3. UNCHANGED <<first, entry, worker.buf, worker.key>>
    BY Zenon, <1>0, <1>8, AcquireLeaves DEF queueResendCopy, TypeOK
  <2>4. \A k \in Data : data'[k] # None => data'[k] = data[k]
    BY <1>b, <1>8 DEF queueResendCopy, writerVars
  <2> HIDE DEF f
  <2> QED
    BY <1>0, <2>1, <2>2, <2>3, <2>4 DEF NextInv, FrameOK, Arrived
<1>9. CASE Place \/ flushFails
  <2>1. next' = {} /\ UNCHANGED <<entry, data, first, worker>>
    BY Zenon, <1>9 DEF Place, flushFails
  <2> QED
    BY <1>0, <2>1 DEF NextInv, Arrived
<1>10. CASE flushSend \/ flushChecked \/ sendMMsg \/ submitSendmsg
  BY Zenon, <1>10, <1>a DEF flushSend, flushChecked, sendMMsg, submitSendmsg
<1>11. CASE drainPendingFree \/ takeMark
  <2>1. (next' = {} \/ next' = next) /\ UNCHANGED <<entry, data, first, worker>>
    BY Zenon, <1>11 DEF drainPendingFree, takeMark, flushReturns
  <2> QED
    BY <1>0, <2>1 DEF NextInv, FrameOK, Arrived
<1>12. CASE waitGen
  BY Zenon, <1>12, <1>a DEF waitGen
<1>13. ASSUME NEW op \in inflight, kernelSends(op) PROVE NextInv'
  BY Zenon, <1>13, <1>a DEF kernelSends
<1>14. CASE worker.buf = None /\ UNCHANGED <<entry, data, first, next>>
  BY <1>0, <1>14 DEF NextInv, FrameOK, Arrived
<1>15. ASSUME NEW k \in resendQueue, popResend(k) PROVE NextInv'
  <2>1. worker = Idle /\ UNCHANGED <<entry, data, first, next>>
    BY Zenon, <1>15 DEF popResend
  <2> QED
    BY <2>1, <1>14 DEF Idle
<1>16. CASE takeForResend
  BY Zenon, <1>16, <1>14 DEF takeForResend
<1>17. CASE releaseResendCopy
  <2>1. /\ \A f \in next : f.buf # worker.buf
        /\ UNCHANGED <<entry, data, first, next>>
    BY Zenon, <1>17 DEF releaseResendCopy
  <2> QED
    BY <1>0, <2>1 DEF NextInv, FrameOK, Arrived
<1>18. CASE CloseBegin \/ CloseFlush \/ CloseDrain \/ CloseShutdown \/ CloseRelease
  BY Zenon, <1>18, <1>a DEF CloseBegin, CloseFlush, CloseDrain, CloseShutdown, CloseRelease
<1>19. ASSUME NEW d \in wire, Receive(d) PROVE NextInv'
  <2>1. /\ first' = [first EXCEPT ![d.key] = d.bytes] /\ first[d.key] = None
        /\ UNCHANGED <<entry, data, next, worker>>
    BY Zenon, <1>19 DEF Receive
  <2>2. \A k \in Data : Arrived(k) => Arrived(k)'
    BY <1>b, <2>1 DEF Arrived
  <2> QED
    BY <1>0, <2>1, <2>2 DEF NextInv, FrameOK
<1>20. CASE UNCHANGED vars
  BY Zenon, <1>20, <1>a DEF vars
<1> QED
  BY Zenon, <1>1, <1>2, <1>3, <1>4, <1>5, <1>6, <1>7, <1>8, <1>9, <1>10, <1>11, <1>12,
     <1>13, <1>15, <1>16, <1>17, <1>18, <1>19, <1>20
     DEF Next, Queue, Flush, Resend, Close
===============================================================================
