------------------------- MODULE SendPipelineTheorems -------------------------
(***************************************************************************)
(* No step breaks SlotInv, so PipelineInv is an invariant; the theorems    *)
(* follow from it.  Two of them need an invariant of their own on top of   *)
(* it: RequestInv for the requests to the resend worker and BatchInv for   *)
(* the batch being built.                                                  *)
(***************************************************************************)
EXTENDS SendPipelineInvariant, FiniteSetTheorems

USE PipelineAssumption

\* What a frame's slot holds is as SlotOK says.
LEMMA InSlotOK ==
  ASSUME PipelineInv, NEW f \in Frames, FrameOK(f), NEW op, op \notin inflight
  PROVE  SlotOK(op, InSlot(f))
<1>1. CASE f.zero
  <2>1. InSlot(f).buf = f.buf /\ InSlot(f).key = f.key /\ f.buf \in Bufs
    BY <1>1 DEF InSlot, Frames, FrameOK
  <2>2. f.key \in Data /\ ~Arrived(f.key) => bytes[f.buf] = f.key /\ f.buf \notin old
    BY <1>1, <2>1 DEF FrameOK, PipelineInv, BytesInv, OneOwner, Keys
  <2> QED
    BY <1>1, <2>1, <2>2 DEF SlotOK, FrameOK
<1>2. CASE ~f.zero
  <2>1. InSlot(f).buf = None /\ InSlot(f).key = f.key
    BY <1>2 DEF InSlot
  <2>2. InSlot(f).copy = f.key
    BY <1>2 DEF InSlot, FrameOK, PipelineInv, BytesInv, Frames
  <2> QED
    BY <2>1, <2>2 DEF SlotOK
<1> QED
  BY <1>1, <1>2

\* Put fills a slot with a frame whose payload is its own.
LEMMA PutSlotInv ==
  ASSUME PipelineInv, NEW f \in Frames, FrameOK(f), Put(f), HasSlot(f), set' = set,
         UNCHANGED <<retransmitVars, inflight, first>>
  PROVE  SlotInv'
<1>1. PICK i \in 1..mode.batchSize :
        /\ \/ i = sendN + 1 /\ slots' = [slots EXCEPT ![set][i] = {InSlot(f)}]
           \/ /\ i = sendN
              /\ slots' = [slots EXCEPT ![set][i] = slots[set][i] \cup {InSlot(f)}]
        /\ sendN' = i
        /\ sendMu' \in {"flush", "free"}
  BY PutSlot DEF PipelineInv
<1>2. /\ slots \in [{0, 1} -> [1..mode.batchSize -> SUBSET InSlots]]
      /\ set \in {0, 1} /\ sendN \in 0..mode.batchSize /\ mode.batchSize \in Nat
      /\ inflight \subseteq {0, 1} \X (1..mode.batchSize)
  BY DEF PipelineInv, TypeOK
<1>3. sendMu # "wait" /\ sendMu' # "wait" /\ \A op \in inflight : op[1] # set
  BY <1>1 DEF HasSlot, PipelineInv, StepInv, genDone
<1>4. ASSUME NEW op \in Live', NEW s \in slots'[op[1]][op[2]]
      PROVE  \/ op \in Live /\ s \in slots[op[1]][op[2]]
             \/ op \notin inflight /\ s = InSlot(f)
  <2>1. CASE op \in inflight
    BY <1>1, <1>2, <1>3, <2>1 DEF Live
  <2>2. CASE op \notin inflight
    <3>1. PICK j \in 1..i : op = <<set, j>>
      BY <1>1, <2>2 DEF Live
    <3>2. CASE j = i
      BY <1>1, <1>2, <2>2, <3>1, <3>2 DEF Live
    <3>3. CASE j # i
      BY <1>1, <1>2, <3>1, <3>3 DEF Live
    <3> QED
      BY <3>2, <3>3
  <2> QED
    BY <2>1, <2>2
<1>5. ASSUME NEW op, NEW s, SlotOK(op, s)
      PROVE  SlotOK(op, s)'
  BY <1>3, <1>5 DEF SlotOK, Arrived, retransmitVars, arenaVars, queueVars
<1>6. ASSUME NEW op \in Live', NEW s \in slots'[op[1]][op[2]]
      PROVE  SlotOK(op, s)'
  BY <1>4, <1>5, <1>6, InSlotOK DEF PipelineInv, SlotInv
<1> QED
  BY <1>6 DEF SlotInv

\* Slots that are live keep their payload while the arena, the entries and
\* the operations in flight stay as they are.
LEMMA SlotsKept ==
  ASSUME SlotInv, Live' \subseteq Live,
         \A op \in Live' : slots'[op[1]][op[2]] \subseteq slots[op[1]][op[2]],
         sendMu # "wait", sendMu' # "wait",
         UNCHANGED <<bytes, old, new, entry, first, inflight, set>>
  PROVE  SlotInv'
<1>1. ASSUME NEW op, NEW s, SlotOK(op, s)
      PROVE  SlotOK(op, s)'
  BY <1>1 DEF SlotOK, Arrived
<1> QED
  BY <1>1 DEF SlotInv

\* The same for a frame on its way through acquireSendSlot.
LEMMA AcquireSlotInv ==
  ASSUME PipelineInv, NEW f \in Frames, FrameOK(f), acquireSendSlot(f)
  PROVE  SlotInv'
<1>1. UNCHANGED <<retransmitVars, inflight, first>>
  BY AcquireLeaves DEF envVars, peerVars
<1>2. CASE mustFlush(f)
  <2>1. sendMu = "free" /\ sendMu' = "flush" /\ UNCHANGED <<slots, set, sendN>>
    BY <1>2, Zenon DEF acquireSendSlot
  <2>2. Live' = Live
    BY <1>1, <2>1 DEF Live
  <2> QED
    BY <1>1, <2>1, <2>2, SlotsKept DEF PipelineInv, retransmitVars, arenaVars,
         queueVars
<1>3. CASE ~mustFlush(f)
  <2>1. Put(f) /\ HasSlot(f) /\ set' = set
    BY <1>3 DEF acquireSendSlot, HasSlot
  <2> QED
    BY <1>1, <2>1, PutSlotInv
<1> QED
  BY <1>2, <1>3

\* Live slots hold what a slot can hold.
LEMMA SlotTypes ==
  ASSUME TypeOK
  PROVE  \A op \in Live : \A s \in slots[op[1]][op[2]] : s \in InSlots /\ s.buf \in Bufs \cup {None}
<1>1. /\ slots \in [{0, 1} -> [1..mode.batchSize -> SUBSET InSlots]]
      /\ set \in {0, 1} /\ sendN \in 0..mode.batchSize /\ mode.batchSize \in Nat
      /\ inflight \subseteq {0, 1} \X (1..mode.batchSize)
  BY DEF TypeOK
<1>2. ASSUME NEW op \in Live
      PROVE  op[1] \in {0, 1} /\ op[2] \in 1..mode.batchSize
  BY <1>1 DEF Live
<1>3. ASSUME NEW op \in Live, NEW s \in slots[op[1]][op[2]] PROVE s \in InSlots
  BY <1>1, <1>2
<1> QED
  BY <1>3 DEF InSlots

\* No step overwrites or recycles the payload of a live slot that has not
\* arrived.
LEMMA SlotInvStep ==
  ASSUME PipelineInv, [Next]_vars
  PROVE  SlotInv'
<1> USE DEF PipelineInv, Keys, vars, retransmitVars, arenaVars, queueVars,
           writerVars, sendVars, batchVars, resendVars, closeVars, envVars, peerVars
<1>1. ASSUME NEW k \in Keys, add(k) PROVE SlotInv'
  <2>1. UNCHANGED <<Live, slots, sendMu, inflight, set>>
    BY <1>1 DEF add, Live
  <2>2. ASSUME NEW op, NEW s, SlotOK(op, s), s.key \in Data => s.buf \in Bufs \cup {None}
        PROVE  SlotOK(op, s)'
    BY SMTT(60), <1>1, <2>1, <2>2 DEF add, SlotOK, Arrived, TypeOK, OneOwner, BytesInv
  <2>3. \A op \in Live : \A s \in slots[op[1]][op[2]] : s.buf \in Bufs \cup {None}
    BY SlotTypes
  <2> QED
    BY <2>1, <2>2, <2>3 DEF SlotInv
<1>2. ASSUME NEW k \in Keys, Ack(k) PROVE SlotInv'
  <2>1. UNCHANGED <<Live, slots, sendMu, inflight, set>>
    BY <1>2 DEF Ack, Live
  <2>2. ASSUME NEW op, NEW s, SlotOK(op, s), s.key \in Data => s.buf \in Bufs \cup {None}
        PROVE  SlotOK(op, s)'
    BY <1>2, <2>1, <2>2 DEF Ack, removeLocked, SlotOK, Arrived, TypeOK,
         OneOwner, BytesInv
  <2>3. \A op \in Live : \A s \in slots[op[1]][op[2]] : s.buf \in Bufs \cup {None}
    BY SlotTypes
  <2> QED
    BY <2>1, <2>2, <2>3 DEF SlotInv
<1>3. ASSUME NEW k \in Keys, purgeStream(k) PROVE SlotInv'
  <2>1. UNCHANGED <<Live, slots, sendMu, inflight, set>>
    BY Zenon, <1>3 DEF purgeStream, Live
  <2>2. ASSUME NEW op, NEW s, SlotOK(op, s), s.key \in Data => s.buf \in Bufs \cup {None}
        PROVE  SlotOK(op, s)'
    BY <1>3, <2>1, <2>2 DEF purgeStream, removeLocked, SlotOK, Arrived, TypeOK,
         OneOwner, BytesInv
  <2>3. \A op \in Live : \A s \in slots[op[1]][op[2]] : s.buf \in Bufs \cup {None}
    BY SlotTypes
  <2> QED
    BY <2>1, <2>2, <2>3 DEF SlotInv
<1>4. ASSUME NEW k \in Keys, requestForResend(k) PROVE SlotInv'
  <2>1. UNCHANGED <<Live, slots, sendMu, inflight, set>>
    BY <1>4 DEF requestForResend, Live
  <2>2. ASSUME NEW op, NEW s, SlotOK(op, s), s.key \in Data => s.buf \in Bufs \cup {None}
        PROVE  SlotOK(op, s)'
    BY <1>4, <2>1, <2>2 DEF requestForResend, SlotOK, Arrived, TypeOK, OneOwner,
         BytesInv
  <2>3. \A op \in Live : \A s \in slots[op[1]][op[2]] : s.buf \in Bufs \cup {None}
    BY SlotTypes
  <2> QED
    BY <2>1, <2>2, <2>3 DEF SlotInv
<1>5. ASSUME NEW k \in Keys, sendFrame(k) PROVE SlotInv'
  <2> DEFINE f == Frame(k, IF k \in Data THEN paceBulk ELSE paceCritical, data[k], TRUE)
  <2>1. acquireSendSlot(f)
    BY Zenon, <1>5 DEF sendFrame
  <2>2. FrameOK(f)
    BY <1>5 DEF sendFrame, FrameOK, NextInv, TypeOK, Frame, BytesInv
  <2>3. f \in Frames
    BY Zenon, <1>5, FrameTypes DEF sendFrame, BytesInv
  <2> HIDE DEF f
  <2> QED
    BY <2>1, <2>2, <2>3, AcquireSlotInv
<1>6. CASE sendControlFrame
  <2> DEFINE f == Frame(Ctl, paceCritical, None, FALSE)
  <2>1. acquireSendSlot(f)
    BY Zenon, <1>6 DEF sendControlFrame
  <2>2. FrameOK(f)
    BY <1>6 DEF sendControlFrame, FrameOK, NextInv, TypeOK, Frame, BytesInv
  <2>3. f \in Frames
    BY Zenon, <1>6, FrameTypes DEF sendControlFrame, BytesInv
  <2> HIDE DEF f
  <2> QED
    BY <2>1, <2>2, <2>3, AcquireSlotInv
<1>7. CASE CloseGoAway
  <2> DEFINE f == Frame(Ctl, paceCritical, None, FALSE)
  <2>1. acquireSendSlot(f)
    BY Zenon, <1>7 DEF CloseGoAway
  <2>2. FrameOK(f)
    BY <1>7 DEF CloseGoAway, FrameOK, NextInv, TypeOK, Frame, BytesInv
  <2>3. f \in Frames
    BY Zenon, <1>7, FrameTypes DEF CloseGoAway, BytesInv
  <2> HIDE DEF f
  <2> QED
    BY <2>1, <2>2, <2>3, AcquireSlotInv
<1>8. CASE queueResendCopy
  <2> DEFINE f == Frame(worker.key, paceRecovery, worker.buf, FALSE)
  <2>1. acquireSendSlot(f)
    BY Zenon, <1>8 DEF queueResendCopy
  <2>2. FrameOK(f)
    BY <1>8 DEF queueResendCopy, FrameOK, NextInv, TypeOK, Frame, BytesInv
  <2>3. f \in Frames
    BY Zenon, <1>8, FrameTypes DEF queueResendCopy, BytesInv
  <2> HIDE DEF f
  <2> QED
    BY <2>1, <2>2, <2>3, AcquireSlotInv
<1>9. CASE Place
  <2>1. PICK f \in next : Put(f)
    BY <1>9 DEF Place
  <2>2. f \in Frames /\ HasSlot(f) /\ FrameOK(f)
    BY <1>9, <2>1 DEF TypeOK, HasSlot, Place, NextInv
  <2>3. UNCHANGED <<retransmitVars, inflight, first, set>>
    BY <1>9 DEF Place, envVars, peerVars
  <2> QED
    BY <2>1, <2>2, <2>3, PutSlotInv
<1>10. CASE flushSend
  <2>1. /\ Live' \subseteq Live /\ sendMu # "wait" /\ sendMu' # "wait"
        /\ UNCHANGED <<bytes, old, new, entry, first, inflight, set>>
    BY <1>10 DEF flushSend, Live, StepInv, TypeOK
  <2>2. \A op \in Live' : slots'[op[1]][op[2]] \subseteq slots[op[1]][op[2]]
    BY <1>10, <2>1 DEF flushSend, batchVars
  <2> QED
    BY <2>1, <2>2, SlotsKept
<1>11. CASE flushChecked
  <2>1. /\ Live' \subseteq Live /\ sendMu # "wait" /\ sendMu' # "wait"
        /\ UNCHANGED <<bytes, old, new, entry, first, inflight, set>>
    BY <1>11 DEF flushChecked, Live, StepInv, TypeOK
  <2>2. \A op \in Live' : slots'[op[1]][op[2]] \subseteq slots[op[1]][op[2]]
    BY <1>11, <2>1 DEF flushChecked, batchVars
  <2> QED
    BY <2>1, <2>2, SlotsKept
<1>12. CASE flushFails
  <2>1. /\ Live' = inflight /\ sendMu # "wait" /\ sendMu' # "wait"
        /\ UNCHANGED <<bytes, old, new, entry, first, inflight, set>>
    BY <1>12 DEF flushFails, resetBatch, Live
  <2>2. /\ set \in {0, 1} /\ slots \in [{0, 1} -> [1..mode.batchSize -> SUBSET InSlots]]
        /\ inflight \subseteq {0, 1} \X (1..mode.batchSize)
    BY DEF TypeOK
  <2>3. \A op \in Live' : slots'[op[1]][op[2]] \subseteq slots[op[1]][op[2]]
    BY <1>12, <2>1, <2>2 DEF flushFails, StepInv, genDone
  <2> QED
    BY <2>1, <2>3, SlotsKept DEF Live
<1>13. CASE sendMMsg
  <2> Live' = {}
    BY <1>13 DEF sendMMsg, resetBatch, Live, StepInv
  <2> QED
    BY Zenon DEF SlotInv
<1>14. CASE drainPendingFree
  <2> Live' = {}
    BY <1>14 DEF drainPendingFree, Live, StepInv, batchVars
  <2> QED
    BY Zenon DEF SlotInv
<1>15. CASE submitSendmsg
  <2>1. /\ sendMu = "send" /\ sendMu' = "wait" /\ set' = 1 - set /\ set \in {0, 1}
        /\ inflight' = Live /\ Live' = Live
        /\ UNCHANGED <<bytes, old, new, entry, first, slots>>
    BY SMTT(30), <1>15 DEF submitSendmsg, resetBatch, Live, TypeOK
  <2>2. ASSUME NEW op \in Live, NEW s, SlotOK(op, s) PROVE SlotOK(op, s)'
    BY <2>1, <2>2 DEF SlotOK, Arrived
  <2> QED
    BY <2>1, <2>2 DEF SlotInv
<1>16. CASE waitGen
  <2>1. /\ sendMu = "wait" /\ sendMu' = "mark" /\ \A op \in inflight : op[1] # set
        /\ Live = inflight /\ Live' = inflight
        /\ old' = {} /\ UNCHANGED <<bytes, new, entry, first, slots, set, inflight>>
    BY SMTT(30), <1>16 DEF waitGen, drainPendingFreeFirst, genDone, Live, TypeOK, StepInv
  <2>2. ASSUME NEW op \in inflight, NEW s, SlotOK(op, s) PROVE SlotOK(op, s)'
    BY <2>1, <2>2 DEF SlotOK, Arrived
  <2> QED
    BY <2>1, <2>2 DEF SlotInv
<1>17. CASE takeMark
  <2>1. /\ sendMu = "mark" /\ sendMu' # "wait" /\ \A op \in inflight : op[1] = 1 - set
        /\ Live = inflight /\ Live' = inflight /\ old = {} /\ old' = new /\ new' = {}
        /\ UNCHANGED <<bytes, entry, first, slots, set, inflight>>
    BY SMTT(60), <1>17 DEF takeMark, flushReturns, genDone, Live, TypeOK, StepInv
  <2>2. ASSUME NEW op \in inflight, NEW s, SlotOK(op, s) PROVE SlotOK(op, s)'
    BY <2>1, <2>2 DEF SlotOK, Arrived
  <2> QED
    BY <2>1, <2>2 DEF SlotInv
<1>18. ASSUME NEW op \in inflight, kernelSends(op) PROVE SlotInv'
  <2>1. /\ inflight' = inflight \ {op}
        /\ slots' = [slots EXCEPT ![op[1]][op[2]] = {}]
        /\ UNCHANGED <<bytes, old, new, entry, first, sendMu, set, sendN>>
    BY <1>18 DEF kernelSends
  <2>2. /\ slots \in [{0, 1} -> [1..mode.batchSize -> SUBSET InSlots]]
        /\ inflight \subseteq {0, 1} \X (1..mode.batchSize)
        /\ set \in {0, 1} /\ sendN \in 0..mode.batchSize /\ mode.batchSize \in Nat
    BY DEF TypeOK
  <2>3. ASSUME NEW o \in Live', NEW s \in slots'[o[1]][o[2]]
        PROVE  o \in Live /\ o # op /\ s \in slots[o[1]][o[2]]
    BY <2>1, <2>2, <2>3 DEF Live
  <2>4. ASSUME NEW o, o # op, NEW s, SlotOK(o, s) PROVE SlotOK(o, s)'
    BY <2>1, <2>4 DEF SlotOK, Arrived
  <2> QED
    BY <2>3, <2>4 DEF SlotInv
<1>19. ASSUME NEW k \in resendQueue, popResend(k) PROVE SlotInv'
  <2>1. UNCHANGED <<Live, slots, sendMu, inflight, set>>
    BY <1>19 DEF popResend, Live
  <2>2. ASSUME NEW op, NEW s, SlotOK(op, s), s.key \in Data => s.buf \in Bufs \cup {None}
        PROVE  SlotOK(op, s)'
    BY <1>19, <2>1, <2>2 DEF popResend, SlotOK, Arrived, TypeOK, OneOwner,
         BytesInv
  <2>3. \A op \in Live : \A s \in slots[op[1]][op[2]] : s.buf \in Bufs \cup {None}
    BY SlotTypes
  <2> QED
    BY Zenon, <2>1, <2>2, <2>3 DEF SlotInv
<1>20. CASE takeForResend
  <2>1. UNCHANGED <<Live, slots, sendMu, inflight, set, old, new, entry, first>>
    BY <1>20 DEF takeForResend, Live
  <2>2. bytes' = bytes \/ \E b \in free : \E v : bytes' = [bytes EXCEPT ![b] = v]
    BY <1>20 DEF takeForResend
  <2>3. \A op \in Live : \A s \in slots[op[1]][op[2]] : s.buf \in Bufs \cup {None}
    BY SlotTypes
  <2>4. bytes \in [Bufs -> Keys \cup {None}]
    BY DEF TypeOK
  <2>5. ASSUME NEW b \in free
        PROVE  b \notin old \cup new /\ \A k \in Keys : entry[k] # b
    <3>1. b # None
      BY PipelineAssumption DEF TypeOK
    <3> QED
      BY <3>1 DEF OneOwner
  <2>6. ASSUME NEW op, NEW s, SlotOK(op, s), s.buf \in Bufs \cup {None}
        PROVE  SlotOK(op, s)'
    <3>1. ASSUME s.buf # None, s.key \in Data, entry[s.key] = s.buf \/ s.buf \in old \cup new
          PROVE  bytes'[s.buf] = bytes[s.buf]
      BY <2>2, <2>4, <2>5, <2>6, <3>1
    <3> QED
      BY <2>1, <2>6, <3>1 DEF SlotOK, Arrived
  <2> QED
    BY Zenon, <2>1, <2>3, <2>6 DEF SlotInv
<1>21. CASE releaseResendCopy
  <2>1. UNCHANGED <<Live, slots, sendMu, inflight, set>>
    BY <1>21 DEF releaseResendCopy, Live
  <2>2. ASSUME NEW op, NEW s, SlotOK(op, s), s.key \in Data => s.buf \in Bufs \cup {None}
        PROVE  SlotOK(op, s)'
    BY <1>21, <2>1, <2>2 DEF releaseResendCopy, SlotOK, Arrived, TypeOK,
         OneOwner, BytesInv
  <2>3. \A op \in Live : \A s \in slots[op[1]][op[2]] : s.buf \in Bufs \cup {None}
    BY SlotTypes
  <2> QED
    BY <2>1, <2>2, <2>3 DEF SlotInv
<1>22. CASE CloseFlush
  <2>1. /\ Live' \subseteq Live /\ sendMu # "wait" /\ sendMu' # "wait"
        /\ UNCHANGED <<bytes, old, new, entry, first, inflight, set>>
    BY <1>22 DEF CloseFlush, Live, StepInv, TypeOK
  <2>2. \A op \in Live' : slots'[op[1]][op[2]] \subseteq slots[op[1]][op[2]]
    BY <1>22, <2>1 DEF CloseFlush, batchVars
  <2> QED
    BY <2>1, <2>2, SlotsKept
<1>23. CASE CloseBegin \/ CloseDrain \/ CloseShutdown \/ CloseRelease
  <2>1. UNCHANGED <<Live, slots, sendMu, inflight, set>>
    BY Zenon, <1>23 DEF CloseBegin, CloseDrain, CloseShutdown, CloseRelease, Live
  <2>2. ASSUME NEW op, NEW s, SlotOK(op, s), s.key \in Data => s.buf \in Bufs \cup {None}
        PROVE  SlotOK(op, s)'
    BY Zenon, <1>23, <2>1, <2>2 DEF CloseBegin, CloseDrain, CloseShutdown,
         CloseRelease, SlotOK, Arrived, TypeOK, OneOwner, BytesInv
  <2>3. \A op \in Live : \A s \in slots[op[1]][op[2]] : s.buf \in Bufs \cup {None}
    BY SlotTypes
  <2> QED
    BY <2>1, <2>2, <2>3 DEF SlotInv
<1>24. ASSUME NEW d \in wire, Receive(d) PROVE SlotInv'
  <2>1. UNCHANGED <<Live, slots, sendMu, inflight, set>>
    BY <1>24 DEF Receive, Live
  <2>2. ASSUME NEW op, NEW s, SlotOK(op, s), s.key \in Data => s.buf \in Bufs \cup {None}
        PROVE  SlotOK(op, s)'
    BY Zenon, <1>24, <2>1, <2>2 DEF Receive, SlotOK, Arrived, TypeOK, OneOwner,
         BytesInv
  <2>3. \A op \in Live : \A s \in slots[op[1]][op[2]] : s.buf \in Bufs \cup {None}
    BY Zenon, SlotTypes
  <2> QED
    BY Zenon, <2>1, <2>2, <2>3 DEF SlotInv
<1>25. CASE UNCHANGED vars
  BY SMTT(60), <1>25 DEF SlotInv, SlotOK, Live, TypeOK, Arrived
<1> QED
  BY <1>1, <1>2, <1>3, <1>4, <1>5, <1>6, <1>7, <1>8, <1>9, <1>10, <1>11,
     <1>12, <1>13, <1>14, <1>15, <1>16, <1>17, <1>18, <1>19, <1>20,
     <1>21, <1>22, <1>23, <1>24, <1>25
     DEF Next, Queue, Flush, Resend, Close

\* The three facts of the inductive argument.
LEMMA PipelineInvInit == Init => PipelineInv
<1> SUFFICES ASSUME Init PROVE PipelineInv
  OBVIOUS
<1>1. mode \in Modes /\ mode.batchSize \in Nat /\ mode.frames \subseteq Keys
  BY DEF Init, Keys
<1>2. slots \in [{0, 1} -> [1..mode.batchSize -> SUBSET InSlots]]
  BY DEF Init, Emptied
<1>3. TypeOK
  <2>1. worker \in [key : Keys \cup {None}, buf : Bufs \cup {None}, copied : BOOLEAN]
    BY DEF Init, Idle
  <2>2. /\ bytes \in [Bufs -> Keys \cup {None}] /\ entry \in [Keys -> Bufs \cup {None}]
        /\ data \in [Keys -> Bufs \cup {None}] /\ first \in [Keys -> Keys \cup {Ctl, None}]
    BY DEF Init
  <2>3. sendN \in 0..mode.batchSize /\ sendPaceClass \in 0..2 /\ sendDatagrams \in Nat
    BY <1>1 DEF Init, paceBulk
  <2> QED
    BY Zenon, <1>1, <1>2, <2>1, <2>2, <2>3 DEF Init, TypeOK
<1>4. OneOwner /\ StepInv /\ BytesInv /\ NextInv
  BY DEF Init, OneOwner, StepInv, BytesInv, NextInv, Idle, genDone, Keys
<1>5. SlotInv /\ WireInv /\ DataIntact
  BY DEF Init, SlotInv, Live, WireInv, DataIntact, Keys
<1> QED
  BY <1>3, <1>4, <1>5 DEF PipelineInv

LEMMA PipelineInvStep == PipelineInv /\ [Next]_vars => PipelineInv'
BY TypeOKStep, OneOwnerStep, StepInvStep, BytesInvStep, NextInvStep,
     SlotInvStep,
   WireInvStep, DataIntactStep DEF PipelineInv

\* PipelineInv is an invariant of the send path for any frames, buffers,
\* batch sizes and modes.
THEOREM PipelineInvariant == Spec => []PipelineInv
BY PipelineInvInit, PipelineInvStep, PTL DEF Spec

\* Every variable has its type, and a batch never exceeds its slots.
THEOREM TypeCorrect == Spec => []TypeOK
<1> PipelineInv => TypeOK
  BY DEF PipelineInv
<1> QED
  BY PipelineInvariant, PTL

\* A buffer of the arena is free, pending, an entry's, or the worker's copy:
\* one of these, whatever ACKs, purges, resends and drains interleave.
THEOREM ArenaOwnership == Spec => []OneOwner
<1> PipelineInv => OneOwner
  BY DEF PipelineInv
<1> QED
  BY PipelineInvariant, PTL

\* The first copy of a DATA frame that arrives carries the frame's own bytes,
\* over sendmmsg and over io_uring.
THEOREM DataArrivesIntact == Spec => []DataIntact
<1> PipelineInv => DataIntact
  BY DEF PipelineInv
<1> QED
  BY PipelineInvariant, PTL

\* Once the descriptor is released nothing is sent on it: flushSendLocked
\* checks IsShutdown under the mutex that Close took to release it.
THEOREM SilentAfterClose == Spec => NoSendAfterClose
<1>1. ASSUME PipelineInv, [Next]_vars
      PROVE  [closeStep = "done" => wire' = wire]_vars
  <2> SUFFICES ASSUME closeStep = "done" PROVE wire' = wire
    OBVIOUS
  <2>1. sendMu # "send" /\ inflight = {}
    BY <1>1 DEF PipelineInv, Ring, StepInv
  <2> QED
    BY <1>1, <2>1, PeerKept DEF sendMMsg, Receive
<1> QED
  BY <1>1, PipelineInvariant, PTL DEF Spec, NoSendAfterClose

\* Only a free buffer is ever written.
LEMMA BytesKept ==
  ASSUME PipelineInv, [Next]_vars, NEW b \in Bufs, b \notin free
  PROVE  bytes'[b] = bytes[b]
<1> USE DEF PipelineInv, vars, retransmitVars, arenaVars, queueVars, writerVars,
           sendVars, batchVars, resendVars, closeVars, envVars, peerVars
<1> bytes \in [Bufs -> Keys \cup {None}]
  BY DEF TypeOK
<1>1. CASE Queue
  BY Zenon, <1>1 DEF Queue, add, Ack, purgeStream, requestForResend, removeLocked
<1>2. CASE (\E k \in Keys : sendFrame(k)) \/ sendControlFrame \/ Place
  BY Zenon, <1>2, AcquireLeaves DEF sendFrame, sendControlFrame, Place
<1>3. CASE Flush
  BY Zenon, <1>3 DEF Flush, flushSend, flushFails, flushChecked, sendMMsg,
       drainPendingFree, submitSendmsg, waitGen, takeMark, kernelSends
<1>4. CASE Resend
  BY Zenon, <1>4, AcquireLeaves DEF Resend, popResend, takeForResend, queueResendCopy,
       releaseResendCopy
<1>5. CASE Close
  BY Zenon, <1>5, AcquireLeaves DEF Close, CloseBegin, CloseGoAway, CloseFlush,
       CloseDrain, CloseShutdown, CloseRelease
<1>6. CASE (\E d \in wire : Receive(d)) \/ UNCHANGED vars
  BY Zenon, <1>6 DEF Receive
<1> QED
  BY <1>1, <1>2, <1>3, <1>4, <1>5, <1>6 DEF Next

\* A frame that gets a slot gets none that is in flight.
LEMMA PutElsewhere ==
  ASSUME TypeOK, StepInv, NEW f \in Frames, Put(f), HasSlot(f), NEW op \in inflight
  PROVE  slots'[op[1]][op[2]] = slots[op[1]][op[2]]
<1>1. /\ slots \in [{0, 1} -> [1..mode.batchSize -> SUBSET InSlots]]
      /\ set \in {0, 1} /\ inflight \subseteq {0, 1} \X (1..mode.batchSize)
  BY DEF TypeOK
<1>2. op[1] # set
  BY DEF HasSlot, StepInv, genDone
<1>3. \E i \in 1..mode.batchSize : \E v : slots' = [slots EXCEPT ![set][i] = v]
  BY PutSlot
<1> QED
  BY <1>1, <1>2, <1>3

LEMMA AcquireElsewhere ==
  ASSUME TypeOK, StepInv, NEW f \in Frames, acquireSendSlot(f), NEW op \in inflight
  PROVE  slots'[op[1]][op[2]] = slots[op[1]][op[2]]
<1>1. CASE mustFlush(f)
  BY <1>1, Zenon DEF acquireSendSlot
<1>2. CASE ~mustFlush(f)
  <2>1. Put(f) /\ HasSlot(f)
    BY <1>2 DEF acquireSendSlot, HasSlot
  <2> QED
    BY <2>1, PutElsewhere
<1> QED
  BY <1>1, <1>2

\* The slots of operations that stay in flight are not written.
LEMMA InflightKept ==
  ASSUME PipelineInv, [Next]_vars, NEW op \in inflight, op \in inflight'
  PROVE  slots'[op[1]][op[2]] = slots[op[1]][op[2]]
<1> USE DEF PipelineInv, vars, retransmitVars, arenaVars, queueVars, writerVars,
           sendVars, batchVars, resendVars, closeVars, envVars, peerVars
<1>1. CASE Queue
  BY Zenon, <1>1 DEF Queue, add, Ack, purgeStream, requestForResend
<1>2. CASE (\E k \in Keys : sendFrame(k)) \/ sendControlFrame \/ CloseGoAway \/ queueResendCopy
  <2>1. PICK f \in Frames : acquireSendSlot(f)
    BY Zenon, <1>2, FrameTypes DEF sendFrame, sendControlFrame, CloseGoAway,
         queueResendCopy, BytesInv
  <2> QED
    BY Zenon, <2>1, AcquireElsewhere
<1>3. CASE Place
  <2>1. PICK f \in next : Put(f)
    BY <1>3 DEF Place
  <2>2. f \in Frames /\ HasSlot(f)
    BY <1>3, <2>1 DEF TypeOK, HasSlot, Place
  <2> QED
    BY Zenon, <2>1, <2>2, PutElsewhere
<1>4. CASE flushFails
  <2>1. op[1] # set /\ slots' = [slots EXCEPT ![set] = Emptied]
    BY <1>4 DEF flushFails, StepInv, genDone
  <2>2. /\ slots \in [{0, 1} -> [1..mode.batchSize -> SUBSET InSlots]]
        /\ inflight \subseteq {0, 1} \X (1..mode.batchSize)
    BY DEF TypeOK
  <2> QED
    BY <2>1, <2>2
<1>5. CASE sendMMsg
  BY <1>5 DEF sendMMsg, StepInv
<1>6. CASE \E o \in inflight : kernelSends(o)
  <2>1. PICK o \in inflight : kernelSends(o)
    BY <1>6
  <2>2. o # op /\ slots' = [slots EXCEPT ![o[1]][o[2]] = {}]
    BY <2>1 DEF kernelSends
  <2>3. /\ slots \in [{0, 1} -> [1..mode.batchSize -> SUBSET InSlots]]
        /\ inflight \subseteq {0, 1} \X (1..mode.batchSize)
    BY DEF TypeOK
  <2> QED
    BY <2>2, <2>3
<1>7. CASE flushSend \/ flushChecked \/ drainPendingFree \/ submitSendmsg
           \/ waitGen \/ takeMark
  BY Zenon, <1>7 DEF flushSend, flushChecked, drainPendingFree, submitSendmsg, waitGen,
       takeMark
<1>8. CASE (\E k \in resendQueue : popResend(k)) \/ takeForResend \/ releaseResendCopy
  BY <1>8 DEF popResend, takeForResend, releaseResendCopy
<1>9. CASE CloseBegin \/ CloseFlush \/ CloseDrain \/ CloseShutdown \/ CloseRelease
  BY Zenon, <1>9 DEF CloseBegin, CloseFlush, CloseDrain, CloseShutdown, CloseRelease
<1>10. CASE (\E d \in wire : Receive(d)) \/ UNCHANGED vars
  BY Zenon, <1>10 DEF Receive
<1> QED
  BY Zenon, <1>1, <1>2, <1>3, <1>4, <1>5, <1>6, <1>7, <1>8, <1>9, <1>10
     DEF Next, Flush, Resend, Close

\* What an operation in flight points at stays untouched until the kernel is
\* done with it, unless the peer already has the frame.
THEOREM SubmittedStaysUntouched == Spec => SubmittedUntouched
<1> DEFINE Untouched ==
      \A op \in inflight \cap inflight' :
        /\ slots'[op[1]][op[2]] = slots[op[1]][op[2]]
        /\ \A s \in slots[op[1]][op[2]] :
             s.key \in Data /\ first[s.key] = None => Datagram(s)' = Datagram(s)
<1>1. ASSUME PipelineInv, [Next]_vars
      PROVE  Untouched
  <2> SUFFICES ASSUME NEW op \in inflight, op \in inflight'
               PROVE  /\ slots'[op[1]][op[2]] = slots[op[1]][op[2]]
                      /\ \A s \in slots[op[1]][op[2]] :
                           s.key \in Data /\ first[s.key] = None
                             => Datagram(s)' = Datagram(s)
    OBVIOUS
  <2>1. slots'[op[1]][op[2]] = slots[op[1]][op[2]]
    BY <1>1, InflightKept
  <2>2. ASSUME NEW s \in slots[op[1]][op[2]], s.key \in Data, first[s.key] = None
        PROVE  Datagram(s)' = Datagram(s)
    <3>1. SlotOK(op, s) /\ s.buf \in Bufs \cup {None}
      BY <1>1, SlotTypes DEF PipelineInv, SlotInv, Live
    <3>2. s.buf # None => s.buf \notin free
      BY <1>1, <2>2, <3>1 DEF SlotOK, Arrived, PipelineInv, OneOwner, Keys
    <3>3. s.buf # None => bytes'[s.buf] = bytes[s.buf]
      BY <1>1, <3>1, <3>2, BytesKept
    <3> QED
      BY <3>3 DEF Datagram
  <2> QED
    BY <2>1, <2>2
<1>2. PipelineInv /\ [Next]_vars => [Untouched]_vars
  BY <1>1
<1> QED
  BY <1>2, PipelineInvariant, PTL DEF Spec, SubmittedUntouched

-------------------------------------------------------------------------------
(* Requests for the resend worker.                                         *)

\* An entry is marked queued until the worker has made its copy of it.
RequestInv ==
  queued \subseteq resendQueue \cup (IF worker.buf = None THEN {worker.key} ELSE {})

\* No step loses a request: takeForResend unmarks the entry in the step that
\* takes it from the worker.
LEMMA RequestInvStep ==
  ASSUME TypeOK, RequestInv, [Next]_vars
  PROVE  RequestInv'
<1> USE DEF retransmitVars, arenaVars, queueVars, writerVars, sendVars, batchVars,
            resendVars, closeVars, envVars, peerVars
<1>0. /\ queued \subseteq Keys /\ free \subseteq Bufs
      /\ None \notin Keys /\ None \notin Bufs
  BY DEF TypeOK, Keys
<1>a. CASE queued' \subseteq queued /\ UNCHANGED <<resendQueue, worker>>
  BY <1>a DEF RequestInv
<1>1. ASSUME NEW k \in Keys, add(k) \/ Ack(k) \/ purgeStream(k) PROVE RequestInv'
  BY Zenon, <1>1, <1>a DEF add, Ack, purgeStream, removeLocked
<1>2. ASSUME NEW k \in Keys, requestForResend(k) PROVE RequestInv'
  BY <1>2 DEF requestForResend, RequestInv
<1>3. CASE (\E k \in Keys : sendFrame(k)) \/ sendControlFrame \/ CloseGoAway
  BY Zenon, <1>3, <1>a, AcquireLeaves DEF sendFrame, sendControlFrame, CloseGoAway
<1>4. CASE Place \/ Flush
  BY Zenon, <1>4, <1>a DEF Place, Flush, flushSend, flushFails, flushChecked, sendMMsg,
     drainPendingFree, submitSendmsg, waitGen, takeMark, kernelSends
<1>5. ASSUME NEW k \in resendQueue, popResend(k) PROVE RequestInv'
  <2>1. /\ worker = Idle /\ resendQueue' = resendQueue \ {k} /\ queued' = queued
        /\ worker' = [Idle EXCEPT !.key = k]
    BY Zenon, <1>5 DEF popResend
  <2> QED
    BY <1>0, <2>1 DEF RequestInv, Idle
<1>6. CASE takeForResend
  <2>1. worker.buf = None /\ resendQueue' = resendQueue
    BY Zenon, <1>6 DEF takeForResend
  <2>2. queued' \subseteq queued \ {worker.key}
    BY <1>6 DEF takeForResend, takenFrom
  <2> QED
    BY <2>1, <2>2 DEF RequestInv
<1>7. CASE queueResendCopy
  <2>1. worker'.buf = worker.buf /\ worker'.key = worker.key
    BY <1>7 DEF queueResendCopy, TypeOK
  <2>2. UNCHANGED <<queued, resendQueue>>
    BY Zenon, <1>7, AcquireLeaves DEF queueResendCopy
  <2> QED
    BY <2>1, <2>2 DEF RequestInv
<1>8. CASE releaseResendCopy
  <2>1. worker.buf # None /\ UNCHANGED <<queued, resendQueue>>
    BY Zenon, <1>8 DEF releaseResendCopy
  <2> QED
    BY <2>1 DEF RequestInv
<1>9. CASE CloseBegin \/ CloseFlush \/ CloseDrain \/ CloseShutdown \/ CloseRelease
  BY Zenon, <1>9, <1>a DEF CloseBegin, CloseFlush, CloseDrain, CloseShutdown, CloseRelease
<1>10. CASE (\E d \in wire : Receive(d)) \/ UNCHANGED vars
  BY Zenon, <1>10, <1>a DEF Receive, vars
<1> QED
  BY Zenon, <1>1, <1>2, <1>3, <1>4, <1>5, <1>6, <1>7, <1>8, <1>9, <1>10
     DEF Next, Queue, Resend, Close

\* An entry marked queued has its request in resendQueue or with the worker, so
\* requestForResend, which skips marked entries, never leaves one unsent.
THEOREM RequestsKept == Spec => []RequestKept
<1>1. Init => RequestInv
  BY DEF Init, RequestInv
<1>2. PipelineInv /\ RequestInv /\ [Next]_vars => RequestInv'
  BY RequestInvStep DEF PipelineInv
<1>3. RequestInv => RequestKept
  BY DEF RequestInv, RequestKept
<1> QED
  BY PipelineInvariant, <1>1, <1>2, <1>3, PTL DEF Spec

-------------------------------------------------------------------------------
(* The batch being built.                                                  *)

Shorts(ss) == {s \in ss : s.key \in Short /\ s.buf # None}

\* A batch is empty when the pacer has nothing to account for, and an open
\* pack has room for one more frame.
BatchInv ==
  /\ mode.paced => (sendN = 0 <=> sendDatagrams = 0)
  /\ packOpen => Cardinality(slots[set][sendN]) < mode.gsoMaxFrames
  /\ \A i \in 1..sendN : IsFiniteSet(slots[set][i])
  /\ BatchWellFormed

\* A pack without short frames gets at most one by the frame that is added.
LEMMA AddedShorts ==
  ASSUME NEW ss, Shorts(ss) = {}, NEW x
  PROVE  /\ Cardinality(Shorts(ss \cup {x})) <= 1
         /\ x.key \notin Short => Cardinality(Shorts(ss \cup {x})) <= 0
<1>1. Shorts(ss \cup {x}) = {} \/ (Shorts(ss \cup {x}) = {x} /\ x.key \in Short)
  BY DEF Shorts
<1>2. Cardinality({x}) = 1 /\ Cardinality({}) = 0
  BY Zenon, FS_Singleton, FS_EmptySet
<1> QED
  BY <1>1, <1>2

\* Put adds its frame to the open pack, which is the last slot, or to the next
\* slot, and leaves a pack open only if it has room and no short frame ended it.
LEMMA PutForm ==
  ASSUME TypeOK, StepInv, NEW f \in Frames, Put(f), HasSlot(f)
  PROVE  \E i \in 1..mode.batchSize : \E ss :
           /\ \/ i = sendN + 1 /\ ss = {}
              \/ i = sendN /\ packOpen /\ ss = slots[set][sendN]
           /\ slots' = [slots EXCEPT ![set][i] = ss \cup {InSlot(f)}]
           /\ sendN' = i
           /\ packOpen' => /\ ~(Cardinality(ss \cup {InSlot(f)}) >= mode.gsoMaxFrames)
                           /\ f.key \notin Short
           /\ accountDatagram(f.class)
<1> mode.batchSize \in Nat \ {0} /\ sendN \in 0..mode.batchSize
  BY DEF TypeOK
<1>1. CASE inPack(f) /\ packOpen
  <2>1. sendN \in 1..mode.batchSize
    BY <1>1 DEF StepInv
  <2>2. /\ slots' = [slots EXCEPT ![set][sendN] = slots[set][sendN] \cup {InSlot(f)}]
        /\ sendN' = sendN /\ accountDatagram(f.class)
        /\ packOpen' => ~packEnds(f, Cardinality(slots[set][sendN] \cup {InSlot(f)}))
    BY <1>1, Zenon DEF Put, queueFrameGSO
  <2> QED
    BY Zenon, <1>1, <2>1, <2>2 DEF packEnds
<1>2. {} \cup {InSlot(f)} = {InSlot(f)}
  OBVIOUS
<1>3. CASE inPack(f) /\ ~packOpen
  <2>1. sendN + 1 \in 1..mode.batchSize
    BY <1>3 DEF StepInv, HasSlot, mustFlush
  <2>2. /\ slots' = [slots EXCEPT ![set][sendN + 1] = {InSlot(f)}]
        /\ sendN' = sendN + 1 /\ accountDatagram(f.class)
        /\ packOpen' => ~packEnds(f, Cardinality({InSlot(f)}))
    BY <1>3, Zenon DEF Put, queueFrameGSO
  <2> QED
    BY Zenon, <1>2, <2>1, <2>2 DEF packEnds
<1>4. CASE ~inPack(f)
  <2>1. sendN + 1 \in 1..mode.batchSize
    BY <1>4 DEF StepInv, HasSlot, mustFlush
  <2>2. /\ slots' = [slots EXCEPT ![set][sendN + 1] = {InSlot(f)}]
        /\ sendN' = sendN + 1 /\ accountDatagram(f.class) /\ ~packOpen'
    BY <1>4, Zenon DEF Put, commitSendSlot
  <2> QED
    BY Zenon, <1>2, <2>1, <2>2
<1> QED
  BY Zenon, <1>1, <1>3, <1>4 DEF TypeOK

\* A slot of the batch as BatchWellFormed wants it.
SlotGood(i) ==
  /\ mode.paced => \A s \in slots[set][i] : s.class = sendPaceClass
  /\ Cardinality(slots[set][i]) <= mode.gsoMaxFrames
  /\ Cardinality(Shorts(slots[set][i])) <= IF packOpen /\ i = sendN THEN 0 ELSE 1

\* BatchWellFormed, slot by slot.
LEMMA WellFormed == BatchWellFormed <=> \A i \in 1..sendN : SlotGood(i)
BY DEF BatchWellFormed, SlotGood, Shorts

\* A frame that gets its slot leaves the batch as it should be: of one pacing
\* class, and with room in its pack.
LEMMA PutBatch ==
  ASSUME TypeOK, StepInv, BatchInv, NEW f \in Frames, Put(f), HasSlot(f),
         UNCHANGED <<mode, set>>
  PROVE  BatchInv'
<1>0. /\ mode.batchSize \in Nat /\ mode.gsoMaxFrames \in Nat \ {0}
      /\ sendN \in 0..mode.batchSize /\ set \in {0, 1} /\ sendDatagrams \in Nat
      /\ slots \in [{0, 1} -> [1..mode.batchSize -> SUBSET InSlots]]
  BY DEF TypeOK
<1>1. PICK i \in 1..mode.batchSize : \E ss :
        /\ \/ i = sendN + 1 /\ ss = {}
           \/ i = sendN /\ packOpen /\ ss = slots[set][sendN]
        /\ slots' = [slots EXCEPT ![set][i] = ss \cup {InSlot(f)}]
        /\ sendN' = i
        /\ packOpen' => /\ ~(Cardinality(ss \cup {InSlot(f)}) >= mode.gsoMaxFrames)
                        /\ f.key \notin Short
        /\ accountDatagram(f.class)
  BY Zenon, PutForm
<1>2. PICK ss :
        /\ \/ i = sendN + 1 /\ ss = {}
           \/ i = sendN /\ packOpen /\ ss = slots[set][sendN]
        /\ slots' = [slots EXCEPT ![set][i] = ss \cup {InSlot(f)}]
        /\ sendN' = i
        /\ packOpen' => /\ ~(Cardinality(ss \cup {InSlot(f)}) >= mode.gsoMaxFrames)
                        /\ f.key \notin Short
        /\ accountDatagram(f.class)
  BY Zenon, <1>1
<1> DEFINE x == InSlot(f)
<1>3. x.key = f.key /\ x.class = f.class
  BY DEF InSlot
<1> HIDE DEF x
<1>4. /\ slots'[set][i] = ss \cup {x}
      /\ \A j \in 1..sendN' : j # i => slots'[set][j] = slots[set][j]
    BY <1>0, <1>2 DEF x
<1>5. mode.paced => /\ sendDatagrams' > 0 /\ sendPaceClass' = f.class
                    /\ sendN = 0 \/ sendPaceClass = f.class
  <2> SUFFICES ASSUME mode.paced
               PROVE  /\ sendDatagrams' > 0 /\ sendPaceClass' = f.class
                      /\ sendN = 0 \/ sendPaceClass = f.class
    OBVIOUS
  <2>1. sendN = 0 <=> sendDatagrams = 0
    BY DEF BatchInv
  <2>2. sendN = 0 \/ sendPaceClass = f.class
    BY <1>0, <2>1 DEF HasSlot, mustFlush, splitPacingClass, StepInv
  <2>3. /\ sendDatagrams' = sendDatagrams + 1
        /\ sendPaceClass' = IF sendDatagrams = 0 \/ f.class > sendPaceClass
                              THEN f.class ELSE sendPaceClass
    BY Zenon, <1>2 DEF accountDatagram
  <2>4. ~(f.class > f.class)
    BY DEF Frames
  <2> QED
    BY <1>0, <2>1, <2>2, <2>3, <2>4
<1>6. /\ IsFiniteSet(ss) /\ Shorts(ss) = {} /\ Cardinality(ss) < mode.gsoMaxFrames
      /\ mode.paced => \A s \in ss : s.class = f.class
  <2>1. CASE ss = {}
    <3>1. IsFiniteSet({}) /\ Cardinality({}) = 0
      BY FS_EmptySet
    <3> QED
      BY SMTT(30), <1>0, <2>1, <3>1 DEF Shorts
  <2>2. CASE i = sendN /\ packOpen /\ ss = slots[set][sendN]
    <3>1. sendN \in 1..sendN /\ sendN # 0
      BY <1>0, <2>2
    <3>2. SlotGood(sendN)
      BY <3>1, WellFormed DEF BatchInv
    <3>3. /\ IsFiniteSet(ss) /\ Cardinality(ss) < mode.gsoMaxFrames
          /\ Cardinality(Shorts(ss)) <= 0
      BY <2>2, <3>1, <3>2 DEF BatchInv, SlotGood
    <3>4. IsFiniteSet(Shorts(ss)) /\ Cardinality(Shorts(ss)) \in Nat
      <4>1. Shorts(ss) \in SUBSET ss
        BY DEF Shorts
      <4> QED
        BY <3>3, <4>1, FS_Subset, FS_CardinalityType
    <3>5. Shorts(ss) = {}
      <4>1. Cardinality(Shorts(ss)) = 0
        BY <3>3, <3>4
      <4> QED
        BY <3>4, <4>1, FS_EmptySet
    <3>6. mode.paced => \A s \in ss : s.class = f.class
      BY <1>5, <2>2, <3>1, <3>2 DEF SlotGood
    <3> QED
      BY <3>3, <3>5, <3>6
  <2> QED
    BY <1>2, <2>1, <2>2
<1>7. /\ IsFiniteSet(ss \cup {x}) /\ Cardinality(ss \cup {x}) \in Nat
      /\ Cardinality(ss \cup {x}) <= mode.gsoMaxFrames
      /\ Cardinality(ss) \in Nat
  <2>1. /\ IsFiniteSet(ss \cup {x}) /\ Cardinality(ss) \in Nat
        /\ Cardinality(ss \cup {x}) = IF x \in ss THEN Cardinality(ss) ELSE Cardinality(ss) + 1
    BY <1>6, FS_AddElement, FS_CardinalityType
  <2> QED
    BY SMTT(30), <1>0, <1>6, <2>1
<1>8. /\ Cardinality(Shorts(ss \cup {x})) <= 1
      /\ f.key \notin Short => Cardinality(Shorts(ss \cup {x})) <= 0
  BY <1>3, <1>6, AddedShorts
<1>9. packOpen' => Cardinality(slots'[set][sendN']) < mode.gsoMaxFrames
  <2>1. packOpen' => ~(Cardinality(ss \cup {x}) >= mode.gsoMaxFrames)
    BY Zenon, <1>2 DEF x
  <2>2. slots'[set][sendN'] = ss \cup {x}
    BY Zenon, <1>2, <1>4
  <2> QED
    BY SMTT(30), <1>0, <1>7, <2>1, <2>2
<1>10. SlotGood(i)'
  <2>1. mode.paced => \A s \in ss \cup {x} : s.class = sendPaceClass'
    BY <1>3, <1>5, <1>6
  <2>2. packOpen' => f.key \notin Short
    BY <1>2
  <2> QED
    BY Zenon, <1>2, <1>4, <1>7, <1>8, <2>1, <2>2 DEF SlotGood, Shorts
<1>11. ASSUME NEW j \in 1..sendN', j # i
       PROVE  SlotGood(j)' /\ IsFiniteSet(slots'[set'][j])
  <2>1. j \in 1..sendN /\ sendN # 0 /\ slots'[set][j] = slots[set][j]
    BY SMTT(30), <1>0, <1>2, <1>4, <1>11
  <2>2. SlotGood(j) /\ IsFiniteSet(slots[set][j])
    BY <2>1, WellFormed DEF BatchInv
  <2>3. Shorts(slots'[set][j]) = Shorts(slots[set][j])
    BY <2>1
  <2>4. mode.paced => \A s \in slots[set][j] : s.class = sendPaceClass'
    BY <1>5, <2>1, <2>2 DEF SlotGood
  <2>5. Cardinality(Shorts(slots[set][j])) <= 1
    <3>1. Shorts(slots[set][j]) \in SUBSET slots[set][j]
      BY DEF Shorts
    <3>2. Cardinality(Shorts(slots[set][j])) \in Nat
      BY <2>2, <3>1, FS_Subset, FS_CardinalityType
    <3>3. Cardinality(Shorts(slots[set][j])) <= IF packOpen /\ j = sendN THEN 0 ELSE 1
      BY Zenon, <2>2 DEF SlotGood
    <3> QED
      BY SMTT(30), <3>2, <3>3
  <2> QED
    BY Zenon, <1>2, <1>11, <2>1, <2>2, <2>3, <2>4, <2>5 DEF SlotGood, Shorts
<1>12. \A j \in 1..sendN' : SlotGood(j)' /\ IsFiniteSet(slots'[set'][j])
  BY Zenon, <1>2, <1>4, <1>7, <1>10, <1>11
<1>13. BatchWellFormed'
  BY <1>12 DEF BatchWellFormed, SlotGood, Shorts
<1>14. mode.paced => (sendN' = 0 <=> sendDatagrams' = 0)
  BY <1>0, <1>2, <1>5
<1> QED
  BY <1>9, <1>12, <1>13, <1>14 DEF BatchInv

\* A step that leaves the batch's slots alone may only close its pack.
LEMMA BatchKept ==
  ASSUME TypeOK, StepInv, BatchInv,
         UNCHANGED <<mode, set, sendN, sendDatagrams, sendPaceClass>>,
         packOpen' = packOpen \/ packOpen' = FALSE,
         \A i \in 1..sendN : slots'[set][i] = slots[set][i]
  PROVE  BatchInv'
<1>0. sendN \in Nat /\ (packOpen => sendN \in 1..sendN)
  BY SMTT(30) DEF TypeOK, StepInv
<1>1. packOpen' => Cardinality(slots'[set'][sendN']) < mode'.gsoMaxFrames
  BY Zenon, <1>0 DEF BatchInv
<1>2. ASSUME NEW i \in 1..sendN
      PROVE  SlotGood(i)' /\ IsFiniteSet(slots'[set'][i])
  <2>1. SlotGood(i) /\ IsFiniteSet(slots[set][i])
    BY WellFormed DEF BatchInv
  <2>2. Cardinality(Shorts(slots[set][i])) \in Nat
    <3>1. Shorts(slots[set][i]) \in SUBSET slots[set][i]
      BY DEF Shorts
    <3> QED
      BY <2>1, <3>1, FS_Subset, FS_CardinalityType
  <2>3. Cardinality(Shorts(slots[set][i])) <= IF packOpen /\ i = sendN THEN 0 ELSE 1
    BY Zenon, <2>1 DEF SlotGood
  <2>4. Cardinality(Shorts(slots[set][i])) <= IF packOpen' /\ i = sendN THEN 0 ELSE 1
    BY SMTT(30), <2>2, <2>3
  <2> QED
    BY Zenon, <2>1, <2>4 DEF SlotGood, Shorts
<1>3. BatchWellFormed'
  BY Zenon, <1>2 DEF BatchWellFormed, SlotGood, Shorts
<1> QED
  BY Zenon, <1>1, <1>2, <1>3 DEF BatchInv

\* After resetBatch there is no slot to speak of.
LEMMA BatchEmptied ==
  ASSUME sendN' = 0, sendDatagrams' = 0, ~packOpen'
  PROVE  BatchInv'
<1>1. 1..0 = {}
  OBVIOUS
<1> QED
  BY Zenon, <1>1 DEF BatchInv, BatchWellFormed

\* The same for a frame on its way through acquireSendSlot.
LEMMA AcquireBatch ==
  ASSUME TypeOK, StepInv, BatchInv, NEW f \in Frames, acquireSendSlot(f)
  PROVE  BatchInv'
<1>1. mode' = mode
  BY Zenon, AcquireLeaves DEF envVars
<1>2. CASE mustFlush(f)
  <2>1. packOpen' = FALSE /\ UNCHANGED <<slots, set, sendN, sendDatagrams, sendPaceClass>>
    BY Zenon, <1>2 DEF acquireSendSlot
  <2> QED
    BY Zenon, <1>1, <2>1, BatchKept
<1>3. CASE ~mustFlush(f)
  <2>1. Put(f) /\ HasSlot(f) /\ set' = set
    BY Zenon, <1>3 DEF acquireSendSlot, HasSlot
  <2> QED
    BY Zenon, <1>1, <2>1, PutBatch
<1> QED
  BY <1>2, <1>3

\* No step mixes pacing classes in the batch, overfills a pack or adds to one
\* after a short frame.
LEMMA BatchInvStep ==
  ASSUME TypeOK, StepInv, BytesInv, BatchInv, [Next]_vars
  PROVE  BatchInv'
<1> USE DEF retransmitVars, arenaVars, queueVars, writerVars, sendVars, batchVars,
            resendVars, closeVars, envVars, peerVars
<1>a. CASE /\ UNCHANGED <<mode, slots, set, sendN, sendDatagrams, sendPaceClass>>
           /\ packOpen' = packOpen \/ packOpen' = FALSE
  BY Zenon, <1>a, BatchKept
<1>1. CASE Queue
  BY Zenon, <1>1, <1>a DEF Queue, add, Ack, purgeStream, removeLocked, requestForResend
<1>2. ASSUME NEW k \in Keys, sendFrame(k) PROVE BatchInv'
  <2>1. PICK f \in Frames : acquireSendSlot(f)
    BY Zenon, <1>2, FrameTypes DEF sendFrame
  <2> QED
    BY Zenon, <2>1, AcquireBatch
<1>3. CASE sendControlFrame \/ CloseGoAway
  <2>1. PICK f \in Frames : acquireSendSlot(f)
    BY Zenon, <1>3, FrameTypes DEF sendControlFrame, CloseGoAway
  <2> QED
    BY Zenon, <2>1, AcquireBatch
<1>4. CASE queueResendCopy
  <2>1. PICK f \in Frames : acquireSendSlot(f)
    BY Zenon, <1>4, FrameTypes DEF queueResendCopy, BytesInv
  <2> QED
    BY Zenon, <2>1, AcquireBatch
<1>5. CASE Place
  <2>1. PICK f \in next : Put(f)
    BY Zenon, <1>5 DEF Place
  <2>2. f \in Frames
    BY Zenon, <2>1 DEF TypeOK
  <2>3. HasSlot(f) /\ UNCHANGED <<mode, set>>
    BY Zenon, <1>5 DEF Place, HasSlot
  <2> QED
    BY Zenon, <2>1, <2>2, <2>3, PutBatch
<1>6. CASE flushSend \/ flushChecked \/ drainPendingFree \/ waitGen \/ takeMark
  BY Zenon, <1>6, <1>a DEF flushSend, flushChecked, drainPendingFree, waitGen, takeMark
<1>7. CASE flushFails \/ sendMMsg \/ submitSendmsg
  <2>1. /\ sendMu = "flush" \/ sendMu = "send"
        /\ sendN' = 0 /\ sendDatagrams' = 0 /\ packOpen' = packOpen
    BY Zenon, <1>7 DEF flushFails, sendMMsg, submitSendmsg, resetBatch
  <2>2. ~packOpen'
    BY <2>1 DEF StepInv
  <2> QED
    BY Zenon, <2>1, <2>2, BatchEmptied
<1>8. ASSUME NEW op \in inflight, kernelSends(op) PROVE BatchInv'
  <2>1. /\ UNCHANGED <<mode, set, sendN, sendDatagrams, sendPaceClass, packOpen>>
        /\ slots' = [slots EXCEPT ![op[1]][op[2]] = {}]
    BY Zenon, <1>8 DEF kernelSends
  <2>2. sendN = 0 \/ op[1] # set
    BY DEF StepInv, genDone
  <2>3. set \in {0, 1} /\ op[1] \in {0, 1} /\ slots \in [{0, 1} -> [1..mode.batchSize -> SUBSET InSlots]]
    BY DEF TypeOK
  <2>4. \A i \in 1..sendN : slots'[set][i] = slots[set][i]
    BY <2>1, <2>2, <2>3
  <2> QED
    BY Zenon, <2>1, <2>4, BatchKept
<1>9. CASE (\E k \in resendQueue : popResend(k)) \/ takeForResend \/ releaseResendCopy
  BY Zenon, <1>9, <1>a DEF popResend, takeForResend, releaseResendCopy
<1>10. CASE CloseBegin \/ CloseFlush \/ CloseDrain \/ CloseShutdown \/ CloseRelease
  BY Zenon, <1>10, <1>a DEF CloseBegin, CloseFlush, CloseDrain, CloseShutdown, CloseRelease
<1>11. CASE (\E d \in wire : Receive(d)) \/ UNCHANGED vars
  BY Zenon, <1>11, <1>a DEF Receive, vars
<1> QED
  BY Zenon, <1>1, <1>2, <1>3, <1>4, <1>5, <1>6, <1>7, <1>8, <1>9, <1>10, <1>11
     DEF Next, Flush, Resend, Close

\* With pacing on, the batch being built is of one pacing class; a GSO message
\* never has more than gsoMaxFrames frames and only its last one is short.
THEOREM BatchesWellFormed == Spec => []BatchWellFormed
<1>1. Init => BatchInv
  <2>1. 1..0 = {}
    OBVIOUS
  <2> QED
    BY Zenon, <2>1 DEF Init, BatchInv, BatchWellFormed
<1>2. PipelineInv /\ BatchInv /\ [Next]_vars => BatchInv'
  BY BatchInvStep DEF PipelineInv
<1>3. BatchInv => BatchWellFormed
  BY DEF BatchInv
<1> QED
  BY PipelineInvariant, <1>1, <1>2, <1>3, PTL DEF Spec
===============================================================================
