----------------------------- MODULE SendPipeline -----------------------------
(***************************************************************************)
(* How one connection puts frames on the wire: the retransmit queue and    *)
(* its arena of payload buffers, the send batch (slots that refer to arena *)
(* buffers or hold a copy, GSO packs, pacing classes), flushSendLocked     *)
(* over sendmmsg or over io_uring with its two slot sets, the worker that  *)
(* resends, and Close as far as the socket and the ring are concerned.     *)
(*                                                                         *)
(* A payload is the key of its frame, so that a buffer recycled under a    *)
(* slot shows as a datagram whose bytes are not its own.  The path may     *)
(* lose, delay, reorder and repeat what it was given.  A slot is emptied   *)
(* in the model when its content can no longer matter.                     *)
(***************************************************************************)
EXTENDS Integers, FiniteSets

CONSTANTS
  Data,       \* DATA frames, each of a stream of its own
  Reliable,   \* FIN and RESET frames
  Short,      \* the DATA frames that do not fill a segment
  Bufs,       \* bound: the buffers the arena grows to
  Burst,      \* the pacer's burst quantum, in frames
  Modes,      \* how a connection is configured, and what happens to it
  Ctl,        \* any control frame; it is copied into its slot
  None

ASSUME PipelineAssumption ==
  /\ Short \subseteq Data
  /\ Data \cap Reliable = {}
  /\ Ctl \notin Data \cup Reliable
  /\ None \notin Data \cup Reliable \cup Bufs \cup {Ctl}
  /\ Burst \in Nat \ {0}
  /\ Modes \subseteq [uring : BOOLEAN, gsoMaxFrames : Nat \ {0}, paced : BOOLEAN,
                      batchSize : Nat \ {0}, frames : SUBSET (Data \cup Reliable),
                      uses : SUBSET {"control", "resend", "purge", "close"}]

VARIABLES
  mode,
  \* the retransmit queue and the arena, guarded by q.mu
  free,         \* arena.free
  old, new,     \* pendingFree below and above uringMark
  bytes,        \* what each buffer holds
  entry,        \* the buffer of each frame in q.entries
  queued,       \* the entries with queued set
  \* writers: sendDataFrame and sendReliableFrame
  unsent,       \* frames not yet passed to add
  data,         \* what add returned, until sendMu is taken
  \* the batch, guarded by sendMu
  sendMu,       \* where the holder of sendMu is
  next,         \* the frame acquireSendSlot was called for, while it flushes
  slots, set,   \* sendEPs and uringSet
  sendN,
  packOpen,     \* packIdx >= 0; the pack is the last slot
  sendDatagrams, sendPaceClass,
  inflight,     \* submitted operations that have not completed
  \* the resend worker
  resendQueue,  \* requests on their way to the worker or queued for it
  worker,
  \* Close
  closed, shutdown, closeStep,
  \* the path and the peer
  wire,         \* every datagram the socket was given
  first         \* the bytes of the first copy of each frame to arrive

Keys == Data \cup Reliable

arenaVars == <<free, old, new, bytes>>
queueVars == <<entry, queued>>
writerVars == <<unsent, data>>
batchVars == <<slots, set, sendN, packOpen, sendDatagrams, sendPaceClass>>
resendVars == <<resendQueue, worker>>
closeVars == <<closed, shutdown, closeStep>>
peerVars == <<wire, first>>
retransmitVars == <<arenaVars, queueVars>>
sendVars == <<sendMu, next, batchVars, inflight>>
envVars == <<mode, peerVars>>
vars == <<retransmitVars, writerVars, sendVars, resendVars, closeVars, envVars>>

\* paceClass, the most privileged first.
paceCritical == 0
paceRecovery == 1
paceBulk == 2

\* A frame on its way into a slot: by reference to buf, or copied from buf.
Frame(k, class, b, zero) == [key |-> k, class |-> class, buf |-> b, zero |-> zero]

\* What a slot holds of a frame: a pointer or the bytes themselves.
InSlot(f) ==
  [key |-> f.key, class |-> f.class,
   buf |-> IF f.zero THEN f.buf ELSE None,
   copy |-> IF f.zero \/ f.buf = None THEN f.key ELSE bytes[f.buf]]

Datagram(s) == [key |-> s.key, bytes |-> IF s.buf = None THEN s.copy ELSE bytes[s.buf]]

-------------------------------------------------------------------------------
(* The retransmit queue.                                                   *)

\* add: a buffer, a copy of the payload and an entry, all under q.mu.
add(k) ==
  /\ k \in unsent
  /\ \E b \in free :
       /\ free' = free \ {b}
       /\ bytes' = [bytes EXCEPT ![b] = k]
       /\ entry' = [entry EXCEPT ![k] = b]
       /\ data' = [data EXCEPT ![k] = b]
  /\ unsent' = unsent \ {k}
  /\ UNCHANGED <<envVars, old, new, queued, sendVars, resendVars, closeVars>>

\* Mutant: the buffer goes straight back to the arena.
removeToArena(k) ==
  /\ entry[k] # None
  /\ free' = free \cup {entry[k]}
  /\ entry' = [entry EXCEPT ![k] = None]
  /\ queued' = queued \ {k}
  /\ UNCHANGED <<old, new, bytes>>

removeLocked(k) ==
  /\ entry[k] # None
  /\ new' = new \cup {entry[k]}
  /\ entry' = [entry EXCEPT ![k] = None]
  /\ queued' = queued \ {k}
  /\ UNCHANGED <<free, old, bytes>>

\* ackOne, ackMany and ackCumulative, for a frame the peer has.
Ack(k) ==
  /\ first[k] # None
  /\ removeLocked(k)
  /\ UNCHANGED <<envVars, writerVars, sendVars, resendVars, closeVars>>

\* purgeStream.  abortWriteLocked waits for writeMu, which Write holds until
\* its frame is in a slot; a FIN or RESET the collector may purge any time.
purgeStream(k) ==
  /\ "purge" \in mode.uses
  /\ k \in Data => data[k] = None /\ \A f \in next : f.key # k
  /\ removeLocked(k)
  /\ UNCHANGED <<envVars, writerVars, sendVars, resendVars, closeVars>>

\* requestForResend for a NACK, due for the timer (any entry may be old
\* enough), and enqueueResends.
requestForResend(k) ==
  /\ "resend" \in mode.uses
  /\ entry[k] # None
  /\ k \notin queued
  /\ closeStep # "done"
  /\ queued' = queued \cup {k}
  /\ resendQueue' = resendQueue \cup {k}
  /\ UNCHANGED <<envVars, arenaVars, entry, writerVars, sendVars, worker,
                 closeVars>>

-------------------------------------------------------------------------------
(* The batch.                                                              *)

pacingBatchFull(n) == mode.paced /\ n >= Burst

\* Mutant: only the size of the batch matters.
splitNever(class) == FALSE

\* splitPacingClassLocked: a batch of another class is flushed first.
splitPacingClass(class) ==
  mode.paced /\ sendDatagrams > 0 /\ sendPaceClass # class

accountDatagram(class) ==
  IF mode.paced
    THEN /\ sendDatagrams' = sendDatagrams + 1
         /\ sendPaceClass' = IF sendDatagrams = 0 \/ class > sendPaceClass
                               THEN class ELSE sendPaceClass
    ELSE UNCHANGED <<sendDatagrams, sendPaceClass>>

inPack(f) == mode.gsoMaxFrames >= 2 /\ f.key \in Data /\ f.zero

\* Whether the frame has to wait for a flush before it gets a slot.
mustFlush(f) ==
  \/ splitPacingClass(f.class)
  \/ sendN >= mode.batchSize /\ ~(inPack(f) /\ packOpen)

\* commitSendSlot and commitSendSlotZeroCopy.
commitSendSlot(f) ==
  /\ slots' = [slots EXCEPT ![set][sendN + 1] = {InSlot(f)}]
  /\ sendN' = sendN + 1
  /\ packOpen' = FALSE
  /\ accountDatagram(f.class)
  /\ sendMu' = IF sendN' >= mode.batchSize \/ pacingBatchFull(sendDatagrams')
                 THEN "flush" ELSE "free"

\* A pack is closed when it is full or by a short frame.
packEnds(f, n) == n >= mode.gsoMaxFrames \/ f.key \in Short

queueFrameGSO(f) ==
  LET i == IF packOpen THEN sendN ELSE sendN + 1
      pack == IF packOpen THEN slots[set][i] \cup {InSlot(f)} ELSE {InSlot(f)}
      ends == packEnds(f, Cardinality(pack)) \/ pacingBatchFull(sendDatagrams')
  IN  /\ slots' = [slots EXCEPT ![set][i] = pack]
      /\ sendN' = i
      /\ accountDatagram(f.class)
      /\ packOpen' = ~ends
      /\ sendMu' = IF ends /\ (i >= mode.batchSize \/ pacingBatchFull(sendDatagrams'))
                     THEN "flush" ELSE "free"

Put(f) == IF inPack(f) THEN queueFrameGSO(f) ELSE commitSendSlot(f)

\* sendMu is taken for a frame: it gets a slot, or the batch goes first.
acquireSendSlot(f) ==
  /\ sendMu = "free"
  /\ IF mustFlush(f)
       THEN /\ next' = {f}
            /\ packOpen' = FALSE
            /\ sendMu' = "flush"
            /\ UNCHANGED <<slots, set, sendN, sendDatagrams, sendPaceClass>>
       ELSE Put(f) /\ UNCHANGED <<next, set>>
  /\ UNCHANGED <<envVars, retransmitVars, inflight, closed, shutdown>>

\* The rest of acquireSendSlot once its flush is through.
Place ==
  /\ sendMu = "place"
  /\ \E f \in next : Put(f)
  /\ next' = {}
  /\ UNCHANGED <<envVars, retransmitVars, writerVars, set, inflight, resendVars,
                 closeVars>>

\* sendDataFrame or sendReliableFrame after add.
sendFrame(k) ==
  /\ data[k] # None
  /\ acquireSendSlot(Frame(k, IF k \in Data THEN paceBulk ELSE paceCritical,
                           data[k], TRUE))
  /\ data' = [data EXCEPT ![k] = None]
  /\ UNCHANGED <<unsent, resendVars, closeStep>>

\* queueACKFrame, queueWindowUpdate, sendControlFrame and their like.
sendControlFrame ==
  /\ "control" \in mode.uses
  /\ acquireSendSlot(Frame(Ctl, paceCritical, None, FALSE))
  /\ UNCHANGED <<writerVars, resendVars, closeStep>>

-------------------------------------------------------------------------------
(* flushSendLocked.                                                        *)

resetBatch ==
  /\ sendN' = 0
  /\ sendDatagrams' = 0
  /\ sendPaceClass' = paceBulk

Emptied == [i \in 1..mode.batchSize |-> {}]

\* flushSend, at the end of Write, sendReliableFrame, serviceResends, ...
flushSend ==
  /\ sendMu = "free"
  /\ sendN > 0
  /\ sendMu' = "flush"
  /\ packOpen' = FALSE
  /\ UNCHANGED <<envVars, retransmitVars, writerVars, next, slots, set, sendN,
                 sendDatagrams, sendPaceClass, inflight, resendVars, closeVars>>

\* The socket is shut down, or the pacer's wait is cancelled: the batch and
\* the frame that wanted a slot are dropped.
flushFails ==
  /\ \/ sendMu = "flush" /\ shutdown
     \/ sendMu = "send" /\ mode.paced /\ closed
  /\ resetBatch
  /\ slots' = [slots EXCEPT ![set] = Emptied]
  /\ next' = {}
  /\ sendMu' = "free"
  /\ UNCHANGED <<envVars, retransmitVars, writerVars, set, packOpen, inflight,
                 resendVars, closeVars>>

\* Past the check of IsShutdown; waitBatch may take its time from here.
flushChecked ==
  /\ sendMu = "flush"
  /\ ~shutdown
  /\ sendMu' = "send"
  /\ UNCHANGED <<envVars, retransmitVars, writerVars, next, batchVars, inflight,
                 resendVars, closeVars>>

Ring == mode.uring /\ closeStep # "done"

\* SendMMsgRetry.  The datagrams it fails to send are lost like any others.
sendMMsg ==
  /\ sendMu = "send"
  /\ ~Ring
  /\ wire' = wire \cup {Datagram(s) : s \in UNION {slots[set][i] : i \in 1..sendN}}
  /\ slots' = [slots EXCEPT ![set] = Emptied]
  /\ resetBatch
  /\ sendMu' = "drain"
  /\ UNCHANGED <<retransmitVars, writerVars, next, set, packOpen, inflight,
                 resendVars, closeVars, first, mode>>

\* A flush returns: the caller has its slot, or learns of an error and gives up.
flushReturns ==
  \/ next # {} /\ sendMu' = "place" /\ next' = next
  \/ sendMu' = "free" /\ next' = {}

drainPendingFree ==
  /\ sendMu = "drain"
  /\ free' = free \cup old \cup new
  /\ old' = {}
  /\ new' = {}
  /\ flushReturns
  /\ UNCHANGED <<envVars, bytes, queueVars, writerVars, batchVars, inflight,
                 resendVars, closeVars>>

\* submitSendmsg and the flip to the other slot set.
submitSendmsg ==
  /\ sendMu = "send"
  /\ Ring
  /\ inflight' = inflight \cup {<<set, i>> : i \in 1..sendN}
  /\ set' = 1 - set
  /\ resetBatch
  /\ sendMu' = "wait"
  /\ UNCHANGED <<envVars, retransmitVars, writerVars, next, slots, packOpen,
                 resendVars, closeVars>>

\* The kernel carries out one operation, reading its slot only now.
kernelSends(op) ==
  /\ op \in inflight
  /\ wire' = wire \cup {Datagram(s) : s \in slots[op[1]][op[2]]}
  /\ slots' = [slots EXCEPT ![op[1]][op[2]] = {}]
  /\ inflight' = inflight \ {op}
  /\ UNCHANGED <<retransmitVars, writerVars, sendMu, next, set, sendN, packOpen,
                 sendDatagrams, sendPaceClass, resendVars, closeVars, first,
                 mode>>

\* Mutant: the flip does not wait for the set's previous submission.
genNever(g) == TRUE

\* waitGen returns: no operation of this generation is outstanding.
genDone(g) == \A op \in inflight : op[1] # g

\* drainPendingFreeFirst(uringMark).
drainPendingFreeFirst == free' = free \cup old /\ old' = {} /\ new' = new

waitGen ==
  /\ sendMu = "wait"
  /\ genDone(set)
  /\ drainPendingFreeFirst
  /\ sendMu' = "mark"
  /\ UNCHANGED <<envVars, bytes, queueVars, writerVars, next, batchVars,
                 inflight, resendVars, closeVars>>

\* uringMark = pendingFreeLen(); collectErr.
takeMark ==
  /\ sendMu = "mark"
  /\ old' = old \cup new
  /\ new' = {}
  /\ flushReturns
  /\ UNCHANGED <<envVars, free, bytes, queueVars, writerVars, batchVars,
                 inflight, resendVars, closeVars>>

-------------------------------------------------------------------------------
(* The resend worker.                                                      *)

Idle == [key |-> None, buf |-> None, copied |-> FALSE]

popResend(k) ==
  /\ worker = Idle
  /\ k \in resendQueue
  /\ resendQueue' = resendQueue \ {k}
  /\ worker' = [Idle EXCEPT !.key = k]
  /\ UNCHANGED <<envVars, retransmitVars, writerVars, sendVars, closeVars>>

\* Mutant: the entry stays marked.
takeQueued(k) == queued

takenFrom(k) == queued \ {k}

\* Mutant: the worker keeps the entry's own buffer.
takeByReference ==
  LET k == worker.key
  IN  /\ k # None
      /\ worker.buf = None
      /\ IF k \in queued
           THEN /\ worker' = [key |-> k, buf |-> entry[k], copied |-> FALSE]
                /\ queued' = takenFrom(k)
           ELSE worker' = Idle /\ UNCHANGED queued
      /\ UNCHANGED <<envVars, arenaVars, entry, writerVars, sendVars,
                     resendQueue, closeVars>>

\* peekForResend and takeForResend: a copy of the payload if the entry still
\* is there, nothing otherwise.
takeForResend ==
  LET k == worker.key
  IN  /\ k # None
      /\ worker.buf = None
      /\ IF k \in queued
           THEN /\ \E b \in free :
                     /\ free' = free \ {b}
                     /\ bytes' = [bytes EXCEPT ![b] = bytes[entry[k]]]
                     /\ worker' = [key |-> k, buf |-> b, copied |-> FALSE]
                /\ queued' = takenFrom(k)
           ELSE worker' = Idle /\ UNCHANGED <<free, bytes, queued>>
      /\ UNCHANGED <<envVars, old, new, entry, writerVars, sendVars,
                     resendQueue, closeVars>>

\* "Stubborn" frames are queued twice; here any may be, any number of times.
queueResendCopy ==
  /\ worker.buf # None
  /\ acquireSendSlot(Frame(worker.key, paceRecovery, worker.buf, FALSE))
  /\ worker' = [worker EXCEPT !.copied = TRUE]
  /\ UNCHANGED <<writerVars, resendQueue, closeStep>>

\* The copies are queued, or one failed.
releaseResendCopy ==
  /\ worker.buf # None
  /\ worker.copied
  /\ \A f \in next : f.buf # worker.buf
  /\ free' = free \cup {worker.buf}
  /\ worker' = Idle
  /\ UNCHANGED <<envVars, old, new, bytes, queueVars, writerVars, sendVars,
                 resendQueue, closeVars>>

-------------------------------------------------------------------------------
(* Close.                                                                  *)

\* The transition and closeCh.
CloseBegin ==
  /\ "close" \in mode.uses
  /\ ~closed
  /\ closed' = TRUE
  /\ closeStep' = "goaway"
  /\ UNCHANGED <<envVars, retransmitVars, writerVars, sendVars, resendVars,
                 shutdown>>

CloseGoAway ==
  /\ closeStep = "goaway"
  /\ acquireSendSlot(Frame(Ctl, paceCritical, None, FALSE))
  /\ closeStep' = "flush"
  /\ UNCHANGED <<writerVars, resendVars>>

CloseFlush ==
  /\ closeStep = "flush"
  /\ sendMu = "free"
  /\ sendMu' = IF sendN > 0 THEN "flush" ELSE "free"
  /\ packOpen' = FALSE
  /\ closeStep' = "drain"
  /\ UNCHANGED <<envVars, retransmitVars, writerVars, next, slots, set, sendN,
                 sendDatagrams, sendPaceClass, inflight, resendVars, closed,
                 shutdown>>

\* Both generations are waited for under sendMu.
CloseDrain ==
  /\ closeStep = "drain"
  /\ sendMu = "free"
  /\ inflight = {}
  /\ closeStep' = "shutdown"
  /\ UNCHANGED <<envVars, retransmitVars, writerVars, sendVars, resendVars,
                 closed, shutdown>>

CloseShutdown ==
  /\ closeStep = "shutdown"
  /\ shutdown' = TRUE
  /\ closeStep' = "wait"
  /\ UNCHANGED <<envVars, retransmitVars, writerVars, sendVars, resendVars,
                 closed>>

\* Mutant: without a ring there is nothing to lock sendMu for.
lockedForRing == mode.uring => sendMu = "free"

lockedForClose == sendMu = "free"

\* doneWg.Wait: the loops have returned.  Then the ring and the file
\* descriptor are released.
CloseRelease ==
  /\ closeStep = "wait"
  /\ worker = Idle /\ resendQueue = {}
  /\ lockedForClose
  /\ inflight = {}
  /\ closeStep' = "done"
  /\ UNCHANGED <<envVars, retransmitVars, writerVars, sendVars, resendVars,
                 closed, shutdown>>

-------------------------------------------------------------------------------
(* The peer.                                                               *)

Receive(d) ==
  /\ d \in wire
  /\ d.key \in Keys
  /\ first[d.key] = None
  /\ first' = [first EXCEPT ![d.key] = d.bytes]
  /\ UNCHANGED <<retransmitVars, writerVars, sendVars, resendVars, closeVars,
                 wire, mode>>

-------------------------------------------------------------------------------
Init ==
  /\ mode \in Modes
  /\ free = Bufs
  /\ old = {}
  /\ new = {}
  /\ bytes = [b \in Bufs |-> None]
  /\ entry = [k \in Keys |-> None]
  /\ queued = {}
  /\ unsent = mode.frames
  /\ data = [k \in Keys |-> None]
  /\ sendMu = "free"
  /\ next = {}
  /\ slots = [g \in {0, 1} |-> Emptied]
  /\ set = 0
  /\ sendN = 0
  /\ packOpen = FALSE
  /\ sendDatagrams = 0
  /\ sendPaceClass = paceBulk
  /\ inflight = {}
  /\ resendQueue = {}
  /\ worker = Idle
  /\ closed = FALSE
  /\ shutdown = FALSE
  /\ closeStep = "open"
  /\ wire = {}
  /\ first = [k \in Keys |-> None]

Flush ==
  \/ flushSend \/ flushFails \/ flushChecked
  \/ sendMMsg \/ drainPendingFree
  \/ submitSendmsg \/ waitGen \/ takeMark
  \/ \E op \in inflight : kernelSends(op)

Queue ==
  \E k \in Keys : add(k) \/ Ack(k) \/ purgeStream(k) \/ requestForResend(k)

Resend ==
  \/ \E k \in resendQueue : popResend(k)
  \/ takeForResend \/ queueResendCopy \/ releaseResendCopy

Close ==
  \/ CloseBegin \/ CloseGoAway \/ CloseFlush \/ CloseDrain \/ CloseShutdown
  \/ CloseRelease

Next ==
  \/ Queue
  \/ \E k \in Keys : sendFrame(k)
  \/ sendControlFrame
  \/ Place
  \/ Flush
  \/ Resend
  \/ Close
  \/ \E d \in wire : Receive(d)

Spec == Init /\ [][Next]_vars

-------------------------------------------------------------------------------
(* Properties.                                                             *)

Frames ==
  [key : Keys \cup {Ctl}, class : 0..2, buf : Bufs \cup {None}, zero : BOOLEAN]

InSlots ==
  [key : Keys \cup {Ctl}, class : 0..2, buf : Bufs \cup {None},
   copy : Keys \cup {Ctl, None}]

\* Every variable has its type; a batch never exceeds its slots.
TypeOK ==
  /\ mode \in Modes
  /\ free \subseteq Bufs /\ old \subseteq Bufs /\ new \subseteq Bufs
  /\ bytes \in [Bufs -> Keys \cup {None}]
  /\ entry \in [Keys -> Bufs \cup {None}]
  /\ queued \subseteq Keys
  /\ unsent \subseteq Keys
  /\ data \in [Keys -> Bufs \cup {None}]
  /\ sendMu \in {"free", "flush", "send", "drain", "wait", "mark", "place"}
  /\ next \subseteq Frames
  /\ slots \in [{0, 1} -> [1..mode.batchSize -> SUBSET InSlots]]
  /\ set \in {0, 1}
  /\ sendN \in 0..mode.batchSize
  /\ packOpen \in BOOLEAN
  /\ sendDatagrams \in Nat
  /\ sendPaceClass \in 0..2
  /\ inflight \subseteq {0, 1} \X (1..mode.batchSize)
  /\ resendQueue \subseteq Keys
  /\ worker \in [key : Keys \cup {None}, buf : Bufs \cup {None}, copied : BOOLEAN]
  /\ closed \in BOOLEAN /\ shutdown \in BOOLEAN
  /\ closeStep \in {"open", "goaway", "flush", "drain", "shutdown", "wait", "done"}
  /\ wire \subseteq [key : Keys \cup {Ctl}, bytes : Keys \cup {Ctl, None}]
  /\ first \in [Keys -> Keys \cup {Ctl, None}]

\* The first copy of a DATA frame to arrive carries the frame's own bytes,
\* although slots and operations in flight refer to arena buffers that ACKs
\* free and other frames reuse (commitSendSlotZeroCopy, drainPendingFree).
DataIntact == \A k \in Data : first[k] \in {None, k}

\* A buffer of the arena has one owner: it is free, waits in pendingFree,
\* belongs to one entry, or holds the worker's copy.
OneOwner ==
  LET Of(k) == {entry[k]} \ {None}
      Copy == {worker.buf} \ {None}
  IN  /\ free \cap (old \cup new) = {} /\ old \cap new = {}
      /\ Copy \cap (free \cup old \cup new) = {}
      /\ \A k \in Keys : Of(k) \cap (free \cup old \cup new \cup Copy) = {}
      /\ \A k, l \in Keys : k # l => Of(k) \cap Of(l) = {}

\* An entry marked queued has its request somewhere on the way to the worker:
\* otherwise due and requestForResend skip it and it is never sent again.
RequestKept == queued \subseteq resendQueue \cup {worker.key}

\* "The msghdrs, their iovecs, and everything the iovecs point at must stay
\* untouched until the completions are reaped" (submitSendmsg), except the
\* payload of a frame the peer already has.
SubmittedUntouched ==
  [][\A op \in inflight \cap inflight' :
       /\ slots'[op[1]][op[2]] = slots[op[1]][op[2]]
       /\ \A s \in slots[op[1]][op[2]] :
            s.key \in Data /\ first[s.key] = None => Datagram(s)' = Datagram(s)]_vars

\* The batch being built is of one pacing class (splitPacingClassLocked), and
\* in a GSO message only the last frame is short (queueFrameGSOLocked).
BatchWellFormed ==
  \A i \in 1..sendN :
    LET shorts == {s \in slots[set][i] : s.key \in Short /\ s.buf # None}
    IN  /\ mode.paced => \A s \in slots[set][i] : s.class = sendPaceClass
        /\ Cardinality(slots[set][i]) <= mode.gsoMaxFrames
        /\ Cardinality(shorts) <= IF packOpen /\ i = sendN THEN 0 ELSE 1

\* Once Close has released the file descriptor nothing is sent on it, whatever
\* a writer or the pacer was in the middle of.
NoSendAfterClose == [][closeStep = "done" => wire' = wire]_vars
===============================================================================
