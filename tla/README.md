# Verification of anadromous

anadromous is a reliable stream multiplexer over UDP for Linux, in the manner
of QUIC: every DATA, FIN and RESET frame of a stream has a sequence number and
is resent until acknowledged; ACKs are cumulative plus selective; flow control
uses absolute watermarks that are sent unreliably; payloads live in a recycled
arena and are handed to the kernel by reference.  This directory holds TLA+
models of that code, the TLC runs that check them and TLAPS proofs about them.

## Inventory

| part | state it keeps | operations | hard because | correct when |
|---|---|---|---|---|
| Stream, writing end (`stream.go`) | writeSeq, sentOffset, maxSendOffset, ackedBytes, writeFIN, writeErr | Write, CloseWrite, CancelWrite, setMaxSendOffset, creditAcked, onStopSending | decides under writeMu, sends after unlocking; credit arrives unreliably | never sends past the grant; a FIN is resent until acknowledged; a blocked Write is woken |
| Stream, reading end (`stream.go`) | ring, reorder map, readSeq, FIN position, pending selective ACKs, granted watermark | deliver, Read, CancelRead, deliverReset, ackSnapshot, growth of the ring | frames come late, twice, early, over budget; Read and the receive loop share the drain | bytes in order and once; clean EOF; no ACK for a frame it does not hold |
| Retransmit queue (`retransmit.go`) | entries, send-order list, sweep mark per stream, arena, buffers waiting to be recycled | add, ackMany, ackCumulative, purgeStream, due, requestForResend, takeForResend | four goroutines; buffers are still referenced by unsent batches | no entry stranded; no buffer reused while referenced |
| Send path (`connection.go`, `uring.go`) | batch slots, GSO pack, two slot sets, generations | acquire/commit slot, flush, submit, reap | kernel reads slots after submit returns | a slot is not touched before its completion |
| Stream table (`connection.go`) | streams, tombstones, accept queue, freed signal | OpenStream(Sync), AcceptStream, streamForFrame, gcStreams, removeStream | collector drops locks between steps; late frames | a stream id lives once; nothing owed to the peer is dropped |
| Teardown, keepalive (`connection.go`) | closed, closeCh, wait group | Close, keepAliveLoop, GOAWAY | runs against every other goroutine | Close returns; every stream is released |
| Loss detection (`stream.go`, `connection.go`) | gap clock, last arrival, srtt/rttvar | fast and tail NACK, updateRTO, reorderGrace | timers | no NACK without evidence, no gap without NACK or RTO |
| FEC (`stream.go`) | sender lanes, receiver accumulators, pending parities | fold, emit, applyFec, reconstruct, sweep | parity before members, swept groups, recursion | a reconstructed frame equals the one sent |
| Wire pacer (`pacer.go`) | tokens, waiters per class | waitBatch, refill | shared by connections; debt; priority | bounded excess over the rate; nobody waits for ever |
| Listener and handshake (`listener.go`, `connection.go`) | conns map, accept queue | readLoop, Accept, Close, Dial | publish/close races; lost handshakes | no connection leaks; Dial ends |
| Frame coding, options, socket set-up | none | encode, decode, options | – | – |

The applications call a Stream's methods from any goroutine; each connection
adds a receive loop (all handlers run under recvMu and end a batch with an ACK
flush), a retransmit loop (resend worker, RTO scan, tail NACK, stream
collection) and a keepalive loop; every path that sends meets in the send
batch under sendMu and, if configured, in the shared pacer.

## Modules

| module | what it is |
|---|---|
| `StreamTransfer` | one direction of one stream: both ends, the retransmit queue and the path |
| `BytePipe` | what a direction promises its applications (abstract) |
| `StreamTransferTypes` | proof of the type invariant, and the step facts the other proofs use |
| `StreamTransferInvariant` | the inductive invariant holds initially; preservation of its writer and frame parts |
| `StreamTransferReader` | preservation of its position, delivery, acknowledgement and grant parts |
| `StreamTransferTheorems` | the theorems |
| `MCStreamTransfer` | what the StreamTransfer configurations check |
| `StreamTable` | one end's stream map: open, accept, implicit opens, collection, tombstones, Close |
| `StreamTableTheorems` | its inductive invariant and the theorems |
| `MCStreamTable` | what the StreamTable configurations check |
| `SendPipeline` | retransmit queue and arena, send batch, flush over sendmmsg and io_uring, resend worker, Close |
| `SendPipelineInvariant` | its inductive invariant; preservation of the parts about types, buffers, the wire, sendMu and waiting frames |
| `SendPipelineTheorems` | preservation of the part about slots; the invariants of requests and of the batch; the theorems |
| `MCSendPipeline` | the modes TLC checks |
| `ForwardErrorCorrection` | parity lanes of a stream's writer, reconstruction at its reader |
| `MCForwardErrorCorrection` | the plans TLC checks |
| `ConnectionLifecycle` | Listener, handshake, workers and keepalive of connections, both Close calls |
| `ConnectionLifecycleTheorems` | its inductive invariant and the theorems |
| `MCConnectionLifecycle` | the instance TLC checks |

### StreamTransfer

Each critical section of the code is one action.  `Write`, `Read`, `CancelRead`
are the API calls; `CloseWrite`/`SendFin` and `AbortWrite`/`SendReset` are the
two sections of CloseWrite and abortWriteLocked (decide under writeMu, send
after the unlock); `RecvAck`/`CreditAcked` the two of handleACK (queue, then
writeMu).  The arms of deliverLocked are `RecvDiscarded`, `RecvFin`,
`RecvDuplicate`, `RecvOutOfOrder`, `RecvInOrder`, `RecvRefused`; the drain, the
growth of the ring, the grants and maybeEOFLocked are part of the action that
runs them.  `FlushAcks` is the end of a receive batch.  A payload is the
interval of the byte stream it carries, so the model tells bytes apart by
offset and no content is needed.

Abstractions, all of them towards more behaviours unless said otherwise:

* which outstanding frame is resent, and when, is free (`Resend`): RTO, NACK
  and doubled resends differ only in when they fire;
* the path is a set of datagrams; it may drop the kinds in `Lossy`, deliver any
  of them in any order and, with `Duplicates`, again and again.  At most
  `PathCap` droppable datagrams are in flight: beyond that an older one is
  dropped, which is a loss the path allows anyway;
* a batch that is queued but not flushed is a datagram not yet delivered;
* the several ACK frames of one long snapshot are one frame;
* STOP_SENDING is sent in the same step in which CancelRead takes readMu;
* FEC is off (`fecGroup = 0`; it has a module of its own); deadlines and the
  early return of Write on a socket error are left out (the latter is in
  ForwardErrorCorrection);
* `GrantDiscarded` stops counting once the watermark is beyond all the
  application will write; watermarks past that point are not told apart.

### BytePipe

The reader gets the writer's chunks in order and once; EOF only after the
writer finished and all of them arrived; a reset only if one side asked for
it.  `StreamTransfer!PipeSpec` is BytePipe under the mapping sent = chunks,
got = delivered, taken = consumed, rstate = readErr.

### StreamTable

One end of a connection, with the locks that matter: `RecvMuFree` (recvMu, held
by a handler that is in the middle of abortWriteLocked) and `StreamMuFree`
(streamMu, read-locked by the collector's scan).  gcStreams is `GcStart`,
`GcCheck` for each stream, and removeStream's four steps `GcRemove`, `GcPurge`,
`GcBury`, `GcSignal`; Close is `CloseBegin`, `CloseFence`, `deliverClose` for each
stream and `CloseReturn`.  CloseWrite and CancelWrite leave a `pending` call
between the unlock of writeMu and the FIN or RESET.  A stream object is named by
its id; a new object under an old id starts afresh, while calls on the old one
still purge and send under the id, as in the code.

A direction carries at most one DATA frame.  The path delivers what the peer
sent late, repeatedly or never, with no limit on how late: a frame is resent
for as long as its ACK does not arrive and the connection lives.  The peer sends
the whole of one of the plan's scripts.  `Expire` is the end of a sweep, which
deletes tombstones by age alone; how old one is by then is free.  Contexts and
deadlines are left out.

`plan`, chosen in Init, says which calls the application makes, how many callers
block in OpenStreamSync, which scripts the peer plays, and bounds how often one
id is put into the table (`lives`).

### SendPipeline

One action per critical section of q.mu and of sendMu; a flush, during which
sendMu stays held while other goroutines ACK, purge and request resends, is a
chain of actions (`flushSend`, `sendMMsg` or `submitSendmsg`, `drainPendingFree`,
`waitGen`, `takeMark`) steered by `sendMu`.  A buffer's content is the key of the
frame whose payload was copied into it, so a buffer recycled too early shows as
a datagram with another frame's bytes.  `sendFrame` has the two steps of
sendDataFrame and sendReliableFrame (add under q.mu, then a slot under sendMu),
because that gap is where an entry can come and go.  `kernelSends` reads the slot
and the arena at any time between submission and completion.  Pacing is its
classes, the burst quantum in frames, and a wait that Close cancels.  `mode`,
chosen in Init, is how the connection is configured (io_uring, GSO, pacer, batch
size) and what happens to it.  Control frames are one key: they are copied.

### ForwardErrorCorrection

XOR is symmetric difference.  A buffer is the set of frames XORed into it and a
length the set of its bits, so a frame rebuilt from the wrong members, or with
the wrong length, is a value other than the one sent.  `snd` is fecLanes and
fecRowLane; `rx` is the read side (ring, reorder map, accumulators, pending
parities).  deliverLocked and tryReconstructLocked call each other (peeling), so
`deliver`, `reconstruct` and `fecRetryBase` are recursive operators; the module
has no theorems.  `rx.lost` records the parities that were evicted by
fecPendingCap, or spent on a frame that then found no room.  `plan` gives G, one
or two dimensions, the number of frames, which of them are short, the room and
the pending capacity; a plan may start after full blocks were read (`skip`) so
that the sweep of old accumulators happens.

### ConnectionLifecycle

`conn` holds the Listener's connections: how far Close is (`step`), the workers
registered with doneWg, those still to be launched by start's go statements,
those running, missedPongs, and whether someone called Close.  Listener.readLoop
is `Receive`, `Publish`, `Start`, `Acknowledge`, `Offer`; `following` is their
order.  Connection.Close is `CloseBegin`, `CloseFence`, `CloseSocket`, `CloseDone`;
Listener.Close is `ListenerClose`, `ListenerSnapshot` and the loop over the
connections (`ListenerCloseConn`, `ListenerConnClosed`, `ListenerCloseReturns`).
The retransmit worker is left out: it stops on the same channel as keepalive.  Of
the client only `client[a]` is kept: gone, dialling or established.  A PING and
its answer are one step (`Pong`), and a datagram that is never delivered is lost.
The ACK of a handshake outlives the client that asked for it: it may reach a later
Dial from the same address.  A datagram goes to the connected socket of its peer
when one is open, and is queued at the listener's socket otherwise: what was queued before
the connected socket existed is handled by the fallback path, or, when the
connection is gone by then, makes a new one.

## How the parts meet

The modules share code at their borders and each takes the other side at its
weakest.  StreamTransfer resends any outstanding frame at any time, which is what
SendPipeline's worker does with any requests; it sends and receives frames as
written, which is `DataIntact` of SendPipeline.  ForwardErrorCorrection injects
frames into the delivery that StreamTransfer models; `DeliveredIntact` says they
are the frames StreamTransfer would have received.  Close appears three times,
with the streams (StreamTable), with the send path (SendPipeline) and with the
workers and the Listener (ConnectionLifecycle).

## Runs

All runs use `CHECK_DEADLOCK FALSE`: a transfer that is finished, or whose
application makes no further call, stops.

| run | question | bounds |
|---|---|---|
| `direction` | no acknowledged loss and buffer accounting while frames are refused; all closing calls and STOP_SENDING racing; the inductive invariant; refinement of BytePipe | 3 one-byte chunks, two of them unacknowledged at a time, a writer's window of 3 against a ring of 2, so that frames are refused as well; every kind of frame lost, reordered and repeated, two datagrams at a time |
| `sizes` | order, once-only and flow control with chunks of 1 and 3 bytes and a growing ring; bytes in flight | 3 chunks, a window and a ring of 6 that grow to 8, which 3 chunks can exceed by one byte |
| `live` | delivery, end of stream, empty queue under loss | 2 chunks and the FIN |
| `lost_update` | violation: a comment that does not hold (below) | 3 chunks, a window and a ring of 2, only window updates lost |
| `table_races` | what the collector takes away and must take at last; late frames and expiring tombstones; cancelled directions; Close against everything else | one slot, one stream of each end, each id at most twice (once where Close is called), one blocked call |
| `table_fin` | violation: a comment that does not hold (below) | the plans of `table_races` |
| `table_revived` | violation: a comment that does not hold (below) | the plans of `table_races` |
| `table_waiters` | violation: a comment that does not hold (below) | two slots, taken by two streams of the peer, two blocked calls |
| `pipeline` | buffers, slots and the descriptor while everything runs | 2 frames in each mode (two DATA, or one DATA and one reliable), 3 buffers (the arena recycles), batches of 1 and 2, packs of 1 and 2; five modes over sendmmsg and io_uring, with and without pacing, each with one or two of: resend, control frames, purge, Close |
| `fec_recover` | every single loss and every burst of G frames is rebuilt, and right | G = 2 and 3, one and two dimensions, up to 13 frames, past a sweep, one pending place, room for two frames |
| `fec_errors` | violation: a comment that does not hold (below) | G = 2, 5 frames |
| `listener` | dead entries, sockets, workers; both Close calls end; vanished peers are collected | one address dialled again and again, 2 connections, acceptCh of 1, maxMissedPongs 1 |

The bounds are chosen so that each hazard takes place: a second connection is
needed for a handshake that comes late; a third arena buffer for a frame that
reuses one while two are referenced; 13 frames with G = 2 for more than 2G
accumulators.  Plans and modes stand for runs of their own: one run covers the
union of their states.  `pipeline` is symmetric in its buffers.

Fairness of ConnectionLifecycle.  Goroutines that can run do, the keepalive
ticker ticks, and a shut-down socket wakes its reader.  So keepalive is taken to
be configured (the default is 10 s; with zero keepAliveLoop is not started, and
`GoneCollected` would not hold).  Nothing is assumed of
the network (no datagram need arrive), of the peers, or of the application; that
RecvMMsg fails is possible and never required.

Fairness of StreamTable.  The collector, wakened callers, calls past their
unlock and the arrival and acknowledgement of queued frames are weakly fair: the
goroutines run, and a frame resent for ever arrives.  OpenStream and Close wait
for streamMu as writers while the collector takes it as a reader again and
again; Go's RWMutex blocks new readers once a writer waits, so these two are
strongly fair.

Fairness of StreamTransfer (`FairSpec`).  The connection's goroutines keep running: a FIN or
RESET decided on is sent, handleACK finishes, the receive loop flushes, and the
20 ms tick of retransmitLoop resends the frame that has been outstanding
longest; so these are weakly fair.  The path may lose any datagram but not
every copy of a frame that is sent again and again: the arrival of the oldest
outstanding frame and of a current ACK or window update is strongly fair.
`ReaderReads` is assumed because a stream whose application never reads owes
its writer nothing; no fairness is assumed of the writer.

## Disagreements between comments and code

Shown by a run:

* `lost_update`: window updates are sent once; the comments on
  windowUpdatePayload and sendWindowUpdate count on a later update or receive
  batch.  If the last one is lost after everything was acknowledged and read,
  neither comes and the writer is blocked for ever.
* `table_fin`: a FIN queued between gcStreams' check and removeStream's purge is
  not "retransmitted until acknowledged".
* `table_revived`: removeStream's tombstone is there "so late retransmits are ACKed
  rather than resurrecting the stream", but it is written under recvMu after
  streamMu was unlocked, and a frame handled in between creates the stream again.
  Without that gap the model comes to the same end by a longer way: gcStreams
  deletes a tombstone after 10 s whatever the peer does, frames are resent without
  limit, and with the default keepalive a connection survives an outage of 30 s,
  so that the first resend after an outage can open a new stream under the old
  id.  Only ids of
  the peer's parity come back (`OwnLivesOnce`, proved).
* `table_waiters`: OpenStreamSync blocks "until a stream slot is available", but
  two slots freed in one sweep leave one signal in streamFreedCh.  One of two
  waiting calls stays blocked although a slot is free, until another stream is
  removed.
* `fec_errors`: when sendDataFrame fails, Write returns before fecFoldLocked but
  after the chunk took its sequence number and a place in the retransmit queue.
  If the application writes on, the lane's groups are no longer the reader's, and
  a frame is rebuilt from the wrong members: "never in a garbage reconstruction"
  (tryReconstructLocked) does not hold.

Met while modelling, without a run of their own:

* bytes in the ring when CancelRead runs are not returned as credit, so a writer
  who missed STOP_SENDING can stall, against the comment in deliverLocked;
* between add and sendMu an entry can be resent, acknowledged and its buffer
  reused, so a zero-copy slot can carry another frame's bytes, against the
  comments of commitSendSlotZeroCopy and drainPendingFree.  For DATA this is
  harmless, since the peer has the frame by then (`DataIntact`, proved); this is
  why `SubmittedUntouched` speaks only of frames the peer does not have, which is
  less than those comments promise;
* a server that still has a connection for an address acknowledges a new Dial
  from it without looking at the connID, so the two ends need not have agreed on
  one.

## Proofs

For every value of the constants that satisfies `SizesAssumption` and
`LimitsAssumption` (a ring holds two frames, `maxBufSize` is at least the
initial ring, as newStream enforces):

* `TypeCorrect`, and from `Safety` (the inductive invariant `SafetyInv`):
  `InOrderDelivery`, `NothingAckedIsLost`, `NoEntryStranded`, `EOFIsClean`,
  `WindowReopens`;
* with `SendInit <= InitCap` (both ends configured alike): `CreditIsGranted`
  and `NextFrameFits`;
* `ImplementsPipe`: StreamTransfer implements BytePipe.

`SafetyInv` says what the two ends know of each other.  `WriterInv`: chunks are
contiguous and end at sentOffset.  `FrameInv`: every DATA frame in the queue,
on the path or in the reorder map carries exactly its chunk, and a FIN or RESET
has the position after the last one.  `PositionInv`: readSeq and the FIN
position relative to what was written.  `DeliveryInv`: the delivered payloads
are the first readSeq chunks and account for consumed and buffered bytes.
`AckInv`: every sequence number covered by an ACK on the path, pending or
replayed, is one the reading end has received, which is what makes a stale ACK
harmless; NoAckedLoss alone is not inductive because it does not speak about
ACKs in flight.  `GrantInv`: granted watermark = initial ring + growth +
consumed bytes granted back.

For SendPipeline, for every value of the constants that satisfies
`PipelineAssumption`, and so for any number of frames, buffers, slots and modes:
`TypeCorrect`, `ArenaOwnership` (OneOwner), `DataArrivesIntact` (DataIntact),
`SubmittedStaysUntouched` and `SilentAfterClose`, all from `PipelineInvariant`.
DataIntact alone is not inductive: whether a datagram will carry the right bytes
depends on who may still write to the buffer its slot refers to.  `PipelineInv`
therefore has, besides the types and OneOwner: `StepInv`, which holder of sendMu
may be at which step, with which operations in flight and with Close how far;
`BytesInv`, the buffer of an entry holds that entry's frame, and so does what add
returned while the frame is live; `NextInv` and `SlotInv`, a buffer referred to by
a waiting frame or a slot either holds that frame or belongs to a frame the peer
has, and a buffer freed under a slot stays in pendingFree (below or above the
mark, according to the slot set) until that slot is flushed or its operation
completes; `WireInv`, the same for datagrams.  `Live` and `Arrived` name the two
alternatives.

Two theorems need an invariant of their own beside PipelineInv.  `RequestsKept`
(RequestKept) rests on `RequestInv`: the worker's key vouches for a marked entry
only until the worker has its copy, because takeForResend unmarks the entry in
the step that makes the copy.  `BatchesWellFormed` rests on `BatchInv`: sendN and
the pacer's count of datagrams are zero together, without which an empty batch
could still impose its old class, and an open pack has room for one more frame.

For StreamTable, for every value of the constants that satisfies
`TableAssumption` (any number of ids, callers and plans, with any bound on lives, either end):
`TableTypes` (TypeOK), `CollectorKeepsData` (DataKept), `HeldIsKnown`
(UsableInTable), `CloseReleases` (ReleasedByClose) and `OwnStreamsLiveOnce`
(OwnLivesOnce), from `TableInvariant`.  The collector checks a stream under one
lock and removes it under others, so none of these is inductive by itself.  `StreamTableInv`
adds: `TableInv`, an opened stream is in the table or in Close's snapshot until
both its directions are over, and nobody knows an id that was not opened;
`CollectorInv`, what the scan found (finished, nothing unacknowledged) still holds
when removeStream comes to it, unless the id has been opened again in between;
`CloseInv`, how far Close is.  OwnLivesOnce needs of TableInv that no id from
nextStream on was ever in the table.

For ConnectionLifecycle, for every value of the constants that satisfies
`LifecycleAssumption` (any finite set of connections, any addresses, any capacity
of acceptCh): `TypeCorrect`, `TableHasNoDead` (NoDeadEntry), `OneSocketPerPeer`
(SoleSocket), `WorkersGone` (NoLateWorker) and `ListenerClosesAll` (AllClosed), from
`Lifecycle`.  `LifecycleInv` adds to the properties: `Counted`, doneWg counts the
workers that run and those start has yet to launch, which is why Close's wait
covers both; `ReaderInv`, a connection that readLoop has created and not yet
started is as new, since nobody else knows of it; `TableInv`, the table holds
connections under their own address until their descriptor is closed, and all of
them until Listener.Close takes its snapshot; `OfferedInv`, what Accept can return
readLoop is through with; `ClosingInv`, the loop of Listener.Close still has every
connection that is not torn down.

Each inductive invariant was checked with TLC, on the constants of the runs,
before it was proved; `SafetyInv` is also a property of the run `direction`.

Only model-checked:

* `InFlightAccounting` and `BufferAccounting` of StreamTransfer: sums over sets,
  whose laws are induction theorems with an operator parameter;
* ForwardErrorCorrection: recursive operators, with which the prover loses its
  SMT backend, and what they compute is induction over data;
* all liveness: fairness and ENABLED are out of the prover's reach.

## Not modelled

* *Wire pacer*: a token bucket over real time; SendPipeline has its classes and
  the wait that Close cancels, not the amounts.
* *Loss detection*: NACK timing, RTT and RTO arithmetic decide when something is
  resent; the models resend at any time, which contains every such choice.
* *Deadlines and contexts* of Read, Write, OpenStreamSync, AcceptStream.
* *The byte layout of frames*, GRO splitting, and sequence numbers past 2^32.
* *io_uring set-up* and system-call errors of io_uring_enter; the client's own
  workers and Close, which are the server's code.
* *Options and socket set-up*: their results are constants.
