------------------------------ MODULE StreamTable ------------------------------
(***************************************************************************)
(* One end of a connection and its streams: OpenStream, OpenStreamSync and *)
(* AcceptStream, streams opened implicitly by the peer's frames, the       *)
(* collector that runs on the retransmit loop's tick (gcStreams and        *)
(* removeStream, which drop their locks between steps), tombstones, and    *)
(* Close.                                                                  *)
(*                                                                         *)
(* A direction of a stream is at most one DATA frame and a FIN or RESET    *)
(* (StreamTransfer models directions in full).  The path keeps every frame *)
(* it was ever given: it may deliver it late, several times or never, so   *)
(* repending one changes nothing.                                          *)
(***************************************************************************)
EXTENDS Integers, Sequences, FiniteSets

CONSTANTS
  IsClient,    \* c.isClient: this end opens the odd ids
  MaxStreams,  \* cfg.maxStreams
  MaxId,       \* bound: the ids either end uses
  Callers,     \* goroutines that call OpenStreamSync, once each
  Plans        \* what happens in a behaviour: which of Write, Cancel and
               \* Close are called and whether tombstones Expire (uses), who
               \* calls OpenStreamSync (callers), the kinds of frame the peer
               \* may send on a stream (scripts), and a bound on how often one
               \* id is put into the table (lives)

ASSUME TableAssumption ==
  /\ IsClient \in BOOLEAN
  /\ MaxStreams \in Nat \ {0}
  /\ MaxId \in Nat
  /\ Plans \subseteq [uses : SUBSET {"Write", "Cancel", "Close", "Expire"},
                      callers : SUBSET Callers,
                      scripts : SUBSET SUBSET {"data", "fin", "reset", "stop"},
                      lives : Nat]

Ids == 1..MaxId

VARIABLES
  \* the table, guarded by streamMu
  streams,     \* the ids in c.streams
  nextStream,
  \* the stream objects, guarded by readMu and writeMu
  got,         \* the peer's frames the read side has
  readDone,    \* streams with readErr # nil
  writeDone,   \* streams with writeFIN or writeErr set
  pending,     \* calls past their unlock of writeMu: what they do next
  \* the retransmit queue
  entries,
  \* guarded by recvMu
  deadStreams,
  \* channels and the calls that wait on them
  acceptCh,
  freed,       \* streamFreedCh holds a signal
  caller,      \* where each OpenStreamSync call is
  held,        \* ids whose current stream the application has a handle to
  \* the collector
  gcScan,      \* streams the scan has yet to check (streamMu is read-locked)
  gcDone,      \* the scan's result, not yet removed
  gcStep,      \* what removeStream does next
  \* Close
  closed,
  closing,     \* streams deliverClose has yet to be called for
  closeStep,
  \* the path and the peer
  inbox,       \* frames the peer has sent
  outbox,      \* frames this end has sent
  peerGot,     \* those of outbox the peer has received
  plan,        \* the plan this behaviour follows
  lives        \* history: how often each id was put into the table

tableVars == <<streams, nextStream, lives>>
streamVars == <<got, readDone, writeDone, pending>>
appVars == <<caller, held, freed, acceptCh>>
gcVars == <<gcScan, gcDone, gcStep>>
closeVars == <<closed, closing, closeStep>>
pathVars == <<inbox, outbox, peerGot, plan>>
vars == <<tableVars, streamVars, entries, deadStreams, appVars, gcVars,
          closeVars, pathVars>>

Frames == [id : Ids, kind : {"data", "fin", "reset", "stop", "refuse"}]
F(id, k) == [id |-> id, kind |-> k]

\* A call that has yet to purge the stream or to send its FIN or RESET; the
\* one of handleStopSending holds recvMu until it is through.
Calls == [id : Ids, kind : {"fin", "purge", "reset"}, recvMu : BOOLEAN]
Call(id, k, r) == [id |-> id, kind |-> k, recvMu |-> r]

\* No handler is in the middle of its work.
RecvMuFree == \A p \in pending : ~p.recvMu

-------------------------------------------------------------------------------
(* The table.                                                              *)

\* gcStreams holds the read lock while it scans.
StreamMuFree == gcScan = {}

PeerInitiated(id) == (id % 2 = 1) # IsClient

\* Mutant: ids of both parities.
NextAny(n) == n + 1

NextOwn(n) == n + 2

\* newStream under id, put into the map.
Create(id) ==
  /\ streams' = streams \cup {id}
  /\ lives' = [lives EXCEPT ![id] = @ + 1]

\* Mutant: closed is not checked again under streamMu.
OpenUnchecked(c) ==
  /\ caller[c] = "trying"
  /\ StreamMuFree
  /\ IF Cardinality(streams) >= MaxStreams
       THEN /\ caller' = [caller EXCEPT ![c] = "waiting"]
            /\ UNCHANGED <<tableVars, held>>
       ELSE /\ nextStream \in Ids
            /\ Create(nextStream)
            /\ nextStream' = NextOwn(nextStream)
            /\ held' = held \cup {nextStream}
            /\ caller' = [caller EXCEPT ![c] = "opened"]
  /\ UNCHANGED <<streamVars, entries, deadStreams, freed, acceptCh, gcVars,
                 closeVars, pathVars>>

\* One round of OpenStreamSync: OpenStream.
OpenStream(c) ==
  /\ caller[c] = "trying"
  /\ StreamMuFree
  /\ IF closed
       THEN /\ caller' = [caller EXCEPT ![c] = "failed"]
            /\ UNCHANGED <<tableVars, held>>
       ELSE IF Cardinality(streams) >= MaxStreams
         THEN /\ caller' = [caller EXCEPT ![c] = "waiting"]
              /\ UNCHANGED <<tableVars, held>>
         ELSE /\ nextStream \in Ids
              /\ Create(nextStream)
              /\ nextStream' = NextOwn(nextStream)
              /\ held' = held \cup {nextStream}
              /\ caller' = [caller EXCEPT ![c] = "opened"]
  /\ UNCHANGED <<streamVars, entries, deadStreams, freed, acceptCh, gcVars,
                 closeVars, pathVars>>

\* Mutant: the select has no arm for closeCh.
WakeUnclosed(c) ==
  /\ caller[c] = "waiting"
  /\ freed
  /\ caller' = [caller EXCEPT ![c] = "trying"]
  /\ freed' = FALSE
  /\ UNCHANGED <<tableVars, streamVars, entries, deadStreams, held, acceptCh,
                 gcVars, closeVars, pathVars>>

\* OpenStreamSync's select: a freed slot or the end of the connection.
Wake(c) ==
  /\ caller[c] = "waiting"
  /\ \/ closed /\ caller' = [caller EXCEPT ![c] = "failed"] /\ freed' = freed
     \/ freed /\ caller' = [caller EXCEPT ![c] = "trying"] /\ freed' = FALSE
  /\ UNCHANGED <<tableVars, streamVars, entries, deadStreams, held, acceptCh,
                 gcVars, closeVars, pathVars>>

AcceptStream ==
  /\ acceptCh # <<>>
  /\ acceptCh' = Tail(acceptCh)
  /\ held' = IF closed THEN held ELSE held \cup {Head(acceptCh)}
  /\ UNCHANGED <<tableVars, streamVars, entries, deadStreams, caller, freed,
                 gcVars, closeVars, pathVars>>

-------------------------------------------------------------------------------
(* Calls on a stream.                                                      *)

Write(id) ==
  /\ "Write" \in plan.uses
  /\ id \in held \ writeDone
  /\ F(id, "data") \notin outbox
  /\ entries' = entries \cup {F(id, "data")}
  /\ outbox' = outbox \cup {F(id, "data")}
  /\ UNCHANGED <<tableVars, streamVars, deadStreams, appVars, gcVars,
                 closeVars, inbox, peerGot, plan>>

\* CloseWrite up to its unlock of writeMu.
CloseWrite(id) ==
  /\ id \in held \ writeDone
  /\ writeDone' = writeDone \cup {id}
  /\ pending' = pending \cup {Call(id, "fin", FALSE)}
  /\ UNCHANGED <<tableVars, got, readDone, entries, deadStreams, appVars,
                 gcVars, closeVars, pathVars>>

\* abortWriteLocked up to its unlock, for a stream whose write side is open.
AbortWrite(id, r) ==
  /\ id \notin writeDone
  /\ writeDone' = writeDone \cup {id}
  /\ pending' = pending \cup {Call(id, "purge", r)}

CancelWrite(id) ==
  /\ "Cancel" \in plan.uses
  /\ id \in held
  /\ AbortWrite(id, FALSE)
  /\ UNCHANGED <<tableVars, got, readDone, entries, deadStreams, appVars,
                 gcVars, closeVars, pathVars>>

\* The rest of abortWriteLocked: purgeStream, then the RESET.
Purge(p) ==
  /\ p \in pending
  /\ p.kind = "purge"
  /\ pending' = (pending \ {p}) \cup {[p EXCEPT !.kind = "reset"]}
  /\ entries' = {e \in entries : e.id # p.id}
  /\ UNCHANGED <<tableVars, got, readDone, writeDone, deadStreams, appVars,
                 gcVars, closeVars, pathVars>>

\* sendReliableFrame of a FIN or RESET.
SendReliable(p) ==
  /\ p \in pending
  /\ p.kind \in {"fin", "reset"}
  /\ pending' = pending \ {p}
  /\ entries' = entries \cup {F(p.id, p.kind)}
  /\ outbox' = outbox \cup {F(p.id, p.kind)}
  /\ UNCHANGED <<tableVars, got, readDone, writeDone, deadStreams, appVars,
                 gcVars, closeVars, inbox, peerGot, plan>>

CancelRead(id) ==
  /\ "Cancel" \in plan.uses
  /\ id \in held
  /\ F(id, "stop") \notin outbox
  /\ readDone' = readDone \cup {id}
  /\ outbox' = outbox \cup {F(id, "stop")}
  /\ UNCHANGED <<tableVars, got, writeDone, pending, entries, deadStreams,
                 appVars, gcVars, closeVars, inbox, peerGot, plan>>

-------------------------------------------------------------------------------
(* Frames from the peer, handled under recvMu.                             *)

\* deliver: the read side ends once the FIN and all data before it are here.
Deliver(f, before) ==
  LET eof == /\ F(f.id, "fin") \in got'
             /\ F(f.id, "data") \in inbox => F(f.id, "data") \in got'
  IN  /\ got' = (got \ before) \cup {f}
      /\ readDone' = {id \in readDone : \A g \in before : g.id # id}
                       \cup {id \in {f.id} : eof}

Known(id) == id \in streams

\* A frame for a stream in the table.
RecvKnown(f) ==
  /\ f.kind \in {"data", "fin"}
  /\ Known(f.id)
  /\ Deliver(f, {})
  /\ UNCHANGED <<tableVars, writeDone, pending, entries, deadStreams, appVars,
                 gcVars, closeVars, pathVars>>

\* Mutant: the parity of the id is not looked at.
OpensAny(id) == id \notin deadStreams

\* streamForFrame creates the stream rather than have the frame acknowledged.
OpensStream(id) == id \notin deadStreams /\ PeerInitiated(id)

\* The first frame of a new stream, which goes to AcceptStream.
RecvNew(f) ==
  LET id == f.id
  IN  /\ f.kind \in {"data", "fin"}
      /\ ~Known(id)
      /\ OpensStream(id)
      /\ StreamMuFree
      /\ Cardinality(streams) < MaxStreams
      /\ lives[id] < plan.lives
      /\ Create(id)
      /\ acceptCh' = IF Len(acceptCh) < MaxStreams THEN Append(acceptCh, id)
                                                   ELSE acceptCh
      /\ held' = held \ {id}
      /\ Deliver(f, {g \in Frames : g.id = id})
      /\ writeDone' = writeDone \ {id}
      /\ UNCHANGED <<nextStream, pending, entries, deadStreams, caller, freed,
                     gcVars, closeVars, pathVars>>

\* streamForFrame refuses the stream: the table is full.
RecvRefused(f) ==
  /\ f.kind \in {"data", "fin"}
  /\ ~Known(f.id)
  /\ OpensStream(f.id)
  /\ StreamMuFree
  /\ Cardinality(streams) >= MaxStreams
  /\ outbox' = outbox \cup {F(f.id, "refuse")}
  /\ UNCHANGED <<tableVars, streamVars, entries, deadStreams, appVars, gcVars,
                 closeVars, inbox, peerGot, plan>>

\* deliverReset and onStopSending.
RecvReset(f) ==
  /\ f.kind = "reset"
  /\ Known(f.id)
  /\ readDone' = readDone \cup {f.id}
  /\ UNCHANGED <<tableVars, got, writeDone, pending, entries, deadStreams,
                 appVars, gcVars, closeVars, pathVars>>

RecvStopSending(f) ==
  /\ f.kind = "stop"
  /\ Known(f.id)
  /\ AbortWrite(f.id, TRUE)
  /\ UNCHANGED <<tableVars, got, readDone, entries, deadStreams, appVars,
                 gcVars, closeVars, pathVars>>

Recv(f) ==
  /\ f \in inbox
  /\ RecvMuFree
  /\ ~closed
  /\ \/ RecvKnown(f) \/ RecvNew(f) \/ RecvRefused(f)
     \/ RecvReset(f) \/ RecvStopSending(f)

\* Mutant: the acknowledgement of a FIN is lost on the queue.
AckDataOnly(f) ==
  /\ f \in peerGot \cap entries
  /\ f.kind = "data"
  /\ RecvMuFree
  /\ ~closed
  /\ entries' = entries \ {f}
  /\ UNCHANGED <<tableVars, streamVars, deadStreams, appVars, gcVars,
                 closeVars, pathVars>>

\* handleACK: the peer acknowledges a frame it has received.
RecvAck(f) ==
  /\ f \in peerGot \cap entries
  /\ RecvMuFree
  /\ ~closed
  /\ entries' = entries \ {f}
  /\ UNCHANGED <<tableVars, streamVars, deadStreams, appVars, gcVars,
                 closeVars, pathVars>>

-------------------------------------------------------------------------------
(* The collector.                                                          *)

Idle == <<"idle", 0>>

finished(id) == id \in readDone /\ id \in writeDone

hasStream(id) == \E e \in entries : e.id = id

\* Mutant: frames that still wait for an ACK do not keep a stream.
CollectableUnacked(id) == finished(id)

\* Mutant: the write side is not asked.
CollectableUnwritten(id) == id \in readDone /\ ~hasStream(id)

Collectable(id) == finished(id) /\ ~hasStream(id)

\* gcStreams locks streamMu and starts its scan.
GcStart ==
  /\ gcStep = Idle
  /\ gcScan = {}
  /\ gcDone = {}
  /\ streams # {}
  /\ closeStep # "done"
  /\ gcScan' = streams
  /\ UNCHANGED <<tableVars, streamVars, entries, deadStreams, appVars, gcDone,
                 gcStep, closeVars, pathVars>>

GcCheck(id) ==
  /\ id \in gcScan
  /\ gcScan' = gcScan \ {id}
  /\ gcDone' = IF Collectable(id) THEN gcDone \cup {id} ELSE gcDone
  /\ UNCHANGED <<tableVars, streamVars, entries, deadStreams, appVars, gcStep,
                 closeVars, pathVars>>

\* removeStream, one critical section after the other.
GcRemove(id) ==
  /\ gcStep = Idle
  /\ gcScan = {}
  /\ id \in gcDone
  /\ streams' = streams \ {id}
  /\ gcStep' = <<"purge", id>>
  /\ UNCHANGED <<nextStream, lives, streamVars, entries, deadStreams, appVars,
                 gcScan, gcDone, closeVars, pathVars>>

GcPurge(id) ==
  /\ gcStep = <<"purge", id>>
  /\ entries' = {e \in entries : e.id # id}
  /\ gcStep' = <<"bury", id>>
  /\ UNCHANGED <<tableVars, streamVars, deadStreams, appVars, gcScan, gcDone,
                 closeVars, pathVars>>

GcBury(id) ==
  /\ gcStep = <<"bury", id>>
  /\ RecvMuFree
  /\ deadStreams' = deadStreams \cup {id}
  /\ gcStep' = <<"signal", id>>
  /\ UNCHANGED <<tableVars, streamVars, entries, appVars, gcScan, gcDone,
                 closeVars, pathVars>>

\* The signal is dropped when streamFreedCh already holds one.
GcSignal(id) ==
  /\ gcStep = <<"signal", id>>
  /\ freed' = TRUE
  /\ gcDone' = gcDone \ {id}
  /\ gcStep' = Idle
  /\ UNCHANGED <<tableVars, streamVars, entries, deadStreams, caller, held,
                 acceptCh, gcScan, closeVars, pathVars>>

\* The end of a sweep: tombstones older than tombstoneTTL are deleted,
\* whatever the peer still resends.
Expire(old) ==
  /\ "Expire" \in plan.uses
  /\ old # {}
  /\ gcStep = Idle /\ gcScan = {} /\ gcDone = {}
  /\ closeStep # "done"
  /\ RecvMuFree
  /\ deadStreams' = deadStreams \ old
  /\ UNCHANGED <<tableVars, streamVars, entries, appVars, gcVars, closeVars,
                 pathVars>>

-------------------------------------------------------------------------------
(* Close.                                                                  *)

\* The transition, and closeCh.
CloseBegin ==
  /\ "Close" \in plan.uses
  /\ ~closed
  /\ closed' = TRUE
  /\ closeStep' = "fence"
  /\ UNCHANGED <<tableVars, streamVars, entries, deadStreams, appVars, gcVars,
                 closing, pathVars>>

\* Ingress is fenced off, the streams are snapshot and the map is cleared.
CloseFence ==
  /\ closeStep = "fence"
  /\ RecvMuFree
  /\ StreamMuFree
  /\ closing' = streams
  /\ streams' = {}
  /\ closeStep' = "wait"
  /\ UNCHANGED <<nextStream, lives, streamVars, entries, deadStreams, appVars,
                 gcVars, closed, pathVars>>

deliverClose(id) ==
  /\ id \in closing
  /\ closing' = closing \ {id}
  /\ readDone' = readDone \cup {id}
  /\ writeDone' = writeDone \cup {id}
  /\ UNCHANGED <<tableVars, got, pending, entries, deadStreams, appVars,
                 gcVars, closed, closeStep, pathVars>>

\* Close returns once the retransmit loop, and with it the collector, has.
CloseReturn ==
  /\ closeStep = "wait"
  /\ closing = {}
  /\ gcStep = Idle /\ gcScan = {} /\ gcDone = {}
  /\ closeStep' = "done"
  /\ UNCHANGED <<tableVars, streamVars, entries, deadStreams, appVars, gcVars,
                 closed, closing, pathVars>>

-------------------------------------------------------------------------------
(* The peer.                                                               *)

\* All the frames of a script; the path delays each as it likes.
Sent(id, script) == {F(id, k) : k \in script}

\* The first DATA or FIN the peer receives of a stream makes it answer.
PeerReceive(f) ==
  /\ f \in outbox \ peerGot
  /\ f.kind \in {"data", "fin", "reset"}
  /\ peerGot' = peerGot \cup {f}
  /\ IF \/ PeerInitiated(f.id) \/ f.kind = "reset"
        \/ \E g \in peerGot : g.id = f.id /\ g.kind # "reset"
       THEN inbox' = inbox
       ELSE \E script \in plan.scripts : inbox' = inbox \cup Sent(f.id, script)
  /\ UNCHANGED <<tableVars, streamVars, entries, deadStreams, appVars, gcVars,
                 closeVars, outbox, plan>>

-------------------------------------------------------------------------------
Init ==
  /\ streams = {}
  /\ nextStream = IF IsClient THEN 1 ELSE 2
  /\ got = {}
  /\ readDone = {}
  /\ writeDone = {}
  /\ pending = {}
  /\ entries = {}
  /\ deadStreams = {}
  /\ acceptCh = <<>>
  /\ freed = FALSE
  /\ plan \in Plans
  /\ caller = [c \in Callers |-> IF c \in plan.callers THEN "trying" ELSE "opened"]
  /\ held = {}
  /\ gcScan = {}
  /\ gcDone = {}
  /\ gcStep = Idle
  /\ closed = FALSE
  /\ closing = {}
  /\ closeStep = "open"
  /\ \E script \in [{id \in Ids : PeerInitiated(id)} -> plan.scripts] :
       inbox = UNION {Sent(id, script[id]) : id \in DOMAIN script}
  /\ outbox = {}
  /\ peerGot = {}
  /\ lives = [id \in Ids |-> 0]

StreamCalls ==
  \E id \in Ids :
    Write(id) \/ CloseWrite(id) \/ CancelWrite(id) \/ CancelRead(id)

Collector ==
  \/ GcStart
  \/ \E id \in Ids : \/ GcCheck(id) \/ GcRemove(id) \/ GcPurge(id)
                     \/ GcBury(id) \/ GcSignal(id)

Close ==
  CloseBegin \/ CloseFence \/ CloseReturn \/ \E id \in Ids : deliverClose(id)

Next ==
  \/ \E c \in Callers : OpenStream(c) \/ Wake(c)
  \/ AcceptStream
  \/ StreamCalls
  \/ \E p \in pending : Purge(p) \/ SendReliable(p)
  \/ \E f \in inbox : Recv(f)
  \/ \E f \in entries : RecvAck(f)
  \/ Collector
  \/ \E old \in SUBSET deadStreams : Expire(old)
  \/ Close
  \/ \E f \in outbox : PeerReceive(f)

Spec == Init /\ [][Next]_vars

\* The goroutines of this end keep running, and a frame that is resent until
\* it is acknowledged gets through at last.  Strong fairness is that of Go's
\* RWMutex: a waiting writer keeps later readers (the collector's scan) out.
FairSpec ==
  /\ Spec
  /\ WF_vars(Collector)
  /\ \A c \in Callers : SF_vars(OpenStream(c)) /\ WF_vars(Wake(c))
  /\ WF_vars(\E p \in pending : Purge(p) \/ SendReliable(p))
  /\ WF_vars(\E f \in entries : PeerReceive(f))
  /\ WF_vars(\E f \in entries : RecvAck(f))

\* Close, once called, goes on to its end.
FairCloseSpec ==
  /\ FairSpec
  /\ SF_vars(CloseFence) /\ WF_vars(CloseReturn)
  /\ \A id \in Ids : WF_vars(deliverClose(id))

-------------------------------------------------------------------------------
(* Properties.                                                             *)

\* Every variable has its type; ids given out are of this end's parity.
TypeOK ==
  /\ streams \subseteq Ids
  /\ nextStream \in Nat /\ ~PeerInitiated(nextStream)
  /\ got \subseteq Frames
  /\ readDone \subseteq Ids
  /\ writeDone \subseteq Ids
  /\ pending \subseteq Calls
  /\ entries \subseteq Frames
  /\ deadStreams \subseteq Ids
  /\ acceptCh \in Seq(Ids)
  /\ freed \in BOOLEAN
  /\ caller \in [Callers -> {"trying", "waiting", "opened", "failed"}]
  /\ held \subseteq Ids
  /\ gcScan \subseteq Ids
  /\ gcDone \subseteq Ids
  /\ gcStep \in {Idle} \cup ({"purge", "bury", "signal"} \X Ids)
  /\ closed \in BOOLEAN
  /\ closing \subseteq Ids
  /\ closeStep \in {"open", "fence", "wait", "done"}
  /\ inbox \subseteq Frames
  /\ outbox \subseteq Frames
  /\ peerGot \subseteq outbox
  /\ plan \in Plans
  /\ lives \in [Ids -> Nat]

\* A DATA frame the peer does not have is still queued for retransmission, as
\* long as the stream is not reset and the connection is open: the collector
\* (gcStreams, removeStream) never takes it away.
DataKept ==
  \A id \in Ids :
    /\ F(id, "data") \in outbox \ peerGot
    /\ lives[id] = 1
    /\ F(id, "reset") \notin outbox
    /\ \A p \in pending : p.id = id => p.kind = "fin"
    /\ ~closed
    => F(id, "data") \in entries

\* A stream the application can still read from or write to is in the table,
\* where the peer's frames find it (streamForFrame).
UsableInTable ==
  ~closed => \A id \in held : finished(id) \/ id \in streams

\* A stream this end opened lives once: however late the peer's frames for it
\* come, in the middle of removeStream or after its tombstone has expired,
\* streamForFrame does not make a second stream of it, and nextStream never
\* gives its id out again.
OwnLivesOnce ==
  \A id \in Ids : ~PeerInitiated(id) => lives[id] <= 1

\* A removed stream is not resurrected by a late frame of the peer: removeStream
\* leaves "a tombstone so late retransmits are ACKed rather than resurrecting
\* the stream".
NeverRevived ==
  \A id \in Ids : lives[id] <= 1

\* When Close returns, no stream is left behind: a reader or writer of any
\* stream that was ever opened has been released.
ReleasedByClose ==
  closeStep = "done" =>
    streams = {} /\ \A id \in Ids : lives[id] > 0 => finished(id)

\* OpenStreamSync blocks only "until a stream slot is available": no call
\* stays blocked while a slot is free.
WaiterServed ==
  \A c \in Callers :
    []<>~(caller[c] = "waiting" /\ Cardinality(streams) < MaxStreams)

\* Closing the connection ends every OpenStreamSync call and Close itself.
CloseReleasesAll ==
  closed ~> closeStep = "done"
              /\ \A c \in Callers : caller[c] \in {"opened", "failed"}

\* gcStreams collects every finished stream and so frees its slot.
FinishedCollected ==
  \A id \in Ids : finished(id) /\ id \in streams ~> id \notin streams

\* A FIN the peer does not have is queued for retransmission ("retransmitted
\* until acknowledged").
FinKept ==
  \A id \in Ids :
    F(id, "fin") \in outbox \ peerGot /\ lives[id] = 1 /\ ~closed
      => F(id, "fin") \in entries
===============================================================================
