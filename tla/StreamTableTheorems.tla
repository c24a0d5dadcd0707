-------------------------- MODULE StreamTableTheorems --------------------------
(***************************************************************************)
(* The invariants of StreamTable, for any number of streams, ids, callers  *)
(* and plans.  TableInv, CollectorInv and CloseInv say what the collector, *)
(* which drops its locks between removeStream's steps, may still take for  *)
(* granted when it goes on.                                                *)
(***************************************************************************)
EXTENDS StreamTable, TLAPS

\* A DATA frame of the stream is missing at the peer, and no reset is under
\* way that would make up for it.
Unacked(id) ==
  /\ F(id, "data") \in outbox \ peerGot
  /\ F(id, "reset") \notin outbox
  /\ \A p \in pending : p.id = id => p.kind = "fin"

\* A stream is in the table, or Close has its snapshot, until both its
\* directions are over.  Nobody knows of an id that was not yet opened.
TableInv ==
  /\ \A id \in Ids : lives[id] > 0 => finished(id) \/ id \in streams \cup closing
  /\ \A id \in streams \cup held \cup gcDone : lives[id] > 0
  /\ \A i \in 1..Len(acceptCh) : lives[acceptCh[i]] > 0
  /\ \A id \in Ids : F(id, "data") \in outbox => lives[id] > 0
  /\ \A id \in Ids : ~PeerInitiated(id) /\ id >= nextStream => lives[id] = 0

\* What the scan found of a stream still holds when removeStream comes to it,
\* unless a frame of the peer has opened the id again in the meantime.
CollectorInv ==
  /\ gcScan \subseteq streams
  /\ gcStep # Idle => gcStep[2] \in gcDone
  /\ \A id \in gcDone : gcStep[2] # id => finished(id) /\ (~closed => id \in streams)
  /\ \A id \in gcDone : lives[id] = 1 => finished(id) /\ (~closed => ~Unacked(id))

\* How far Close is, and what it leaves.
CloseInv ==
  /\ closed <=> closeStep # "open"
  /\ closeStep \in {"wait", "done"} => streams = {}
  /\ closeStep # "wait" => closing = {}

StreamTableInv ==
  TypeOK /\ TableInv /\ CollectorInv /\ CloseInv /\ DataKept /\ OwnLivesOnce

-------------------------------------------------------------------------------
(* Frames, and the steps that change more than one thing.                  *)

\* A frame is its stream and its kind.
LEMMA FrameFacts ==
  /\ \A i, k : F(i, k).id = i /\ F(i, k).kind = k
  /\ \A f \in Frames : f = F(f.id, f.kind) /\ f.id \in Ids
<1>1. \A i, k : F(i, k).id = i /\ F(i, k).kind = k
  BY DEF F
<1>2. \A f \in Frames : f = F(f.id, f.kind) /\ f.id \in Ids
  BY DEF F, Frames
<1> QED
  BY <1>1, <1>2

\* This end's ids keep their parity.
LEMMA OwnParity ==
  ASSUME NEW n \in Nat, ~PeerInitiated(n)
  PROVE  NextOwn(n) \in Nat /\ ~PeerInitiated(NextOwn(n))
<1>1. (n + 2) % 2 = n % 2
  OBVIOUS
<1> QED
  BY <1>1 DEF PeerInitiated, NextOwn

\* OpenStream puts one stream into the table, or only notes how it went.
Opened(id) ==
  /\ StreamMuFree /\ ~closed
  /\ id = nextStream /\ id \in Ids
  /\ nextStream' = NextOwn(id)
  /\ streams' = streams \cup {id}
  /\ lives' = [lives EXCEPT ![id] = @ + 1]
  /\ held' = held \cup {id}

LEMMA OpenEffect ==
  ASSUME NEW c \in Callers, OpenStream(c)
  PROVE  /\ \/ UNCHANGED <<tableVars, held>>
            \/ \E id \in Ids : Opened(id)
         /\ caller' \in {[caller EXCEPT ![c] = s] : s \in {"failed", "waiting", "opened"}}
         /\ UNCHANGED <<streamVars, entries, deadStreams, freed, acceptCh, gcVars,
                        closeVars, pathVars>>
<1>1. CASE closed
  BY Zenon, <1>1 DEF OpenStream
<1>2. CASE ~closed /\ Cardinality(streams) >= MaxStreams
  BY Zenon, <1>2 DEF OpenStream
<1>3. CASE ~closed /\ ~(Cardinality(streams) >= MaxStreams)
  <2>1. Opened(nextStream) /\ nextStream \in Ids
    BY Zenon, <1>3 DEF OpenStream, Opened, Create
  <2>2. /\ caller' = [caller EXCEPT ![c] = "opened"]
        /\ UNCHANGED <<streamVars, entries, deadStreams, freed, acceptCh, gcVars,
                       closeVars, pathVars>>
    BY Zenon, <1>3 DEF OpenStream
  <2> QED
    BY Zenon, <2>1, <2>2
<1> QED
  BY <1>1, <1>2, <1>3

\* The first frame of a stream opens it afresh, and leaves the others alone.
LEMMA RecvNewEffect ==
  ASSUME TypeOK, NEW f \in inbox, RecvNew(f)
  PROVE  /\ f \in Frames /\ f.id \in Ids \ streams
         /\ StreamMuFree /\ OpensStream(f.id)
         /\ streams' = streams \cup {f.id}
         /\ lives' = [lives EXCEPT ![f.id] = @ + 1]
         /\ got' \subseteq got \cup {f}
         /\ readDone' \subseteq readDone \cup {f.id}
         /\ \A id \in readDone : id # f.id => id \in readDone'
         /\ writeDone' = writeDone \ {f.id}
         /\ held' = held \ {f.id}
         /\ acceptCh' = acceptCh \/ acceptCh' = Append(acceptCh, f.id)
         /\ UNCHANGED <<nextStream, pending, entries, deadStreams, caller, freed,
                        gcVars, closeVars, pathVars>>
<1>1. f \in Frames /\ f.id \in Ids
  BY FrameFacts DEF TypeOK
<1> DEFINE before == {g \in Frames : g.id = f.id}
<1>2. /\ got' = (got \ before) \cup {f}
      /\ \E eof \in BOOLEAN :
           readDone' = {id \in readDone : \A g \in before : g.id # id}
                         \cup {id \in {f.id} : eof}
  BY Zenon DEF RecvNew, Deliver
<1>3. \A g \in before : g.id = f.id
  OBVIOUS
<1>4. /\ f.id \notin streams /\ StreamMuFree /\ OpensStream(f.id)
      /\ streams' = streams \cup {f.id}
      /\ lives' = [lives EXCEPT ![f.id] = @ + 1]
      /\ writeDone' = writeDone \ {f.id}
      /\ held' = held \ {f.id}
      /\ acceptCh' = acceptCh \/ acceptCh' = Append(acceptCh, f.id)
      /\ UNCHANGED <<nextStream, pending, entries, deadStreams, caller, freed,
                     gcVars, closeVars, pathVars>>
  BY DEF RecvNew, Known, Create
<1> HIDE DEF before
<1>5. got' \subseteq got \cup {f}
  BY <1>2
<1>6. readDone' \subseteq readDone \cup {f.id}
  BY <1>2
<1>7. \A id \in readDone : id # f.id => id \in readDone'
  BY <1>2, <1>3
<1> QED
  BY Zenon, <1>1, <1>4, <1>5, <1>6, <1>7

\* A frame for a stream in the table can only end its read side.
LEMMA RecvKnownEffect ==
  ASSUME TypeOK, NEW f \in inbox, RecvKnown(f)
  PROVE  /\ f \in Frames /\ f.id \in Ids
         /\ got' = got \cup {f}
         /\ readDone' = readDone \/ readDone' = readDone \cup {f.id}
         /\ UNCHANGED <<tableVars, writeDone, pending, entries, deadStreams, appVars,
                        gcVars, closeVars, pathVars>>
<1>1. f \in Frames /\ f.id \in Ids
  BY FrameFacts DEF TypeOK
<1>2. /\ got' = (got \ {}) \cup {f}
      /\ \E eof \in BOOLEAN :
           readDone' = {id \in readDone : \A g \in {} : g.id # id}
                         \cup {id \in {f.id} : eof}
  BY Zenon DEF RecvKnown, Deliver
<1>3. UNCHANGED <<tableVars, writeDone, pending, entries, deadStreams, appVars,
                  gcVars, closeVars, pathVars>>
  BY DEF RecvKnown
<1> QED
  BY <1>1, <1>2, <1>3

-------------------------------------------------------------------------------
(* Types.                                                                  *)

\* Every step keeps the types, whatever frames the peer sends.
LEMMA TypeStep ==
  ASSUME TypeOK, [Next]_vars
  PROVE  TypeOK'
<1> USE DEF tableVars, streamVars, appVars, gcVars, closeVars, pathVars
<1>1. ASSUME NEW c \in Callers, OpenStream(c) PROVE TypeOK'
  <2>1. /\ streams' \subseteq Ids /\ held' \subseteq Ids
        /\ nextStream' \in Nat /\ ~PeerInitiated(nextStream')
        /\ lives' \in [Ids -> Nat]
    <3>1. CASE UNCHANGED <<tableVars, held>>
      BY <3>1 DEF TypeOK
    <3>2. ASSUME NEW id \in Ids, Opened(id)
          PROVE  /\ streams' \subseteq Ids /\ held' \subseteq Ids
                 /\ nextStream' \in Nat /\ ~PeerInitiated(nextStream')
                 /\ lives' \in [Ids -> Nat]
      <4>1. nextStream' \in Nat /\ ~PeerInitiated(nextStream')
        BY <3>2, OwnParity DEF Opened, TypeOK
      <4>2. lives' \in [Ids -> Nat]
        BY <3>2 DEF Opened, TypeOK
      <4> QED
        BY Zenon, <3>2, <4>1, <4>2 DEF Opened, TypeOK
    <3> QED
      BY <1>1, <3>1, <3>2, OpenEffect
  <2>2. caller' \in [Callers -> {"trying", "waiting", "opened", "failed"}]
    <3>1. PICK s \in {"failed", "waiting", "opened"} : caller' = [caller EXCEPT ![c] = s]
      BY Zenon, <1>1, OpenEffect
    <3> QED
      BY <3>1 DEF TypeOK
  <2>3. UNCHANGED <<streamVars, entries, deadStreams, freed, acceptCh, gcVars,
                    closeVars, pathVars>>
    BY <1>1, OpenEffect
  <2> QED
    BY Zenon, <2>1, <2>2, <2>3 DEF TypeOK, PeerInitiated
<1>2. ASSUME NEW c \in Callers, Wake(c) PROVE TypeOK'
  <2>1. /\ caller' \in [Callers -> {"trying", "waiting", "opened", "failed"}]
        /\ freed' \in BOOLEAN
    BY Zenon, <1>2 DEF Wake, TypeOK
  <2> QED
    BY Zenon, <1>2, <2>1 DEF Wake, TypeOK, PeerInitiated
<1>3. CASE AcceptStream
  <2>1. acceptCh' \in Seq(Ids) /\ Head(acceptCh) \in Ids
    BY <1>3 DEF AcceptStream, TypeOK
  <2>2. held' \subseteq Ids
    BY <1>3, <2>1 DEF AcceptStream, TypeOK
  <2> QED
    BY Zenon, <1>3, <2>1, <2>2 DEF AcceptStream, TypeOK, PeerInitiated
<1>4. \A id \in Ids : \A k \in {"data", "fin", "reset", "stop", "refuse"} : F(id, k) \in Frames
  BY DEF F, Frames
<1>5. \A id \in Ids : \A k \in {"fin", "purge", "reset"} : \A r \in BOOLEAN :
        Call(id, k, r) \in Calls
  BY DEF Call, Calls
<1>6. ASSUME NEW id \in Ids, Write(id) \/ CancelRead(id) PROVE TypeOK'
  BY Zenon, <1>4, <1>6 DEF Write, CancelRead, TypeOK, PeerInitiated
<1>7. ASSUME NEW id \in Ids, CloseWrite(id) \/ CancelWrite(id) PROVE TypeOK'
  <2>1. pending' \subseteq Calls /\ writeDone' \subseteq Ids
    BY Zenon, <1>5, <1>7 DEF CloseWrite, CancelWrite, AbortWrite, TypeOK
  <2> QED
    BY Zenon, <1>7, <2>1 DEF CloseWrite, CancelWrite, TypeOK, PeerInitiated
<1>8. ASSUME NEW p \in pending, Purge(p) PROVE TypeOK'
  <2>1. p \in Calls /\ [p EXCEPT !.kind = "reset"] \in Calls
    BY Zenon DEF TypeOK, Calls
  <2>2. pending' \subseteq Calls /\ entries' \subseteq Frames
    BY Zenon, <1>8, <2>1 DEF Purge, TypeOK
  <2> QED
    BY Zenon, <1>8, <2>2 DEF Purge, TypeOK, PeerInitiated
<1>9. ASSUME NEW p \in pending, SendReliable(p) PROVE TypeOK'
  <2>1. p.id \in Ids /\ p.kind \in {"fin", "reset"}
    BY <1>9 DEF SendReliable, TypeOK, Calls
  <2>2. F(p.id, p.kind) \in Frames
    BY <2>1, <1>4
  <2> QED
    BY Zenon, <1>9, <2>2 DEF SendReliable, TypeOK, PeerInitiated
<1>10. ASSUME NEW f \in inbox, RecvKnown(f) PROVE TypeOK'
  <2>1. got' \subseteq Frames /\ readDone' \subseteq Ids
    BY <1>10, RecvKnownEffect DEF TypeOK
  <2>2. UNCHANGED <<tableVars, writeDone, pending, entries, deadStreams, appVars,
                    gcVars, closeVars, pathVars>>
    BY <1>10, RecvKnownEffect
  <2> QED
    BY Zenon, <2>1, <2>2 DEF TypeOK, PeerInitiated
<1>11. ASSUME NEW f \in inbox, RecvNew(f) PROVE TypeOK'
  <2>1. f \in Frames /\ f.id \in Ids
    BY <1>11, RecvNewEffect
  <2>2. lives' \in [Ids -> Nat] /\ acceptCh' \in Seq(Ids)
    <3>1. /\ lives' = [lives EXCEPT ![f.id] = @ + 1]
          /\ acceptCh' = acceptCh \/ acceptCh' = Append(acceptCh, f.id)
      BY <1>11, RecvNewEffect
    <3>2. lives \in [Ids -> Nat] /\ acceptCh \in Seq(Ids)
      BY DEF TypeOK
    <3>3. lives' \in [Ids -> Nat]
      BY <2>1, <3>1, <3>2
    <3>4. Append(acceptCh, f.id) \in Seq(Ids)
      BY <2>1, <3>2
    <3> QED
      BY Zenon, <3>1, <3>2, <3>3, <3>4
  <2>3. got' \subseteq Frames /\ readDone' \subseteq Ids /\ streams' \subseteq Ids
    BY <1>11, <2>1, RecvNewEffect DEF TypeOK
  <2>4. writeDone' \subseteq Ids /\ held' \subseteq Ids
    BY <1>11, RecvNewEffect DEF TypeOK
  <2>5. UNCHANGED <<nextStream, pending, entries, deadStreams, caller, freed,
                    gcVars, closeVars, pathVars>>
    BY <1>11, RecvNewEffect
  <2> QED
    BY Zenon, <2>2, <2>3, <2>4, <2>5 DEF TypeOK, PeerInitiated
<1>12. ASSUME NEW f \in inbox, RecvRefused(f) \/ RecvReset(f) \/ RecvStopSending(f)
       PROVE  TypeOK'
  <2>1. f.id \in Ids
    BY FrameFacts DEF TypeOK
  <2>2. CASE RecvRefused(f) \/ RecvReset(f)
    BY Zenon, <1>4, <2>1, <2>2 DEF RecvRefused, RecvReset, TypeOK, PeerInitiated
  <2>3. CASE RecvStopSending(f)
    <3>1. pending' \subseteq Calls /\ writeDone' \subseteq Ids
      BY Zenon, <1>5, <2>1, <2>3 DEF RecvStopSending, AbortWrite, TypeOK
    <3> QED
      BY Zenon, <2>3, <3>1 DEF RecvStopSending, TypeOK, PeerInitiated
  <2> QED
    BY <1>12, <2>2, <2>3
<1>13. ASSUME NEW f \in entries, RecvAck(f) PROVE TypeOK'
  BY Zenon, <1>13 DEF RecvAck, TypeOK, PeerInitiated
<1>14. ASSUME NEW id \in Ids, GcCheck(id) \/ GcSignal(id) PROVE TypeOK'
  <2>1. gcScan' \subseteq Ids /\ gcDone' \subseteq Ids
    BY <1>14 DEF GcCheck, GcSignal, TypeOK
  <2>2. CASE GcCheck(id)
    BY Zenon, <2>1, <2>2 DEF GcCheck, TypeOK, PeerInitiated
  <2>3. CASE GcSignal(id)
    BY Zenon, <2>1, <2>3 DEF GcSignal, TypeOK, PeerInitiated
  <2> QED
    BY <1>14, <2>2, <2>3
<1>15. \A id \in Ids : \A s \in {"purge", "bury", "signal"} :
         <<s, id>> \in {Idle} \cup ({"purge", "bury", "signal"} \X Ids)
  OBVIOUS
<1>16. ASSUME NEW id \in Ids, GcRemove(id) \/ GcPurge(id) \/ GcBury(id) PROVE TypeOK'
  <2>1. gcStep' \in {Idle} \cup ({"purge", "bury", "signal"} \X Ids)
    BY Zenon, <1>15, <1>16 DEF GcRemove, GcPurge, GcBury
  <2> QED
    BY Zenon, <1>16, <2>1 DEF GcRemove, GcPurge, GcBury, TypeOK, PeerInitiated
<1>17. CASE GcStart
  BY Zenon, <1>17 DEF GcStart, TypeOK, PeerInitiated
<1>18. ASSUME NEW old \in SUBSET deadStreams, Expire(old) PROVE TypeOK'
  <2>1. deadStreams' \subseteq Ids
    BY <1>18 DEF Expire, TypeOK
  <2> QED
    BY Zenon, <1>18, <2>1 DEF Expire, TypeOK, PeerInitiated
<1>19. CASE CloseBegin \/ CloseReturn
  BY Zenon, <1>19 DEF CloseBegin, CloseReturn, TypeOK, PeerInitiated
<1>20. CASE CloseFence
  BY Zenon, <1>20 DEF CloseFence, TypeOK, PeerInitiated
<1>21. ASSUME NEW id \in Ids, deliverClose(id) PROVE TypeOK'
  BY Zenon, <1>21 DEF deliverClose, TypeOK, PeerInitiated
<1>22. ASSUME NEW f \in outbox, PeerReceive(f) PROVE TypeOK'
  <2>1. f.id \in Ids
    BY FrameFacts DEF TypeOK
  <2>2. ASSUME NEW script \in plan.scripts PROVE Sent(f.id, script) \subseteq Frames
    <3>1. script \subseteq {"data", "fin", "reset", "stop"}
      BY Zenon, TableAssumption DEF TypeOK
    <3> QED
      BY <1>4, <2>1, <3>1 DEF Sent
  <2>3. inbox' \subseteq Frames
    BY <1>22, <2>2 DEF PeerReceive, TypeOK
  <2>4. peerGot' \subseteq outbox'
    BY Zenon, <1>22 DEF PeerReceive, TypeOK
  <2> QED
    BY Zenon, <1>22, <2>3, <2>4 DEF PeerReceive, TypeOK, PeerInitiated
<1>23. CASE UNCHANGED vars
  BY Zenon, <1>23 DEF vars, TypeOK, PeerInitiated
<1> QED
  BY Zenon, <1>1, <1>2, <1>3, <1>6, <1>7, <1>8, <1>9, <1>10, <1>11, <1>12, <1>13, <1>14,
     <1>16, <1>17, <1>18, <1>19, <1>20, <1>21, <1>22, <1>23
     DEF Next, StreamCalls, Recv, Collector, Close

-------------------------------------------------------------------------------
(* Close, the table and the tombstones.                                    *)

\* Nothing enters the table once Close has begun, so that what CloseFence
\* leaves behind stays empty.
LEMMA CloseInvStep ==
  ASSUME StreamTableInv, [Next]_vars
  PROVE  CloseInv'
<1> USE DEF tableVars, streamVars, appVars, gcVars, closeVars, pathVars
<1>0. TypeOK /\ CloseInv
  BY DEF StreamTableInv
<1>a. CASE UNCHANGED <<closed, closing, closeStep, streams>>
  BY <1>0, <1>a DEF CloseInv
<1>b. CASE ~closed /\ UNCHANGED <<closed, closing, closeStep>>
  BY <1>0, <1>b DEF CloseInv, TypeOK
<1>1. ASSUME NEW c \in Callers, OpenStream(c) PROVE CloseInv'
  <2>1. UNCHANGED <<closed, closing, closeStep>> /\ (UNCHANGED streams \/ ~closed)
    BY Zenon, <1>1, OpenEffect DEF Opened
  <2> QED
    BY <1>a, <1>b, <2>1
<1>2. ASSUME NEW c \in Callers, Wake(c) PROVE CloseInv'
  BY Zenon, <1>2, <1>a DEF Wake
<1>3. CASE AcceptStream
  BY Zenon, <1>3, <1>a DEF AcceptStream
<1>4. CASE StreamCalls
  BY Zenon, <1>4, <1>a DEF StreamCalls, Write, CloseWrite, CancelWrite, CancelRead
<1>5. ASSUME NEW p \in pending, Purge(p) \/ SendReliable(p) PROVE CloseInv'
  BY Zenon, <1>5, <1>a DEF Purge, SendReliable
<1>6. ASSUME NEW f \in inbox, Recv(f) PROVE CloseInv'
  <2>1. ~closed /\ UNCHANGED <<closed, closing, closeStep>>
    BY Zenon, <1>6 DEF Recv, RecvKnown, RecvNew, RecvRefused, RecvReset, RecvStopSending
  <2> QED
    BY <1>b, <2>1
<1>7. ASSUME NEW f \in entries, RecvAck(f) PROVE CloseInv'
  BY Zenon, <1>7, <1>a DEF RecvAck
<1>8. CASE GcStart \/ \E id \in Ids : GcCheck(id) \/ GcPurge(id) \/ GcBury(id) \/ GcSignal(id)
  BY Zenon, <1>8, <1>a DEF GcStart, GcCheck, GcPurge, GcBury, GcSignal
<1>9. ASSUME NEW id \in Ids, GcRemove(id) PROVE CloseInv'
  <2>1. streams' = streams \ {id} /\ UNCHANGED <<closed, closing, closeStep>>
    BY Zenon, <1>9 DEF GcRemove
  <2> QED
    BY <1>0, <2>1 DEF CloseInv
<1>10. ASSUME NEW old \in SUBSET deadStreams, Expire(old) PROVE CloseInv'
  BY Zenon, <1>10, <1>a DEF Expire
<1>11. CASE CloseBegin
  BY <1>0, <1>11 DEF CloseBegin, CloseInv
<1>12. CASE CloseFence
  BY <1>0, <1>12 DEF CloseFence, CloseInv
<1>13. CASE CloseReturn
  BY <1>0, <1>13 DEF CloseReturn, CloseInv
<1>14. ASSUME NEW id \in Ids, deliverClose(id) PROVE CloseInv'
  BY <1>0, <1>14 DEF deliverClose, CloseInv
<1>15. ASSUME NEW f \in outbox, PeerReceive(f) PROVE CloseInv'
  BY Zenon, <1>15, <1>a DEF PeerReceive
<1>16. CASE UNCHANGED vars
  BY Zenon, <1>16, <1>a DEF vars
<1> QED
  BY Zenon, <1>1, <1>2, <1>3, <1>4, <1>5, <1>6, <1>7, <1>8, <1>9, <1>10, <1>11, <1>12,
     <1>13, <1>14, <1>15, <1>16 DEF Next, Collector, Close

-------------------------------------------------------------------------------
(* Who changes what.                                                       *)

\* A stream is put into the table by OpenStream or by a frame of the peer.
LEMMA LivesWriters ==
  ASSUME [Next]_vars
  PROVE  \/ UNCHANGED lives
         \/ \E c \in Callers : OpenStream(c)
         \/ \E f \in inbox : Recv(f) /\ RecvNew(f)
<1> USE DEF tableVars
<1>1. CASE AcceptStream \/ StreamCalls \/ \E c \in Callers : Wake(c)
  BY Zenon, <1>1 DEF AcceptStream, StreamCalls, Wake, Write, CloseWrite, CancelWrite,
     CancelRead
<1>2. CASE (\E p \in pending : Purge(p) \/ SendReliable(p)) \/ \E f \in entries : RecvAck(f)
  BY Zenon, <1>2 DEF Purge, SendReliable, RecvAck
<1>3. ASSUME NEW f \in inbox, Recv(f) PROVE UNCHANGED lives \/ RecvNew(f)
  BY Zenon, <1>3 DEF Recv, RecvKnown, RecvRefused, RecvReset, RecvStopSending
<1>4. CASE Collector \/ \E old \in SUBSET deadStreams : Expire(old)
  BY Zenon, <1>4 DEF Collector, GcStart, GcCheck, GcRemove, GcPurge, GcBury, GcSignal,
     Expire
<1>5. CASE Close \/ \E f \in outbox : PeerReceive(f)
  BY Zenon, <1>5 DEF Close, CloseBegin, CloseFence, CloseReturn, deliverClose, PeerReceive
<1>6. CASE UNCHANGED vars
  BY Zenon, <1>6 DEF vars
<1> QED
  BY Zenon, <1>1, <1>2, <1>3, <1>4, <1>5, <1>6 DEF Next

\* The counts grow one at a time.
LEMMA LivesStep ==
  ASSUME TypeOK, [Next]_vars
  PROVE  \A id \in Ids : lives'[id] \in {lives[id], lives[id] + 1}
<1>1. lives \in [Ids -> Nat]
  BY DEF TypeOK
<1>2. \/ UNCHANGED lives
      \/ \E id \in Ids : lives' = [lives EXCEPT ![id] = @ + 1]
  BY Zenon, LivesWriters, OpenEffect, RecvNewEffect DEF Opened, tableVars
<1> QED
  BY <1>1, <1>2

\* OpenStream uses an id that was never in the table, and streamForFrame opens
\* ids of the peer's parity only.
LEMMA OwnLivesOnceStep ==
  ASSUME StreamTableInv, [Next]_vars
  PROVE  OwnLivesOnce'
<1>0. /\ TypeOK /\ TableInv /\ OwnLivesOnce
      /\ lives \in [Ids -> Nat] /\ nextStream \in Nat /\ ~PeerInitiated(nextStream)
  BY DEF StreamTableInv, TypeOK
<1> SUFFICES ASSUME NEW id \in Ids, ~PeerInitiated(id)
             PROVE  lives'[id] <= 1
  BY Zenon DEF OwnLivesOnce, PeerInitiated
<1>1. lives[id] \in Nat /\ lives[id] <= 1
  BY <1>0 DEF OwnLivesOnce
<1>2. CASE UNCHANGED lives
  BY <1>1, <1>2
<1>3. ASSUME NEW c \in Callers, OpenStream(c) PROVE lives'[id] <= 1
  <2>1. CASE UNCHANGED lives
    BY <1>1, <2>1
  <2>2. ASSUME NEW new \in Ids, Opened(new) PROVE lives'[id] <= 1
    <3>1. new = nextStream /\ lives' = [lives EXCEPT ![new] = @ + 1]
      BY Zenon, <2>2 DEF Opened
    <3>2. lives[new] = 0
      BY <1>0, <3>1 DEF TableInv
    <3> QED
      BY <1>0, <1>1, <3>1, <3>2
  <2> QED
    BY Zenon, <1>3, <2>1, <2>2, OpenEffect DEF tableVars
<1>4. ASSUME NEW f \in inbox, RecvNew(f) PROVE lives'[id] <= 1
  <2>1. f.id \in Ids /\ OpensStream(f.id) /\ lives' = [lives EXCEPT ![f.id] = @ + 1]
    BY Zenon, <1>0, <1>4, RecvNewEffect
  <2>2. f.id # id
    BY Zenon, <2>1 DEF OpensStream
  <2> QED
    BY <1>0, <1>1, <2>1, <2>2
<1> QED
  BY Zenon, <1>2, <1>3, <1>4, LivesWriters

\* A connection that is closed stays closed.
LEMMA ClosedStays ==
  ASSUME closed, [Next]_vars
  PROVE  closed'
<1> USE DEF closeVars
<1>1. CASE AcceptStream \/ StreamCalls \/ \E c \in Callers : OpenStream(c) \/ Wake(c)
  BY Zenon, <1>1 DEF AcceptStream, StreamCalls, OpenStream, Wake, Write, CloseWrite,
     CancelWrite, CancelRead
<1>2. CASE (\E p \in pending : Purge(p) \/ SendReliable(p)) \/ \E f \in entries : RecvAck(f)
  BY Zenon, <1>2 DEF Purge, SendReliable, RecvAck
<1>3. ASSUME NEW f \in inbox, Recv(f) PROVE closed'
  BY Zenon, <1>3 DEF Recv
<1>4. CASE Collector \/ \E old \in SUBSET deadStreams : Expire(old)
  BY Zenon, <1>4 DEF Collector, GcStart, GcCheck, GcRemove, GcPurge, GcBury, GcSignal,
     Expire
<1>5. CASE Close \/ \E f \in outbox : PeerReceive(f)
  BY Zenon, <1>5 DEF Close, CloseBegin, CloseFence, CloseReturn, deliverClose, PeerReceive
<1>6. CASE UNCHANGED vars
  BY Zenon, <1>6 DEF vars
<1> QED
  BY Zenon, <1>1, <1>2, <1>3, <1>4, <1>5, <1>6 DEF Next

\* Only Write makes a DATA frame missing at the peer: a call that is through
\* with a purge has its RESET in the path.
LEMMA UnackedStep ==
  ASSUME TypeOK, [Next]_vars, NEW id \in Ids, Unacked(id)'
  PROVE  Unacked(id) \/ Write(id)
<1> USE DEF tableVars, streamVars, appVars, gcVars, closeVars, pathVars
<1>0. /\ F(id, "data") \in outbox' /\ F(id, "data") \notin peerGot'
      /\ F(id, "reset") \notin outbox'
      /\ \A q \in pending' : q.id = id => q.kind = "fin"
  BY DEF Unacked
<1>a. ASSUME UNCHANGED <<outbox, peerGot, pending>> PROVE Unacked(id)
  BY <1>0, <1>a DEF Unacked
<1>b. ASSUME pending \subseteq pending', outbox \subseteq outbox', peerGot \subseteq peerGot',
             F(id, "data") \in outbox
      PROVE  Unacked(id)
  BY <1>0, <1>b DEF Unacked
<1>c. ASSUME NEW i, NEW k, k # "data", outbox' = outbox \cup {F(i, k)}
      PROVE  F(id, "data") \in outbox
  BY <1>0, <1>c, FrameFacts
<1>1. CASE AcceptStream \/ \E c \in Callers : OpenStream(c) \/ Wake(c)
  BY Zenon, <1>1, <1>a DEF AcceptStream, OpenStream, Wake
<1>2. ASSUME NEW i \in Ids, Write(i) PROVE Unacked(id) \/ Write(id)
  <2>1. /\ outbox' = outbox \cup {F(i, "data")} /\ UNCHANGED <<pending, peerGot>>
    BY Zenon, <1>2 DEF Write
  <2>2. CASE i # id
    <3>1. F(id, "data") \in outbox
      BY <1>0, <2>1, <2>2, FrameFacts
    <3> QED
      BY <1>b, <2>1, <3>1
  <2> QED
    BY <1>2, <2>2
<1>3. ASSUME NEW i \in Ids, CancelRead(i) PROVE Unacked(id)
  <2>1. /\ outbox' = outbox \cup {F(i, "stop")} /\ UNCHANGED <<pending, peerGot>>
    BY Zenon, <1>3 DEF CancelRead
  <2> QED
    BY <1>b, <1>c, <2>1
<1>4. ASSUME NEW call, pending' = pending \cup {call}, UNCHANGED <<outbox, peerGot>>
      PROVE  Unacked(id)
  BY <1>0, <1>b, <1>4
<1>5. ASSUME NEW i \in Ids, CloseWrite(i) \/ CancelWrite(i) PROVE Unacked(id)
  BY Zenon, <1>4, <1>5 DEF CloseWrite, CancelWrite, AbortWrite
<1>6. ASSUME NEW p \in pending, Purge(p) PROVE Unacked(id)
  <2>1. p \in Calls /\ pending' = (pending \ {p}) \cup {[p EXCEPT !.kind = "reset"]}
    BY <1>6 DEF Purge, TypeOK
  <2>2. /\ [p EXCEPT !.kind = "reset"].id = p.id
        /\ [p EXCEPT !.kind = "reset"].kind = "reset"
    BY Zenon, <2>1 DEF Calls
  <2>3. p.id # id
    BY Zenon, <1>0, <2>1, <2>2
  <2>4. \A q \in pending : q.id = id => q.kind = "fin"
    BY <1>0, <2>1, <2>3
  <2>5. UNCHANGED <<outbox, peerGot>>
    BY Zenon, <1>6 DEF Purge
  <2> QED
    BY <1>0, <2>4, <2>5 DEF Unacked
<1>7. ASSUME NEW p \in pending, SendReliable(p) PROVE Unacked(id)
  <2>1. /\ p.kind \in {"fin", "reset"} /\ pending' = pending \ {p}
        /\ outbox' = outbox \cup {F(p.id, p.kind)} /\ UNCHANGED peerGot
    BY Zenon, <1>7 DEF SendReliable
  <2>2. F(id, "data") \in outbox
    BY <1>c, <2>1
  <2>3. p.id = id => p.kind = "fin"
    BY <1>0, <2>1
  <2>4. \A q \in pending : q.id = id => q.kind = "fin"
    BY <1>0, <2>1, <2>3
  <2> QED
    BY <1>0, <2>1, <2>2, <2>4 DEF Unacked
<1>8. ASSUME NEW f \in inbox, RecvKnown(f) \/ RecvNew(f) \/ RecvReset(f) PROVE Unacked(id)
  BY Zenon, <1>8, <1>a DEF RecvKnown, RecvNew, RecvReset
<1>9. ASSUME NEW f \in inbox, RecvRefused(f) PROVE Unacked(id)
  <2>1. outbox' = outbox \cup {F(f.id, "refuse")} /\ UNCHANGED <<pending, peerGot>>
    BY Zenon, <1>9 DEF RecvRefused
  <2> QED
    BY <1>b, <1>c, <2>1
<1>10. ASSUME NEW f \in inbox, RecvStopSending(f) PROVE Unacked(id)
  BY Zenon, <1>4, <1>10 DEF RecvStopSending, AbortWrite
<1>11. CASE (\E f \in entries : RecvAck(f)) \/ Collector \/ \E old \in SUBSET deadStreams : Expire(old)
  BY Zenon, <1>11, <1>a DEF RecvAck, Collector, GcStart, GcCheck, GcRemove, GcPurge, GcBury,
     GcSignal, Expire
<1>12. CASE Close
  BY Zenon, <1>12, <1>a DEF Close, CloseBegin, CloseFence, CloseReturn, deliverClose
<1>13. ASSUME NEW f \in outbox, PeerReceive(f) PROVE Unacked(id)
  <2>1. peerGot' = peerGot \cup {f} /\ UNCHANGED <<pending, outbox>>
    BY Zenon, <1>13 DEF PeerReceive
  <2> QED
    BY <1>0, <1>b, <2>1
<1>14. CASE UNCHANGED vars
  BY Zenon, <1>14, <1>a DEF vars
<1> QED
  BY Zenon, <1>1, <1>2, <1>3, <1>5, <1>6, <1>7, <1>8, <1>9, <1>10, <1>11, <1>12, <1>13,
     <1>14 DEF Next, StreamCalls, Recv

-------------------------------------------------------------------------------
(* The table and the collector.                                            *)

\* No step loses a stream that is still in use: gcStreams removes what is
\* finished, and Close takes over what it finds.
LEMMA TableInvStep ==
  ASSUME StreamTableInv, [Next]_vars
  PROVE  TableInv'
<1> USE DEF tableVars, streamVars, appVars, gcVars, closeVars, pathVars
<1>0. TypeOK /\ TableInv /\ CollectorInv /\ CloseInv
  BY DEF StreamTableInv
<1>t. /\ lives \in [Ids -> Nat] /\ streams \subseteq Ids /\ held \subseteq Ids
      /\ gcDone \subseteq Ids /\ acceptCh \in Seq(Ids) /\ nextStream \in Nat
      /\ ~PeerInitiated(nextStream)
  BY <1>0 DEF TypeOK
<1>a. ASSUME UNCHANGED <<streams, lives, nextStream, acceptCh, closing>>,
             held' \subseteq held, gcDone' \subseteq gcDone \cup streams,
             readDone \subseteq readDone', writeDone \subseteq writeDone',
             \A id \in Ids : F(id, "data") \in outbox' => F(id, "data") \in outbox \/ id \in held
      PROVE  TableInv'
  <2>1. \A id \in Ids : finished(id) => finished(id)'
    BY <1>a DEF finished
  <2> QED
    BY <1>0, <1>a, <2>1 DEF TableInv, PeerInitiated
<1>b. CASE UNCHANGED <<streams, lives, nextStream, acceptCh, closing, held, gcDone, readDone,
                       writeDone, outbox>>
  BY <1>a, <1>b
<1>c. ASSUME NEW i, NEW k, k # "data", outbox' = outbox \cup {F(i, k)}
      PROVE  \A id \in Ids : F(id, "data") \in outbox' => F(id, "data") \in outbox
  BY <1>c, FrameFacts
<1>d. ASSUME NEW new \in Ids,
             streams' = streams \cup {new}, lives' = [lives EXCEPT ![new] = @ + 1],
             held' \subseteq held \cup {new}, UNCHANGED <<gcDone, closing, outbox>>,
             acceptCh' = acceptCh \/ acceptCh' = Append(acceptCh, new),
             \A id \in Ids \ {new} : finished(id) => finished(id)',
             nextStream' >= nextStream, nextStream' \in Nat,
             ~PeerInitiated(new) => nextStream' > new
      PROVE  TableInv'
  <2>1. /\ \A id \in Ids : lives'[id] >= lives[id] /\ (id # new => lives'[id] = lives[id])
        /\ lives'[new] > 0
    BY <1>t, <1>d
  <2>2. \A id \in Ids : lives'[id] > 0 => finished(id)' \/ id \in streams' \cup closing'
    BY <1>0, <1>d, <2>1 DEF TableInv
  <2>3. \A id \in streams' \cup held' \cup gcDone' : lives'[id] > 0
    BY <1>0, <1>t, <1>d, <2>1 DEF TableInv
  <2>4. \A i \in 1..Len(acceptCh') : lives'[acceptCh'[i]] > 0
    <3>1. \A i \in 1..Len(acceptCh) : acceptCh[i] \in Ids /\ lives'[acceptCh[i]] > 0
      BY <1>0, <1>t, <2>1 DEF TableInv
    <3>2. CASE acceptCh' = Append(acceptCh, new)
      <4>1. /\ Len(acceptCh') = Len(acceptCh) + 1 /\ acceptCh'[Len(acceptCh) + 1] = new
            /\ \A i \in 1..Len(acceptCh) : acceptCh'[i] = acceptCh[i]
        BY <1>t, <3>2
      <4> QED
        BY <1>t, <2>1, <3>1, <4>1
    <3> QED
      BY <1>d, <3>1, <3>2
  <2>5. \A id \in Ids : F(id, "data") \in outbox' => lives'[id] > 0
    BY <1>0, <1>t, <1>d, <2>1 DEF TableInv
  <2>6. \A id \in Ids : ~PeerInitiated(id) /\ id >= nextStream' => lives'[id] = 0
    <3> SUFFICES ASSUME NEW id \in Ids, ~PeerInitiated(id), id >= nextStream'
                 PROVE  lives'[id] = 0
      OBVIOUS
    <3>1. id # new /\ id >= nextStream
      BY <1>t, <1>d DEF Ids
    <3> QED
      BY <1>0, <2>1, <3>1 DEF TableInv
  <2> QED
    BY Zenon, <2>2, <2>3, <2>4, <2>5, <2>6 DEF TableInv, PeerInitiated
<1>1. ASSUME NEW c \in Callers, OpenStream(c) PROVE TableInv'
  <2>1. UNCHANGED <<streamVars, acceptCh, gcDone, closing, outbox>>
    BY Zenon, <1>1, OpenEffect
  <2>2. ASSUME NEW id \in Ids, Opened(id) PROVE TableInv'
    <3>1. /\ streams' = streams \cup {id} /\ lives' = [lives EXCEPT ![id] = @ + 1]
          /\ held' \subseteq held \cup {id}
      BY Zenon, <2>2 DEF Opened
    <3>2. nextStream' >= nextStream /\ nextStream' \in Nat /\ nextStream' > id
      BY <1>t, <2>2 DEF Opened, NextOwn
    <3>3. \A i \in Ids \ {id} : finished(i) => finished(i)'
      BY <2>1 DEF finished
    <3> QED
      BY Zenon, <1>d, <2>1, <3>1, <3>2, <3>3
  <2> QED
    BY Zenon, <1>1, <1>b, <2>1, <2>2, OpenEffect
<1>2. ASSUME NEW c \in Callers, Wake(c) PROVE TableInv'
  BY Zenon, <1>2, <1>b DEF Wake
<1>3. CASE AcceptStream
  <2>1. /\ acceptCh # <<>> /\ acceptCh' = Tail(acceptCh)
        /\ held' \subseteq held \cup {Head(acceptCh)}
        /\ UNCHANGED <<streams, lives, nextStream, closing, gcDone, readDone, writeDone, outbox>>
    BY <1>3 DEF AcceptStream
  <2>2. /\ Len(acceptCh') = Len(acceptCh) - 1 /\ Len(acceptCh) \in Nat \ {0}
        /\ Head(acceptCh) = acceptCh[1] /\ acceptCh' \in Seq(Ids)
        /\ \A i \in 1..Len(acceptCh') : acceptCh'[i] = acceptCh[i + 1]
    BY <1>t, <2>1
  <2>3. \A i \in 1..Len(acceptCh') : lives'[acceptCh'[i]] > 0
    BY <1>0, <2>1, <2>2 DEF TableInv
  <2>4. \A id \in held' : lives'[id] > 0
    BY <1>0, <2>1, <2>2 DEF TableInv
  <2> QED
    BY <1>0, <2>1, <2>3, <2>4 DEF TableInv, PeerInitiated, finished
<1>4. ASSUME NEW id \in Ids, Write(id) PROVE TableInv'
  <2>1. /\ id \in held /\ outbox' = outbox \cup {F(id, "data")}
        /\ UNCHANGED <<streams, lives, nextStream, acceptCh, closing, held, gcDone, readDone,
                       writeDone>>
    BY Zenon, <1>4 DEF Write
  <2>2. \A i \in Ids : F(i, "data") \in outbox' => F(i, "data") \in outbox \/ i \in held
    BY <2>1, FrameFacts
  <2> QED
    BY Zenon, <1>a, <2>1, <2>2
<1>5. ASSUME NEW id \in Ids, CloseWrite(id) \/ CancelWrite(id) PROVE TableInv'
  <2>1. /\ writeDone \subseteq writeDone'
        /\ UNCHANGED <<streams, lives, nextStream, acceptCh, closing, held, gcDone, readDone,
                       outbox>>
    BY Zenon, <1>5 DEF CloseWrite, CancelWrite, AbortWrite
  <2> QED
    BY <1>a, <2>1
<1>6. ASSUME NEW id \in Ids, CancelRead(id) PROVE TableInv'
  <2>1. /\ outbox' = outbox \cup {F(id, "stop")} /\ readDone \subseteq readDone'
        /\ UNCHANGED <<streams, lives, nextStream, acceptCh, closing, held, gcDone, writeDone>>
    BY Zenon, <1>6 DEF CancelRead
  <2> QED
    BY <1>a, <1>c, <2>1
<1>7. ASSUME NEW p \in pending, Purge(p) PROVE TableInv'
  BY Zenon, <1>7, <1>b DEF Purge
<1>8. ASSUME NEW p \in pending, SendReliable(p) PROVE TableInv'
  <2>1. /\ p.kind \in {"fin", "reset"} /\ outbox' = outbox \cup {F(p.id, p.kind)}
        /\ UNCHANGED <<streams, lives, nextStream, acceptCh, closing, held, gcDone, readDone,
                       writeDone>>
    BY Zenon, <1>8 DEF SendReliable
  <2> QED
    BY <1>a, <1>c, <2>1
<1>9. ASSUME NEW f \in inbox, RecvKnown(f) \/ RecvReset(f) \/ RecvStopSending(f)
      PROVE  TableInv'
  <2>1. readDone \subseteq readDone' /\ writeDone \subseteq writeDone'
    BY Zenon, <1>0, <1>9, RecvKnownEffect DEF RecvReset, RecvStopSending, AbortWrite
  <2>2. UNCHANGED <<streams, lives, nextStream, acceptCh, closing, held, gcDone, outbox>>
    BY Zenon, <1>9 DEF RecvKnown, RecvReset, RecvStopSending
  <2> QED
    BY <1>a, <2>1, <2>2
<1>10. ASSUME NEW f \in inbox, RecvRefused(f) PROVE TableInv'
  <2>1. /\ outbox' = outbox \cup {F(f.id, "refuse")}
        /\ UNCHANGED <<streams, lives, nextStream, acceptCh, closing, held, gcDone, readDone,
                       writeDone>>
    BY Zenon, <1>10 DEF RecvRefused
  <2> QED
    BY <1>a, <1>c, <2>1
<1>11. ASSUME NEW f \in inbox, RecvNew(f) PROVE TableInv'
  <2>1. /\ f.id \in Ids /\ OpensStream(f.id)
        /\ streams' = streams \cup {f.id} /\ lives' = [lives EXCEPT ![f.id] = @ + 1]
        /\ held' = held \ {f.id}
        /\ acceptCh' = acceptCh \/ acceptCh' = Append(acceptCh, f.id)
        /\ \A id \in readDone : id # f.id => id \in readDone'
        /\ writeDone' = writeDone \ {f.id}
        /\ UNCHANGED <<nextStream, gcDone, closing, outbox>>
    BY Zenon, <1>0, <1>11, RecvNewEffect
  <2>2. PeerInitiated(f.id) /\ held' \subseteq held \cup {f.id}
    BY <2>1 DEF OpensStream
  <2>3. \A id \in Ids \ {f.id} : finished(id) => finished(id)'
    BY <2>1 DEF finished
  <2>4. nextStream' >= nextStream /\ nextStream' \in Nat
    BY <1>t, <2>1
  <2> QED
    BY Zenon, <1>d, <2>1, <2>2, <2>3, <2>4
<1>12. ASSUME NEW f \in entries, RecvAck(f) PROVE TableInv'
  BY Zenon, <1>12, <1>b DEF RecvAck
<1>13. CASE GcStart \/ \E id \in Ids : GcPurge(id) \/ GcBury(id)
  BY Zenon, <1>13, <1>b DEF GcStart, GcPurge, GcBury
<1>14. ASSUME NEW id \in Ids, GcCheck(id) \/ GcSignal(id) PROVE TableInv'
  <2>1. gcDone' \subseteq gcDone \cup streams
    BY <1>0, <1>14 DEF GcCheck, GcSignal, CollectorInv
  <2>2. UNCHANGED <<streams, lives, nextStream, acceptCh, closing, held, readDone, writeDone,
                    outbox>>
    BY Zenon, <1>14 DEF GcCheck, GcSignal
  <2> QED
    BY <1>a, <2>1, <2>2
<1>15. ASSUME NEW id \in Ids, GcRemove(id) PROVE TableInv'
  <2>1. /\ gcStep = Idle /\ id \in gcDone /\ streams' = streams \ {id}
        /\ UNCHANGED <<lives, nextStream, acceptCh, closing, held, gcDone, readDone, writeDone,
                       outbox>>
    BY Zenon, <1>15 DEF GcRemove
  <2>2. gcStep[2] # id
    BY <2>1 DEF Idle, Ids
  <2>3. finished(id)
    BY <1>0, <2>1, <2>2 DEF CollectorInv
  <2> QED
    BY <1>0, <2>1, <2>3 DEF TableInv, PeerInitiated, finished
<1>16. ASSUME NEW old \in SUBSET deadStreams, Expire(old) PROVE TableInv'
  BY Zenon, <1>16, <1>b DEF Expire
<1>17. CASE CloseBegin \/ CloseReturn
  BY Zenon, <1>17, <1>b DEF CloseBegin, CloseReturn
<1>18. CASE CloseFence
  <2>1. /\ closeStep = "fence" /\ closing' = streams /\ streams' = {}
        /\ UNCHANGED <<lives, nextStream, acceptCh, held, gcDone, readDone, writeDone, outbox>>
    BY Zenon, <1>18 DEF CloseFence
  <2>2. closing = {}
    BY <1>0, <2>1 DEF CloseInv
  <2> QED
    BY <1>0, <2>1, <2>2 DEF TableInv, PeerInitiated, finished
<1>19. ASSUME NEW id \in Ids, deliverClose(id) PROVE TableInv'
  <2>1. /\ closing' = closing \ {id} /\ readDone' = readDone \cup {id}
        /\ writeDone' = writeDone \cup {id}
        /\ UNCHANGED <<streams, lives, nextStream, acceptCh, held, gcDone, outbox>>
    BY Zenon, <1>19 DEF deliverClose
  <2> QED
    BY <1>0, <2>1 DEF TableInv, PeerInitiated, finished
<1>20. ASSUME NEW f \in outbox, PeerReceive(f) PROVE TableInv'
  BY Zenon, <1>20, <1>b DEF PeerReceive
<1>21. CASE UNCHANGED vars
  BY Zenon, <1>21, <1>b DEF vars
<1> QED
  BY Zenon, <1>1, <1>2, <1>3, <1>4, <1>5, <1>6, <1>7, <1>8, <1>9, <1>10, <1>11, <1>12,
     <1>13, <1>14, <1>15, <1>16, <1>17, <1>18, <1>19, <1>20, <1>21
     DEF Next, StreamCalls, Recv, Collector, Close

\* What the scan found stays true: a stream in gcDone is in the table until
\* removeStream takes it out, and nobody writes to it.
LEMMA CollectorInvStep ==
  ASSUME StreamTableInv, [Next]_vars
  PROVE  CollectorInv'
<1> USE DEF tableVars, streamVars, appVars, gcVars, closeVars, pathVars
<1>0. TypeOK /\ TableInv /\ CollectorInv /\ DataKept
  BY DEF StreamTableInv
<1>t. /\ lives \in [Ids -> Nat] /\ gcDone \subseteq Ids /\ nextStream \in Nat
      /\ ~PeerInitiated(nextStream)
  BY <1>0 DEF TypeOK
<1>w. ASSUME NEW id \in gcDone, lives[id] = 1, ~closed, Unacked(id)' PROVE FALSE
  <2>1. Unacked(id) \/ Write(id)
    BY <1>0, <1>t, <1>w, UnackedStep
  <2>2. id \in writeDone /\ ~Unacked(id)
    BY <1>0, <1>w DEF CollectorInv, finished
  <2> QED
    BY <2>1, <2>2 DEF Write
<1>a. ASSUME UNCHANGED <<streams, lives, gcScan, gcDone, gcStep>>, closed => closed',
             readDone \subseteq readDone', writeDone \subseteq writeDone'
      PROVE  CollectorInv'
  <2>1. \A id \in Ids : finished(id) => finished(id)'
    BY <1>a DEF finished
  <2> QED
    BY <1>0, <1>a, <1>t, <1>w, <2>1 DEF CollectorInv
<1>b. CASE UNCHANGED <<streams, lives, gcScan, gcDone, gcStep, readDone, writeDone, closed>>
  BY <1>a, <1>b
<1>c. ASSUME NEW new \in Ids,
             gcScan = {}, streams' = streams \cup {new},
             lives' = [lives EXCEPT ![new] = @ + 1],
             \A id \in Ids \ {new} : finished(id) => finished(id)',
             new \in gcDone => ~closed /\ new \notin streams,
             UNCHANGED <<gcScan, gcDone, gcStep, closed>>
      PROVE  CollectorInv'
  <2>1. /\ \A id \in Ids : id # new => lives'[id] = lives[id]
        /\ lives'[new] = lives[new] + 1
    BY <1>t, <1>c
  <2>2. new \in gcDone => gcStep[2] = new /\ lives'[new] # 1
    BY <1>0, <1>t, <1>c, <2>1 DEF CollectorInv, TableInv
  <2>3. ASSUME NEW id \in gcDone
        PROVE  /\ gcStep[2] # id => finished(id)' /\ (~closed => id \in streams')
               /\ lives'[id] = 1 => finished(id)' /\ (~closed => ~Unacked(id)')
    <3>1. CASE id = new
      BY <2>2, <3>1
    <3>2. CASE id # new
      BY <1>0, <1>t, <1>c, <1>w, <2>1, <3>2 DEF CollectorInv
    <3> QED
      BY <3>1, <3>2
  <2> QED
    BY <1>0, <1>c, <2>3 DEF CollectorInv
<1>1. ASSUME NEW c \in Callers, OpenStream(c) PROVE CollectorInv'
  <2>1. UNCHANGED <<readDone, writeDone, gcScan, gcDone, gcStep, closed>>
    BY Zenon, <1>1, OpenEffect
  <2>2. ASSUME NEW id \in Ids, Opened(id) PROVE CollectorInv'
    <3>1. id \notin gcDone
      BY <1>0, <1>t, <2>2 DEF Opened, TableInv
    <3>2. \A i \in Ids \ {id} : finished(i) => finished(i)'
      BY <2>1 DEF finished
    <3>3. /\ gcScan = {} /\ streams' = streams \cup {id}
          /\ lives' = [lives EXCEPT ![id] = @ + 1]
      BY Zenon, <2>2 DEF Opened, StreamMuFree
    <3> QED
      BY Zenon, <1>c, <2>1, <3>1, <3>2, <3>3
  <2> QED
    BY Zenon, <1>1, <1>b, <2>1, <2>2, OpenEffect
<1>2. CASE AcceptStream \/ \E c \in Callers : Wake(c)
  BY Zenon, <1>2, <1>b DEF AcceptStream, Wake
<1>3. CASE StreamCalls
  <2>1. /\ readDone \subseteq readDone' /\ writeDone \subseteq writeDone'
        /\ UNCHANGED <<streams, lives, gcScan, gcDone, gcStep, closed>>
    BY Zenon, <1>3 DEF StreamCalls, Write, CloseWrite, CancelWrite, CancelRead, AbortWrite
  <2> QED
    BY <1>a, <2>1
<1>4. ASSUME NEW p \in pending, Purge(p) \/ SendReliable(p) PROVE CollectorInv'
  BY Zenon, <1>4, <1>b DEF Purge, SendReliable
<1>5. ASSUME NEW f \in inbox, RecvKnown(f) \/ RecvRefused(f) \/ RecvReset(f)
                                \/ RecvStopSending(f)
      PROVE  CollectorInv'
  <2>1. readDone \subseteq readDone' /\ writeDone \subseteq writeDone'
    BY Zenon, <1>0, <1>5, RecvKnownEffect DEF RecvRefused, RecvReset, RecvStopSending, AbortWrite
  <2>2. UNCHANGED <<streams, lives, gcScan, gcDone, gcStep, closed>>
    BY Zenon, <1>5 DEF RecvKnown, RecvRefused, RecvReset, RecvStopSending
  <2> QED
    BY <1>a, <2>1, <2>2
<1>6. ASSUME NEW f \in inbox, Recv(f), RecvNew(f) PROVE CollectorInv'
  <2>1. /\ f.id \in Ids \ streams /\ gcScan = {}
        /\ streams' = streams \cup {f.id} /\ lives' = [lives EXCEPT ![f.id] = @ + 1]
        /\ \A id \in readDone : id # f.id => id \in readDone'
        /\ writeDone' = writeDone \ {f.id}
        /\ UNCHANGED <<gcScan, gcDone, gcStep, closed>>
    BY Zenon, <1>0, <1>6, RecvNewEffect DEF StreamMuFree
  <2>2. \A id \in Ids \ {f.id} : finished(id) => finished(id)'
    BY <2>1 DEF finished
  <2>3. ~closed
    BY <1>6 DEF Recv
  <2> QED
    BY Zenon, <1>c, <2>1, <2>2, <2>3
<1>7. CASE (\E f \in entries : RecvAck(f)) \/ \E old \in SUBSET deadStreams : Expire(old)
  BY Zenon, <1>7, <1>b DEF RecvAck, Expire
<1>8. CASE GcStart
  <2>1. /\ gcDone = {} /\ gcStep = Idle /\ gcScan' = streams
        /\ UNCHANGED <<streams, gcDone, gcStep>>
    BY Zenon, <1>8 DEF GcStart
  <2> QED
    BY <2>1 DEF CollectorInv
<1>9. ASSUME NEW id \in Ids, GcCheck(id) PROVE CollectorInv'
  <2>1. /\ id \in gcScan /\ gcScan' = gcScan \ {id}
        /\ gcDone' = IF Collectable(id) THEN gcDone \cup {id} ELSE gcDone
        /\ UNCHANGED <<streams, lives, gcStep, readDone, writeDone, entries, closed>>
    BY Zenon, <1>9 DEF GcCheck
  <2>2. UNCHANGED <<outbox, peerGot, pending>>
    BY Zenon, <1>9 DEF GcCheck
  <2>3. id \in streams
    BY <1>0, <2>1 DEF CollectorInv
  <2>4. Collectable(id) => finished(id) /\ (lives[id] = 1 /\ ~closed => ~Unacked(id))
    <3>1. F(id, "data").id = id
      BY FrameFacts
    <3> QED
      BY <1>0, <3>1 DEF Collectable, hasStream, DataKept, Unacked
  <2>5. \A i \in Ids : (finished(i)' <=> finished(i)) /\ (Unacked(i)' <=> Unacked(i))
    BY <2>1, <2>2 DEF finished, Unacked
  <2> QED
    BY <1>0, <1>t, <2>1, <2>3, <2>4, <2>5 DEF CollectorInv
<1>10. ASSUME NEW id \in Ids, GcRemove(id) PROVE CollectorInv'
  <2>1. /\ gcStep = Idle /\ gcScan = {} /\ id \in gcDone /\ streams' = streams \ {id}
        /\ gcStep' = <<"purge", id>>
        /\ UNCHANGED <<lives, gcScan, gcDone, readDone, writeDone, closed>>
    BY Zenon, <1>10 DEF GcRemove
  <2>2. gcStep'[2] = id /\ \A i \in Ids : gcStep[2] # i
    BY <2>1 DEF Idle, Ids
  <2>3. \A i \in Ids : finished(i)' <=> finished(i)
    BY <2>1 DEF finished
  <2> QED
    BY <1>0, <1>t, <1>w, <2>1, <2>2, <2>3 DEF CollectorInv
<1>11. ASSUME NEW id \in Ids, GcPurge(id) \/ GcBury(id) PROVE CollectorInv'
  <2>1. /\ gcStep = <<"purge", id>> \/ gcStep = <<"bury", id>>
        /\ gcStep' = <<"bury", id>> \/ gcStep' = <<"signal", id>>
        /\ UNCHANGED <<streams, lives, gcScan, gcDone, readDone, writeDone, closed>>
    BY Zenon, <1>11 DEF GcPurge, GcBury
  <2>2. gcStep[2] = id /\ gcStep'[2] = id /\ gcStep # Idle
    BY <2>1 DEF Idle
  <2>3. \A i \in Ids : finished(i)' <=> finished(i)
    BY <2>1 DEF finished
  <2> QED
    BY <1>0, <1>t, <1>w, <2>1, <2>2, <2>3 DEF CollectorInv
<1>12. ASSUME NEW id \in Ids, GcSignal(id) PROVE CollectorInv'
  <2>1. /\ gcStep = <<"signal", id>> /\ gcStep' = Idle /\ gcDone' = gcDone \ {id}
        /\ UNCHANGED <<streams, lives, gcScan, readDone, writeDone, closed>>
    BY Zenon, <1>12 DEF GcSignal
  <2>2. gcStep[2] = id
    BY <2>1
  <2>3. \A i \in Ids : finished(i)' <=> finished(i)
    BY <2>1 DEF finished
  <2> QED
    BY <1>0, <1>t, <1>w, <2>1, <2>2, <2>3 DEF CollectorInv
<1>13. CASE CloseBegin \/ CloseReturn
  <2>1. UNCHANGED <<streams, lives, gcScan, gcDone, gcStep, readDone, writeDone>>
    BY Zenon, <1>13 DEF CloseBegin, CloseReturn
  <2> QED
    BY <1>a, <2>1, ClosedStays
<1>14. CASE CloseFence
  <2>1. /\ gcScan = {} /\ closeStep = "fence"
        /\ UNCHANGED <<lives, gcScan, gcDone, gcStep, readDone, writeDone, closed>>
    BY Zenon, <1>14 DEF CloseFence, StreamMuFree
  <2>2. closed
    BY <2>1 DEF StreamTableInv, CloseInv
  <2>3. \A i \in Ids : finished(i)' <=> finished(i)
    BY <2>1 DEF finished
  <2> QED
    BY <1>0, <1>t, <2>1, <2>2, <2>3 DEF CollectorInv
<1>15. ASSUME NEW id \in Ids, deliverClose(id) PROVE CollectorInv'
  <2>1. /\ readDone \subseteq readDone' /\ writeDone \subseteq writeDone'
        /\ UNCHANGED <<streams, lives, gcScan, gcDone, gcStep, closed>>
    BY Zenon, <1>15 DEF deliverClose
  <2> QED
    BY <1>a, <2>1
<1>16. ASSUME NEW f \in outbox, PeerReceive(f) PROVE CollectorInv'
  BY Zenon, <1>16, <1>b DEF PeerReceive
<1>17. CASE UNCHANGED vars
  BY Zenon, <1>17, <1>b DEF vars
<1> QED
  BY Zenon, <1>1, <1>2, <1>3, <1>4, <1>5, <1>6, <1>7, <1>8, <1>9, <1>10, <1>11, <1>12,
     <1>13, <1>14, <1>15, <1>16, <1>17 DEF Next, Recv, Collector, Close

\* A DATA frame the peer is missing leaves the retransmit queue only with a
\* reset; the collector's purge is of streams that have none.
LEMMA DataKeptStep ==
  ASSUME StreamTableInv, [Next]_vars
  PROVE  DataKept'
<1> USE DEF tableVars, streamVars, appVars, gcVars, closeVars, pathVars
<1> SUFFICES ASSUME NEW id \in Ids, Unacked(id)', lives'[id] = 1, ~closed'
             PROVE  F(id, "data") \in entries'
  BY DEF DataKept, Unacked
<1>0. TypeOK /\ TableInv /\ CollectorInv /\ DataKept
  BY DEF StreamTableInv
<1>1. ASSUME NEW i \in Ids, Write(i) PROVE F(i, "data") \in entries' /\ entries \subseteq entries'
  BY Zenon, <1>1 DEF Write
<1>2. Unacked(id) \/ Write(id)
  BY <1>0, UnackedStep
<1> SUFFICES ASSUME Unacked(id)
             PROVE  F(id, "data") \in entries'
  BY <1>1, <1>2
<1>3. lives[id] = 1 /\ ~closed
  <2>1. lives[id] \in Nat /\ lives[id] > 0
    BY <1>0 DEF TypeOK, TableInv, Unacked
  <2> QED
    BY <1>0, <2>1, LivesStep, ClosedStays
<1>4. F(id, "data") \in entries
  BY <1>0, <1>3 DEF DataKept, Unacked
<1>5. F(id, "data").id = id
  BY FrameFacts
<1>a. CASE entries \subseteq entries'
  BY <1>4, <1>a
<1>6. CASE AcceptStream \/ \E c \in Callers : OpenStream(c) \/ Wake(c)
  BY Zenon, <1>6, <1>a DEF AcceptStream, OpenStream, Wake
<1>7. CASE StreamCalls
  BY Zenon, <1>7, <1>a DEF StreamCalls, Write, CloseWrite, CancelWrite, CancelRead
<1>8. ASSUME NEW p \in pending, Purge(p) PROVE F(id, "data") \in entries'
  <2>1. p.kind = "purge" /\ entries' = {e \in entries : e.id # p.id}
    BY Zenon, <1>8 DEF Purge
  <2>2. p.id # id
    BY <2>1 DEF Unacked
  <2> QED
    BY <1>4, <1>5, <2>1, <2>2
<1>9. ASSUME NEW p \in pending, SendReliable(p) PROVE F(id, "data") \in entries'
  BY Zenon, <1>9, <1>a DEF SendReliable
<1>10. ASSUME NEW f \in inbox, Recv(f) PROVE F(id, "data") \in entries'
  BY Zenon, <1>10, <1>a DEF Recv, RecvKnown, RecvNew, RecvRefused, RecvReset,
     RecvStopSending
<1>11. ASSUME NEW f \in entries, RecvAck(f) PROVE F(id, "data") \in entries'
  <2>1. f \in peerGot /\ entries' = entries \ {f}
    BY Zenon, <1>11 DEF RecvAck
  <2> QED
    BY <1>4, <2>1 DEF Unacked
<1>12. ASSUME NEW i \in Ids, GcPurge(i) PROVE F(id, "data") \in entries'
  <2>1. gcStep = <<"purge", i>> /\ entries' = {e \in entries : e.id # i}
    BY Zenon, <1>12 DEF GcPurge
  <2>2. i \in gcDone
    BY <1>0, <2>1 DEF CollectorInv, Idle
  <2>3. i # id
    BY <1>0, <1>3, <2>2 DEF CollectorInv
  <2> QED
    BY <1>4, <1>5, <2>1, <2>3
<1>13. CASE GcStart \/ \E i \in Ids : GcCheck(i) \/ GcRemove(i) \/ GcBury(i) \/ GcSignal(i)
  BY Zenon, <1>13, <1>a DEF GcStart, GcCheck, GcRemove, GcBury, GcSignal
<1>14. CASE \E old \in SUBSET deadStreams : Expire(old)
  BY Zenon, <1>14, <1>a DEF Expire
<1>15. CASE Close
  BY Zenon, <1>15, <1>a DEF Close, CloseBegin, CloseFence, CloseReturn, deliverClose
<1>16. ASSUME NEW f \in outbox, PeerReceive(f) PROVE F(id, "data") \in entries'
  BY Zenon, <1>16, <1>a DEF PeerReceive
<1>17. CASE UNCHANGED vars
  BY Zenon, <1>17, <1>a DEF vars
<1> QED
  BY Zenon, <1>6, <1>7, <1>8, <1>9, <1>10, <1>11, <1>12, <1>13, <1>14, <1>15, <1>16, <1>17
     DEF Next, Collector

-------------------------------------------------------------------------------
(* The theorems.                                                           *)

\* A connection that has just been made satisfies the invariant.
LEMMA StreamTableInit == Init => StreamTableInv
<1> SUFFICES ASSUME Init
             PROVE  StreamTableInv
  OBVIOUS
<1>1. /\ inbox \subseteq Frames /\ plan \in Plans
      /\ caller \in [Callers -> {"trying", "waiting", "opened", "failed"}]
  <2>1. plan \in Plans /\ caller \in [Callers -> {"trying", "waiting", "opened", "failed"}]
    BY DEF Init
  <2>2. \A s \in plan.scripts : s \subseteq {"data", "fin", "reset", "stop"}
    BY Zenon, <2>1, TableAssumption
  <2>3. \A id \in Ids : \A k \in {"data", "fin", "reset", "stop"} : F(id, k) \in Frames
    BY DEF F, Frames
  <2>4. \A id \in Ids : \A s \in plan.scripts : Sent(id, s) \subseteq Frames
    BY <2>2, <2>3 DEF Sent
  <2>5. PICK script \in [{id \in Ids : PeerInitiated(id)} -> plan.scripts] :
          inbox = UNION {Sent(id, script[id]) : id \in DOMAIN script}
    BY Zenon DEF Init
  <2> QED
    BY <2>1, <2>4, <2>5
<1>2. nextStream \in Nat /\ ~PeerInitiated(nextStream)
  <2>1. nextStream = IF IsClient THEN 1 ELSE 2
    BY DEF Init
  <2>2. 1 % 2 = 1 /\ 2 % 2 = 0 /\ IsClient \in BOOLEAN
    BY TableAssumption
  <2> QED
    BY <2>1, <2>2 DEF PeerInitiated
<1>3. TypeOK
  <2>1. lives \in [Ids -> Nat] /\ acceptCh \in Seq(Ids)
    BY DEF Init
  <2>2. freed \in BOOLEAN /\ closed \in BOOLEAN
    BY Zenon DEF Init
  <2> QED
    BY Zenon, <1>1, <1>2, <2>1, <2>2 DEF Init, TypeOK
<1>4. \A id \in Ids : lives[id] = 0
  BY DEF Init
<1>5. TableInv
  BY SMTT(30), <1>4 DEF Init, TableInv
<1>6. CollectorInv /\ CloseInv /\ DataKept /\ OwnLivesOnce
  BY SMTT(30), <1>4 DEF Init, CollectorInv, CloseInv, DataKept, OwnLivesOnce
<1> QED
  BY <1>3, <1>5, <1>6 DEF StreamTableInv

\* The inductive invariant: what is in the table, what the collector took
\* from it, which ids do not come back and how far Close is.
THEOREM TableInvariant == Spec => []StreamTableInv
<1>1. StreamTableInv /\ [Next]_vars => StreamTableInv'
  BY TypeStep, TableInvStep, CollectorInvStep, CloseInvStep, DataKeptStep, OwnLivesOnceStep
     DEF StreamTableInv
<1> QED
  BY StreamTableInit, <1>1, PTL DEF Spec

\* The variables have their types, and OpenStream gives out ids of this end's
\* parity only, for any number of streams and any frames of the peer.
THEOREM TableTypes == Spec => []TypeOK
<1>1. StreamTableInv => TypeOK
  BY DEF StreamTableInv
<1> QED
  BY TableInvariant, <1>1, PTL

\* gcStreams and removeStream never take a DATA frame away that the peer
\* still misses, however the collector's steps and the writer's interleave.
THEOREM CollectorKeepsData == Spec => []DataKept
<1>1. StreamTableInv => DataKept
  BY DEF StreamTableInv
<1> QED
  BY TableInvariant, <1>1, PTL

\* A stream the application holds and has not finished with is in c.streams,
\* where streamForFrame finds it, as long as the connection is open.
THEOREM HeldIsKnown == Spec => []UsableInTable
<1>1. StreamTableInv => UsableInTable
  BY DEF StreamTableInv, TableInv, CloseInv, TypeOK, UsableInTable
<1> QED
  BY TableInvariant, <1>1, PTL

\* When Close has returned no stream is in the table and both directions of
\* each are over, also when OpenStream, the collector or a frame raced with it.
THEOREM CloseReleases == Spec => []ReleasedByClose
<1>1. StreamTableInv => ReleasedByClose
  BY DEF StreamTableInv, TableInv, CloseInv, ReleasedByClose
<1> QED
  BY TableInvariant, <1>1, PTL

\* No frame, however late, revives a stream this end opened, and OpenStream
\* never gives its id out again, although tombstones expire by age alone.
THEOREM OwnStreamsLiveOnce == Spec => []OwnLivesOnce
<1>1. StreamTableInv => OwnLivesOnce
  BY DEF StreamTableInv
<1> QED
  BY TableInvariant, <1>1, PTL
===============================================================================
