---------------------- MODULE ConnectionLifecycleTheorems ----------------------
(***************************************************************************)
(* The listener's table, its sockets and its shutdown, for any number of   *)
(* peers and connections.                                                  *)
(***************************************************************************)
EXTENDS ConnectionLifecycle, TLAPS

-------------------------------------------------------------------------------
(* The inductive invariant.                                                *)

\* What TypeOK leaves to the other variables.
ControlTypes ==
  /\ reader \in [step : {"receive", "publish", "start", "acknowledge", "close",
                         "offer", "returned"},
                 making : Conns \cup {None}]
  /\ closing \in [step : {"open", "join", "each", "done"},
                  now : Conns \cup {None}, left : SUBSET Conns]
  /\ accepted \subseteq Conns

\* A connection that Close has not taken out of the table yet.
Tracked(r) == r.step \in {"open", "fence", "join", "remove"}

\* doneWg counts the workers that run and those that start has yet to launch.
Counted(r) ==
  /\ r.running \subseteq r.registered
  /\ r.toLaunch = order => r.registered = Workers /\ r.running = {}
  /\ r.toLaunch = <<"keepAlive">> => "keepAlive" \in r.registered \ r.running
  /\ r.step \in {"remove", "done"} => r.registered = {}
  /\ r.registered # {} => r.addr # None

\* What readLoop has in hand: nobody but readLoop knows of the connection before
\* start returns, so that nothing can have closed it.
ReaderInv ==
  /\ reader.making = None <=> reader.step \in {"receive", "returned"}
  /\ reader.making # None => /\ conn[reader.making].step # "unused"
                             /\ conn[reader.making].addr \in Addrs
  /\ reader.step \in {"publish", "start"} =>
       conn[reader.making] = newConnection(conn[reader.making].addr)
  /\ reader.step = "publish" => table[conn[reader.making].addr] = None
  /\ closing.step \in {"each", "done"} => reader.step = "returned"

\* The table has connections under their own addresses, until the teardown is
\* complete; all of them, until Listener.Close has taken its snapshot.
TableInv ==
  /\ \A a \in Addrs : table[a] # None =>
       conn[table[a]].addr = a /\ Tracked(conn[table[a]])
  /\ closing.step \in {"open", "join"} =>
       \A c \in Conns : Tracked(conn[c]) =>
         /\ conn[c].addr \in Addrs
         /\ \/ table[conn[c].addr] = c
            \/ reader.step = "publish" /\ reader.making = c

\* What the application has, or can get from acceptCh, readLoop is through with.
OfferedInv ==
  /\ \A c \in accepted : conn[c].step # "unused" /\ c # reader.making
  /\ \A i \in 1..Len(acceptCh) :
       conn[acceptCh[i]].step # "unused" /\ acceptCh[i] # reader.making

\* Listener.Close forgets no connection.
ClosingInv ==
  closing.step = "each" =>
    \A c \in Conns : Tracked(conn[c]) => c \in closing.left \cup {closing.now}

LifecycleInv ==
  /\ TypeOK /\ ControlTypes
  /\ \A c \in Conns : Counted(conn[c])
  /\ ReaderInv /\ TableInv /\ OfferedInv /\ ClosingInv /\ SoleSocket /\ AllClosed
-------------------------------------------------------------------------------
(* What the steps do to a connection.                                      *)

\* A connection that only readLoop knows of.
Fresh(c) == reader.step \in {"publish", "start"} /\ reader.making = c

\* r is connection c with its identity and its place in Close kept.
Kept(c, r) ==
  /\ r \in ConnType /\ Counted(r)
  /\ r.step = conn[c].step /\ r.addr = conn[c].addr

\* At most one connection changes, one that is known, and it keeps those.
Tame ==
  \/ conn' = conn
  \/ \E c \in Conns : ~Fresh(c) /\ \E r : Kept(c, r) /\ conn' = [conn EXCEPT ![c] = r]

\* readLoop makes a connection.
Created ==
  \E m \in queued : \E n \in Conns :
    /\ reader.step = "receive" /\ table[m.addr] = None /\ conn[n] = unused
    /\ conn' = [conn EXCEPT ![n] = newConnection(m.addr)]
    /\ reader' = [step |-> "publish", making |-> n]

\* What readLoop does with a new connection, in order.
LEMMA Following ==
  /\ following["create"] = "publish" /\ following["publish"] = "start"
  /\ following["start"] = "acknowledge" /\ following["acknowledge"] = "offer"
BY DEF following

\* The go statements of start, in order.
LEMMA OrderFacts ==
  /\ order # <<>> /\ <<"keepAlive">> # <<>> /\ order # <<"keepAlive">>
  /\ Head(order) = "read" /\ Tail(order) = <<"keepAlive">>
  /\ Head(<<"keepAlive">>) = "keepAlive" /\ Tail(<<"keepAlive">>) = <<>>
<1>1. Len(order) = 2 /\ Len(<<"keepAlive">>) = 1 /\ Len(<<>>) = 0
  BY DEF order
<1> QED
  BY <1>1 DEF order

\* The next worker of a connection starts: start() counts it before.
LEMMA LaunchKept ==
  ASSUME TypeOK, NEW c \in Conns, Counted(conn[c]), Launch(c)
  PROVE  \E r : Kept(c, r) /\ conn' = [conn EXCEPT ![c] = r]
<1> DEFINE r == [conn[c] EXCEPT !.toLaunch = Tail(@),
                               !.running = @ \cup {Head(conn[c].toLaunch)}]
<1>1. conn' = [conn EXCEPT ![c] = r]
  BY Zenon DEF Launch, TypeOK, ConnType
<1>2. conn[c] \in ConnType
  BY DEF TypeOK
<1>3. CASE conn[c].toLaunch = order
  <2>1. r = [conn[c] EXCEPT !.toLaunch = <<"keepAlive">>, !.running = @ \cup {"read"}]
    BY Zenon, <1>3, OrderFacts
  <2> HIDE DEF r
  <2>2. r \in ConnType
    BY Zenon, <1>2, <2>1 DEF ConnType, Workers
  <2>3. Counted(r)
    BY <1>2, <1>3, <2>1, OrderFacts DEF ConnType, Workers, Counted
  <2>4. r.step = conn[c].step /\ r.addr = conn[c].addr
    BY <1>2, <2>1 DEF ConnType
  <2> QED
    BY <1>1, <2>2, <2>3, <2>4, Zenon DEF Kept
<1>4. CASE conn[c].toLaunch = <<"keepAlive">>
  <2>1. r = [conn[c] EXCEPT !.toLaunch = <<>>, !.running = @ \cup {"keepAlive"}]
    BY <1>4, OrderFacts
  <2> HIDE DEF r
  <2>2. r \in ConnType
    BY Zenon, <1>2, <2>1 DEF ConnType, Workers
  <2>3. Counted(r)
    BY <1>2, <1>4, <2>1, OrderFacts DEF ConnType, Workers, Counted
  <2>4. r.step = conn[c].step /\ r.addr = conn[c].addr
    BY <1>2, <2>1 DEF ConnType
  <2> QED
    BY <1>1, <2>2, <2>3, <2>4, Zenon DEF Kept
<1> QED
  BY Zenon, <1>2, <1>3, <1>4 DEF ConnType, Launch

\* A worker returns: doneWg counts one less.
LEMMA ExitedKept ==
  ASSUME TypeOK, NEW c \in Conns, Counted(conn[c]), NEW w \in conn[c].running
  PROVE  Kept(c, exited(conn[c], w))
<1>1. conn[c] \in ConnType
  BY DEF TypeOK
<1>2. exited(conn[c], w) \in ConnType
  BY Zenon, <1>1 DEF ConnType, exited
<1>3. Counted(exited(conn[c], w))
  BY <1>1, OrderFacts DEF ConnType, Counted, exited
<1> QED
  BY <1>1, <1>2, <1>3 DEF Kept, exited, ConnType

\* A tick of keepAliveLoop, which gives up after too many missed pongs.
LEMMA TickKept ==
  ASSUME TypeOK, NEW c \in Conns, Counted(conn[c]), "keepAlive" \in conn[c].running
  PROVE  Kept(c, tick(conn[c]))
<1>1. conn[c] \in ConnType
  BY DEF TypeOK
<1>2. CASE conn[c].missed + 1 > maxMissedPongs
  <2> DEFINE e == exited(conn[c], "keepAlive")
  <2>1. tick(conn[c]) = [e EXCEPT !.askedToClose = TRUE]
    BY Zenon, <1>1, <1>2 DEF tick, exited, asked, ConnType
  <2>2. e \in ConnType /\ Counted(e) /\ e.step = conn[c].step /\ e.addr = conn[c].addr
    BY ExitedKept DEF Kept
  <2> HIDE DEF e
  <2>3. tick(conn[c]) \in ConnType
    BY Zenon, <2>1, <2>2 DEF ConnType
  <2>4. Counted(tick(conn[c]))
    BY <2>1, <2>2 DEF ConnType, Counted
  <2> QED
    BY Zenon, <2>1, <2>2, <2>3, <2>4 DEF Kept, ConnType
<1>3. CASE ~(conn[c].missed + 1 > maxMissedPongs)
  <2>1. tick(conn[c]) = [conn[c] EXCEPT !.missed = @ + 1]
    BY <1>3 DEF tick
  <2>2. conn[c].missed + 1 \in 0..maxMissedPongs
    <3>1. conn[c].missed \in 0..maxMissedPongs
      BY <1>1 DEF ConnType
    <3> QED
      BY <1>3, <3>1, LifecycleAssumption
  <2>3. tick(conn[c]) \in ConnType
    BY <1>1, <2>1, <2>2 DEF ConnType
  <2>4. Counted(tick(conn[c]))
    BY <1>1, <2>1, <2>2 DEF ConnType, Counted
  <2> QED
    BY <1>1, <2>1, <2>3, <2>4 DEF Kept, ConnType
<1> QED
  BY <1>2, <1>3

\* A call of Close that waits for its turn, a sign of life, and a frame.
LEMMA DispatchKept ==
  ASSUME TypeOK, NEW c \in Conns, Counted(conn[c]), NEW kind
  PROVE  /\ Kept(c, asked(conn[c]))
         /\ Kept(c, [conn[c] EXCEPT !.missed = 0])
         /\ Kept(c, dispatchFrame(c, kind))
<1>1. conn[c] \in ConnType
  BY DEF TypeOK
<1>2. 0 \in 0..maxMissedPongs
  BY LifecycleAssumption
<1>3. Kept(c, asked(conn[c]))
  <2>1. asked(conn[c]) \in ConnType
    BY Zenon, <1>1 DEF ConnType, asked
  <2>2. Counted(asked(conn[c]))
    BY <1>1 DEF ConnType, Counted, asked
  <2> QED
    BY <1>1, <2>1, <2>2 DEF Kept, asked, ConnType
<1> DEFINE alive == [conn[c] EXCEPT !.missed = 0]
<1>4. Kept(c, alive)
  <2>1. alive \in ConnType
    BY <1>1, <1>2 DEF ConnType
  <2>2. Counted(alive)
    BY <1>1 DEF ConnType, Counted
  <2> QED
    BY <1>1, <2>1, <2>2 DEF Kept, ConnType
<1>5. Kept(c, asked(alive))
  <2>1. alive \in ConnType /\ Counted(alive)
    BY <1>4 DEF Kept
  <2>2. alive.step = conn[c].step /\ alive.addr = conn[c].addr
    BY <1>4 DEF Kept
  <2> HIDE DEF alive
  <2>3. asked(alive) \in ConnType
    BY Zenon, <2>1 DEF ConnType, asked
  <2>4. Counted(asked(alive))
    BY <2>1 DEF ConnType, Counted, asked
  <2> QED
    BY Zenon, <2>1, <2>2, <2>3, <2>4 DEF Kept, asked, ConnType
<1>6. Kept(c, conn[c])
  BY <1>1 DEF Kept
<1>7. dispatchFrame(c, kind) \in {conn[c], alive, asked(alive)}
  BY DEF dispatchFrame
<1> HIDE DEF alive
<1>8. Kept(c, dispatchFrame(c, kind))
  BY <1>4, <1>5, <1>6, <1>7
<1> QED
  BY <1>3, <1>4, <1>8 DEF alive

\* Nobody else can have touched a connection before start returns.
LEMMA FreshUntouched ==
  ASSUME LifecycleInv, NEW c \in Conns, Fresh(c)
  PROVE  /\ conn[c].step = "open" /\ conn[c].registered = {} /\ conn[c].running = {}
         /\ conn[c].toLaunch = <<>> /\ ~conn[c].askedToClose
         /\ c \notin accepted
         /\ closing.step \in {"open", "join"}
<1>1. conn[c] = newConnection(conn[c].addr)
  BY DEF LifecycleInv, ReaderInv, Fresh
<1>2. c \notin accepted
  BY DEF LifecycleInv, OfferedInv, Fresh
<1>3. closing.step \in {"open", "join"}
  BY DEF LifecycleInv, ReaderInv, ControlTypes, Fresh
<1> QED
  BY <1>1, <1>2, <1>3 DEF newConnection

\* A datagram that readLoop takes goes to a tracked connection, is dropped, or
\* makes a connection.
LEMMA ReceiveCases ==
  ASSUME LifecycleInv, NEW m \in queued, Receive(m)
  PROVE  \/ \E c \in Conns : /\ table[m.addr] = c
                             /\ conn' = [conn EXCEPT ![c] = dispatchFrame(c, m.kind)]
                             /\ wire' = wire \cup answers(c, m.kind)
                             /\ reader' = idle
         \/ conn' = conn /\ wire' = wire /\ reader' = idle
         \/ Created /\ wire' = wire
<1>1. table[m.addr] \in Conns \cup {None} /\ m.addr \in Addrs
  BY DEF LifecycleInv, TypeOK, Datagrams
<1>2. CASE table[m.addr] # None
  BY <1>1, <1>2 DEF Receive
<1>3. CASE table[m.addr] = None /\ reader' # idle
  <2> DEFINE n == CHOOSE x \in Unused : TRUE
  <2>1. /\ Unused # {} /\ UNCHANGED wire
        /\ conn' = [conn EXCEPT ![n] = newConnection(m.addr)]
        /\ reader' = at(following["create"], n)
    BY <1>3, Zenon DEF Receive
  <2>2. n \in Unused
    BY <2>1, Zenon
  <2> HIDE DEF n
  <2>3. n \in Conns /\ conn[n] = unused
    BY <2>2 DEF Unused
  <2>4. reader' = [step |-> "publish", making |-> n]
    BY <2>1, Following DEF at
  <2>5. reader.step = "receive"
    BY DEF Receive
  <2> QED
    BY <1>3, <2>1, <2>3, <2>4, <2>5, Zenon DEF Created
<1>4. CASE table[m.addr] = None /\ reader' = idle
  <2>1. \/ conn' = conn /\ wire' = wire
        \/ reader' = at(following["create"], CHOOSE x \in Unused : TRUE)
    BY <1>4, Zenon DEF Receive
  <2>2. reader' # at("publish", CHOOSE x \in Unused : TRUE)
    BY <1>4 DEF idle, at
  <2> QED
    BY <1>4, <2>1, <2>2, Following
<1> QED
  BY <1>2, <1>3, <1>4

\* Apart from its creation, start and Close, no step changes more of a
\* connection than its workers, missedPongs and who has asked for a Close.
LEMMA ConnSteps ==
  ASSUME LifecycleInv, [Next]_vars
  PROVE  Tame \/ Created \/ Start \/ \E c \in Conns : CloseStep(c)
<1> USE DEF LifecycleInv
<1>1. ASSUME NEW c \in Conns, Launch(c) PROVE Tame
  <2>1. ~Fresh(c)
    BY <1>1, FreshUntouched DEF Launch
  <2> QED
    BY <1>1, <2>1, LaunchKept DEF Tame
<1>2. ASSUME NEW c \in Conns, readLoopReturns(c) PROVE Tame
  <2>1. "read" \in conn[c].running /\ conn' = [conn EXCEPT ![c] = exited(conn[c], "read")]
    BY <1>2 DEF readLoopReturns, TypeOK
  <2> QED
    BY Zenon, <2>1, FreshUntouched, ExitedKept DEF Tame
<1>3. ASSUME NEW c \in Conns, keepAliveLoopReturns(c) PROVE Tame
  <2>1. /\ "keepAlive" \in conn[c].running
        /\ conn' = [conn EXCEPT ![c] = exited(conn[c], "keepAlive")]
    BY <1>3 DEF keepAliveLoopReturns, TypeOK
  <2> QED
    BY Zenon, <2>1, FreshUntouched, ExitedKept DEF Tame
<1>4. ASSUME NEW c \in Conns, keepAliveLoop(c) PROVE Tame
  <2>1. "keepAlive" \in conn[c].running /\ conn' = [conn EXCEPT ![c] = tick(conn[c])]
    BY <1>4 DEF keepAliveLoop, TypeOK
  <2> QED
    BY Zenon, <2>1, FreshUntouched, TickKept DEF Tame
<1>5. ASSUME NEW c \in Conns, Pong(c) PROVE Tame
  <2>1. "read" \in conn[c].running
    BY <1>5 DEF Pong
  <2>2. conn' = [conn EXCEPT ![c] = [conn[c] EXCEPT !.missed = 0]]
    BY <1>5 DEF Pong, TypeOK
  <2> QED
    BY Zenon, <2>1, <2>2, FreshUntouched, DispatchKept DEF Tame
<1>6. ASSUME NEW c \in Conns, AppClose(c) PROVE Tame
  <2>1. c \in accepted /\ conn' = [conn EXCEPT ![c] = asked(conn[c])]
    BY <1>6 DEF AppClose, TypeOK
  <2> QED
    BY Zenon, <2>1, FreshUntouched, DispatchKept DEF Tame
<1>7. ASSUME NEW c \in Conns, NEW m \in wire, readLoop(c, m) PROVE Tame
  <2>1. "read" \in conn[c].running
    BY <1>7 DEF readLoop
  <2>2. \/ conn' = [conn EXCEPT ![c] = exited(conn[c], "read")]
        \/ conn' = [conn EXCEPT ![c] = dispatchFrame(c, m.kind)]
    BY Zenon, <1>7 DEF readLoop, TypeOK
  <2>3. ~Fresh(c)
    BY <2>1, FreshUntouched
  <2>4. Kept(c, exited(conn[c], "read")) /\ Kept(c, dispatchFrame(c, m.kind))
    BY Zenon, <2>1, ExitedKept, DispatchKept
  <2> QED
    BY <2>2, <2>3, <2>4 DEF Tame
<1>8. ASSUME NEW m \in queued, Receive(m) PROVE Tame \/ Created
  <2>1. ASSUME NEW c \in Conns, conn' = [conn EXCEPT ![c] = dispatchFrame(c, m.kind)]
        PROVE  Tame
    <3>1. ~Fresh(c)
      BY <1>8 DEF Receive, Fresh
    <3> QED
      BY Zenon, <2>1, <3>1, DispatchKept DEF Tame
  <2> QED
    BY <1>8, <2>1, ReceiveCases DEF Tame
<1>9. CASE Acknowledge
  <2>1. reader.making \in Conns /\ ~Fresh(reader.making)
    BY <1>9 DEF Acknowledge, ReaderInv, ControlTypes, Fresh
  <2>2. conn' = conn \/ conn' = [conn EXCEPT ![reader.making] = asked(conn[reader.making])]
    BY <1>9, <2>1 DEF Acknowledge, TypeOK
  <2> QED
    BY Zenon, <2>1, <2>2, DispatchKept DEF Tame
<1>10. ASSUME NEW c \in Conns, ListenerCloseConn(c) PROVE Tame
  <2>1. closing.step = "each" /\ conn' = [conn EXCEPT ![c] = asked(conn[c])]
    BY <1>10 DEF ListenerCloseConn, TypeOK
  <2> QED
    BY Zenon, <2>1, FreshUntouched, DispatchKept DEF Tame
<1>11. ASSUME NEW a \in Addrs,
              Dial(a) \/ sendHandshake(a) \/ DialReturns(a) \/ ClientClose(a) \/ Vanish(a)
       PROVE  Tame
  BY <1>11 DEF Dial, sendHandshake, DialReturns, ClientClose, Vanish, Tame
<1>12. ASSUME NEW m \in wire, Arrive(m) PROVE Tame
  BY <1>12 DEF Arrive, Tame
<1>13. CASE Publish \/ AcknowledgeFailed \/ Offer \/ ReaderReturns
  BY <1>13 DEF Publish, AcknowledgeFailed, Offer, ReaderReturns, Tame
<1>14. CASE ListenerClose \/ ListenerSnapshot \/ ListenerConnClosed \/ ListenerCloseReturns
  BY <1>14 DEF ListenerClose, ListenerSnapshot, ListenerConnClosed,
               ListenerCloseReturns, Tame
<1>15. CASE AcceptReturns \/ AcceptRefused
  BY <1>15 DEF AcceptReturns, AcceptRefused, Tame
<1>16. CASE UNCHANGED vars
  BY <1>16 DEF vars, Tame
<1> QED
  BY <1>1, <1>2, <1>3, <1>4, <1>5, <1>6, <1>7, <1>8, <1>9, <1>10, <1>11, <1>12, <1>13,
     <1>14, <1>15, <1>16, Zenon
     DEF Next, ListenerStep, ListenerCloseStep

-------------------------------------------------------------------------------
(* Types, and what doneWg counts.                                          *)

\* Close moves on from one step to the next.
LEMMA CloseEffect ==
  ASSUME TypeOK, NEW c \in Conns, Counted(conn[c]), CloseStep(c)
  PROVE  \E r : /\ r \in ConnType /\ Counted(r)
                /\ r.addr = conn[c].addr /\ r.step \notin {"unused", "open"}
                /\ Tracked(conn[c])
                /\ r.step \in {"fence", "join"} => HasSocket(c)
                /\ r.step = "done" <=> CloseDone(c)
                /\ conn' = [conn EXCEPT ![c] = r]
<1>1. conn[c] \in ConnType
  BY DEF TypeOK
<1>2. 0 \in 0..maxMissedPongs
  BY LifecycleAssumption
<1>3. CASE CloseBegin(c)
  <2> DEFINE r == [conn[c] EXCEPT !.step = "fence", !.missed = 0]
  <2>1. conn' = [conn EXCEPT ![c] = r] /\ conn[c].step = "open"
    BY Zenon, <1>1, <1>3 DEF CloseBegin, TypeOK, ConnType
  <2>2. r \in ConnType /\ r.addr = conn[c].addr /\ r.step = "fence"
    BY Zenon, <1>1, <1>2 DEF ConnType
  <2>3. Counted(r)
    BY <1>1 DEF ConnType, Counted
  <2> HIDE DEF r
  <2> QED
    BY Zenon, <2>1, <2>2, <2>3 DEF Tracked, HasSocket, CloseDone
<1>4. CASE CloseFence(c)
  <2> DEFINE r == [conn[c] EXCEPT !.step = "join"]
  <2>1. conn' = [conn EXCEPT ![c] = r] /\ conn[c].step = "fence"
    BY <1>1, <1>4 DEF CloseFence, TypeOK, ConnType
  <2>2. r \in ConnType /\ r.addr = conn[c].addr /\ r.step = "join"
    BY <1>1 DEF ConnType
  <2>3. Counted(r)
    BY <1>1 DEF ConnType, Counted
  <2> HIDE DEF r
  <2> QED
    BY Zenon, <2>1, <2>2, <2>3 DEF Tracked, HasSocket, CloseDone
<1>5. CASE CloseSocket(c)
  <2> DEFINE r == [conn[c] EXCEPT !.step = "remove"]
  <2>1. /\ conn' = [conn EXCEPT ![c] = r]
        /\ conn[c].step = "join" /\ conn[c].registered = {}
    BY <1>1, <1>5 DEF CloseSocket, TypeOK, ConnType
  <2>2. r \in ConnType /\ r.addr = conn[c].addr /\ r.step = "remove"
    BY <1>1 DEF ConnType
  <2>3. Counted(r)
    BY Zenon, <1>1, <2>1 DEF ConnType, Counted
  <2> HIDE DEF r
  <2> QED
    BY Zenon, <2>1, <2>2, <2>3 DEF Tracked, HasSocket, CloseDone
<1>6. CASE CloseDone(c)
  <2> DEFINE r == [conn[c] EXCEPT !.step = "done"]
  <2>1. conn' = [conn EXCEPT ![c] = r] /\ conn[c].step = "remove"
    BY <1>1, <1>6 DEF CloseDone, TypeOK, ConnType
  <2>2. r \in ConnType /\ r.addr = conn[c].addr /\ r.step = "done"
    BY <1>1 DEF ConnType
  <2>3. Counted(r)
    BY <1>1, <2>1 DEF ConnType, Counted
  <2> HIDE DEF r
  <2> QED
    BY Zenon, <1>6, <2>1, <2>2, <2>3 DEF Tracked
<1> QED
  BY <1>3, <1>4, <1>5, <1>6 DEF CloseStep

\* start registers the workers before it launches the first.
LEMMA StartEffect ==
  ASSUME LifecycleInv, Start
  PROVE  /\ reader.making \in Conns /\ conn[reader.making].step = "open"
         /\ \E r : /\ Kept(reader.making, r)
                   /\ conn' = [conn EXCEPT ![reader.making] = r]
<1>1. reader.making \in Conns /\ Fresh(reader.making)
  BY DEF LifecycleInv, Start, ReaderInv, ControlTypes, Fresh
<1> DEFINE c == reader.making
           r == start(conn[c])
<1>2. conn[c] \in ConnType /\ Counted(conn[c])
  BY <1>1 DEF LifecycleInv, TypeOK
<1>3. conn' = [conn EXCEPT ![c] = r]
  BY <1>1 DEF Start, LifecycleInv, TypeOK
<1>4. r \in ConnType
  BY Zenon, <1>2 DEF start, ConnType, Workers
<1>5. conn[c].step = "open" /\ conn[c].running = {}
  BY <1>1, FreshUntouched
<1>6. r.running = conn[c].running /\ r.registered = Workers /\ r.toLaunch = order
  BY <1>2 DEF start, ConnType
<1>7. r.step = conn[c].step /\ r.addr = conn[c].addr
  BY <1>2 DEF start, ConnType
<1> HIDE DEF r, c
<1>8. Counted(r)
  <2>1. conn[c].addr # None
    BY <1>1, LifecycleAssumption DEF LifecycleInv, ReaderInv, c
  <2> QED
    BY <1>5, <1>6, <1>7, <2>1, OrderFacts DEF Counted
<1>9. Kept(c, r)
  BY <1>4, <1>7, <1>8 DEF Kept
<1> QED
  BY Zenon, <1>1, <1>3, <1>5, <1>9 DEF c

\* A connection is a record of its type, and doneWg counts its workers.
LEMMA CountedStep ==
  ASSUME LifecycleInv, [Next]_vars
  PROVE  conn' \in [Conns -> ConnType] /\ \A c \in Conns : Counted(conn[c])'
<1>1. conn \in [Conns -> ConnType] /\ \A c \in Conns : Counted(conn[c])
  BY DEF LifecycleInv, TypeOK
<1>2. CASE Tame
  BY <1>1, <1>2 DEF Tame, Kept
<1>3. CASE Created
  <2>1. PICK m \in queued, n \in Conns : conn' = [conn EXCEPT ![n] = newConnection(m.addr)]
    BY Zenon, <1>3 DEF Created
  <2>2. m.addr \in Addrs
    BY DEF LifecycleInv, TypeOK, Datagrams
  <2>3. newConnection(m.addr) \in ConnType
    BY <2>2, LifecycleAssumption DEF newConnection, ConnType, Workers
  <2>4. Counted(newConnection(m.addr))
    BY OrderFacts DEF Counted, newConnection
  <2> QED
    BY <1>1, <2>1, <2>3, <2>4
<1>4. CASE Start
  BY <1>1, <1>4, StartEffect DEF Kept
<1>5. ASSUME NEW c \in Conns, CloseStep(c)
      PROVE  conn' \in [Conns -> ConnType] /\ \A d \in Conns : Counted(conn'[d])
  <2>1. PICK r : r \in ConnType /\ Counted(r) /\ conn' = [conn EXCEPT ![c] = r]
    BY <1>1, <1>5, CloseEffect DEF LifecycleInv
  <2> QED
    BY <1>1, <2>1
<1> QED
  BY <1>2, <1>3, <1>4, <1>5, ConnSteps

-------------------------------------------------------------------------------
(* Which steps write which variable.                                       *)

\* Every variable but conn has few writers.
LEMMA Writers ==
  ASSUME [Next]_vars
  PROVE  /\ \/ UNCHANGED client
            \/ \E a \in Addrs : Dial(a) \/ DialReturns(a) \/ ClientClose(a) \/ Vanish(a)
         /\ \/ UNCHANGED table
            \/ Publish \/ ListenerSnapshot \/ \E c \in Conns : CloseDone(c)
         /\ UNCHANGED reader \/ ListenerStep
         /\ UNCHANGED closing \/ ListenerClose \/ ListenerCloseStep
         /\ UNCHANGED acceptCh \/ Offer \/ AcceptReturns
         /\ UNCHANGED accepted \/ AcceptReturns \/ \E c \in Conns : CloseBegin(c)
         /\ UNCHANGED queued \/ ListenerSnapshot \/ (\E m \in wire : Arrive(m))
              \/ \E m \in queued : Receive(m)
         /\ \/ UNCHANGED wire
            \/ \E a \in Addrs : sendHandshake(a) \/ DialReturns(a) \/ ClientClose(a)
                                \/ Vanish(a)
            \/ \E c \in Conns : \E m \in wire : readLoop(c, m)
            \/ \E m \in wire : Arrive(m)
            \/ \E m \in queued : Receive(m)
            \/ Acknowledge
<1> USE DEF listenerVars, acceptVars, pathVars
<1>1. ASSUME NEW c \in Conns,
             \/ Launch(c) \/ readLoopReturns(c) \/ keepAliveLoop(c)
             \/ keepAliveLoopReturns(c) \/ Pong(c) \/ AppClose(c)
             \/ CloseFence(c) \/ CloseSocket(c)
      PROVE  UNCHANGED <<client, table, reader, closing, acceptCh, accepted, queued, wire>>
  BY <1>1 DEF Launch, readLoopReturns, keepAliveLoop, keepAliveLoopReturns, Pong,
              AppClose, CloseFence, CloseSocket
<1>2. ASSUME NEW c \in Conns, CloseBegin(c) \/ CloseDone(c)
      PROVE  UNCHANGED <<client, reader, closing, acceptCh, queued, wire>>
  BY <1>2 DEF CloseBegin, CloseDone
<1>3. ASSUME NEW c \in Conns, CloseBegin(c) PROVE UNCHANGED table
  BY <1>3 DEF CloseBegin
<1>4. ASSUME NEW c \in Conns, CloseDone(c) PROVE UNCHANGED accepted
  BY <1>4 DEF CloseDone
<1>5. ASSUME NEW c \in Conns, NEW m \in wire, readLoop(c, m)
      PROVE  UNCHANGED <<client, table, reader, closing, acceptCh, accepted, queued>>
  BY <1>5 DEF readLoop
<1>6. ASSUME NEW a \in Addrs,
             Dial(a) \/ sendHandshake(a) \/ DialReturns(a) \/ ClientClose(a) \/ Vanish(a)
      PROVE  UNCHANGED <<table, reader, closing, acceptCh, accepted, queued>>
  BY <1>6 DEF Dial, sendHandshake, DialReturns, ClientClose, Vanish
<1>7. ASSUME NEW a \in Addrs PROVE /\ Dial(a) => UNCHANGED wire
                                   /\ sendHandshake(a) => UNCHANGED client
  BY DEF Dial, sendHandshake
<1>8. ASSUME NEW m \in wire, Arrive(m)
      PROVE  UNCHANGED <<client, table, reader, closing, acceptCh, accepted>>
  BY <1>8 DEF Arrive
<1>9. ASSUME NEW m \in queued, Receive(m)
      PROVE  UNCHANGED <<client, table, closing, acceptCh, accepted>>
  BY <1>9 DEF Receive
<1>10. CASE Publish \/ Start \/ Acknowledge \/ AcknowledgeFailed \/ Offer \/ ReaderReturns
  <2>1. UNCHANGED <<client, closing, accepted, queued>>
    BY <1>10 DEF Publish, Start, Acknowledge, AcknowledgeFailed, Offer, ReaderReturns
  <2>2. UNCHANGED table \/ Publish
    BY <1>10 DEF Start, Acknowledge, AcknowledgeFailed, Offer, ReaderReturns
  <2>3. UNCHANGED acceptCh \/ Offer
    BY <1>10 DEF Publish, Start, Acknowledge, AcknowledgeFailed, ReaderReturns
  <2>4. UNCHANGED wire \/ Acknowledge
    BY <1>10 DEF Publish, Start, AcknowledgeFailed, Offer, ReaderReturns
  <2> QED
    BY <1>10, <2>1, <2>2, <2>3, <2>4, Zenon DEF ListenerStep
<1>11. CASE ListenerClose \/ ListenerCloseStep
  <2>1. UNCHANGED <<client, reader, acceptCh, accepted, wire>>
    BY Zenon, <1>11 DEF ListenerClose, ListenerCloseStep, ListenerSnapshot,
                 ListenerConnClosed, ListenerCloseReturns, ListenerCloseConn
  <2>2. UNCHANGED <<table, queued>> \/ ListenerSnapshot
    BY Zenon, <1>11 DEF ListenerClose, ListenerCloseStep, ListenerConnClosed,
                 ListenerCloseReturns, ListenerCloseConn
  <2> QED
    BY <1>11, <2>1, <2>2
<1>12. CASE AcceptReturns \/ AcceptRefused
  <2>1. UNCHANGED <<client, table, reader, closing, queued, wire>>
    BY <1>12 DEF AcceptReturns, AcceptRefused
  <2>2. UNCHANGED <<acceptCh, accepted>> \/ AcceptReturns
    BY <1>12 DEF AcceptRefused
  <2> QED
    BY <2>1, <2>2
<1>13. CASE UNCHANGED vars
  BY <1>13 DEF vars
<1>14. CASE \E c \in Conns : Launch(c) \/ readLoopReturns(c) \/ keepAliveLoop(c)
                             \/ keepAliveLoopReturns(c) \/ Pong(c)
                             \/ CloseStep(c) \/ AppClose(c)
  BY <1>1, <1>2, <1>3, <1>4, <1>14 DEF CloseStep
<1>15. CASE \E c \in Conns : \E m \in wire : readLoop(c, m)
  BY <1>5, <1>15
<1>16. CASE \E a \in Addrs : Dial(a) \/ sendHandshake(a) \/ DialReturns(a)
                             \/ ClientClose(a) \/ Vanish(a)
  BY <1>6, <1>7, <1>16
<1>17. CASE \E m \in wire : Arrive(m)
  BY <1>8, <1>17
<1>18. CASE \E m \in queued : Receive(m)
  BY <1>9, <1>18, Zenon DEF ListenerStep
<1> QED
  BY <1>10, <1>11, <1>12, <1>13, <1>14, <1>15, <1>16, <1>17, <1>18, Zenon
     DEF Next, ListenerStep

\* What is sent has the type of a datagram.
LEMMA DatagramTypes ==
  ASSUME NEW c \in Conns, NEW a \in Addrs, NEW kind
  PROVE  /\ handshakeAck(a) \subseteq Datagrams
         /\ conn[c].addr \in Addrs => answers(c, kind) \subseteq Datagrams
         /\ \A k \in Handshakes \cup {"goAway"} : toServer(a, k) \in Datagrams
<1>1. \A b \in Addrs : handshakeAck(b) \subseteq Datagrams
  BY DEF handshakeAck, toClient, Datagrams, Handshakes
<1>2. conn[c].addr \in Addrs => answers(c, kind) \subseteq Datagrams
  BY <1>1 DEF answers
<1>3. \A k \in Handshakes \cup {"goAway"} : toServer(a, k) \in Datagrams
  BY DEF toServer, Datagrams
<1> QED
  BY <1>1, <1>2, <1>3

\* No step leaves the types.
LEMMA TypeStep ==
  ASSUME LifecycleInv, [Next]_vars
  PROVE  TypeOK' /\ ControlTypes'
<1> USE DEF LifecycleInv
<1>1. client' \in [Addrs -> {"gone", "dialing", "established"}]
  <2>1. client \in [Addrs -> {"gone", "dialing", "established"}]
    BY DEF TypeOK
  <2> QED
    BY <2>1, Writers DEF Dial, DialReturns, ClientClose, Vanish
<1>2. table' \in [Addrs -> Conns \cup {None}]
  <2>1. table \in [Addrs -> Conns \cup {None}]
    BY DEF TypeOK
  <2>2. CASE Publish
    BY Zenon, <2>1, <2>2 DEF Publish, ControlTypes
  <2>3. CASE ListenerSnapshot
    BY <2>3 DEF ListenerSnapshot
  <2>4. ASSUME NEW c \in Conns, CloseDone(c) PROVE table' \in [Addrs -> Conns \cup {None}]
    BY Zenon, <2>1, <2>4 DEF CloseDone
  <2> QED
    BY <2>1, <2>2, <2>3, <2>4, Writers
<1>3. acceptCh' \in Seq(Conns) /\ Len(acceptCh') <= AcceptCap
  <2>1. acceptCh \in Seq(Conns) /\ Len(acceptCh) <= AcceptCap /\ AcceptCap \in Nat
    BY LifecycleAssumption DEF TypeOK
  <2>2. CASE Offer
    <3>1. reader.making \in Conns
      BY <2>2 DEF Offer, ReaderInv, ControlTypes
    <3>2. \/ acceptCh' = acceptCh
          \/ acceptCh' = Append(acceptCh, reader.making) /\ Len(acceptCh) < AcceptCap
      BY <2>2 DEF Offer, offered
    <3> QED
      BY <2>1, <3>1, <3>2
  <2>3. CASE AcceptReturns
    <3>1. acceptCh # <<>> /\ acceptCh' = Tail(acceptCh)
      BY <2>3 DEF AcceptReturns
    <3> QED
      BY <2>1, <3>1
  <2> QED
    BY <2>1, <2>2, <2>3, Writers
<1>4. \A c \in Conns : "read" \in conn[c].running => conn[c].addr \in Addrs
  BY DEF TypeOK, ConnType, Counted
<1>5. queued' \subseteq Datagrams
  <2>1. wire \subseteq Datagrams /\ queued \subseteq Datagrams
    BY DEF TypeOK
  <2>2. ASSUME NEW m \in wire, Arrive(m) PROVE queued' \subseteq Datagrams
    <3>1. toServer(m.addr, "handshakeRetry") \in Datagrams
      BY <2>1, DatagramTypes DEF Datagrams, Handshakes, toServer
    <3> QED
      BY <2>1, <2>2, <3>1 DEF Arrive
  <2> QED
    BY <2>1, <2>2, Writers DEF ListenerSnapshot, Receive
<1>6. reader' \in [step : {"receive", "publish", "start", "acknowledge", "close",
                           "offer", "returned"},
                   making : Conns \cup {None}]
  <2>1. reader \in [step : {"receive", "publish", "start", "acknowledge", "close",
                            "offer", "returned"},
                    making : Conns \cup {None}]
    BY DEF ControlTypes
  <2>2. reader.making \in Conns \cup {None} /\ None \in Conns \cup {None}
    BY Zenon, <2>1
  <2>3. idle \in [step : {"receive", "publish", "start", "acknowledge", "close",
                          "offer", "returned"},
                  making : Conns \cup {None}]
    BY <2>2 DEF idle
  <2>4. ASSUME NEW m \in queued, Receive(m) PROVE reader' = idle \/ Created
    BY <2>4, ReceiveCases
  <2>5. CASE Created
    BY <2>5, Following DEF Created, at
  <2>6. CASE Publish \/ Start
    <3>1. reader' = at("start", reader.making) \/ reader' = at("acknowledge", reader.making)
      BY Zenon, <2>6, Following DEF Publish, Start
    <3> QED
      BY <2>2, <3>1 DEF at
  <2>7. CASE Acknowledge
    <3>1. reader' = at("offer", reader.making) \/ reader' = at("close", reader.making)
      BY Zenon, <2>7, Following DEF Acknowledge
    <3> QED
      BY <2>2, <3>1 DEF at
  <2>8. CASE AcknowledgeFailed \/ Offer \/ ReaderReturns
    BY Zenon, <2>3, <2>8 DEF AcknowledgeFailed, Offer, ReaderReturns
  <2> QED
    BY Zenon, <2>1, <2>3, <2>4, <2>5, <2>6, <2>7, <2>8, Writers DEF ListenerStep
<1>7. closing' \in [step : {"open", "join", "each", "done"},
                    now : Conns \cup {None}, left : SUBSET Conns]
  <2>1. closing \in [step : {"open", "join", "each", "done"},
                     now : Conns \cup {None}, left : SUBSET Conns]
    BY DEF ControlTypes
  <2>2. CASE ListenerSnapshot
    BY <2>2 DEF ListenerSnapshot, TypeOK
  <2>3. CASE ListenerClose \/ ListenerConnClosed \/ ListenerCloseReturns
    BY Zenon, <2>1, <2>3 DEF ListenerClose, ListenerConnClosed, ListenerCloseReturns
  <2>4. ASSUME NEW c \in Conns, ListenerCloseConn(c)
        PROVE  closing' \in [step : {"open", "join", "each", "done"},
                             now : Conns \cup {None}, left : SUBSET Conns]
    BY Zenon, <2>1, <2>4 DEF ListenerCloseConn
  <2> QED
    BY Zenon, <2>1, <2>2, <2>3, <2>4, Writers DEF ListenerCloseStep
<1>8. accepted' \subseteq Conns
  <2>1. acceptCh # <<>> => Head(acceptCh) \in Conns
    BY DEF TypeOK
  <2> QED
    BY Zenon, <2>1, Writers DEF AcceptReturns, CloseBegin, ControlTypes
<1>9. wire' \subseteq Datagrams
  <2>1. wire \subseteq Datagrams
    BY DEF TypeOK
  <2>2. ASSUME NEW a \in Addrs,
               sendHandshake(a) \/ DialReturns(a) \/ ClientClose(a) \/ Vanish(a)
        PROVE  wire' \subseteq Datagrams
    <3>1. toServer(a, "handshake") \in Datagrams /\ toServer(a, "goAway") \in Datagrams
      BY DEF toServer, Datagrams, Handshakes
    <3> QED
      BY <2>1, <2>2, <3>1 DEF sendHandshake, DialReturns, ClientClose, Vanish, pathVars
  <2>3. ASSUME NEW c \in Conns, NEW m \in wire, readLoop(c, m)
        PROVE  wire' \subseteq Datagrams
    <3>1. conn[c].addr \in Addrs
      BY <1>4, <2>3 DEF readLoop
    <3> QED
      BY <2>1, <2>3, <3>1, DatagramTypes DEF readLoop
  <2>4. ASSUME NEW m \in queued, Receive(m)
        PROVE  wire' \subseteq Datagrams
    <3>1. m.addr \in Addrs
      BY DEF TypeOK, Datagrams
    <3>2. \A c \in Conns : table[m.addr] = c => conn[c].addr \in Addrs
      BY <3>1, LifecycleAssumption DEF TableInv
    <3> QED
      BY <2>1, <2>4, <3>1, <3>2, ReceiveCases, DatagramTypes
  <2>5. CASE Acknowledge
    <3>1. conn[reader.making].addr \in Addrs
      BY <2>5 DEF Acknowledge, ReaderInv
    <3>2. handshakeAck(conn[reader.making].addr) \subseteq Datagrams
      BY <3>1 DEF handshakeAck, toClient, Datagrams, Handshakes
    <3> QED
      BY <2>1, <2>5, <3>2 DEF Acknowledge
  <2> QED
    BY <2>1, <2>2, <2>3, <2>4, <2>5, Writers DEF Arrive
<1> QED
  BY <1>1, <1>2, <1>3, <1>5, <1>6, <1>7, <1>8, <1>9, CountedStep DEF TypeOK, ControlTypes

-------------------------------------------------------------------------------
(* The table and the sockets.                                              *)

\* A connection that was made never is unused again, keeps its address, and goes
\* forward through Close; its socket never opens again.
LEMMA LifeForward ==
  ASSUME LifecycleInv, [Next]_vars, NEW c \in Conns, conn[c].step # "unused"
  PROVE  /\ conn'[c].step # "unused" /\ conn'[c].addr = conn[c].addr
         /\ HasSocket(c)' => HasSocket(c)
         /\ Tracked(conn[c])' => Tracked(conn[c])
         /\ Tracked(conn[c]) => Tracked(conn[c])' \/ CloseDone(c)
         /\ conn[c].step = "done" => conn'[c].step = "done"
<1>1. conn \in [Conns -> ConnType]
  BY DEF LifecycleInv, TypeOK
<1>2. CASE conn'[c].step = conn[c].step /\ conn'[c].addr = conn[c].addr
  BY <1>2 DEF HasSocket, Tracked
<1>3. CASE Tame \/ Start
  <2>1. conn'[c].step = conn[c].step /\ conn'[c].addr = conn[c].addr
    BY <1>1, <1>3, StartEffect DEF Tame, Kept
  <2> QED
    BY <1>2, <2>1
<1>4. CASE Created
  <2>1. PICK m \in queued, n \in Conns :
          conn[n] = unused /\ conn' = [conn EXCEPT ![n] = newConnection(m.addr)]
    BY Zenon, <1>4 DEF Created
  <2>2. n # c
    BY <2>1 DEF unused, newConnection
  <2> QED
    BY <1>1, <1>2, <2>1, <2>2
<1>5. ASSUME NEW d \in Conns, CloseStep(d), d # c
      PROVE  conn'[c].step = conn[c].step /\ conn'[c].addr = conn[c].addr
  BY <1>1, <1>5, CloseEffect DEF LifecycleInv
<1>6. CASE CloseStep(c)
  <2>1. PICK r : /\ r \in ConnType
                 /\ r.addr = conn[c].addr /\ r.step \notin {"unused", "open"}
                 /\ Tracked(conn[c])
                 /\ r.step \in {"fence", "join"} => HasSocket(c)
                 /\ r.step = "done" <=> CloseDone(c)
                 /\ conn' = [conn EXCEPT ![c] = r]
    BY <1>6, CloseEffect DEF LifecycleInv
  <2>2. conn'[c] = r
    BY <1>1, <2>1
  <2> QED
    BY <1>1, <2>1, <2>2 DEF HasSocket, Tracked, ConnType
<1> QED
  BY Zenon, <1>2, <1>3, <1>4, <1>5, <1>6, ConnSteps

\* What only readLoop knows of changes only by start.
LEMMA FreshKept ==
  ASSUME LifecycleInv, [Next]_vars, NEW c \in Conns, Fresh(c), ~Start
  PROVE  conn'[c] = conn[c]
<1>1. conn \in [Conns -> ConnType]
  BY DEF LifecycleInv, TypeOK
<1>2. CASE Tame
  BY <1>1, <1>2 DEF Tame
<1>3. ~Created
  BY DEF Created, Fresh
<1>4. ASSUME NEW d \in Conns, CloseStep(d) PROVE conn'[c] = conn[c]
  <2>1. d # c
    BY <1>4, FreshUntouched DEF CloseStep, CloseBegin, CloseFence, CloseSocket, CloseDone
  <2> QED
    BY <1>1, <1>4, <2>1, CloseEffect DEF LifecycleInv
<1> QED
  BY <1>2, <1>3, <1>4, ConnSteps

\* readLoop's step goes with what it has in hand.
LEMMA ReaderSteps ==
  ASSUME LifecycleInv, [Next]_vars
  PROVE  \/ UNCHANGED reader
         \/ Created
         \/ reader.step \in {"receive", "close", "offer"} /\ reader' = idle
         \/ Publish \/ Start
         \/ /\ reader.step = "acknowledge" /\ reader'.step \in {"close", "offer"}
            /\ reader'.making = reader.making
<1>1. ASSUME NEW m \in queued, Receive(m)
      PROVE  Created \/ (reader.step = "receive" /\ reader' = idle)
  <2>1. reader.step = "receive"
    BY <1>1 DEF Receive
  <2> QED
    BY <1>1, <2>1, ReceiveCases
<1>2. CASE AcknowledgeFailed \/ Offer \/ ReaderReturns
  BY <1>2 DEF AcknowledgeFailed, Offer, ReaderReturns
<1>3. CASE Acknowledge
  BY <1>3, Following DEF Acknowledge, at
<1> QED
  BY <1>1, <1>2, <1>3, Writers DEF ListenerStep

\* Listener.readLoop makes one connection at a time, and returns before Close goes on.
LEMMA ReaderInvStep ==
  ASSUME LifecycleInv, [Next]_vars
  PROVE  ReaderInv'
<1> USE DEF LifecycleInv
<1>0. closing'.step \in {"each", "done"} => reader.step = "returned"
  BY Zenon, Writers DEF ListenerClose, ListenerCloseStep, ListenerSnapshot, ReaderInv,
                 ControlTypes, ListenerConnClosed, ListenerCloseReturns,
                 ListenerCloseConn
<1>1. CASE UNCHANGED reader
  <2>1. reader'.making # None =>
          conn'[reader'.making].step # "unused" /\ conn'[reader'.making].addr \in Addrs
    BY <1>1, LifeForward DEF ReaderInv, ControlTypes
  <2>2. ASSUME reader'.step \in {"publish", "start"}
        PROVE  conn'[reader'.making] = conn[reader.making]
    <3>1. ~Start
      BY <1>1, Following DEF Start, at
    <3>2. reader.making \in Conns /\ Fresh(reader.making)
      BY <1>1, <2>2 DEF ReaderInv, ControlTypes, Fresh
    <3> QED
      BY <1>1, <3>1, <3>2, FreshKept
  <2>3. ASSUME reader'.step = "publish"
        PROVE  table'[conn'[reader'.making].addr] = None
    <3>1. conn[reader.making].addr \in Addrs /\ table[conn[reader.making].addr] = None
      BY <1>1, <2>3, LifecycleAssumption DEF ReaderInv, ControlTypes
    <3>2. conn'[reader'.making] = conn[reader.making]
      BY <2>2, <2>3
    <3>3. ~Publish
      BY <1>1, Following DEF Publish, at
    <3>4. table \in [Addrs -> Conns \cup {None}]
      BY DEF TypeOK
    <3> QED
      BY <3>1, <3>2, <3>3, <3>4, Writers DEF ListenerSnapshot, CloseDone
  <2> QED
    BY <1>0, <1>1, <2>1, <2>2, <2>3 DEF ReaderInv
<1>2. CASE reader.step \in {"receive", "close", "offer"} /\ reader' = idle
  BY <1>0, <1>2, LifecycleAssumption DEF ReaderInv, idle
<1>3. CASE Created
  <2>1. PICK m \in queued, n \in Conns :
          /\ reader.step = "receive" /\ table[m.addr] = None
          /\ conn' = [conn EXCEPT ![n] = newConnection(m.addr)]
          /\ reader' = [step |-> "publish", making |-> n]
    BY Zenon, <1>3 DEF Created
  <2>2. conn'[n] = newConnection(m.addr)
    BY <2>1 DEF TypeOK
  <2>3. conn'[n].addr = m.addr /\ conn'[n].step = "open" /\ m.addr \in Addrs
    BY SMTT(30), <2>2 DEF newConnection, TypeOK, Datagrams
  <2>4. table'[m.addr] = None
    BY Zenon, <2>1, <2>3, Writers DEF Publish, ListenerSnapshot, CloseDone, TypeOK
  <2>5. n # None
    BY LifecycleAssumption
  <2> QED
    BY <1>0, <2>1, <2>2, <2>3, <2>4, <2>5 DEF ReaderInv
<1>4. CASE Publish
  <2>1. reader.step = "publish" /\ reader' = [step |-> "start", making |-> reader.making]
    BY <1>4, Following DEF Publish, at
  <2>2. conn' = conn
    BY <1>4 DEF Publish
  <2> QED
    BY <1>0, <2>1, <2>2 DEF ReaderInv
<1>5. CASE Start
  <2>1. reader.step = "start" /\ reader' = [step |-> "acknowledge", making |-> reader.making]
    BY <1>5, Following DEF Start, at
  <2>2. reader.making \in Conns /\ conn[reader.making].step # "unused"
    BY Zenon, <2>1 DEF ReaderInv, ControlTypes
  <2> QED
    BY Zenon, <1>0, <2>1, <2>2, LifeForward DEF ReaderInv
<1>6. CASE /\ reader.step = "acknowledge" /\ reader'.step \in {"close", "offer"}
           /\ reader'.making = reader.making
  <2>1. reader.making \in Conns /\ conn[reader.making].step # "unused"
    BY <1>6 DEF ReaderInv, ControlTypes
  <2> QED
    BY Zenon, <1>0, <1>6, <2>1, LifeForward DEF ReaderInv
<1> QED
  BY <1>1, <1>2, <1>3, <1>4, <1>5, <1>6, ReaderSteps

\* Close takes a connection out of the table only when it is done with it, and
\* readLoop puts in only what it has just made.
LEMMA TableInvStep ==
  ASSUME LifecycleInv, [Next]_vars
  PROVE  TableInv'
<1> USE DEF LifecycleInv
<1>1. table \in [Addrs -> Conns \cup {None}] /\ conn \in [Conns -> ConnType]
  BY DEF TypeOK
<1>2. ASSUME NEW a \in Addrs, table'[a] # None
      PROVE  /\ table'[a] \in Conns
             /\ conn'[table'[a]].addr = a /\ Tracked(conn'[table'[a]])
  <2>1. CASE Publish
    <3>1. /\ conn' = conn /\ reader.making \in Conns
          /\ table' = [table EXCEPT ![conn[reader.making].addr] = reader.making]
      BY <2>1 DEF Publish, ReaderInv, ControlTypes
    <3>2. conn[reader.making].step = "open"
      BY <2>1, <3>1, FreshUntouched DEF Publish, Fresh
    <3> QED
      BY <1>1, <1>2, <3>1, <3>2 DEF TableInv, Tracked
  <2>2. CASE ListenerSnapshot
    BY <1>2, <2>2 DEF ListenerSnapshot
  <2>3. CASE UNCHANGED table \/ \E c \in Conns : CloseDone(c)
    <3>1. table'[a] = table[a]
      BY <1>1, <1>2, <2>3 DEF CloseDone
    <3>2. table[a] \in Conns /\ conn[table[a]].addr = a /\ Tracked(conn[table[a]])
      BY <1>1, <1>2, <3>1 DEF TableInv
    <3>3. ~CloseDone(table[a])
      BY <1>1, <1>2, <3>1, <3>2 DEF CloseDone
    <3> QED
      BY <3>1, <3>2, <3>3, LifeForward DEF Tracked
  <2> QED
    BY <2>1, <2>2, <2>3, Writers
<1>3. ASSUME closing'.step \in {"open", "join"}, NEW c \in Conns, Tracked(conn'[c])
      PROVE  /\ conn'[c].addr \in Addrs
             /\ \/ table'[conn'[c].addr] = c
                \/ reader'.step = "publish" /\ reader'.making = c
  <2>0. closing.step \in {"open", "join"} /\ ~ListenerSnapshot
    <3>1. ASSUME closing.step \in {"each", "done"} PROVE FALSE
      BY Zenon, <1>3, <3>1, Writers
         DEF ListenerCloseStep, ListenerSnapshot, ListenerConnClosed,
             ListenerCloseReturns, ListenerCloseConn, ListenerClose, ControlTypes
    <3>2. ~ListenerSnapshot
      BY <1>3 DEF ListenerSnapshot
    <3> QED
      BY <3>1, <3>2 DEF ControlTypes
  <2>1. CASE conn[c].step = "unused"
    <3>1. Created
      BY <1>1, <1>3, <2>1, ConnSteps, StartEffect, CloseEffect DEF Tame, Kept, Tracked
    <3> QED
      BY SMTT(30), <1>1, <1>3, <2>1, <3>1 DEF Created, Tracked, newConnection, TypeOK, Datagrams
  <2>2. CASE conn[c].step # "unused"
    <3>1. /\ Tracked(conn[c]) /\ conn'[c].addr = conn[c].addr
          /\ conn[c].addr \in Addrs
          /\ \/ table[conn[c].addr] = c
             \/ reader.step = "publish" /\ reader.making = c
      BY Zenon, <1>3, <2>0, <2>2, LifeForward DEF TableInv
    <3>2. CASE table[conn[c].addr] = c
      <4>1. c # None
        BY LifecycleAssumption
      <4>2. CASE Publish
        <5>1. conn[reader.making].addr # conn[c].addr
          BY <2>0, <3>2, <4>1, <4>2 DEF Publish, ReaderInv
        <5> QED
          BY <1>1, <3>1, <3>2, <4>2, <5>1 DEF Publish
      <4>3. ASSUME NEW d \in Conns, CloseDone(d)
            PROVE  table'[conn[c].addr] = c
        <5>1. d # c
          BY <1>1, <1>3, <4>3 DEF CloseDone, Tracked, ConnType
        <5>2. table[conn[d].addr] = d
          BY <2>0, <4>3, FreshUntouched DEF CloseDone, TableInv, Tracked, Fresh
        <5> QED
          BY <1>1, <3>1, <3>2, <4>3, <5>1, <5>2 DEF CloseDone
      <4> QED
        BY <2>0, <3>1, <3>2, <4>2, <4>3, Writers
    <3>3. CASE reader.step = "publish" /\ reader.making = c
      <4>1. CASE Publish
        BY <1>1, <3>1, <3>3, <4>1 DEF Publish
      <4>2. ~Created /\ ~Start
        BY <3>3 DEF Created, Start
      <4> QED
        BY <3>1, <3>3, <4>1, <4>2, ReaderSteps
    <3> QED
      BY <3>1, <3>2, <3>3
  <2> QED
    BY <2>1, <2>2
<1> QED
  BY <1>2, <1>3 DEF TableInv

\* Accept gives out only connections that readLoop has finished with.
LEMMA OfferedInvStep ==
  ASSUME LifecycleInv, [Next]_vars
  PROVE  OfferedInv'
<1> USE DEF LifecycleInv
<1> DEFINE Offered(c) == c \in accepted \/ \E i \in 1..Len(acceptCh) : acceptCh[i] = c
<1>1. /\ acceptCh \in Seq(Conns) /\ accepted \subseteq Conns
      /\ acceptCh' \in Seq(Conns) /\ accepted' \subseteq Conns
  BY TypeStep DEF TypeOK, ControlTypes
<1>2. ASSUME NEW c \in Conns, Offered(c)
      PROVE  conn'[c].step # "unused" /\ c # reader'.making
  <2>1. conn[c].step # "unused" /\ c # reader.making /\ c # None
    BY <1>2, LifecycleAssumption DEF OfferedInv
  <2>2. ~Created \/ c # reader'.making
    BY <2>1 DEF Created, unused, newConnection
  <2> QED
    BY SMTT(30), <2>1, <2>2, LifeForward, ReaderSteps, Following DEF Publish, Start, at, idle
<1>3. ASSUME NEW c \in Conns, Offered(c)'
      PROVE  Offered(c) \/ (Offer /\ c = reader.making)
  <2>1. CASE Offer
    BY SMTT(30), <1>1, <1>3, <2>1 DEF Offer, offered
  <2>2. CASE AcceptReturns
    BY <1>1, <1>3, <2>2 DEF AcceptReturns
  <2>3. ASSUME NEW d \in Conns, CloseBegin(d) PROVE Offered(c)
    BY <1>3, <2>3 DEF CloseBegin
  <2> QED
    BY Zenon, <1>3, <2>1, <2>2, <2>3, Writers
<1>4. ASSUME NEW c \in Conns, Offer, c = reader.making
      PROVE  conn'[c].step # "unused" /\ c # reader'.making
  <2>1. reader'.making = None /\ c # None
    BY <1>4, LifecycleAssumption DEF Offer, idle
  <2> QED
    BY <1>4, <2>1, LifeForward DEF ReaderInv
<1>5. \A c \in Conns : Offered(c)' => conn'[c].step # "unused" /\ c # reader'.making
  BY <1>2, <1>3, <1>4
<1> QED
  BY <1>1, <1>5 DEF OfferedInv

\* Once readLoop has returned no connection appears.
LEMMA NoneAppears ==
  ASSUME LifecycleInv, [Next]_vars, reader.step = "returned", NEW c \in Conns,
         Tracked(conn'[c])
  PROVE  Tracked(conn[c])
<1>1. conn \in [Conns -> ConnType]
  BY DEF LifecycleInv, TypeOK
<1>2. ~Created /\ ~Start
  BY DEF Created, Start
<1>3. CASE Tame
  BY <1>1, <1>3 DEF Tame, Kept, Tracked
<1>4. ASSUME NEW d \in Conns, CloseStep(d) PROVE Tracked(conn[c])
  BY <1>1, <1>4, CloseEffect DEF LifecycleInv, Tracked
<1> QED
  BY <1>2, <1>3, <1>4, ConnSteps

\* Listener.Close waits for each connection that its snapshot has.
LEMMA ClosingInvStep ==
  ASSUME LifecycleInv, [Next]_vars
  PROVE  ClosingInv' /\ AllClosed'
<1> USE DEF LifecycleInv
<1>1. /\ closing \in [step : {"open", "join", "each", "done"},
                      now : Conns \cup {None}, left : SUBSET Conns]
      /\ conn \in [Conns -> ConnType] /\ conn' \in [Conns -> ConnType]
  BY CountedStep DEF ControlTypes, TypeOK
<1>2. ASSUME closing'.step = "each", NEW c \in Conns, Tracked(conn'[c])
      PROVE  c \in closing'.left \cup {closing'.now}
  <2>1. CASE ListenerSnapshot
    <3>1. conn' = conn /\ reader.step = "returned" /\ closing.step = "join"
      BY <2>1 DEF ListenerSnapshot
    <3>2. conn[c].addr \in Addrs /\ table[conn[c].addr] = c
      BY <1>2, <3>1 DEF TableInv
    <3>3. c # None
      BY LifecycleAssumption
    <3> QED
      BY <2>1, <3>2, <3>3 DEF ListenerSnapshot
  <2>2. CASE closing.step = "each"
    <3>1. Tracked(conn[c]) /\ c \in closing.left \cup {closing.now}
      BY <1>2, <2>2, NoneAppears DEF ClosingInv, ReaderInv
    <3>2. CASE ListenerConnClosed
      BY <1>1, <3>1, <3>2 DEF ListenerConnClosed, closeReturns, Tracked
    <3>3. ASSUME NEW d \in Conns, ListenerCloseConn(d)
          PROVE  c \in closing'.left \cup {closing'.now}
      <4>1. /\ closing' = [closing EXCEPT !.now = d, !.left = closing.left \ {d}]
            /\ closing.now = None
        BY <3>3 DEF ListenerCloseConn
      <4>2. closing'.now = d /\ closing'.left = closing.left \ {d} /\ c # None
        BY <1>1, <4>1, LifecycleAssumption
      <4> QED
        BY <3>1, <4>1, <4>2
    <3>4. ~ListenerClose /\ ~ListenerSnapshot /\ ~ListenerCloseReturns
      BY <1>1, <1>2, <2>2 DEF ListenerClose, ListenerSnapshot, ListenerCloseReturns
    <3> QED
      BY <3>1, <3>2, <3>3, <3>4, Writers DEF ListenerCloseStep
  <2> QED
    BY Zenon, <1>1, <1>2, <2>1, <2>2, Writers
       DEF ListenerClose, ListenerCloseStep, ListenerConnClosed, ListenerCloseReturns,
           ListenerCloseConn
<1>3. ASSUME closing'.step = "done", NEW c \in Conns
      PROVE  conn'[c].step \in {"unused", "done"}
  <2>1. CASE ListenerCloseReturns
    <3>1. /\ conn' = conn /\ closing.step = "each"
          /\ closing.now = None /\ closing.left = {}
      BY <2>1 DEF ListenerCloseReturns
    <3>2. ~Tracked(conn[c])
      BY <3>1, LifecycleAssumption DEF ClosingInv
    <3> QED
      BY <1>1, <3>1, <3>2 DEF Tracked, ConnType
  <2>2. CASE closing.step = "done"
    <3>1. ~Tracked(conn'[c])
      BY <2>2, NoneAppears DEF ReaderInv, AllClosed, Tracked
    <3> QED
      BY <1>1, <3>1 DEF Tracked, ConnType
  <2>3. ~ListenerClose /\ ~ListenerSnapshot
    BY <1>1, <1>3 DEF ListenerClose, ListenerSnapshot
  <2>4. ~ListenerConnClosed /\ \A d \in Conns : ~ListenerCloseConn(d)
    BY Zenon, <1>1, <1>3 DEF ListenerConnClosed, ListenerCloseConn
  <2> QED
    BY Zenon, <1>3, <2>1, <2>2, <2>3, <2>4, Writers DEF ListenerCloseStep
<1> QED
  BY <1>2, <1>3 DEF ClosingInv, AllClosed

\* readLoop makes a socket for a peer only when the peer has none.
LEMMA SoleSocketStep ==
  ASSUME LifecycleInv, [Next]_vars
  PROVE  SoleSocket'
<1> USE DEF LifecycleInv
<1>1. conn \in [Conns -> ConnType]
  BY DEF TypeOK
<1>2. CASE Created
  <2>1. PICK m \in queued, n \in Conns :
          /\ reader.step = "receive" /\ table[m.addr] = None /\ conn[n] = unused
          /\ conn' = [conn EXCEPT ![n] = newConnection(m.addr)]
    BY Zenon, <1>2 DEF Created
  <2>2. conn'[n].addr = m.addr
    BY <1>1, <2>1 DEF newConnection
  <2>3. ASSUME NEW d \in Conns, d # n, HasSocket(d)'
        PROVE  HasSocket(d) /\ conn'[d].addr = conn[d].addr /\ conn[d].addr # m.addr
    <3>1. conn'[d] = conn[d]
      BY <1>1, <2>1, <2>3
    <3>2. HasSocket(d) /\ Tracked(conn[d])
      BY <2>3, <3>1 DEF HasSocket, Tracked
    <3>3. closing.step \in {"open", "join"}
      BY <2>1 DEF ReaderInv, ControlTypes
    <3>4. table[conn[d].addr] = d
      BY <2>1, <3>2, <3>3 DEF TableInv
    <3> QED
      BY <2>1, <3>1, <3>2, <3>4, LifecycleAssumption
  <2> QED
    BY <2>2, <2>3 DEF SoleSocket
<1>3. CASE ~Created
  <2>1. ASSUME NEW c \in Conns, HasSocket(c)'
        PROVE  HasSocket(c) /\ conn'[c].addr = conn[c].addr
    <3>1. CASE conn[c].step # "unused"
      BY <2>1, <3>1, LifeForward
    <3>2. CASE conn[c].step = "unused"
      <4>1. CASE Tame \/ Start
        BY <1>1, <2>1, <3>2, <4>1, StartEffect DEF Tame, Kept, HasSocket
      <4>2. ASSUME NEW d \in Conns, CloseStep(d) PROVE conn'[c] = conn[c]
        BY <1>1, <3>2, <4>2, CloseEffect DEF Tracked
      <4> QED
        BY <1>3, <2>1, <3>2, <4>1, <4>2, ConnSteps DEF HasSocket
    <3> QED
      BY <3>1, <3>2
  <2> QED
    BY <2>1 DEF SoleSocket
<1> QED
  BY <1>2, <1>3

-------------------------------------------------------------------------------
(* The theorems.                                                           *)

\* A listener that has just been opened satisfies the invariant.
LEMMA LifecycleInit == Init => LifecycleInv
<1> SUFFICES ASSUME Init
             PROVE  LifecycleInv
  OBVIOUS
<1>1. unused \in ConnType /\ Counted(unused) /\ unused.step = "unused"
  <2>1. unused \in ConnType
    <3>1. newConnection(None) \in ConnType
      BY SMTT(30), LifecycleAssumption DEF newConnection, ConnType, Workers
    <3> QED
      BY <3>1 DEF unused, ConnType
  <2>2. /\ unused.step = "unused" /\ unused.registered = {} /\ unused.running = {}
        /\ unused.toLaunch = <<>>
    BY DEF unused, newConnection
  <2> QED
    BY <2>1, <2>2, OrderFacts DEF Counted
<1>2. TypeOK
  BY <1>1, LifecycleAssumption DEF Init, TypeOK
<1>3. ControlTypes
  BY DEF Init, ControlTypes
<1>4. \A c \in Conns : conn[c] = unused
  BY DEF Init
<1>5. /\ reader.step = "receive" /\ reader.making = None /\ closing.step = "open"
      /\ \A a \in Addrs : table[a] = None
  BY DEF Init
<1>6. ReaderInv /\ ClosingInv /\ AllClosed
  BY <1>5 DEF ReaderInv, ClosingInv, AllClosed
<1>7. TableInv /\ SoleSocket
  BY <1>1, <1>4, <1>5 DEF TableInv, SoleSocket, HasSocket, Tracked
<1>8. OfferedInv
  BY DEF Init, OfferedInv
<1> QED
  BY <1>1, <1>2, <1>3, <1>4, <1>6, <1>7, <1>8 DEF LifecycleInv

\* No step of a peer, a connection or the listener breaks the invariant.
LEMMA LifecycleStep ==
  ASSUME LifecycleInv, [Next]_vars
  PROVE  LifecycleInv'
BY CountedStep, TypeStep, ReaderInvStep, TableInvStep, OfferedInvStep, ClosingInvStep,
   SoleSocketStep
   DEF LifecycleInv

\* The inductive invariant: what a connection counts, what readLoop is making,
\* what the table, acceptCh and Listener.Close may refer to.
THEOREM Lifecycle == Spec => []LifecycleInv
<1>1. LifecycleInv /\ [Next]_vars => LifecycleInv'
  BY LifecycleStep
<1> QED
  BY LifecycleInit, <1>1, PTL DEF Spec

\* The invariant implies the properties of the listener.
LEMMA LifecycleImplies ==
  ASSUME LifecycleInv
  PROVE  NoDeadEntry /\ NoLateWorker
<1>1. NoDeadEntry
  BY DEF LifecycleInv, TableInv, Tracked, NoDeadEntry
<1>2. ASSUME NEW c \in Conns, conn[c].step \in {"remove", "done"}
      PROVE  conn[c].running = {} /\ conn[c].toLaunch = <<>>
  <2>1. conn[c] \in ConnType /\ Counted(conn[c])
    BY DEF LifecycleInv, TypeOK
  <2> QED
    BY Zenon, <1>2, <2>1, OrderFacts DEF ConnType, Counted, Workers
<1> QED
  BY <1>1, <1>2 DEF NoLateWorker

\* The variables have their types and acceptCh never holds more than its
\* capacity, for any number of peers (offered: Listener.readLoop's select).
THEOREM TypeCorrect == Spec => []TypeOK
<1>1. LifecycleInv => TypeOK
  BY DEF LifecycleInv
<1> QED
  BY Lifecycle, <1>1, PTL

\* Listener.conns has no connection whose teardown is complete, whatever the
\* order in which GOAWAY, Close and readLoop's publication come.
THEOREM TableHasNoDead == Spec => []NoDeadEntry
<1>1. LifecycleInv => NoDeadEntry
  BY LifecycleImplies
<1> QED
  BY Lifecycle, <1>1, PTL

\* A peer never has two connected sockets at the listener, also while one of its
\* connections is being torn down and it dials again from the same address.
THEOREM OneSocketPerPeer == Spec => []SoleSocket
<1>1. LifecycleInv => SoleSocket
  BY DEF LifecycleInv
<1> QED
  BY Lifecycle, <1>1, PTL

\* Close waits for every worker before it closes the descriptor, those that
\* start has not launched yet included.
THEOREM WorkersGone == Spec => []NoLateWorker
<1>1. LifecycleInv => NoLateWorker
  BY LifecycleImplies
<1> QED
  BY Lifecycle, <1>1, PTL

\* When Listener.Close returns, every connection it ever made is torn down.
THEOREM ListenerClosesAll == Spec => []AllClosed
<1>1. LifecycleInv => AllClosed
  BY DEF LifecycleInv
<1> QED
  BY Lifecycle, <1>1, PTL
===============================================================================
