-------------------------- MODULE ConnectionLifecycle --------------------------
(***************************************************************************)
(* The life of the connections of a Listener: it creates, publishes and    *)
(* offers one per peer address; their workers, keepalive, Connection.Close *)
(* and Listener.Close.  The peers' end is Dial with its handshake, Close,  *)
(* and processes that die.                                                 *)
(*                                                                         *)
(* An address may be used again by a later Dial.  A datagram for the       *)
(* listener's port goes to the connected socket of its peer when there is  *)
(* one, and waits at the listener's socket otherwise.  Datagrams are lost  *)
(* (never taken), reordered and, through retries, repeated.  A PING and    *)
(* its PONG are one step.  Streams are not in this module, and             *)
(* retransmitLoop, which Close treats as it does keepAliveLoop, is left    *)
(* out.                                                                    *)
(***************************************************************************)
EXTENDS Naturals, Sequences, FiniteSets

CONSTANTS
  Conns,            \* connections that the Listener can make
  Addrs,            \* addresses of peers
  AcceptCap,        \* capacity of acceptCh
  maxMissedPongs,
  None

ASSUME LifecycleAssumption ==
  /\ IsFiniteSet(Conns)
  /\ AcceptCap \in Nat \ {0} /\ maxMissedPongs \in Nat
  /\ None \notin Conns \cup Addrs

VARIABLES
  client,     \* the peer at each address
  conn,       \* the connections
  table,      \* Listener.conns
  reader,     \* Listener.readLoop: its step and the connection it is making
  closing,    \* Listener.Close: its step and the connections still to close
  accepting,  \* the application's Accept loop
  acceptCh,
  accepted,   \* the open connections the application has got
  queued,     \* datagrams at the listener's socket
  wire        \* datagrams on the path

listenerVars == <<table, reader, closing>>
acceptVars == <<accepting, acceptCh, accepted>>
pathVars == <<queued, wire>>
vars == <<client, conn, listenerVars, acceptVars, pathVars>>

\* The order of the go statements in start.
order == <<"read", "keepAlive">>
Workers == {"read", "keepAlive"}

\* A handshake, and a retry that is queued behind it.
Handshakes == {"handshake", "handshakeRetry"}

toServer(a, kind) == [to |-> "server", addr |-> a, kind |-> kind]
toClient(a, kind) == [to |-> "client", addr |-> a, kind |-> kind]

\* The descriptor is open / the socket has not been shut down.
HasSocket(c) == conn[c].step \in {"open", "fence", "join"}
Receives(c) == conn[c].step \in {"open", "fence"}

listenerClosed == closing.step # "open"

-------------------------------------------------------------------------------
(* Connection.                                                             *)

newConnection(a) ==
  [addr |-> a, step |-> "open", registered |-> {}, toLaunch |-> <<>>,
   running |-> {}, missed |-> 0, askedToClose |-> FALSE]

\* Mutant: the keepalive worker is not counted.
startTwo(r) == [r EXCEPT !.registered = Workers \ {"keepAlive"}, !.toLaunch = order]

\* start registers every worker with doneWg before it launches the first.
start(r) == [r EXCEPT !.registered = Workers, !.toLaunch = order]

unused == [newConnection(None) EXCEPT !.step = "unused"]

Unused == {c \in Conns : conn[c] = unused}

\* A go statement of start.
Launch(c) ==
  /\ conn[c].toLaunch # <<>>
  /\ conn' = [conn EXCEPT ![c].toLaunch = Tail(@),
                          ![c].running = @ \cup {Head(conn[c].toLaunch)}]
  /\ UNCHANGED <<client, listenerVars, acceptVars, pathVars>>

\* A worker returns: it leaves doneWg.
exited(r, w) == [r EXCEPT !.running = @ \ {w}, !.registered = @ \ {w}]

isClosed(r) == r.step \notin {"unused", "open"}

\* Some goroutine calls Close, now or later.
asked(r) == [r EXCEPT !.askedToClose = TRUE]

\* dispatchFrameLocked with handleHandshake: the connection after a datagram,
\* and the answer.  Every frame is a sign of life.
dispatchFrame(c, kind) ==
  LET alive == [conn[c] EXCEPT !.missed = 0]
  IN  IF isClosed(conn[c]) THEN conn[c]
      ELSE IF kind = "goAway" THEN asked(alive) ELSE alive

\* The answer to a handshake.  A client that is not dialling ignores it, and a
\* late one may be taken by a later Dial from the same address.
handshakeAck(a) == {toClient(a, "handshake")}

answers(c, kind) ==
  IF kind \in Handshakes /\ ~isClosed(conn[c])
    THEN handshakeAck(conn[c].addr) ELSE {}

\* readLoop takes a datagram; when the connection is closed it returns.
readLoop(c, m) ==
  /\ "read" \in conn[c].running
  /\ Receives(c)
  /\ m.to = "server" /\ m.addr = conn[c].addr
  /\ wire' = (wire \ {m}) \cup answers(c, m.kind)
  /\ conn' = [conn EXCEPT ![c] = IF isClosed(@) THEN exited(@, "read")
                                 ELSE dispatchFrame(c, m.kind)]
  /\ UNCHANGED <<client, listenerVars, acceptVars, queued>>

\* Mutant: the shutdown does not wake it.
readLoopStays(c) ==
  /\ "read" \in conn[c].running
  /\ conn[c].step = "open"
  /\ conn' = [conn EXCEPT ![c] = exited(@, "read")]
  /\ UNCHANGED <<client, listenerVars, acceptVars, pathVars>>

\* readLoop returns: the socket is shut down, closed is set, or RecvMMsg fails
\* (such as ECONNREFUSED), which leaves the connection open and deaf.
readLoopReturns(c) ==
  /\ "read" \in conn[c].running
  /\ conn' = [conn EXCEPT ![c] = exited(@, "read")]
  /\ UNCHANGED <<client, listenerVars, acceptVars, pathVars>>

\* keepAliveLoop sees closeCh.
keepAliveLoopReturns(c) ==
  /\ "keepAlive" \in conn[c].running
  /\ isClosed(conn[c])
  /\ conn' = [conn EXCEPT ![c] = exited(@, "keepAlive")]
  /\ UNCHANGED <<client, listenerVars, acceptVars, pathVars>>

\* Mutant: silence is not counted.
tickUncounted(r) == r

\* A tick of keepAliveLoop: silence for more than maxMissedPongs ticks closes
\* the connection, from a goroutine of its own.
tick(r) ==
  IF r.missed + 1 > maxMissedPongs
    THEN exited(asked(r), "keepAlive")
    ELSE [r EXCEPT !.missed = @ + 1]

keepAliveLoop(c) ==
  /\ "keepAlive" \in conn[c].running
  /\ ~isClosed(conn[c])
  /\ conn' = [conn EXCEPT ![c] = tick(@)]
  /\ UNCHANGED <<client, listenerVars, acceptVars, pathVars>>

\* A peer that is there answers a PING.
Pong(c) ==
  /\ "read" \in conn[c].running
  /\ ~isClosed(conn[c])
  /\ client[conn[c].addr] # "gone"
  /\ conn' = [conn EXCEPT ![c].missed = 0]
  /\ UNCHANGED <<client, listenerVars, acceptVars, pathVars>>

\* The call of Close that wins: closed is set, closeCh is closed and GOAWAY is
\* sent (the peer may close at any time anyway).  missedPongs is not looked at
\* any more.
CloseBegin(c) ==
  /\ conn[c].askedToClose
  /\ conn[c].step = "open"
  /\ conn' = [conn EXCEPT ![c].step = "fence", ![c].missed = 0]
  /\ accepted' = accepted \ {c}
  /\ UNCHANGED <<client, listenerVars, accepting, acceptCh, pathVars>>

\* Mutant: the table's entry is removed before the descriptor is closed.
CloseFenceRemoves(c) ==
  /\ conn[c].step = "fence"
  /\ conn' = [conn EXCEPT ![c].step = "join"]
  /\ table' = [table EXCEPT ![conn[c].addr] = None]
  /\ UNCHANGED <<client, reader, closing, acceptVars, pathVars>>

\* Under recvMu: the socket is shut down, which wakes readLoop.
CloseFence(c) ==
  /\ conn[c].step = "fence"
  /\ conn' = [conn EXCEPT ![c].step = "join"]
  /\ UNCHANGED <<client, listenerVars, acceptVars, pathVars>>

\* doneWg.Wait(), then the descriptor is closed.
CloseSocket(c) ==
  /\ conn[c].step = "join"
  /\ conn[c].registered = {}
  /\ conn' = [conn EXCEPT ![c].step = "remove"]
  /\ UNCHANGED <<client, listenerVars, acceptVars, pathVars>>

\* onClose (removeConnection), then closeDone.
CloseDone(c) ==
  /\ conn[c].step = "remove"
  /\ conn' = [conn EXCEPT ![c].step = "done"]
  /\ table' = [table EXCEPT ![conn[c].addr] = None]
  /\ UNCHANGED <<client, reader, closing, acceptVars, pathVars>>

CloseStep(c) ==
  CloseBegin(c) \/ CloseFence(c) \/ CloseSocket(c) \/ CloseDone(c)

\* The application closes a connection it got.
AppClose(c) ==
  /\ c \in accepted
  /\ ~conn[c].askedToClose
  /\ conn' = [conn EXCEPT ![c] = asked(@)]
  /\ UNCHANGED <<client, listenerVars, acceptVars, pathVars>>

-------------------------------------------------------------------------------
(* The peers.                                                              *)

\* Again and again from the same address.
Dial(a) ==
  /\ client[a] = "gone"
  /\ client' = [client EXCEPT ![a] = "dialing"]
  /\ UNCHANGED <<conn, listenerVars, acceptVars, pathVars>>

\* The first time and at every retry.
sendHandshake(a) ==
  /\ client[a] = "dialing"
  /\ wire' = wire \cup {toServer(a, "handshake")}
  /\ UNCHANGED <<client, conn, listenerVars, acceptVars, queued>>

\* The client's handleHandshake closes establishedCh, and Dial returns.
DialReturns(a) ==
  /\ client[a] = "dialing"
  /\ toClient(a, "handshake") \in wire
  /\ client' = [client EXCEPT ![a] = "established"]
  /\ wire' = wire \ {toClient(a, "handshake")}
  /\ UNCHANGED <<conn, listenerVars, acceptVars, queued>>

\* Dial gives up, the application closes, keepalive finds silence, or GOAWAY
\* comes: the client's Close.
ClientClose(a) ==
  /\ client[a] # "gone"
  /\ client' = [client EXCEPT ![a] = "gone"]
  /\ wire' = wire \cup {toServer(a, "goAway")}
  /\ UNCHANGED <<conn, listenerVars, acceptVars, queued>>

\* The client's process dies.
Vanish(a) ==
  /\ client[a] # "gone"
  /\ client' = [client EXCEPT ![a] = "gone"]
  /\ UNCHANGED <<conn, listenerVars, acceptVars, pathVars>>

-------------------------------------------------------------------------------
(* Listener.                                                               *)

idle == [step |-> IF listenerClosed THEN "returned" ELSE "receive", making |-> None]

at(step, c) == [step |-> step, making |-> c]

\* Mutant: the connection is published after its handshake ACK.
followingLate == [create |-> "start", start |-> "acknowledge",
                  acknowledge |-> "publish", publish |-> "offer"]

\* What readLoop does with a new connection, in order.
following == [create |-> "publish", publish |-> "start", start |-> "acknowledge",
              acknowledge |-> "offer"]

\* A datagram arrives at the listener's socket.
Arrive(m) ==
  /\ m.to = "server"
  /\ ~\E c \in Conns : HasSocket(c) /\ conn[c].addr = m.addr
  /\ closing.step \in {"open", "join"}
  /\ wire' = wire \ {m}
  /\ queued' = queued \cup
       {IF m \in queued /\ m.kind = "handshake"
          THEN toServer(m.addr, "handshakeRetry") ELSE m}
  /\ UNCHANGED <<client, conn, listenerVars, acceptVars>>

\* A datagram of a known peer is handled by its connection; a handshake of an
\* unknown one makes a connection with a connected socket, unless that fails.
Receive(m) ==
  /\ reader.step = "receive"
  /\ queued' = queued \ {m}
  /\ LET c == table[m.addr]
     IN  \/ /\ c # None
            /\ conn' = [conn EXCEPT ![c] = dispatchFrame(c, m.kind)]
            /\ wire' = wire \cup answers(c, m.kind)
            /\ reader' = idle
         \/ /\ c = None
            /\ reader' = idle
            /\ UNCHANGED <<conn, wire>>
         \/ /\ c = None
            /\ m.kind \in Handshakes
            /\ Unused # {}
            /\ LET n == CHOOSE x \in Unused : TRUE
               IN  /\ conn' = [conn EXCEPT ![n] = newConnection(m.addr)]
                   /\ reader' = at(following["create"], n)
            /\ UNCHANGED wire
  /\ UNCHANGED <<client, table, closing, acceptVars>>

Publish ==
  /\ reader.step = "publish"
  /\ table' = [table EXCEPT ![conn[reader.making].addr] = reader.making]
  /\ reader' = at(following["publish"], reader.making)
  /\ UNCHANGED <<client, conn, closing, acceptVars, pathVars>>

Start ==
  /\ reader.step = "start"
  /\ conn' = [conn EXCEPT ![reader.making] = start(@)]
  /\ reader' = at(following["start"], reader.making)
  /\ UNCHANGED <<client, table, closing, acceptVars, pathVars>>

\* The handshake ACK; when it cannot be sent the connection is closed, and
\* readLoop waits for that.
Acknowledge ==
  /\ reader.step = "acknowledge"
  /\ conn[reader.making].toLaunch = <<>>
  /\ \/ /\ Receives(reader.making)
        /\ wire' = wire \cup handshakeAck(conn[reader.making].addr)
        /\ reader' = at(following["acknowledge"], reader.making)
        /\ UNCHANGED conn
     \/ /\ conn' = [conn EXCEPT ![reader.making] = asked(@)]
        /\ reader' = at("close", reader.making)
        /\ UNCHANGED wire
  /\ UNCHANGED <<client, table, closing, acceptVars, queued>>

AcknowledgeFailed ==
  /\ reader.step = "close"
  /\ conn[reader.making].step = "done"
  /\ reader' = idle
  /\ UNCHANGED <<client, conn, table, closing, acceptVars, pathVars>>

\* Mutant: the send does not look whether there is room.
offeredAlways(c) == Append(acceptCh, c)

offered(c) == IF Len(acceptCh) < AcceptCap THEN Append(acceptCh, c) ELSE acceptCh

\* The connection goes to acceptCh, unless it is closed by now or there is no room.
Offer ==
  /\ reader.step = "offer"
  /\ acceptCh' = IF isClosed(conn[reader.making]) THEN acceptCh
                                                  ELSE offered(reader.making)
  /\ reader' = idle
  /\ UNCHANGED <<client, conn, table, closing, accepting, accepted, pathVars>>

\* Mutant: readLoop looks at closed only after a datagram.
ReaderBlocked ==
  /\ reader.step = "receive"
  /\ listenerClosed /\ queued # {}
  /\ reader' = idle
  /\ UNCHANGED <<client, conn, table, closing, acceptVars, pathVars>>

\* readLoop was blocked; the shutdown of the socket wakes it.
ReaderReturns ==
  /\ reader.step = "receive"
  /\ listenerClosed
  /\ reader' = idle
  /\ UNCHANGED <<client, conn, table, closing, acceptVars, pathVars>>

\* The application calls Accept again and again, until it is refused.
AcceptReturns ==
  /\ accepting = "waiting"
  /\ acceptCh # <<>>
  /\ acceptCh' = Tail(acceptCh)
  /\ accepting' = IF listenerClosed THEN "refused" ELSE "waiting"
  /\ accepted' = accepted \cup {c \in {Head(acceptCh)} :
                                  ~listenerClosed /\ ~isClosed(conn[c])}
  /\ UNCHANGED <<client, conn, listenerVars, pathVars>>

AcceptRefused ==
  /\ accepting = "waiting"
  /\ listenerClosed
  /\ accepting' = "refused"
  /\ UNCHANGED <<client, conn, listenerVars, acceptCh, accepted, pathVars>>

ListenerClose ==
  /\ closing.step = "open"
  /\ closing' = [closing EXCEPT !.step = "join"]
  /\ UNCHANGED <<client, conn, table, reader, acceptVars, pathVars>>

\* After doneWg.Wait(): the socket is closed and the table emptied.
ListenerSnapshot ==
  /\ closing.step = "join"
  /\ reader.step = "returned"
  /\ closing' = [step |-> "each", now |-> None,
                 left |-> {table[a] : a \in Addrs} \ {None}]
  /\ table' = [a \in Addrs |-> None]
  /\ queued' = {}
  /\ UNCHANGED <<client, conn, reader, acceptVars, wire>>

\* Mutant: a Close that loses returns at once.
closeReturned(c) == isClosed(conn[c])

\* Close is synchronous for whoever calls it: closeDone.
closeReturns(c) == conn[c].step = "done"

\* The loop over the connections, in any order.
ListenerCloseConn(c) ==
  /\ closing.step = "each" /\ closing.now = None
  /\ c \in closing.left
  /\ conn' = [conn EXCEPT ![c] = asked(@)]
  /\ closing' = [closing EXCEPT !.now = c, !.left = @ \ {c}]
  /\ UNCHANGED <<client, table, reader, acceptVars, pathVars>>

ListenerConnClosed ==
  /\ closing.step = "each" /\ closing.now # None
  /\ closeReturns(closing.now)
  /\ closing' = [closing EXCEPT !.now = None]
  /\ UNCHANGED <<client, conn, table, reader, acceptVars, pathVars>>

ListenerCloseReturns ==
  /\ closing.step = "each" /\ closing.now = None /\ closing.left = {}
  /\ closing' = [closing EXCEPT !.step = "done"]
  /\ UNCHANGED <<client, conn, table, reader, acceptVars, pathVars>>

-------------------------------------------------------------------------------
Init ==
  /\ conn = [c \in Conns |-> unused]
  /\ client = [a \in Addrs |-> "gone"]
  /\ table = [a \in Addrs |-> None]
  /\ reader = [step |-> "receive", making |-> None]
  /\ closing = [step |-> "open", now |-> None, left |-> {}]
  /\ accepting = "waiting"
  /\ acceptCh = <<>> /\ accepted = {}
  /\ queued = {} /\ wire = {}

ListenerStep ==
  \/ \E m \in queued : Receive(m)
  \/ Publish \/ Start \/ Acknowledge \/ AcknowledgeFailed \/ Offer \/ ReaderReturns

ListenerCloseStep ==
  \/ ListenerSnapshot \/ ListenerConnClosed \/ ListenerCloseReturns
  \/ \E c \in Conns : ListenerCloseConn(c)

Next ==
  \/ \E c \in Conns : Launch(c) \/ readLoopReturns(c) \/ keepAliveLoop(c)
                     \/ keepAliveLoopReturns(c) \/ Pong(c)
                     \/ CloseStep(c) \/ AppClose(c)
  \/ \E c \in Conns : \E m \in wire : readLoop(c, m)
  \/ \E a \in Addrs : Dial(a) \/ sendHandshake(a) \/ DialReturns(a)
                     \/ ClientClose(a) \/ Vanish(a)
  \/ \E m \in wire : Arrive(m)
  \/ ListenerStep \/ ListenerClose \/ ListenerCloseStep
  \/ AcceptReturns \/ AcceptRefused

\* Steps each of which a connection takes at most once.
Ends(c) ==
  \/ CloseStep(c) \/ Launch(c) \/ keepAliveLoopReturns(c)
  \/ conn[c].step = "join" /\ readLoopReturns(c)

\* Every goroutine that can take a step takes it in the end, and the keepalive
\* ticker ticks.  One condition is enough for the steps that are not repeated.
\* Nothing is assumed of the network, of the peers, of Accept and Close being
\* called, or of RecvMMsg failing.
Fairness ==
  /\ WF_vars(\/ \E c \in Conns : Ends(c)
             \/ ListenerCloseStep \/ AcceptRefused)
  /\ \A c \in Conns : WF_vars(keepAliveLoop(c))
  /\ WF_vars(ListenerStep)

Spec == Init /\ [][Next]_vars /\ Fairness

-------------------------------------------------------------------------------
(* Properties.                                                             *)

Datagrams ==
  [to : {"server", "client"}, addr : Addrs, kind : Handshakes \cup {"goAway"}]

ConnType ==
  [addr : Addrs \cup {None},
   step : {"unused", "open", "fence", "join", "remove", "done"},
   registered : SUBSET Workers, running : SUBSET Workers,
   toLaunch : {<<>>, <<"keepAlive">>, order},
   missed : 0..maxMissedPongs, askedToClose : BOOLEAN]

\* Every variable has its type, and acceptCh never holds more than it can.
TypeOK ==
  /\ client \in [Addrs -> {"gone", "dialing", "established"}]
  /\ conn \in [Conns -> ConnType]
  /\ table \in [Addrs -> Conns \cup {None}]
  /\ acceptCh \in Seq(Conns) /\ Len(acceptCh) <= AcceptCap
  /\ wire \subseteq Datagrams /\ queued \subseteq Datagrams

\* "inserting it here would retain and offer an already-closed connection
\* forever" (Listener.readLoop): the table has no connection whose teardown is
\* complete, whenever GOAWAY comes.
NoDeadEntry == \A a \in Addrs : table[a] # None => conn[table[a]].step # "done"

\* A peer has at most one connected socket at the listener: otherwise the kernel
\* splits its datagrams between two connections.  Close removes the table's
\* entry only after the descriptor is closed.
SoleSocket ==
  \A c, d \in Conns :
    HasSocket(c) /\ HasSocket(d) /\ conn[c].addr = conn[d].addr => c = d

\* No worker runs on a descriptor that Close has closed ("a late Add/use of the
\* already-torn-down socket", start), and none is still to be launched.
NoLateWorker ==
  \A c \in Conns :
    conn[c].step \in {"remove", "done"} =>
      conn[c].running = {} /\ conn[c].toLaunch = <<>>

\* "Close stops the listener and closes all connections" (Listener.Close): when
\* it returns, every connection it ever made is torn down completely, also those
\* that another goroutine was closing.
AllClosed ==
  closing.step = "done" => \A c \in Conns : conn[c].step \in {"unused", "done"}

\* Connection.Close comes to its end, whoever calls it: no worker waits for
\* Close while Close waits for it (the go statements before c.Close()).
CloseReturns == \A c \in Conns : conn[c].step = "fence" ~> conn[c].step = "done"

\* Listener.Close comes to its end, and nobody is left waiting in Accept.
ListenerStops ==
  listenerClosed ~> closing.step = "done" /\ accepting # "waiting"

\* "so a vanished peer's connection state (and the Listener's tracking entry)
\* doesn't leak forever" (keepAliveLoop): when the peers are gone for good, with
\* or without GOAWAY, all the listener's connections come to their end, those
\* made by handshakes that came late included.
GoneCollected ==
  <>[](\A a \in Addrs : client[a] = "gone")
    => <>[](\A c \in Conns : conn[c].step \in {"unused", "done"})
===============================================================================
