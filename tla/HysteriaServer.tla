---------------------------- MODULE HysteriaServer ----------------------------
(***************************************************************************)
(* The Hysteria2 inbound: the accept loop and handleClient of the server,  *)
(* authentication, TCP requests and the UDP manager of a connection, Close *)
(* and Wait, and the events that internal/inbound/hysteria2 passes on to   *)
(* the policy kernel.                                                      *)
(*                                                                         *)
(* A connection has one session; its requests are numbered by requestID.   *)
(* Of the UDP manager only its contract is kept, that Run returns after    *)
(* all its requests were stopped (ReturnsClean of UDPSessions).            *)
(***************************************************************************)
EXTENDS Integers, Tracker

CONSTANTS
    Conns,         \* client connections
    MaxRequests    \* bound: requests per connection

ASSUME ServerAssumption == MaxRequests \in [Conns -> Nat]

Requests == UNION {1..MaxRequests[c] : c \in Conns}

VARIABLES
    up,         \* QUIC connections that are not closed
    handler,    \* handleClient: "none", "serving", "waiting", "offline", "disconnect", "done"
    auth,       \* ServeHTTP: "no", "accepted", "online", "connected", "yes"
    requestID,  \* requests numbered so far
    worker,     \* per request: "none", "read", "dial", "relay", "refused", "udp", "barred", "over"
    udp,        \* the UDP manager: "off", "running", "returned"
    table, online,   \* the tracker and the online count, as in SessionRegistry
    closer      \* Close and Wait: "idle", "closing", "closed", "returned"

events == <<table, online>>
vars == <<up, handler, auth, requestID, worker, udp, events, closer>>

Closing == closer # "idle"
Set(c, r, place) == worker' = [worker EXCEPT ![c][r] = place]
Handle(c, place) == handler' = [handler EXCEPT ![c] = place]

\* The adapter: events of the server become calls of the kernel.
LogOnlineStateSession(c, on) == online' = LogOnlineState(online, c, on)
Connected(c) == table' = ConnectSession(table, c)
Disconnected(c) == table' = DisconnectSession(table, c)
RequestStarted(c, r) == table' = StartRequest(table, c, r)
RequestStopped(c, r) == table' = StopRequest(table, c, r)
----------------------------------------------------------------------------
\* Serve: a connection that is accepted while the server closes is refused.
Accept(c) ==
    /\ handler[c] = "none" /\ closer \in {"idle", "closing"}
    /\ IF Closing THEN Handle(c, "done") /\ UNCHANGED up
       ELSE Handle(c, "serving") /\ up' = up \cup {c}
    /\ UNCHANGED <<auth, requestID, worker, udp, events, closer>>

\* The client leaves, or its connection is lost or idle for too long.
Drops(c) ==
    /\ c \in up
    /\ up' = up \ {c}
    /\ UNCHANGED <<handler, auth, requestID, worker, udp, events, closer>>

\* ServeHTTP holds authMutex from here until the manager runs.  A refused
\* authentication is answered like any other request and changes nothing.
Authenticate(c) ==
    /\ handler[c] = "serving" /\ auth[c] = "no" /\ c \in up
    /\ auth' = [auth EXCEPT ![c] = "accepted"]
    /\ UNCHANGED <<up, handler, requestID, worker, udp, events, closer>>

LogOnline(c) ==
    /\ auth[c] = "accepted"
    /\ auth' = [auth EXCEPT ![c] = "online"]
    /\ LogOnlineStateSession(c, TRUE)
    /\ UNCHANGED <<up, handler, requestID, worker, udp, table, closer>>

Connect(c) ==
    /\ auth[c] = "online"
    /\ auth' = [auth EXCEPT ![c] = "connected"]
    /\ Connected(c)
    /\ UNCHANGED <<up, handler, requestID, worker, udp, online, closer>>

StartManager(c) ==
    /\ auth[c] = "connected"
    /\ auth' = [auth EXCEPT ![c] = "yes"]
    /\ udp' = [udp EXCEPT ![c] = "running"]
    /\ UNCHANGED <<up, handler, requestID, worker, events, closer>>
----------------------------------------------------------------------------
AcceptsStreams(c) == auth[c] = "yes"

\* ProxyStreamHijacker
OpenStream(c) ==
    /\ handler[c] = "serving" /\ c \in up /\ AcceptsStreams(c)
    /\ requestID[c] < MaxRequests[c]
    /\ requestID' = [requestID EXCEPT ![c] = @ + 1]
    /\ Set(c, requestID[c] + 1, "read")
    /\ UNCHANGED <<up, handler, auth, udp, events, closer>>

\* A request that cannot be read has no events; it is read before it is reported.
ReadTCPRequest(c, r) ==
    /\ worker[c][r] = "read"
    /\ \/ Set(c, r, "over") /\ UNCHANGED table
       \/ Set(c, r, "dial") /\ RequestStarted(c, r)
    /\ UNCHANGED <<up, handler, auth, requestID, udp, online, closer>>

DialTCP(c, r) ==
    /\ worker[c][r] = "dial"
    /\ \/ Set(c, r, "over") /\ RequestStopped(c, r)
       \/ Set(c, r, "relay") /\ UNCHANGED table
    /\ UNCHANGED <<up, handler, auth, requestID, udp, online, closer>>

\* copyTwoWaySession ends, by either side or because a payload was refused.
RelayEnds(c, r, place) ==
    /\ worker[c][r] = "relay"
    /\ Set(c, r, place)
    /\ RequestStopped(c, r)
    /\ UNCHANGED <<up, handler, auth, requestID, udp, online, closer>>

\* Mutant: only the request is ended.
UpAfterRefusal(c) == up

UpWithout(c) == up \ {c}

\* errDisconnect ends the session and with it the connection.
Disconnects(c, r) ==
    /\ worker[c][r] = "refused"
    /\ Set(c, r, "over")
    /\ up' = UpWithout(c)
    /\ UNCHANGED <<handler, auth, requestID, udp, events, closer>>

\* A session of the UDP manager starts and ends.
UDPRequest(c) ==
    /\ udp[c] = "running" /\ requestID[c] < MaxRequests[c]
    /\ requestID' = [requestID EXCEPT ![c] = @ + 1]
    /\ Set(c, requestID[c] + 1, "udp")
    /\ RequestStarted(c, requestID[c] + 1)
    /\ UNCHANGED <<up, handler, auth, udp, online, closer>>

\* Admit of a datagram, in either direction: a refused one ends the session and
\* the connection.
UDPRefused(c, r) ==
    /\ worker[c][r] = "udp"
    /\ Set(c, r, "barred")
    /\ up' = UpWithout(c)
    /\ UNCHANGED <<handler, auth, requestID, udp, events, closer>>

UDPError(c, r) ==
    /\ worker[c][r] \in {"udp", "barred"}
    /\ Set(c, r, "over")
    /\ RequestStopped(c, r)
    /\ UNCHANGED <<up, handler, auth, requestID, udp, online, closer>>

\* ReceiveDatagram fails, which stops the manager and its sessions.
ManagerReturns(c) ==
    /\ udp[c] = "running" /\ c \notin up
    /\ \A r \in Requests : worker[c][r] \notin {"udp", "barred"}
    /\ udp' = [udp EXCEPT ![c] = "returned"]
    /\ UNCHANGED <<up, handler, auth, requestID, worker, events, closer>>
----------------------------------------------------------------------------
\* The end of handleClient.

\* ServeQUICConn has returned, after the handlers it started.
ServeReturns(c) ==
    /\ handler[c] = "serving" /\ c \notin up
    /\ auth[c] \in {"no", "yes"}
    /\ Handle(c, "waiting")
    /\ UNCHANGED <<up, auth, requestID, worker, udp, events, closer>>

\* Mutant: handler.Wait does not wait for the TCP requests.
WaitsForManager(c) == udp[c] # "running"

WorkersOver(c) ==
    /\ udp[c] # "running"
    /\ \A r \in Requests : worker[c][r] \in {"none", "over"}

Wait(c) ==
    /\ handler[c] = "waiting" /\ WorkersOver(c)
    /\ Handle(c, IF auth[c] = "yes" THEN "offline" ELSE "done")
    /\ UNCHANGED <<up, auth, requestID, worker, udp, events, closer>>

LogOffline(c) ==
    /\ handler[c] = "offline"
    /\ Handle(c, "disconnect")
    /\ LogOnlineStateSession(c, FALSE)
    /\ UNCHANGED <<up, auth, requestID, worker, udp, table, closer>>

Disconnect(c) ==
    /\ handler[c] = "disconnect"
    /\ Handle(c, "done")
    /\ Disconnected(c)
    /\ UNCHANGED <<up, auth, requestID, worker, udp, online, closer>>
----------------------------------------------------------------------------
\* The connections are collected with the flag, under one mutex.
Close ==
    /\ closer = "idle"
    /\ closer' = "closing"
    /\ UNCHANGED <<up, handler, auth, requestID, worker, udp, events>>

UpAfterClose == {}

CloseConnections ==
    /\ closer = "closing"
    /\ closer' = "closed"
    /\ up' = UpAfterClose
    /\ UNCHANGED <<handler, auth, requestID, worker, udp, events>>

\* Mutant: a client leaves clientsWG before its last events.
ClientsLeft == \A c \in Conns : handler[c] # "serving"

ClientsDone == \A c \in Conns : handler[c] \in {"none", "done"}

\* Wait with enough time.
WaitReturns ==
    /\ closer = "closed" /\ ClientsDone
    /\ closer' = "returned"
    /\ UNCHANGED <<up, handler, auth, requestID, worker, udp, events>>
----------------------------------------------------------------------------
Init ==
    /\ up = {} /\ online = {} /\ table = NoSessions /\ closer = "idle"
    /\ handler = [c \in Conns |-> "none"]
    /\ auth = [c \in Conns |-> "no"]
    /\ requestID = [c \in Conns |-> 0]
    /\ worker = [c \in Conns |-> [r \in Requests |-> "none"]]
    /\ udp = [c \in Conns |-> "off"]

Worker(c, r) ==
    \/ ReadTCPRequest(c, r) \/ DialTCP(c, r) \/ Disconnects(c, r)
    \/ UDPRefused(c, r) \/ UDPError(c, r)
    \/ \E place \in {"over", "refused"} : RelayEnds(c, r, place)

Handler(c) ==
    \/ LogOnline(c) \/ Connect(c) \/ StartManager(c) \/ ManagerReturns(c)
    \/ ServeReturns(c) \/ Wait(c) \/ LogOffline(c) \/ Disconnect(c)

Next ==
    \/ Close \/ CloseConnections \/ WaitReturns
    \/ \E c \in Conns :
        \/ Accept(c) \/ Drops(c) \/ Authenticate(c) \/ OpenStream(c) \/ UDPRequest(c)
        \/ Handler(c) \/ \E r \in Requests : Worker(c, r)

Spec == Init /\ [][Next]_vars

\* Streams and datagrams of a closed connection fail, dials have deadlines.
\* Nothing is assumed of a connection that is up.
Fairness ==
    /\ WF_vars(CloseConnections) /\ WF_vars(WaitReturns)
    /\ \A c \in Conns :
        /\ WF_vars(Handler(c))
        /\ \A r \in Requests :
            /\ WF_vars(DialTCP(c, r)) /\ WF_vars(Disconnects(c, r))
            /\ WF_vars(c \notin up /\ Worker(c, r))

FairSpec == Spec /\ Fairness
----------------------------------------------------------------------------
Registry == INSTANCE SessionRegistry WITH Sessions <- Conns

\* The events the kernel gets for a connection keep the registry's order,
\* whatever its requests, its UDP manager and the shutdown do: no request before
\* the session is connected, none left when it goes offline and is disconnected.
ImplementsRegistry == Registry!Spec

\* The panel shows what runs: every request that is dialed or relayed, although
\* the tracker ignores requests of sessions it does not know, and no other.  After
\* Wait it shows no session of this inbound, nobody is counted online, and no
\* request runs that could still charge.
RequestsShown ==
    /\ \A c \in Conns :
          {r \in Requests : worker[c][r] \in {"dial", "relay", "udp", "barred"}}
              = IF c \in DOMAIN table THEN table[c] ELSE {}
    /\ closer = "returned" =>
          /\ online = {} /\ table = NoSessions
          /\ \A c \in Conns, r \in Requests : worker[c][r] \in {"none", "over"}

\* Every session is disconnected after its connection has ended, for whichever
\* reason; a refused payload, of a TCP or of a UDP request, ends it, and so do
\* Close and Wait of the server, which return.
SessionEnds ==
    /\ \A c \in Conns :
          /\ (auth[c] # "no" /\ c \notin up) ~> (c \notin DOMAIN table /\ c \notin online)
          /\ (\E r \in Requests : worker[c][r] \in {"refused", "barred"}) ~> (c \notin DOMAIN table)
    /\ Closing ~> (closer = "returned")
=============================================================================
