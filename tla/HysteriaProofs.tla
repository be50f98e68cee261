--------------------------- MODULE HysteriaProofs ---------------------------
(***************************************************************************)
(* Proofs about the two layers of the Hysteria2 inbound for every set of   *)
(* connections and association ids and every number of requests and        *)
(* sessions.                                                               *)
(*                                                                         *)
(* The first part is about HysteriaServer.  Its inductive invariant ties   *)
(* the places of handleClient, ServeHTTP and the UDP manager of a          *)
(* connection to what the kernel has been told (PlaceInv), and every       *)
(* request to the tracker's set (RequestInv).  The second part is about    *)
(* UDPSessions.                                                            *)
(***************************************************************************)
EXTENDS MCHysteria, FiniteSetTheorems, TLAPS

\* Most leaves are first-order reasoning; those with arithmetic or larger
\* expressions over records and functions cite SMT.
USE Zenon

Shown == {"dial", "relay", "udp", "barred"}
WorkerPlaces == {"none", "read", "dial", "relay", "refused", "udp", "barred", "over"}

TypeOK ==
    /\ up \in SUBSET Conns /\ online \in SUBSET Conns
    /\ handler \in [Conns -> {"none", "serving", "waiting", "offline", "disconnect", "done"}]
    /\ auth \in [Conns -> {"no", "accepted", "online", "connected", "yes"}]
    /\ requestID \in [Conns -> Nat]
    /\ worker \in [Conns -> [Requests -> WorkerPlaces]]
    /\ udp \in [Conns -> {"off", "running", "returned"}]
    /\ DOMAIN table \subseteq Conns /\ table \in [DOMAIN table -> SUBSET Requests]
    /\ closer \in {"idle", "closing", "closed", "returned"}

PlaceInv(c) ==
    /\ handler[c] = "none" => auth[c] = "no"
    /\ c \in up => handler[c] = "serving"
    /\ auth[c] \notin {"no", "yes"} => handler[c] = "serving"
    /\ c \in online <=> /\ auth[c] \in {"online", "connected", "yes"}
                        /\ handler[c] \notin {"disconnect", "done"}
    /\ c \in DOMAIN table <=> auth[c] \in {"connected", "yes"} /\ handler[c] # "done"
    /\ udp[c] = "running" => auth[c] = "yes" /\ handler[c] \in {"serving", "waiting"}
    /\ handler[c] \in {"offline", "disconnect"} => auth[c] = "yes"
    /\ closer = "returned" => handler[c] \in {"none", "done"}

RequestInv(c, r) ==
    /\ worker[c][r] # "none" => auth[c] = "yes" /\ r <= requestID[c]
    /\ worker[c][r] \notin {"none", "over"} => handler[c] \in {"serving", "waiting"}
    /\ worker[c][r] \in {"udp", "barred"} => udp[c] = "running"
    /\ worker[c][r] \in Shown <=> c \in DOMAIN table /\ r \in table[c]

WorkerInv(c) == \A r \in Requests : RequestInv(c, r)

IndInv == TypeOK /\ \A c \in Conns : PlaceInv(c) /\ WorkerInv(c)
----------------------------------------------------------------------------

\* The connection e keeps what it has.
Kept(e) ==
    /\ handler'[e] = handler[e] /\ auth'[e] = auth[e] /\ udp'[e] = udp[e]
    /\ requestID'[e] = requestID[e] /\ worker'[e] = worker[e]
    /\ e \in up' <=> e \in up
    /\ e \in online' <=> e \in online
    /\ e \in DOMAIN table' <=> e \in DOMAIN table
    /\ e \in DOMAIN table => table'[e] = table[e]

\* A step of c alone.
StepOf(c) ==
    /\ TypeOK' /\ PlaceInv(c)' /\ WorkerInv(c)' /\ closer' = closer
    /\ \A e \in Conns : e # c => Kept(e)

\* A connection that keeps what it has keeps its invariant.
LEMMA KeptInv ==
    ASSUME NEW e \in Conns, PlaceInv(e), WorkerInv(e), Kept(e), closer' = closer
    PROVE  PlaceInv(e)' /\ WorkerInv(e)'
<1>1. PlaceInv(e)'
  BY DEF Kept, PlaceInv
<1>2. WorkerInv(e)'
  BY DEF Kept, WorkerInv, RequestInv
<1> QED
  BY <1>1, <1>2

\* Set moves one request.
LEMMA SetMoves ==
    ASSUME TypeOK, NEW c \in Conns, NEW r \in Requests, NEW p \in WorkerPlaces, Set(c, r, p)
    PROVE  /\ worker' \in [Conns -> [Requests -> WorkerPlaces]]
           /\ worker'[c][r] = p
           /\ \A q \in Requests : q # r => worker'[c][q] = worker[c][q]
           /\ \A e \in Conns : e # c => worker'[e] = worker[e]
  BY DEF TypeOK, Set

\* A request of a connected session is entered into its set.
LEMMA StartedEnters ==
    ASSUME TypeOK, NEW c \in DOMAIN table, NEW r \in Requests, RequestStarted(c, r)
    PROVE  /\ DOMAIN table' = DOMAIN table /\ table' \in [DOMAIN table -> SUBSET Requests]
           /\ table'[c] = table[c] \cup {r}
           /\ \A e \in DOMAIN table : e # c => table'[e] = table[e]
  BY DEF TypeOK, RequestStarted, StartRequest

\* A request of a connected session is taken out of its set.
LEMMA StoppedLeaves ==
    ASSUME TypeOK, NEW c \in DOMAIN table, NEW r \in Requests, RequestStopped(c, r)
    PROVE  /\ DOMAIN table' = DOMAIN table /\ table' \in [DOMAIN table -> SUBSET Requests]
           /\ table'[c] = table[c] \ {r}
           /\ \A e \in DOMAIN table : e # c => table'[e] = table[e]
  BY DEF TypeOK, RequestStopped, StopRequest

\* Requests are numbers.
LEMMA RequestsAreNat == Requests \subseteq Nat
  BY SMT, ServerAssumption DEF Requests

\* A new request has a number of its own.
LEMMA NextRequest ==
    ASSUME TypeOK, NEW c \in Conns, requestID[c] < MaxRequests[c], WorkerInv(c)
    PROVE  requestID[c] + 1 \in Requests /\ worker[c][requestID[c] + 1] = "none"
<1>1. requestID[c] \in Nat /\ MaxRequests[c] \in Nat
  BY ServerAssumption DEF TypeOK
<1>2. requestID[c] + 1 \in 1..MaxRequests[c]
  BY SMT, <1>1
<1>3. requestID[c] + 1 \in Requests
  BY <1>2 DEF Requests
<1> QED
  BY SMT, <1>1, <1>3 DEF WorkerInv, RequestInv

\* The server takes a connection, or refuses it while it closes.
LEMMA AcceptStep ==
    ASSUME TypeOK, NEW c \in Conns, PlaceInv(c), WorkerInv(c), Accept(c)
    PROVE  StepOf(c)
<1>1. TypeOK'
  BY SMTT(30) DEF TypeOK, events, Accept, Handle, Closing
<1>2. \A e \in Conns : e # c => Kept(e)
  BY DEF TypeOK, Kept, events, Accept, Handle, Closing
<1>3. PlaceInv(c)'
  BY DEF TypeOK, PlaceInv, events, Accept, Handle, Closing
<1>4. WorkerInv(c)'
  BY DEF TypeOK, PlaceInv, WorkerInv, RequestInv, Shown, events, Accept,
     Handle, Closing
<1>5. closer' = closer
  BY DEF Accept
<1> QED
  BY <1>1, <1>2, <1>3, <1>4, <1>5 DEF StepOf

\* A connection is lost.
LEMMA DropsStep ==
    ASSUME TypeOK, NEW c \in Conns, PlaceInv(c), WorkerInv(c), Drops(c)
    PROVE  StepOf(c)
<1>1. TypeOK'
  BY DEF TypeOK, events, Drops
<1>2. \A e \in Conns : e # c => Kept(e)
  BY DEF TypeOK, Kept, events, Drops
<1>3. PlaceInv(c)'
  BY DEF TypeOK, PlaceInv, events, Drops
<1>4. WorkerInv(c)'
  BY DEF TypeOK, PlaceInv, WorkerInv, RequestInv, Shown, events, Drops
<1>5. closer' = closer
  BY DEF Drops
<1> QED
  BY <1>1, <1>2, <1>3, <1>4, <1>5 DEF StepOf

\* The authenticator accepts a client.
LEMMA AuthenticateStep ==
    ASSUME TypeOK, NEW c \in Conns, PlaceInv(c), WorkerInv(c), Authenticate(c)
    PROVE  StepOf(c)
<1>1. TypeOK'
  BY DEF TypeOK, events, Authenticate
<1>2. \A e \in Conns : e # c => Kept(e)
  BY DEF TypeOK, Kept, events, Authenticate
<1>3. PlaceInv(c)'
  BY DEF TypeOK, PlaceInv, events, Authenticate
<1>4. WorkerInv(c)'
  BY DEF TypeOK, PlaceInv, WorkerInv, RequestInv, Shown, events, Authenticate
<1>5. closer' = closer
  BY DEF Authenticate
<1> QED
  BY <1>1, <1>2, <1>3, <1>4, <1>5 DEF StepOf

\* The session is counted online.
LEMMA LogOnlineStep ==
    ASSUME TypeOK, NEW c \in Conns, PlaceInv(c), WorkerInv(c), LogOnline(c)
    PROVE  StepOf(c)
<1>1. TypeOK'
  BY DEF TypeOK, events, LogOnline, LogOnlineStateSession, LogOnlineState
<1>2. \A e \in Conns : e # c => Kept(e)
  BY DEF TypeOK, Kept, events, LogOnline, LogOnlineStateSession, LogOnlineState
<1>3. PlaceInv(c)'
  BY DEF TypeOK, PlaceInv, events, LogOnline, LogOnlineStateSession,
     LogOnlineState
<1>4. WorkerInv(c)'
  BY DEF TypeOK, PlaceInv, WorkerInv, RequestInv, Shown, events, LogOnline,
     LogOnlineStateSession, LogOnlineState
<1>5. closer' = closer
  BY DEF LogOnline
<1> QED
  BY <1>1, <1>2, <1>3, <1>4, <1>5 DEF StepOf

\* The session is connected.
LEMMA ConnectStep ==
    ASSUME TypeOK, NEW c \in Conns, PlaceInv(c), WorkerInv(c), Connect(c)
    PROVE  StepOf(c)
<1>1. TypeOK'
  BY DEF TypeOK, events, Connect, Connected, ConnectSession
<1>2. \A e \in Conns : e # c => Kept(e)
  BY DEF TypeOK, Kept, events, Connect, Connected, ConnectSession
<1>3. PlaceInv(c)'
  BY DEF TypeOK, PlaceInv, events, Connect, Connected, ConnectSession
<1>4. WorkerInv(c)'
  BY DEF TypeOK, PlaceInv, WorkerInv, RequestInv, Shown, events, Connect,
     Connected, ConnectSession
<1>5. closer' = closer
  BY DEF Connect
<1> QED
  BY <1>1, <1>2, <1>3, <1>4, <1>5 DEF StepOf

\* The UDP manager of the session starts.
LEMMA StartManagerStep ==
    ASSUME TypeOK, NEW c \in Conns, PlaceInv(c), WorkerInv(c), StartManager(c)
    PROVE  StepOf(c)
<1>1. TypeOK'
  BY DEF TypeOK, events, StartManager
<1>2. \A e \in Conns : e # c => Kept(e)
  BY DEF TypeOK, Kept, events, StartManager
<1>3. PlaceInv(c)'
  BY DEF TypeOK, PlaceInv, events, StartManager
<1>4. WorkerInv(c)'
  BY DEF TypeOK, PlaceInv, WorkerInv, RequestInv, Shown, events, StartManager
<1>5. closer' = closer
  BY DEF StartManager
<1> QED
  BY <1>1, <1>2, <1>3, <1>4, <1>5 DEF StepOf

\* A stream of an authenticated connection is hijacked.
LEMMA OpenStreamStep ==
    ASSUME TypeOK, NEW c \in Conns, PlaceInv(c), WorkerInv(c), OpenStream(c)
    PROVE  StepOf(c)
<1>1. requestID[c] + 1 \in Requests /\ worker[c][requestID[c] + 1] = "none"
  BY NextRequest DEF OpenStream
<1>2. /\ worker' \in [Conns -> [Requests -> WorkerPlaces]]
      /\ worker'[c][requestID[c] + 1] = "read"
      /\ \A q \in Requests : q # requestID[c] + 1 => worker'[c][q] = worker[c][q]
      /\ \A e \in Conns : e # c => worker'[e] = worker[e]
  BY <1>1, SetMoves DEF OpenStream, WorkerPlaces
<1>3. /\ auth[c] = "yes" /\ handler[c] = "serving" /\ requestID[c] \in Nat
      /\ requestID' = [requestID EXCEPT ![c] = requestID[c] + 1]
      /\ requestID'[c] = requestID[c] + 1
      /\ UNCHANGED <<up, handler, auth, udp, events, closer>>
  BY DEF OpenStream, AcceptsStreams, TypeOK
<1>4. TypeOK'
  BY SMT, <1>1, <1>2, <1>3 DEF TypeOK, events
<1>5. \A e \in Conns : e # c => Kept(e)
  BY <1>1, <1>2, <1>3 DEF TypeOK, Kept, events
<1>6. PlaceInv(c)'
  BY <1>1, <1>2, <1>3 DEF TypeOK, PlaceInv, events
<1>7. WorkerInv(c)'
  <2> SUFFICES ASSUME NEW q \in Requests PROVE RequestInv(c, q)'
    BY DEF WorkerInv
  <2>1. RequestInv(c, q) /\ q \in Nat /\ requestID[c] \in Nat
    BY RequestsAreNat DEF WorkerInv, TypeOK
  <2>2. CASE q = requestID[c] + 1
    BY SMT, <1>1, <1>2, <1>3, <2>1, <2>2 DEF PlaceInv, RequestInv, Shown, events
  <2>3. CASE q # requestID[c] + 1
    BY SMT, <1>1, <1>2, <1>3, <2>1, <2>3 DEF RequestInv, events, Shown
  <2> QED
    BY <2>2, <2>3
<1>8. closer' = closer
  BY DEF OpenStream
<1> QED
  BY <1>4, <1>5, <1>6, <1>7, <1>8 DEF StepOf

\* A request is read and reported, or it ends without events.
LEMMA ReadTCPStep ==
    ASSUME TypeOK, NEW c \in Conns, PlaceInv(c), WorkerInv(c),
           NEW r \in Requests, ReadTCPRequest(c, r)
    PROVE  StepOf(c)
<1>1. c \in DOMAIN table /\ worker[c][r] = "read"
  BY DEF ReadTCPRequest, PlaceInv, WorkerInv, RequestInv
<1>2. /\ worker' \in [Conns -> [Requests -> WorkerPlaces]]
      /\ worker'[c][r] \in {"over", "dial"}
      /\ \A q \in Requests : q # r => worker'[c][q] = worker[c][q]
      /\ \A e \in Conns : e # c => worker'[e] = worker[e]
  BY SetMoves DEF ReadTCPRequest, WorkerPlaces
<1>3. \/ worker'[c][r] = "over" /\ table' = table
      \/ /\ worker'[c][r] = "dial"
         /\ DOMAIN table' = DOMAIN table /\ table' \in [DOMAIN table -> SUBSET Requests]
         /\ table'[c] = table[c] \cup {r}
         /\ \A e \in DOMAIN table : e # c => table'[e] = table[e]
  BY <1>1, SetMoves, StartedEnters DEF ReadTCPRequest, WorkerPlaces
<1>4. UNCHANGED <<up, handler, auth, requestID, udp, online, closer>>
  BY DEF ReadTCPRequest
<1>5. TypeOK'
  BY <1>1, <1>2, <1>3, <1>4 DEF TypeOK, events
<1>6. \A e \in Conns : e # c => Kept(e)
  BY <1>1, <1>2, <1>3, <1>4 DEF TypeOK, Kept, events
<1>7. PlaceInv(c)'
  BY <1>1, <1>2, <1>3, <1>4 DEF TypeOK, PlaceInv, events
<1>8. WorkerInv(c)'
  <2> SUFFICES ASSUME NEW q \in Requests PROVE RequestInv(c, q)'
    BY DEF WorkerInv
  <2>1. RequestInv(c, q) /\ q \in Nat /\ requestID[c] \in Nat
    BY RequestsAreNat DEF WorkerInv, TypeOK
  <2>2. CASE q = r
    BY <1>1, <1>2, <1>3, <1>4, <2>1, <2>2 DEF PlaceInv, RequestInv, Shown,
       events
  <2>3. CASE q # r
    BY <1>1, <1>2, <1>3, <1>4, <2>1, <2>3 DEF RequestInv, events, Shown
  <2> QED
    BY <2>2, <2>3
<1>9. closer' = closer
  BY DEF ReadTCPRequest
<1> QED
  BY <1>5, <1>6, <1>7, <1>8, <1>9 DEF StepOf

\* The dial of a request ends.
LEMMA DialTCPStep ==
    ASSUME TypeOK, NEW c \in Conns, PlaceInv(c), WorkerInv(c),
           NEW r \in Requests, DialTCP(c, r)
    PROVE  StepOf(c)
<1>1. c \in DOMAIN table /\ worker[c][r] = "dial"
  BY DEF DialTCP, PlaceInv, WorkerInv, RequestInv
<1>2. /\ worker' \in [Conns -> [Requests -> WorkerPlaces]]
      /\ worker'[c][r] \in {"over", "relay"}
      /\ \A q \in Requests : q # r => worker'[c][q] = worker[c][q]
      /\ \A e \in Conns : e # c => worker'[e] = worker[e]
  BY SetMoves DEF DialTCP, WorkerPlaces
<1>3. \/ worker'[c][r] = "relay" /\ table' = table
      \/ /\ worker'[c][r] = "over"
         /\ DOMAIN table' = DOMAIN table /\ table' \in [DOMAIN table -> SUBSET Requests]
         /\ table'[c] = table[c] \ {r}
         /\ \A e \in DOMAIN table : e # c => table'[e] = table[e]
  BY <1>1, SetMoves, StoppedLeaves DEF DialTCP, WorkerPlaces
<1>4. UNCHANGED <<up, handler, auth, requestID, udp, online, closer>>
  BY DEF DialTCP
<1>5. TypeOK'
  BY <1>1, <1>2, <1>3, <1>4 DEF TypeOK, events
<1>6. \A e \in Conns : e # c => Kept(e)
  BY <1>1, <1>2, <1>3, <1>4 DEF TypeOK, Kept, events
<1>7. PlaceInv(c)'
  BY <1>1, <1>2, <1>3, <1>4 DEF TypeOK, PlaceInv, events
<1>8. WorkerInv(c)'
  <2> SUFFICES ASSUME NEW q \in Requests PROVE RequestInv(c, q)'
    BY DEF WorkerInv
  <2>1. RequestInv(c, q) /\ q \in Nat /\ requestID[c] \in Nat
    BY RequestsAreNat DEF WorkerInv, TypeOK
  <2>2. CASE q = r
    BY <1>1, <1>2, <1>3, <1>4, <2>1, <2>2 DEF PlaceInv, RequestInv, Shown,
       events
  <2>3. CASE q # r
    BY <1>1, <1>2, <1>3, <1>4, <2>1, <2>3 DEF RequestInv, events, Shown
  <2> QED
    BY <2>2, <2>3
<1>9. closer' = closer
  BY DEF DialTCP
<1> QED
  BY <1>5, <1>6, <1>7, <1>8, <1>9 DEF StepOf

\* The relay of a request ends.
LEMMA RelayStep ==
    ASSUME TypeOK, NEW c \in Conns, PlaceInv(c), WorkerInv(c),
           NEW r \in Requests, NEW p \in {"over", "refused"}, RelayEnds(c, r, p)
    PROVE  StepOf(c)
<1>1. c \in DOMAIN table /\ worker[c][r] = "relay"
  BY DEF RelayEnds, PlaceInv, WorkerInv, RequestInv
<1>2. /\ worker' \in [Conns -> [Requests -> WorkerPlaces]]
      /\ worker'[c][r] = p
      /\ \A q \in Requests : q # r => worker'[c][q] = worker[c][q]
      /\ \A e \in Conns : e # c => worker'[e] = worker[e]
  BY SMT, SetMoves DEF RelayEnds, WorkerPlaces
<1>3. /\ DOMAIN table' = DOMAIN table /\ table' \in [DOMAIN table -> SUBSET Requests]
      /\ table'[c] = table[c] \ {r}
      /\ \A e \in DOMAIN table : e # c => table'[e] = table[e]
  BY <1>1, StoppedLeaves DEF RelayEnds
<1>4. UNCHANGED <<up, handler, auth, requestID, udp, online, closer>>
  BY DEF RelayEnds
<1>5. TypeOK'
  BY <1>1, <1>2, <1>3, <1>4 DEF TypeOK, events
<1>6. \A e \in Conns : e # c => Kept(e)
  BY <1>1, <1>2, <1>3, <1>4 DEF TypeOK, Kept, events
<1>7. PlaceInv(c)'
  BY <1>1, <1>2, <1>3, <1>4 DEF TypeOK, PlaceInv, events
<1>8. WorkerInv(c)'
  BY SMT, <1>1, <1>2, <1>3, <1>4 DEF TypeOK, PlaceInv, WorkerInv, RequestInv,
     Shown, events
<1>9. closer' = closer
  BY DEF RelayEnds
<1> QED
  BY <1>5, <1>6, <1>7, <1>8, <1>9 DEF StepOf

\* A refused payload ends the connection.
LEMMA DisconnectsStep ==
    ASSUME TypeOK, NEW c \in Conns, PlaceInv(c), WorkerInv(c),
           NEW r \in Requests, Disconnects(c, r)
    PROVE  StepOf(c)
<1>1. /\ worker' \in [Conns -> [Requests -> WorkerPlaces]]
      /\ worker'[c][r] = "over"
      /\ \A q \in Requests : q # r => worker'[c][q] = worker[c][q]
      /\ \A e \in Conns : e # c => worker'[e] = worker[e]
  BY SetMoves DEF Disconnects, WorkerPlaces
<1>2. TypeOK'
  BY <1>1 DEF TypeOK, events, Disconnects, UpWithout
<1>3. \A e \in Conns : e # c => Kept(e)
  BY <1>1 DEF TypeOK, Kept, events, Disconnects, UpWithout
<1>4. PlaceInv(c)'
  BY <1>1 DEF TypeOK, PlaceInv, events, Disconnects, UpWithout
<1>5. WorkerInv(c)'
  BY <1>1 DEF TypeOK, PlaceInv, WorkerInv, RequestInv, Shown, events,
     Disconnects, UpWithout
<1>6. closer' = closer
  BY DEF Disconnects
<1> QED
  BY <1>2, <1>3, <1>4, <1>5, <1>6 DEF StepOf

\* The UDP manager starts a request.
LEMMA UDPRequestStep ==
    ASSUME TypeOK, NEW c \in Conns, PlaceInv(c), WorkerInv(c), UDPRequest(c)
    PROVE  StepOf(c)
<1>1. c \in DOMAIN table
  BY DEF UDPRequest, PlaceInv
<1>2. requestID[c] + 1 \in Requests /\ worker[c][requestID[c] + 1] = "none"
  BY NextRequest DEF UDPRequest
<1>3. /\ worker' \in [Conns -> [Requests -> WorkerPlaces]]
      /\ worker'[c][requestID[c] + 1] = "udp"
      /\ \A q \in Requests : q # requestID[c] + 1 => worker'[c][q] = worker[c][q]
      /\ \A e \in Conns : e # c => worker'[e] = worker[e]
  BY <1>2, SetMoves DEF UDPRequest, WorkerPlaces
<1>4. /\ DOMAIN table' = DOMAIN table /\ table' \in [DOMAIN table -> SUBSET Requests]
      /\ table'[c] = table[c] \cup {requestID[c] + 1}
      /\ \A e \in DOMAIN table : e # c => table'[e] = table[e]
  BY <1>1, <1>2, StartedEnters DEF UDPRequest
<1>5. /\ udp[c] = "running"
      /\ requestID' = [requestID EXCEPT ![c] = requestID[c] + 1]
      /\ requestID'[c] = requestID[c] + 1
      /\ UNCHANGED <<up, handler, auth, udp, online, closer>>
  BY DEF UDPRequest, TypeOK
<1>6. TypeOK'
  BY SMT, <1>1, <1>2, <1>3, <1>4, <1>5 DEF TypeOK, events
<1>7. \A e \in Conns : e # c => Kept(e)
  BY <1>1, <1>2, <1>3, <1>4, <1>5 DEF TypeOK, Kept, events
<1>8. PlaceInv(c)'
  BY <1>1, <1>2, <1>3, <1>4, <1>5 DEF TypeOK, PlaceInv, events
<1>9. WorkerInv(c)'
  <2> SUFFICES ASSUME NEW q \in Requests PROVE RequestInv(c, q)'
    BY DEF WorkerInv
  <2>1. RequestInv(c, q) /\ q \in Nat /\ requestID[c] \in Nat
    BY RequestsAreNat DEF WorkerInv, TypeOK
  <2>2. CASE q = requestID[c] + 1
    BY SMTT(30), <1>1, <1>2, <1>3, <1>4, <1>5, <2>1, <2>2 DEF PlaceInv,
       RequestInv, Shown, events
  <2>3. CASE q # requestID[c] + 1
    BY SMT, <1>1, <1>2, <1>3, <1>4, <1>5, <2>1, <2>3 DEF RequestInv, events,
       Shown
  <2> QED
    BY <2>2, <2>3
<1>10. closer' = closer
  BY DEF UDPRequest
<1> QED
  BY <1>6, <1>7, <1>8, <1>9, <1>10 DEF StepOf

\* A refused datagram ends the connection, while its request is still shown.
LEMMA UDPRefusedStep ==
    ASSUME TypeOK, NEW c \in Conns, PlaceInv(c), WorkerInv(c),
           NEW r \in Requests, UDPRefused(c, r)
    PROVE  StepOf(c)
<1>1. /\ worker' \in [Conns -> [Requests -> WorkerPlaces]]
      /\ worker'[c][r] = "barred" /\ worker[c][r] = "udp"
      /\ \A q \in Requests : q # r => worker'[c][q] = worker[c][q]
      /\ \A e \in Conns : e # c => worker'[e] = worker[e]
  BY SetMoves DEF UDPRefused, WorkerPlaces
<1>2. TypeOK'
  BY <1>1 DEF TypeOK, events, UDPRefused, UpWithout
<1>3. \A e \in Conns : e # c => Kept(e)
  BY <1>1 DEF TypeOK, Kept, events, UDPRefused, UpWithout
<1>4. PlaceInv(c)'
  BY <1>1 DEF TypeOK, PlaceInv, events, UDPRefused, UpWithout
<1>5. WorkerInv(c)'
  BY <1>1 DEF TypeOK, PlaceInv, WorkerInv, RequestInv, Shown, events,
     UDPRefused, UpWithout
<1>6. closer' = closer
  BY DEF UDPRefused
<1> QED
  BY <1>2, <1>3, <1>4, <1>5, <1>6 DEF StepOf

\* A request of the UDP manager ends.
LEMMA UDPErrorStep ==
    ASSUME TypeOK, NEW c \in Conns, PlaceInv(c), WorkerInv(c),
           NEW r \in Requests, UDPError(c, r)
    PROVE  StepOf(c)
<1>1. c \in DOMAIN table /\ worker[c][r] \in {"udp", "barred"}
  BY DEF UDPError, PlaceInv, WorkerInv, RequestInv, Shown
<1>2. /\ worker' \in [Conns -> [Requests -> WorkerPlaces]]
      /\ worker'[c][r] = "over"
      /\ \A q \in Requests : q # r => worker'[c][q] = worker[c][q]
      /\ \A e \in Conns : e # c => worker'[e] = worker[e]
  BY SetMoves DEF UDPError, WorkerPlaces
<1>3. /\ DOMAIN table' = DOMAIN table /\ table' \in [DOMAIN table -> SUBSET Requests]
      /\ table'[c] = table[c] \ {r}
      /\ \A e \in DOMAIN table : e # c => table'[e] = table[e]
  BY <1>1, StoppedLeaves DEF UDPError
<1>4. UNCHANGED <<up, handler, auth, requestID, udp, online, closer>>
  BY DEF UDPError
<1>5. TypeOK'
  BY <1>1, <1>2, <1>3, <1>4 DEF TypeOK, events
<1>6. \A e \in Conns : e # c => Kept(e)
  BY <1>1, <1>2, <1>3, <1>4 DEF TypeOK, Kept, events
<1>7. PlaceInv(c)'
  BY <1>1, <1>2, <1>3, <1>4 DEF TypeOK, PlaceInv, events
<1>8. WorkerInv(c)'
  <2> SUFFICES ASSUME NEW q \in Requests PROVE RequestInv(c, q)'
    BY DEF WorkerInv
  <2>1. RequestInv(c, q) /\ q \in Nat /\ requestID[c] \in Nat
    BY RequestsAreNat DEF WorkerInv, TypeOK
  <2>2. CASE q = r
    BY <1>1, <1>2, <1>3, <1>4, <2>1, <2>2 DEF PlaceInv, RequestInv, Shown,
       events
  <2>3. CASE q # r
    BY <1>1, <1>2, <1>3, <1>4, <2>1, <2>3 DEF RequestInv, events, Shown
  <2> QED
    BY <2>2, <2>3
<1>9. closer' = closer
  BY DEF UDPError
<1> QED
  BY <1>5, <1>6, <1>7, <1>8, <1>9 DEF StepOf

\* Run of the UDP manager returns.
LEMMA ManagerReturnsStep ==
    ASSUME TypeOK, NEW c \in Conns, PlaceInv(c), WorkerInv(c), ManagerReturns(c)
    PROVE  StepOf(c)
<1>1. TypeOK'
  BY DEF TypeOK, events, ManagerReturns
<1>2. \A e \in Conns : e # c => Kept(e)
  BY DEF TypeOK, Kept, events, ManagerReturns
<1>3. PlaceInv(c)'
  BY DEF TypeOK, PlaceInv, events, ManagerReturns
<1>4. WorkerInv(c)'
  BY DEF TypeOK, PlaceInv, WorkerInv, RequestInv, Shown, events, ManagerReturns
<1>5. closer' = closer
  BY DEF ManagerReturns
<1> QED
  BY <1>1, <1>2, <1>3, <1>4, <1>5 DEF StepOf

\* ServeQUICConn returns.
LEMMA ServeReturnsStep ==
    ASSUME TypeOK, NEW c \in Conns, PlaceInv(c), WorkerInv(c), ServeReturns(c)
    PROVE  StepOf(c)
<1>1. TypeOK'
  BY DEF TypeOK, events, ServeReturns, Handle
<1>2. \A e \in Conns : e # c => Kept(e)
  BY DEF TypeOK, Kept, events, ServeReturns, Handle
<1>3. PlaceInv(c)'
  BY DEF TypeOK, PlaceInv, events, ServeReturns, Handle
<1>4. WorkerInv(c)'
  BY DEF TypeOK, PlaceInv, WorkerInv, RequestInv, Shown, events,
     ServeReturns, Handle
<1>5. closer' = closer
  BY DEF ServeReturns
<1> QED
  BY <1>1, <1>2, <1>3, <1>4, <1>5 DEF StepOf

\* handleClient has waited for the requests of the connection.
LEMMA WaitStep ==
    ASSUME TypeOK, NEW c \in Conns, PlaceInv(c), WorkerInv(c), Wait(c)
    PROVE  StepOf(c)
<1>1. TypeOK'
  BY DEF TypeOK, events, Wait, WorkersOver, Handle
<1>2. \A e \in Conns : e # c => Kept(e)
  BY DEF TypeOK, Kept, events, Wait, WorkersOver, Handle
<1>3. PlaceInv(c)'
  BY DEF TypeOK, PlaceInv, events, Wait, WorkersOver, Handle
<1>4. WorkerInv(c)'
  BY DEF TypeOK, PlaceInv, WorkerInv, RequestInv, Shown, events, Wait,
     WorkersOver, Handle
<1>5. closer' = closer
  BY DEF Wait
<1> QED
  BY <1>1, <1>2, <1>3, <1>4, <1>5 DEF StepOf

\* The session is no longer counted.
LEMMA LogOfflineStep ==
    ASSUME TypeOK, NEW c \in Conns, PlaceInv(c), WorkerInv(c), LogOffline(c)
    PROVE  StepOf(c)
<1>1. TypeOK'
  BY DEF TypeOK, events, LogOffline, Handle, LogOnlineStateSession,
     LogOnlineState
<1>2. \A e \in Conns : e # c => Kept(e)
  BY DEF TypeOK, Kept, events, LogOffline, Handle, LogOnlineStateSession,
     LogOnlineState
<1>3. PlaceInv(c)'
  BY DEF TypeOK, PlaceInv, events, LogOffline, Handle, LogOnlineStateSession,
     LogOnlineState
<1>4. WorkerInv(c)'
  BY DEF TypeOK, PlaceInv, WorkerInv, RequestInv, Shown, events, LogOffline,
     Handle, LogOnlineStateSession, LogOnlineState
<1>5. closer' = closer
  BY DEF LogOffline
<1> QED
  BY <1>1, <1>2, <1>3, <1>4, <1>5 DEF StepOf

\* The session is disconnected.
LEMMA DisconnectStep ==
    ASSUME TypeOK, NEW c \in Conns, PlaceInv(c), WorkerInv(c), Disconnect(c)
    PROVE  StepOf(c)
<1>1. TypeOK'
  BY DEF TypeOK, events, Disconnect, Handle, Disconnected, DisconnectSession,
     Restrict
<1>2. \A e \in Conns : e # c => Kept(e)
  BY DEF TypeOK, Kept, events, Disconnect, Handle, Disconnected,
     DisconnectSession, Restrict
<1>3. PlaceInv(c)'
  BY DEF TypeOK, PlaceInv, events, Disconnect, Handle, Disconnected,
     DisconnectSession, Restrict
<1>4. WorkerInv(c)'
  BY DEF TypeOK, PlaceInv, WorkerInv, RequestInv, Shown, events, Disconnect,
     Handle, Disconnected, DisconnectSession, Restrict
<1>5. closer' = closer
  BY DEF Disconnect
<1> QED
  BY <1>1, <1>2, <1>3, <1>4, <1>5 DEF StepOf

----------------------------------------------------------------------------
\* A step of one connection leaves the invariant of all.
LEMMA StepOfAll ==
    ASSUME IndInv, NEW c \in Conns, StepOf(c)
    PROVE  IndInv'
<1> SUFFICES ASSUME NEW e \in Conns PROVE PlaceInv(e)' /\ WorkerInv(e)'
  BY DEF StepOf, IndInv
<1>1. CASE e = c
  BY <1>1 DEF StepOf
<1>2. CASE e # c
  BY <1>2, KeptInv DEF StepOf, IndInv
<1> QED
  BY <1>1, <1>2

\* Close and Wait of the server.
LEMMA CloseSteps ==
    ASSUME IndInv, Close \/ CloseConnections \/ WaitReturns \/ UNCHANGED vars
    PROVE  IndInv'
<1>1. TypeOK'
  BY DEF IndInv, TypeOK, Close, CloseConnections, UpAfterClose, WaitReturns,
     events, vars
<1>2. ASSUME NEW e \in Conns PROVE PlaceInv(e)'
  BY DEF IndInv, PlaceInv, Close, CloseConnections, UpAfterClose, WaitReturns,
     ClientsDone, events, vars
<1>3. ASSUME NEW e \in Conns PROVE WorkerInv(e)'
  BY DEF IndInv, WorkerInv, RequestInv, Close, CloseConnections, WaitReturns,
     events, vars
<1> QED
  BY <1>1, <1>2, <1>3 DEF IndInv

\* The invariant holds before the first connection.
LEMMA InitInv ==
    ASSUME Init
    PROVE  IndInv
<1>1. TypeOK
  <2>1. DOMAIN table \subseteq Conns /\ table \in [DOMAIN table -> SUBSET Requests]
    BY DEF Init, NoSessions
  <2> QED
    BY <2>1 DEF Init, TypeOK, WorkerPlaces
<1>2. ASSUME NEW c \in Conns PROVE PlaceInv(c) /\ WorkerInv(c)
  BY DEF Init, PlaceInv, WorkerInv, RequestInv, NoSessions, Shown
<1> QED
  BY <1>1, <1>2 DEF IndInv

\* The inductive invariant of the server.
THEOREM Invariance == Spec => []IndInv
<1>1. ASSUME IndInv, NEW c \in Conns, Handler(c) PROVE StepOf(c)
  BY <1>1, LogOnlineStep, ConnectStep, StartManagerStep, ManagerReturnsStep,
     ServeReturnsStep, WaitStep, LogOfflineStep, DisconnectStep DEF Handler,
     IndInv
<1>2. ASSUME IndInv, NEW c \in Conns, NEW r \in Requests, Worker(c, r) PROVE StepOf(c)
  BY <1>2, ReadTCPStep, DialTCPStep, DisconnectsStep, UDPRefusedStep,
     UDPErrorStep, RelayStep
     DEF Worker, IndInv
<1>3. ASSUME IndInv, NEW c \in Conns,
             Accept(c) \/ Drops(c) \/ Authenticate(c) \/ OpenStream(c) \/ UDPRequest(c)
      PROVE  StepOf(c)
  BY <1>3, AcceptStep, DropsStep, AuthenticateStep, OpenStreamStep,
     UDPRequestStep
     DEF IndInv
<1>4. IndInv /\ [Next]_vars => IndInv'
  BY <1>1, <1>2, <1>3, StepOfAll, CloseSteps DEF Next
<1> QED
  BY <1>4, InitInv, PTL DEF Spec

\* The panel shows exactly the requests that are dialed or relayed, and after Wait
\* neither sessions nor requests nor anybody online.
THEOREM ShownTheorem == Spec => []RequestsShown
<1>1. IndInv => RequestsShown
  <2> SUFFICES ASSUME IndInv PROVE RequestsShown
    OBVIOUS
  <2>1. ASSUME NEW c \in Conns
        PROVE  {r \in Requests : worker[c][r] \in {"dial", "relay", "udp", "barred"}}
                   = IF c \in DOMAIN table THEN table[c] ELSE {}
    BY DEF IndInv, TypeOK, WorkerInv, RequestInv, Shown
  <2>2. ASSUME closer = "returned"
        PROVE  /\ online = {} /\ DOMAIN table = {}
               /\ \A c \in Conns, r \in Requests : worker[c][r] \in {"none", "over"}
    BY ZenonT(30), <2>2 DEF IndInv, TypeOK, PlaceInv, WorkerInv, RequestInv
  <2>3. DOMAIN table = {} => table = NoSessions
    BY DEF IndInv, TypeOK, NoSessions
  <2> QED
    BY <2>1, <2>2, <2>3 DEF RequestsShown
<1> QED
  BY <1>1, Invariance, PTL
----------------------------------------------------------------------------
\* The steps of handleClient and ServeHTTP that report something.
LEMMA HandlerImplements ==
    ASSUME IndInv, NEW c \in Conns, Handler(c)
    PROVE  Registry!Next \/ UNCHANGED events
<1>1. LogOnline(c) => Registry!Online(c)
  BY DEF LogOnline, LogOnlineStateSession, LogOnlineState, IndInv, PlaceInv,
     Registry!Online
<1>2. Connect(c) => Registry!Connected(c)
  BY DEF Connect, Connected, ConnectSession, IndInv, PlaceInv,
     Registry!Connected
<1>3. handler[c] \in {"offline", "disconnect"} => c \in DOMAIN table /\ table[c] = {}
  <2> SUFFICES ASSUME handler[c] \in {"offline", "disconnect"}
               PROVE  c \in DOMAIN table /\ table[c] = {}
    OBVIOUS
  <2>1. c \in DOMAIN table
    BY DEF IndInv, PlaceInv
  <2>2. table[c] \subseteq Requests
    BY <2>1 DEF IndInv, TypeOK
  <2>3. \A r \in Requests : r \notin table[c]
    BY <2>1 DEF IndInv, WorkerInv, RequestInv, Shown
  <2> QED
    BY <2>1, <2>2, <2>3
<1>4. LogOffline(c) => Registry!Offline(c)
  BY <1>3 DEF LogOffline, LogOnlineStateSession, LogOnlineState, IndInv,
     PlaceInv, Registry!Offline
<1>5. Disconnect(c) => Registry!Disconnected(c)
  BY <1>3 DEF Disconnect, Disconnected, DisconnectSession, Restrict, IndInv,
     PlaceInv, Registry!Disconnected, Registry!Restrict
<1>6. StartManager(c) \/ ManagerReturns(c) \/ ServeReturns(c) \/ Wait(c) => UNCHANGED events
  BY DEF StartManager, ManagerReturns, ServeReturns, Wait
<1> QED
  BY <1>1, <1>2, <1>4, <1>5, <1>6 DEF Handler, Registry!Next

\* The steps of a request that report something.
LEMMA WorkerImplements ==
    ASSUME IndInv, NEW c \in Conns, NEW r \in Requests, Worker(c, r)
    PROVE  Registry!Next \/ UNCHANGED events
<1>1. worker[c][r] = "read" => c \in DOMAIN table /\ c \in online /\ r \notin table[c]
  BY DEF IndInv, PlaceInv, WorkerInv, RequestInv, Shown
<1>2. worker[c][r] \in Shown => c \in DOMAIN table /\ r \in table[c]
  BY DEF IndInv, WorkerInv, RequestInv
<1>3. ReadTCPRequest(c, r) => Registry!Start(c, r) \/ UNCHANGED events
  BY <1>1 DEF ReadTCPRequest, RequestStarted, StartRequest, Registry!Start,
     events
<1>4. DialTCP(c, r) => Registry!Stop(c, r) \/ UNCHANGED events
  BY <1>2 DEF DialTCP, RequestStopped, StopRequest, Registry!Stop, Shown, events
<1>5. ASSUME NEW p, RelayEnds(c, r, p) PROVE Registry!Stop(c, r)
  BY <1>2, <1>5 DEF RelayEnds, RequestStopped, StopRequest, Registry!Stop, Shown
<1>6. UDPError(c, r) => Registry!Stop(c, r)
  BY <1>2 DEF UDPError, RequestStopped, StopRequest, Registry!Stop, Shown
<1>7. Disconnects(c, r) \/ UDPRefused(c, r) => UNCHANGED events
  BY DEF Disconnects, UDPRefused
<1> QED
  BY <1>3, <1>4, <1>5, <1>6, <1>7 DEF Worker, Registry!Next

\* A request of the UDP manager is started while its session is online.
LEMMA UDPImplements ==
    ASSUME IndInv, NEW c \in Conns, UDPRequest(c)
    PROVE  Registry!Next
<1>1. requestID[c] + 1 \in Requests /\ worker[c][requestID[c] + 1] = "none"
  BY NextRequest DEF UDPRequest, IndInv
<1>2. c \in DOMAIN table /\ c \in online /\ requestID[c] + 1 \notin table[c]
  BY SMT, <1>1 DEF IndInv, UDPRequest, PlaceInv, WorkerInv, RequestInv, Shown
<1>3. Registry!Start(c, requestID[c] + 1)
  BY <1>2 DEF UDPRequest, RequestStarted, StartRequest, Registry!Start
<1> QED
  BY <1>1, <1>3 DEF Registry!Next

\* Every step is one of the registry or leaves it alone.
LEMMA StepImplements ==
    ASSUME IndInv, [Next]_vars
    PROVE  [Registry!Next]_(Registry!registry)
<1>1. ASSUME NEW c \in Conns, Accept(c) \/ Drops(c) \/ Authenticate(c) \/ OpenStream(c)
      PROVE  UNCHANGED events
  BY <1>1 DEF Accept, Drops, Authenticate, OpenStream
<1>2. Close \/ CloseConnections \/ WaitReturns \/ UNCHANGED vars => UNCHANGED events
  BY DEF Close, CloseConnections, WaitReturns, vars
<1>3. UNCHANGED events => UNCHANGED Registry!registry
  BY DEF events, Registry!registry
<1> QED
  BY <1>1, <1>2, <1>3, HandlerImplements, WorkerImplements, UDPImplements DEF
     Next

\* The events of the Hysteria2 inbound keep the registry's order, whatever its
\* requests, its UDP manager and the shutdown do.
THEOREM RegistryTheorem == Spec => ImplementsRegistry
<1>1. Init => Registry!Init
  BY DEF Init, NoSessions, Registry!Init
<1> QED
  BY <1>1, StepImplements, Invariance, PTL DEF Spec, ImplementsRegistry,
     Registry!Spec
----------------------------------------------------------------------------
\* The UDP manager.  An entry is found in the map until its exit function has
\* run (MapInv); a connection lives with its receiveLoop (LoopInv); the thread
\* that runs an exit function is one that has to wait for it (ExitInv); and Run
\* leaves no live entry behind (RunInv).

ManagerType ==
    /\ run \in {"receive", "found", "feed", "dial", "failed", "close", "sweep", "wait",
                "returned"}
    /\ m \in [Ids -> UDP!Entries \cup {0}]
    /\ id \in [UDP!Entries -> Ids \cup {0}]
    /\ state \in [UDP!Entries -> {"none", "live", "closed", "logged", "gone"}]
    /\ conn \in [UDP!Entries -> {"none", "open", "closed"}]
    /\ closers \in [UDP!Entries -> UDP!Threads \cup {UDP!NoThread}]
    /\ todo \in [UDP!Threads -> SUBSET UDP!Entries]
    /\ loop \in [UDP!Entries -> {"none", "read", "close", "done"}]
    /\ requests \in SUBSET UDP!Entries

\* Entries are numbered in the order of their creation.
CreatedInv == \E k \in 0..MaxEntries : UDP!Created = 1..k

MapInv ==
    /\ \A e \in UDP!Entries :
          state[e] \in {"live", "closed", "logged"} => id[e] \in Ids /\ m[id[e]] = e
    /\ \A i \in Ids :
          m[i] # 0 => state[m[i]] \in {"live", "closed", "logged"} /\ id[m[i]] = i

LoopInv ==
    /\ \A e \in UDP!Entries :
        /\ conn[e] = "open" => state[e] = "live"
        /\ conn[e] = "none" => loop[e] = "none"
        /\ todo[e] # {} => todo[e] = {e} /\ loop[e] = "close"
        /\ e \in requests => state[e] \in {"live", "closed"}
    /\ run = "dial" => state[current] = "live" /\ conn[current] = "none"

ExitInv ==
    \A e \in UDP!Entries :
        /\ closers[e] # UDP!NoThread <=> state[e] \in {"closed", "logged"}
        /\ closers[e] \in UDP!Entries => closers[e] = e /\ loop[e] = "close"
        /\ closers[e] = UDP!Run => run \in {"failed", "close", "sweep"}

RunInv ==
    /\ run \in {"found", "feed", "dial", "failed", "close"} => current \in UDP!Entries
    /\ todo[UDP!Run] # {} => run \in {"failed", "close", "sweep"}
    /\ run = "sweep" => \A e \in UDP!Entries : state[e] = "live" => e \in todo[UDP!Run]
    /\ run = "wait" => \A e \in UDP!Entries : state[e] # "live"
    /\ run = "returned" =>
          \A e \in UDP!Entries : state[e] \in {"none", "gone"} /\ loop[e] \in {"none", "done"}

ManagerInv == ManagerType /\ CreatedInv /\ MapInv /\ LoopInv /\ ExitInv /\ RunInv
----------------------------------------------------------------------------

\* The threads are told apart by their numbers.
LEMMA ThreadNumbers ==
    /\ UDP!Entries \subseteq UDP!Threads /\ UDP!Run \in UDP!Threads /\ UDP!Idle \in UDP!Threads
    /\ UDP!Threads = {UDP!Run, UDP!Idle} \cup UDP!Entries
    /\ UDP!Run \notin UDP!Entries /\ UDP!Idle \notin UDP!Entries /\ UDP!Run # UDP!Idle
    /\ UDP!NoThread \notin UDP!Threads /\ 0 \notin UDP!Entries
  BY SMT, EntriesAssumption DEF UDP!Entries, UDP!Threads, UDP!Run, UDP!Idle,
     UDP!NoThread, UDP!UDPAssumption

\* feed numbers a new entry after all others.
LEMMA NewEntry ==
    ASSUME ManagerInv, NEW i \in Ids, UDP!FeedNew(i)
    PROVE  \E e \in UDP!Entries :
               /\ state[e] = "none" /\ UDP!Created = 1..(e - 1)
               /\ run' = "found" /\ current' = e
               /\ m' = [m EXCEPT ![i] = e]
               /\ id' = [id EXCEPT ![e] = i]
               /\ state' = [state EXCEPT ![e] = "live"]
<1>1. PICK k \in 0..MaxEntries : UDP!Created = 1..k
  BY DEF ManagerInv, CreatedInv
<1>2. k \in Nat /\ Cardinality(1..k) = k
  <2>1. MaxEntries \in Nat
    BY EntriesAssumption DEF UDP!UDPAssumption
  <2>2. k \in Nat
    BY SMT, <2>1
  <2> QED
    BY SMT, <2>2, FS_Interval
<1>3. UDP!Cardinality(UDP!Created) = Cardinality(UDP!Created)
  BY Zenon DEF UDP!Cardinality, Cardinality
<1>4. PICK e \in UDP!Entries :
          /\ e = Cardinality(UDP!Created) + 1
          /\ run' = "found" /\ current' = e
          /\ m' = [m EXCEPT ![i] = e]
          /\ id' = [id EXCEPT ![e] = i]
          /\ state' = [state EXCEPT ![e] = "live"]
  BY <1>3 DEF UDP!FeedNew
<1>5. e = k + 1 /\ k = e - 1
  BY SMT, <1>1, <1>2, <1>4
<1>6. e \notin UDP!Created
  BY SMT, <1>1, <1>2, <1>5
<1>7. state[e] = "none"
  BY <1>6 DEF UDP!Created
<1> QED
  BY <1>1, <1>4, <1>5, <1>7

\* The variables of the manager keep their types.
LEMMA ManagerTypeStep ==
    ASSUME ManagerInv, UDP!Next \/ UNCHANGED UDP!vars
    PROVE  ManagerType'
<1>1. ASSUME NEW i \in Ids, UDP!FeedKnown(i) PROVE ManagerType'
  BY <1>1, ThreadNumbers DEF ManagerInv, ManagerType, RunInv, UDP!FeedKnown,
     UDP!manager
<1>2. ASSUME NEW i \in Ids, UDP!FeedNew(i) PROVE ManagerType'
  BY SMT, <1>2, ThreadNumbers DEF ManagerInv, ManagerType, RunInv, UDP!FeedNew,
     UDP!manager
<1>3. CASE UDP!Refused
  BY <1>3, ThreadNumbers DEF ManagerInv, ManagerType, RunInv, UDP!Refused,
     UDP!manager
<1>4. CASE UDP!Admitted
  BY <1>4, ThreadNumbers DEF ManagerInv, ManagerType, RunInv, UDP!Admitted,
     UDP!manager
<1>5. CASE UDP!Fed
  BY <1>5, ThreadNumbers DEF ManagerInv, ManagerType, RunInv, UDP!Fed,
     UDP!manager
<1>6. CASE UDP!InitConn
  BY <1>6, ThreadNumbers DEF ManagerInv, ManagerType, RunInv, UDP!InitConn,
     UDP!Dials, UDP!manager
<1>7. CASE UDP!Dialed
  BY <1>7, ThreadNumbers DEF ManagerInv, ManagerType, RunInv, UDP!Dialed,
     UDP!manager
<1>8. CASE UDP!DialFails
  BY <1>8, ThreadNumbers DEF ManagerInv, ManagerType, RunInv, UDP!DialFails,
     UDP!manager
<1>9. CASE UDP!DialFailed
  BY <1>9, ThreadNumbers DEF ManagerInv, ManagerType, RunInv, UDP!DialFailed,
     UDP!Free, UDP!InExit, UDP!manager
<1>10. CASE UDP!RunEnds
  BY SMT, <1>10, ThreadNumbers DEF ManagerInv, ManagerType, RunInv, UDP!RunEnds,
     UDP!Sweeps, UDP!Mapped, UDP!Free, UDP!InExit, UDP!manager
<1>11. CASE UDP!Swept
  BY <1>11, ThreadNumbers DEF ManagerInv, ManagerType, RunInv, UDP!Swept,
     UDP!Free, UDP!InExit, UDP!manager
<1>12. CASE UDP!RunReturns
  BY <1>12, ThreadNumbers DEF ManagerInv, ManagerType, RunInv,
     UDP!RunReturns, UDP!Free, UDP!InExit, UDP!manager
<1>13. CASE UDP!IdleScan
  BY SMT, <1>13, ThreadNumbers DEF ManagerInv, ManagerType, RunInv,
     UDP!IdleScan, UDP!Mapped, UDP!Free, UDP!InExit, UDP!manager
<1>14. ASSUME NEW x \in UDP!Entries, UDP!ExitLogs(x) PROVE ManagerType'
  BY <1>14, ThreadNumbers DEF ManagerInv, ManagerType, RunInv, UDP!ExitLogs,
     UDP!manager
<1>15. ASSUME NEW x \in UDP!Entries, UDP!ExitDeletes(x) PROVE ManagerType'
  BY <1>15, ThreadNumbers DEF ManagerInv, ManagerType, RunInv,
     UDP!ExitDeletes, UDP!manager
<1>16. ASSUME NEW x \in UDP!Entries, UDP!LoopFails(x) PROVE ManagerType'
  BY SMT, <1>16, ThreadNumbers DEF ManagerInv, ManagerType, RunInv,
     UDP!LoopFails, UDP!manager
<1>17. ASSUME NEW x \in UDP!Entries, UDP!LoopReturns(x) PROVE ManagerType'
  BY <1>17, ThreadNumbers DEF ManagerInv, ManagerType, RunInv,
     UDP!LoopReturns, UDP!Free, UDP!InExit, UDP!manager
<1>18. ASSUME NEW x \in UDP!Entries, NEW t \in UDP!Threads, UDP!CloseWithErr(t, x)
       PROVE  ManagerType'
  BY SMT, <1>18, ThreadNumbers DEF ManagerInv, ManagerType, RunInv,
     UDP!CloseWithErr, UDP!Closes, UDP!ConnClosed, UDP!Unlocked, UDP!InExit,
     UDP!manager
<1>19. CASE UNCHANGED UDP!vars
  BY <1>19 DEF ManagerInv, ManagerType, UDP!vars, UDP!manager
<1> QED
  BY SMTT(30), <1>1, <1>2, <1>3, <1>4, <1>5, <1>6, <1>7, <1>8, <1>9, <1>10,
     <1>11, <1>12, <1>13, <1>14, <1>15, <1>16, <1>17, <1>18, <1>19 DEF UDP!Next,
     UDP!Feeding, UDP!Closing

\* Only feed creates entries.
LEMMA CreatedStep ==
    ASSUME ManagerInv, UDP!Next \/ UNCHANGED UDP!vars
    PROVE  CreatedInv'
<1>1. ASSUME NEW i \in Ids, UDP!FeedNew(i) PROVE CreatedInv'
  <2>1. PICK e \in UDP!Entries :
            /\ UDP!Created = 1..(e - 1)
            /\ state' = [state EXCEPT ![e] = "live"]
    BY <1>1, NewEntry
  <2>2. UDP!Created' = UDP!Created \cup {e}
    BY <2>1 DEF UDP!Created, ManagerInv, ManagerType
  <2>3. e \in 0..MaxEntries /\ (1..(e - 1)) \cup {e} = 1..e
    BY SMT, EntriesAssumption DEF UDP!Entries, UDP!UDPAssumption
  <2> QED
    BY <2>1, <2>2, <2>3 DEF CreatedInv
<1>2. ASSUME NEW x \in UDP!Entries, UDP!ExitLogs(x) \/ UDP!ExitDeletes(x)
      PROVE  UDP!Created' = UDP!Created
  BY <1>2 DEF ManagerInv, ManagerType, UDP!ExitLogs, UDP!ExitDeletes,
     UDP!Created
<1>3. ASSUME NEW x \in UDP!Entries, NEW t \in UDP!Threads, UDP!CloseWithErr(t, x)
      PROVE  UDP!Created' = UDP!Created
  BY <1>3 DEF ManagerInv, ManagerType, UDP!CloseWithErr, UDP!Closes, UDP!Created
<1>4. ASSUME NEW x \in UDP!Entries, UDP!LoopFails(x) \/ UDP!LoopReturns(x) PROVE state' = state
  BY <1>4 DEF UDP!LoopFails, UDP!LoopReturns
<1>5. ASSUME NEW i \in Ids, UDP!FeedKnown(i) PROVE state' = state
  BY <1>5 DEF UDP!FeedKnown
<1>6. \/ UDP!Refused \/ UDP!Admitted \/ UDP!Fed \/ UDP!InitConn \/ UDP!Dialed
      \/ UDP!DialFails \/ UDP!DialFailed \/ UDP!RunEnds \/ UDP!Swept \/ UDP!RunReturns
      \/ UDP!IdleScan \/ UNCHANGED UDP!vars
      => state' = state
  BY DEF UDP!Refused, UDP!Admitted, UDP!Fed, UDP!InitConn, UDP!Dialed,
     UDP!DialFails, UDP!DialFailed, UDP!RunEnds, UDP!Swept, UDP!RunReturns,
     UDP!IdleScan, UDP!vars
<1>7. state' = state => UDP!Created' = UDP!Created
  BY DEF UDP!Created
<1>8. UDP!Created' = UDP!Created => CreatedInv'
  BY SMT DEF ManagerInv, CreatedInv
<1> QED
  BY <1>1, <1>2, <1>3, <1>4, <1>5, <1>6, <1>7, <1>8 DEF UDP!Next,
     UDP!Feeding, UDP!Closing

\* An entry stays in the map until it is gone.
LEMMA MapStep ==
    ASSUME ManagerInv, UDP!Next \/ UNCHANGED UDP!vars
    PROVE  MapInv'
<1>1. ASSUME NEW i \in Ids, UDP!FeedKnown(i) PROVE MapInv'
  BY <1>1, ThreadNumbers DEF ManagerInv, ManagerType, MapInv, RunInv,
     UDP!FeedKnown, UDP!manager
<1>2. ASSUME NEW i \in Ids, UDP!FeedNew(i) PROVE MapInv'
  <2>1. PICK e \in UDP!Entries :
            /\ state[e] = "none" /\ run' = "found"
            /\ m' = [m EXCEPT ![i] = e] /\ id' = [id EXCEPT ![e] = i]
            /\ state' = [state EXCEPT ![e] = "live"]
    BY <1>2, NewEntry
  <2>2. m[i] = 0 /\ run = "receive" /\ UNCHANGED <<stop, conn, closers, todo, loop, requests>>
    BY <1>2 DEF UDP!FeedNew
  <2> QED
    BY SMT, <2>1, <2>2, ThreadNumbers DEF ManagerInv, ManagerType, MapInv
<1>3. CASE UDP!Refused
  BY <1>3, ThreadNumbers DEF ManagerInv, ManagerType, MapInv, RunInv,
     UDP!Refused, UDP!manager
<1>4. CASE UDP!Admitted
  BY <1>4, ThreadNumbers DEF ManagerInv, ManagerType, MapInv, RunInv,
     UDP!Admitted, UDP!manager
<1>5. CASE UDP!Fed
  BY <1>5, ThreadNumbers DEF ManagerInv, ManagerType, MapInv, RunInv,
     UDP!Fed, UDP!manager
<1>6. CASE UDP!InitConn
  BY <1>6, ThreadNumbers DEF ManagerInv, ManagerType, MapInv, RunInv,
     UDP!InitConn, UDP!Dials, UDP!manager
<1>7. CASE UDP!Dialed
  BY <1>7, ThreadNumbers DEF ManagerInv, ManagerType, MapInv, RunInv,
     UDP!Dialed, UDP!manager
<1>8. CASE UDP!DialFails
  BY <1>8, ThreadNumbers DEF ManagerInv, ManagerType, MapInv, RunInv,
     UDP!DialFails, UDP!manager
<1>9. CASE UDP!DialFailed
  BY <1>9, ThreadNumbers DEF ManagerInv, ManagerType, MapInv, RunInv,
     UDP!DialFailed, UDP!Free, UDP!InExit, UDP!manager
<1>10. CASE UDP!RunEnds
  BY <1>10, ThreadNumbers DEF ManagerInv, ManagerType, MapInv, RunInv,
     UDP!RunEnds, UDP!Sweeps, UDP!Mapped, UDP!Free, UDP!InExit, UDP!manager
<1>11. CASE UDP!Swept
  BY <1>11, ThreadNumbers DEF ManagerInv, ManagerType, MapInv, RunInv,
     UDP!Swept, UDP!Free, UDP!InExit, UDP!manager
<1>12. CASE UDP!RunReturns
  BY <1>12, ThreadNumbers DEF ManagerInv, ManagerType, MapInv, RunInv,
     UDP!RunReturns, UDP!Free, UDP!InExit, UDP!manager
<1>13. CASE UDP!IdleScan
  BY <1>13, ThreadNumbers DEF ManagerInv, ManagerType, MapInv, RunInv,
     UDP!IdleScan, UDP!Mapped, UDP!Free, UDP!InExit, UDP!manager
<1>14. ASSUME NEW x \in UDP!Entries, UDP!ExitLogs(x) PROVE MapInv'
  BY SMT, <1>14, ThreadNumbers DEF ManagerInv, ManagerType, MapInv, RunInv,
     UDP!ExitLogs, UDP!manager
<1>15. ASSUME NEW x \in UDP!Entries, UDP!ExitDeletes(x) PROVE MapInv'
  BY SMT, <1>15, ThreadNumbers DEF ManagerInv, ManagerType, MapInv, RunInv,
     UDP!ExitDeletes, UDP!manager
<1>16. ASSUME NEW x \in UDP!Entries, UDP!LoopFails(x) PROVE MapInv'
  BY <1>16, ThreadNumbers DEF ManagerInv, ManagerType, MapInv, RunInv,
     UDP!LoopFails, UDP!manager
<1>17. ASSUME NEW x \in UDP!Entries, UDP!LoopReturns(x) PROVE MapInv'
  BY <1>17, ThreadNumbers DEF ManagerInv, ManagerType, MapInv, RunInv,
     UDP!LoopReturns, UDP!Free, UDP!InExit, UDP!manager
<1>18. ASSUME NEW x \in UDP!Entries, NEW t \in UDP!Threads, UDP!CloseWithErr(t, x)
       PROVE  MapInv'
  BY SMT, <1>18, ThreadNumbers DEF ManagerInv, ManagerType, MapInv, RunInv,
     UDP!CloseWithErr, UDP!Closes, UDP!ConnClosed, UDP!Unlocked, UDP!InExit,
     UDP!manager
<1>19. CASE UNCHANGED UDP!vars
  BY <1>19 DEF ManagerInv, MapInv, UDP!vars, UDP!manager
<1> QED
  BY <1>1, <1>2, <1>3, <1>4, <1>5, <1>6, <1>7, <1>8, <1>9, <1>10, <1>11,
     <1>12, <1>13, <1>14, <1>15, <1>16, <1>17, <1>18, <1>19 DEF UDP!Next,
     UDP!Feeding, UDP!Closing

\* A connection lives with its loop.
LEMMA LoopStep ==
    ASSUME ManagerInv, UDP!Next \/ UNCHANGED UDP!vars
    PROVE  LoopInv'
<1>1. ASSUME NEW i \in Ids, UDP!FeedKnown(i) PROVE LoopInv'
  BY <1>1, ThreadNumbers DEF ManagerInv, ManagerType, LoopInv, RunInv,
     MapInv, UDP!FeedKnown, UDP!manager
<1>2. ASSUME NEW i \in Ids, UDP!FeedNew(i) PROVE LoopInv'
  BY SMT, <1>2, ThreadNumbers DEF ManagerInv, ManagerType, LoopInv, RunInv,
     MapInv, UDP!FeedNew, UDP!manager
<1>3. CASE UDP!Refused
  BY SMT, <1>3, ThreadNumbers DEF ManagerInv, ManagerType, LoopInv, RunInv,
     MapInv, UDP!Refused, UDP!manager
<1>4. CASE UDP!Admitted
  BY <1>4, ThreadNumbers DEF ManagerInv, ManagerType, LoopInv, RunInv,
     MapInv, UDP!Admitted, UDP!manager
<1>5. CASE UDP!Fed
  BY <1>5, ThreadNumbers DEF ManagerInv, ManagerType, LoopInv, RunInv,
     MapInv, UDP!Fed, UDP!manager
<1>6. CASE UDP!InitConn
  BY <1>6, ThreadNumbers DEF ManagerInv, ManagerType, LoopInv, RunInv,
     MapInv, UDP!InitConn, UDP!Dials, UDP!manager
<1>7. CASE UDP!Dialed
  BY SMT, <1>7, ThreadNumbers DEF ManagerInv, ManagerType, LoopInv, RunInv,
     MapInv, UDP!Dialed, UDP!manager
<1>8. CASE UDP!DialFails
  BY SMT, <1>8, ThreadNumbers DEF ManagerInv, ManagerType, LoopInv, RunInv,
     MapInv, UDP!DialFails, UDP!manager
<1>9. CASE UDP!DialFailed
  BY <1>9, ThreadNumbers DEF ManagerInv, ManagerType, LoopInv, RunInv,
     MapInv, UDP!DialFailed, UDP!Free, UDP!InExit, UDP!manager
<1>10. CASE UDP!RunEnds
  BY SMT, <1>10, ThreadNumbers DEF ManagerInv, ManagerType, LoopInv, RunInv,
     MapInv, UDP!RunEnds, UDP!Sweeps, UDP!Mapped, UDP!Free, UDP!InExit,
     UDP!manager
<1>11. CASE UDP!Swept
  BY <1>11, ThreadNumbers DEF ManagerInv, ManagerType, LoopInv, RunInv,
     MapInv, UDP!Swept, UDP!Free, UDP!InExit, UDP!manager
<1>12. CASE UDP!RunReturns
  BY <1>12, ThreadNumbers DEF ManagerInv, ManagerType, LoopInv, RunInv,
     MapInv, UDP!RunReturns, UDP!Free, UDP!InExit, UDP!manager
<1>13. CASE UDP!IdleScan
  BY SMT, <1>13, ThreadNumbers DEF ManagerInv, ManagerType, LoopInv, RunInv,
     MapInv, UDP!IdleScan, UDP!Mapped, UDP!Free, UDP!InExit, UDP!manager
<1>14. ASSUME NEW x \in UDP!Entries, UDP!ExitLogs(x) PROVE LoopInv'
  BY SMT, <1>14, ThreadNumbers DEF ManagerInv, ManagerType, LoopInv, RunInv,
     MapInv, UDP!ExitLogs, UDP!manager
<1>15. ASSUME NEW x \in UDP!Entries, UDP!ExitDeletes(x) PROVE LoopInv'
  BY SMT, <1>15, ThreadNumbers DEF ManagerInv, ManagerType, LoopInv, RunInv,
     MapInv, UDP!ExitDeletes, UDP!manager
<1>16. ASSUME NEW x \in UDP!Entries, UDP!LoopFails(x) PROVE LoopInv'
  BY SMT, <1>16, ThreadNumbers DEF ManagerInv, ManagerType, LoopInv, RunInv,
     MapInv, UDP!LoopFails, UDP!manager
<1>17. ASSUME NEW x \in UDP!Entries, UDP!LoopReturns(x) PROVE LoopInv'
  BY SMT, <1>17, ThreadNumbers DEF ManagerInv, ManagerType, LoopInv, RunInv,
     MapInv, UDP!LoopReturns, UDP!Free, UDP!InExit, UDP!manager
<1>18. ASSUME NEW x \in UDP!Entries, NEW t \in UDP!Threads, UDP!CloseWithErr(t, x)
       PROVE  LoopInv'
  BY SMT, <1>18, ThreadNumbers DEF ManagerInv, ManagerType, LoopInv, RunInv,
     MapInv, UDP!CloseWithErr, UDP!Closes, UDP!ConnClosed, UDP!Unlocked,
     UDP!InExit, UDP!manager
<1>19. CASE UNCHANGED UDP!vars
  BY <1>19 DEF ManagerInv, LoopInv, UDP!vars, UDP!manager
<1> QED
  BY <1>1, <1>2, <1>3, <1>4, <1>5, <1>6, <1>7, <1>8, <1>9, <1>10, <1>11,
     <1>12, <1>13, <1>14, <1>15, <1>16, <1>17, <1>18, <1>19 DEF UDP!Next,
     UDP!Feeding, UDP!Closing

\* An exit function is run by a thread that waits for it.
LEMMA ExitStep ==
    ASSUME ManagerInv, UDP!Next \/ UNCHANGED UDP!vars
    PROVE  ExitInv'
<1>1. ASSUME NEW i \in Ids, UDP!FeedKnown(i) PROVE ExitInv'
  BY <1>1, ThreadNumbers DEF ManagerInv, ManagerType, ExitInv, LoopInv,
     RunInv, UDP!FeedKnown, UDP!manager
<1>2. ASSUME NEW i \in Ids, UDP!FeedNew(i) PROVE ExitInv'
  <2>1. PICK e \in UDP!Entries :
            /\ state[e] = "none" /\ run' = "found"
            /\ m' = [m EXCEPT ![i] = e] /\ id' = [id EXCEPT ![e] = i]
            /\ state' = [state EXCEPT ![e] = "live"]
    BY <1>2, NewEntry
  <2>2. m[i] = 0 /\ run = "receive" /\ UNCHANGED <<stop, conn, closers, todo, loop, requests>>
    BY <1>2 DEF UDP!FeedNew
  <2> QED
    BY SMT, <2>1, <2>2, ThreadNumbers DEF ManagerInv, ManagerType, ExitInv
<1>3. CASE UDP!Refused
  BY <1>3, ThreadNumbers DEF ManagerInv, ManagerType, ExitInv, LoopInv,
     RunInv, UDP!Refused, UDP!manager
<1>4. CASE UDP!Admitted
  BY <1>4, ThreadNumbers DEF ManagerInv, ManagerType, ExitInv, LoopInv,
     RunInv, UDP!Admitted, UDP!manager
<1>5. CASE UDP!Fed
  BY <1>5, ThreadNumbers DEF ManagerInv, ManagerType, ExitInv, LoopInv,
     RunInv, UDP!Fed, UDP!manager
<1>6. CASE UDP!InitConn
  BY <1>6, ThreadNumbers DEF ManagerInv, ManagerType, ExitInv, LoopInv,
     RunInv, UDP!InitConn, UDP!Dials, UDP!manager
<1>7. CASE UDP!Dialed
  BY SMT, <1>7, ThreadNumbers DEF ManagerInv, ManagerType, ExitInv, LoopInv,
     RunInv, UDP!Dialed, UDP!manager
<1>8. CASE UDP!DialFails
  BY <1>8, ThreadNumbers DEF ManagerInv, ManagerType, ExitInv, LoopInv,
     RunInv, UDP!DialFails, UDP!manager
<1>9. CASE UDP!DialFailed
  BY SMT, <1>9, ThreadNumbers DEF ManagerInv, ManagerType, ExitInv, LoopInv,
     RunInv, UDP!DialFailed, UDP!Free, UDP!InExit, UDP!manager
<1>10. CASE UDP!RunEnds
  BY <1>10, ThreadNumbers DEF ManagerInv, ManagerType, ExitInv, LoopInv,
     RunInv, UDP!RunEnds, UDP!Sweeps, UDP!Mapped, UDP!Free, UDP!InExit,
     UDP!manager
<1>11. CASE UDP!Swept
  BY SMT, <1>11, ThreadNumbers DEF ManagerInv, ManagerType, ExitInv, LoopInv,
     RunInv, UDP!Swept, UDP!Free, UDP!InExit, UDP!manager
<1>12. CASE UDP!RunReturns
  BY <1>12, ThreadNumbers DEF ManagerInv, ManagerType, ExitInv, LoopInv,
     RunInv, UDP!RunReturns, UDP!Free, UDP!InExit, UDP!manager
<1>13. CASE UDP!IdleScan
  BY <1>13, ThreadNumbers DEF ManagerInv, ManagerType, ExitInv, LoopInv,
     RunInv, UDP!IdleScan, UDP!Mapped, UDP!Free, UDP!InExit, UDP!manager
<1>14. ASSUME NEW x \in UDP!Entries, UDP!ExitLogs(x) PROVE ExitInv'
  BY SMT, <1>14, ThreadNumbers DEF ManagerInv, ManagerType, ExitInv, LoopInv,
     RunInv, UDP!ExitLogs, UDP!manager
<1>15. ASSUME NEW x \in UDP!Entries, UDP!ExitDeletes(x) PROVE ExitInv'
  BY SMT, <1>15, ThreadNumbers DEF ManagerInv, ManagerType, ExitInv, LoopInv,
     RunInv, UDP!ExitDeletes, UDP!manager
<1>16. ASSUME NEW x \in UDP!Entries, UDP!LoopFails(x) PROVE ExitInv'
  BY SMT, <1>16, ThreadNumbers DEF ManagerInv, ManagerType, ExitInv, LoopInv,
     RunInv, UDP!LoopFails, UDP!manager
<1>17. ASSUME NEW x \in UDP!Entries, UDP!LoopReturns(x) PROVE ExitInv'
  BY SMTT(30), <1>17, ThreadNumbers DEF ManagerInv, ManagerType, ExitInv,
     LoopInv, RunInv, UDP!LoopReturns, UDP!Free, UDP!InExit, UDP!manager
<1>18. ASSUME NEW x \in UDP!Entries, NEW t \in UDP!Threads, UDP!CloseWithErr(t, x)
       PROVE  ExitInv'
  BY SMT, <1>18, ThreadNumbers DEF ManagerInv, ManagerType, ExitInv, LoopInv,
     RunInv, UDP!CloseWithErr, UDP!Closes, UDP!ConnClosed, UDP!Unlocked,
     UDP!InExit, UDP!manager
<1>19. CASE UNCHANGED UDP!vars
  BY <1>19 DEF ManagerInv, ExitInv, UDP!vars, UDP!manager
<1> QED
  BY <1>1, <1>2, <1>3, <1>4, <1>5, <1>6, <1>7, <1>8, <1>9, <1>10, <1>11,
     <1>12, <1>13, <1>14, <1>15, <1>16, <1>17, <1>18, <1>19 DEF UDP!Next,
     UDP!Feeding, UDP!Closing

\* Run leaves no live entry behind.
LEMMA RunStep ==
    ASSUME ManagerInv, UDP!Next \/ UNCHANGED UDP!vars
    PROVE  RunInv'
<1>1. ASSUME NEW i \in Ids, UDP!FeedKnown(i) PROVE RunInv'
  BY SMT, <1>1, ThreadNumbers DEF ManagerInv, ManagerType, RunInv, MapInv,
     ExitInv, LoopInv, UDP!FeedKnown, UDP!manager
<1>2. ASSUME NEW i \in Ids, UDP!FeedNew(i) PROVE RunInv'
  BY SMT, <1>2, ThreadNumbers DEF ManagerInv, ManagerType, RunInv, MapInv,
     ExitInv, LoopInv, UDP!FeedNew, UDP!manager
<1>3. CASE UDP!Refused
  BY <1>3, ThreadNumbers DEF ManagerInv, ManagerType, RunInv, MapInv,
     ExitInv, LoopInv, UDP!Refused, UDP!manager
<1>4. CASE UDP!Admitted
  BY <1>4, ThreadNumbers DEF ManagerInv, ManagerType, RunInv, MapInv,
     ExitInv, LoopInv, UDP!Admitted, UDP!manager
<1>5. CASE UDP!Fed
  BY <1>5, ThreadNumbers DEF ManagerInv, ManagerType, RunInv, MapInv,
     ExitInv, LoopInv, UDP!Fed, UDP!manager
<1>6. CASE UDP!InitConn
  BY <1>6, ThreadNumbers DEF ManagerInv, ManagerType, RunInv, MapInv,
     ExitInv, LoopInv, UDP!InitConn, UDP!Dials, UDP!manager
<1>7. CASE UDP!Dialed
  BY <1>7, ThreadNumbers DEF ManagerInv, ManagerType, RunInv, MapInv,
     ExitInv, LoopInv, UDP!Dialed, UDP!manager
<1>8. CASE UDP!DialFails
  BY <1>8, ThreadNumbers DEF ManagerInv, ManagerType, RunInv, MapInv,
     ExitInv, LoopInv, UDP!DialFails, UDP!manager
<1>9. CASE UDP!DialFailed
  BY <1>9, ThreadNumbers DEF ManagerInv, ManagerType, RunInv, MapInv,
     ExitInv, LoopInv, UDP!DialFailed, UDP!Free, UDP!InExit, UDP!manager
<1>10. CASE UDP!RunEnds
  BY SMT, <1>10, ThreadNumbers DEF ManagerInv, ManagerType, RunInv, MapInv,
     ExitInv, LoopInv, UDP!RunEnds, UDP!Sweeps, UDP!Mapped, UDP!Free,
     UDP!InExit, UDP!manager
<1>11. CASE UDP!Swept
  BY <1>11, ThreadNumbers DEF ManagerInv, ManagerType, RunInv, MapInv,
     ExitInv, LoopInv, UDP!Swept, UDP!Free, UDP!InExit, UDP!manager
<1>12. CASE UDP!RunReturns
  BY SMT, <1>12, ThreadNumbers DEF ManagerInv, ManagerType, RunInv, MapInv,
     ExitInv, LoopInv, UDP!RunReturns, UDP!Free, UDP!InExit, UDP!manager
<1>13. CASE UDP!IdleScan
  BY SMT, <1>13, ThreadNumbers DEF ManagerInv, ManagerType, RunInv, MapInv,
     ExitInv, LoopInv, UDP!IdleScan, UDP!Mapped, UDP!Free, UDP!InExit,
     UDP!manager
<1>14. ASSUME NEW x \in UDP!Entries, UDP!ExitLogs(x) PROVE RunInv'
  BY SMT, <1>14, ThreadNumbers DEF ManagerInv, ManagerType, RunInv, MapInv,
     ExitInv, LoopInv, UDP!ExitLogs, UDP!manager
<1>15. ASSUME NEW x \in UDP!Entries, UDP!ExitDeletes(x) PROVE RunInv'
  BY SMT, <1>15, ThreadNumbers DEF ManagerInv, ManagerType, RunInv, MapInv,
     ExitInv, LoopInv, UDP!ExitDeletes, UDP!manager
<1>16. ASSUME NEW x \in UDP!Entries, UDP!LoopFails(x) PROVE RunInv'
  BY SMT, <1>16, ThreadNumbers DEF ManagerInv, ManagerType, RunInv, MapInv,
     ExitInv, LoopInv, UDP!LoopFails, UDP!manager
<1>17. ASSUME NEW x \in UDP!Entries, UDP!LoopReturns(x) PROVE RunInv'
  BY <1>17, ThreadNumbers DEF ManagerInv, ManagerType, RunInv, MapInv,
     ExitInv, LoopInv, UDP!LoopReturns, UDP!Free, UDP!InExit, UDP!manager
<1>18. ASSUME NEW x \in UDP!Entries, NEW t \in UDP!Threads, UDP!CloseWithErr(t, x)
       PROVE  RunInv'
  BY SMT, <1>18, ThreadNumbers DEF ManagerInv, ManagerType, RunInv, MapInv,
     ExitInv, LoopInv, UDP!CloseWithErr, UDP!Closes, UDP!ConnClosed,
     UDP!Unlocked, UDP!InExit, UDP!manager
<1>19. CASE UNCHANGED UDP!vars
  BY <1>19 DEF ManagerInv, RunInv, UDP!vars, UDP!manager
<1> QED
  BY <1>1, <1>2, <1>3, <1>4, <1>5, <1>6, <1>7, <1>8, <1>9, <1>10, <1>11,
     <1>12, <1>13, <1>14, <1>15, <1>16, <1>17, <1>18, <1>19 DEF UDP!Next,
     UDP!Feeding, UDP!Closing

\* The inductive invariant of the UDP manager.
THEOREM ManagerInvariance == UDP!Spec => []ManagerInv
<1>1. UDP!Init => ManagerInv
  <2> SUFFICES ASSUME UDP!Init PROVE ManagerInv
    OBVIOUS
  <2>1. ManagerType
    BY ThreadNumbers DEF UDP!Init, ManagerType
  <2>2. CreatedInv
    <3>1. UDP!Created = {} /\ 1..0 = {} /\ 0 \in 0..MaxEntries
      BY SMT, EntriesAssumption DEF UDP!Init, UDP!Created, UDP!UDPAssumption
    <3> QED
      BY <3>1 DEF CreatedInv
  <2>3. MapInv /\ LoopInv /\ ExitInv /\ RunInv
    BY ThreadNumbers DEF UDP!Init, MapInv, LoopInv, ExitInv, RunInv
  <2> QED
    BY <2>1, <2>2, <2>3 DEF ManagerInv
<1>2. ManagerInv /\ [UDP!Next]_(UDP!vars) => ManagerInv'
  BY ManagerTypeStep, CreatedStep, MapStep, LoopStep, ExitStep, RunStep DEF
     ManagerInv
<1> QED
  BY <1>1, <1>2, PTL DEF UDP!Spec

\* The exit function of a session removes that session and no later one of its id;
\* a closed session has no connection; and nothing is left when Run has returned.
THEOREM SessionsTheorem == UDP!Spec => []SessionsExact
<1>1. ManagerInv => SessionsExact
  <2> SUFFICES ASSUME ManagerInv PROVE SessionsExact
    OBVIOUS
  <2>1. UDP!MappedUntilGone
    BY DEF ManagerInv, MapInv, UDP!MappedUntilGone
  <2>2. UDP!ClosedIsFinal
    BY DEF ManagerInv, ManagerType, LoopInv, UDP!ClosedIsFinal
  <2>3. ASSUME run = "returned"
        PROVE  /\ UDP!Mapped = {} /\ requests = {}
               /\ \A e \in UDP!Entries : conn[e] # "open" /\ loop[e] \in {"none", "done"}
    BY SMT, <2>3 DEF ManagerInv, ManagerType, MapInv, LoopInv, RunInv,
       UDP!Mapped
  <2> QED
    BY <2>1, <2>2, <2>3 DEF SessionsExact, UDP!ReturnsClean
<1> QED
  BY <1>1, ManagerInvariance, PTL
=============================================================================
