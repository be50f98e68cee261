--------------------------- MODULE TrojanService ---------------------------
(***************************************************************************)
(* One Trojan listener of internal/inbound/trojan: the accept loop with its*)
(* admission slots, a handler per connection from the TLS handshake to the *)
(* relay (TCP, UDP association or website fallback), and Close.            *)
(*                                                                         *)
(* A handler is at one of the places below; what happens under             *)
(* connectionsMu is one step.  Sockets are open or closed on our side; a   *)
(* peer may close, fail or stay silent at any time.  Parsing is its        *)
(* outcome.                                                                *)
(***************************************************************************)
EXTENDS Integers, FiniteSets, Tracker

CONSTANTS
    Conns,          \* client connections
    MaxPending,     \* capacity of the channel pending
    MaxWebsite,     \* capacity of fallback.slots, 0 when there is no fallback
    MaxChunks       \* bound: payloads per connection and direction

ASSUME TrojanAssumption == MaxPending \in Nat \ {0} /\ {MaxWebsite, MaxChunks} \subseteq Nat

Directions == {"up", "down"}   \* client to upstream, upstream to client

VARIABLES
    serve,      \* the accept loop: "accept", "admitted", "returned"
    accepted,   \* the connection the accept loop has admitted, as a set
    handler,    \* per connection: place and local variables of its handler
    client,     \* client sockets that are open
    upstream,   \* connections whose upstream is open
    registered, \* s.connections: "no", "client" or "both"
    pending, website,   \* slots in use
    copy,       \* place of the two copying goroutines of a relay
    table,      \* the tracker's sessions
    online,     \* sessions counted by LogOnlineState
    charged, forwarded, \* payloads per connection and direction
    closer      \* Close: "idle", "closed", "waiting", "returned"

sockets == <<client, upstream>>
relay == <<copy, charged, forwarded>>
events == <<table, online>>
vars == <<serve, accepted, handler, sockets, registered, pending, website, relay,
          events, closer>>

Running == {"handshake", "header", "refuse", "dial", "dialed", "publish", "relay",
            "half", "closing", "withdraw", "cleanup"}
Fresh == [at |-> "outside", kind |-> "none", pending |-> FALSE, slot |-> FALSE]

Closed == closer # "idle"
Go(c, place) == handler' = [handler EXCEPT ![c].at = place]
At(c, place) == handler[c].at = place
----------------------------------------------------------------------------
\* The accept loop.

\* A connection that finds no free slot is closed at once.
Accept(c) ==
    /\ serve = "accept" /\ ~Closed /\ At(c, "outside")
    /\ IF pending < MaxPending
       THEN /\ pending' = pending + 1
            /\ serve' = "admitted" /\ accepted' = {c}
            /\ client' = client \cup {c}
            /\ UNCHANGED handler
       ELSE Go(c, "done") /\ UNCHANGED <<pending, serve, accepted, client>>
    /\ UNCHANGED <<upstream, registered, website, relay, events, closer>>

RefusesLate == Closed

Register(c) ==
    /\ serve = "admitted" /\ c \in accepted
    /\ serve' = "accept" /\ accepted' = {}
    /\ IF RefusesLate
       THEN /\ pending' = pending - 1
            /\ client' = client \ {c}
            /\ Go(c, "done")
            /\ UNCHANGED registered
       ELSE /\ registered' = [registered EXCEPT ![c] = "client"]
            /\ handler' = [handler EXCEPT ![c].at = "handshake", ![c].pending = TRUE]
            /\ UNCHANGED <<pending, client>>
    /\ UNCHANGED <<upstream, website, relay, events, closer>>

\* Accept fails for good, or because Close closed the listener.  A temporary
\* failure is retried after a backoff and changes nothing.
ServeReturns ==
    /\ serve = "accept"
    /\ serve' = "returned"
    /\ UNCHANGED <<accepted, handler, sockets, registered, pending, website, relay,
                   events, closer>>
----------------------------------------------------------------------------
\* The handler up to the relay.

\* Under the handshake deadline.
Handshake(c) ==
    /\ At(c, "handshake")
    /\ (c \in client /\ Go(c, "header")) \/ Go(c, "cleanup")
    /\ UNCHANGED <<serve, accepted, sockets, registered, pending, website, relay,
                   events, closer>>

\* Mutant: the flag that guards the slot's return is not cleared.
SlotReturnedOnly(c, kind) ==
    /\ pending' = pending - 1
    /\ handler' = [handler EXCEPT ![c].at = "dial", ![c].kind = kind,
                      ![c].slot = (kind = "website")]

LeavePending(c, kind) ==
    /\ pending' = pending - 1
    /\ handler' = [handler EXCEPT ![c].at = "dial", ![c].kind = kind, ![c].pending = FALSE,
                      ![c].slot = (kind = "website")]

\* A valid request with valid credentials; the deadline is cleared.
ReadRequest(c, kind) ==
    /\ At(c, "header") /\ c \in client
    /\ LeavePending(c, kind)
    /\ UNCHANGED <<serve, accepted, sockets, registered, website, relay, events, closer>>

\* Anything else of at least one byte goes to the website, if it has a slot.
ReadOther(c) ==
    /\ At(c, "header") /\ MaxWebsite > 0
    /\ IF website < MaxWebsite
       THEN website' = website + 1 /\ LeavePending(c, "website")
       ELSE Go(c, "refuse") /\ UNCHANGED <<pending, website>>
    /\ UNCHANGED <<serve, accepted, sockets, registered, relay, events, closer>>

\* No byte, no fallback, or a target that local rules reject; the read has a
\* deadline.  The response over capacity is written under one, too.
Drop(c) ==
    /\ At(c, "header") \/ At(c, "refuse")
    /\ Go(c, "cleanup")
    /\ UNCHANGED <<serve, accepted, sockets, registered, pending, website, relay,
                   events, closer>>

\* OpenTCP, OpenUDP or the dial of the website; they may fail or be canceled.
Dial(c) ==
    /\ At(c, "dial")
    /\ \/ Go(c, "dialed") /\ upstream' = upstream \cup {c}
       \/ Go(c, "cleanup") /\ UNCHANGED upstream
    /\ UNCHANGED <<serve, accepted, client, registered, pending, website, relay,
                   events, closer>>

\* Mutant: setUpstream does not look at closed.
MayRegisterAlways(c) == registered[c] # "no"

MayRegister(c) == registered[c] # "no" /\ ~Closed

SetUpstream(c) ==
    /\ At(c, "dialed")
    /\ IF MayRegister(c)
       THEN /\ registered' = [registered EXCEPT ![c] = "both"]
            /\ Go(c, IF handler[c].kind = "website" THEN "relay" ELSE "publish")
            /\ copy' = [copy EXCEPT ![c] = [d \in Directions |-> "read"]]
            /\ UNCHANGED upstream
       ELSE /\ upstream' = upstream \ {c}
            /\ Go(c, "cleanup")
            /\ UNCHANGED <<registered, copy>>
    /\ UNCHANGED <<serve, accepted, client, pending, website, charged, forwarded,
                   events, closer>>

\* startRequest: Connected, Online and StartRequest, in this order.
Publish(c) ==
    /\ At(c, "publish")
    /\ \/ /\ c \notin DOMAIN table
          /\ table' = ConnectSession(table, c) /\ UNCHANGED <<online, handler>>
       \/ /\ c \in DOMAIN table /\ c \notin online
          /\ online' = LogOnlineState(online, c, TRUE) /\ UNCHANGED <<table, handler>>
       \/ /\ c \in online
          /\ table' = StartRequest(table, c, 1) /\ Go(c, "relay") /\ UNCHANGED online
    /\ UNCHANGED <<serve, accepted, sockets, registered, pending, website, relay, closer>>

\* Mutant: the cleanup disconnects first.
WithdrawDisconnectsFirst(c) ==
    \/ /\ c \in DOMAIN table
       /\ table' = DisconnectSession(table, c) /\ UNCHANGED <<online, handler>>
    \/ /\ c \notin DOMAIN table /\ c \in online
       /\ online' = online \ {c} /\ Go(c, "cleanup") /\ UNCHANGED table

\* The function startRequest returned: StopRequest, Online(false), Disconnected.
StopEvents(c) ==
    \/ /\ c \in online /\ table[c] # {}
       /\ table' = StopRequest(table, c, 1) /\ UNCHANGED <<online, handler>>
    \/ /\ c \in online /\ table[c] = {}
       /\ online' = LogOnlineState(online, c, FALSE) /\ UNCHANGED <<table, handler>>
    \/ /\ c \notin online
       /\ table' = DisconnectSession(table, c) /\ Go(c, "cleanup") /\ UNCHANGED online

Withdraw(c) ==
    /\ At(c, "withdraw") /\ StopEvents(c)
    /\ UNCHANGED <<serve, accepted, sockets, registered, pending, website, relay, closer>>
----------------------------------------------------------------------------
\* The relay: two goroutines copy, the handler waits for them.

SourceOpen(c, d) == IF d = "up" THEN c \in client ELSE c \in upstream
TargetOpen(c, d) == IF d = "up" THEN c \in upstream ELSE c \in client

Copying(c, d, place) == handler[c].at \in {"relay", "half", "closing"} /\ copy[c][d] = place
Move(c, d, place) == copy' = [copy EXCEPT ![c][d] = place]

\* Mutant: payloads are written before they are admitted.
ReadThenWrite(c) == "write"

AfterRead(c) == IF handler[c].kind = "website" THEN "write" ELSE "admit"

\* A payload arrives.
Read(c, d) ==
    /\ Copying(c, d, "read") /\ SourceOpen(c, d)
    /\ charged[c][d] < MaxChunks /\ forwarded[c][d] < MaxChunks
    /\ Move(c, d, AfterRead(c))
    /\ UNCHANGED <<serve, accepted, handler, sockets, registered, pending, website,
                   charged, forwarded, events, closer>>

\* The stream ends: by the peer at any time, by us when the socket is closed.
ReadEnds(c, d, result) ==
    /\ Copying(c, d, "read")
    /\ SourceOpen(c, d) \/ result = "failed"
    /\ Move(c, d, result)
    /\ UNCHANGED <<serve, accepted, handler, sockets, registered, pending, website,
                   charged, forwarded, events, closer>>

\* kernel.Admit may wait in the limiter; a canceled context ends the wait.
Admit(c, d) ==
    /\ Copying(c, d, "admit")
    /\ \/ Move(c, d, "write") /\ charged' = [charged EXCEPT ![c][d] = @ + 1]
       \/ Move(c, d, "failed") /\ UNCHANGED charged
    /\ UNCHANGED <<serve, accepted, handler, sockets, registered, pending, website,
                   forwarded, events, closer>>

Write(c, d) ==
    /\ Copying(c, d, "write") /\ TargetOpen(c, d)
    /\ Move(c, d, "read")
    /\ forwarded' = [forwarded EXCEPT ![c][d] = @ + 1]
    /\ UNCHANGED <<serve, accepted, handler, sockets, registered, pending, website,
                   charged, events, closer>>

\* A datagram that cannot be sent or encoded is dropped; any other failure ends
\* the copy.
WriteFails(c, d) ==
    /\ Copying(c, d, "write")
    /\ \/ Move(c, d, "failed")
       \/ handler[c].kind = "udp" /\ TargetOpen(c, d) /\ Move(c, d, "read")
    /\ UNCHANGED <<serve, accepted, handler, sockets, registered, pending, website,
                   charged, forwarded, events, closer>>

Over(c, d) == copy[c][d] \in {"eof", "failed"}

\* Mutant: only the client is closed when the first copy ends.
CloseClientOnly(c) == client' = client \ {c} /\ UNCHANGED upstream

CloseBoth(c) == client' = client \ {c} /\ upstream' = upstream \ {c}

\* A visitor of the website who has sent everything still gets the response.
HalfClosed(c) ==
    /\ handler[c].kind = "website" /\ copy[c]["up"] = "eof"
    /\ Go(c, "half") /\ UNCHANGED sockets

\* The first result of the two goroutines.
FirstEnds(c) ==
    /\ At(c, "relay")
    /\ \/ HalfClosed(c)
       \/ /\ \/ Over(c, "down") \/ copy[c]["up"] = "failed"
             \/ Over(c, "up") /\ handler[c].kind # "website"
          /\ Go(c, "closing") /\ CloseBoth(c)
    /\ UNCHANGED <<serve, accepted, registered, pending, website, relay, events, closer>>

\* watchIdle finds a UDP association idle; the cancellation by Close reaches the
\* AfterFunc of a website visit.
IdleCloses(c) ==
    /\ c \in client
    /\ \/ At(c, "relay") /\ handler[c].kind = "udp"
       \/ (At(c, "relay") \/ At(c, "half")) /\ handler[c].kind = "website" /\ Closed
    /\ CloseBoth(c)
    /\ UNCHANGED <<serve, accepted, handler, registered, pending, website, relay,
                   events, closer>>

\* Both results are in.  The backend of a half-closed visit is closed now.
RelayEnds(c) ==
    /\ At(c, "closing") \/ At(c, "half")
    /\ \A d \in Directions : Over(c, d)
    /\ Go(c, IF handler[c].kind = "website" THEN "cleanup" ELSE "withdraw")
    /\ upstream' = upstream \ {c}
    /\ UNCHANGED <<serve, accepted, client, registered, pending, website, relay,
                   events, closer>>

\* The deferred function of handle, with the release of a website slot.
Cleanup(c) ==
    /\ At(c, "cleanup")
    /\ pending' = IF handler[c].pending THEN pending - 1 ELSE pending
    /\ website' = IF handler[c].slot THEN website - 1 ELSE website
    /\ registered' = [registered EXCEPT ![c] = "no"]
    /\ client' = client \ {c}
    /\ handler' = [handler EXCEPT ![c].at = "done", ![c].pending = FALSE, ![c].slot = FALSE]
    /\ UNCHANGED <<serve, accepted, upstream, relay, events, closer>>
----------------------------------------------------------------------------
\* Close.

Close ==
    /\ closer = "idle"
    /\ closer' = "closed"
    /\ UNCHANGED <<serve, accepted, handler, sockets, registered, pending, website,
                   relay, events>>

Collected == {c \in Conns : registered[c] # "no"}

\* What is registered under the mutex is closed; it cannot grow any more.
CloseConnections ==
    /\ closer = "closed"
    /\ closer' = "waiting"
    /\ client' = client \ Collected
    /\ upstream' = {c \in upstream : c \notin Collected \/ registered[c] # "both"}
    /\ UNCHANGED <<serve, accepted, handler, registered, pending, website, relay, events>>

\* handlers.Wait
CloseReturns ==
    /\ closer = "waiting"
    /\ \A c \in Conns : handler[c].at \notin Running
    /\ closer' = "returned"
    /\ UNCHANGED <<serve, accepted, handler, sockets, registered, pending, website,
                   relay, events>>
----------------------------------------------------------------------------
\* Some connections were refused before, and some payloads forwarded.
InitAfter(refused, payloads) ==
    /\ serve = "accept" /\ accepted = {} /\ closer = "idle"
    /\ handler = [c \in Conns |-> [Fresh EXCEPT !.at = IF c \in refused THEN "done" ELSE @]]
    /\ client = {} /\ upstream = {} /\ online = {} /\ table = NoSessions
    /\ registered = [c \in Conns |-> "no"]
    /\ pending = 0 /\ website = 0
    /\ copy = [c \in Conns |-> [d \in Directions |-> "none"]]
    /\ charged = [c \in Conns |-> [d \in Directions |-> payloads]]
    /\ forwarded = charged

Init == InitAfter({}, 0)

Establish(c) ==
    \/ Accept(c) \/ Register(c) \/ Handshake(c) \/ Drop(c) \/ ReadOther(c)
    \/ \E kind \in {"tcp", "udp"} : ReadRequest(c, kind)
    \/ Dial(c) \/ SetUpstream(c) \/ Publish(c)

Copy(c, d) ==
    \/ Read(c, d) \/ Admit(c, d) \/ Write(c, d) \/ WriteFails(c, d)
    \/ \E result \in {"eof", "failed"} : ReadEnds(c, d, result)

Finish(c) ==
    FirstEnds(c) \/ IdleCloses(c) \/ RelayEnds(c) \/ Withdraw(c) \/ Cleanup(c)

Next ==
    \/ ServeReturns \/ Close \/ CloseConnections \/ CloseReturns
    \/ \E c \in Conns : Establish(c) \/ Finish(c) \/ \E d \in Directions : Copy(c, d)

Spec == Init /\ [][Next]_vars

\* Deadlines end handshake, header and dial, and the reads and writes of a silent
\* visit; the limiter lets a payload pass or refuses it; a copy whose socket we
\* closed fails.  Nothing is assumed
\* of peers.
Fairness ==
    /\ \A c \in Conns :
        /\ WF_vars(Register(c)) /\ WF_vars(Handshake(c)) /\ WF_vars(Drop(c))
        /\ WF_vars(Dial(c)) /\ WF_vars(SetUpstream(c))
        /\ WF_vars(FirstEnds(c)) /\ WF_vars(RelayEnds(c)) /\ WF_vars(Withdraw(c))
        /\ WF_vars(Publish(c)) /\ WF_vars(Cleanup(c))
        /\ \A d \in Directions :
            /\ WF_vars(Admit(c, d))
            /\ WF_vars(~SourceOpen(c, d) /\ ReadEnds(c, d, "failed"))
            /\ WF_vars(~TargetOpen(c, d) /\ WriteFails(c, d))
            /\ WF_vars(handler[c].kind = "website" /\ ReadEnds(c, d, "failed"))
            /\ WF_vars(handler[c].kind = "website" /\ WriteFails(c, d))
    /\ WF_vars(CloseConnections) /\ WF_vars(CloseReturns)

FairSpec == Spec /\ Fairness
----------------------------------------------------------------------------
\* Every slot is given back exactly once, on every path of the handler: the
\* channel pending counts the connections that are not yet served, the one of
\* the fallback those of the website.
SlotsExact ==
    /\ pending = Cardinality(accepted) + Cardinality({c \in Conns : handler[c].pending})
    /\ website = Cardinality({c \in Conns : handler[c].slot})
    /\ \A c \in Conns : handler[c].at \in {"dial", "dialed", "publish", "relay", "half", "closing"}
                           => ~handler[c].pending

\* Once Close has closed what was registered, an upstream is open only in a
\* handler that just dialed it and will close it itself.  After Close has
\* returned, no handler runs: nothing is open, published or counted, and nothing
\* will be charged (the final flush comes next).
ClosedIsQuiet ==
    /\ closer \in {"waiting", "returned"} => \A c \in upstream : At(c, "dialed")
    /\ closer = "returned" =>
          /\ upstream = {} /\ online = {} /\ table = NoSessions
          /\ client \subseteq accepted
          /\ \A c \in Conns : handler[c].at \notin Running

\* No payload of a proxy request is forwarded before it was charged.
ChargedFirst ==
    \A c \in Conns, d \in Directions :
        handler[c].kind # "website" => forwarded[c][d] <= charged[c][d]

Registry == INSTANCE SessionRegistry WITH Sessions <- Conns, Requests <- {1}

\* A served request is published once and withdrawn once, in the order the
\* registry promises, on every path that ends a handler.
ImplementsRegistry == Registry!Spec

\* No handler outlives its reason: whatever its peers do, a connection gives its
\* admission slot back; when one direction of a relay ends (end of stream,
\* failure, refusal by policy), the handler ends with the other; and Close returns.
HandlersEnd ==
    /\ \A c \in Conns :
          /\ handler[c].pending ~> ~handler[c].pending
          /\ (At(c, "relay") /\ \E d \in Directions : Over(c, d)) ~> At(c, "done")
    /\ Closed ~> (closer = "returned")
=============================================================================
