--------------------------- MODULE OutboundNodes ---------------------------
(***************************************************************************)
(* The upstream nodes of the gateway: internal/outbound/factory.go.        *)
(*                                                                         *)
(* Every node has one worker (nodeEntry.run) that dials, waits while the   *)
(* node is ready, and starts over when it is told to reconnect.  Requests  *)
(* share the client of a node; the one that meets a closed connection      *)
(* evicts the client, closes it and leaves a token for the worker.  The    *)
(* number of simultaneous dials is bounded by a semaphore.                 *)
(*                                                                         *)
(* A client is the number of the dial that made it.  Its QUIC connection   *)
(* is up until the network drops it or the gateway closes the client.      *)
(***************************************************************************)
EXTENDS Integers, FiniteSets

CONSTANTS
    Nodes, Requests,
    MaxConnectAttempts, \* capacity of the semaphore
    MaxDials            \* bound: successful dials per node

ASSUME NodesAssumption ==
    /\ MaxConnectAttempts \in Nat \ {0}
    /\ MaxDials \in Nat

None == 0
Clients == 1..MaxDials

VARIABLES
    run,        \* per node: where the worker is
    client,     \* per node: the installed client
    state,      \* per node: NodeStatus.State
    reconnect,  \* per node: the token in the reconnect channel
    dials,      \* per node: successful dials so far
    up,         \* per node: clients whose QUIC connection is alive
    open,       \* per node: clients the gateway has not closed
    req,        \* per request: [pc, node, client]
    closing,    \* per request: progress of Close on its UDP association
    shutdown    \* "no", then "waiting" and "done" in OutboundFactory.Close

workerVars == <<run, dials>>
entryVars == <<client, state, reconnect>>
connVars == <<up, open>>
reqVars == <<req, closing>>
vars == <<workerVars, entryVars, connVars, reqVars, shutdown>>

Cancelled == shutdown # "no"
NoRequest == [pc |-> "idle", node |-> None, client |-> None]
----------------------------------------------------------------------------
\* nodeEntry.run

Goto(n, label) == run' = [run EXCEPT ![n] = label]
SetState(n, s) == state' = [state EXCEPT ![n] = s]

\* closeClient on the way out: the status is left as it was.
Exit(n) ==
    /\ Goto(n, "done")
    /\ client' = [client EXCEPT ![n] = None]
    /\ open' = [open EXCEPT ![n] = @ \ {client[n]}]
    /\ up' = [up EXCEPT ![n] = @ \ {client[n]}]
    /\ UNCHANGED <<state, reconnect, dials, reqVars, shutdown>>

Backoff(n) ==
    /\ run[n] = "retry"
    /\ Goto(n, "backoff")
    /\ SetState(n, "Backoff")
    /\ UNCHANGED <<client, reconnect, dials, connVars, reqVars, shutdown>>

BackoffEnds(n) ==
    /\ run[n] = "backoff"
    /\ Goto(n, "acquire")
    /\ SetState(n, "Connecting")
    /\ UNCHANGED <<client, reconnect, dials, connVars, reqVars, shutdown>>

Dialing == {n \in Nodes : run[n] = "dial"}

Acquire(n) ==
    /\ run[n] = "acquire"
    /\ Cardinality(Dialing) < MaxConnectAttempts
    /\ Goto(n, "dial")
    /\ UNCHANGED <<dials, entryVars, connVars, reqVars, shutdown>>

\* Connect succeeds, possibly although the context is already cancelled.
DialSucceeds(n) ==
    /\ run[n] = "dial" /\ dials[n] < MaxDials
    /\ dials' = [dials EXCEPT ![n] = @ + 1]
    /\ up' = [up EXCEPT ![n] = @ \cup {dials[n] + 1}]
    /\ open' = [open EXCEPT ![n] = @ \cup {dials[n] + 1}]
    /\ Goto(n, "connected")
    /\ UNCHANGED <<entryVars, reqVars, shutdown>>

DialFails(n) ==
    /\ run[n] = "dial"
    /\ Goto(n, "retry")
    /\ SetState(n, "Unavailable")
    /\ UNCHANGED <<client, reconnect, dials, connVars, reqVars, shutdown>>

SetReady(n) ==
    /\ run[n] = "connected"
    /\ client' = [client EXCEPT ![n] = dials[n]]
    /\ SetState(n, "Ready")
    /\ open' = [open EXCEPT ![n] = @ \ {client[n]}]
    /\ up' = [up EXCEPT ![n] = @ \ {client[n]}]
    /\ Goto(n, "ready")
    /\ UNCHANGED <<reconnect, dials, reqVars, shutdown>>

Reconnect(n) ==
    /\ run[n] = "ready" /\ reconnect[n]
    /\ reconnect' = [reconnect EXCEPT ![n] = FALSE]
    /\ Goto(n, "retry")
    /\ UNCHANGED <<client, state, dials, connVars, reqVars, shutdown>>

\* Mutant: the worker leaves its client behind.
RunCancelledOpen(n) ==
    /\ Cancelled
    /\ run[n] \in {"backoff", "acquire", "ready"}
    /\ Goto(n, "done")
    /\ UNCHANGED <<entryVars, connVars, dials, reqVars, shutdown>>

\* The selects on ctx.Done().
RunCancelled(n) ==
    /\ Cancelled
    /\ run[n] \in {"backoff", "acquire", "ready"}
    /\ Exit(n)

ConnectionDrops(n) ==
    \E c \in up[n] :
        /\ up' = [up EXCEPT ![n] = @ \ {c}]
        /\ UNCHANGED <<workerVars, entryVars, open, reqVars, shutdown>>
----------------------------------------------------------------------------
\* Requests

SetReq(r, pc) == req' = [req EXCEPT ![r].pc = pc]
Done(r) == req' = [req EXCEPT ![r] = NoRequest]

\* currentClient; without a ready client the request fails at once.
Begin(r, n, kind) ==
    /\ req[r].pc = "idle"
    /\ client[n] # None /\ state[n] = "Ready"
    /\ req' = [req EXCEPT ![r] = [pc |-> kind, node |-> n, client |-> client[n]]]
    /\ closing' = [closing EXCEPT ![r] = "no"]
    /\ UNCHANGED <<workerVars, entryVars, connVars, shutdown>>

\* TCPContext returns a connection, a refusal, or sees its context cancelled.
TCPEnds(r) ==
    /\ req[r].pc = "tcp"
    /\ Done(r)
    /\ UNCHANGED <<workerVars, entryVars, connVars, closing, shutdown>>

\* TCPContext returns a ClosedError: any stream error but a stream limit is
\* wrapped as one, whether or not the connection is up.
TCPFails(r) ==
    /\ req[r].pc = "tcp"
    /\ SetReq(r, "mark")
    /\ UNCHANGED <<workerVars, entryVars, connVars, closing, shutdown>>

\* UDPContext: the client notices a lost connection a little later, so an
\* association may still be opened on it.
UDPOpens(r) ==
    /\ req[r].pc = "udpOpen"
    /\ \/ SetReq(r, "udp")
       \/ req[r].client \notin up[req[r].node] /\ SetReq(r, "markUDP")
    /\ UNCHANGED <<workerVars, entryVars, connVars, closing, shutdown>>

\* Mutant: the association is closed before localClosed is set.
UDPFailsUnflagged(r) ==
    /\ req[r].pc = "udp"
    /\ \/ req[r].client \notin up[req[r].node]
       \/ closing[r] # "no"
    /\ IF closing[r] # "closed" THEN SetReq(r, "markUDP") ELSE Done(r)
    /\ UNCHANGED <<workerVars, entryVars, connVars, closing, shutdown>>

\* nodeUDPConn.ReadFrom or WriteTo fails: the connection is down, or the
\* association was closed here, which is not a failure of the node.
UDPFails(r) ==
    /\ req[r].pc = "udp"
    /\ \/ req[r].client \notin up[req[r].node]
       \/ closing[r] = "closed"
    /\ IF closing[r] = "no" THEN SetReq(r, "markUDP") ELSE Done(r)
    /\ UNCHANGED <<workerVars, entryVars, connVars, closing, shutdown>>

\* nodeUDPConn.Close by another goroutine: the flag, then the association.
CloseUDP(r) ==
    /\ req[r].pc = "udp"
    /\ \/ closing[r] = "no" /\ closing' = [closing EXCEPT ![r] = "flagged"]
       \/ closing[r] = "flagged" /\ closing' = [closing EXCEPT ![r] = "closed"]
    /\ UNCHANGED <<workerVars, entryVars, connVars, req, shutdown>>

\* Mutant: the failure of any client evicts the installed one.
EvictsAny(r) == client[req[r].node] # None

Evicts(r) == client[req[r].node] = req[r].client

EvictedState(n) == SetState(n, "Unavailable")

\* markUnavailable: under the lock ...
MarkUnavailable(r) ==
    /\ req[r].pc \in {"mark", "markUDP"}
    /\ LET n == req[r].node IN
       \/ ~Evicts(r) /\ Done(r) /\ UNCHANGED entryVars
       \/ /\ Evicts(r)
          /\ client' = [client EXCEPT ![n] = None]
          /\ EvictedState(n)
          /\ SetReq(r, "close")
          /\ UNCHANGED reconnect
    /\ UNCHANGED <<workerVars, connVars, closing, shutdown>>

\* Mutant: the token is sent before the client is closed.
CloseEvictedLate(r) ==
    /\ req[r].pc = "close"
    /\ reconnect' = [reconnect EXCEPT ![req[r].node] = TRUE]
    /\ LET n == req[r].node IN
       \/ UNCHANGED <<req, connVars>>
       \/ /\ open' = [open EXCEPT ![n] = @ \ {req[r].client}]
          /\ up' = [up EXCEPT ![n] = @ \ {req[r].client}]
          /\ Done(r)
    /\ UNCHANGED <<workerVars, client, state, closing, shutdown>>

\* ... then Close on the evicted client ...
CloseEvicted(r) ==
    /\ req[r].pc = "close"
    /\ LET n == req[r].node IN
       /\ open' = [open EXCEPT ![n] = @ \ {req[r].client}]
       /\ up' = [up EXCEPT ![n] = @ \ {req[r].client}]
    /\ SetReq(r, "token")
    /\ UNCHANGED <<workerVars, entryVars, closing, shutdown>>

\* Mutant: the token is forgotten.
SendNoToken(r) ==
    /\ req[r].pc = "token"
    /\ Done(r)
    /\ UNCHANGED <<workerVars, entryVars, connVars, closing, shutdown>>

\* ... and the token, unless there is one.
SendToken(r) ==
    /\ req[r].pc = "token"
    /\ reconnect' = [reconnect EXCEPT ![req[r].node] = TRUE]
    /\ Done(r)
    /\ UNCHANGED <<workerVars, client, state, connVars, closing, shutdown>>
----------------------------------------------------------------------------
\* OutboundFactory.Close cancels the workers and waits for them.
Close ==
    /\ shutdown = "no"
    /\ shutdown' = "waiting"
    /\ UNCHANGED <<workerVars, entryVars, connVars, reqVars>>

CloseReturns ==
    /\ shutdown = "waiting"
    /\ \A n \in Nodes : run[n] = "done"
    /\ shutdown' = "done"
    /\ UNCHANGED <<workerVars, entryVars, connVars, reqVars>>

\* newNodeEntry, after as many dials as `used` says of each node.
InitAfter(used) ==
    /\ run = [n \in Nodes |-> "acquire"]
    /\ client = [n \in Nodes |-> None]
    /\ state = [n \in Nodes |-> "Connecting"]
    /\ reconnect = [n \in Nodes |-> FALSE]
    /\ dials = used
    /\ up = [n \in Nodes |-> {}] /\ open = [n \in Nodes |-> {}]
    /\ req = [r \in Requests |-> NoRequest]
    /\ closing = [r \in Requests |-> "no"]
    /\ shutdown = "no"

Init == InitAfter([n \in Nodes |-> 0])

WorkerStep(n) ==
    \/ Backoff(n) \/ BackoffEnds(n) \/ Acquire(n) \/ DialSucceeds(n)
    \/ DialFails(n) \/ SetReady(n) \/ Reconnect(n) \/ RunCancelled(n)

RequestStep(r) ==
    \/ \E n \in Nodes, kind \in {"tcp", "udpOpen"} : Begin(r, n, kind)
    \/ TCPEnds(r) \/ TCPFails(r) \/ UDPOpens(r) \/ UDPFails(r)
    \/ CloseUDP(r) \/ MarkUnavailable(r) \/ CloseEvicted(r) \/ SendToken(r)

Next ==
    \/ \E n \in Nodes : WorkerStep(n) \/ ConnectionDrops(n)
    \/ \E r \in Requests : RequestStep(r)
    \/ Close \/ CloseReturns

Spec == Init /\ [][Next]_vars

\* Goroutines that can run do, timers fire, dials return; a select with a
\* ready ctx.Done() is not passed over forever; the semaphore serves its
\* waiters in order; an association always has a reader.  No dial need ever
\* succeed and no request need ever come.
Fairness ==
    /\ \A n \in Nodes :
          /\ WF_vars(Backoff(n) \/ BackoffEnds(n) \/ SetReady(n) \/ Reconnect(n))
          /\ WF_vars(DialSucceeds(n) \/ DialFails(n))
          /\ SF_vars(Acquire(n))
          /\ SF_vars(RunCancelled(n))
    /\ \A r \in Requests :
          /\ WF_vars(MarkUnavailable(r) \/ CloseEvicted(r) \/ SendToken(r))
          /\ WF_vars(UDPOpens(r)) /\ WF_vars(UDPFails(r))
    /\ WF_vars(CloseReturns)

FairSpec == Spec /\ Fairness
----------------------------------------------------------------------------
\* A node never has two open clients: the next dial starts only after the
\* evicted client was closed, whichever request evicts it and however late
\* the failures of older clients are reported.
OneOpenClient ==
    \A n \in Nodes : \A c, d \in open[n] : c = d

\* A token is never left over from an earlier client: whenever the worker can
\* take one, the client it reports is already evicted and closed.
TokenIsCurrent ==
    \A n \in Nodes :
        reconnect[n] /\ run[n] # "done"
            => run[n] = "ready" /\ client[n] = None /\ open[n] = {}

\* The failure of a UDP association is held against the shared client only if
\* the connection is really down: closing one association is private to it.
LocalCloseIsPrivate ==
    \A r \in Requests :
        req[r].pc = "markUDP" => req[r].client \notin up[req[r].node]

\* No wake-up is lost: a worker that waits for a token of an evicted client
\* gets it and dials again, or the factory closes.
EvictedNodeRedials ==
    \A n \in Nodes :
        (run[n] = "ready" /\ client[n] = None) ~> (run[n] \in {"dial", "done"})

\* OutboundFactory.Close returns, whatever its workers are doing, and in the end
\* no client is open, also none that was dialed or evicted meanwhile.
CloseEnds ==
    /\ (shutdown = "waiting") ~> (shutdown = "done")
    /\ Cancelled ~> (\A n \in Nodes : open[n] = {})
=============================================================================
