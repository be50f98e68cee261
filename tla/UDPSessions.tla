----------------------------- MODULE UDPSessions -----------------------------
(***************************************************************************)
(* The UDP session manager of one authenticated Hysteria2 connection:      *)
(* Run feeds the datagrams of the client to sessions, idleCleanupLoop      *)
(* closes idle ones, and every session with a connection has a             *)
(* receiveLoop.  Any of them may close a session; ExitFunc then reports    *)
(* the end of its request and removes it from the map, in two steps.       *)
(*                                                                         *)
(* An entry is a number, in the order of creation; entries of one          *)
(* association id follow each other.                                       *)
(***************************************************************************)
EXTENDS Integers, FiniteSets

CONSTANTS
    Ids,          \* association ids the client uses
    MaxEntries    \* bound: sessions created

UDPAssumption == MaxEntries \in Nat

Entries == 1..MaxEntries

\* The threads: Run, idleCleanupLoop, and an entry for its receiveLoop.
Run == 0
Idle == -1
Threads == {Run, Idle} \cup Entries
NoThread == -2

VARIABLES
    run,       \* Run: "receive", "found", "feed", "dial", "failed",
               \* "close", "sweep", "wait", "returned"
    current,   \* the entry feed works on
    stop,      \* stopCh is closed
    m,         \* the map of the manager: entry per id, 0 for none
    id,        \* association id of every entry created so far
    state,     \* of an entry: "none", "live", "closed", "logged", "gone"
    conn,      \* its UDP connection: "none", "open", "closed"
    closer,    \* the thread whose CloseWithErr closed it
    todo,      \* entries that a thread has still to call CloseWithErr on
    loop,      \* receiveLoop: "none", "read", "close", "done"
    requests   \* requests the tracker shows

manager == <<run, current, stop, m, id>>
vars == <<manager, state, conn, closer, todo, loop, requests>>

Created == {e \in Entries : state[e] # "none"}
Mapped == {m[i] : i \in Ids} \ {0}

\* connLock is held across steps only while Run dials.
Unlocked(e) == ~(run = "dial" /\ current = e)
----------------------------------------------------------------------------
\* CloseWithErr, called by a thread for an entry of its list.

\* Mutant: closed is not checked, and ExitFunc runs again.
ClosesAny(e) == TRUE

Closes(e) == state[e] = "live"

\* Mutant: the connection is left open.
ConnKept(e) == conn

ConnClosed(e) == IF conn[e] = "open" THEN [conn EXCEPT ![e] = "closed"] ELSE conn

\* A thread is inside ExitFunc.
InExit(t) == \E e \in Entries : closer[e] = t /\ state[e] \in {"closed", "logged"}

CloseWithErr(t, e) ==
    /\ e \in todo[t] /\ Unlocked(e) /\ ~InExit(t)
    /\ todo' = [todo EXCEPT ![t] = @ \ {e}]
    /\ IF Closes(e)
       THEN /\ state' = [state EXCEPT ![e] = "closed"]
            /\ closer' = [closer EXCEPT ![e] = t]
            /\ conn' = ConnClosed(e)
       ELSE UNCHANGED <<state, closer, conn>>
    /\ UNCHANGED <<manager, loop, requests>>

\* CloseSession is reported also for a session that never reported NewSession.
ExitLogs(e) ==
    /\ state[e] = "closed"
    /\ state' = [state EXCEPT ![e] = "logged"]
    /\ requests' = requests \ {e}
    /\ UNCHANGED <<manager, conn, closer, todo, loop>>

ExitDeletes(e) ==
    /\ state[e] = "logged"
    /\ state' = [state EXCEPT ![e] = "gone"]
    /\ closer' = [closer EXCEPT ![e] = NoThread]
    /\ m' = [m EXCEPT ![id[e]] = 0]
    /\ UNCHANGED <<run, current, stop, id, conn, todo, loop, requests>>

Free(t) == todo[t] = {} /\ ~InExit(t)
----------------------------------------------------------------------------
\* Run and feed.

\* A datagram of a known session.
FeedKnown(i) ==
    /\ run = "receive" /\ m[i] # 0
    /\ run' = "found" /\ current' = m[i]
    /\ UNCHANGED <<stop, m, id, state, conn, closer, todo, loop, requests>>

\* The first datagram of a session; only feed inserts into the map.
FeedNew(i) ==
    /\ run = "receive" /\ m[i] = 0
    /\ \E e \in Entries :
        /\ e = Cardinality(Created) + 1
        /\ run' = "found" /\ current' = e
        /\ m' = [m EXCEPT ![i] = e]
        /\ id' = [id EXCEPT ![e] = i]
        /\ state' = [state EXCEPT ![e] = "live"]
    /\ UNCHANGED <<stop, conn, closer, todo, loop, requests>>

\* Admit refuses: the session is closed, then Run returns.
Refused ==
    /\ run = "found"
    /\ run' = "close"
    /\ todo' = [todo EXCEPT ![Run] = {current}]
    /\ UNCHANGED <<current, stop, m, id, state, conn, closer, loop, requests>>

Admitted ==
    /\ run = "found"
    /\ run' = "feed"
    /\ UNCHANGED <<current, stop, m, id, state, conn, closer, todo, loop, requests>>

Dials(e) == state[e] = "live"

\* The message is incomplete, is written to the connection whatever became of
\* it, or finds the session closed; errors are ignored.
Fed ==
    /\ run = "feed"
    /\ run' = "receive" /\ current' = 0
    /\ UNCHANGED <<stop, m, id, state, conn, closer, todo, loop, requests>>

\* initConn takes connLock; dialFunc reports NewSession and dials.
InitConn ==
    /\ run = "feed" /\ conn[current] = "none" /\ Dials(current)
    /\ run' = "dial"
    /\ requests' = requests \cup {current}
    /\ UNCHANGED <<current, stop, m, id, state, conn, closer, todo, loop>>

Dialed ==
    /\ run = "dial"
    /\ run' = "receive" /\ current' = 0
    /\ conn' = [conn EXCEPT ![current] = "open"]
    /\ loop' = [loop EXCEPT ![current] = "read"]
    /\ UNCHANGED <<stop, m, id, state, closer, todo, requests>>

\* The lock is released before CloseWithErr takes it again.
DialFails ==
    /\ run = "dial"
    /\ run' = "failed"
    /\ todo' = [todo EXCEPT ![Run] = {current}]
    /\ UNCHANGED <<current, stop, m, id, state, conn, closer, loop, requests>>

DialFailed ==
    /\ run = "failed" /\ Free(Run)
    /\ run' = "receive" /\ current' = 0
    /\ UNCHANGED <<stop, m, id, state, conn, closer, todo, loop, requests>>

Sweeps == Mapped

\* The connection ends, or feed returned errDisconnect: stopCh is closed and all
\* sessions of the map are closed.
RunEnds ==
    /\ run = "receive" \/ (run = "close" /\ Free(Run))
    /\ run' = "sweep" /\ stop' = TRUE /\ current' = 0
    /\ todo' = [todo EXCEPT ![Run] = Sweeps]
    /\ UNCHANGED <<m, id, state, conn, closer, loop, requests>>

Swept ==
    /\ run = "sweep" /\ Free(Run)
    /\ run' = "wait"
    /\ UNCHANGED <<current, stop, m, id, state, conn, closer, todo, loop, requests>>

\* workers.Wait: the idle loop sees stopCh when it is back in its select.
RunReturns ==
    /\ run = "wait" /\ Free(Idle)
    /\ \A e \in Entries : loop[e] \in {"none", "done"}
    /\ run' = "returned"
    /\ UNCHANGED <<current, stop, m, id, state, conn, closer, todo, loop, requests>>
----------------------------------------------------------------------------
\* The other threads.

\* cleanup(true): which sessions are idle is a matter of time.  The ticker and
\* stopCh may both be ready; then select chooses freely, until Run returned.
IdleScan ==
    /\ run # "returned" /\ Free(Idle)
    /\ \E expired \in SUBSET Mapped \ {{}} : todo' = [todo EXCEPT ![Idle] = expired]
    /\ UNCHANGED <<manager, state, conn, closer, loop, requests>>

\* A read fails, as it does after our close, or a send fails or is refused.
\* Datagrams that are forwarded change nothing here.
LoopFails(e) ==
    /\ loop[e] = "read"
    /\ loop' = [loop EXCEPT ![e] = "close"]
    /\ todo' = [todo EXCEPT ![e] = {e}]
    /\ UNCHANGED <<manager, state, conn, closer, requests>>

LoopReturns(e) ==
    /\ loop[e] = "close" /\ Free(e)
    /\ loop' = [loop EXCEPT ![e] = "done"]
    /\ UNCHANGED <<manager, state, conn, closer, todo, requests>>
----------------------------------------------------------------------------
Init ==
    /\ run = "receive" /\ current = 0 /\ stop = FALSE
    /\ m = [i \in Ids |-> 0]
    /\ id = [e \in Entries |-> 0]
    /\ state = [e \in Entries |-> "none"]
    /\ conn = [e \in Entries |-> "none"] /\ loop = conn
    /\ closer = [e \in Entries |-> NoThread]
    /\ todo = [t \in Threads |-> {}]
    /\ requests = {}

Feeding ==
    \/ \E i \in Ids : FeedKnown(i) \/ FeedNew(i)
    \/ Refused \/ Admitted \/ Fed \/ InitConn \/ Dialed \/ DialFails \/ DialFailed

Closing ==
    \E e \in Entries :
        \/ ExitLogs(e) \/ ExitDeletes(e) \/ LoopFails(e) \/ LoopReturns(e)
        \/ \E t \in Threads : CloseWithErr(t, e)

Next == Feeding \/ Closing \/ RunEnds \/ Swept \/ RunReturns \/ IdleScan

Spec == Init /\ [][Next]_vars

\* Nothing is assumed of the client.  Dials end by their own deadlines, a read
\* of a closed connection fails, and the limiter decides in the end.
Fairness ==
    /\ WF_vars(Refused \/ Admitted) /\ WF_vars(Fed \/ InitConn)
    /\ WF_vars(Dialed \/ DialFails) /\ WF_vars(DialFailed)
    /\ WF_vars(run = "close" /\ RunEnds) /\ WF_vars(Swept) /\ WF_vars(RunReturns)
    /\ \A e \in Entries :
        /\ WF_vars(ExitLogs(e)) /\ WF_vars(ExitDeletes(e)) /\ WF_vars(LoopReturns(e))
        /\ WF_vars(conn[e] = "closed" /\ LoopFails(e))
        /\ \A t \in Threads : WF_vars(CloseWithErr(t, e))

FairSpec == Spec /\ Fairness
----------------------------------------------------------------------------
\* ExitFunc removes the session it belongs to and no later one of the same id:
\* a session stays in the map until its own exit function has run.
MappedUntilGone ==
    \A e \in Entries : state[e] \in {"live", "closed", "logged"} => m[id[e]] = e

\* What connLock is for: a closed session has no open connection, and a request
\* is shown only until its end was reported.
ClosedIsFinal ==
    /\ \A e \in Entries : conn[e] = "open" => state[e] = "live"
    /\ requests \subseteq {e \in Entries : state[e] \in {"live", "closed"}}

\* When Run has returned, no session, connection, request or loop is left, so
\* the events that follow (offline, disconnected) come last.
ReturnsClean ==
    run = "returned" =>
        /\ Mapped = {} /\ requests = {}
        /\ \A e \in Entries : conn[e] # "open" /\ loop[e] \in {"none", "done"}

\* After the connection has ended or a datagram was refused, Run returns; no
\* thread waits for another forever.
RunTerminates == (stop \/ run = "close") ~> (run = "returned")
=============================================================================
