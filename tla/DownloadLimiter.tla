--------------------------- MODULE DownloadLimiter ---------------------------
(***************************************************************************)
(* The download limiter of internal/traffic: the streams of a user reserve *)
(* consecutive intervals on one timeline, as long as their payload takes   *)
(* at the user's rate, and wait for the start of theirs.  A reservation    *)
(* may be given up, and a change of any user's rate resets all timelines   *)
(* and wakes all reservations.                                             *)
(*                                                                         *)
(* Time is discrete.  The zero time that a reset installs is 0.            *)
(***************************************************************************)
EXTENDS Integers, FiniteSets

CONSTANTS
    Users, Streams,
    Rates,        \* rates an administrator may set; 0 is unlimited
    Sizes,        \* payload sizes
    MaxNow,       \* bound: time
    MaxUpdates    \* bound: users whose policy is changed, once each

\* Payloads are bounded by the buffers they are read into.
LimiterAssumption ==
    /\ Rates \subseteq Nat /\ Sizes \subseteq Nat \ {0}
    /\ \E b \in Sizes : \A c \in Sizes : c <= b

VARIABLES
    now,
    rate,       \* published policy: the rate of every user
    next,       \* limiter.next of every user
    notified,   \* how often limiter.notify was closed
    call,       \* limitDownloadContext of every stream
    granted,    \* history: the intervals of the payloads that were let through
    changed, resetting   \* users whose policy was changed; NotifyUsersUpdated is due

vars == <<now, rate, next, notified, call, granted, changed, resetting>>

Idle == [at |-> "idle"]
LargestSize == CHOOSE b \in Sizes : \A c \in Sizes : c <= b

\* The seconds a payload takes; rates divide the largest size in the instances.
Seconds(bytes, r) == (bytes * LargestSize) \div r

Later(a, b) == IF a < b THEN b ELSE a
----------------------------------------------------------------------------
\* The policy is read before the limiter is locked.
ReadPolicy(s, u, bytes) ==
    /\ call[s].at = "idle" \/ (call[s].at = "again" /\ call[s].user = u /\ call[s].bytes = bytes)
    /\ call' = [call EXCEPT ![s] = IF rate[u] = 0 THEN Idle
                  ELSE [at |-> "reserve", user |-> u, bytes |-> bytes, rate |-> rate[u]]]
    /\ UNCHANGED <<now, rate, next, notified, granted, changed, resetting>>

Start(u) == Later(next[u], now)

Grant(u, start, end) ==
    granted' = granted \cup {[user |-> u, number |-> Cardinality(granted),
                              start |-> start, end |-> end]}

Reserve(s) ==
    /\ call[s].at = "reserve"
    /\ LET u == call[s].user
           start == Start(u)
           end == start + Seconds(call[s].bytes, call[s].rate)
       IN  /\ end <= MaxNow
           /\ next' = [next EXCEPT ![u] = end]
           /\ IF start > now
              THEN /\ call' = [call EXCEPT ![s] = [at |-> "wait", user |-> u,
                                 bytes |-> call[s].bytes, rate |-> call[s].rate,
                                 start |-> start, end |-> end, notify |-> notified[u]]]
                   /\ UNCHANGED granted
              ELSE call' = [call EXCEPT ![s] = Idle] /\ Grant(u, start, end)
    /\ UNCHANGED <<now, rate, notified, changed, resetting>>

TimerFires(s) ==
    /\ call[s].at = "wait" /\ call[s].start <= now
    /\ Grant(call[s].user, call[s].start, call[s].end)
    /\ call' = [call EXCEPT ![s] = Idle]
    /\ UNCHANGED <<now, rate, next, notified, changed, resetting>>

\* Mutant: the timeline goes back although others have reserved after us.
NextRewound(c) == c.start

NextAfterCancel(c) == IF next[c.user] = c.end THEN c.start ELSE next[c.user]

\* The context ends, or notify is closed; both cancel the reservation, later.
GiveUp(s) ==
    /\ call[s].at = "wait"
    /\ \E after \in {"idle", "again"} :
        /\ after = "again" => notified[call[s].user] # call[s].notify
        /\ call' = [call EXCEPT ![s] = [at |-> "cancel", user |-> call[s].user,
                       bytes |-> call[s].bytes, start |-> call[s].start,
                       end |-> call[s].end, after |-> after]]
    /\ UNCHANGED <<now, rate, next, notified, granted, changed, resetting>>

CancelReservation(s) ==
    /\ call[s].at = "cancel"
    /\ next' = [next EXCEPT ![call[s].user] = NextAfterCancel(call[s])]
    /\ call' = [call EXCEPT ![s] = IF call[s].after = "idle" THEN Idle
                  ELSE [at |-> "again", user |-> call[s].user, bytes |-> call[s].bytes]]
    /\ UNCHANGED <<now, rate, notified, granted, changed, resetting>>
----------------------------------------------------------------------------
\* A snapshot with another rate for one user is published.
PublishUsers(u, r) ==
    /\ Cardinality(changed) < MaxUpdates /\ u \notin changed
    /\ ~resetting /\ r # rate[u]
    /\ changed' = changed \cup {u} /\ resetting' = TRUE
    /\ rate' = [rate EXCEPT ![u] = r]
    /\ UNCHANGED <<now, next, notified, call, granted>>

\* Mutant: the timelines are reset, the waiting reservations are not told.
NotifyKept(u) == notified[u]

NotifyClosed(u) == notified[u] + 1

\* wakeLimiters: every limiter, whoever's rate was changed.
WakeLimiters ==
    /\ resetting
    /\ resetting' = FALSE
    /\ next' = [u \in Users |-> 0]
    /\ notified' = [u \in Users |-> NotifyClosed(u)]
    /\ UNCHANGED <<now, rate, call, granted, changed>>

Tick ==
    /\ now < MaxNow
    /\ now' = now + 1
    /\ UNCHANGED <<rate, next, notified, call, granted, changed, resetting>>
----------------------------------------------------------------------------
Init ==
    /\ now = 1 /\ changed = {} /\ resetting = FALSE /\ granted = {}
    /\ rate \in [Users -> Rates \ {0}]
    /\ next = [u \in Users |-> 0]
    /\ notified = [u \in Users |-> 0]
    /\ call = [s \in Streams |-> Idle]

Next ==
    \/ Tick \/ WakeLimiters
    \/ \E u \in Users, r \in Rates : PublishUsers(u, r)
    \/ \E s \in Streams :
        \/ Reserve(s) \/ TimerFires(s) \/ GiveUp(s) \/ CancelReservation(s)
        \/ \E u \in Users, bytes \in Sizes : ReadPolicy(s, u, bytes)

Spec == Init /\ [][Next]_vars

\* Threads that are ready run.  Time need not pass.
Fairness ==
    /\ WF_vars(WakeLimiters)
    /\ \A s \in Streams :
        /\ WF_vars(CancelReservation(s))
        /\ WF_vars(call[s].at = "wait" /\ notified[call[s].user] # call[s].notify /\ GiveUp(s))

FairSpec == Spec /\ Fairness
----------------------------------------------------------------------------
\* The ticks an interval takes; none, if the payload is negligible at its rate.
Ticks(g) == g.start..(g.end - 1)
Overlap(g, h) == g.user = h.user /\ Ticks(g) \cap Ticks(h) # {}

\* All streams of a user share one rate: until a rate changes, the intervals of
\* the payloads that were let through do not overlap, however reservations are
\* made and given up.
RateShared == changed = {} => \A g, h \in granted : Overlap(g, h) => g = h

\* A reservation that waits when its user's rate is replaced stops waiting before
\* any time has to pass, to be made again at the new rate.
RateChangeWakes ==
    \A s \in Streams :
        (resetting /\ call[s].at = "wait" /\ call[s].rate # rate[call[s].user])
            ~> (call[s].at # "wait")
=============================================================================
