--------------------------- MODULE TrafficLogger ---------------------------
(***************************************************************************)
(* The usage ledger of the gateway: internal/traffic/logger.go together    *)
(* with the transaction of internal/storage/sqlite.go it flushes into.     *)
(*                                                                         *)
(* Streams (relay goroutines of any protocol) call LogTrafficContext for   *)
(* every payload.  A call passes the download limiter, makes sure that     *)
(* the cached usage of the current calendar month is loaded, and charges   *)
(* the payload under usageMu.  Flushers detach the pending records and     *)
(* write them to SQLite.  Both the flush and the load of a month hold      *)
(* flushMu; a step of the model is one critical section of usageMu, one    *)
(* database operation, or one read of the shared state between two.        *)
(*                                                                         *)
(* Bytes are kept per cell <<id, month>>, id = <<user, node>>: a counter   *)
(* that the code keeps per id (stats, deltas, traffic_summary) or per user *)
(* (monthlyUsage) is split over its cells or ids, and the code's number is *)
(* the sum of the parts.  tx and rx are added up: only rx > 0 (a download, *)
(* which the limiter paces) is told apart.  A limited download waits for   *)
(* an arbitrary time.                                                      *)
(***************************************************************************)
EXTENDS Integers, FiniteSets, Functions

CONSTANTS
    Users, Nodes,   \* the startup snapshot authorizes every node to every user
    Streams,        \* concurrent callers of LogTrafficContext
    Payloads,       \* payload sizes
    Policies,       \* the policy records a refresh may publish for a user
    MaxMonth,       \* months the wall clock may reach
    MaxCalls,       \* bound: calls of LogTrafficContext
    MaxUpdates,     \* bound: policy refreshes
    MaxRestarts     \* bound: process exits

Policy == [active: BOOLEAN, rate: Nat, maxBytes: Nat]

ASSUME ConstantsAssumption ==
    /\ Users # {} /\ Nodes # {} /\ IsFiniteSet(Nodes)
    /\ Payloads \subseteq Nat \ {0}
    /\ Policies \subseteq Policy
    /\ MaxMonth \in Nat \ {0}
    /\ MaxCalls \in Nat
    /\ MaxUpdates \in Nat
    /\ MaxRestarts \in Nat

Months == 1..MaxMonth
NoMonth == 0                       \* monthKey before the first load
Id == Users \X Nodes
Cells == Id \X Months
Flushers == {"periodic", "range", "final"}
Free == "free"

ASSUME NamesAssumption == Streams \cap (Flushers \cup {Free}) = {}

VARIABLES
    now,            \* month of the wall clock
    db,             \* traffic_logs (traffic_summary is its sum per id)
    monthKey,       \* month the cached usage belongs to
    monthlyUsage,   \* cached usage of that month, split by id
    pending,        \* records not yet handed to a flush
    delta,          \* TxDelta + RxDelta, split by month
    stats,          \* TxBytes + RxBytes, split by month
    statsLoaded,    \* the constructor could read traffic_summary
    flushMu,        \* holder of the flush mutex
    batch,          \* records detached by the flush that holds flushMu
    baseline,       \* totals read by the stream that holds flushMu
    stopping,       \* admission is stopped
    stopPc,         \* progress of the shutdown through StopContext
    flushDone,      \* the periodic flush goroutine has returned
    pc, call,       \* per stream: next step and arguments of the call
    notified,       \* per stream: the notify channel it waits on is closed
    policy,         \* user policy published by the Authenticator
    refresh,        \* a published policy whose reservations are to be woken
    calls, updates, restarts,      \* how much of each bound is used
    charged, lost, forwarded       \* history: bytes charged by LogTraffic,
                                   \* gone with a process, and admitted

ledger == <<db, monthKey, monthlyUsage, pending, delta, stats, statsLoaded,
            flushMu, batch, baseline>>
stopVars == <<stopping, stopPc, flushDone>>
streamVars == <<pc, call, notified>>
policyVars == <<policy, refresh>>
bounds == <<calls, updates, restarts>>
history == <<charged, lost, forwarded>>
vars == <<now, ledger, stopVars, streamVars, policyVars, bounds, history>>

Pcs == {"idle", "limit", "reserve", "wait", "admit", "ensure", "lock",
        "load", "install", "commit"}
Calls == [id: Id, bytes: Nat, maxBytes: Nat, month: 0..MaxMonth]
NoCall == [id |-> CHOOSE id \in Id : TRUE, bytes |-> 0, maxBytes |-> 0,
           month |-> NoMonth]

Zero == [c \in Cells |-> 0]
ZeroId == [id \in Id |-> 0]
Plus(f, g) == [c \in Cells |-> f[c] + g[c]]
Minus(f, g) == [c \in Cells |-> f[c] - g[c]]
UserOf(id) == id[1]

\* SELECT SUM(...) of one month, grouped by id
MonthTotals(m) == [id \in Id |-> db[<<id, m>>]]
MonthlyTotal(usage, u) ==
    SumFunctionOnSet(usage, {id \in Id : UserOf(id) = u})
----------------------------------------------------------------------------
Goto(s, label) == pc' = [pc EXCEPT ![s] = label]
\* LogTrafficContext returns.  What it returned is not kept: false makes the
\* caller close its session, true is the forwarded history.
Return(s) == Goto(s, "idle") /\ call' = [call EXCEPT ![s] = NoCall]

\* LogTrafficContext is entered: early returns, and the one policy read of
\* the call, whose maxBytes is what the quota check will use.
LogTraffic(s, id, bytes, rx) ==
    /\ pc[s] = "idle"
    /\ calls < MaxCalls
    /\ calls' = calls + 1
    /\ LET user == policy[UserOf(id)] IN
       \/ /\ stopping \/ ~user.active
          /\ UNCHANGED <<pc, call>>
       \/ /\ ~stopping /\ user.active
          /\ call' = [call EXCEPT ![s] = [id |-> id, bytes |-> bytes,
                          maxBytes |-> user.maxBytes, month |-> NoMonth]]
          /\ Goto(s, IF rx THEN "limit" ELSE "admit")
    /\ UNCHANGED <<now, ledger, stopVars, notified, policyVars, updates,
                   restarts, history>>

\* A turn of limitDownloadContext: the policy is read again ...
LimitDownload(s) ==
    /\ pc[s] = "limit"
    /\ LET user == policy[UserOf(call[s].id)] IN
       \/ ~user.active /\ Return(s)
       \/ /\ user.active
          /\ Goto(s, IF user.rate = 0 THEN "admit" ELSE "reserve")
          /\ UNCHANGED call
    /\ UNCHANGED <<now, ledger, stopVars, notified, policyVars, bounds,
                   history>>

\* ... and a slot reserved at the rate just read; a slot that starts at once
\* needs no wait.
Reserve(s) ==
    /\ pc[s] = "reserve"
    /\ Goto(s, "admit") \/ Goto(s, "wait")
    /\ UNCHANGED <<now, ledger, stopVars, call, notified, policyVars, bounds,
                   history>>

TimerFires(s) ==
    /\ pc[s] = "wait"
    /\ Goto(s, "admit")
    /\ notified' = [notified EXCEPT ![s] = FALSE]
    /\ UNCHANGED <<now, ledger, stopVars, call, policyVars, bounds, history>>

WakeUp(s) ==
    /\ pc[s] = "wait" /\ notified[s]
    /\ Goto(s, "limit")
    /\ notified' = [notified EXCEPT ![s] = FALSE]
    /\ UNCHANGED <<now, ledger, stopVars, call, policyVars, bounds, history>>

\* The check behind the limiter, and the clock reading of the call.
Admit(s) ==
    /\ pc[s] = "admit"
    /\ \/ stopping /\ Return(s)
       \/ /\ ~stopping
          /\ call' = [call EXCEPT ![s].month = now]
          /\ Goto(s, "ensure")
    /\ UNCHANGED <<now, ledger, stopVars, notified, policyVars, bounds,
                   history>>

\* ensureMonthlyUsage: the check without flushMu.
EnsureMonthlyUsage(s) ==
    /\ pc[s] = "ensure"
    /\ Goto(s, IF monthKey = call[s].month THEN "commit" ELSE "lock")
    /\ UNCHANGED <<now, ledger, stopVars, call, notified, policyVars, bounds,
                   history>>

\* ensureMonthlyUsage: flushMu is taken and the month checked again.
LockForLoad(s) ==
    /\ pc[s] = "lock"
    /\ flushMu = Free
    /\ \/ monthKey = call[s].month /\ Goto(s, "commit") /\ UNCHANGED flushMu
       \/ monthKey # call[s].month /\ Goto(s, "load") /\ flushMu' = s
    /\ UNCHANGED <<now, db, monthKey, monthlyUsage, pending, delta, stats,
                   statsLoaded, batch, baseline, stopVars, call, notified,
                   policyVars, bounds, history>>

\* ensureMonthlyUsage: the totals of the month are read from SQLite ...
LoadMonth(s) ==
    /\ pc[s] = "load"
    /\ baseline' = MonthTotals(call[s].month)
    /\ Goto(s, "install")
    /\ UNCHANGED <<now, db, monthKey, monthlyUsage, pending, delta, stats,
                   statsLoaded, flushMu, batch, stopVars, call, notified,
                   policyVars, bounds, history>>

\* Mutant: the error return leaves flushMu locked.
LoadFailsLocked(s) ==
    /\ pc[s] = "load"
    /\ Return(s)
    /\ UNCHANGED <<now, ledger, stopVars, notified, policyVars, bounds, history>>

\* ... or the query fails, which refuses the payload ...
LoadFails(s) ==
    /\ pc[s] = "load"
    /\ flushMu' = Free
    /\ Return(s)
    /\ UNCHANGED <<now, db, monthKey, monthlyUsage, pending, delta, stats,
                   statsLoaded, batch, baseline, stopVars, notified,
                   policyVars, bounds, history>>

LoadedUsageNoPending(m) == baseline          \* mutant: forgets the pending

LoadedUsage(m) == [id \in Id |-> baseline[id] + pending[<<id, m>>]]

\* ... and installed together with what is pending for that month.
InstallMonth(s) ==
    /\ pc[s] = "install"
    /\ monthKey' = call[s].month
    /\ monthlyUsage' = LoadedUsage(call[s].month)
    /\ baseline' = ZeroId
    /\ flushMu' = Free
    /\ Goto(s, "commit")
    /\ UNCHANGED <<now, db, pending, delta, stats, statsLoaded, batch,
                   stopVars, call, notified, policyVars, bounds, history>>

\* Mutant: off by one.
OverQuotaLate(usage, u, maxBytes) ==
    maxBytes > 0 /\ MonthlyTotal(usage, u) > maxBytes + 1

OverQuota(usage, u, maxBytes) ==
    maxBytes > 0 /\ MonthlyTotal(usage, u) > maxBytes

\* The critical section that charges the payload.  The quota decides only
\* whether the caller may forward it: the payload stays charged.
Commit(s) ==
    /\ pc[s] = "commit"
    /\ LET id == call[s].id
           bytes == call[s].bytes
           cell == <<id, call[s].month>>
           usage == [monthlyUsage EXCEPT ![id] = @ + bytes]
           overQuota == OverQuota(usage, UserOf(id), call[s].maxBytes)
       IN \/ /\ stopping \/ monthKey # call[s].month
             /\ UNCHANGED <<ledger, history>>
          \/ /\ ~stopping /\ monthKey = call[s].month
             /\ monthlyUsage' = usage
             /\ pending' = [pending EXCEPT ![cell] = @ + bytes]
             /\ delta' = [delta EXCEPT ![cell] = @ + bytes]
             /\ stats' = [stats EXCEPT ![cell] = @ + bytes]
             /\ charged' = [charged EXCEPT ![cell] = @ + bytes]
             /\ forwarded' = [forwarded EXCEPT
                                 ![cell] = IF overQuota THEN @ ELSE @ + bytes]
             /\ UNCHANGED <<db, monthKey, statsLoaded, flushMu, batch,
                            baseline, lost>>
    /\ Return(s)
    /\ UNCHANGED <<now, stopVars, notified, policyVars, bounds>>

\* The caller's context is cancelled where the call looks at it: in the
\* limiter's select and at the two checks (the query's case is LoadFails).
ContextDone(s) ==
    /\ pc[s] \in {"wait", "admit", "commit"}
    /\ Return(s)
    /\ notified' = [notified EXCEPT ![s] = FALSE]
    /\ UNCHANGED <<now, ledger, stopVars, policyVars, bounds, history>>
----------------------------------------------------------------------------
\* The flushers: the periodic goroutine, the dashboard's range query, and
\* the last flush of StopContext.
MayFlush(f) ==
    CASE f = "periodic" -> ~flushDone
      [] f = "range"    -> TRUE
      [] f = "final"    -> stopPc = "flush"

FlushReturns(f, outcome) ==
    stopPc' = IF f = "final" THEN outcome ELSE stopPc

DeltaLeft == Minus(delta, pending)

\* FlushContext takes flushMu and detaches what is pending; with nothing
\* pending it returns at once.
FlushDetach(f) ==
    /\ MayFlush(f)
    /\ flushMu = Free
    /\ \/ /\ pending = Zero
          /\ FlushReturns(f, "done")
          /\ UNCHANGED <<pending, batch, delta, flushMu>>
       \/ /\ pending # Zero
          /\ flushMu' = f
          /\ batch' = pending
          /\ pending' = Zero
          /\ delta' = DeltaLeft
          /\ UNCHANGED stopPc
    /\ UNCHANGED <<now, db, monthKey, monthlyUsage, stats, statsLoaded,
                   baseline, stopping, flushDone, streamVars, policyVars,
                   bounds, history>>

\* FlushTrafficContext commits: log rows and summary in one transaction.
FlushCommit(f) ==
    /\ flushMu = f
    /\ db' = Plus(db, batch)
    /\ batch' = Zero
    /\ flushMu' = Free
    /\ FlushReturns(f, "done")
    /\ UNCHANGED <<now, monthKey, monthlyUsage, pending, delta, stats,
                   statsLoaded, baseline, stopping, flushDone, streamVars,
                   policyVars, bounds, history>>

\* Mutants: the batch replaces what became pending meanwhile, or is dropped.
PendingReplaced == [c \in Cells |-> IF batch[c] > 0 THEN batch[c] ELSE pending[c]]
PendingOnly == pending
PendingRestored == Plus(pending, batch)
DeltaRestored == Plus(delta, batch)

\* The transaction fails: the batch joins what became pending meanwhile.
FlushFails(f) ==
    /\ flushMu = f
    /\ pending' = PendingRestored
    /\ delta' = DeltaRestored
    /\ batch' = Zero
    /\ flushMu' = Free
    /\ FlushReturns(f, "failed")
    /\ UNCHANGED <<now, db, monthKey, monthlyUsage, stats, statsLoaded,
                   baseline, stopping, flushDone, streamVars, policyVars,
                   bounds, history>>

StopChClosed == stopPc \notin {"running", "draining"}

\* The periodic goroutine sees stopCh closed, between two flushes.
PeriodicReturns ==
    /\ ~flushDone
    /\ StopChClosed
    /\ flushMu # "periodic"
    /\ flushDone' = TRUE
    /\ UNCHANGED <<now, ledger, stopping, stopPc, streamVars, policyVars,
                   bounds, history>>
----------------------------------------------------------------------------
WakeLimiters == notified' = [s \in Streams |-> notified[s] \/ pc[s] = "wait"]

StopAdmission ==
    /\ stopPc = "running"
    /\ stopPc' = "draining"
    /\ stopping' = TRUE
    /\ WakeLimiters
    /\ UNCHANGED <<now, ledger, flushDone, pc, call, policyVars, bounds,
                   history>>

\* StopContext up to its wait for the periodic goroutine.
StopContext ==
    /\ stopPc = "draining"
    /\ stopPc' = "waiting"
    /\ WakeLimiters
    /\ UNCHANGED <<now, ledger, stopping, flushDone, pc, call, policyVars,
                   bounds, history>>

\* Mutant: StopContext returns without its own flush.
PeriodicJoinedNoFlush ==
    /\ stopPc = "waiting" /\ flushDone
    /\ stopPc' = "done"
    /\ UNCHANGED <<now, ledger, stopping, flushDone, streamVars, policyVars,
                   bounds, history>>

PeriodicJoined ==
    /\ stopPc = "waiting" /\ flushDone
    /\ stopPc' = "flush"
    /\ UNCHANGED <<now, ledger, stopping, flushDone, streamVars, policyVars,
                   bounds, history>>

\* The shutdown deadline passes first: StopContext gives up, unflushed.
StopTimesOut ==
    /\ stopPc = "waiting"
    /\ stopPc' = "failed"
    /\ UNCHANGED <<now, ledger, stopping, flushDone, streamVars, policyVars,
                   bounds, history>>

\* Kernel.UpdateUsers publishes a snapshot ...
PublishUsers(new) ==
    /\ refresh = "idle" /\ updates < MaxUpdates
    /\ updates' = updates + 1
    /\ policy' = new
    /\ refresh' = IF \E u \in Users : new[u].rate # policy[u].rate
                  THEN "notify" ELSE "idle"
    /\ UNCHANGED <<now, ledger, stopVars, streamVars, calls, restarts,
                   history>>

\* ... and then wakes the limiters if some rate changed.
NotifyUsersUpdated ==
    /\ refresh = "notify"
    /\ refresh' = "idle"
    /\ WakeLimiters
    /\ UNCHANGED <<now, ledger, stopVars, pc, call, policy, bounds, history>>

Tick ==
    /\ now < MaxMonth
    /\ now' = now + 1
    /\ UNCHANGED <<ledger, stopVars, streamVars, policyVars, bounds, history>>

\* State of a freshly constructed logger; either of its two database reads
\* may fail, which the constructor tolerates.
NewTrafficLogger ==
    \E monthOk, summaryOk \in BOOLEAN :
        /\ monthKey' = IF monthOk THEN now ELSE NoMonth
        /\ monthlyUsage' = IF monthOk THEN MonthTotals(now) ELSE ZeroId
        /\ stats' = IF summaryOk THEN db ELSE Zero
        /\ statsLoaded' = summaryOk

\* The process exits, cleanly or not, and systemd starts it again.
Restart ==
    /\ restarts < MaxRestarts
    /\ restarts' = restarts + 1
    /\ NewTrafficLogger
    /\ lost' = Plus(lost, Plus(batch, pending))
    /\ pending' = Zero /\ batch' = Zero
    /\ delta' = Zero /\ baseline' = ZeroId
    /\ flushMu' = Free
    /\ stopping' = FALSE /\ stopPc' = "running" /\ flushDone' = FALSE
    /\ pc' = [s \in Streams |-> "idle"]
    /\ call' = [s \in Streams |-> NoCall]
    /\ notified' = [s \in Streams |-> FALSE]
    /\ refresh' = "idle"
    /\ UNCHANGED <<now, db, policy, calls, updates, charged, forwarded>>
----------------------------------------------------------------------------
Init ==
    /\ now = 1
    /\ db = Zero /\ pending = Zero /\ batch = Zero
    /\ delta = Zero /\ stats = Zero /\ statsLoaded = TRUE
    /\ monthKey \in {NoMonth, 1}
    /\ monthlyUsage = ZeroId /\ baseline = ZeroId
    /\ flushMu = Free
    /\ stopping = FALSE /\ stopPc = "running" /\ flushDone = FALSE
    /\ pc = [s \in Streams |-> "idle"]
    /\ call = [s \in Streams |-> NoCall]
    /\ notified = [s \in Streams |-> FALSE]
    /\ policy \in [Users -> Policies]
    /\ refresh = "idle"
    /\ calls = 0 /\ updates = 0 /\ restarts = 0
    /\ charged = Zero /\ lost = Zero /\ forwarded = Zero

StreamStep(s) ==
    \/ \E id \in Id, bytes \in Payloads, rx \in BOOLEAN :
          LogTraffic(s, id, bytes, rx)
    \/ LimitDownload(s) \/ Reserve(s) \/ TimerFires(s) \/ WakeUp(s) \/ Admit(s)
    \/ EnsureMonthlyUsage(s) \/ LockForLoad(s) \/ LoadMonth(s)
    \/ LoadFails(s) \/ InstallMonth(s) \/ Commit(s) \/ ContextDone(s)

FlusherStep(f) == FlushDetach(f) \/ FlushCommit(f) \/ FlushFails(f)

Next ==
    \/ \E s \in Streams : StreamStep(s)
    \/ \E f \in Flushers : FlusherStep(f)
    \/ PeriodicReturns
    \/ StopAdmission \/ StopContext \/ PeriodicJoined \/ StopTimesOut
    \/ \E new \in [Users -> Policies] : PublishUsers(new)
    \/ NotifyUsersUpdated
    \/ Tick
    \/ Restart

Spec == Init /\ [][Next]_vars

\* What the Go scheduler, timers and the store give: a goroutine that can run
\* runs, a timer fires, a query returns; a waiter for flushMu is served (Go's
\* mutexes hand over to a starved waiter); the periodic flush keeps being
\* attempted, and a database that is tried again and again accepts in the end.
Fairness ==
    /\ \A s \in Streams :
          /\ WF_vars(\/ LimitDownload(s) \/ Reserve(s) \/ TimerFires(s)
                     \/ Admit(s) \/ EnsureMonthlyUsage(s)
                     \/ LoadMonth(s) \/ LoadFails(s)
                     \/ InstallMonth(s) \/ Commit(s))
          /\ SF_vars(LockForLoad(s))
    /\ \A f \in Flushers :
          /\ WF_vars(FlushCommit(f) \/ FlushFails(f))
          /\ SF_vars(FlushCommit(f))
    /\ SF_vars(FlushDetach("periodic"))
    /\ SF_vars(FlushDetach("final"))
    /\ WF_vars(PeriodicReturns)
    /\ WF_vars(PeriodicJoined)
    /\ WF_vars(StopContext)

FairSpec == Spec /\ Fairness
----------------------------------------------------------------------------
Holders == {Free} \cup Streams \cup Flushers

TypeOK ==
    /\ now \in Months
    /\ monthKey \in 0..MaxMonth
    /\ db \in [Cells -> Nat] /\ pending \in [Cells -> Nat]
    /\ batch \in [Cells -> Nat] /\ delta \in [Cells -> Nat]
    /\ stats \in [Cells -> Nat] /\ charged \in [Cells -> Nat]
    /\ lost \in [Cells -> Nat] /\ forwarded \in [Cells -> Nat]
    /\ monthlyUsage \in [Id -> Nat] /\ baseline \in [Id -> Nat]
    /\ flushMu \in Holders
    /\ statsLoaded \in BOOLEAN
    /\ stopping \in BOOLEAN /\ flushDone \in BOOLEAN
    /\ stopPc \in {"running", "draining", "waiting", "flush", "done", "failed"}
    /\ pc \in [Streams -> Pcs]
    /\ call \in [Streams -> Calls]
    /\ notified \in [Streams -> BOOLEAN]
    /\ policy \in [Users -> Policies]
    /\ refresh \in {"idle", "notify"}
    /\ calls \in 0..MaxCalls
    /\ updates \in 0..MaxUpdates
    /\ restarts \in 0..MaxRestarts

\* What the quota is checked against: once a month is loaded, the cached usage
\* is exactly what is persisted, being written and pending for that month.  No
\* interleaving of a load with flushes, failed flushes, charges and rollovers
\* counts a record twice or forgets one.
CachedUsageExact ==
    monthKey # NoMonth =>
        \A id \in Id :
            LET c == <<id, monthKey>>
            IN  monthlyUsage[id] = db[c] + batch[c] + pending[c]

\* Every charged byte is in exactly one place: persisted, in the batch of the
\* flush under way, pending, or gone with an earlier process.  A flush that
\* fails neither drops nor duplicates what it detached.
BytesConserved ==
    \A c \in Cells : charged[c] = db[c] + batch[c] + pending[c] + lost[c]

\* The counters beside the ledger follow it: a delta is what is pending (the
\* unsigned subtraction of a flush never wraps), and the totals shown on the
\* dashboard are the persisted ones plus what this process still holds.
CountersFollowLedger ==
    \A c \in Cells :
        /\ delta[c] = pending[c]
        /\ statsLoaded => stats[c] = db[c] + batch[c] + pending[c]

\* StopContext returning nil means that every charged byte is persisted, and
\* that no stream still running charges another one.
CleanStopPersistsAll ==
    stopPc = "done" => pending = Zero /\ batch = Zero

\* The bytes of a user in a month, over all nodes.
MonthOf(f, u, m) ==
    SumFunctionOnSet(f, {c \in Cells : UserOf(c[1]) = u /\ c[2] = m})

\* A month's traffic of a user, over all nodes, streams and restarts, is
\* forwarded only up to the quota plus what earlier processes lost.
ForwardedWithinQuota ==
    (\A p \in Policies : p.maxBytes > 0) =>
        \A u \in Users, m \in Months :
            \E p \in Policies :
                MonthOf(forwarded, u, m) <= p.maxBytes + MonthOf(lost, u, m)

Ledger == INSTANCE TrafficLedger WITH persisted <- db,
                                      closed <- (stopPc = "done")

\* The logger implements the book of module TrafficLedger: every step charges
\* one payload, persists a portion of what is open, loses exactly what was not
\* persisted with a restart, or changes nothing there; after a clean stop all
\* is persisted and nothing is charged.
ImplementsLedger == Ledger!Spec

\* The strengthening with which the properties above are inductive: who holds
\* flushMu is at the matching step, only a flush owns a batch, what a load has
\* read stays current until it is installed, a call has a payload and, once
\* it has read the clock, a month, and the last flush runs with admission stopped.
MutexInv ==
    /\ \A s \in Streams :
          /\ pc[s] \in {"load", "install"} <=> flushMu = s
          /\ pc[s] \in {"ensure", "lock", "load", "install", "commit"}
                => call[s].month \in Months
          /\ pc[s] # "idle" => call[s].bytes \in Payloads
          /\ pc[s] = "install" => baseline = MonthTotals(call[s].month)
    /\ flushMu \notin Flushers => batch = Zero
    /\ stopPc # "running" => stopping
    /\ flushMu = "final" => stopPc = "flush" /\ pending = Zero

\* All of the above together: what every step of the logger, of any goroutine,
\* preserves from any state in which it holds.
IndInv ==
    /\ TypeOK
    /\ MutexInv
    /\ CachedUsageExact
    /\ BytesConserved
    /\ CountersFollowLedger
    /\ CleanStopPersistsAll

\* Every call of LogTrafficContext returns, whatever flushes, loads, policy
\* refreshes and the shutdown do meanwhile, and so does StopContext.
CallsReturn ==
    /\ \A s \in Streams : (pc[s] # "idle") ~> (pc[s] = "idle")
    /\ (stopPc = "waiting") ~> (stopPc \in {"done", "failed", "running"})

\* A charged byte is persisted in the end, unless its process goes down first
\* or its shutdown flush fails.
ChargedIsPersisted ==
    \A c \in Cells, k \in 1..MaxCalls :
        (charged[c] >= k)
            ~> (db[c] + lost[c] >= k \/ stopPc = "failed")
=============================================================================
