------------------------------ MODULE Shutdown ------------------------------
(***************************************************************************)
(* The end of the gateway process: run in cmd/gateway/main.go from the     *)
(* signal to its return, with the inbound manager and the Close and Wait   *)
(* of its services.                                                        *)
(*                                                                         *)
(* now counts from the moment the deadlines are set.  Time passes only     *)
(* while everything that can proceed at once has done so; the members of   *)
(* NonCooperative may take any time, or never end.                         *)
(***************************************************************************)
EXTENDS Integers, Sequences, Functions

CONSTANTS
    Inbounds,        \* the services in the order of Manager.services
    Trojan,          \* those whose Close waits for their handlers
    NonCooperative,  \* services and workers that need not stop when told to
    WorkerBudget, TotalBudget,  \* 12s and 15s
    MaxNow           \* bound: the clock stops there

Services == Range(Inbounds)
Workers == {"inbound", "http", "outbound", "background"}

ShutdownAssumption ==
    /\ Trojan \subseteq Services
    /\ NonCooperative \subseteq Services \cup {"outbound", "background"}
    /\ WorkerBudget \in Nat /\ TotalBudget \in Nat /\ MaxNow \in Nat
    /\ WorkerBudget < TotalBudget

VARIABLES
    pc,         \* where run is
    now,
    next,       \* index of the service Manager.Close is at
    told,       \* services whose Close has begun
    busy,       \* services that still have handlers
    running,    \* workers that have not ended
    periodic,   \* the periodic flusher is running
    final,      \* the clock when StopTraffic was called, or -1
    flush,      \* result of the final flush
    store       \* the database is open

vars == <<pc, now, next, told, busy, running, periodic, final, flush, store>>

WorkerCtxDone == now >= WorkerBudget \/ pc \notin {"close", "closing", "workers"}
FinalCtxDone == now >= TotalBudget
----------------------------------------------------------------------------
\* StopAdmission, the stop channels and the deadlines.
Begin ==
    /\ pc = "serving"
    /\ pc' = "close"
    /\ UNCHANGED <<now, next, told, busy, running, periodic, final, flush, store>>

\* Manager.Close: one service after the other.
CloseService ==
    /\ pc = "close" /\ next <= Len(Inbounds)
    /\ told' = told \cup {Inbounds[next]}
    /\ pc' = "closing"
    /\ UNCHANGED <<now, next, busy, running, periodic, final, flush, store>>

\* The Close of a Trojan service waits for its handlers without a deadline.
CloseWaits(s) == s \in Trojan /\ s \in busy

ServiceClosed ==
    /\ pc = "closing" /\ ~CloseWaits(Inbounds[next])
    /\ next' = next + 1
    /\ pc' = "close"
    /\ UNCHANGED <<now, told, busy, running, periodic, final, flush, store>>

StartWorkers ==
    /\ pc = "close" /\ next > Len(Inbounds)
    /\ running' = Workers
    /\ pc' = "workers"
    /\ UNCHANGED <<now, next, told, busy, periodic, final, flush, store>>

HandlersEnd(s) ==
    /\ s \in busy
    /\ busy' = busy \ {s}
    /\ UNCHANGED <<pc, now, next, told, running, periodic, final, flush, store>>

\* Mutant: Manager.Wait ignores its context.
MayEndWithoutCtx(w) == w = "inbound" => busy = {}

\* Manager.Wait has a deadline; Server.Shutdown has one too and may end
\* sooner; the other two end on their own.
MayEnd(w) == w = "inbound" => busy = {} \/ WorkerCtxDone

WorkerEnds(w) ==
    /\ w \in running /\ MayEnd(w)
    /\ running' = running \ {w}
    /\ UNCHANGED <<pc, now, next, told, busy, periodic, final, flush, store>>

WorkersDone == running = {}
WorkerPhaseOver == WorkersDone \/ now >= WorkerBudget

\* The first select, then workerCancel.
EndWorkerPhase ==
    /\ pc = "workers" /\ WorkerPhaseOver
    /\ pc' = "drain"
    /\ UNCHANGED <<now, next, told, busy, running, periodic, final, flush, store>>

Drained == WorkersDone \/ now >= TotalBudget

\* The second select, then StopTraffic, which closes stopCh.
StopTraffic ==
    /\ pc = "drain" /\ Drained
    /\ pc' = "join"
    /\ final' = now
    /\ UNCHANGED <<now, next, told, busy, running, periodic, flush, store>>

PeriodicEnds ==
    /\ periodic /\ final >= 0
    /\ periodic' = FALSE
    /\ UNCHANGED <<pc, now, next, told, busy, running, final, flush, store>>

\* StopContext: the periodic flusher is awaited until the deadline ...
Join ==
    /\ pc = "join"
    /\ \/ ~periodic /\ pc' = "flush" /\ UNCHANGED flush
       \/ FinalCtxDone /\ pc' = "closeStore" /\ flush' = "failed"
    /\ UNCHANGED <<now, next, told, busy, running, periodic, final, store>>

\* ... and the flush fails when the database does or the deadline passes.
FinalFlush ==
    /\ pc = "flush"
    /\ flush' \in IF FinalCtxDone THEN {"failed"} ELSE {"ok", "failed"}
    /\ pc' = "closeStore"
    /\ UNCHANGED <<now, next, told, busy, running, periodic, final, store>>

CloseStore ==
    /\ pc = "closeStore"
    /\ store' = FALSE
    /\ pc' = "stopped"
    /\ UNCHANGED <<now, next, told, busy, running, periodic, final, flush>>

\* What happens without delay: run itself unless it waits, the periodic
\* flusher once stopped, and everything cooperative.  The database is not
\* prompt: a flush may last until its deadline.
Prompt ==
    \/ pc \in {"close", "closeStore"}
    \/ pc = "closing" /\ ~CloseWaits(Inbounds[next])
    \/ pc = "workers" /\ WorkerPhaseOver
    \/ pc = "drain" /\ Drained
    \/ pc = "join" /\ (~periodic \/ FinalCtxDone)
    \/ pc = "flush" /\ FinalCtxDone
    \/ \E s \in told \cap busy : s \notin NonCooperative
    \/ \E w \in running : MayEnd(w) /\ (w = "http" => WorkerCtxDone)
                                    /\ w \notin NonCooperative

Tick ==
    /\ pc \notin {"serving", "stopped"}
    /\ ~Prompt /\ now < MaxNow
    /\ now' = now + 1
    /\ UNCHANGED <<pc, next, told, busy, running, periodic, final, flush, store>>

Init ==
    /\ pc = "serving" /\ now = 0 /\ next = 1 /\ told = {}
    /\ busy \in SUBSET Services
    /\ running = {} /\ periodic = TRUE
    /\ final = -1 /\ flush = "none" /\ store = TRUE

MainStep ==
    \/ CloseService \/ ServiceClosed \/ StartWorkers \/ EndWorkerPhase
    \/ StopTraffic \/ Join \/ FinalFlush \/ CloseStore

Next ==
    \/ Begin \/ MainStep \/ PeriodicEnds \/ Tick
    \/ \E s \in Services : HandlersEnd(s)
    \/ \E w \in Workers : WorkerEnds(w)

Spec == Init /\ [][Next]_vars

\* Time passes, run is scheduled, and what is cooperative ends.
Fairness ==
    /\ WF_vars(MainStep) /\ WF_vars(Tick) /\ WF_vars(PeriodicEnds)
    /\ \A s \in Services \ NonCooperative : WF_vars(s \in told /\ HandlersEnd(s))
    /\ \A w \in Workers \ NonCooperative : WF_vars(WorkerEnds(w))

FairSpec == Spec /\ Fairness
----------------------------------------------------------------------------
\* The final flush starts with the time between the two budgets still ahead
\* of it: the worker phase does not eat into the finalization window.
FinalizationReserved == final <= WorkerBudget

\* The gateway has stopped when its budget is over.
ShutdownWithinBudget == pc \notin {"serving", "stopped"} => now <= TotalBudget

\* The database is closed under a worker (a scheduler, a policy refresh, an
\* admin request) only when the whole budget is spent.
StoreOutlivesWorkers == ~store => running = {} \/ now >= TotalBudget

\* A shutdown that has begun ends.
ShutdownEnds == (pc = "close") ~> (pc = "stopped")
=============================================================================
