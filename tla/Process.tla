------------------------------ MODULE Process ------------------------------
(***************************************************************************)
(* The life of the gateway process: Startup until the select of            *)
(* runGatewayContext decides to stop, then Shutdown.  A process that fails *)
(* to start, or that systemd kills, has no shutdown.                       *)
(*                                                                         *)
(* Shutdown depends on the document only through its services, so it is    *)
(* followed for the documents of Stoppable, which have those of Inbounds.  *)
(***************************************************************************)
EXTENDS Startup

CONSTANTS
  Stoppable,                           \* documents whose shutdown is followed
  Inbounds, Waiting, NonCooperative,   \* as in Shutdown; Waiting is its Trojan
  WorkerBudget, TotalBudget, MaxNow

VARIABLES pc, now, closing, told, busy, running, periodic, final, flush, database

stopVars == <<pc, now, closing, told, busy, running, periodic, final, flush, database>>

Stop == INSTANCE Shutdown WITH Trojan <- Waiting, next <- closing, store <- database

ASSUME ProcessAssumption == Stop!ShutdownAssumption

\* The select returned, and what follows it runs.
Stopping == config \in Stoppable /\ step = "serving" /\ exit \in {"signal", "error"}

\* Only connections of a served document keep handlers busy.
ProcessInit == Init /\ Stop!Init /\ (config \notin Stoppable => busy = {})

ProcessNext ==
  \/ Next /\ UNCHANGED stopVars
  \/ Stopping /\ Stop!Next /\ UNCHANGED vars

ProcessSpec ==
  /\ ProcessInit /\ [][ProcessNext]_<<vars, stopVars>>
  /\ Fairness /\ Stop!Fairness
----------------------------------------------------------------------------
(* The shutdown keeps its budgets: a Hysteria2 service that does not stop,  *)
(* and that only Manager.Wait waits for, does not eat into the time of the  *)
(* final flush; the gateway has stopped when the whole budget is over, and  *)
(* before that the database is not closed under a worker that uses it.      *)
BudgetsKept ==
  Stop!FinalizationReserved /\ Stop!ShutdownWithinBudget /\ Stop!StoreOutlivesWorkers

(* A process that can no longer do its work ends, so that systemd starts    *)
(* another: one whose database fails for good, one of whose serve loops     *)
(* ended, and one whose shutdown has begun.                                 *)
ProcessEnds == SickIsEnded /\ EndedLoopEndsProcess /\ Stop!ShutdownEnds
=============================================================================
