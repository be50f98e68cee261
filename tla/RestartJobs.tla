---------------------------- MODULE RestartJobs ----------------------------
(***************************************************************************)
(* Restart jobs and process records: ScheduleRestart, the scheduler of     *)
(* cmd/gateway that claims a due job and asks systemd for a restart, the   *)
(* record a process makes when it starts (StartProcessRun) and the one     *)
(* systemd makes when it ended (record-exit), with process failures        *)
(* between any two steps.                                                  *)
(*                                                                         *)
(* Claims are ordered by their number: the scheduler's ticker keeps two of *)
(* them further apart than the second in which executed_at is measured.    *)
(***************************************************************************)
EXTENDS Integers, Sequences, FiniteSets, FiniteSetsExt

CONSTANTS
    Window,     \* how long ago a job may have been claimed to explain a start
    MaxJobs, MaxNow, MaxExits, MaxErrors  \* bounds

ASSUME RestartAssumption == {Window, MaxJobs, MaxNow, MaxExits, MaxErrors} \subseteq Nat

VARIABLES
    jobs,      \* restart_jobs, by id
    runs,      \* process_runs, by id
    proc,      \* the process: its number, place and why systemd started it
    scheduler, \* place and job of the scheduler goroutine
    queued,    \* job whose restart systemd has accepted, 0 if none
    now,
    requested, \* history: RestartUnit calls per job
    exits, errors

vars == <<jobs, runs, proc, scheduler, queued, now, requested, exits, errors>>

Waiting == [at |-> "wait", job |-> 0]
Open == "open"

Fails == errors < MaxErrors /\ errors' = errors + 1
----------------------------------------------------------------------------
\* restartAction: "immediate" jobs are due at once, others at a chosen time.
ScheduleRestart(runAt) ==
    /\ proc.at \in {"booting", "up"} /\ Len(jobs) < MaxJobs
    /\ jobs' = Append(jobs, [runAt |-> runAt, status |-> "pending", executedAt |-> 0,
                             claim |-> 0, run |-> 0])
    /\ requested' = Append(requested, 0)
    /\ UNCHANGED <<runs, proc, scheduler, queued, now, exits, errors>>

Due(j) == jobs[j].status = "pending" /\ jobs[j].runAt <= now

Earlier(i, j) == jobs[i].runAt < jobs[j].runAt \/ (jobs[i].runAt = jobs[j].runAt /\ i < j)

ClaimDueRestart ==
    /\ proc.at = "up" /\ scheduler = Waiting
    /\ \E j \in DOMAIN jobs :
        /\ Due(j)
        /\ \A i \in DOMAIN jobs \ {j} : Due(i) => Earlier(j, i)
        /\ jobs' = [jobs EXCEPT ![j].status = "running", ![j].executedAt = now,
                       ![j].claim = Max({jobs[i].claim : i \in DOMAIN jobs}) + 1]
        /\ scheduler' = [at |-> "claimed", job |-> j]
    /\ UNCHANGED <<runs, proc, queued, now, requested, exits, errors>>

\* The call may fail before or after systemd accepted it.
RestartUnit ==
    /\ proc.at = "up" /\ scheduler.at = "claimed"
    /\ requested' = [requested EXCEPT ![scheduler.job] = @ + 1]
    /\ \/ /\ scheduler' = [scheduler EXCEPT !.at = "accepted"]
          /\ queued' = scheduler.job
          /\ UNCHANGED errors
       \/ /\ scheduler' = [scheduler EXCEPT !.at = "refused"]
          /\ queued' \in {queued, scheduler.job}
          /\ Fails
    /\ UNCHANGED <<jobs, runs, proc, now, exits>>

\* Mutant: a refused request is tried again.
OutcomeRetried(success) == IF success THEN "completed" ELSE "pending"

Outcome(success) == IF success THEN "completed" ELSE "failed"

\* After a success the scheduler returns; the result of the update is ignored.
CompleteRestartJob ==
    LET success == scheduler.at = "accepted" IN
    /\ proc.at = "up" /\ scheduler.at \in {"accepted", "refused"}
    /\ \/ /\ jobs' = [jobs EXCEPT ![scheduler.job].status = Outcome(success)]
          /\ UNCHANGED errors
       \/ Fails /\ UNCHANGED jobs
    /\ scheduler' = IF success THEN [scheduler EXCEPT !.at = "returned"] ELSE Waiting
    /\ UNCHANGED <<runs, proc, queued, now, requested, exits>>
----------------------------------------------------------------------------
\* The service manager.

\* Why the next process is started: a restart in its queue, Restart=on-failure,
\* or somebody else.
CauseAfter(result) ==
    IF queued # 0 THEN "job" ELSE IF result = "failure" THEN "failure" ELSE "external"

Ends(result) ==
    /\ proc' = [proc EXCEPT !.at = "stopped", !.result = result,
                   !.next = CauseAfter(result), !.nextJob = queued]
    /\ queued' = 0
    /\ scheduler' = Waiting

\* The restart that systemd accepted stops the process.
Stopped ==
    /\ proc.at = "up" /\ queued # 0
    /\ Ends("success")
    /\ UNCHANGED <<jobs, runs, now, requested, exits, errors>>

\* A stop by hand, a failure of the service, a kill; also before the start was
\* recorded.
Exit(result) ==
    /\ proc.at \in {"booting", "up"} /\ exits < MaxExits
    /\ exits' = exits + 1
    /\ Ends(result)
    /\ UNCHANGED <<jobs, runs, now, requested, errors>>

OpenRuns == {r \in DOMAIN runs : runs[r].result = Open}

\* Mutant: the latest run, open or not.
LatestRun(pid) == {r \in DOMAIN runs : \A q \in DOMAIN runs : q <= r}

\* The run RecordProcessExit updates, as a set: the latest open one of the pid,
\* or the latest open one when there is no such run or no pid.
RecordedRun(pid) ==
    LET own == {r \in OpenRuns : runs[r].pid = pid}
        of == IF pid > 0 /\ own # {} THEN own ELSE OpenRuns
    IN  {r \in of : \A q \in of : q <= r}

\* record-exit; MAINPID is not always exported.
RecordProcessExit ==
    /\ proc.at = "stopped"
    /\ proc' = [proc EXCEPT !.at = "down"]
    /\ \/ /\ \E pid \in {0, proc.number} :
               runs' = [r \in DOMAIN runs |-> IF r \in RecordedRun(pid)
                            THEN [runs[r] EXCEPT !.result = proc.result, !.ended = proc.number]
                            ELSE runs[r]]
          /\ UNCHANGED errors
       \/ Fails /\ UNCHANGED runs
    /\ UNCHANGED <<jobs, scheduler, queued, now, requested, exits>>

Boot ==
    /\ proc.at = "down"
    /\ proc' = [proc EXCEPT !.at = "booting", !.number = @ + 1,
                   !.cause = proc.next, !.job = proc.nextJob]
    /\ UNCHANGED <<jobs, runs, scheduler, queued, now, requested, exits, errors>>
----------------------------------------------------------------------------
\* Mutant: only jobs whose request was recorded as accepted.
LinkCompletedOnly ==
    {j \in DOMAIN jobs : jobs[j].status = "completed" /\ jobs[j].run = 0
                            /\ jobs[j].executedAt + Window >= now}

Linkable ==
    {j \in DOMAIN jobs : jobs[j].status \in {"completed", "running"} /\ jobs[j].run = 0
                            /\ jobs[j].executedAt + Window >= now}

Linked == {j \in Linkable : \A i \in Linkable : jobs[i].claim <= jobs[j].claim}

PreviousResult ==
    LET ended == DOMAIN runs \ OpenRuns IN
    IF ended = {} THEN "none" ELSE runs[Max(ended)].result

\* The trigger a process is started with (HY2_RESTART_TRIGGER) is empty: nothing
\* sets it.  Another one would be recorded as it is, and no job be linked.
Trigger ==
    CASE Linked # {} -> "admin"
      [] Linked = {} /\ PreviousResult = "none" -> "initial"
      [] Linked = {} /\ PreviousResult = "failure" -> "recovery"
      [] Linked = {} /\ PreviousResult = "success" -> "external-start"

\* A failure is only logged; the scheduler starts afterwards.
StartProcessRun ==
    /\ proc.at = "booting"
    /\ proc' = [proc EXCEPT !.at = "up"]
    /\ \/ /\ runs' = Append(runs, [pid |-> proc.number, trigger |-> Trigger, result |-> Open,
                                   ended |-> 0, cause |-> proc.cause, job |-> proc.job, at |-> now])
          /\ jobs' = [j \in DOMAIN jobs |-> IF j \in Linked
                          THEN [jobs[j] EXCEPT !.status = "completed", !.run = Len(runs) + 1]
                          ELSE jobs[j]]
          /\ UNCHANGED errors
       \/ Fails /\ UNCHANGED <<runs, jobs>>
    /\ UNCHANGED <<scheduler, queued, now, requested, exits>>

Tick ==
    /\ now < MaxNow
    /\ now' = now + 1
    /\ UNCHANGED <<jobs, runs, proc, scheduler, queued, requested, exits, errors>>
----------------------------------------------------------------------------
Init ==
    /\ jobs = <<>> /\ runs = <<>> /\ requested = <<>>
    /\ proc = [at |-> "down", number |-> 0, result |-> "success", cause |-> "external",
               job |-> 0, next |-> "external", nextJob |-> 0]
    /\ scheduler = Waiting /\ queued = 0
    /\ now = 0 /\ exits = 0 /\ errors = 0

Next ==
    \/ \E runAt \in 0..MaxNow : ScheduleRestart(runAt)
    \/ ClaimDueRestart \/ RestartUnit \/ CompleteRestartJob
    \/ Stopped \/ \E result \in {"success", "failure"} : Exit(result)
    \/ RecordProcessExit \/ Boot \/ StartProcessRun \/ Tick

Spec == Init /\ [][Next]_vars

\* The scheduler's goroutine runs, and systemd carries out what it accepted,
\* runs ExecStopPost and starts the service again.
FairSpec ==
    /\ Spec
    /\ WF_vars(ClaimDueRestart) /\ WF_vars(RestartUnit) /\ WF_vars(CompleteRestartJob)
    /\ WF_vars(Stopped) /\ WF_vars(RecordProcessExit) /\ WF_vars(Boot)
    /\ WF_vars(StartProcessRun)
----------------------------------------------------------------------------
\* No job restarts the service twice, whatever fails between its claim, the
\* request and the record of its outcome (comment of ClaimDueRestart).
ExecutedOnce == \A j \in DOMAIN requested : requested[j] <= 1

\* The first run recorded after a job's accepted restart is linked to that
\* job, if the process came up within the window.  Two failures may hide it: when
\* neither systemd's answer nor the record of its refusal gets through, another
\* job is claimed before the restart takes place.
RestartLinked ==
    errors <= 1 => \A r \in DOMAIN runs :
        LET j == runs[r].job IN
        (runs[r].cause = "job" /\ jobs[j].status # "failed"
            /\ jobs[j].executedAt + Window >= runs[r].at)
        => runs[r].trigger = "admin" /\ jobs[j].run # 0

\* No record has been lost: every statement so far succeeded.
AllRecorded == errors = 0

\* A run that is marked as ended has the result of its own process, although
\* the record may be made without a pid and for a process that never recorded
\* its start: record-exit finds the right run as long as no record was lost.
ExitOfItsProcess ==
    AllRecorded => \A r \in DOMAIN runs : runs[r].ended \in {0, runs[r].pid}

\* The run of an earlier process is not left open: while every record is made,
\* an open one belongs to the process that is up or whose exit is being
\* recorded.
OpenRunIsCurrent ==
    AllRecorded => \A r \in OpenRuns : runs[r].pid = proc.number /\ proc.at \in {"up", "stopped"}

\* The records of runs tell which process did what: an administrator's restart
\* leads to the run it caused, an exit belongs to its own process, and no run of
\* an earlier process stays open.
RunsAreTheirProcesses == RestartLinked /\ ExitOfItsProcess /\ OpenRunIsCurrent

Settled(j) == j \in DOMAIN jobs /\ jobs[j].status \in {"completed", "failed"}

\* The window in which a start explains the claimed job is over.
Lapsed(j) == j \in DOMAIN jobs /\ jobs[j].status = "running" /\ jobs[j].executedAt + Window < now

\* A due job is claimed and its outcome recorded, by the scheduler that claimed
\* it or by the next process, unless that comes up after the window or a record
\* is lost.
JobSettles ==
    \A j \in 1..MaxJobs :
        (j \in DOMAIN jobs /\ Due(j)) ~> (Settled(j) \/ Lapsed(j) \/ ~AllRecorded)
=============================================================================
