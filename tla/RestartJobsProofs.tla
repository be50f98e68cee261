------------------------- MODULE RestartJobsProofs -------------------------
(***************************************************************************)
(* Proofs about RestartJobs for every window and every number of jobs,     *)
(* process ends and failed statements.                                     *)
(*                                                                         *)
(* JobInv follows a job from its claim to its request; LinkInv follows the *)
(* job whose restart systemd has accepted until the next process has       *)
(* looked for it: it is the one claimed last, unless its failure is        *)
(* recorded or two statements were lost.  RecordInv says that the runs     *)
(* have increasing pids and that, while no record is lost, the only open   *)
(* one is that of the current process.                                     *)
(***************************************************************************)
EXTENDS RestartJobs, SequenceTheorems, TLAPS

\* Most leaves are first-order reasoning; those with arithmetic or larger
\* expressions over records and functions cite SMT.
USE Zenon

Job == [runAt : Nat, status : {"pending", "running", "completed", "failed"},
        executedAt : Nat, claim : Nat, run : Nat]
RunRecord == [pid : Nat, trigger : {"admin", "initial", "recovery", "external-start"},
              result : {Open, "success", "failure"}, ended : Nat,
              cause : {"job", "failure", "external"}, job : Nat, at : Nat]
Process == [at : {"down", "booting", "up", "stopped"}, number : Nat,
            result : {"success", "failure"}, cause : {"job", "failure", "external"},
            job : Nat, next : {"job", "failure", "external"}, nextJob : Nat]

TypeOK ==
    /\ jobs \in Seq(Job) /\ runs \in Seq(RunRecord)
    /\ requested \in Seq(Nat) /\ Len(requested) = Len(jobs)
    /\ proc \in Process
    /\ scheduler \in [at : {"wait", "claimed", "accepted", "refused", "returned"}, job : Nat]
    /\ queued \in Nat /\ now \in Nat /\ exits \in Nat /\ errors \in Nat

\* The job is pending, or has been requested at most once since its claim.
Requested(j) ==
    /\ requested[j] <= 1
    /\ jobs[j].status = "pending" => requested[j] = 0 /\ jobs[j].run = 0

SchedulerInv ==
    /\ scheduler.at = "wait" => scheduler = Waiting
    /\ scheduler.at # "wait" => proc.at = "up" /\ scheduler.job \in DOMAIN jobs
    /\ scheduler.at = "claimed" =>
          requested[scheduler.job] = 0 /\ jobs[scheduler.job].status # "pending"
    /\ scheduler.at = "refused" => errors >= 1

JobInv == SchedulerInv /\ \A j \in DOMAIN jobs : Requested(j)

\* No job has been claimed after j.
Latest(j) == j \in DOMAIN jobs /\ \A i \in DOMAIN jobs : jobs[i].claim <= jobs[j].claim

\* j will be found by the next process that is started in time.
Findable(j) ==
    Latest(j) /\ jobs[j].status \in {"running", "completed"} /\ jobs[j].run = 0

Failed(j) == j \in DOMAIN jobs /\ jobs[j].status = "failed"

\* The scheduler's job, the one in systemd's queue, the one that caused the end
\* of the last process and the start of this one.
RequestLinked ==
    /\ scheduler.at \in {"accepted", "refused"} => Findable(scheduler.job)
    /\ queued # 0 /\ proc.at = "up" =>
          \/ Failed(queued)
          \/ /\ scheduler.at \in {"accepted", "refused", "returned"}
             /\ scheduler.job = queued /\ Findable(queued)
    /\ proc.at \in {"stopped", "down"} /\ proc.next = "job" =>
          Failed(proc.nextJob) \/ Findable(proc.nextJob)
    /\ proc.at = "booting" /\ proc.cause = "job" =>
          Failed(proc.job) \/ Findable(proc.job)

\* RestartLinked, and that the job is not claimed again.
RunLinked(r) ==
    LET j == runs[r].job IN
    runs[r].cause = "job" =>
        /\ j \in DOMAIN jobs /\ jobs[j].status # "pending"
        /\ jobs[j].status # "failed" /\ jobs[j].executedAt + Window >= runs[r].at
              => runs[r].trigger = "admin" /\ jobs[j].run # 0

LinkInv ==
    /\ jobs # <<>> => \E j \in DOMAIN jobs : Latest(j)
    /\ scheduler.at = "claimed" => Findable(scheduler.job)
    /\ errors <= 1 => RequestLinked /\ \A r \in DOMAIN runs : RunLinked(r)
    /\ proc.at # "up" => queued = 0

Ended == DOMAIN runs \ OpenRuns

RecordInv ==
    /\ \A r \in DOMAIN runs : runs[r].pid <= proc.number /\ runs[r].pid > 0
    /\ \A q, r \in DOMAIN runs : runs[q].pid = runs[r].pid => q = r
    /\ proc.at = "booting" => proc.number > 0 /\ \A r \in DOMAIN runs : runs[r].pid < proc.number
    /\ Ended # {} => \E r \in Ended : \A q \in Ended : q <= r
    /\ ExitOfItsProcess /\ OpenRunIsCurrent

IndInv == TypeOK /\ JobInv /\ LinkInv /\ RecordInv
----------------------------------------------------------------------------
\* A sequence has numbered elements of its type.
LEMMA Elements ==
    ASSUME NEW S, NEW s \in Seq(S)
    PROVE  /\ Len(s) \in Nat /\ DOMAIN s = 1..Len(s)
           /\ \A i \in DOMAIN s : i \in Nat /\ i > 0 /\ s[i] \in S
  BY SMT, LenProperties, ElementOfSeq

\* A function on the same numbers is a sequence of the same length.
LEMMA SeqLike ==
    ASSUME NEW S, NEW s \in Seq(S), NEW t \in [DOMAIN s -> S]
    PROVE  t \in Seq(S) /\ Len(t) = Len(s) /\ DOMAIN t = DOMAIN s
<1>1. Len(s) \in Nat /\ DOMAIN s = 1..Len(s)
  BY LenProperties
<1>2. t \in Seq(S)
  BY <1>1, SeqDef
<1>3. Len(t) \in Nat /\ DOMAIN t = 1..Len(t) /\ DOMAIN t = 1..Len(s)
  BY <1>1, <1>2, LenProperties
<1>4. Len(t) = Len(s)
  BY SMT, <1>1, <1>3
<1> QED
  BY <1>2, <1>3, <1>4

\* The new last element and the old ones.
LEMMA Appended ==
    ASSUME NEW S, NEW s \in Seq(S), NEW x \in S
    PROVE  /\ Append(s, x) \in Seq(S) /\ Len(Append(s, x)) = Len(s) + 1
           /\ DOMAIN Append(s, x) = DOMAIN s \cup {Len(s) + 1}
           /\ Len(s) + 1 \notin DOMAIN s
           /\ Append(s, x)[Len(s) + 1] = x
           /\ \A i \in DOMAIN s : Append(s, x)[i] = s[i]
<1>1. Len(s) \in Nat /\ DOMAIN s = 1..Len(s)
  BY LenProperties
<1>2. Append(s, x) \in Seq(S) /\ Len(Append(s, x)) = Len(s) + 1
  BY AppendProperties
<1>3. DOMAIN Append(s, x) = 1..(Len(s) + 1)
  BY <1>2, LenProperties
<1>4. Append(s, x)[Len(s) + 1] = x /\ \A i \in 1..Len(s) : Append(s, x)[i] = s[i]
  BY SMT, AppendProperties
<1>5. 1..(Len(s) + 1) = (1..Len(s)) \cup {Len(s) + 1} /\ Len(s) + 1 \notin 1..Len(s)
  BY SMT, <1>1
<1> QED
  BY <1>1, <1>2, <1>3, <1>4, <1>5
----------------------------------------------------------------------------
\* ScheduleRestart adds a pending job.
LEMMA ScheduleEffect ==
    ASSUME TypeOK, NEW t \in Nat, ScheduleRestart(t)
    PROVE  \E k \in Nat :
               /\ jobs' \in Seq(Job) /\ requested' \in Seq(Nat) /\ Len(requested') = Len(jobs')
               /\ k \notin DOMAIN jobs /\ DOMAIN jobs' = DOMAIN jobs \cup {k} /\ k # 0
               /\ jobs'[k].status = "pending" /\ jobs'[k].claim = 0 /\ jobs'[k].run = 0
               /\ requested'[k] = 0
               /\ \A i \in DOMAIN jobs : jobs'[i] = jobs[i] /\ requested'[i] = requested[i]
<1> DEFINE x == [runAt |-> t, status |-> "pending", executedAt |-> 0, claim |-> 0, run |-> 0]
           k == Len(jobs) + 1
<1>1. x \in Job /\ x.status = "pending" /\ x.claim = 0 /\ x.run = 0
  BY DEF Job
<1>2. /\ jobs \in Seq(Job) /\ requested \in Seq(Nat) /\ Len(requested) = Len(jobs)
      /\ jobs' = Append(jobs, x) /\ requested' = Append(requested, 0)
  BY DEF TypeOK, ScheduleRestart
<1>3. Len(jobs) \in Nat /\ DOMAIN requested = DOMAIN jobs
  BY <1>2, Elements
<1> HIDE DEF x
<1>4. /\ jobs' \in Seq(Job) /\ Len(jobs') = Len(jobs) + 1
      /\ DOMAIN jobs' = DOMAIN jobs \cup {k} /\ k \notin DOMAIN jobs
      /\ jobs'[k] = x /\ \A i \in DOMAIN jobs : jobs'[i] = jobs[i]
  BY SMT, <1>1, <1>2, Appended
<1>5. /\ requested' \in Seq(Nat) /\ Len(requested') = Len(requested) + 1
      /\ requested'[k] = 0 /\ \A i \in DOMAIN jobs : requested'[i] = requested[i]
  BY SMT, <1>2, <1>3, Appended
<1>6. k \in Nat /\ k # 0
  BY SMT, <1>3
<1> HIDE DEF k
<1> QED
  BY <1>1, <1>2, <1>4, <1>5, <1>6

\* ClaimDueRestart makes a pending job the latest one.
LEMMA ClaimEffect ==
    ASSUME TypeOK, LinkInv, ClaimDueRestart
    PROVE  \E j \in DOMAIN jobs :
               /\ jobs' \in Seq(Job) /\ Len(jobs') = Len(jobs) /\ DOMAIN jobs' = DOMAIN jobs
               /\ jobs[j].status = "pending" /\ jobs'[j].status = "running"
               /\ jobs'[j].run = jobs[j].run
               /\ \A i \in DOMAIN jobs : jobs[i].claim < jobs'[j].claim
               /\ \A i \in DOMAIN jobs : i # j => jobs'[i] = jobs[i]
               /\ scheduler' = [at |-> "claimed", job |-> j]
<1> DEFINE C == {jobs[i].claim : i \in DOMAIN jobs}
<1>1. PICK j \in DOMAIN jobs :
          /\ Due(j)
          /\ jobs' = [jobs EXCEPT ![j].status = "running", ![j].executedAt = now,
                        ![j].claim = Max(C) + 1]
          /\ scheduler' = [at |-> "claimed", job |-> j]
  BY DEF ClaimDueRestart
<1>2. jobs \in Seq(Job) /\ now \in Nat /\ \A i \in DOMAIN jobs : jobs[i] \in Job
  BY Elements DEF TypeOK
<1>3. jobs # <<>>
  BY SMT, <1>1
<1>4. PICK l \in DOMAIN jobs : \A i \in DOMAIN jobs : jobs[i].claim <= jobs[l].claim
  BY <1>3 DEF LinkInv, Latest
<1>5. \A i \in DOMAIN jobs : jobs[i].claim \in Nat
  BY <1>2 DEF Job
<1>6. Max(C) \in C /\ \A c \in C : c <= Max(C)
  BY <1>4, <1>5 DEF Max
<1> DEFINE m == Max(C)
<1>7. m \in Nat /\ \A i \in DOMAIN jobs : jobs[i].claim < m + 1
  <2>1. m \in Nat
    BY <1>5, <1>6
  <2>2. \A i \in DOMAIN jobs : jobs[i].claim <= m
    BY <1>6
  <2> HIDE DEF m
  <2> QED
    BY SMT, <1>5, <2>1, <2>2
<1>a. jobs' = [jobs EXCEPT ![j].status = "running", ![j].executedAt = now, ![j].claim = m + 1]
  BY <1>1
<1> HIDE DEF C, m
<1>8. jobs' = [jobs EXCEPT ![j] = [jobs[j] EXCEPT !.status = "running", !.executedAt = now,
                                                  !.claim = m + 1]]
  BY <1>a, <1>2, <1>7 DEF Job
<1>9. [jobs[j] EXCEPT !.status = "running", !.executedAt = now, !.claim = m + 1] \in Job
  <2>1. jobs[j] \in Job /\ m + 1 \in Nat /\ now \in Nat
    BY SMT, <1>2, <1>7
  <2> QED
    BY <2>1 DEF Job
<1>10. jobs' \in [DOMAIN jobs -> Job]
  BY <1>2, <1>8, <1>9
<1>11. jobs' \in Seq(Job) /\ Len(jobs') = Len(jobs) /\ DOMAIN jobs' = DOMAIN jobs
  BY <1>2, <1>10, SeqLike
<1>12. /\ jobs'[j].status = "running" /\ jobs'[j].run = jobs[j].run
       /\ jobs'[j].claim = m + 1
  BY <1>2, <1>8 DEF Job
<1>13. \A i \in DOMAIN jobs : i # j => jobs'[i] = jobs[i]
  BY <1>8
<1>14. \A i \in DOMAIN jobs : jobs[i].claim < jobs'[j].claim
  BY <1>7, <1>12
<1>15. jobs[j].status = "pending"
  BY <1>1 DEF Due
<1> QED
  BY <1>1, <1>11, <1>12, <1>13, <1>14, <1>15

\* What the record of a job keeps when only its outcome or its run is written.
SameClaim(i) ==
    /\ jobs'[i].claim = jobs[i].claim /\ jobs'[i].executedAt = jobs[i].executedAt

\* CompleteRestartJob writes the outcome of the scheduler's job, or nothing.
LEMMA CompleteEffect ==
    ASSUME TypeOK, JobInv, CompleteRestartJob
    PROVE  /\ jobs' \in Seq(Job) /\ Len(jobs') = Len(jobs) /\ DOMAIN jobs' = DOMAIN jobs
           /\ \A i \in DOMAIN jobs : SameClaim(i) /\ jobs'[i].run = jobs[i].run
           /\ \A i \in DOMAIN jobs : i # scheduler.job => jobs'[i] = jobs[i]
           /\ scheduler.job \in DOMAIN jobs
           /\ \/ jobs' = jobs /\ Fails
              \/ scheduler.at = "accepted" /\ jobs'[scheduler.job].status = "completed"
              \/ scheduler.at = "refused" /\ jobs'[scheduler.job].status = "failed"
<1> DEFINE k == scheduler.job
<1>1. jobs \in Seq(Job) /\ \A i \in DOMAIN jobs : jobs[i] \in Job
  BY Elements DEF TypeOK
<1>2. k \in DOMAIN jobs /\ scheduler.at \in {"accepted", "refused"}
  BY DEF CompleteRestartJob, JobInv, SchedulerInv
<1>3. CASE jobs' = jobs /\ Fails
  BY <1>1, <1>2, <1>3 DEF SameClaim
<1>4. CASE jobs' = [jobs EXCEPT ![k].status = Outcome(scheduler.at = "accepted")]
  <2> DEFINE o == Outcome(scheduler.at = "accepted")
  <2>1. o \in {"completed", "failed"} /\ (o = "completed" <=> scheduler.at = "accepted")
    BY DEF Outcome
  <2>2. jobs' = [jobs EXCEPT ![k] = [jobs[k] EXCEPT !.status = o]]
    BY <1>4
  <2> HIDE DEF o
  <2>3. [jobs[k] EXCEPT !.status = o] \in Job
    BY <1>1, <1>2, <2>1 DEF Job
  <2>4. jobs' \in [DOMAIN jobs -> Job]
    BY <1>1, <2>2, <2>3
  <2>5. jobs' \in Seq(Job) /\ Len(jobs') = Len(jobs) /\ DOMAIN jobs' = DOMAIN jobs
    BY <1>1, <2>4, SeqLike
  <2>6. \A i \in DOMAIN jobs : i # k => jobs'[i] = jobs[i]
    BY <2>2
  <2>7. jobs'[k].status = o /\ jobs'[k].run = jobs[k].run /\ SameClaim(k)
    BY <1>1, <1>2, <2>2 DEF Job, SameClaim
  <2>8. \A i \in DOMAIN jobs : SameClaim(i) /\ jobs'[i].run = jobs[i].run
    BY <2>6, <2>7 DEF SameClaim
  <2> QED
    BY <1>2, <2>1, <2>5, <2>6, <2>7, <2>8
<1> QED
  BY <1>3, <1>4 DEF CompleteRestartJob

\* RestartUnit counts one request of the scheduler's job.
LEMMA RequestEffect ==
    ASSUME TypeOK, JobInv, RestartUnit
    PROVE  /\ requested' \in Seq(Nat) /\ Len(requested') = Len(jobs)
           /\ scheduler.job \in DOMAIN jobs
           /\ requested'[scheduler.job] = 1
           /\ \A i \in DOMAIN jobs : i # scheduler.job => requested'[i] = requested[i]
<1>1. requested \in Seq(Nat) /\ jobs \in Seq(Job) /\ Len(requested) = Len(jobs)
  BY DEF TypeOK
<1>2. DOMAIN requested = DOMAIN jobs /\ \A i \in DOMAIN requested : requested[i] \in Nat
  BY <1>1, Elements
<1>3. scheduler.job \in DOMAIN jobs /\ requested[scheduler.job] = 0
  BY DEF RestartUnit, JobInv, SchedulerInv
<1>4. requested' = [requested EXCEPT ![scheduler.job] = 1]
  BY SMT, <1>2, <1>3 DEF RestartUnit
<1>5. requested' \in [DOMAIN requested -> Nat]
  BY <1>2, <1>4
<1>6. requested' \in Seq(Nat) /\ Len(requested') = Len(requested)
  BY <1>1, <1>5, SeqLike
<1> QED
  BY <1>1, <1>2, <1>3, <1>4, <1>6

\* The trigger of a new run is one of the four, and "admin" if a job is linked.
LEMMA TriggerType ==
    ASSUME TypeOK, RecordInv
    PROVE  /\ Trigger \in {"admin", "initial", "recovery", "external-start"}
           /\ Linked # {} => Trigger = "admin"
<1>1. \A r \in DOMAIN runs : r \in Nat /\ runs[r] \in RunRecord
  BY Elements DEF TypeOK
<1>2. \A r \in Ended : runs[r].result \in {"success", "failure"}
  BY <1>1 DEF Ended, OpenRuns, RunRecord, Open
<1>3. ASSUME Ended # {} PROVE Max(Ended) \in Ended
  <2>1. PICK r \in Ended : \A q \in Ended : q <= r
    BY <1>3 DEF RecordInv
  <2> QED
    BY <2>1 DEF Max
<1>4. PreviousResult \in {"none", "success", "failure"}
  BY <1>2, <1>3 DEF PreviousResult, Ended
<1>5. CASE Linked # {}
  BY <1>5 DEF Trigger
<1>6. CASE Linked = {}
  BY <1>4, <1>6 DEF Trigger
<1> QED
  BY <1>5, <1>6

\* StartProcessRun adds a run and links the jobs that explain it to the run, or
\* it fails and writes nothing.
Starts(k) ==
    /\ k \in Nat /\ k > 0 /\ k \notin DOMAIN runs
    /\ runs' \in Seq(RunRecord) /\ DOMAIN runs' = DOMAIN runs \cup {k}
    /\ \A r \in DOMAIN runs : r < k /\ runs'[r] = runs[r]
    /\ runs'[k].pid = proc.number /\ runs'[k].result = Open /\ runs'[k].ended = 0
    /\ runs'[k].cause = proc.cause /\ runs'[k].job = proc.job /\ runs'[k].at = now
    /\ Linked # {} => runs'[k].trigger = "admin"
    /\ jobs' \in Seq(Job) /\ Len(jobs') = Len(jobs) /\ DOMAIN jobs' = DOMAIN jobs
    /\ \A i \in DOMAIN jobs : SameClaim(i)
    /\ \A i \in Linked : jobs'[i].status = "completed" /\ jobs'[i].run = k
    /\ \A i \in DOMAIN jobs \ Linked : jobs'[i] = jobs[i]

LEMMA StartEffect ==
    ASSUME TypeOK, RecordInv, StartProcessRun
    PROVE  \/ runs' = runs /\ jobs' = jobs /\ errors' = errors + 1
           \/ errors' = errors /\ \E k \in Nat : Starts(k)
<1>1. CASE Fails /\ UNCHANGED <<runs, jobs>>
  BY <1>1 DEF Fails
<1> DEFINE x == [pid |-> proc.number, trigger |-> Trigger, result |-> Open, ended |-> 0,
                 cause |-> proc.cause, job |-> proc.job, at |-> now]
           k == Len(runs) + 1
<1>2. CASE /\ runs' = Append(runs, x)
           /\ jobs' = [j \in DOMAIN jobs |-> IF j \in Linked
                           THEN [jobs[j] EXCEPT !.status = "completed", !.run = Len(runs) + 1]
                           ELSE jobs[j]]
           /\ UNCHANGED errors
  <2>1. /\ runs \in Seq(RunRecord) /\ jobs \in Seq(Job) /\ proc \in Process /\ now \in Nat
        /\ \A j \in DOMAIN jobs : jobs[j] \in Job
    BY Elements DEF TypeOK
  <2>2. x \in RunRecord
    <3>1. proc.number \in Nat /\ proc.cause \in {"job", "failure", "external"} /\ proc.job \in Nat
      BY <2>1 DEF Process
    <3> QED
      BY <2>1, <3>1, TriggerType DEF RunRecord
  <2>3. /\ x.pid = proc.number /\ x.result = Open /\ x.ended = 0 /\ x.cause = proc.cause
        /\ x.job = proc.job /\ x.at = now /\ (Linked # {} => x.trigger = "admin")
    BY TriggerType
  <2>a. runs' = Append(runs, x)
    BY <1>2
  <2> HIDE DEF x
  <2>4. Len(runs) \in Nat /\ DOMAIN runs = 1..Len(runs)
    BY <2>1, Elements
  <2>5. /\ runs' \in Seq(RunRecord) /\ DOMAIN runs' = DOMAIN runs \cup {k}
        /\ k \notin DOMAIN runs /\ runs'[k] = x /\ \A r \in DOMAIN runs : runs'[r] = runs[r]
    BY SMT, <2>a, <2>1, <2>2, Appended
  <2>6. k \in Nat /\ k > 0 /\ \A r \in DOMAIN runs : r < k
    BY SMT, <2>4
  <2>7. jobs' = [j \in DOMAIN jobs |-> IF j \in Linked
                     THEN [jobs[j] EXCEPT !.status = "completed", !.run = k] ELSE jobs[j]]
    BY <1>2
  <2> HIDE DEF k
  <2>8. \A j \in DOMAIN jobs : [jobs[j] EXCEPT !.status = "completed", !.run = k] \in Job
    BY <2>1, <2>6 DEF Job
  <2>9. jobs' \in [DOMAIN jobs -> Job]
    BY <2>1, <2>7, <2>8
  <2>10. jobs' \in Seq(Job) /\ Len(jobs') = Len(jobs) /\ DOMAIN jobs' = DOMAIN jobs
    BY <2>1, <2>9, SeqLike
  <2>11. Linked \subseteq DOMAIN jobs
    BY DEF Linked, Linkable
  <2>12. \A i \in Linked : jobs'[i].status = "completed" /\ jobs'[i].run = k /\ SameClaim(i)
    BY <2>1, <2>7, <2>11 DEF Job, SameClaim
  <2>13. \A i \in DOMAIN jobs \ Linked : jobs'[i] = jobs[i]
    BY <2>7
  <2>14. \A i \in DOMAIN jobs : SameClaim(i)
    BY <2>12, <2>13 DEF SameClaim
  <2>15. Starts(k)
    BY <2>3, <2>5, <2>6, <2>10, <2>12, <2>13, <2>14 DEF Starts
  <2> QED
    BY <1>2, <2>6, <2>15
<1> QED
  BY <1>1, <1>2 DEF StartProcessRun

\* RecordProcessExit ends at most one run, which was open; all of them, if no
\* record was lost.
EndsRuns(R) ==
    /\ R \subseteq OpenRuns /\ \A q, r \in R : q = r
    /\ errors = 0 => OpenRuns \subseteq R
    /\ runs' \in Seq(RunRecord) /\ DOMAIN runs' = DOMAIN runs
    /\ \A r \in DOMAIN runs \ R : runs'[r] = runs[r]
    /\ \A r \in R :
          /\ runs'[r].result = proc.result /\ runs'[r].ended = proc.number
          /\ runs'[r].pid = runs[r].pid /\ runs'[r].cause = runs[r].cause
          /\ runs'[r].job = runs[r].job /\ runs'[r].at = runs[r].at
          /\ runs'[r].trigger = runs[r].trigger

LEMMA ExitEffect ==
    ASSUME TypeOK, RecordInv, RecordProcessExit
    PROVE  \/ runs' = runs /\ errors' = errors + 1
           \/ errors' = errors /\ \E R \in SUBSET OpenRuns : EndsRuns(R)
<1>1. CASE Fails /\ UNCHANGED runs
  BY <1>1 DEF Fails
<1>2. ASSUME NEW pid \in {0, proc.number}, UNCHANGED errors,
             runs' = [r \in DOMAIN runs |-> IF r \in RecordedRun(pid)
                          THEN [runs[r] EXCEPT !.result = proc.result, !.ended = proc.number]
                          ELSE runs[r]]
      PROVE  errors' = errors /\ \E R \in SUBSET OpenRuns : EndsRuns(R)
  <2> DEFINE R == RecordedRun(pid)
  <2>1. /\ runs \in Seq(RunRecord) /\ proc.number \in Nat /\ proc.result \in {"success", "failure"}
        /\ \A r \in DOMAIN runs : r \in Nat /\ runs[r] \in RunRecord
    BY Elements DEF TypeOK, Process
  <2>2. R \subseteq OpenRuns /\ \A q, r \in R : q <= r
    BY DEF RecordedRun
  <2>3. OpenRuns \subseteq DOMAIN runs
    BY DEF OpenRuns
  <2>4. \A q, r \in R : q = r
    BY SMT, <2>1, <2>2, <2>3
  <2>5. errors = 0 => OpenRuns \subseteq R
    <3> SUFFICES ASSUME errors = 0, NEW r \in OpenRuns PROVE r \in R
      OBVIOUS
    <3>1. \A q \in OpenRuns : runs[q].pid = proc.number
      BY DEF RecordInv, OpenRunIsCurrent, AllRecorded
    <3>2. \A q \in OpenRuns : q = r
      BY <2>3, <3>1 DEF RecordInv
    <3>3. r <= r
      BY SMT, <2>1, <2>3
    <3> QED
      BY <3>2, <3>3 DEF RecordedRun
  <2> HIDE DEF R
  <2>6. runs' = [r \in DOMAIN runs |-> IF r \in R
                     THEN [runs[r] EXCEPT !.result = proc.result, !.ended = proc.number]
                     ELSE runs[r]]
    BY <1>2 DEF R
  <2>7. \A r \in DOMAIN runs :
            [runs[r] EXCEPT !.result = proc.result, !.ended = proc.number] \in RunRecord
    BY ZenonT(30), <2>1 DEF RunRecord
  <2>8. runs' \in [DOMAIN runs -> RunRecord]
    BY <2>1, <2>6, <2>7
  <2>9. runs' \in Seq(RunRecord) /\ DOMAIN runs' = DOMAIN runs
    BY <2>1, <2>8, SeqLike
  <2>10. \A r \in DOMAIN runs \ R : runs'[r] = runs[r]
    BY <2>6
  <2>11. \A r \in R :
          /\ runs'[r].result = proc.result /\ runs'[r].ended = proc.number
          /\ runs'[r].pid = runs[r].pid /\ runs'[r].cause = runs[r].cause
          /\ runs'[r].job = runs[r].job /\ runs'[r].at = runs[r].at
          /\ runs'[r].trigger = runs[r].trigger
    BY ZenonT(30), <2>1, <2>2, <2>3, <2>6 DEF RunRecord
  <2> QED
    BY <1>2, <2>2, <2>4, <2>5, <2>9, <2>10, <2>11 DEF EndsRuns
<1> QED
  BY <1>1, <1>2 DEF RecordProcessExit
----------------------------------------------------------------------------
\* The fields of jobs have their types.
LEMMA JobTypes ==
    ASSUME TypeOK
    PROVE  /\ DOMAIN requested = DOMAIN jobs
           /\ \A i \in DOMAIN jobs :
                 /\ i \in Nat /\ i > 0
                 /\ jobs[i].claim \in Nat /\ jobs[i].executedAt \in Nat /\ jobs[i].run \in Nat
                 /\ requested[i] \in Nat
                 /\ jobs[i].status \in {"pending", "running", "completed", "failed"}
<1>1. \A i \in DOMAIN jobs : i \in Nat /\ i > 0 /\ jobs[i] \in Job
  BY Elements DEF TypeOK
<1>2. DOMAIN requested = DOMAIN jobs /\ \A i \in DOMAIN requested : requested[i] \in Nat
  BY Elements DEF TypeOK
<1> QED
  BY <1>1, <1>2 DEF Job

\* A claimed job is kept by a step: it is not pending again, its failure and its
\* run stay, and so does the time of its claim.
JobKept(j) ==
    /\ j \in DOMAIN jobs'
    /\ jobs[j].status # "pending" =>
          /\ jobs'[j].status # "pending" /\ jobs'[j].executedAt = jobs[j].executedAt
          /\ jobs[j].run # 0 => jobs'[j].run # 0
          /\ jobs[j].status = "failed" => jobs'[j].status = "failed"

RunKept(r) ==
    /\ r \in DOMAIN runs'
    /\ runs'[r].cause = runs[r].cause /\ runs'[r].job = runs[r].job
    /\ runs'[r].at = runs[r].at /\ runs'[r].trigger = runs[r].trigger
    /\ runs'[r].pid = runs[r].pid

LEMMA RunLinkedKept ==
    ASSUME NEW r \in DOMAIN runs, RunLinked(r), RunKept(r), \A j \in DOMAIN jobs : JobKept(j)
    PROVE  RunLinked(r)'
  BY DEF RunLinked, RunKept, JobKept

\* The invariant of runs and processes when neither changes.
LEMMA RecordStutter ==
    ASSUME IndInv, UNCHANGED <<runs, proc, errors>>
    PROVE  RecordInv'
  BY SMT DEF IndInv, RecordInv, Ended, OpenRuns, ExitOfItsProcess,
     OpenRunIsCurrent, AllRecorded

\* The invariant of links when the runs stay and the jobs are kept.
LEMMA RunsStayLinked ==
    ASSUME IndInv, errors' \in Nat, errors' >= errors, UNCHANGED runs,
           \A j \in DOMAIN jobs : JobKept(j)
    PROVE  (errors <= 1 => \A r \in DOMAIN runs : RunLinked(r))'
<1>1. \A r \in DOMAIN runs : RunKept(r)
  BY DEF RunKept
<1>2. errors' <= 1 => errors <= 1
  BY SMT DEF IndInv, TypeOK
<1>3. errors' <= 1 => \A r \in DOMAIN runs : RunLinked(r)
  BY <1>2 DEF IndInv, LinkInv
<1>4. errors' <= 1 => \A r \in DOMAIN runs : RunLinked(r)'
  BY <1>1, <1>3, RunLinkedKept
<1> QED
  BY <1>4
----------------------------------------------------------------------------
\* A new job is not the scheduler's, and no run is linked to it.
LEMMA ScheduleStep ==
    ASSUME IndInv, NEW t \in 0..MaxNow, ScheduleRestart(t)
    PROVE  IndInv'
<1>1. TypeOK /\ t \in Nat
  BY SMT, RestartAssumption DEF IndInv
<1>2. PICK k \in Nat :
               /\ jobs' \in Seq(Job) /\ requested' \in Seq(Nat) /\ Len(requested') = Len(jobs')
               /\ k \notin DOMAIN jobs /\ DOMAIN jobs' = DOMAIN jobs \cup {k} /\ k # 0
               /\ jobs'[k].status = "pending" /\ jobs'[k].claim = 0 /\ jobs'[k].run = 0
               /\ requested'[k] = 0
               /\ \A i \in DOMAIN jobs : jobs'[i] = jobs[i] /\ requested'[i] = requested[i]
  BY <1>1, ScheduleEffect
<1>3. UNCHANGED <<runs, proc, scheduler, queued, now, exits, errors>>
  BY DEF ScheduleRestart
<1>4. \A i \in DOMAIN jobs : jobs[i].claim \in Nat
  BY <1>1, JobTypes
<1>5. \A j \in DOMAIN jobs : Latest(j) => Latest(j)'
  BY SMTT(30), <1>2, <1>4 DEF Latest
<1>6. \A j : (Findable(j) => Findable(j)') /\ (Failed(j) => Failed(j)')
  BY <1>2, <1>5 DEF Findable, Failed, Latest
<1>7. TypeOK'
  BY <1>1, <1>2, <1>3 DEF TypeOK
<1>8. JobInv'
  <2>1. \A j \in DOMAIN jobs' : Requested(j)'
    <3>1. Requested(k)'
      BY SMT, <1>2 DEF Requested
    <3>2. \A j \in DOMAIN jobs : Requested(j)'
      BY <1>2 DEF IndInv, JobInv, Requested
    <3> QED
      BY <1>2, <3>1, <3>2
  <2>2. SchedulerInv'
    BY <1>2, <1>3 DEF IndInv, JobInv, SchedulerInv, Waiting
  <2> QED
    BY <2>1, <2>2 DEF JobInv
<1>9. LinkInv'
  <2>1. (jobs # <<>> => \E j \in DOMAIN jobs : Latest(j))'
    <3>1. CASE jobs = <<>>
      <4>1. DOMAIN jobs = {}
        BY SMT, <3>1
      <4> QED
        BY SMT, <1>2, <4>1 DEF Latest
    <3>2. CASE jobs # <<>>
      BY <1>2, <1>5, <3>2 DEF IndInv, LinkInv
    <3> QED
      BY <3>1, <3>2
  <2>2. (errors <= 1 => \A r \in DOMAIN runs : RunLinked(r))'
    <3>1. \A j \in DOMAIN jobs : JobKept(j)
      BY <1>2 DEF JobKept
    <3> QED
      BY SMT, <1>1, <1>3, <3>1, RunsStayLinked DEF TypeOK
  <2>3. RequestLinked => RequestLinked'
    BY <1>3, <1>6 DEF RequestLinked
  <2>4. scheduler.at = "claimed" => Findable(scheduler.job)'
    BY <1>3, <1>6 DEF IndInv, LinkInv
  <2> QED
    BY <1>3, <2>1, <2>2, <2>3, <2>4 DEF IndInv, LinkInv
<1>10. RecordInv'
  BY <1>3, RecordStutter
<1> QED
  BY <1>7, <1>8, <1>9, <1>10 DEF IndInv

\* The claimed job becomes the latest one and the scheduler's; while at most one
\* statement failed, no accepted restart is under way, or its job's failure was
\* recorded.
LEMMA ClaimStep ==
    ASSUME IndInv, ClaimDueRestart
    PROVE  IndInv'
<1>1. TypeOK /\ LinkInv /\ JobInv
  BY DEF IndInv
<1>2. PICK j \in DOMAIN jobs :
               /\ jobs' \in Seq(Job) /\ Len(jobs') = Len(jobs) /\ DOMAIN jobs' = DOMAIN jobs
               /\ jobs[j].status = "pending" /\ jobs'[j].status = "running"
               /\ jobs'[j].run = jobs[j].run
               /\ \A i \in DOMAIN jobs : jobs[i].claim < jobs'[j].claim
               /\ \A i \in DOMAIN jobs : i # j => jobs'[i] = jobs[i]
               /\ scheduler' = [at |-> "claimed", job |-> j]
  BY <1>1, ClaimEffect
<1>3. /\ UNCHANGED <<runs, proc, queued, now, requested, exits, errors>>
      /\ proc.at = "up" /\ scheduler = Waiting
  BY DEF ClaimDueRestart
<1>4. j \in Nat /\ \A i \in DOMAIN jobs : jobs[i].claim \in Nat
  BY <1>1, JobTypes
<1>5. requested[j] = 0 /\ jobs[j].run = 0
  BY <1>1, <1>2 DEF JobInv, Requested
<1>6. Findable(j)'
  <2>1. jobs'[j].claim \in Nat
    <3>1. jobs'[j] \in Job
      BY <1>2, Elements
    <3> QED
      BY <3>1 DEF Job
  <2> QED
    BY SMT, <1>2, <1>4, <1>5, <2>1 DEF Findable, Latest
<1>7. TypeOK'
  BY <1>1, <1>2, <1>3, <1>4 DEF TypeOK
<1>8. JobInv'
  <2>1. \A i \in DOMAIN jobs' : Requested(i)'
    BY SMT, <1>1, <1>2, <1>3, <1>5 DEF JobInv, Requested
  <2>2. SchedulerInv'
    BY <1>2, <1>3, <1>5 DEF SchedulerInv
  <2> QED
    BY <2>1, <2>2 DEF JobInv
<1>9. LinkInv'
  <2>1. (jobs # <<>> => \E i \in DOMAIN jobs : Latest(i))'
    BY <1>2, <1>6 DEF Findable
  <2>2. (errors <= 1 => \A r \in DOMAIN runs : RunLinked(r))'
    <3>1. \A i \in DOMAIN jobs : JobKept(i)
      BY <1>2 DEF JobKept
    <3> QED
      BY SMT, <1>1, <1>3, <3>1, RunsStayLinked DEF TypeOK
  <2>3. errors <= 1 => RequestLinked'
    <3> SUFFICES ASSUME errors <= 1 PROVE RequestLinked'
      OBVIOUS
    <3>1. queued # 0 => Failed(queued)
      BY <1>1, <1>3 DEF LinkInv, RequestLinked, Waiting
    <3>2. queued # 0 => Failed(queued)'
      BY <1>2, <1>3, <3>1 DEF Failed
    <3> QED
      BY <1>2, <1>3, <3>2 DEF RequestLinked
  <2> QED
    BY <1>1, <1>2, <1>3, <1>6, <2>1, <2>2, <2>3 DEF LinkInv
<1>10. RecordInv'
  BY <1>3, RecordStutter
<1> QED
  BY <1>7, <1>8, <1>9, <1>10 DEF IndInv

\* The only request of the claimed job.
LEMMA RequestStep ==
    ASSUME IndInv, RestartUnit
    PROVE  IndInv'
<1> DEFINE k == scheduler.job
<1>1. TypeOK /\ LinkInv /\ JobInv
  BY DEF IndInv
<1>2. /\ requested' \in Seq(Nat) /\ Len(requested') = Len(jobs)
      /\ k \in DOMAIN jobs /\ requested'[k] = 1
      /\ \A i \in DOMAIN jobs : i # k => requested'[i] = requested[i]
  BY <1>1, RequestEffect
<1>3. /\ UNCHANGED <<jobs, runs, proc, now, exits>>
      /\ proc.at = "up" /\ scheduler.at = "claimed"
  BY DEF RestartUnit
<1>4. /\ scheduler'.job = k /\ queued' \in {queued, k} /\ errors' \in Nat /\ errors' >= errors
      /\ \/ scheduler'.at = "accepted" /\ queued' = k
         \/ scheduler'.at = "refused" /\ errors' >= 1
      /\ scheduler' \in [at : {"wait", "claimed", "accepted", "refused", "returned"}, job : Nat]
  <2>1. /\ errors \in Nat /\ scheduler.job \in Nat
        /\ scheduler \in [at : {"wait", "claimed", "accepted", "refused", "returned"}, job : Nat]
    BY <1>1 DEF TypeOK
  <2>2. \/ /\ scheduler' = [scheduler EXCEPT !.at = "accepted"]
           /\ queued' = k /\ errors' = errors
        \/ /\ scheduler' = [scheduler EXCEPT !.at = "refused"]
           /\ queued' \in {queued, k} /\ errors' = errors + 1
    BY DEF RestartUnit, Fails
  <2>3. /\ scheduler'.job = k /\ scheduler'.at \in {"accepted", "refused"}
        /\ scheduler' \in [at : {"wait", "claimed", "accepted", "refused", "returned"}, job : Nat]
    BY SMT, <2>1, <2>2
  <2>4. errors' \in Nat /\ errors' >= errors /\ (errors' = errors + 1 => errors' >= 1)
    BY SMT, <2>1, <2>2
  <2>5. CASE scheduler' = [scheduler EXCEPT !.at = "accepted"] /\ queued' = k
    BY <2>1, <2>3, <2>4, <2>5
  <2>6. CASE /\ scheduler' = [scheduler EXCEPT !.at = "refused"]
             /\ queued' \in {queued, k} /\ errors' = errors + 1
    BY <2>1, <2>3, <2>4, <2>6
  <2> QED
    BY <2>2, <2>5, <2>6
<1>5. k \in Nat /\ queued \in Nat /\ queued' \in Nat /\ jobs[k].status # "pending" /\ Findable(k)
  BY <1>1, <1>3, <1>4 DEF TypeOK, JobInv, SchedulerInv, LinkInv
<1>6. \A i : (Findable(i) => Findable(i)') /\ (Failed(i) => Failed(i)')
  BY <1>3 DEF Findable, Failed, Latest
<1>7. TypeOK'
  BY <1>1, <1>2, <1>3, <1>4, <1>5 DEF TypeOK
<1>8. JobInv'
  <2>1. \A i \in DOMAIN jobs' : Requested(i)'
    <3>1. ASSUME NEW i \in DOMAIN jobs, i # k PROVE Requested(i)'
      BY <1>1, <1>2, <1>3, <3>1 DEF JobInv, Requested
    <3>2. requested'[k] <= 1
      BY SMT, <1>2
    <3>3. ASSUME NEW i, i = k PROVE Requested(i)'
      BY <1>3, <1>5, <3>2, <3>3 DEF Requested
    <3> QED
      BY <1>3, <3>1, <3>3
  <2>2. SchedulerInv'
    BY <1>2, <1>3, <1>4 DEF SchedulerInv
  <2> QED
    BY <2>1, <2>2 DEF JobInv
<1>9. LinkInv'
  <2>1. (jobs # <<>> => \E i \in DOMAIN jobs : Latest(i))'
    BY <1>2, <1>3, <1>5, <1>6 DEF Findable
  <2>2. (errors <= 1 => \A r \in DOMAIN runs : RunLinked(r))'
    <3>1. \A i \in DOMAIN jobs : JobKept(i)
      BY <1>3 DEF JobKept
    <3> QED
      BY <1>3, <1>4, <3>1, RunsStayLinked
  <2>3. errors' <= 1 => RequestLinked'
    <3> SUFFICES ASSUME errors' <= 1 PROVE RequestLinked'
      OBVIOUS
    <3>1. errors <= 1
      BY SMT, <1>1, <1>4 DEF TypeOK
    <3>2. queued # 0 => Failed(queued)
      BY <1>1, <1>3, <3>1 DEF LinkInv, RequestLinked
    <3>3. queued' # 0 => Failed(queued') \/ queued' = k
      BY <1>4, <3>2
    <3> QED
      BY <1>3, <1>4, <1>5, <3>3 DEF RequestLinked, Findable, Failed, Latest
  <2> QED
    BY <1>3, <1>4, <2>1, <2>2, <2>3 DEF LinkInv
<1>10. RecordInv'
  <2>1. errors' = 0 => errors = 0
    BY SMT, <1>1, <1>4 DEF TypeOK
  <2> QED
    BY SMT, <1>3, <2>1 DEF IndInv, RecordInv, Ended, OpenRuns, ExitOfItsProcess,
       OpenRunIsCurrent, AllRecorded
<1> QED
  BY <1>7, <1>8, <1>9, <1>10 DEF IndInv

\* The outcome is written to the scheduler's job, which is not failed yet.
LEMMA CompleteStep ==
    ASSUME IndInv, CompleteRestartJob
    PROVE  IndInv'
<1>1. TypeOK /\ LinkInv /\ JobInv
  BY DEF IndInv
<1>k. PICK k : k = scheduler.job
  OBVIOUS
<1>2. /\ jobs' \in Seq(Job) /\ Len(jobs') = Len(jobs) /\ DOMAIN jobs' = DOMAIN jobs
      /\ \A i \in DOMAIN jobs : SameClaim(i) /\ jobs'[i].run = jobs[i].run
      /\ \A i \in DOMAIN jobs : i # k => jobs'[i] = jobs[i]
      /\ k \in DOMAIN jobs
      /\ \/ jobs' = jobs /\ Fails
         \/ scheduler.at = "accepted" /\ jobs'[k].status = "completed"
         \/ scheduler.at = "refused" /\ jobs'[k].status = "failed"
  BY <1>1, <1>k, CompleteEffect
<1>3. /\ UNCHANGED <<runs, proc, queued, now, requested, exits>>
      /\ proc.at = "up" /\ scheduler.at \in {"accepted", "refused"}
  BY DEF CompleteRestartJob
<1>4. /\ errors' \in Nat /\ errors' >= errors /\ (jobs' = jobs \/ errors' = errors)
      /\ jobs' = jobs => errors' = errors + 1 \/ errors' = errors
  BY SMT, <1>1 DEF CompleteRestartJob, Fails, TypeOK
<1>5. /\ scheduler' \in [at : {"wait", "claimed", "accepted", "refused", "returned"}, job : Nat]
      /\ scheduler.at = "accepted" => scheduler'.at = "returned" /\ scheduler'.job = k
      /\ scheduler.at = "refused" => scheduler' = Waiting
  BY <1>1, <1>3, <1>k DEF CompleteRestartJob, TypeOK, Waiting
<1>6. errors \in Nat /\ (errors' <= 1 => errors <= 1)
  BY SMT, <1>1, <1>4 DEF TypeOK
<1>7. \A i \in DOMAIN jobs : Latest(i) => Latest(i)'
  BY <1>2 DEF Latest, SameClaim
<1>8. TypeOK'
  BY <1>1, <1>2, <1>3, <1>4, <1>5 DEF TypeOK
<1>9. JobInv'
  <2>1. \A i \in DOMAIN jobs' : Requested(i)'
    <3>1. \A i \in DOMAIN jobs : jobs'[i].status = "pending" => jobs[i].status = "pending"
      BY <1>2
    <3> QED
      BY SMT, <1>1, <1>2, <1>3, <3>1 DEF JobInv, Requested
  <2>2. SchedulerInv'
    BY SMT, <1>2, <1>3, <1>5 DEF SchedulerInv, Waiting
  <2> QED
    BY <2>1, <2>2 DEF JobInv
<1>10. LinkInv'
  <2>1. (jobs # <<>> => \E i \in DOMAIN jobs : Latest(i))'
    <3>1. jobs # <<>>
      BY SMT, <1>2
    <3>2. PICK i \in DOMAIN jobs : Latest(i)
      BY <1>1, <3>1 DEF LinkInv
    <3> QED
      BY <1>2, <1>7, <3>2
  <2>2. errors' <= 1 => Findable(k)
    BY <1>1, <1>3, <1>6, <1>k DEF LinkInv, RequestLinked
  <2>3. errors' <= 1 => \A i \in DOMAIN jobs : JobKept(i)
    <3> SUFFICES ASSUME errors' <= 1 PROVE \A i \in DOMAIN jobs : JobKept(i)
      OBVIOUS
    <3>1. jobs[k].status \in {"running", "completed"}
      BY <2>2 DEF Findable
    <3> QED
      BY <1>2, <3>1 DEF JobKept, SameClaim
  <2>4. (errors <= 1 => \A r \in DOMAIN runs : RunLinked(r))'
    BY <1>3, <1>4, <2>3, RunsStayLinked
  <2>5. errors' <= 1 => RequestLinked'
    <3> SUFFICES ASSUME errors' <= 1 PROVE RequestLinked'
      OBVIOUS
    <3>1. queued # 0 => Failed(queued) \/ queued = k
      BY <1>1, <1>3, <1>6, <1>k DEF LinkInv, RequestLinked
    <3>2. Findable(k) /\ Latest(k)'
      BY <1>2, <1>7, <2>2 DEF Findable
    <3>3. CASE scheduler.at = "accepted"
      <4>1. Findable(k)'
        BY <1>2, <3>2, <3>3 DEF Findable
      <4>2. queued # 0 => Failed(queued)' \/ queued = k
        BY <1>2, <1>3, <3>1, <3>2 DEF Failed, Findable
      <4> QED
        BY <1>3, <1>5, <3>3, <4>1, <4>2 DEF RequestLinked, Findable, Latest,
           Failed
    <3>4. CASE scheduler.at = "refused"
      <4>1. errors >= 1
        BY <1>1, <3>4 DEF JobInv, SchedulerInv
      <4>2. ~Fails
        BY SMT, <1>6, <4>1 DEF Fails
      <4>3. jobs'[k].status = "failed"
        BY <1>2, <3>4, <4>2
      <4>4. queued # 0 => Failed(queued)'
        BY <1>2, <1>3, <3>1, <4>3 DEF Failed
      <4> QED
        BY SMT, <1>3, <1>5, <3>4, <4>4 DEF RequestLinked, Waiting, Failed
    <3> QED
      BY <1>3, <3>3, <3>4
  <2> QED
    BY SMT, <1>3, <1>5, <2>1, <2>4, <2>5 DEF LinkInv, Waiting
<1>11. RecordInv'
  <2>1. errors' = 0 => errors = 0
    BY SMT, <1>4, <1>6
  <2> QED
    BY SMT, <1>3, <2>1 DEF IndInv, RecordInv, Ended, OpenRuns, ExitOfItsProcess,
       OpenRunIsCurrent, AllRecorded
<1> QED
  BY <1>8, <1>9, <1>10, <1>11 DEF IndInv

\* The end of a process: what was in the queue is the reason of the next one.
LEMMA EndStep ==
    ASSUME IndInv, NEW result \in {"success", "failure"}, Ends(result),
           proc.at \in {"booting", "up"}, exits' \in Nat,
           UNCHANGED <<jobs, runs, now, requested, errors>>
    PROVE  IndInv'
<1>1. TypeOK /\ LinkInv /\ JobInv /\ RecordInv /\ proc \in Process
  BY DEF IndInv, TypeOK
<1>2. /\ proc'.at = "stopped" /\ proc'.number = proc.number
      /\ proc'.next = "job" => queued # 0
      /\ proc'.nextJob = queued
      /\ queued' = 0 /\ scheduler' = Waiting
  BY <1>1 DEF Ends, CauseAfter, Process
<1>3. TypeOK'
  <2>1. proc' \in Process
    BY <1>1 DEF Ends, CauseAfter, Process, TypeOK
  <2> QED
    BY <1>1, <1>2, <2>1 DEF TypeOK, Waiting
<1>4. JobInv'
  <2>1. \A i \in DOMAIN jobs' : Requested(i)'
    BY <1>1 DEF JobInv, Requested
  <2>2. SchedulerInv'
    BY <1>2 DEF SchedulerInv, Waiting
  <2> QED
    BY <2>1, <2>2 DEF JobInv
<1>5. LinkInv'
  <2>1. (jobs # <<>> => \E i \in DOMAIN jobs : Latest(i))'
    BY <1>1 DEF LinkInv, Latest
  <2>2. (errors <= 1 => \A r \in DOMAIN runs : RunLinked(r))'
    <3>1. \A i \in DOMAIN jobs : JobKept(i)
      BY DEF JobKept
    <3> QED
      BY SMT, <1>1, <3>1, RunsStayLinked DEF TypeOK
  <2>3. errors <= 1 => RequestLinked'
    <3>1. errors <= 1 /\ queued # 0 => Failed(queued) \/ Findable(queued)
      BY <1>1 DEF LinkInv, RequestLinked
    <3> QED
      BY <1>2, <3>1 DEF RequestLinked, Waiting, Failed, Findable, Latest
  <2> QED
    BY <1>2, <2>1, <2>2, <2>3 DEF LinkInv, Waiting
<1>6. RecordInv'
  BY SMT, <1>1, <1>2 DEF RecordInv, Ended, OpenRuns, ExitOfItsProcess,
     OpenRunIsCurrent, AllRecorded
<1> QED
  BY <1>3, <1>4, <1>5, <1>6 DEF IndInv

LEMMA BootStep ==
    ASSUME IndInv, Boot
    PROVE  IndInv'
<1>1. TypeOK /\ LinkInv /\ JobInv /\ RecordInv /\ proc \in Process
  BY DEF IndInv, TypeOK
<1>2. UNCHANGED <<jobs, runs, scheduler, queued, now, requested, exits, errors>> /\ proc.at = "down"
  BY DEF Boot
<1>3. /\ proc'.at = "booting" /\ proc'.number = proc.number + 1
      /\ proc'.cause = proc.next /\ proc'.job = proc.nextJob
      /\ proc' \in Process /\ proc.number \in Nat
  <2>1. proc.number \in Nat /\ proc.number + 1 \in Nat
    BY SMT, <1>1 DEF Process
  <2>2. proc' = [proc EXCEPT !.at = "booting", !.number = proc.number + 1,
                    !.cause = proc.next, !.job = proc.nextJob]
    BY <1>1 DEF Boot, Process
  <2> QED
    BY <1>1, <2>1, <2>2 DEF Process
<1>4. TypeOK'
  BY <1>1, <1>2, <1>3 DEF TypeOK
<1>5. JobInv'
  <2>1. \A i \in DOMAIN jobs' : Requested(i)'
    BY <1>1, <1>2 DEF JobInv, Requested
  <2>2. SchedulerInv'
    BY <1>1, <1>2 DEF JobInv, SchedulerInv, Waiting
  <2> QED
    BY <2>1, <2>2 DEF JobInv
<1>6. LinkInv'
  <2>1. (jobs # <<>> => \E i \in DOMAIN jobs : Latest(i))'
    BY <1>1, <1>2 DEF LinkInv, Latest
  <2>2. (errors <= 1 => \A r \in DOMAIN runs : RunLinked(r))'
    <3>1. \A i \in DOMAIN jobs : JobKept(i)
      BY <1>2 DEF JobKept
    <3> QED
      BY SMT, <1>1, <1>2, <3>1, RunsStayLinked DEF TypeOK
  <2>3. errors <= 1 => RequestLinked'
    <3>1. scheduler.at = "wait" /\ queued = 0
      BY <1>1, <1>2 DEF JobInv, SchedulerInv, LinkInv
    <3>2. errors <= 1 /\ proc.next = "job" => Failed(proc.nextJob) \/ Findable(proc.nextJob)
      BY <1>1, <1>2 DEF LinkInv, RequestLinked
    <3> QED
      BY <1>2, <1>3, <3>1, <3>2 DEF RequestLinked, Failed, Findable, Latest
  <2> QED
    BY <1>1, <1>2, <1>3, <2>1, <2>2, <2>3 DEF LinkInv, JobInv, SchedulerInv
<1>7. RecordInv'
  <2>1. \A r \in DOMAIN runs : runs[r].pid \in Nat
    <3>1. \A r \in DOMAIN runs : runs[r] \in RunRecord
      BY <1>1, Elements DEF TypeOK
    <3> QED
      BY <3>1 DEF RunRecord
  <2>2. \A r \in DOMAIN runs : runs[r].pid < proc'.number /\ runs[r].pid <= proc'.number
    BY SMT, <1>1, <1>3, <2>1 DEF RecordInv
  <2>3. OpenRunIsCurrent'
    BY <1>1, <1>2 DEF RecordInv, OpenRunIsCurrent, AllRecorded, OpenRuns
  <2> QED
    BY SMT, <1>1, <1>2, <1>3, <2>2, <2>3 DEF RecordInv, Ended, OpenRuns,
       ExitOfItsProcess, AllRecorded
<1> QED
  BY <1>4, <1>5, <1>6, <1>7 DEF IndInv

\* The fields of runs have their types.
LEMMA RunTypes ==
    ASSUME TypeOK
    PROVE  \A r \in DOMAIN runs :
               /\ r \in Nat /\ runs[r].pid \in Nat
               /\ runs[r].result \in {Open, "success", "failure"}
<1>1. \A r \in DOMAIN runs : r \in Nat /\ runs[r] \in RunRecord
  BY Elements DEF TypeOK
<1> QED
  BY <1>1 DEF RunRecord

\* The record of an exit ends the run of that process, or a record was lost.
LEMMA RecordExitStep ==
    ASSUME IndInv, RecordProcessExit
    PROVE  IndInv'
<1>1. TypeOK /\ LinkInv /\ JobInv /\ RecordInv /\ proc \in Process /\ errors \in Nat
  BY DEF IndInv, TypeOK
<1>2. UNCHANGED <<jobs, scheduler, queued, now, requested, exits>> /\ proc.at = "stopped"
  BY DEF RecordProcessExit
<1>3. /\ proc'.at = "down" /\ proc'.number = proc.number /\ proc' \in Process
      /\ proc'.next = proc.next /\ proc'.nextJob = proc.nextJob
  BY <1>1 DEF RecordProcessExit, Process
<1>4. \E R \in SUBSET OpenRuns :
          \/ EndsRuns(R) /\ errors' = errors
          \/ runs' = runs /\ errors' = errors + 1
  BY <1>1, ExitEffect
<1>5. PICK R \in SUBSET OpenRuns :
          \/ EndsRuns(R) /\ errors' = errors
          \/ runs' = runs /\ errors' = errors + 1
  BY <1>4
<1>6. /\ runs' \in Seq(RunRecord) /\ DOMAIN runs' = DOMAIN runs
      /\ errors' \in Nat /\ errors' >= errors
      /\ \A r \in DOMAIN runs : RunKept(r)
  BY SMT, <1>1, <1>5 DEF EndsRuns, TypeOK, RunKept, OpenRuns
<1>7. TypeOK'
  BY <1>1, <1>2, <1>3, <1>6 DEF TypeOK
<1>8. JobInv'
  <2>1. \A i \in DOMAIN jobs' : Requested(i)'
    BY <1>1, <1>2 DEF JobInv, Requested
  <2>2. SchedulerInv'
    BY <1>1, <1>2 DEF JobInv, SchedulerInv, Waiting
  <2> QED
    BY <2>1, <2>2 DEF JobInv
<1>9. LinkInv'
  <2>1. (jobs # <<>> => \E i \in DOMAIN jobs : Latest(i))'
    BY <1>1, <1>2 DEF LinkInv, Latest
  <2>2. errors' <= 1 => \A r \in DOMAIN runs' : RunLinked(r)'
    <3>1. \A i \in DOMAIN jobs : JobKept(i)
      BY <1>2 DEF JobKept
    <3>2. errors' <= 1 => \A r \in DOMAIN runs : RunLinked(r)
      BY SMT, <1>1, <1>6 DEF LinkInv
    <3> QED
      BY <1>6, <3>1, <3>2, RunLinkedKept
  <2>3. errors' <= 1 => RequestLinked'
    <3>1. scheduler.at = "wait" /\ queued = 0
      BY <1>1, <1>2 DEF JobInv, SchedulerInv, LinkInv
    <3>2. errors' <= 1 /\ proc.next = "job" => Failed(proc.nextJob) \/ Findable(proc.nextJob)
      BY SMT, <1>1, <1>2, <1>6 DEF LinkInv, RequestLinked
    <3> QED
      BY <1>2, <1>3, <3>1, <3>2 DEF RequestLinked, Failed, Findable, Latest
  <2> QED
    BY <1>1, <1>2, <1>3, <2>1, <2>2, <2>3 DEF LinkInv, JobInv, SchedulerInv
<1>10. RecordInv'
  <2>1. CASE runs' = runs /\ errors' = errors + 1
    BY SMT, <1>1, <1>3, <2>1 DEF RecordInv, Ended, OpenRuns, ExitOfItsProcess,
       OpenRunIsCurrent, AllRecorded
  <2>2. CASE EndsRuns(R) /\ errors' = errors
    <3>1. /\ \A r \in DOMAIN runs' : runs'[r].pid <= proc'.number /\ runs'[r].pid > 0
          /\ \A q, r \in DOMAIN runs' : runs'[q].pid = runs'[r].pid => q = r
      BY SMT, <1>1, <1>3, <1>6 DEF RecordInv, RunKept
    <3>2. Ended' = Ended \cup R
      <4>1. proc.result # Open
        BY <1>1 DEF Process, Open
      <4> QED
        BY <2>2, <4>1 DEF Ended, OpenRuns, EndsRuns
    <3>3. (Ended # {} => \E r \in Ended : \A q \in Ended : q <= r)'
      <4>1. \A r \in Ended \cup R : r \in Nat
        BY <1>1, RunTypes DEF Ended, OpenRuns
      <4>2. CASE R = {}
        BY <1>1, <3>2, <4>2 DEF RecordInv
      <4>3. CASE Ended = {}
        <5>1. \A q, r \in R : q <= r
          BY SMT, <2>2, <4>1 DEF EndsRuns
        <5> QED
          BY <3>2, <4>3, <5>1
      <4>4. CASE R # {} /\ Ended # {}
        <5>1. PICK m \in Ended : \A q \in Ended : q <= m
          BY <1>1, <4>4 DEF RecordInv
        <5>2. PICK x \in R : \A q \in R : q = x
          BY <2>2, <4>4 DEF EndsRuns
        <5>3. CASE m <= x
          BY SMT, <3>2, <4>1, <5>1, <5>2, <5>3
        <5>4. CASE x <= m
          BY <3>2, <4>1, <5>1, <5>2, <5>4
        <5> QED
          BY SMT, <4>1, <5>1, <5>2, <5>3, <5>4
      <4> QED
        BY <4>2, <4>3, <4>4
    <3>4. ExitOfItsProcess'
      <4> SUFFICES ASSUME errors = 0, NEW r \in DOMAIN runs
                   PROVE  runs'[r].ended \in {0, runs'[r].pid}
        BY <1>6, <2>2 DEF ExitOfItsProcess, AllRecorded
      <4>1. CASE r \in R
        BY SMT, <1>1, <2>2, <4>1 DEF EndsRuns, RecordInv, OpenRunIsCurrent,
           AllRecorded
      <4>2. CASE r \notin R
        BY <1>1, <2>2, <4>2 DEF EndsRuns, RecordInv, ExitOfItsProcess,
           AllRecorded
      <4> QED
        BY <4>1, <4>2
    <3>5. OpenRunIsCurrent'
      <4> SUFFICES ASSUME errors = 0, NEW r \in DOMAIN runs, runs'[r].result = Open PROVE FALSE
        BY <1>6, <2>2 DEF OpenRunIsCurrent, AllRecorded, OpenRuns
      <4>1. r \notin Ended'
        BY DEF Ended, OpenRuns
      <4> QED
        BY <2>2, <3>2, <4>1 DEF EndsRuns, Ended
    <3> QED
      BY <1>3, <3>1, <3>3, <3>4, <3>5 DEF RecordInv
  <2> QED
    BY <1>5, <2>1, <2>2
<1> QED
  BY <1>7, <1>8, <1>9, <1>10 DEF IndInv

\* The run of a process that a job caused is linked to that job, which is the
\* latest one: the query of StartProcessRun finds it, if it looks in time.
LEMMA StartStep ==
    ASSUME IndInv, StartProcessRun
    PROVE  IndInv'
<1>1. TypeOK /\ LinkInv /\ JobInv /\ RecordInv /\ proc \in Process /\ errors \in Nat
  BY DEF IndInv, TypeOK
<1>2. UNCHANGED <<scheduler, queued, now, requested, exits>> /\ proc.at = "booting"
  BY DEF StartProcessRun
<1>3. proc'.at = "up" /\ proc'.number = proc.number /\ proc' \in Process
  BY <1>1 DEF StartProcessRun, Process
<1>4. scheduler = Waiting /\ scheduler.at = "wait" /\ queued = 0
  BY <1>1, <1>2 DEF JobInv, SchedulerInv, LinkInv, Waiting
<1>5. CASE runs' = runs /\ jobs' = jobs /\ errors' = errors + 1
  <2>1. TypeOK'
    BY SMT, <1>1, <1>2, <1>3, <1>5 DEF TypeOK
  <2>2. JobInv'
    <3>1. \A i \in DOMAIN jobs' : Requested(i)'
      BY <1>1, <1>2, <1>5 DEF JobInv, Requested
    <3> QED
      BY <1>2, <1>4, <3>1 DEF JobInv, SchedulerInv, Waiting
  <2>3. LinkInv'
    <3>1. (jobs # <<>> => \E i \in DOMAIN jobs : Latest(i))'
      BY <1>1, <1>5 DEF LinkInv, Latest
    <3>2. (errors <= 1 => \A r \in DOMAIN runs : RunLinked(r))'
      <4>1. \A i \in DOMAIN jobs : JobKept(i)
        BY <1>5 DEF JobKept
      <4> QED
        BY SMT, <1>1, <1>5, <4>1, RunsStayLinked
    <3> QED
      BY <1>2, <1>3, <1>4, <3>1, <3>2 DEF LinkInv, RequestLinked
  <2>4. RecordInv'
    BY SMT, <1>1, <1>3, <1>5 DEF RecordInv, Ended, OpenRuns, ExitOfItsProcess,
       OpenRunIsCurrent, AllRecorded
  <2> QED
    BY <2>1, <2>2, <2>3, <2>4 DEF IndInv
<1>6. ASSUME errors' = errors, NEW k \in Nat, Starts(k) PROVE IndInv'
  <2>1. /\ k > 0 /\ k \notin DOMAIN runs /\ DOMAIN runs' = DOMAIN runs \cup {k}
        /\ \A r \in DOMAIN runs : r < k /\ runs'[r] = runs[r]
        /\ DOMAIN jobs' = DOMAIN jobs
        /\ \A i \in DOMAIN jobs : SameClaim(i)
        /\ \A i \in Linked : jobs'[i].status = "completed" /\ jobs'[i].run = k
        /\ \A i \in DOMAIN jobs \ Linked : jobs'[i] = jobs[i]
    BY <1>6 DEF Starts
  <2>2. TypeOK'
    BY <1>1, <1>2, <1>3, <1>6 DEF TypeOK, Starts
  <2>3. \A i \in Linked : i \in DOMAIN jobs /\ jobs[i].status \in {"completed", "running"}
    BY DEF Linked, Linkable
  <2>4. JobInv'
    <3>1. \A i \in DOMAIN jobs' : Requested(i)'
      BY SMT, <1>1, <1>2, <2>1, <2>3 DEF JobInv, Requested
    <3> QED
      BY <1>2, <1>4, <3>1 DEF JobInv, SchedulerInv, Waiting
  <2>5. LinkInv'
    <3>1. (jobs # <<>> => \E i \in DOMAIN jobs : Latest(i))'
      <4>1. \A i \in DOMAIN jobs : Latest(i) => Latest(i)'
        BY <2>1 DEF Latest, SameClaim
      <4>2. jobs' # <<>> => jobs # <<>>
        <5>1. jobs' \in Seq(Job) /\ jobs \in Seq(Job) /\ Len(jobs') = Len(jobs)
          BY <1>1, <1>6 DEF Starts, TypeOK
        <5> QED
          BY <5>1, EmptySeq
      <4> QED
        BY <1>1, <2>1, <4>1, <4>2 DEF LinkInv
    <3>2. errors' <= 1 => \A r \in DOMAIN runs : RunLinked(r)'
      <4>1. \A i \in DOMAIN jobs : JobKept(i)
        BY SMT, <2>1, <2>3 DEF JobKept, SameClaim
      <4>2. \A r \in DOMAIN runs : RunKept(r)
        BY <2>1 DEF RunKept
      <4> QED
        BY <1>1, <1>6, <4>1, <4>2, RunLinkedKept DEF LinkInv
    <3>3. errors' <= 1 => RunLinked(k)'
      <4> SUFFICES ASSUME errors <= 1, proc.cause = "job"
                   PROVE  LET j == proc.job IN
                          /\ j \in DOMAIN jobs' /\ jobs'[j].status # "pending"
                          /\ jobs'[j].status # "failed" /\ jobs'[j].executedAt + Window >= now
                                => runs'[k].trigger = "admin" /\ jobs'[j].run # 0
        BY <1>6 DEF RunLinked, Starts
      <4>1. Failed(proc.job) \/ Findable(proc.job)
        BY <1>1, <1>2 DEF LinkInv, RequestLinked
      <4>2. CASE Failed(proc.job)
        BY <2>1, <2>3, <4>2 DEF Failed
      <4>3. CASE Findable(proc.job)
        <5>1. proc.job \in Linkable => proc.job \in Linked /\ Linked # {}
          BY <4>3 DEF Findable, Latest, Linked, Linkable
        <5>2. proc.job \in DOMAIN jobs
          BY <4>3 DEF Findable, Latest
        <5>3. CASE proc.job \in Linkable
          BY SMT, <1>6, <2>1, <5>1, <5>2, <5>3 DEF Starts
        <5>4. CASE proc.job \notin Linkable
          <6>1. jobs'[proc.job] = jobs[proc.job]
            BY <2>1, <5>2, <5>4 DEF Linked
          <6> QED
            BY <2>1, <4>3, <5>2, <5>4, <6>1 DEF Findable, Linkable
        <5> QED
          BY <5>3, <5>4
      <4> QED
        BY <4>1, <4>2, <4>3
    <3> QED
      BY <1>2, <1>3, <1>4, <2>1, <3>1, <3>2, <3>3 DEF LinkInv, RequestLinked
  <2>6. RecordInv'
    <3>1. /\ runs'[k].pid = proc.number /\ runs'[k].result = Open /\ runs'[k].ended = 0
          /\ proc.number > 0 /\ \A r \in DOMAIN runs : runs[r].pid < proc.number
      BY <1>1, <1>2, <1>6 DEF Starts, RecordInv
    <3>2. proc.number \in Nat /\ \A r \in DOMAIN runs : runs[r].pid \in Nat
      BY <1>1, RunTypes DEF Process
    <3>3. /\ \A r \in DOMAIN runs' : runs'[r].pid <= proc'.number /\ runs'[r].pid > 0
          /\ \A q, r \in DOMAIN runs' : runs'[q].pid = runs'[r].pid => q = r
      BY SMT, <1>1, <1>3, <2>1, <3>1, <3>2 DEF RecordInv
    <3>4. Ended' = Ended
      BY <2>1, <3>1 DEF Ended, OpenRuns
    <3>5. (Ended # {} => \E r \in Ended : \A q \in Ended : q <= r)'
      BY <1>1, <3>4 DEF RecordInv
    <3>6. ExitOfItsProcess'
      BY <1>1, <1>6, <2>1, <3>1 DEF RecordInv, ExitOfItsProcess, AllRecorded
    <3>7. OpenRunIsCurrent'
      <4>1. errors = 0 => OpenRuns = {}
        BY <1>1, <1>2 DEF RecordInv, OpenRunIsCurrent, AllRecorded
      <4> QED
        BY <1>3, <1>6, <2>1, <3>1, <4>1 DEF OpenRunIsCurrent, AllRecorded,
           OpenRuns
    <3> QED
      BY <1>3, <3>3, <3>5, <3>6, <3>7 DEF RecordInv
  <2> QED
    BY <2>2, <2>4, <2>5, <2>6 DEF IndInv
<1> QED
  BY <1>1, <1>5, <1>6, StartEffect

\* A step that leaves the tables, the process and the scheduler alone.
LEMMA StutterStep ==
    ASSUME IndInv, now' \in Nat,
           UNCHANGED <<jobs, runs, proc, scheduler, queued, requested, exits, errors>>
    PROVE  IndInv'
<1>1. TypeOK'
  BY DEF IndInv, TypeOK
<1>2. JobInv'
  BY DEF IndInv, JobInv, SchedulerInv, Requested, Waiting
<1>3. LinkInv'
  BY SMT DEF IndInv, LinkInv, RequestLinked, RunLinked, Findable, Failed, Latest
<1>4. RecordInv'
  BY RecordStutter
<1> QED
  BY <1>1, <1>2, <1>3, <1>4 DEF IndInv
----------------------------------------------------------------------------
\* The inductive invariant holds in every state, whatever fails between the
\* statements of the scheduler, the process and record-exit.
THEOREM Invariance == Spec => []IndInv
<1>1. Init => IndInv
  <2> SUFFICES ASSUME Init PROVE IndInv
    OBVIOUS
  <2>1. jobs = <<>> /\ runs = <<>> /\ requested = <<>> /\ DOMAIN jobs = {} /\ DOMAIN runs = {}
    BY SMT DEF Init
  <2>2. TypeOK
    BY SMT DEF Init, TypeOK, Process, Waiting
  <2>3. JobInv /\ LinkInv
    BY <2>1 DEF Init, JobInv, SchedulerInv, LinkInv, RequestLinked, Waiting
  <2>4. RecordInv
    BY <2>1 DEF Init, RecordInv, Ended, OpenRuns, ExitOfItsProcess,
       OpenRunIsCurrent
  <2> QED
    BY <2>2, <2>3, <2>4 DEF IndInv
<1>2. IndInv /\ [Next]_vars => IndInv'
  <2> SUFFICES ASSUME IndInv, [Next]_vars PROVE IndInv'
    OBVIOUS
  <2>1. ASSUME NEW t \in 0..MaxNow, ScheduleRestart(t) PROVE IndInv'
    BY <2>1, ScheduleStep
  <2>2. CASE ClaimDueRestart
    BY <2>2, ClaimStep
  <2>3. CASE RestartUnit
    BY <2>3, RequestStep
  <2>4. CASE CompleteRestartJob
    BY <2>4, CompleteStep
  <2>5. CASE Stopped
    BY <2>5, EndStep DEF Stopped, IndInv, TypeOK
  <2>6. ASSUME NEW result \in {"success", "failure"}, Exit(result) PROVE IndInv'
    BY SMT, <2>6, EndStep DEF Exit, IndInv, TypeOK
  <2>7. CASE RecordProcessExit
    BY <2>7, RecordExitStep
  <2>8. CASE Boot
    BY <2>8, BootStep
  <2>9. CASE StartProcessRun
    BY <2>9, StartStep
  <2>10. CASE Tick
    <3>1. now' \in Nat
      BY SMT, <2>10 DEF Tick, IndInv, TypeOK
    <3> QED
      BY <2>10, <3>1, StutterStep DEF Tick
  <2>11. CASE UNCHANGED vars
    <3>1. now' \in Nat
      BY <2>11 DEF vars, IndInv, TypeOK
    <3> QED
      BY <2>11, <3>1, StutterStep DEF vars
  <2> QED
    BY <2>1, <2>2, <2>3, <2>4, <2>5, <2>6, <2>7, <2>8, <2>9, <2>10, <2>11
       DEF Next
<1> QED
  BY <1>1, <1>2, PTL DEF Spec

\* No job is requested of systemd twice (ClaimDueRestart is the only way to a
\* request, and a claimed job is never pending again).
THEOREM ExecutedTheorem == Spec => []ExecutedOnce
<1>1. IndInv => ExecutedOnce
  <2> SUFFICES ASSUME IndInv PROVE ExecutedOnce
    OBVIOUS
  <2>1. DOMAIN requested = DOMAIN jobs
    BY JobTypes DEF IndInv
  <2> QED
    BY <2>1 DEF IndInv, JobInv, Requested, ExecutedOnce
<1> QED
  BY <1>1, Invariance, PTL

\* StartProcessRun links an administrator's restart to the run it caused, and
\* RecordProcessExit ends the run of the process that ended, with or without its
\* pid.
THEOREM RunsTheorem == Spec => []RunsAreTheirProcesses
<1>1. IndInv => RunsAreTheirProcesses
  BY DEF IndInv, LinkInv, RecordInv, RunsAreTheirProcesses, RestartLinked,
     RunLinked
<1> QED
  BY <1>1, Invariance, PTL
=============================================================================
