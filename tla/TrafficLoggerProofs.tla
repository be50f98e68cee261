------------------------ MODULE TrafficLoggerProofs ------------------------
(***************************************************************************)
(* Proofs about TrafficLogger for every set of users, nodes and streams,   *)
(* every bound and every set of policies and payloads.                     *)
(*                                                                         *)
(* IndInv is inductive.  Its parts are proved one lemma at a time; each    *)
(* lemma looks at the steps that can disturb its part, and StepCases       *)
(* collects the steps that leave the ledger alone.                         *)
(*                                                                         *)
(* The quota is about sums over the nodes of a user.  What is needed of    *)
(* them (SumOver, SumMonotone, SumWithin) is proved by taking a smallest   *)
(* subset for which it fails; then QuotaInv is inductive on top of IndInv. *)
(***************************************************************************)
EXTENDS TrafficLogger, FiniteSetTheorems, TLAPS

\* Most leaves are first-order reasoning; those with arithmetic or larger
\* expressions over records and functions cite SMT.
USE Zenon

LEMMA NoCallType == NoCall \in Calls
<1>1. PICK u \in Users, n \in Nodes : TRUE
  BY ConstantsAssumption DEF ConstantsAssumption
<1>2. <<u, n>> \in Id
  BY <1>1 DEF Id
<1>3. (CHOOSE id \in Id : TRUE) \in Id
  BY <1>2
<1> QED
  BY SMT, <1>3, ConstantsAssumption DEF NoCall, Calls, NoMonth,
     ConstantsAssumption

LEMMA InitType == Init => TypeOK
<1> SUFFICES ASSUME Init PROVE TypeOK
  OBVIOUS
<1>1. now \in Months /\ monthKey \in 0..MaxMonth
  BY SMT, ConstantsAssumption DEF ConstantsAssumption, Init, Months, NoMonth
<1>2. /\ calls \in 0..MaxCalls /\ updates \in 0..MaxUpdates
      /\ restarts \in 0..MaxRestarts
  BY SMT, ConstantsAssumption DEF ConstantsAssumption, Init
<1>3. call \in [Streams -> Calls]
  BY NoCallType DEF Init
<1> QED
  BY <1>1, <1>2, <1>3 DEF Init, TypeOK, Zero, ZeroId, Holders, Pcs

\* The steps that leave the books alone: no byte moves, nobody's hold on
\* flushMu changes, and whether the shutdown has ended cleanly stays so.
Quiet ==
    /\ UNCHANGED <<ledger, history>>
    /\ stopPc' = "done" <=> stopPc = "done"

LEMMA StepCases ==
    ASSUME [Next]_vars
    PROVE  \/ Quiet
           \/ \E s \in Streams : \/ LockForLoad(s) \/ LoadMonth(s)
                                 \/ LoadFails(s) \/ InstallMonth(s)
                                 \/ Commit(s)
           \/ \E f \in Flushers : FlusherStep(f)
           \/ Restart
<1> USE DEF stopVars
<1>1. ASSUME NEW s \in Streams, StreamStep(s)
      PROVE  \/ Quiet
             \/ LockForLoad(s) \/ LoadMonth(s) \/ LoadFails(s)
             \/ InstallMonth(s) \/ Commit(s)
  BY <1>1 DEF StreamStep, Quiet, LogTraffic, LimitDownload, Reserve,
     TimerFires, WakeUp, Admit, EnsureMonthlyUsage, ContextDone
<1>2. ASSUME PeriodicReturns \/ StopAdmission \/ StopContext \/ PeriodicJoined
             \/ StopTimesOut \/ NotifyUsersUpdated \/ Tick
      PROVE  Quiet
  BY <1>2 DEF Quiet, PeriodicReturns, StopAdmission, StopContext,
     PeriodicJoined, StopTimesOut, NotifyUsersUpdated, Tick
<1>3. ASSUME NEW new \in [Users -> Policies], PublishUsers(new)
      PROVE  Quiet
  BY <1>3 DEF Quiet, PublishUsers
<1>4. CASE UNCHANGED vars
  BY <1>4 DEF Quiet, vars
<1> QED
  BY <1>1, <1>2, <1>3, <1>4 DEF Next

\* A payload is charged: what Commit does to the books when it is let through.
Charges(id, bytes) ==
    LET cell == <<id, monthKey>> IN
    /\ ~stopping /\ monthKey \in Months
    /\ monthlyUsage' = [monthlyUsage EXCEPT ![id] = @ + bytes]
    /\ pending' = [pending EXCEPT ![cell] = @ + bytes]
    /\ delta' = [delta EXCEPT ![cell] = @ + bytes]
    /\ stats' = [stats EXCEPT ![cell] = @ + bytes]
    /\ charged' = [charged EXCEPT ![cell] = @ + bytes]
    /\ \/ forwarded' = forwarded
       \/ forwarded' = [forwarded EXCEPT ![cell] = @ + bytes]
    /\ UNCHANGED <<db, monthKey, statsLoaded, flushMu, batch, baseline, lost>>

LEMMA CommitCases ==
    ASSUME IndInv, NEW s \in Streams, Commit(s)
    PROVE  \/ UNCHANGED <<ledger, history>>
           \/ \E id \in Id, bytes \in Payloads : Charges(id, bytes)
<1>1. call[s].id \in Id /\ call[s].bytes \in Payloads /\ call[s].month \in Months
  BY DEF IndInv, MutexInv, TypeOK, Calls, Commit
<1>2. CASE stopping \/ monthKey # call[s].month
  BY <1>2 DEF Commit
<1>3. CASE ~stopping /\ monthKey = call[s].month
  <2>1. Charges(call[s].id, call[s].bytes)
    <3> DEFINE cell == <<call[s].id, call[s].month>>
    <3>1. forwarded \in [Cells -> Nat]
      BY DEF IndInv, TypeOK
    <3>2. \/ forwarded' = [forwarded EXCEPT ![cell] = forwarded[cell]]
          \/ forwarded' = [forwarded EXCEPT ![cell] = forwarded[cell] + call[s].bytes]
      BY <1>3 DEF Commit
    <3>3. [forwarded EXCEPT ![cell] = forwarded[cell]] = forwarded
      BY <3>1
    <3> QED
      BY <1>1, <1>3, <3>2, <3>3 DEF Commit, Charges
  <2> QED
    BY <1>1, <2>1
<1> QED
  BY <1>2, <1>3

LEMMA TypeStep == IndInv /\ [Next]_vars => TypeOK'
<1> SUFFICES ASSUME IndInv, [Next]_vars
             PROVE  TypeOK'
  OBVIOUS
<1> USE DEF ledger, stopVars, streamVars, policyVars, bounds, history
<1>a. TypeOK
  BY DEF IndInv
<1>1. ASSUME NEW s \in Streams, NEW id \in Id, NEW bytes \in Payloads,
             NEW rx \in BOOLEAN, LogTraffic(s, id, bytes, rx)
      PROVE  TypeOK'
  <2>1. call' \in [Streams -> Calls]
    <3>1. policy[UserOf(id)] \in Policy
      BY <1>a, ConstantsAssumption DEF ConstantsAssumption, TypeOK, UserOf, Id
    <3>2. bytes \in Nat /\ MaxMonth \in Nat
      BY ConstantsAssumption DEF ConstantsAssumption
    <3>3. [id |-> id, bytes |-> bytes, maxBytes |-> policy[UserOf(id)].maxBytes,
           month |-> NoMonth] \in Calls
      BY SMT, <3>1, <3>2 DEF Calls, NoMonth, Policy
    <3> QED
      BY <1>a, <1>1, <3>3 DEF LogTraffic, TypeOK
  <2>2. calls' \in 0..MaxCalls
    BY SMT, <1>a, <1>1, ConstantsAssumption DEF ConstantsAssumption, LogTraffic,
       TypeOK
  <2>3. pc' \in [Streams -> Pcs]
    BY <1>a, <1>1 DEF LogTraffic, TypeOK, Goto, Pcs
  <2> QED
    BY <1>a, <1>1, <2>1, <2>2, <2>3 DEF LogTraffic, TypeOK
<1>2. ASSUME NEW s \in Streams, LimitDownload(s) PROVE TypeOK'
  BY SMT, <1>a, <1>2, NoCallType DEF LimitDownload, TypeOK, Goto, Return, Pcs
<1>3. ASSUME NEW s \in Streams, Reserve(s) PROVE TypeOK'
  BY <1>a, <1>3 DEF Reserve, TypeOK, Goto, Pcs
<1>4. ASSUME NEW s \in Streams, TimerFires(s) PROVE TypeOK'
  BY <1>a, <1>4 DEF TimerFires, TypeOK, Goto, Pcs
<1>5. ASSUME NEW s \in Streams, WakeUp(s) PROVE TypeOK'
  BY <1>a, <1>5 DEF WakeUp, TypeOK, Goto, Pcs
<1>6. ASSUME NEW s \in Streams, Admit(s) PROVE TypeOK'
  <2>1. [call[s] EXCEPT !.month = now] \in Calls
    BY SMTT(30), <1>a DEF TypeOK, Calls, Months
  <2> QED
    BY SMTT(30), <1>a, <1>6, <2>1, NoCallType DEF Admit, Return, TypeOK, Goto,
       Pcs
<1>7. ASSUME NEW s \in Streams, EnsureMonthlyUsage(s) PROVE TypeOK'
  BY <1>a, <1>7 DEF EnsureMonthlyUsage, TypeOK, Goto, Pcs
<1>8. ASSUME NEW s \in Streams, LockForLoad(s) PROVE TypeOK'
  BY <1>a, <1>8 DEF LockForLoad, TypeOK, Goto, Pcs, Holders
<1>9. ASSUME NEW s \in Streams, LoadMonth(s) PROVE TypeOK'
  <2>1. call[s].month \in Months
    BY <1>9 DEF IndInv, MutexInv, LoadMonth
  <2>2. baseline' \in [Id -> Nat]
    BY <1>a, <1>9, <2>1 DEF LoadMonth, MonthTotals, TypeOK, Cells
  <2> QED
    BY <1>a, <1>9, <2>2 DEF LoadMonth, TypeOK, Goto, Pcs
<1>10. ASSUME NEW s \in Streams, LoadFails(s) PROVE TypeOK'
  BY <1>a, <1>10, NoCallType DEF LoadFails, TypeOK, Goto, Return, Pcs, Holders
<1>11. ASSUME NEW s \in Streams, InstallMonth(s) PROVE TypeOK'
  <2>1. call[s].month \in Months
    BY <1>11 DEF IndInv, MutexInv, InstallMonth
  <2>2. monthlyUsage' \in [Id -> Nat]
    BY SMT, <1>a, <1>11, <2>1 DEF InstallMonth, LoadedUsage, TypeOK, Cells
  <2>3. monthKey' \in 0..MaxMonth
    BY SMT, <1>11, <2>1 DEF InstallMonth, LoadedUsage, Months
  <2> QED
    BY <1>a, <1>11, <2>2, <2>3 DEF InstallMonth, LoadedUsage, TypeOK, Goto, Pcs,
       Holders, ZeroId
<1>12. ASSUME NEW s \in Streams, Commit(s) PROVE TypeOK'
  <2>1. pc' \in [Streams -> Pcs] /\ call' \in [Streams -> Calls]
    BY <1>a, <1>12, NoCallType DEF Commit, Return, Goto, TypeOK, Pcs
  <2>2. CASE UNCHANGED <<ledger, history>>
    BY <1>a, <1>12, <2>1, <2>2 DEF Commit, TypeOK
  <2>3. ASSUME NEW id \in Id, NEW bytes \in Payloads, Charges(id, bytes)
        PROVE  TypeOK'
    <3>1. bytes \in Nat
      BY ConstantsAssumption DEF ConstantsAssumption
    <3>2. /\ monthlyUsage' \in [Id -> Nat] /\ pending' \in [Cells -> Nat]
          /\ delta' \in [Cells -> Nat] /\ stats' \in [Cells -> Nat]
          /\ charged' \in [Cells -> Nat] /\ forwarded' \in [Cells -> Nat]
      <4>1. <<id, monthKey>> \in Cells
        BY <2>3 DEF Charges, Cells
      <4>2. monthlyUsage' \in [Id -> Nat] /\ pending' \in [Cells -> Nat]
        BY SMT, <1>a, <2>3, <3>1, <4>1 DEF Charges, TypeOK
      <4>3. delta' \in [Cells -> Nat] /\ stats' \in [Cells -> Nat]
        BY SMT, <1>a, <2>3, <3>1, <4>1 DEF Charges, TypeOK
      <4>4. charged' \in [Cells -> Nat]
        BY SMT, <1>a, <2>3, <3>1, <4>1 DEF Charges, TypeOK
      <4>5. forwarded' \in [Cells -> Nat]
        <5>1. [forwarded EXCEPT ![<<id, monthKey>>] = @ + bytes] \in [Cells -> Nat]
          BY SMT, <1>a, <3>1, <4>1 DEF TypeOK
        <5> QED
          BY <1>a, <2>3, <5>1 DEF Charges, TypeOK
      <4> QED
        BY <4>2, <4>3, <4>4, <4>5
    <3> QED
      BY <1>a, <1>12, <2>1, <2>3, <3>2 DEF Commit, Charges, TypeOK
  <2> QED
    BY <1>12, <2>2, <2>3, CommitCases
<1>13. ASSUME NEW s \in Streams, ContextDone(s) PROVE TypeOK'
  BY <1>a, <1>13, NoCallType DEF ContextDone, TypeOK, Goto, Return, Pcs
<1>14. ASSUME NEW f \in Flushers, FlushDetach(f) PROVE TypeOK'
  <2>1. Minus(delta, pending) = Zero
    BY SMT, <1>a DEF IndInv, CountersFollowLedger, TypeOK, Minus, Zero
  <2> QED
    BY SMT, <1>a, <1>14, <2>1 DEF FlushDetach, DeltaLeft, FlushReturns, TypeOK,
       Zero, Holders
<1>15. ASSUME NEW f \in Flushers, FlushCommit(f) PROVE TypeOK'
  BY SMT, <1>a, <1>15 DEF FlushCommit, FlushReturns, TypeOK, Plus, Zero, Holders
<1>16. ASSUME NEW f \in Flushers, FlushFails(f) PROVE TypeOK'
  BY SMT, <1>a, <1>16 DEF FlushFails, PendingRestored, DeltaRestored,
     FlushReturns, TypeOK, Plus, Zero, Holders
<1>17. CASE PeriodicReturns
  BY <1>a, <1>17 DEF PeriodicReturns, TypeOK
<1>18. CASE StopAdmission
  BY <1>a, <1>18 DEF StopAdmission, WakeLimiters, TypeOK
<1>19. CASE StopContext
  BY <1>a, <1>19 DEF StopContext, WakeLimiters, TypeOK
<1>20. CASE PeriodicJoined
  BY <1>a, <1>20 DEF PeriodicJoined, TypeOK
<1>21. CASE StopTimesOut
  BY <1>a, <1>21 DEF StopTimesOut, TypeOK
<1>22. ASSUME NEW new \in [Users -> Policies], PublishUsers(new) PROVE TypeOK'
  BY SMT, <1>a, <1>22, ConstantsAssumption
     DEF ConstantsAssumption, PublishUsers, TypeOK
<1>23. CASE NotifyUsersUpdated
  BY <1>a, <1>23 DEF NotifyUsersUpdated, WakeLimiters, TypeOK
<1>24. CASE Tick
  BY SMT, <1>a, <1>24, ConstantsAssumption DEF ConstantsAssumption, Tick,
     TypeOK, Months
<1>25. CASE Restart
  <2>1. /\ monthKey' \in 0..MaxMonth /\ monthlyUsage' \in [Id -> Nat]
        /\ stats' \in [Cells -> Nat] /\ statsLoaded' \in BOOLEAN
    BY SMTT(30), <1>a, <1>25, ConstantsAssumption
       DEF ConstantsAssumption, Restart, NewTrafficLogger, TypeOK, MonthTotals,
           Cells, ZeroId, Zero, NoMonth, Months
  <2>2. restarts' \in 0..MaxRestarts
    BY SMTT(30), <1>a, <1>25, ConstantsAssumption DEF ConstantsAssumption,
       Restart, TypeOK
  <2>3. /\ Zero \in [Cells -> Nat] /\ ZeroId \in [Id -> Nat]
        /\ lost' \in [Cells -> Nat]
    BY SMT, <1>a, <1>25 DEF Restart, TypeOK, Plus, Zero, ZeroId
  <2>4. /\ pc' \in [Streams -> Pcs] /\ call' \in [Streams -> Calls]
        /\ notified' \in [Streams -> BOOLEAN]
    BY <1>25, NoCallType DEF Restart, Pcs
  <2> QED
    BY <1>a, <1>25, <2>1, <2>2, <2>3, <2>4 DEF Restart, TypeOK, Holders
<1>26. CASE UNCHANGED vars
  BY <1>a, <1>26 DEF vars, TypeOK
<1> QED
  BY <1>1, <1>2, <1>3, <1>4, <1>5, <1>6, <1>7, <1>8, <1>9, <1>10, <1>11,
     <1>12, <1>13, <1>14, <1>15, <1>16, <1>17, <1>18, <1>19, <1>20, <1>21,
     <1>22, <1>23, <1>24, <1>25, <1>26 DEF Next, StreamStep, FlusherStep

\* A stream that neither holds flushMu nor takes it cannot disturb MutexInv.
LEMMA StreamMoves ==
    ASSUME IndInv, NEW s \in Streams,
           UNCHANGED <<flushMu, batch, baseline, db, stopPc, stopping>>,
           pending' = pending \/ ~stopping,
           \A t \in Streams \ {s} : pc'[t] = pc[t] /\ call'[t] = call[t],
           pc[s] \notin {"load", "install"},
           pc'[s] \notin {"load", "install"},
           pc'[s] \in {"ensure", "lock", "commit"} => call'[s].month \in Months,
           pc'[s] # "idle" => call'[s].bytes \in Payloads
    PROVE  MutexInv'
<1>1. MutexInv
  BY DEF IndInv
<1>2. flushMu = "final" => pending' = pending
  BY <1>1 DEF MutexInv
<1>3. ASSUME NEW t \in Streams
      PROVE  /\ pc'[t] \in {"load", "install"} <=> flushMu = t
             /\ pc'[t] \in {"ensure", "lock", "load", "install", "commit"}
                  => call'[t].month \in Months
             /\ pc'[t] # "idle" => call'[t].bytes \in Payloads
             /\ pc'[t] = "install" => baseline = MonthTotals(call'[t].month)
  BY <1>1 DEF MutexInv
<1> QED
  BY SMT, <1>1, <1>2, <1>3 DEF MutexInv, MonthTotals, Zero

LEMMA MutexStep == IndInv /\ [Next]_vars => MutexInv'
<1> SUFFICES ASSUME IndInv, [Next]_vars
             PROVE  MutexInv'
  OBVIOUS
<1> USE DEF ledger, stopVars, streamVars, policyVars, bounds, history
<1>a. TypeOK /\ MutexInv
  BY DEF IndInv
<1>b. Streams \cap Flushers = {} /\ Free \notin Streams /\ Free \notin Flushers
  BY NamesAssumption DEF NamesAssumption, Flushers, Free
<1>1. ASSUME NEW s \in Streams, NEW id \in Id, NEW bytes \in Payloads,
             NEW rx \in BOOLEAN, LogTraffic(s, id, bytes, rx)
      PROVE  MutexInv'
  <2>1. /\ \A t \in Streams \ {s} : pc'[t] = pc[t] /\ call'[t] = call[t]
        /\ pc'[s] \in {"idle", "limit", "admit"}
    BY <1>a, <1>1 DEF LogTraffic, Goto, TypeOK
  <2>2. pc'[s] # "idle" => call'[s].bytes = bytes
    BY SMT, <1>a, <1>1 DEF LogTraffic, Goto, TypeOK
  <2> QED
    BY <1>1, <2>1, <2>2, StreamMoves DEF LogTraffic
<1>2. ASSUME NEW s \in Streams, LimitDownload(s) PROVE MutexInv'
  <2>1. /\ \A t \in Streams \ {s} : pc'[t] = pc[t] /\ call'[t] = call[t]
        /\ pc'[s] \in {"idle", "admit", "reserve"}
        /\ pc'[s] # "idle" => call'[s] = call[s]
    BY <1>a, <1>2 DEF LimitDownload, Return, Goto, TypeOK
  <2> QED
    BY <1>a, <1>2, <2>1, StreamMoves DEF LimitDownload, MutexInv
<1>3. ASSUME NEW s \in Streams, Reserve(s) PROVE MutexInv'
  BY SMT, <1>a, <1>3 DEF Reserve, TypeOK, MutexInv, Goto, MonthTotals
<1>4. ASSUME NEW s \in Streams, TimerFires(s) \/ WakeUp(s) PROVE MutexInv'
  <2>1. /\ \A t \in Streams \ {s} : pc'[t] = pc[t] /\ call'[t] = call[t]
        /\ pc[s] = "wait" /\ pc'[s] \in {"admit", "limit"}
        /\ call'[s] = call[s]
    BY <1>a, <1>4 DEF TimerFires, WakeUp, Goto, TypeOK
  <2>2. UNCHANGED <<ledger, stopPc, stopping>>
    BY <1>4 DEF TimerFires, WakeUp
  <2> QED
    BY <1>a, <2>1, <2>2, StreamMoves DEF MutexInv
<1>6. ASSUME NEW s \in Streams, Admit(s) PROVE MutexInv'
  <2>1. CASE stopping
    BY SMT, <1>a, <1>6, <2>1 DEF Admit, Return, TypeOK, MutexInv, Goto,
       MonthTotals
  <2>2. CASE ~stopping
    <3>1. call'[s].month = now /\ call'[s].bytes = call[s].bytes
      BY SMT, <1>a, <1>6, <2>2 DEF Admit, TypeOK, Calls
    <3>2. \A t \in Streams \ {s} : call'[t] = call[t] /\ pc'[t] = pc[t]
      BY <1>a, <1>6, <2>2 DEF Admit, Goto, TypeOK
    <3>3. pc'[s] = "ensure"
      BY <1>a, <1>6, <2>2 DEF Admit, Goto, TypeOK
    <3> QED
      BY SMT, <1>a, <1>6, <2>2, <3>1, <3>2, <3>3 DEF Admit, TypeOK, MutexInv,
         MonthTotals
  <2> QED
    BY <2>1, <2>2
<1>7. ASSUME NEW s \in Streams, EnsureMonthlyUsage(s) PROVE MutexInv'
  BY SMT, <1>a, <1>7 DEF EnsureMonthlyUsage, TypeOK, MutexInv, Goto, MonthTotals
<1>8. ASSUME NEW s \in Streams, LockForLoad(s) PROVE MutexInv'
  BY SMT, <1>a, <1>b, <1>8 DEF LockForLoad, TypeOK, MutexInv, Goto, MonthTotals,
     Flushers
<1>9. ASSUME NEW s \in Streams, LoadMonth(s) PROVE MutexInv'
  BY <1>a, <1>b, <1>9 DEF LoadMonth, TypeOK, MutexInv, Goto, MonthTotals
<1>10. ASSUME NEW s \in Streams, LoadFails(s) PROVE MutexInv'
  BY <1>a, <1>b, <1>10 DEF LoadFails, TypeOK, MutexInv, Goto, Return,
     MonthTotals, Flushers
<1>11. ASSUME NEW s \in Streams, InstallMonth(s) PROVE MutexInv'
  BY <1>a, <1>b, <1>11 DEF InstallMonth, LoadedUsage, TypeOK, MutexInv, Goto,
     MonthTotals, Flushers
<1>12. ASSUME NEW s \in Streams, Commit(s) PROVE MutexInv'
  <2>1. /\ \A t \in Streams \ {s} : pc'[t] = pc[t] /\ call'[t] = call[t]
        /\ pc'[s] = "idle"
    BY <1>a, <1>12 DEF Commit, Return, Goto, TypeOK
  <2>2. UNCHANGED <<flushMu, batch, baseline, db, stopPc, stopping>>
    BY <1>12 DEF Commit
  <2>3. pending' = pending \/ ~stopping
    BY <1>12 DEF Commit
  <2>4. pc[s] = "commit"
    BY <1>12 DEF Commit
  <2> QED
    BY <2>1, <2>2, <2>3, <2>4, StreamMoves
<1>13. ASSUME NEW s \in Streams, ContextDone(s) PROVE MutexInv'
  BY SMT, <1>a, <1>13 DEF ContextDone, TypeOK, MutexInv, Goto, Return,
     MonthTotals
<1>14. ASSUME NEW f \in Flushers, FlushDetach(f) PROVE MutexInv'
  BY <1>a, <1>b, <1>14 DEF FlushDetach, DeltaLeft, FlushReturns, MayFlush,
     TypeOK, MutexInv, MonthTotals, Flushers
<1>15. ASSUME NEW f \in Flushers, FlushCommit(f) PROVE MutexInv'
  BY <1>a, <1>b, <1>15 DEF FlushCommit, FlushReturns, TypeOK, MutexInv,
     MonthTotals, Flushers
<1>16. ASSUME NEW f \in Flushers, FlushFails(f) PROVE MutexInv'
  BY <1>a, <1>b, <1>16 DEF FlushFails, PendingRestored, FlushReturns,
     TypeOK, MutexInv, MonthTotals, Flushers
<1>17. CASE PeriodicReturns \/ PeriodicJoined \/ StopTimesOut
  BY <1>a, <1>17 DEF PeriodicReturns, PeriodicJoined, StopTimesOut, MutexInv,
     MonthTotals
<1>18. CASE StopAdmission \/ StopContext
  BY <1>a, <1>18 DEF StopAdmission, StopContext, MutexInv, MonthTotals
<1>22. CASE \E new \in [Users -> Policies] : PublishUsers(new)
  <2>1. UNCHANGED <<pc, call, flushMu, baseline, db, batch, pending, stopPc,
                    stopping>>
    BY <1>22 DEF PublishUsers
  <2> QED
    BY <1>a, <2>1 DEF MutexInv, MonthTotals
<1>23. CASE NotifyUsersUpdated \/ Tick
  BY <1>a, <1>23 DEF NotifyUsersUpdated, Tick, MutexInv, MonthTotals
<1>25. CASE Restart
  BY <1>a, <1>b, <1>25 DEF Restart, MutexInv, Free
<1>26. CASE UNCHANGED vars
  BY <1>a, <1>26 DEF vars, MutexInv, MonthTotals
<1> QED
  BY <1>1, <1>2, <1>3, <1>4, <1>6, <1>7, <1>8, <1>9, <1>10, <1>11, <1>12,
     <1>13, <1>14, <1>15, <1>16, <1>17, <1>18, <1>22, <1>23, <1>25, <1>26
     DEF Next, StreamStep, FlusherStep

LEMMA BooksStep ==
    IndInv /\ [Next]_vars
        => /\ CachedUsageExact' /\ BytesConserved'
           /\ CountersFollowLedger' /\ CleanStopPersistsAll'
<1> DEFINE Books == /\ CachedUsageExact /\ BytesConserved
                    /\ CountersFollowLedger /\ CleanStopPersistsAll
<1> SUFFICES ASSUME IndInv, [Next]_vars
             PROVE  Books'
  OBVIOUS
<1> USE DEF ledger, stopVars, history
<1>a. TypeOK /\ MutexInv /\ Books
  BY DEF IndInv
<1>b. Streams \cap Flushers = {} /\ Free \notin Flushers
  BY NamesAssumption DEF NamesAssumption, Flushers, Free
<1>1. CASE Quiet
  BY <1>a, <1>1 DEF Quiet, CachedUsageExact, BytesConserved,
     CountersFollowLedger, CleanStopPersistsAll, Zero
<1>2. ASSUME NEW s \in Streams, LockForLoad(s) \/ LoadMonth(s) \/ LoadFails(s)
      PROVE  Books'
  BY SMT, <1>a, <1>2 DEF LockForLoad, LoadMonth, LoadFails, CachedUsageExact,
     BytesConserved, CountersFollowLedger, CleanStopPersistsAll, Zero
<1>3. ASSUME NEW s \in Streams, InstallMonth(s)
      PROVE  Books'
  <2>1. CachedUsageExact'
    <3>1. baseline = MonthTotals(call[s].month) /\ call[s].month \in Months
      BY <1>a, <1>3 DEF InstallMonth, LoadedUsage, MutexInv
    <3>2. batch = Zero
      BY <1>a, <1>b, <1>3 DEF InstallMonth, LoadedUsage, MutexInv
    <3> QED
      BY SMT, <1>a, <1>3, <3>1, <3>2 DEF InstallMonth, LoadedUsage,
         CachedUsageExact, MonthTotals, Zero, TypeOK, Cells
  <2> QED
    BY <1>a, <1>3, <2>1 DEF InstallMonth, LoadedUsage, BytesConserved,
       CountersFollowLedger, CleanStopPersistsAll, Zero
<1>4. ASSUME NEW s \in Streams, Commit(s)
      PROVE  Books'
  <2>1. CASE UNCHANGED <<ledger, history>>
    BY <1>a, <1>4, <2>1 DEF Commit, CachedUsageExact, BytesConserved,
       CountersFollowLedger, CleanStopPersistsAll, Zero
  <2>2. ASSUME NEW id \in Id, NEW bytes \in Payloads, Charges(id, bytes)
        PROVE  Books'
    <3>1. bytes \in Nat
      BY ConstantsAssumption DEF ConstantsAssumption
    <3>2. \A i \in Id : <<i, monthKey>> \in Cells
      BY <2>2 DEF Charges, Cells
    <3> DEFINE Bump(f, c) == IF c = <<id, monthKey>> THEN f[c] + bytes ELSE f[c]
    <3>p. \A c \in Cells : pending'[c] = Bump(pending, c)
      BY <1>a, <2>2 DEF Charges, TypeOK
    <3>c. \A c \in Cells : charged'[c] = Bump(charged, c)
      BY <1>a, <2>2 DEF Charges, TypeOK
    <3>d. \A c \in Cells : delta'[c] = Bump(delta, c)
      BY <1>a, <2>2 DEF Charges, TypeOK
    <3>t. \A c \in Cells : stats'[c] = Bump(stats, c)
      BY <1>a, <2>2 DEF Charges, TypeOK
    <3>u. UNCHANGED <<db, batch, lost, monthKey, statsLoaded>>
      BY <2>2 DEF Charges
    <3>v. \A c \in Cells : /\ db[c] \in Nat /\ batch[c] \in Nat /\ lost[c] \in Nat
                           /\ pending[c] \in Nat
      BY <1>a DEF TypeOK
    <3>3. CachedUsageExact'
      <4> SUFFICES ASSUME NEW i \in Id
                   PROVE  monthlyUsage'[i] = db[<<i, monthKey>>]
                              + batch[<<i, monthKey>>] + pending'[<<i, monthKey>>]
        BY <3>u DEF CachedUsageExact
      <4>1. monthlyUsage[i] = db[<<i, monthKey>>] + batch[<<i, monthKey>>]
                                + pending[<<i, monthKey>>]
        BY SMT, <1>a, <2>2 DEF Charges, CachedUsageExact, Months, NoMonth
      <4>2. monthlyUsage'[i] = IF i = id THEN monthlyUsage[i] + bytes
                                         ELSE monthlyUsage[i]
        BY <1>a, <2>2 DEF Charges, TypeOK
      <4> QED
        BY SMT, <3>1, <3>2, <3>p, <3>v, <4>1, <4>2
    <3>4. BytesConserved'
      <4> SUFFICES ASSUME NEW c \in Cells
                   PROVE  charged'[c] = db[c] + batch[c] + pending'[c] + lost[c]
        BY <3>u DEF BytesConserved
      <4>1. charged[c] = db[c] + batch[c] + pending[c] + lost[c]
        BY <1>a DEF BytesConserved
      <4> QED
        BY SMT, <3>1, <3>p, <3>c, <3>v, <4>1
    <3>5. CountersFollowLedger'
      BY SMT, <1>a, <3>1, <3>p, <3>d, <3>t, <3>u, <3>v DEF CountersFollowLedger
    <3>6. CleanStopPersistsAll'
      BY <1>a, <1>4, <2>2 DEF Commit, Charges, MutexInv, CleanStopPersistsAll
    <3> QED
      BY <3>3, <3>4, <3>5, <3>6
  <2> QED
    BY <1>4, <2>1, <2>2, CommitCases
<1>5. ASSUME NEW f \in Flushers, FlushDetach(f)
      PROVE  Books'
  <2>1. batch = Zero
    BY <1>a, <1>b, <1>5 DEF FlushDetach, DeltaLeft, MutexInv
  <2>2. CachedUsageExact'
    BY SMT, <1>a, <1>5, <2>1 DEF FlushDetach, DeltaLeft, CachedUsageExact,
       TypeOK, Zero, NoMonth, Months, Cells
  <2>3. BytesConserved' /\ CountersFollowLedger'
    BY SMT, <1>a, <1>5, <2>1 DEF FlushDetach, DeltaLeft, BytesConserved,
       CountersFollowLedger, TypeOK, Zero, Minus
  <2>4. CleanStopPersistsAll'
    BY <1>a, <1>5, <2>1 DEF FlushDetach, DeltaLeft, FlushReturns,
       CleanStopPersistsAll, Zero
  <2> QED
    BY <2>2, <2>3, <2>4
<1>6. ASSUME NEW f \in Flushers, FlushCommit(f)
      PROVE  Books'
  <2>1. CachedUsageExact'
    BY SMT, <1>a, <1>6 DEF FlushCommit, CachedUsageExact, TypeOK, Zero, Plus,
       NoMonth, Months, Cells
  <2>2. BytesConserved' /\ CountersFollowLedger'
    BY SMT, <1>a, <1>6 DEF FlushCommit, BytesConserved, CountersFollowLedger,
       TypeOK, Zero, Plus
  <2>3. CleanStopPersistsAll'
    BY <1>a, <1>6 DEF FlushCommit, FlushReturns, CleanStopPersistsAll,
       MutexInv, Zero
  <2> QED
    BY <2>1, <2>2, <2>3
<1>7. ASSUME NEW f \in Flushers, FlushFails(f)
      PROVE  Books'
  <2>1. CachedUsageExact'
    BY SMT, <1>a, <1>7 DEF FlushFails, PendingRestored, DeltaRestored,
       CachedUsageExact, TypeOK, Zero, Plus, NoMonth, Months, Cells
  <2>2. BytesConserved' /\ CountersFollowLedger'
    BY SMT, <1>a, <1>7 DEF FlushFails, PendingRestored, DeltaRestored,
       BytesConserved, CountersFollowLedger, TypeOK, Zero, Plus
  <2>3. CleanStopPersistsAll'
    <3> SUFFICES ASSUME stopPc' = "done"
                 PROVE  pending' = Zero /\ batch' = Zero
      BY DEF CleanStopPersistsAll, Zero
    <3>1. stopPc = "done"
      BY <1>7 DEF FlushFails, FlushReturns
    <3>2. pending = Zero /\ batch = Zero
      BY <1>a, <3>1 DEF CleanStopPersistsAll
    <3>3. Plus(Zero, Zero) = Zero
      BY SMT DEF Plus, Zero
    <3> QED
      BY <1>7, <3>2, <3>3 DEF FlushFails, PendingRestored
  <2> QED
    BY <2>1, <2>2, <2>3
<1>8. CASE Restart
  <2>1. CachedUsageExact'
    BY SMT, <1>a, <1>8 DEF Restart, NewTrafficLogger, CachedUsageExact, TypeOK,
       Zero, MonthTotals, NoMonth, Months, Cells
  <2>2. BytesConserved'
    BY SMT, <1>a, <1>8 DEF Restart, BytesConserved, TypeOK, Zero, Plus
  <2>3. CountersFollowLedger'
    BY SMT, <1>a, <1>8 DEF Restart, NewTrafficLogger, CountersFollowLedger,
       TypeOK, Zero
  <2>4. CleanStopPersistsAll'
    BY <1>8 DEF Restart, CleanStopPersistsAll
  <2> QED
    BY <2>1, <2>2, <2>3, <2>4
<1> QED
  BY <1>1, <1>2, <1>3, <1>4, <1>5, <1>6, <1>7, <1>8, StepCases DEF FlusherStep

LEMMA InitIndInv == Init => IndInv
<1> SUFFICES ASSUME Init PROVE IndInv
  OBVIOUS
<1>1. Free \notin Streams /\ Free # "final"
  BY NamesAssumption DEF NamesAssumption, Free
<1>2. MutexInv
  BY <1>1 DEF Init, MutexInv
<1>3. CachedUsageExact
  BY SMT, ConstantsAssumption DEF ConstantsAssumption, Init, CachedUsageExact,
     Zero, ZeroId, NoMonth, Cells, Months
<1>4. BytesConserved /\ CountersFollowLedger /\ CleanStopPersistsAll
  BY SMT DEF Init, BytesConserved, CountersFollowLedger, CleanStopPersistsAll,
     Zero
<1> QED
  BY <1>2, <1>3, <1>4, InitType DEF IndInv

\* Every reachable state of the logger satisfies the inductive invariant:
\* loads, flushes, charges, the shutdown and restarts all preserve it.
THEOREM Invariance == Spec => []IndInv
<1>1. IndInv /\ [Next]_vars => IndInv'
  BY TypeStep, MutexStep, BooksStep DEF IndInv
<1> QED
  BY InitIndInv, <1>1, PTL DEF Spec

\* The cached usage that LogTrafficContext compares with the quota is exact in
\* every reachable state.
THEOREM UsageTheorem == Spec => []CachedUsageExact
<1>1. IndInv => CachedUsageExact
  BY DEF IndInv
<1> QED
  BY Invariance, <1>1, PTL

\* No step of any stream, flusher or process loses or duplicates a byte.
THEOREM ConservationTheorem == Spec => []BytesConserved
<1>1. IndInv => BytesConserved
  BY DEF IndInv
<1> QED
  BY Invariance, <1>1, PTL

\* The deltas and the dashboard totals follow the ledger.
THEOREM CountersTheorem == Spec => []CountersFollowLedger
<1>1. IndInv => CountersFollowLedger
  BY DEF IndInv
<1> QED
  BY Invariance, <1>1, PTL

\* After a StopContext that returned nil, nothing is left in memory.
THEOREM CleanStopTheorem == Spec => []CleanStopPersistsAll
<1>1. IndInv => CleanStopPersistsAll
  BY DEF IndInv
<1> QED
  BY Invariance, <1>1, PTL

\* The variables keep their types.
THEOREM TypeTheorem == Spec => []TypeOK
<1>1. IndInv => TypeOK
  BY DEF IndInv
<1> QED
  BY Invariance, <1>1, PTL
----------------------------------------------------------------------------
LEMMA LedgerInit == Init => Ledger!Init
  BY DEF Init, Ledger!Init, Zero

LEMMA LedgerStep == IndInv /\ [Next]_vars => [Ledger!Next]_(Ledger!lvars)
<1> SUFFICES ASSUME IndInv, [Next]_vars
             PROVE  [Ledger!Next]_(Ledger!lvars)
  OBVIOUS
<1> USE DEF ledger, stopVars, history
<1>a. TypeOK /\ MutexInv /\ BytesConserved /\ CleanStopPersistsAll
  BY DEF IndInv
<1>v. \A c \in Cells : /\ db[c] \in Nat /\ batch[c] \in Nat /\ lost[c] \in Nat
                       /\ pending[c] \in Nat /\ charged[c] \in Nat
  BY <1>a DEF TypeOK
<1> USE DEF Ledger!lvars
<1>1. CASE Quiet
  BY <1>1 DEF Quiet
<1>2. ASSUME NEW s \in Streams, \/ LockForLoad(s) \/ LoadMonth(s)
                                \/ LoadFails(s) \/ InstallMonth(s)
      PROVE  UNCHANGED Ledger!lvars
  BY <1>2 DEF LockForLoad, LoadMonth, LoadFails, InstallMonth
<1>3. ASSUME NEW s \in Streams, Commit(s)
      PROVE  [Ledger!Next]_(Ledger!lvars)
  <2>1. UNCHANGED stopPc
    BY <1>3 DEF Commit
  <2>2. CASE UNCHANGED <<ledger, history>>
    BY <2>1, <2>2
  <2>3. ASSUME NEW id \in Id, NEW bytes \in Payloads, Charges(id, bytes)
        PROVE  Ledger!Next
    <3>1. stopPc # "done"
      BY <1>a, <2>3 DEF Charges, MutexInv
    <3>2. <<id, monthKey>> \in Cells
      BY <2>3 DEF Charges, Cells
    <3>3. Ledger!Charge(<<id, monthKey>>, bytes)
      BY <2>1, <2>3, <3>1 DEF Charges, Ledger!Charge
    <3> QED
      BY <3>2, <3>3 DEF Ledger!Next
  <2> QED
    BY <1>3, <2>2, <2>3, CommitCases
<1>4. ASSUME NEW f \in Flushers, FlushDetach(f)
      PROVE  [Ledger!Next]_(Ledger!lvars)
  <2>1. UNCHANGED <<db, charged, lost>>
    BY <1>4 DEF FlushDetach
  <2>2. CASE stopPc' = stopPc
    BY <2>1, <2>2
  <2>3. CASE stopPc' # stopPc
    <3>1. stopPc = "flush" /\ stopPc' = "done" /\ pending = Zero /\ batch = Zero
      BY ZenonT(30), <1>a, <1>4, <2>3, NamesAssumption DEF NamesAssumption,
         FlushDetach, DeltaLeft, FlushReturns, MayFlush, MutexInv, Free,
         Flushers
    <3>2. ASSUME NEW c \in Cells PROVE db[c] = charged[c] - lost[c]
      <4>1. batch[c] = 0 /\ pending[c] = 0
        BY <3>1, <3>2 DEF Zero
      <4>2. charged[c] = db[c] + batch[c] + pending[c] + lost[c]
        BY <1>a, <3>2 DEF BytesConserved
      <4>3. db[c] \in Int /\ lost[c] \in Int
        BY SMT, <1>v, <3>2
      <4> QED
        BY SMT, <4>1, <4>2, <4>3
    <3>3. db = [c \in Cells |-> db[c]]
      BY <1>a DEF TypeOK
    <3>4. Ledger!Persist
      BY SMT, <1>v, <2>1, <3>1, <3>2, <3>3 DEF Ledger!Persist, Ledger!Open
    <3> QED
      BY <3>4 DEF Ledger!Next
  <2> QED
    BY <2>2, <2>3
<1>5. ASSUME NEW f \in Flushers, FlushCommit(f)
      PROVE  [Ledger!Next]_(Ledger!lvars)
  <2>1. UNCHANGED <<charged, lost>> /\ db' = Plus(db, batch)
    BY <1>5 DEF FlushCommit
  <2>2. CASE stopPc = "done"
    <3>1. batch = Zero
      BY <1>a, <2>2 DEF CleanStopPersistsAll
    <3>2. db' = db
      BY SMT, <1>a, <1>v, <2>1, <3>1 DEF Plus, Zero, TypeOK
    <3>3. stopPc' = "done"
      BY <1>5, <2>2 DEF FlushCommit, FlushReturns
    <3> QED
      BY <2>1, <2>2, <3>2, <3>3
  <2>3. CASE stopPc # "done"
    <3>1. db' = [c \in Cells |-> db'[c]]
      BY <2>1 DEF Plus
    <3>2. \A c \in Cells : db[c] <= db'[c] /\ db'[c] <= charged[c] - lost[c]
      BY SMT, <1>a, <1>v, <2>1 DEF BytesConserved, Plus
    <3>3. ASSUME stopPc' = "done"
          PROVE  \A c \in Cells : db'[c] = charged[c] - lost[c]
      <4>1. pending = Zero
        BY <1>a, <1>5, <2>3, <3>3 DEF FlushCommit, FlushReturns, MutexInv
      <4> QED
        BY SMT, <1>a, <1>v, <2>1, <4>1 DEF BytesConserved, Plus, Zero
    <3>4. Ledger!Persist
      BY <2>1, <2>3, <3>1, <3>2, <3>3 DEF Ledger!Persist, Ledger!Open
    <3> QED
      BY <3>4 DEF Ledger!Next
  <2> QED
    BY <2>2, <2>3
<1>6. ASSUME NEW f \in Flushers, FlushFails(f)
      PROVE  UNCHANGED Ledger!lvars
  BY <1>a, <1>6 DEF FlushFails, PendingRestored, DeltaRestored, FlushReturns,
     MutexInv
<1>7. CASE Restart
  <2>1. UNCHANGED <<db, charged>> /\ stopPc' # "done"
    BY <1>7 DEF Restart
  <2>2. lost' = [c \in Cells |-> charged[c] - db[c]]
    BY SMT, <1>a, <1>v, <1>7 DEF Restart, Plus, BytesConserved
  <2>3. Ledger!Reopen
    BY <2>1, <2>2 DEF Ledger!Reopen
  <2> QED
    BY <2>3 DEF Ledger!Next
<1> QED
  BY <1>1, <1>2, <1>3, <1>4, <1>5, <1>6, <1>7, StepCases DEF FlusherStep

\* The logger with its caches, mutexes, batches and restarts implements the
\* book of TrafficLedger.
THEOREM Refinement == Spec => ImplementsLedger
<1> QED
  BY LedgerInit, LedgerStep, Invariance, PTL
     DEF Spec, ImplementsLedger, Ledger!Spec
----------------------------------------------------------------------------
\* Sums over finite sets.

\* Induction over finite sets: among subsets of a finite set there is one that
\* contains no other.
LEMMA FiniteMinimal ==
    ASSUME NEW S, IsFiniteSet(S), NEW T, T \subseteq SUBSET S, T # {}
    PROVE  \E x \in T : \A y \in T : ~(y \subseteq x /\ y # x)
<1>1. T \subseteq FiniteSubsetsOf(S)
    BY FS_Subset DEF FiniteSubsetsOf
<1>2. \E x \in T : \A y \in T : ~(<<y, x>> \in StrictSubsetOrdering(S))
    <2>1. IsWellFoundedOn(StrictSubsetOrdering(S), FiniteSubsetsOf(S))
        BY FS_StrictSubsetOrderingWellFounded
    <2> QED
        BY <1>1, <2>1, WFMin
<1> QED
    BY <1>2 DEF StrictSubsetOrdering

\* The element that a fold takes out first, and the fold of + over the subsets of
\* S: the definitions inside SumFunctionOnSet, for +.
Pick(s) == CHOOSE x \in s : TRUE
Sums(f, S) ==
    CHOOSE g : g = [s \in SUBSET S |->
                       IF s = {} THEN 0 ELSE f[Pick(s)] + g[s \ {Pick(s)}]]

LEMMA SumIs ==
    ASSUME NEW f, NEW S
    PROVE  SumFunctionOnSet(f, S) = Sums(f, S)[S]
BY DEF SumFunctionOnSet, FoldFunctionOnSet, MapThenFoldSet, Sums, Pick

\* g adds up f over every subset of S, taking out one chosen element at a time.
Adds(g, f, S) ==
    /\ g \in [SUBSET S -> Nat]
    /\ \A s \in SUBSET S :
          g[s] = IF s = {} THEN 0 ELSE f[Pick(s)] + g[s \ {Pick(s)}]

LEMMA PickIn == ASSUME NEW s, s # {} PROVE Pick(s) \in s
BY DEF Pick

\* There is at most one such g.
LEMMA AddsUnique ==
    ASSUME NEW S, IsFiniteSet(S), NEW f, NEW g, NEW h, Adds(g, f, S), Adds(h, f, S)
    PROVE  g = h
<1> DEFINE T == {s \in SUBSET S : g[s] # h[s]}
<1>1. CASE T = {}
    BY SMT, <1>1 DEF Adds
<1>2. CASE T # {}
    <2>1. PICK s \in T : \A r \in T : ~(r \subseteq s /\ r # s)
        <3>1. T \subseteq SUBSET S
            OBVIOUS
        <3> HIDE DEF T
        <3> QED
            BY SMT, <1>2, <3>1, FiniteMinimal
    <2>2. s # {}
        BY <2>1 DEF Adds
    <2>3. Pick(s) \in s
        BY <2>2, PickIn
    <2>4. s \ {Pick(s)} \in SUBSET S /\ s \ {Pick(s)} \subseteq s /\ s \ {Pick(s)} # s
        BY <2>1, <2>3
    <2>5. g[s \ {Pick(s)}] = h[s \ {Pick(s)}]
        BY <2>1, <2>4
    <2> QED
        BY <2>1, <2>2, <2>5 DEF Adds
<1> QED
    BY <1>1, <1>2

\* It also adds up f over the subsets of a part of S.
LEMMA AddsRestrict ==
    ASSUME NEW S, NEW R \in SUBSET S, NEW f, NEW g, Adds(g, f, S),
           NEW h, h = [s \in SUBSET R |-> g[s]]
    PROVE  Adds(h, f, R)
<1>1. h \in [SUBSET R -> Nat]
    BY DEF Adds
<1>2. ASSUME NEW s \in SUBSET R
      PROVE  h[s] = IF s = {} THEN 0 ELSE f[Pick(s)] + h[s \ {Pick(s)}]
    <2>1. s \in SUBSET S /\ s \ {Pick(s)} \in SUBSET R
        OBVIOUS
    <2> QED
        BY <2>1 DEF Adds
<1> QED
    BY <1>1, <1>2 DEF Adds

\* The recursion has a solution: one for every smaller set gives one for S.
LEMMA AddsExists ==
    ASSUME NEW S, IsFiniteSet(S), NEW f, \A x \in S : f[x] \in Nat
    PROVE  \E g : Adds(g, f, S)
<1> DEFINE T == {s \in SUBSET S : ~\E g : Adds(g, f, s)}
<1> SUFFICES ASSUME T # {} PROVE FALSE
    OBVIOUS
<1>1. PICK s \in T : \A r \in T : ~(r \subseteq s /\ r # s)
    <2>1. T \subseteq SUBSET S
        OBVIOUS
    <2> HIDE DEF T
    <2> QED
        BY SMT, <2>1, FiniteMinimal
<1>2. s \in SUBSET S /\ IsFiniteSet(s)
    BY <1>1, FS_Subset
<1>3. \A r \in SUBSET s : r # s => \E g : Adds(g, f, r)
    BY <1>1, <1>2
<1> DEFINE At(r) == CHOOSE g : Adds(g, f, r)
<1>4. \A r \in SUBSET s : r # s => Adds(At(r), f, r)
    BY <1>3
<1> DEFINE v(r) == IF r = {} THEN 0
                   ELSE f[Pick(r)] + At(r \ {Pick(r)})[r \ {Pick(r)}]
           g == [r \in SUBSET s |-> v(r)]
<1> HIDE DEF At, T
<1>5. ASSUME NEW r \in SUBSET s, r # {}
      PROVE  /\ Pick(r) \in r /\ Pick(r) \in S /\ f[Pick(r)] \in Nat
             /\ r \ {Pick(r)} \in SUBSET s /\ r \ {Pick(r)} # s
             /\ At(r \ {Pick(r)})[r \ {Pick(r)}] \in Nat
    <2>1. Pick(r) \in r
        BY <1>5, PickIn
    <2>2. r \ {Pick(r)} \in SUBSET s /\ r \ {Pick(r)} # s /\ Pick(r) \in S
        BY <1>2, <2>1
    <2>3. Adds(At(r \ {Pick(r)}), f, r \ {Pick(r)})
        BY <1>4, <2>2
    <2>4. r \ {Pick(r)} \in SUBSET (r \ {Pick(r)})
        OBVIOUS
    <2> HIDE DEF v
    <2> QED
        BY <2>1, <2>2, <2>3, <2>4 DEF Adds
<1>6. g \in [SUBSET s -> Nat]
    BY SMT, <1>5
<1>7. ASSUME NEW r \in SUBSET s, r # s
      PROVE  v(r) = At(r)[r]
    <2>1. Adds(At(r), f, r)
        BY <1>4, <1>7
    <2>2. r \in SUBSET r
        OBVIOUS
    <2>3. CASE r = {}
        BY <2>1, <2>2, <2>3 DEF Adds
    <2>4. CASE r # {}
        <3> DEFINE q == r \ {Pick(r)}
        <3>1. q \in SUBSET s /\ q # s /\ q \in SUBSET r /\ q \in SUBSET q
            BY <1>5, <2>4
        <3>2. Adds(At(q), f, q)
            BY <1>4, <3>1
        <3>3. PICK h : h = [t \in SUBSET q |-> At(r)[t]]
            OBVIOUS
        <3>4. Adds(h, f, q)
            <4> HIDE DEF q
            <4> QED
                BY <2>1, <3>1, <3>3, AddsRestrict
        <3>5. IsFiniteSet(q)
            BY <1>2, <3>1, FS_Subset
        <3>6. At(q)[q] = At(r)[q]
            <4> HIDE DEF q
            <4>1. At(q) = h
                BY <3>2, <3>4, <3>5, AddsUnique
            <4> QED
                BY <3>1, <3>3, <4>1
        <3>7. At(r)[r] = f[Pick(r)] + At(r)[q]
            BY <2>1, <2>2, <2>4 DEF Adds
        <3> QED
            BY <2>4, <3>6, <3>7
    <2> QED
        BY <2>3, <2>4
<1>8. ASSUME NEW r \in SUBSET s
      PROVE  g[r] = IF r = {} THEN 0 ELSE f[Pick(r)] + g[r \ {Pick(r)}]
    <2>1. CASE r = {}
        BY <2>1
    <2>2. CASE r # {}
        <3>1. r \ {Pick(r)} \in SUBSET s /\ r \ {Pick(r)} # s
            BY <1>5, <2>2
        <3>2. v(r \ {Pick(r)}) = At(r \ {Pick(r)})[r \ {Pick(r)}]
            BY <1>7, <3>1
        <3>3. g[r] = v(r) /\ g[r \ {Pick(r)}] = v(r \ {Pick(r)})
            BY <3>1
        <3>4. v(r) = f[Pick(r)] + At(r \ {Pick(r)})[r \ {Pick(r)}]
            BY <2>2
        <3> HIDE DEF g, v
        <3> QED
            BY <2>2, <3>2, <3>3, <3>4
    <2> HIDE DEF g
    <2> QED
        BY <2>1, <2>2
<1> HIDE DEF g
<1>9. Adds(g, f, s)
    BY <1>6, <1>8 DEF Adds
<1> QED
    BY <1>1, <1>9 DEF T

\* So the fold is a solution of its recursion.
LEMMA SumAdds ==
    ASSUME NEW S, IsFiniteSet(S), NEW f, \A x \in S : f[x] \in Nat
    PROVE  Adds(Sums(f, S), f, S)
<1>1. PICK g : Adds(g, f, S)
    BY AddsExists
<1>2. g = [s \in SUBSET S |-> IF s = {} THEN 0 ELSE f[Pick(s)] + g[s \ {Pick(s)}]]
    BY <1>1 DEF Adds
<1> DEFINE G == Sums(f, S)
<1>3. G = [s \in SUBSET S |-> IF s = {} THEN 0 ELSE f[Pick(s)] + G[s \ {Pick(s)}]]
    BY <1>2 DEF Sums
<1> HIDE DEF G
<1> DEFINE T == {s \in SUBSET S : G[s] \notin Nat}
<1>4. T = {}
    <2> SUFFICES ASSUME T # {} PROVE FALSE
        OBVIOUS
    <2>1. PICK s \in T : \A r \in T : ~(r \subseteq s /\ r # s)
        <3>1. T \subseteq SUBSET S
            OBVIOUS
        <3> HIDE DEF T
        <3> QED
            BY SMT, <3>1, FiniteMinimal
    <2>2. G[s] = IF s = {} THEN 0 ELSE f[Pick(s)] + G[s \ {Pick(s)}]
        BY <1>3, <2>1
    <2>3. s # {}
        BY SMT, <2>1, <2>2
    <2>4. Pick(s) \in s
        BY <2>3, PickIn
    <2>5. s \ {Pick(s)} \in SUBSET S /\ s \ {Pick(s)} \subseteq s /\ s \ {Pick(s)} # s
        BY <2>1, <2>4
    <2>6. G[s \ {Pick(s)}] \in Nat /\ f[Pick(s)] \in Nat
        BY <2>1, <2>4, <2>5
    <2> QED
        BY SMT, <2>1, <2>2, <2>3, <2>6
<1>5. \A s \in SUBSET S : G[s] = IF s = {} THEN 0 ELSE f[Pick(s)] + G[s \ {Pick(s)}]
    BY <1>3
<1>6. G \in [SUBSET S -> Nat]
    <2>1. \A s \in SUBSET S : G[s] \in Nat
        BY <1>4
    <2>2. DOMAIN G = SUBSET S /\ G = [s \in SUBSET S |-> G[s]]
        BY <1>3
    <2> HIDE DEF T
    <2> QED
        BY <2>1, <2>2
<1>7. Adds(G, f, S)
    BY <1>5, <1>6 DEF Adds
<1> QED
    BY <1>7 DEF G

\* The order in which the elements are taken out does not matter.
LEMMA AddsAny ==
    ASSUME NEW S, IsFiniteSet(S), NEW f, \A x \in S : f[x] \in Nat, NEW g, Adds(g, f, S)
    PROVE  \A s \in SUBSET S : \A x \in s : g[s] = f[x] + g[s \ {x}]
<1> DEFINE T == {s \in SUBSET S : \E x \in s : g[s] # f[x] + g[s \ {x}]}
<1> SUFFICES ASSUME T # {} PROVE FALSE
    OBVIOUS
<1>1. PICK s \in T : \A r \in T : ~(r \subseteq s /\ r # s)
    <2>1. T \subseteq SUBSET S
        OBVIOUS
    <2> HIDE DEF T
    <2> QED
        BY SMT, <2>1, FiniteMinimal
<1>2. PICK x \in s : g[s] # f[x] + g[s \ {x}]
    BY <1>1
<1>3. PICK c : c = Pick(s)
    OBVIOUS
<1>4. c \in s /\ g[s] = f[c] + g[s \ {c}]
    BY <1>1, <1>2, <1>3, PickIn DEF Adds
<1>5. x # c
    BY <1>2, <1>4
<1>6. /\ s \ {c} \in SUBSET S /\ s \ {c} # s /\ x \in s \ {c}
      /\ s \ {x} \in SUBSET S /\ s \ {x} # s /\ c \in s \ {x}
      /\ (s \ {c}) \ {x} = (s \ {x}) \ {c} /\ (s \ {c}) \ {x} \in SUBSET S
    BY <1>1, <1>2, <1>4, <1>5
<1>7. g[s \ {c}] = f[x] + g[(s \ {c}) \ {x}]
    BY <1>1, <1>6
<1>8. g[s \ {x}] = f[c] + g[(s \ {c}) \ {x}]
    BY <1>1, <1>6
<1>9. f[x] \in Nat /\ f[c] \in Nat /\ g[(s \ {c}) \ {x}] \in Nat
    BY <1>1, <1>2, <1>4, <1>6 DEF Adds
<1> HIDE DEF T
<1> QED
    BY SMT, <1>2, <1>4, <1>7, <1>8, <1>9

\* What a sum over a finite set is.
LEMMA SumOver ==
    ASSUME NEW S, IsFiniteSet(S), NEW f, \A x \in S : f[x] \in Nat
    PROVE  /\ SumFunctionOnSet(f, S) \in Nat
           /\ S = {} => SumFunctionOnSet(f, S) = 0
           /\ \A x \in S : SumFunctionOnSet(f, S) = f[x] + SumFunctionOnSet(f, S \ {x})
<1>1. Adds(Sums(f, S), f, S)
    BY SumAdds
<1>2. S \in SUBSET S
    OBVIOUS
<1>3. Sums(f, S)[S] \in Nat /\ (S = {} => Sums(f, S)[S] = 0)
    BY <1>1, <1>2 DEF Adds
<1>4. ASSUME NEW x \in S
      PROVE  Sums(f, S)[S] = f[x] + Sums(f, S \ {x})[S \ {x}]
    <2>1. PICK R : R = S \ {x}
        OBVIOUS
    <2>2. R \in SUBSET S /\ IsFiniteSet(R) /\ R \in SUBSET R /\ \A y \in R : f[y] \in Nat
        BY <2>1, FS_Subset
    <2>3. Adds(Sums(f, R), f, R)
        BY <2>2, SumAdds
    <2>4. PICK h : h = [t \in SUBSET R |-> Sums(f, S)[t]]
        OBVIOUS
    <2>5. Adds(h, f, R)
        BY <1>1, <2>2, <2>4, AddsRestrict
    <2>6. Sums(f, R) = h
        BY <2>2, <2>3, <2>5, AddsUnique
    <2>7. Sums(f, S)[S] = f[x] + Sums(f, S)[R]
        BY SMT, <1>1, <1>2, <2>1, AddsAny
    <2> QED
        BY <2>1, <2>2, <2>4, <2>6, <2>7
<1> QED
    BY <1>3, <1>4, SumIs

\* A sum grows with its terms.
LEMMA SumMonotone ==
    ASSUME NEW S, IsFiniteSet(S), NEW f, NEW g,
           \A x \in S : f[x] \in Nat /\ g[x] \in Nat /\ f[x] <= g[x]
    PROVE  SumFunctionOnSet(f, S) <= SumFunctionOnSet(g, S)
<1> DEFINE T == {s \in SUBSET S : ~(SumFunctionOnSet(f, s) <= SumFunctionOnSet(g, s))}
<1>0. S \in SUBSET S
    OBVIOUS
<1> SUFFICES ASSUME T # {} PROVE FALSE
    BY <1>0
<1>1. PICK s \in T : \A r \in T : ~(r \subseteq s /\ r # s)
    <2>1. T \subseteq SUBSET S
        OBVIOUS
    <2> HIDE DEF T
    <2> QED
        BY SMT, <2>1, FiniteMinimal
<1>2. s \in SUBSET S /\ IsFiniteSet(s)
    BY <1>1, FS_Subset
<1>3. s # {}
    <2>1. s = {} => SumFunctionOnSet(f, s) = 0 /\ SumFunctionOnSet(g, s) = 0
        BY <1>2, SumOver
    <2> QED
        BY SMT, <1>1, <2>1
<1>4. PICK x \in s : TRUE
    BY <1>3
<1>5. PICK r : r = s \ {x}
    OBVIOUS
<1>6. r \in SUBSET S /\ r \subseteq s /\ r # s /\ IsFiniteSet(r)
    BY <1>2, <1>4, <1>5, FS_Subset
<1>7. SumFunctionOnSet(f, r) <= SumFunctionOnSet(g, r)
    BY <1>1, <1>6
<1>8. /\ SumFunctionOnSet(f, s) = f[x] + SumFunctionOnSet(f, r)
      /\ SumFunctionOnSet(g, s) = g[x] + SumFunctionOnSet(g, r)
    BY <1>2, <1>4, <1>5, SumOver
<1>9. SumFunctionOnSet(f, r) \in Nat /\ SumFunctionOnSet(g, r) \in Nat
    BY <1>6, SumOver
<1>10. f[x] \in Nat /\ g[x] \in Nat /\ f[x] <= g[x]
    BY <1>2, <1>4
<1>11. SumFunctionOnSet(f, s) <= SumFunctionOnSet(g, s)
    BY SMT, <1>7, <1>8, <1>9, <1>10
<1> QED
    BY <1>1, <1>11

\* The cells of some ids in a month.
CellsOf(ids, m) == {<<id, m>> : id \in ids}

\* Bytes of cells that are within a usage per id and another number per cell
\* are so in total.
LEMMA SumWithin ==
    ASSUME NEW ids, IsFiniteSet(ids), NEW m, NEW f, NEW usage, NEW l,
           \A id \in ids : /\ f[<<id, m>>] \in Nat /\ usage[id] \in Nat /\ l[<<id, m>>] \in Nat
                          /\ f[<<id, m>>] <= usage[id] + l[<<id, m>>]
    PROVE  SumFunctionOnSet(f, CellsOf(ids, m))
               <= SumFunctionOnSet(usage, ids) + SumFunctionOnSet(l, CellsOf(ids, m))
<1> DEFINE Within(s) == SumFunctionOnSet(f, CellsOf(s, m))
                          <= SumFunctionOnSet(usage, s) + SumFunctionOnSet(l, CellsOf(s, m))
           T == {s \in SUBSET ids : ~Within(s)}
<1>0. ids \in SUBSET ids
    OBVIOUS
<1> SUFFICES ASSUME T # {} PROVE FALSE
    BY <1>0
<1>1. PICK s \in T : \A r \in T : ~(r \subseteq s /\ r # s)
    <2>1. T \subseteq SUBSET ids
        OBVIOUS
    <2> HIDE DEF T
    <2> QED
        BY SMT, <2>1, FiniteMinimal
<1>2. ASSUME NEW r \in SUBSET ids
      PROVE  /\ IsFiniteSet(r) /\ IsFiniteSet(CellsOf(r, m))
             /\ \A id \in r : usage[id] \in Nat
             /\ \A c \in CellsOf(r, m) : f[c] \in Nat /\ l[c] \in Nat
    <2>1. IsFiniteSet(r)
        BY FS_Subset
    <2>2. IsFiniteSet(CellsOf(r, m))
        <3> DEFINE cell == [id \in r |-> <<id, m>>]
        <3>1. cell \in Surjection(r, CellsOf(r, m))
            BY DEF Surjection, CellsOf
        <3> HIDE DEF cell
        <3> QED
            BY <2>1, <3>1, FS_Surjection
    <2>3. \A c \in CellsOf(r, m) : f[c] \in Nat /\ l[c] \in Nat
        BY DEF CellsOf
    <2> QED
        BY <2>1, <2>2, <2>3
<1>3. s # {}
    <2>1. CellsOf({}, m) = {}
        BY DEF CellsOf
    <2>2. {} \in SUBSET ids
        OBVIOUS
    <2>3. /\ SumFunctionOnSet(f, CellsOf({}, m)) = 0 /\ SumFunctionOnSet(usage, {}) = 0
          /\ SumFunctionOnSet(l, CellsOf({}, m)) = 0
        BY <1>2, <2>1, <2>2, SumOver
    <2>4. Within({})
        BY SMT, <2>3
    <2> HIDE DEF Within
    <2> QED
        BY <1>1, <2>4
<1>4. PICK x \in s : TRUE
    BY <1>3
<1>5. PICK r : r = s \ {x}
    OBVIOUS
<1>6. s \in SUBSET ids /\ r \in SUBSET ids /\ r \subseteq s /\ r # s
    BY <1>1, <1>4, <1>5
<1>7. Within(r)
    <2> HIDE DEF Within
    <2> QED
        BY <1>1, <1>6
<1>8. SumFunctionOnSet(usage, s) = usage[x] + SumFunctionOnSet(usage, r)
    BY <1>2, <1>4, <1>5, <1>6, SumOver
<1>9. CellsOf(r, m) = CellsOf(s, m) \ {<<x, m>>} /\ <<x, m>> \in CellsOf(s, m)
    BY SMT, <1>4, <1>5 DEF CellsOf
<1>10. /\ SumFunctionOnSet(f, CellsOf(s, m)) = f[<<x, m>>] + SumFunctionOnSet(f, CellsOf(r, m))
       /\ SumFunctionOnSet(l, CellsOf(s, m)) = l[<<x, m>>] + SumFunctionOnSet(l, CellsOf(r, m))
    <2>1. PICK C, D, c : C = CellsOf(s, m) /\ D = CellsOf(r, m) /\ c = <<x, m>>
        OBVIOUS
    <2>2. /\ IsFiniteSet(C) /\ c \in C /\ D = C \ {c}
          /\ \A y \in C : f[y] \in Nat /\ l[y] \in Nat
        BY <1>2, <1>6, <1>9, <2>1
    <2>3. /\ SumFunctionOnSet(f, C) = f[c] + SumFunctionOnSet(f, D)
          /\ SumFunctionOnSet(l, C) = l[c] + SumFunctionOnSet(l, D)
        BY <2>2, SumOver
    <2> QED
        BY <2>1, <2>3
<1>11. /\ SumFunctionOnSet(f, CellsOf(r, m)) \in Nat /\ SumFunctionOnSet(usage, r) \in Nat
       /\ SumFunctionOnSet(l, CellsOf(r, m)) \in Nat
    BY <1>2, <1>6, SumOver
<1>12. /\ f[<<x, m>>] \in Nat /\ usage[x] \in Nat /\ l[<<x, m>>] \in Nat
       /\ f[<<x, m>>] <= usage[x] + l[<<x, m>>]
    BY <1>4, <1>6
<1>13. Within(s)
    BY SMT, <1>7, <1>8, <1>10, <1>11, <1>12
<1> HIDE DEF Within
<1> QED
    BY <1>1, <1>13
----------------------------------------------------------------------------
\* The quota.

\* With IndInv, what makes the quota inductive: only charged bytes were
\* forwarded, and the quota of a call in flight was published once.
QuotaInv ==
    /\ \A c \in Cells : forwarded[c] <= charged[c]
    /\ \A s \in Streams : pc[s] # "idle" => \E p \in Policies : call[s].maxBytes = p.maxBytes
    /\ ForwardedWithinQuota

IdsOf(u) == {id \in Id : UserOf(id) = u}

\* A user has finitely many nodes.
LEMMA IdsFinite ==
    ASSUME NEW u \in Users
    PROVE  IsFiniteSet(IdsOf(u))
<1> DEFINE pair == [n \in Nodes |-> <<u, n>>]
<1>1. pair \in Surjection(Nodes, IdsOf(u))
  BY SMT DEF Surjection, IdsOf, Id, UserOf
<1>2. IsFiniteSet(Nodes)
  BY ConstantsAssumption DEF ConstantsAssumption
<1> HIDE DEF pair
<1> QED
  BY <1>1, <1>2, FS_Surjection

\* The cells of a user's month, which MonthOf adds up.
LEMMA MonthCells ==
    ASSUME NEW u \in Users, NEW m \in Months
    PROVE  /\ \A f : MonthOf(f, u, m) = SumFunctionOnSet(f, CellsOf(IdsOf(u), m))
           /\ CellsOf(IdsOf(u), m) \subseteq Cells /\ IsFiniteSet(CellsOf(IdsOf(u), m))
           /\ \A c \in CellsOf(IdsOf(u), m) : UserOf(c[1]) = u /\ c[2] = m
<1>1. {c \in Cells : UserOf(c[1]) = u /\ c[2] = m} = CellsOf(IdsOf(u), m)
  BY SMT DEF Cells, CellsOf, IdsOf
<1>2. IsFiniteSet(CellsOf(IdsOf(u), m))
  <2> DEFINE cell == [id \in IdsOf(u) |-> <<id, m>>]
  <2>1. cell \in Surjection(IdsOf(u), CellsOf(IdsOf(u), m))
    BY DEF Surjection, CellsOf
  <2> HIDE DEF cell
  <2> QED
    BY <2>1, IdsFinite, FS_Surjection
<1> QED
  BY <1>1, <1>2 DEF MonthOf, CellsOf

\* Bytes that are not forwarded anew stay within the quota, as what is lost only
\* grows.
LEMMA QuotaKept ==
    ASSUME TypeOK, TypeOK', NEW u \in Users, NEW m \in Months, NEW p \in Policies,
           MonthOf(forwarded, u, m) <= p.maxBytes + MonthOf(lost, u, m),
           \A c \in Cells : lost[c] <= lost'[c],
           \A c \in Cells : UserOf(c[1]) = u /\ c[2] = m => forwarded'[c] = forwarded[c]
    PROVE  MonthOf(forwarded', u, m) <= p.maxBytes + MonthOf(lost', u, m)
<1>1. PICK C : C = CellsOf(IdsOf(u), m)
  OBVIOUS
<1>2. /\ IsFiniteSet(C) /\ C \subseteq Cells
      /\ MonthOf(forwarded, u, m) = SumFunctionOnSet(forwarded, C)
      /\ MonthOf(forwarded', u, m) = SumFunctionOnSet(forwarded', C)
      /\ MonthOf(lost, u, m) = SumFunctionOnSet(lost, C)
      /\ MonthOf(lost', u, m) = SumFunctionOnSet(lost', C)
      /\ \A c \in C : UserOf(c[1]) = u /\ c[2] = m
  BY <1>1, MonthCells
<1>3. \A c \in C : /\ forwarded[c] \in Nat /\ forwarded'[c] = forwarded[c]
                   /\ lost[c] \in Nat /\ lost'[c] \in Nat /\ lost[c] <= lost'[c]
  BY <1>2 DEF TypeOK
<1>4. /\ SumFunctionOnSet(forwarded', C) <= SumFunctionOnSet(forwarded, C)
      /\ SumFunctionOnSet(lost, C) <= SumFunctionOnSet(lost', C)
  <2>1. \A c \in C : forwarded'[c] \in Nat /\ forwarded'[c] <= forwarded[c]
    BY SMT, <1>3
  <2> QED
    BY <1>2, <1>3, <2>1, SumMonotone
<1>5. /\ SumFunctionOnSet(forwarded', C) \in Nat /\ SumFunctionOnSet(forwarded, C) \in Nat
      /\ SumFunctionOnSet(lost, C) \in Nat /\ SumFunctionOnSet(lost', C) \in Nat
  BY <1>2, <1>3, SumOver
<1>6. p.maxBytes \in Nat
  BY ConstantsAssumption DEF ConstantsAssumption, Policy
<1> QED
  BY SMT, <1>2, <1>4, <1>5, <1>6

\* A payload that Commit lets through leaves the month within the quota the
\* call has read: what is forwarded is charged, and what is charged and not
\* lost is the usage that was compared.
LEMMA QuotaCommit ==
    ASSUME IndInv, IndInv', \A c \in Cells : forwarded'[c] <= charged'[c],
           NEW s \in Streams, Commit(s), ~stopping, monthKey = call[s].month,
           call[s].maxBytes > 0, call[s].maxBytes \in Nat,
           ~OverQuota([monthlyUsage EXCEPT ![call[s].id] = @ + call[s].bytes],
                      UserOf(call[s].id), call[s].maxBytes)
    PROVE  MonthOf(forwarded', UserOf(call[s].id), monthKey)
               <= call[s].maxBytes + MonthOf(lost', UserOf(call[s].id), monthKey)
<1>1. PICK u, m, ids : u = UserOf(call[s].id) /\ m = monthKey /\ ids = IdsOf(u)
  OBVIOUS
<1>2. u \in Users /\ m \in Months /\ monthKey' = m /\ m # NoMonth
  <2>1. call[s].id \in Users \X Nodes
    BY DEF IndInv, TypeOK, Calls, Id
  <2>2. pc[s] = "commit" /\ monthKey' = monthKey
    BY DEF Commit, ledger
  <2>3. m \in Months
    BY <1>1, <2>2 DEF IndInv, MutexInv
  <2>4. m # NoMonth
    BY SMT, <2>3 DEF Months, NoMonth
  <2> QED
    BY <1>1, <2>1, <2>2, <2>3, <2>4 DEF UserOf
<1>3. monthlyUsage' = [monthlyUsage EXCEPT ![call[s].id] = @ + call[s].bytes]
  BY DEF Commit
<1>4. ids \subseteq Id /\ IsFiniteSet(ids) /\ \A id \in ids : <<id, m>> \in Cells
  BY <1>1, <1>2, IdsFinite DEF IdsOf, Cells
<1>5. ASSUME NEW id \in ids
      PROVE  /\ forwarded'[<<id, m>>] \in Nat /\ monthlyUsage'[id] \in Nat
             /\ lost'[<<id, m>>] \in Nat
             /\ forwarded'[<<id, m>>] <= monthlyUsage'[id] + lost'[<<id, m>>]
  <2>1. id \in Id /\ <<id, m>> \in Cells
    BY <1>4
  <2>2. PICK c : c = <<id, m>>
    OBVIOUS
  <2>3. /\ forwarded'[c] \in Nat /\ monthlyUsage'[id] \in Nat /\ lost'[c] \in Nat
        /\ db'[c] \in Nat /\ batch'[c] \in Nat /\ pending'[c] \in Nat /\ charged'[c] \in Nat
    BY <2>1, <2>2 DEF IndInv, TypeOK
  <2>4. monthlyUsage'[id] = db'[c] + batch'[c] + pending'[c]
    BY <1>2, <2>1, <2>2 DEF IndInv, CachedUsageExact
  <2>5. charged'[c] = db'[c] + batch'[c] + pending'[c] + lost'[c]
    BY <2>1, <2>2 DEF IndInv, BytesConserved
  <2>6. forwarded'[c] <= charged'[c]
    BY <2>1, <2>2
  <2> QED
    BY <2>2, <2>3, <2>4, <2>5, <2>6
<1>6. SumFunctionOnSet(forwarded', CellsOf(ids, m))
        <= SumFunctionOnSet(monthlyUsage', ids) + SumFunctionOnSet(lost', CellsOf(ids, m))
  BY <1>4, <1>5, SumWithin
<1>7. SumFunctionOnSet(monthlyUsage', ids) <= call[s].maxBytes
  <2>1. MonthlyTotal(monthlyUsage', u) = SumFunctionOnSet(monthlyUsage', ids)
    BY <1>1 DEF MonthlyTotal, IdsOf
  <2>2. SumFunctionOnSet(monthlyUsage', ids) \in Nat
    BY <1>4, <1>5, SumOver
  <2>3. ~(MonthlyTotal(monthlyUsage', u) > call[s].maxBytes)
    BY <1>1, <1>3 DEF OverQuota
  <2>4. PICK total, quota : /\ total = SumFunctionOnSet(monthlyUsage', ids)
                            /\ quota = call[s].maxBytes
    OBVIOUS
  <2>5. total \in Nat /\ quota \in Nat /\ ~(total > quota)
    BY <2>1, <2>2, <2>3, <2>4
  <2>6. total <= quota
    BY SMT, <2>5
  <2> QED
    BY <2>4, <2>6
<1>8. /\ SumFunctionOnSet(forwarded', CellsOf(ids, m)) \in Nat
      /\ SumFunctionOnSet(monthlyUsage', ids) \in Nat
      /\ SumFunctionOnSet(lost', CellsOf(ids, m)) \in Nat
  <2>1. IsFiniteSet(CellsOf(ids, m))
    BY <1>1, <1>2, MonthCells
  <2>2. \A c \in CellsOf(ids, m) : forwarded'[c] \in Nat /\ lost'[c] \in Nat
    BY <1>5 DEF CellsOf
  <2> QED
    BY <1>4, <1>5, <2>1, <2>2, SumOver
<1>9. /\ MonthOf(forwarded', u, m) = SumFunctionOnSet(forwarded', CellsOf(ids, m))
      /\ MonthOf(lost', u, m) = SumFunctionOnSet(lost', CellsOf(ids, m))
  BY <1>1, <1>2, MonthCells
<1>10. MonthOf(forwarded', u, m) <= call[s].maxBytes + MonthOf(lost', u, m)
  BY SMT, <1>6, <1>7, <1>8, <1>9
<1> QED
  BY <1>1, <1>10

\* The quota of a call is read from the policy published at its start.
LEMMA CallsQuoted ==
    ASSUME IndInv, [Next]_vars,
           \A s \in Streams : pc[s] # "idle" => \E p \in Policies : call[s].maxBytes = p.maxBytes
    PROVE  \A s \in Streams : pc'[s] # "idle" => \E p \in Policies : call'[s].maxBytes = p.maxBytes
<1> DEFINE Quoted(q, k) == \A s \in Streams :
                             q[s] # "idle" => \E p \in Policies : k[s].maxBytes = p.maxBytes
<1> USE DEF streamVars
<1>a. TypeOK
  BY DEF IndInv
<1>1. CASE UNCHANGED <<pc, call>>
  BY <1>1
<1>2. ASSUME NEW s \in Streams, NEW label, Goto(s, label), pc[s] # "idle",
             call' = call \/ call' = [call EXCEPT ![s].month = now]
      PROVE  Quoted(pc', call')
  <2>1. \A t \in Streams : call'[t].maxBytes = call[t].maxBytes
    BY SMT, <1>a, <1>2 DEF TypeOK, Calls
  <2>2. \A t \in Streams : pc'[t] # "idle" => pc[t] # "idle"
    BY <1>a, <1>2 DEF TypeOK, Goto
  <2> QED
    BY <2>1, <2>2
<1>3. ASSUME NEW s \in Streams, Return(s)
      PROVE  Quoted(pc', call')
  <2>1. \A t \in Streams : pc'[t] # "idle" => pc'[t] = pc[t] /\ call'[t] = call[t]
    BY <1>a, <1>3 DEF TypeOK, Return, Goto
  <2> QED
    BY <2>1
<1>4. ASSUME NEW s \in Streams, NEW id \in Id, NEW bytes \in Payloads, NEW rx \in BOOLEAN,
             LogTraffic(s, id, bytes, rx)
      PROVE  Quoted(pc', call')
  <2>1. CASE UNCHANGED <<pc, call>>
    BY <1>1, <2>1
  <2>2. CASE ~UNCHANGED <<pc, call>>
    <3>1. /\ call'[s].maxBytes = policy[UserOf(id)].maxBytes
          /\ \A t \in Streams : t # s => call'[t] = call[t] /\ pc'[t] = pc[t]
      BY SMT, <1>a, <1>4, <2>2 DEF LogTraffic, Goto, TypeOK
    <3>2. policy[UserOf(id)] \in Policies
      BY <1>a DEF TypeOK, UserOf, Id
    <3> QED
      BY <3>1, <3>2
  <2> QED
    BY <2>1, <2>2
<1>5. ASSUME NEW s \in Streams, StreamStep(s)
      PROVE  Quoted(pc', call')
  <2>1. CASE \E id \in Id, bytes \in Payloads, rx \in BOOLEAN : LogTraffic(s, id, bytes, rx)
    BY <1>4, <2>1
  <2>2. CASE LimitDownload(s) \/ Admit(s) \/ LoadFails(s) \/ Commit(s) \/ ContextDone(s)
    <3>1. \/ Return(s)
          \/ /\ pc[s] # "idle" /\ \E label : Goto(s, label)
             /\ call' = call \/ call' = [call EXCEPT ![s].month = now]
      BY <2>2 DEF LimitDownload, Admit, LoadFails, Commit, ContextDone
    <3> HIDE DEF Quoted
    <3> QED
      BY <1>2, <1>3, <3>1
  <2>3. CASE \/ Reserve(s) \/ TimerFires(s) \/ WakeUp(s) \/ EnsureMonthlyUsage(s)
             \/ LockForLoad(s) \/ LoadMonth(s) \/ InstallMonth(s)
    <3>1. pc[s] # "idle" /\ call' = call /\ \E label : Goto(s, label)
      BY <2>3 DEF Reserve, TimerFires, WakeUp, EnsureMonthlyUsage, LockForLoad,
         LoadMonth, InstallMonth
    <3> HIDE DEF Quoted
    <3> QED
      BY <1>2, <3>1
  <2> HIDE DEF Quoted
  <2> QED
    BY <1>5, <2>1, <2>2, <2>3 DEF StreamStep
<1>6. CASE Restart
  BY <1>6 DEF Restart
<1>7. CASE ~(\E s \in Streams : StreamStep(s)) /\ ~Restart
  <2>1. UNCHANGED <<pc, call>>
    BY <1>7 DEF Next, FlusherStep, FlushDetach, FlushCommit, FlushFails,
       PeriodicReturns, StopAdmission, StopContext, PeriodicJoined,
       StopTimesOut, PublishUsers, NotifyUsersUpdated, Tick, vars
  <2> QED
    BY <1>1, <2>1
<1> QED
  BY <1>5, <1>6, <1>7

\* What a step does to the history: Commit charges and forwards one payload,
\* a restart loses bytes, all others leave it alone.
LEMMA HistoryStep ==
    ASSUME IndInv, [Next]_vars
    PROVE  \/ UNCHANGED <<charged, lost, forwarded>>
           \/ /\ UNCHANGED <<charged, forwarded>>
              /\ \A c \in Cells : lost[c] <= lost'[c]
           \/ \E s \in Streams : Commit(s) /\ ~stopping /\ monthKey = call[s].month
<1> USE DEF history
<1>1. CASE Quiet
  BY <1>1 DEF Quiet
<1>2. ASSUME NEW s \in Streams,
             \/ LockForLoad(s) \/ LoadMonth(s) \/ LoadFails(s) \/ InstallMonth(s)
             \/ (Commit(s) /\ ~(~stopping /\ monthKey = call[s].month))
      PROVE  UNCHANGED <<charged, lost, forwarded>>
  BY <1>2 DEF LockForLoad, LoadMonth, LoadFails, InstallMonth, Commit
<1>3. ASSUME NEW f \in Flushers, FlusherStep(f)
      PROVE  UNCHANGED <<charged, lost, forwarded>>
  BY <1>3 DEF FlusherStep, FlushDetach, FlushCommit, FlushFails
<1>4. CASE Restart
  BY SMT, <1>4 DEF Restart, Plus, IndInv, TypeOK
<1> QED
  BY <1>1, <1>2, <1>3, <1>4, StepCases

LEMMA QuotaStep ==
    ASSUME IndInv, IndInv', QuotaInv, [Next]_vars
    PROVE  QuotaInv'
<1>1. \A s \in Streams : pc'[s] # "idle" => \E p \in Policies : call'[s].maxBytes = p.maxBytes
  BY CallsQuoted DEF QuotaInv
<1>2. TypeOK /\ TypeOK'
  BY DEF IndInv
<1>3. ASSUME UNCHANGED <<charged, forwarded>>, \A c \in Cells : lost[c] <= lost'[c]
      PROVE  QuotaInv'
  <2>1. \A c \in Cells : forwarded'[c] <= charged'[c]
    BY <1>3 DEF QuotaInv
  <2>2. ForwardedWithinQuota'
    <3> SUFFICES ASSUME \A p \in Policies : p.maxBytes > 0, NEW u \in Users, NEW m \in Months
                 PROVE  \E p \in Policies :
                           MonthOf(forwarded', u, m) <= p.maxBytes + MonthOf(lost', u, m)
      BY DEF ForwardedWithinQuota, MonthOf
    <3>1. PICK p \in Policies : MonthOf(forwarded, u, m) <= p.maxBytes + MonthOf(lost, u, m)
      BY DEF QuotaInv, ForwardedWithinQuota
    <3>2. \A c \in Cells : forwarded'[c] = forwarded[c]
      BY <1>3
    <3>3. MonthOf(forwarded', u, m) <= p.maxBytes + MonthOf(lost', u, m)
      BY <1>2, <1>3, <3>1, <3>2, QuotaKept
    <3> QED
      BY <3>3
  <2> QED
    BY <1>1, <2>1, <2>2 DEF QuotaInv
<1>4. ASSUME NEW s \in Streams, Commit(s), ~stopping, monthKey = call[s].month
      PROVE  QuotaInv'
  <2> DEFINE id == call[s].id
             bytes == call[s].bytes
             cell == <<id, monthKey>>
             over == OverQuota([monthlyUsage EXCEPT ![id] = @ + bytes], UserOf(id),
                               call[s].maxBytes)
  <2>1. id \in Id /\ bytes \in Nat /\ cell \in Cells
    BY <1>2, <1>4, ConstantsAssumption
       DEF IndInv, TypeOK, MutexInv, Commit, Calls, Cells, ConstantsAssumption
  <2>2. /\ charged' = [charged EXCEPT ![cell] = @ + bytes]
        /\ forwarded' = [forwarded EXCEPT ![cell] = IF over THEN @ ELSE @ + bytes]
        /\ lost' = lost
    BY <1>4 DEF Commit
  <2>3. \A c \in Cells : /\ charged[c] \in Nat /\ forwarded[c] \in Nat /\ lost[c] \in Nat
                          /\ forwarded[c] <= charged[c]
    BY <1>2 DEF TypeOK, QuotaInv
  <2>4. /\ \A c \in Cells : c # cell => forwarded'[c] = forwarded[c] /\ charged'[c] = charged[c]
        /\ charged'[cell] = charged[cell] + bytes
        /\ forwarded'[cell] = IF over THEN forwarded[cell] ELSE forwarded[cell] + bytes
    <3> HIDE DEF over, cell, bytes, id
    <3> QED
      BY <1>2, <2>1, <2>2 DEF TypeOK
  <2>5. \A c \in Cells : forwarded'[c] <= charged'[c]
    <3> HIDE DEF over, cell, bytes, id
    <3>1. forwarded'[cell] <= charged'[cell]
      BY SMT, <2>1, <2>3, <2>4
    <3> QED
      BY <2>3, <2>4, <3>1
  <2>6. ForwardedWithinQuota'
    <3> SUFFICES ASSUME \A p \in Policies : p.maxBytes > 0, NEW u \in Users, NEW m \in Months
                 PROVE  \E p \in Policies :
                           MonthOf(forwarded', u, m) <= p.maxBytes + MonthOf(lost', u, m)
      BY DEF ForwardedWithinQuota, MonthOf
    <3>1. CASE u = UserOf(id) /\ m = monthKey /\ ~over
      <4>1. PICK p \in Policies : call[s].maxBytes = p.maxBytes
        BY <1>4 DEF QuotaInv, Commit
      <4>2. p.maxBytes > 0 /\ p.maxBytes \in Nat
        BY ConstantsAssumption DEF ConstantsAssumption, Policy
      <4>3. MonthOf(forwarded', u, m) <= call[s].maxBytes + MonthOf(lost', u, m)
        BY <1>4, <2>5, <3>1, <4>1, <4>2, QuotaCommit
      <4> QED
        BY <4>1, <4>3
    <3>2. CASE ~(u = UserOf(id) /\ m = monthKey /\ ~over)
      <4>1. PICK p \in Policies : MonthOf(forwarded, u, m) <= p.maxBytes + MonthOf(lost, u, m)
        BY DEF QuotaInv, ForwardedWithinQuota
      <4>2. \A c \in Cells : UserOf(c[1]) = u /\ c[2] = m => forwarded'[c] = forwarded[c]
        <5>1. cell[1] = id /\ cell[2] = monthKey
          OBVIOUS
        <5> HIDE DEF over, cell, id, bytes
        <5> QED
          BY <2>4, <3>2, <5>1
      <4>3. \A c \in Cells : lost[c] <= lost'[c]
        BY SMT, <2>2, <2>3
      <4>4. MonthOf(forwarded', u, m) <= p.maxBytes + MonthOf(lost', u, m)
        BY <1>2, <4>1, <4>2, <4>3, QuotaKept
      <4> QED
        BY <4>4
    <3> QED
      BY <3>1, <3>2
  <2> QED
    BY <1>1, <2>5, <2>6 DEF QuotaInv
<1>5. CASE UNCHANGED <<charged, lost, forwarded>>
  <2>1. \A c \in Cells : lost[c] <= lost'[c]
    BY SMT, <1>2, <1>5 DEF TypeOK
  <2> QED
    BY <1>3, <1>5, <2>1
<1> QED
  BY <1>3, <1>4, <1>5, HistoryStep

LEMMA InitQuota == Init => QuotaInv
<1> SUFFICES ASSUME Init PROVE QuotaInv
  OBVIOUS
<1>1. \A c \in Cells : forwarded[c] <= charged[c]
  BY SMT DEF Init, Zero
<1>2. \A s \in Streams : pc[s] = "idle"
  BY DEF Init
<1>3. ForwardedWithinQuota
  <2> SUFFICES ASSUME NEW u \in Users, NEW m \in Months
               PROVE  \E p \in Policies :
                         MonthOf(forwarded, u, m) <= p.maxBytes + MonthOf(lost, u, m)
    BY DEF ForwardedWithinQuota
  <2>1. PICK p \in Policies : p.maxBytes \in Nat
    BY SMT, ConstantsAssumption DEF ConstantsAssumption, Init, Policy
  <2>2. forwarded = lost
    BY DEF Init
  <2>3. PICK C : C = CellsOf(IdsOf(u), m)
    OBVIOUS
  <2>4. IsFiniteSet(C) /\ C \subseteq Cells /\ MonthOf(lost, u, m) = SumFunctionOnSet(lost, C)
    BY <2>3, MonthCells
  <2>5. \A c \in C : lost[c] \in Nat
    BY <2>4 DEF Init, Zero
  <2>6. MonthOf(lost, u, m) \in Nat
    BY <2>4, <2>5, SumOver
  <2> QED
    BY SMT, <2>1, <2>2, <2>6
<1> QED
  BY <1>1, <1>2, <1>3 DEF QuotaInv

\* Over all nodes, streams, policies, months and restarts, LogTrafficContext lets
\* through no more of a user's month than a quota that was published
\* allows, plus what earlier processes lost before it was persisted.
THEOREM QuotaTheorem == Spec => []ForwardedWithinQuota
<1>1. QuotaInv => ForwardedWithinQuota
  BY DEF QuotaInv
<1>2. IndInv /\ IndInv' /\ QuotaInv /\ [Next]_vars => QuotaInv'
  BY QuotaStep
<1> QED
  BY InitQuota, Invariance, <1>1, <1>2, PTL DEF Spec
=============================================================================
