------------------------ MODULE OutboundNodesProofs ------------------------
(***************************************************************************)
(* Proofs about OutboundNodes for every set of nodes and requests and      *)
(* every bound, and about the DownloadLimiter for every set of downloads.  *)
(*                                                                         *)
(* The hand-over of a node from the request that evicts its client to the  *)
(* worker that dials again takes four steps of two goroutines.  IndInv     *)
(* says who owns what at each of them: EntryInv for the worker, EvictorInv *)
(* for the one request that may be closing the evicted client, and         *)
(* RequestInv for the clients requests still hold.                         *)
(***************************************************************************)
EXTENDS OutboundNodes, MCDownloadLimiter, TLAPS

RequestPcs == {"idle", "tcp", "udpOpen", "udp", "mark", "markUDP", "close", "token"}

TypeOK ==
    /\ run \in [Nodes -> {"acquire", "dial", "connected", "ready", "retry", "backoff", "done"}]
    /\ client \in [Nodes -> Nat]
    /\ state \in [Nodes -> {"Connecting", "Ready", "Unavailable", "Backoff"}]
    /\ reconnect \in [Nodes -> BOOLEAN]
    /\ dials \in [Nodes -> Nat]
    /\ up \in [Nodes -> SUBSET Nat] /\ open \in [Nodes -> SUBSET Nat]
    /\ req \in [Requests -> [pc : RequestPcs, node : {None} \cup Nodes, client : Nat]]
    /\ closing \in [Requests -> {"no", "flagged", "closed"}]
    /\ shutdown \in {"no", "waiting", "done"}

\* What the worker of a node may rely on at each of its places.
EntryInv ==
    \A n \in Nodes :
        /\ \A c \in up[n] \cup open[n] : c <= dials[n]
        /\ run[n] \in {"acquire", "dial", "retry", "backoff"}
              => client[n] = None /\ open[n] = {} /\ ~reconnect[n]
        /\ run[n] = "connected" => client[n] = None /\ open[n] = {dials[n]} /\ ~reconnect[n]
        /\ client[n] # None => run[n] = "ready" /\ open[n] = {client[n]} /\ ~reconnect[n]
        /\ reconnect[n] /\ run[n] # "done" => open[n] = {}
        /\ client[n] <= dials[n]

\* The request that has evicted the client of a node and has not sent the token
\* yet, if there is one.
Evicting(r) == req[r].pc \in {"close", "token"}

EvictorInv ==
    \A r \in Requests : Evicting(r) =>
        LET n == req[r].node IN
        /\ run[n] \in {"ready", "done"} /\ client[n] = None
        /\ run[n] = "ready" => ~reconnect[n]
        /\ open[n] \subseteq (IF req[r].pc = "close" THEN {req[r].client} ELSE {})
        /\ \A s \in Requests : Evicting(s) /\ req[s].node = n => s = r

\* A request holds a client that its node has dialed before.
RequestInv ==
    \A r \in Requests : req[r].pc # "idle" =>
        /\ req[r].node \in Nodes
        /\ req[r].client # None /\ req[r].client <= dials[req[r].node]

IndInv ==
    /\ TypeOK /\ EntryInv /\ EvictorInv /\ RequestInv
    /\ OneOpenClient /\ LocalCloseIsPrivate
----------------------------------------------------------------------------
\* The steps of a UDP association before markUnavailable change one request only.
LEMMA UDPSteps ==
    ASSUME TypeOK, NEW r \in Requests, UDPOpens(r) \/ UDPFails(r)
    PROVE  /\ UNCHANGED <<workerVars, entryVars, connVars, closing, shutdown>>
           /\ req[r].pc \in {"udpOpen", "udp"}
           /\ \A s \in Requests \ {r} : req'[s] = req[s]
           /\ \/ req'[r] = NoRequest
              \/ /\ req'[r].pc \in {"udp", "markUDP"}
                 /\ req'[r].node = req[r].node /\ req'[r].client = req[r].client
                 /\ req'[r].pc = "markUDP" => req[r].client \notin up[req[r].node]
<1>1. CASE UDPOpens(r)
  BY <1>1 DEF UDPOpens, SetReq, TypeOK
<1>2. CASE UDPFails(r) /\ closing[r] = "no"
  BY <1>2 DEF UDPFails, SetReq, TypeOK
<1>3. CASE UDPFails(r) /\ closing[r] # "no"
  BY <1>3 DEF UDPFails, Done, TypeOK
<1> QED
  BY <1>1, <1>2, <1>3

LEMMA TypeStep == IndInv /\ [Next]_vars => TypeOK'
<1> SUFFICES ASSUME IndInv, [Next]_vars PROVE TypeOK'
  OBVIOUS
<1>a. TypeOK /\ RequestInv
  BY DEF IndInv
<1> USE DEF workerVars, entryVars, connVars, reqVars, NoRequest, None
<1>1. ASSUME NEW n \in Nodes, Backoff(n) PROVE TypeOK'
  BY <1>a, <1>1 DEF Backoff, Goto, SetState, TypeOK, RequestPcs
<1>2. ASSUME NEW n \in Nodes, BackoffEnds(n) PROVE TypeOK'
  BY <1>a, <1>2 DEF BackoffEnds, Goto, SetState, TypeOK, RequestPcs
<1>3. ASSUME NEW n \in Nodes, Acquire(n) PROVE TypeOK'
  BY <1>a, <1>3 DEF Acquire, Goto, TypeOK, RequestPcs
<1>4. ASSUME NEW n \in Nodes, DialSucceeds(n) PROVE TypeOK'
  BY <1>a, <1>4 DEF DialSucceeds, Goto, TypeOK, RequestPcs
<1>5. ASSUME NEW n \in Nodes, DialFails(n) PROVE TypeOK'
  BY <1>a, <1>5 DEF DialFails, Goto, SetState, TypeOK, RequestPcs
<1>6. ASSUME NEW n \in Nodes, SetReady(n) PROVE TypeOK'
  BY <1>a, <1>6 DEF SetReady, Goto, SetState, TypeOK, RequestPcs
<1>7. ASSUME NEW n \in Nodes, Reconnect(n) PROVE TypeOK'
  BY <1>a, <1>7 DEF Reconnect, Goto, TypeOK, RequestPcs
<1>8. ASSUME NEW n \in Nodes, RunCancelled(n) PROVE TypeOK'
  BY <1>a, <1>8 DEF RunCancelled, Exit, Goto, TypeOK, RequestPcs
<1>9. ASSUME NEW n \in Nodes, ConnectionDrops(n) PROVE TypeOK'
  BY <1>a, <1>9 DEF ConnectionDrops, TypeOK, RequestPcs
<1>10. ASSUME NEW r \in Requests, NEW n \in Nodes, NEW kind \in {"tcp", "udpOpen"},
             Begin(r, n, kind)
      PROVE  TypeOK'
  BY <1>a, <1>10 DEF Begin, TypeOK, RequestPcs
<1>11. ASSUME NEW r \in Requests, TCPEnds(r) PROVE TypeOK'
  BY <1>a, <1>11 DEF TCPEnds, Done, TypeOK, RequestPcs
<1>12. ASSUME NEW r \in Requests, TCPFails(r) PROVE TypeOK'
  BY SMTT(30), <1>a, <1>12 DEF TCPFails, SetReq, TypeOK, RequestPcs
<1>13. ASSUME NEW r \in Requests, UDPOpens(r) PROVE TypeOK'
  BY <1>a, <1>13 DEF UDPOpens, SetReq, TypeOK, RequestPcs
<1>14. ASSUME NEW r \in Requests, UDPFails(r) PROVE TypeOK'
  BY SMTT(30), <1>a, <1>14 DEF UDPFails, SetReq, Done, TypeOK, RequestPcs
<1>15. ASSUME NEW r \in Requests, CloseUDP(r) PROVE TypeOK'
  BY <1>a, <1>15 DEF CloseUDP, TypeOK, RequestPcs
<1>16. ASSUME NEW r \in Requests, MarkUnavailable(r) PROVE TypeOK'
  <2>1. req' = [req EXCEPT ![r] = NoRequest] \/ req' = [req EXCEPT ![r].pc = "close"]
    BY <1>16 DEF MarkUnavailable, SetReq, Done
  <2>2. req' \in [Requests -> [pc : RequestPcs, node : {None} \cup Nodes, client : Nat]]
    BY <1>a, <2>1 DEF TypeOK, RequestPcs
  <2>3. \/ UNCHANGED entryVars
        \/ /\ client' = [client EXCEPT ![req[r].node] = None]
           /\ state' = [state EXCEPT ![req[r].node] = "Unavailable"]
           /\ UNCHANGED reconnect
    BY <1>16 DEF MarkUnavailable, EvictedState, SetState
  <2>4. UNCHANGED <<workerVars, connVars, closing, shutdown>>
    BY <1>16 DEF MarkUnavailable
  <2> QED
    BY <1>a, <2>2, <2>3, <2>4 DEF TypeOK
<1>17. ASSUME NEW r \in Requests, CloseEvicted(r) PROVE TypeOK'
  BY ZenonT(30), <1>a, <1>17 DEF CloseEvicted, SetReq, TypeOK, RequestPcs
<1>18. ASSUME NEW r \in Requests, SendToken(r) PROVE TypeOK'
  BY <1>a, <1>18 DEF SendToken, Done, TypeOK, RequestPcs
<1>19. CASE Close \/ CloseReturns \/ UNCHANGED vars
  BY <1>a, <1>19 DEF Close, CloseReturns, vars, TypeOK, RequestPcs
<1> QED
  BY <1>1, <1>2, <1>3, <1>4, <1>5, <1>6, <1>7, <1>8, <1>9, <1>10, <1>11, <1>12,
     <1>13, <1>14, <1>15, <1>16, <1>17, <1>18, <1>19 DEF Next, WorkerStep,
     RequestStep

LEMMA EntryStep == IndInv /\ [Next]_vars => EntryInv'
<1> SUFFICES ASSUME IndInv, [Next]_vars PROVE EntryInv'
  OBVIOUS
<1>a. TypeOK /\ EntryInv /\ EvictorInv /\ RequestInv
  BY DEF IndInv
<1> USE DEF workerVars, entryVars, connVars, reqVars, NoRequest, None
<1>1. ASSUME NEW n \in Nodes, Backoff(n) PROVE EntryInv'
  BY <1>a, <1>1 DEF Backoff, Goto, SetState, TypeOK, EntryInv, RequestInv,
     EvictorInv, Evicting
<1>2. ASSUME NEW n \in Nodes, BackoffEnds(n) PROVE EntryInv'
  BY <1>a, <1>2 DEF BackoffEnds, Goto, SetState, TypeOK, EntryInv, RequestInv,
     EvictorInv, Evicting
<1>3. ASSUME NEW n \in Nodes, Acquire(n) PROVE EntryInv'
  BY <1>a, <1>3 DEF Acquire, Goto, TypeOK, EntryInv, RequestInv, EvictorInv,
     Evicting
<1>4. ASSUME NEW n \in Nodes, DialSucceeds(n) PROVE EntryInv'
  BY <1>a, <1>4 DEF DialSucceeds, Goto, TypeOK, EntryInv, RequestInv,
     EvictorInv, Evicting
<1>5. ASSUME NEW n \in Nodes, DialFails(n) PROVE EntryInv'
  BY <1>a, <1>5 DEF DialFails, Goto, SetState, TypeOK, EntryInv, RequestInv,
     EvictorInv, Evicting
<1>6. ASSUME NEW n \in Nodes, SetReady(n) PROVE EntryInv'
  BY <1>a, <1>6 DEF SetReady, Goto, SetState, TypeOK, EntryInv, RequestInv,
     EvictorInv, Evicting
<1>7. ASSUME NEW n \in Nodes, Reconnect(n) PROVE EntryInv'
  BY <1>a, <1>7 DEF Reconnect, Goto, TypeOK, EntryInv, RequestInv, EvictorInv,
     Evicting
<1>8. ASSUME NEW n \in Nodes, RunCancelled(n) PROVE EntryInv'
  BY <1>a, <1>8 DEF RunCancelled, Exit, Goto, TypeOK, EntryInv, RequestInv,
     EvictorInv, Evicting
<1>9. ASSUME NEW n \in Nodes, ConnectionDrops(n) PROVE EntryInv'
  BY <1>a, <1>9 DEF ConnectionDrops, TypeOK, EntryInv, RequestInv, EvictorInv,
     Evicting
<1>10. ASSUME NEW r \in Requests, NEW n \in Nodes, NEW kind \in {"tcp", "udpOpen"},
             Begin(r, n, kind)
      PROVE  EntryInv'
  BY <1>a, <1>10 DEF Begin, TypeOK, EntryInv, RequestInv, EvictorInv, Evicting
<1>11. ASSUME NEW r \in Requests, TCPEnds(r) PROVE EntryInv'
  BY <1>a, <1>11 DEF TCPEnds, Done, TypeOK, EntryInv, RequestInv, EvictorInv,
     Evicting
<1>12. ASSUME NEW r \in Requests, TCPFails(r) PROVE EntryInv'
  BY <1>a, <1>12 DEF TCPFails, SetReq, TypeOK, EntryInv, RequestInv, EvictorInv,
     Evicting
<1>13. ASSUME NEW r \in Requests, UDPOpens(r) PROVE EntryInv'
  BY <1>a, <1>13 DEF UDPOpens, SetReq, TypeOK, EntryInv, RequestInv, EvictorInv,
     Evicting
<1>14. ASSUME NEW r \in Requests, UDPFails(r) PROVE EntryInv'
  BY <1>a, <1>14 DEF UDPFails, SetReq, Done, TypeOK, EntryInv, RequestInv,
     EvictorInv, Evicting
<1>15. ASSUME NEW r \in Requests, CloseUDP(r) PROVE EntryInv'
  BY <1>a, <1>15 DEF CloseUDP, TypeOK, EntryInv, RequestInv, EvictorInv,
     Evicting
<1>16. ASSUME NEW r \in Requests, MarkUnavailable(r) PROVE EntryInv'
  BY <1>a, <1>16 DEF MarkUnavailable, Evicts, EvictedState, SetState, SetReq,
     Done, TypeOK, EntryInv, RequestInv, EvictorInv, Evicting
<1>17. ASSUME NEW r \in Requests, CloseEvicted(r) PROVE EntryInv'
  BY <1>a, <1>17 DEF CloseEvicted, SetReq, TypeOK, EntryInv, RequestInv,
     EvictorInv, Evicting
<1>18. ASSUME NEW r \in Requests, SendToken(r) PROVE EntryInv'
  BY <1>a, <1>18 DEF SendToken, Done, TypeOK, EntryInv, RequestInv, EvictorInv,
     Evicting
<1>19. CASE Close \/ CloseReturns \/ UNCHANGED vars
  BY <1>a, <1>19 DEF Close, CloseReturns, vars, TypeOK, EntryInv, RequestInv,
     EvictorInv, Evicting
<1> QED
  BY <1>1, <1>2, <1>3, <1>4, <1>5, <1>6, <1>7, <1>8, <1>9, <1>10, <1>11, <1>12,
     <1>13, <1>14, <1>15, <1>16, <1>17, <1>18, <1>19 DEF Next, WorkerStep,
     RequestStep

LEMMA EvictorStep == IndInv /\ [Next]_vars => EvictorInv'
<1> SUFFICES ASSUME IndInv, [Next]_vars PROVE EvictorInv'
  OBVIOUS
<1>a. TypeOK /\ EntryInv /\ EvictorInv /\ RequestInv
  BY DEF IndInv
<1> USE DEF workerVars, entryVars, connVars, reqVars, NoRequest, None
<1>1. ASSUME NEW n \in Nodes, Backoff(n) PROVE EvictorInv'
  BY <1>a, <1>1 DEF Backoff, Goto, SetState, TypeOK, EntryInv, RequestInv,
     EvictorInv, Evicting
<1>2. ASSUME NEW n \in Nodes, BackoffEnds(n) PROVE EvictorInv'
  BY <1>a, <1>2 DEF BackoffEnds, Goto, SetState, TypeOK, EntryInv, RequestInv,
     EvictorInv, Evicting
<1>3. ASSUME NEW n \in Nodes, Acquire(n) PROVE EvictorInv'
  BY <1>a, <1>3 DEF Acquire, Goto, TypeOK, EntryInv, RequestInv, EvictorInv,
     Evicting
<1>4. ASSUME NEW n \in Nodes, DialSucceeds(n) PROVE EvictorInv'
  BY <1>a, <1>4 DEF DialSucceeds, Goto, TypeOK, EntryInv, RequestInv,
     EvictorInv, Evicting
<1>5. ASSUME NEW n \in Nodes, DialFails(n) PROVE EvictorInv'
  BY <1>a, <1>5 DEF DialFails, Goto, SetState, TypeOK, EntryInv, RequestInv,
     EvictorInv, Evicting
<1>6. ASSUME NEW n \in Nodes, SetReady(n) PROVE EvictorInv'
  BY <1>a, <1>6 DEF SetReady, Goto, SetState, TypeOK, EntryInv, RequestInv,
     EvictorInv, Evicting
<1>7. ASSUME NEW n \in Nodes, Reconnect(n) PROVE EvictorInv'
  BY <1>a, <1>7 DEF Reconnect, Goto, TypeOK, EntryInv, RequestInv, EvictorInv,
     Evicting
<1>8. ASSUME NEW n \in Nodes, RunCancelled(n) PROVE EvictorInv'
  BY <1>a, <1>8 DEF RunCancelled, Exit, Goto, TypeOK, EntryInv, RequestInv,
     EvictorInv, Evicting
<1>9. ASSUME NEW n \in Nodes, ConnectionDrops(n) PROVE EvictorInv'
  BY <1>a, <1>9 DEF ConnectionDrops, TypeOK, EntryInv, RequestInv, EvictorInv,
     Evicting
<1>10. ASSUME NEW r \in Requests, NEW n \in Nodes, NEW kind \in {"tcp", "udpOpen"},
             Begin(r, n, kind)
      PROVE  EvictorInv'
  BY <1>a, <1>10 DEF Begin, TypeOK, EntryInv, RequestInv, EvictorInv, Evicting
<1>11. ASSUME NEW r \in Requests, TCPEnds(r) PROVE EvictorInv'
  BY <1>a, <1>11 DEF TCPEnds, Done, TypeOK, EntryInv, RequestInv, EvictorInv,
     Evicting
<1>12. ASSUME NEW r \in Requests, TCPFails(r) PROVE EvictorInv'
  BY <1>a, <1>12 DEF TCPFails, SetReq, TypeOK, EntryInv, RequestInv, EvictorInv,
     Evicting
<1>13. ASSUME NEW r \in Requests, UDPOpens(r) PROVE EvictorInv'
  BY SMTT(30), <1>a, <1>13, UDPSteps DEF TypeOK, EntryInv, RequestInv,
     EvictorInv, Evicting
<1>14. ASSUME NEW r \in Requests, UDPFails(r) PROVE EvictorInv'
  BY <1>a, <1>14, UDPSteps DEF TypeOK, EntryInv, RequestInv, EvictorInv,
     Evicting
<1>15. ASSUME NEW r \in Requests, CloseUDP(r) PROVE EvictorInv'
  BY <1>a, <1>15 DEF CloseUDP, TypeOK, EntryInv, RequestInv, EvictorInv,
     Evicting
<1>16. ASSUME NEW r \in Requests, MarkUnavailable(r) PROVE EvictorInv'
  BY SMTT(30), <1>a, <1>16 DEF MarkUnavailable, Evicts, EvictedState, SetState,
     SetReq, Done, TypeOK, EntryInv, RequestInv, EvictorInv, Evicting
<1>17. ASSUME NEW r \in Requests, CloseEvicted(r) PROVE EvictorInv'
  BY <1>a, <1>17 DEF CloseEvicted, SetReq, TypeOK, EntryInv, RequestInv,
     EvictorInv, Evicting
<1>18. ASSUME NEW r \in Requests, SendToken(r) PROVE EvictorInv'
  BY <1>a, <1>18 DEF SendToken, Done, TypeOK, EntryInv, RequestInv, EvictorInv,
     Evicting
<1>19. CASE Close \/ CloseReturns \/ UNCHANGED vars
  BY <1>a, <1>19 DEF Close, CloseReturns, vars, TypeOK, EntryInv, RequestInv,
     EvictorInv, Evicting
<1> QED
  BY <1>1, <1>2, <1>3, <1>4, <1>5, <1>6, <1>7, <1>8, <1>9, <1>10, <1>11, <1>12,
     <1>13, <1>14, <1>15, <1>16, <1>17, <1>18, <1>19 DEF Next, WorkerStep,
     RequestStep

LEMMA RequestsStep == IndInv /\ [Next]_vars => RequestInv'
<1> SUFFICES ASSUME IndInv, [Next]_vars PROVE RequestInv'
  OBVIOUS
<1>a. TypeOK /\ EntryInv /\ RequestInv
  BY DEF IndInv
<1> USE DEF workerVars, entryVars, connVars, reqVars, NoRequest, None
<1>1. ASSUME NEW n \in Nodes, Backoff(n) PROVE RequestInv'
  BY <1>a, <1>1 DEF Backoff, Goto, SetState, TypeOK, EntryInv, RequestInv
<1>2. ASSUME NEW n \in Nodes, BackoffEnds(n) PROVE RequestInv'
  BY <1>a, <1>2 DEF BackoffEnds, Goto, SetState, TypeOK, EntryInv, RequestInv
<1>3. ASSUME NEW n \in Nodes, Acquire(n) PROVE RequestInv'
  BY <1>a, <1>3 DEF Acquire, Goto, TypeOK, EntryInv, RequestInv
<1>4. ASSUME NEW n \in Nodes, DialSucceeds(n) PROVE RequestInv'
  BY <1>a, <1>4 DEF DialSucceeds, Goto, TypeOK, EntryInv, RequestInv
<1>5. ASSUME NEW n \in Nodes, DialFails(n) PROVE RequestInv'
  BY <1>a, <1>5 DEF DialFails, Goto, SetState, TypeOK, EntryInv, RequestInv
<1>6. ASSUME NEW n \in Nodes, SetReady(n) PROVE RequestInv'
  BY <1>a, <1>6 DEF SetReady, Goto, SetState, TypeOK, EntryInv, RequestInv
<1>7. ASSUME NEW n \in Nodes, Reconnect(n) PROVE RequestInv'
  BY <1>a, <1>7 DEF Reconnect, Goto, TypeOK, EntryInv, RequestInv
<1>8. ASSUME NEW n \in Nodes, RunCancelled(n) PROVE RequestInv'
  BY <1>a, <1>8 DEF RunCancelled, Exit, Goto, TypeOK, EntryInv, RequestInv
<1>9. ASSUME NEW n \in Nodes, ConnectionDrops(n) PROVE RequestInv'
  BY <1>a, <1>9 DEF ConnectionDrops, TypeOK, EntryInv, RequestInv
<1>10. ASSUME NEW r \in Requests, NEW n \in Nodes, NEW kind \in {"tcp", "udpOpen"},
             Begin(r, n, kind)
      PROVE  RequestInv'
  BY <1>a, <1>10 DEF Begin, TypeOK, EntryInv, RequestInv
<1>11. ASSUME NEW r \in Requests, TCPEnds(r) PROVE RequestInv'
  BY <1>a, <1>11 DEF TCPEnds, Done, TypeOK, EntryInv, RequestInv
<1>12. ASSUME NEW r \in Requests, TCPFails(r) PROVE RequestInv'
  BY <1>a, <1>12 DEF TCPFails, SetReq, TypeOK, EntryInv, RequestInv
<1>13. ASSUME NEW r \in Requests, UDPOpens(r) PROVE RequestInv'
  BY SMTT(30), <1>a, <1>13, UDPSteps DEF TypeOK, EntryInv, RequestInv
<1>14. ASSUME NEW r \in Requests, UDPFails(r) PROVE RequestInv'
  BY SMTT(30), <1>a, <1>14, UDPSteps DEF TypeOK, EntryInv, RequestInv
<1>15. ASSUME NEW r \in Requests, CloseUDP(r) PROVE RequestInv'
  BY <1>a, <1>15 DEF CloseUDP, TypeOK, EntryInv, RequestInv
<1>16. ASSUME NEW r \in Requests, MarkUnavailable(r) PROVE RequestInv'
  BY <1>a, <1>16 DEF MarkUnavailable, Evicts, EvictedState, SetState, SetReq,
     Done, TypeOK, EntryInv, RequestInv
<1>17. ASSUME NEW r \in Requests, CloseEvicted(r) PROVE RequestInv'
  BY <1>a, <1>17 DEF CloseEvicted, SetReq, TypeOK, EntryInv, RequestInv
<1>18. ASSUME NEW r \in Requests, SendToken(r) PROVE RequestInv'
  BY <1>a, <1>18 DEF SendToken, Done, TypeOK, EntryInv, RequestInv
<1>19. CASE Close \/ CloseReturns \/ UNCHANGED vars
  BY <1>a, <1>19 DEF Close, CloseReturns, vars, TypeOK, EntryInv, RequestInv
<1> QED
  BY <1>1, <1>2, <1>3, <1>4, <1>5, <1>6, <1>7, <1>8, <1>9, <1>10, <1>11, <1>12,
     <1>13, <1>14, <1>15, <1>16, <1>17, <1>18, <1>19 DEF Next, WorkerStep,
     RequestStep

LEMMA ClientsStep == IndInv /\ [Next]_vars => (OneOpenClient /\ LocalCloseIsPrivate)'
<1> SUFFICES ASSUME IndInv, [Next]_vars PROVE (OneOpenClient /\ LocalCloseIsPrivate)'
  OBVIOUS
<1>a. TypeOK /\ EntryInv /\ RequestInv /\ OneOpenClient /\ LocalCloseIsPrivate
  BY DEF IndInv
<1> USE DEF workerVars, entryVars, connVars, reqVars, NoRequest, None
<1>1. ASSUME NEW n \in Nodes, Backoff(n) PROVE (OneOpenClient /\ LocalCloseIsPrivate)'
  BY <1>a, <1>1 DEF Backoff, Goto, SetState, TypeOK, EntryInv, RequestInv,
     OneOpenClient, LocalCloseIsPrivate
<1>2. ASSUME NEW n \in Nodes, BackoffEnds(n) PROVE (OneOpenClient /\ LocalCloseIsPrivate)'
  BY <1>a, <1>2 DEF BackoffEnds, Goto, SetState, TypeOK, EntryInv, RequestInv,
     OneOpenClient, LocalCloseIsPrivate
<1>3. ASSUME NEW n \in Nodes, Acquire(n) PROVE (OneOpenClient /\ LocalCloseIsPrivate)'
  BY <1>a, <1>3 DEF Acquire, Goto, TypeOK, EntryInv, RequestInv, OneOpenClient,
     LocalCloseIsPrivate
<1>4. ASSUME NEW n \in Nodes, DialSucceeds(n) PROVE (OneOpenClient /\ LocalCloseIsPrivate)'
  BY <1>a, <1>4 DEF DialSucceeds, Goto, TypeOK, EntryInv, RequestInv,
     OneOpenClient, LocalCloseIsPrivate
<1>5. ASSUME NEW n \in Nodes, DialFails(n) PROVE (OneOpenClient /\ LocalCloseIsPrivate)'
  BY <1>a, <1>5 DEF DialFails, Goto, SetState, TypeOK, EntryInv, RequestInv,
     OneOpenClient, LocalCloseIsPrivate
<1>6. ASSUME NEW n \in Nodes, SetReady(n) PROVE (OneOpenClient /\ LocalCloseIsPrivate)'
  BY <1>a, <1>6 DEF SetReady, Goto, SetState, TypeOK, EntryInv, RequestInv,
     OneOpenClient, LocalCloseIsPrivate
<1>7. ASSUME NEW n \in Nodes, Reconnect(n) PROVE (OneOpenClient /\ LocalCloseIsPrivate)'
  BY <1>a, <1>7 DEF Reconnect, Goto, TypeOK, EntryInv, RequestInv,
     OneOpenClient, LocalCloseIsPrivate
<1>8. ASSUME NEW n \in Nodes, RunCancelled(n) PROVE (OneOpenClient /\ LocalCloseIsPrivate)'
  BY <1>a, <1>8 DEF RunCancelled, Exit, Goto, TypeOK, EntryInv, RequestInv,
     OneOpenClient, LocalCloseIsPrivate
<1>9. ASSUME NEW n \in Nodes, ConnectionDrops(n) PROVE (OneOpenClient /\ LocalCloseIsPrivate)'
  BY <1>a, <1>9 DEF ConnectionDrops, TypeOK, EntryInv, RequestInv,
     OneOpenClient, LocalCloseIsPrivate
<1>10. ASSUME NEW r \in Requests, NEW n \in Nodes, NEW kind \in {"tcp", "udpOpen"},
             Begin(r, n, kind)
      PROVE  (OneOpenClient /\ LocalCloseIsPrivate)'
  BY <1>a, <1>10 DEF Begin, TypeOK, EntryInv, RequestInv, OneOpenClient,
     LocalCloseIsPrivate
<1>11. ASSUME NEW r \in Requests, TCPEnds(r) PROVE (OneOpenClient /\ LocalCloseIsPrivate)'
  BY <1>a, <1>11 DEF TCPEnds, Done, TypeOK, EntryInv, RequestInv, OneOpenClient,
     LocalCloseIsPrivate
<1>12. ASSUME NEW r \in Requests, TCPFails(r) PROVE (OneOpenClient /\ LocalCloseIsPrivate)'
  BY <1>a, <1>12 DEF TCPFails, SetReq, TypeOK, EntryInv, RequestInv,
     OneOpenClient, LocalCloseIsPrivate
<1>13. ASSUME NEW r \in Requests, UDPOpens(r) \/ UDPFails(r)
      PROVE  (OneOpenClient /\ LocalCloseIsPrivate)'
  <2>1. OneOpenClient'
    BY <1>a, <1>13, UDPSteps DEF OneOpenClient
  <2>2. LocalCloseIsPrivate'
    BY <1>a, <1>13, UDPSteps DEF LocalCloseIsPrivate
  <2> QED
    BY <2>1, <2>2
<1>15. ASSUME NEW r \in Requests, CloseUDP(r) PROVE (OneOpenClient /\ LocalCloseIsPrivate)'
  BY <1>a, <1>15 DEF CloseUDP, TypeOK, EntryInv, RequestInv, OneOpenClient,
     LocalCloseIsPrivate
<1>16. ASSUME NEW r \in Requests, MarkUnavailable(r) PROVE (OneOpenClient /\ LocalCloseIsPrivate)'
  BY <1>a, <1>16 DEF MarkUnavailable, Evicts, EvictedState, SetState, SetReq,
     Done, TypeOK, EntryInv, RequestInv, OneOpenClient, LocalCloseIsPrivate
<1>17. ASSUME NEW r \in Requests, CloseEvicted(r) PROVE (OneOpenClient /\ LocalCloseIsPrivate)'
  BY <1>a, <1>17 DEF CloseEvicted, SetReq, TypeOK, EntryInv, RequestInv,
     OneOpenClient, LocalCloseIsPrivate
<1>18. ASSUME NEW r \in Requests, SendToken(r) PROVE (OneOpenClient /\ LocalCloseIsPrivate)'
  BY <1>a, <1>18 DEF SendToken, Done, TypeOK, EntryInv, RequestInv,
     OneOpenClient, LocalCloseIsPrivate
<1>19. CASE Close \/ CloseReturns \/ UNCHANGED vars
  BY <1>a, <1>19 DEF Close, CloseReturns, vars, TypeOK, EntryInv, RequestInv,
     OneOpenClient, LocalCloseIsPrivate
<1> QED
  BY <1>1, <1>2, <1>3, <1>4, <1>5, <1>6, <1>7, <1>8, <1>9, <1>10, <1>11, <1>12,
     <1>13, <1>15, <1>16, <1>17, <1>18, <1>19 DEF Next, WorkerStep,
     RequestStep

LEMMA InitInv ==
    ASSUME NEW used \in [Nodes -> Nat], InitAfter(used)
    PROVE  IndInv
<1>1. TypeOK
  BY DEF InitAfter, TypeOK, NoRequest, None, RequestPcs
<1> QED
  BY <1>1 DEF InitAfter, IndInv, EntryInv, EvictorInv, Evicting, RequestInv,
     OneOpenClient, LocalCloseIsPrivate, NoRequest, None

\* Every reachable state satisfies the inductive invariant.
THEOREM Invariance == Spec => []IndInv
<1>1. Init => IndInv
  BY InitInv DEF Init
<1>2. IndInv /\ [Next]_vars => IndInv'
  BY TypeStep, EntryStep, EvictorStep, RequestsStep, ClientsStep DEF IndInv
<1> QED
  BY <1>1, <1>2, PTL DEF Spec

\* The gateway never has two open clients of one node, however many requests
\* report its failure and however late.
THEOREM OneOpenClientTheorem == Spec => []OneOpenClient
<1>1. IndInv => OneOpenClient
  BY DEF IndInv
<1> QED
  BY Invariance, <1>1, PTL

\* A token in the reconnect channel of a running worker reports the client that
\* was evicted last: no token of an earlier client makes it dial beside a good one.
THEOREM TokenTheorem == Spec => []TokenIsCurrent
<1>1. IndInv => TokenIsCurrent
  BY DEF IndInv, TypeOK, EntryInv, TokenIsCurrent
<1> QED
  BY Invariance, <1>1, PTL

\* markUnavailable is reached from a UDP association only after the connection
\* itself is down, never by closing the association.
THEOREM LocalCloseTheorem == Spec => []LocalCloseIsPrivate
<1>1. IndInv => LocalCloseIsPrivate
  BY DEF IndInv
<1> QED
  BY Invariance, <1>1, PTL
----------------------------------------------------------------------------
(***************************************************************************)
(* The limiter, DownloadLimiter, for every choice of rates and sizes and   *)
(* without the bounds on time.                                             *)
(*                                                                         *)
(* Until a rate changes, the intervals of a user that are reserved or were *)
(* let through lie apart and end before limiter.next (Apart, AheadOf).     *)
(* When the last of them is given up, limiter.next goes back to its start: *)
(* all others end there or earlier, because they lie apart from it.        *)
(***************************************************************************)

\* Most leaves are first-order reasoning; those with arithmetic cite SMT.
USE Zenon

Reserved(s) == downloads[s].at \in {"wait", "cancel"}

\* Of two intervals of one user that take time, one ends before the other starts.
Apart(g, h) ==
    g.user = h.user /\ g.start < g.end /\ h.start < h.end
        => g.end <= h.start \/ h.end <= g.start

Interval(g) == g.user \in Subscribers /\ g.start \in Nat /\ g.end \in Nat /\ g.start <= g.end

\* g, if it takes time, is ahead of limiter.next.
AheadOf(g) == g.start < g.end => g.end <= timeline[g.user]

DownloadInv ==
    \A s \in Downloads :
        /\ downloads[s].at = "reserve" => /\ downloads[s].user \in Subscribers
                                          /\ downloads[s].bytes \in Sizes
                                          /\ downloads[s].rate \in Nat \ {0}
        /\ Reserved(s) => Interval(downloads[s])

LimiterTypeOK ==
    /\ time \in Nat
    /\ rates \in [Subscribers -> Rates]
    /\ timeline \in [Subscribers -> Nat]
    /\ DOMAIN downloads = Downloads
    /\ \A g \in intervals : Interval(g)
    /\ waking => republished # {}
    /\ DownloadInv

TimelineInv ==
    /\ \A s \in Downloads : Reserved(s) =>
          /\ AheadOf(downloads[s])
          /\ \A t \in Downloads : Reserved(t) /\ t # s => Apart(downloads[s], downloads[t])
          /\ \A g \in intervals : Apart(downloads[s], g)
    /\ \A g \in intervals :
          /\ AheadOf(g)
          /\ \A h \in intervals : g # h => Apart(g, h)

LimiterInv == LimiterTypeOK /\ (republished = {} => TimelineInv)
----------------------------------------------------------------------------
\* A payload takes a natural number of seconds.
LEMMA SecondsNat ==
    ASSUME Limiter!LimiterAssumption, NEW b \in Sizes, NEW r \in Nat \ {0}
    PROVE  Limiter!Seconds(b, r) \in Nat
<1>1. Limiter!LargestSize \in Nat /\ b \in Nat
  BY DEF Limiter!LimiterAssumption, Limiter!LargestSize
<1>2. ASSUME NEW x \in Nat, NEW y \in Nat PROVE x * y \in Nat
  BY SMT
<1>3. ASSUME NEW x \in Nat PROVE x \div r \in Nat
  BY SMT
<1> QED
  BY <1>1, <1>2, <1>3 DEF Limiter!Seconds

\* What Reserve computes: an interval that begins at or after limiter.next.
LEMMA Reservation ==
    ASSUME Limiter!LimiterAssumption, LimiterTypeOK,
           NEW s \in Downloads, downloads[s].at = "reserve",
           NEW u, u = downloads[s].user, NEW a, a = Limiter!Start(u),
           NEW e, e = a + Limiter!Seconds(downloads[s].bytes, downloads[s].rate)
    PROVE  u \in Subscribers /\ a \in Nat /\ e \in Nat /\ a <= e /\ timeline[u] <= a
<1>1. u \in Subscribers /\ downloads[s].bytes \in Sizes /\ downloads[s].rate \in Nat \ {0}
  BY DEF LimiterTypeOK, DownloadInv
<1>2. timeline[u] \in Nat /\ time \in Nat
  BY <1>1 DEF LimiterTypeOK
<1>3. a \in Nat /\ timeline[u] <= a
  BY SMT, <1>2 DEF Limiter!Start, Limiter!Later
<1>4. PICK d : d = Limiter!Seconds(downloads[s].bytes, downloads[s].rate)
  OBVIOUS
<1>5. d \in Nat
  BY <1>1, <1>4, SecondsNat
<1>6. e = a + d
  BY <1>4
<1>7. e \in Nat /\ a <= e
  BY SMT, <1>3, <1>5, <1>6
<1> QED
  BY <1>1, <1>3, <1>7

\* The two outcomes of Reserve, for an interval from a to e.
Waits(s, u, a, e) ==
    /\ \E w : /\ w.at = "wait" /\ w.user = u /\ w.start = a /\ w.end = e
              /\ downloads' = [downloads EXCEPT ![s] = w]
    /\ intervals' = intervals

Passes(s, u, a, e) ==
    downloads' = [downloads EXCEPT ![s] = Limiter!Idle] /\ Limiter!Grant(u, a, e)

\* Reserve puts an interval at the end of the timeline.
LEMMA ReserveCases ==
    ASSUME Limiter!LimiterAssumption, LimiterTypeOK, NEW s \in Downloads, Limiter!Reserve(s)
    PROVE  \E u \in Subscribers, a, e \in Nat :
               /\ a <= e /\ timeline[u] <= a
               /\ timeline' = [timeline EXCEPT ![u] = e]
               /\ Waits(s, u, a, e) \/ Passes(s, u, a, e)
<1> DEFINE u == downloads[s].user
           a == Limiter!Start(u)
           e == a + Limiter!Seconds(downloads[s].bytes, downloads[s].rate)
<1>1. u \in Subscribers /\ a \in Nat /\ e \in Nat /\ a <= e /\ timeline[u] <= a
  BY Reservation DEF Limiter!Reserve
<1>2. timeline' = [timeline EXCEPT ![u] = e]
  BY DEF Limiter!Reserve
<1>3. ASSUME NEW w, w = [at |-> "wait", user |-> u, bytes |-> downloads[s].bytes,
                         rate |-> downloads[s].rate, start |-> a, end |-> e,
                         notify |-> wakeups[u]]
      PROVE  w.at = "wait" /\ w.user = u /\ w.start = a /\ w.end = e
  BY <1>3
<1>4. Waits(s, u, a, e) \/ Passes(s, u, a, e)
  BY <1>3 DEF Limiter!Reserve, Waits, Passes
<1> HIDE DEF u, a, e
<1> QED
  BY <1>1, <1>2, <1>4

\* The types of the limiter.
LEMMA LimiterTypeStep ==
    ASSUME Limiter!LimiterAssumption, LimiterTypeOK, [Limiter!Next]_(Limiter!vars)
    PROVE  LimiterTypeOK'
<1>1. ASSUME NEW s \in Downloads, NEW u \in Subscribers, NEW bytes \in Sizes,
             Limiter!ReadPolicy(s, u, bytes)
      PROVE  LimiterTypeOK'
  BY ZenonT(30), <1>1 DEF Limiter!LimiterAssumption, LimiterTypeOK, DownloadInv,
     Reserved, Interval, Limiter!ReadPolicy, Limiter!Idle
<1>2. ASSUME NEW s \in Downloads, Limiter!Reserve(s) PROVE LimiterTypeOK'
  <2>1. PICK u \in Subscribers, a, e \in Nat :
               /\ a <= e /\ timeline[u] <= a
               /\ timeline' = [timeline EXCEPT ![u] = e]
               /\ Waits(s, u, a, e) \/ Passes(s, u, a, e)
    BY <1>2, ReserveCases
  <2>2. UNCHANGED <<time, rates, wakeups, republished, waking>>
    BY <1>2 DEF Limiter!Reserve
  <2> QED
    BY SMT, <2>1, <2>2 DEF LimiterTypeOK, DownloadInv, Reserved, Interval,
       Limiter!Idle, Limiter!Grant, Waits, Passes
<1>3. ASSUME NEW s \in Downloads, Limiter!TimerFires(s) PROVE LimiterTypeOK'
  BY SMT, <1>3 DEF LimiterTypeOK, DownloadInv, Reserved, Interval,
     Limiter!TimerFires, Limiter!Idle, Limiter!Grant
<1>4. ASSUME NEW s \in Downloads, Limiter!GiveUp(s) PROVE LimiterTypeOK'
  BY SMT, <1>4 DEF LimiterTypeOK, DownloadInv, Reserved, Interval,
     Limiter!GiveUp
<1>5. ASSUME NEW s \in Downloads, Limiter!CancelReservation(s) PROVE LimiterTypeOK'
  BY SMT, <1>5 DEF LimiterTypeOK, DownloadInv, Reserved, Interval,
     Limiter!CancelReservation, Limiter!NextAfterCancel, Limiter!Idle
<1>6. ASSUME NEW u \in Subscribers, NEW r \in Rates, Limiter!PublishUsers(u, r)
      PROVE  LimiterTypeOK'
  BY <1>6 DEF LimiterTypeOK, DownloadInv, Reserved, Interval,
     Limiter!PublishUsers
<1>7. CASE Limiter!WakeLimiters
  BY <1>7 DEF LimiterTypeOK, DownloadInv, Reserved, Interval,
     Limiter!WakeLimiters
<1>8. CASE Limiter!Tick
  BY SMT, <1>8 DEF LimiterTypeOK, DownloadInv, Reserved, Interval, Limiter!Tick
<1>9. CASE UNCHANGED Limiter!vars
  BY <1>9 DEF LimiterTypeOK, DownloadInv, Reserved, Interval, Limiter!vars
<1> QED
  BY <1>1, <1>2, <1>3, <1>4, <1>5, <1>6, <1>7, <1>8, <1>9 DEF Limiter!Next

\* Grant records one more interval.
LEMMA GrantAdds ==
    ASSUME NEW u, NEW a, NEW e, Limiter!Grant(u, a, e)
    PROVE  \E n : intervals' = intervals \cup {n} /\ n.user = u /\ n.start = a /\ n.end = e
<1>0. PICK k :
        intervals' = intervals \cup {[user |-> u, number |-> k, start |-> a, end |-> e]}
  BY DEF Limiter!Grant
<1> DEFINE n == [user |-> u, number |-> k, start |-> a, end |-> e]
<1>1. intervals' = intervals \cup {n}
  BY <1>0
<1>2. n.user = u /\ n.start = a /\ n.end = e
  OBVIOUS
<1> HIDE DEF n
<1> QED
  BY <1>1, <1>2

\* The reservations and payloads of before lie as they did.
LEMMA KeptTimeline ==
    ASSUME TimelineInv, downloads' = downloads, intervals' = intervals, timeline' = timeline
    PROVE  TimelineInv'
  BY DEF TimelineInv, Reserved, AheadOf, Apart

\* Reserve appends an interval behind all others.
LEMMA ReserveTimeline ==
    ASSUME Limiter!LimiterAssumption, LimiterTypeOK, TimelineInv,
           NEW s \in Downloads, Limiter!Reserve(s)
    PROVE  TimelineInv'
<1>1. PICK u \in Subscribers, a, e \in Nat :
               /\ a <= e /\ timeline[u] <= a
               /\ timeline' = [timeline EXCEPT ![u] = e]
               /\ Waits(s, u, a, e) \/ Passes(s, u, a, e)
  BY ReserveCases
<1>2. /\ timeline'[u] = e
      /\ \A v \in Subscribers : timeline[v] \in Nat /\ timeline[v] <= timeline'[v]
      /\ \A v \in Subscribers : v # u => timeline'[v] = timeline[v]
  BY SMT, <1>1 DEF LimiterTypeOK
<1>3. ASSUME NEW g, Interval(g), AheadOf(g), NEW h, h.user = u, h.start = a, h.end = e
      PROVE  /\ g.start < g.end => g.end <= timeline'[g.user]
             /\ Apart(h, g) /\ Apart(g, h)
  BY SMT, <1>1, <1>2, <1>3 DEF Interval, AheadOf, Apart
<1>4. CASE Waits(s, u, a, e)
  <2>1. PICK w : /\ w.at = "wait" /\ w.user = u /\ w.start = a /\ w.end = e
                 /\ downloads' = [downloads EXCEPT ![s] = w]
    BY <1>4 DEF Waits
  <2>2. downloads'[s] = w /\ \A t \in Downloads : t # s => downloads'[t] = downloads[t]
    BY <2>1 DEF LimiterTypeOK
  <2>3. intervals' = intervals
    BY <1>4 DEF Waits
  <2>4. ASSUME NEW t \in Downloads, Reserved(t)', t # s
        PROVE  /\ AheadOf(downloads[t])'
               /\ Apart(downloads[t], downloads[s])' /\ Apart(downloads[s], downloads[t])'
    <3>1. /\ Reserved(t) /\ Interval(downloads[t]) /\ AheadOf(downloads[t])
          /\ downloads'[t] = downloads[t]
      BY <2>2, <2>4 DEF Reserved, LimiterTypeOK, DownloadInv, TimelineInv
    <3> QED
      BY <1>3, <2>1, <2>2, <3>1 DEF AheadOf, Apart
  <2>5. ASSUME NEW g \in intervals
        PROVE  AheadOf(g)' /\ Apart(downloads[s], g)'
    BY <1>3, <2>1, <2>2 DEF LimiterTypeOK, TimelineInv, AheadOf, Apart
  <2>6. AheadOf(downloads[s])'
    BY SMT, <1>2, <2>1, <2>2 DEF AheadOf
  <2>7. ASSUME NEW t \in Downloads, NEW v \in Downloads, t # v, Reserved(t)', Reserved(v)'
        PROVE  Apart(downloads[t], downloads[v])'
    BY <2>2, <2>4, <2>7 DEF TimelineInv, Reserved, Apart
  <2>8. ASSUME NEW t \in Downloads, Reserved(t)', NEW g \in intervals
        PROVE  Apart(downloads[t], g)'
    BY <2>2, <2>5, <2>8 DEF TimelineInv, Reserved, Apart
  <2>9. ASSUME NEW g \in intervals, NEW h \in intervals, g # h
        PROVE  Apart(g, h)
    BY <2>9 DEF TimelineInv
  <2> QED
    BY <2>3, <2>4, <2>5, <2>6, <2>7, <2>8, <2>9 DEF TimelineInv, Apart
<1>5. CASE Passes(s, u, a, e)
  <2>1. PICK n : intervals' = intervals \cup {n} /\ n.user = u /\ n.start = a /\ n.end = e
    BY SMT, <1>5, GrantAdds DEF Passes
  <2>2. /\ downloads'[s] = Limiter!Idle
        /\ \A t \in Downloads : t # s => downloads'[t] = downloads[t]
    BY <1>5 DEF Passes, LimiterTypeOK
  <2>3. ASSUME NEW t \in Downloads, Reserved(t)'
        PROVE  /\ t # s /\ Reserved(t) /\ downloads'[t] = downloads[t]
               /\ Interval(downloads[t]) /\ AheadOf(downloads[t])
    BY SMT, <2>2, <2>3 DEF Reserved, LimiterTypeOK, DownloadInv, TimelineInv,
       Limiter!Idle
  <2>4. ASSUME NEW t \in Downloads, Reserved(t)'
        PROVE  AheadOf(downloads[t])' /\ Apart(downloads[t], n)'
    BY <1>3, <2>1, <2>3, <2>4 DEF AheadOf, Apart
  <2>5. ASSUME NEW g \in intervals
        PROVE  AheadOf(g)' /\ Apart(n, g)' /\ Apart(g, n)'
    BY <1>3, <2>1 DEF LimiterTypeOK, TimelineInv, AheadOf, Apart
  <2>6. AheadOf(n)'
    BY SMT, <1>2, <2>1 DEF AheadOf
  <2>7. ASSUME NEW t \in Downloads, NEW v \in Downloads, t # v, Reserved(t)', Reserved(v)'
        PROVE  Apart(downloads[t], downloads[v])'
    BY <2>3, <2>7 DEF TimelineInv, Apart
  <2>8. ASSUME NEW t \in Downloads, Reserved(t)', NEW g \in intervals
        PROVE  Apart(downloads[t], g)'
    BY <2>3, <2>8 DEF TimelineInv, Apart
  <2>9. ASSUME NEW g \in intervals, NEW h \in intervals, g # h
        PROVE  Apart(g, h)'
    BY <2>9 DEF TimelineInv, Apart
  <2> QED
    BY <2>1, <2>4, <2>5, <2>6, <2>7, <2>8, <2>9 DEF TimelineInv
<1> QED
  BY <1>1, <1>4, <1>5

\* A reservation whose time has come becomes a payload let through.
LEMMA TimerTimeline ==
    ASSUME LimiterTypeOK, TimelineInv, NEW s \in Downloads, Limiter!TimerFires(s)
    PROVE  TimelineInv'
<1>1. PICK n : /\ intervals' = intervals \cup {n}
               /\ n.user = downloads[s].user /\ n.start = downloads[s].start
               /\ n.end = downloads[s].end
  BY SMT, GrantAdds DEF Limiter!TimerFires
<1>2. /\ downloads'[s] = Limiter!Idle
      /\ \A t \in Downloads : t # s => downloads'[t] = downloads[t]
      /\ timeline' = timeline
  BY DEF Limiter!TimerFires, LimiterTypeOK
<1>3. Reserved(s)
  BY DEF Limiter!TimerFires, Reserved
<1>4. ASSUME NEW t \in Downloads, Reserved(t)'
      PROVE  t # s /\ Reserved(t) /\ downloads'[t] = downloads[t]
  BY SMT, <1>2, <1>4 DEF Reserved, Limiter!Idle
<1>5. ASSUME NEW t \in Downloads, Reserved(t)'
      PROVE  AheadOf(downloads[t])' /\ Apart(downloads[t], n)'
  BY SMT, <1>1, <1>2, <1>3, <1>4, <1>5 DEF TimelineInv, AheadOf, Apart
<1>6. ASSUME NEW g \in intervals
      PROVE  AheadOf(g)' /\ Apart(n, g)' /\ Apart(g, n)'
  BY <1>1, <1>2, <1>3 DEF TimelineInv, AheadOf, Apart
<1>7. AheadOf(n)'
  BY <1>1, <1>2, <1>3 DEF TimelineInv, AheadOf
<1>8. ASSUME NEW t \in Downloads, NEW v \in Downloads, t # v, Reserved(t)', Reserved(v)'
      PROVE  Apart(downloads[t], downloads[v])'
  BY <1>4, <1>8 DEF TimelineInv, Apart
<1>9. ASSUME NEW t \in Downloads, Reserved(t)', NEW g \in intervals
      PROVE  Apart(downloads[t], g)'
  BY <1>4, <1>9 DEF TimelineInv, Apart
<1>10. ASSUME NEW g \in intervals, NEW h \in intervals, g # h
       PROVE  Apart(g, h)'
  BY <1>10 DEF TimelineInv, Apart
<1> QED
  BY <1>1, <1>5, <1>6, <1>7, <1>8, <1>9, <1>10 DEF TimelineInv

\* A reservation that is given up still holds its interval.
LEMMA GiveUpTimeline ==
    ASSUME LimiterTypeOK, TimelineInv, NEW s \in Downloads, Limiter!GiveUp(s)
    PROVE  TimelineInv'
<1>1. PICK w : /\ w.at = "cancel" /\ w.user = downloads[s].user
               /\ w.start = downloads[s].start /\ w.end = downloads[s].end
               /\ downloads' = [downloads EXCEPT ![s] = w]
  BY DEF Limiter!GiveUp
<1>2. /\ Reserved(s) /\ downloads'[s] = w
      /\ \A t \in Downloads : t # s => downloads'[t] = downloads[t]
      /\ timeline' = timeline /\ intervals' = intervals
  BY <1>1 DEF Limiter!GiveUp, Reserved, LimiterTypeOK
<1>3. ASSUME NEW t \in Downloads, Reserved(t)'
      PROVE  /\ Reserved(t) /\ downloads'[t].user = downloads[t].user
             /\ downloads'[t].start = downloads[t].start
             /\ downloads'[t].end = downloads[t].end
  BY <1>1, <1>2, <1>3 DEF Reserved
<1> QED
  BY SMTT(30), <1>2, <1>3 DEF TimelineInv, AheadOf, Apart

\* The timeline goes back to the start of the reservation only if it is the last:
\* all others end where it starts, or earlier.
LEMMA CancelTimeline ==
    ASSUME LimiterTypeOK, TimelineInv, NEW s \in Downloads, Limiter!CancelReservation(s)
    PROVE  TimelineInv'
<1> DEFINE u == downloads[s].user
           a == downloads[s].start
           e == downloads[s].end
<1>1. Reserved(s) /\ u \in Subscribers /\ a \in Nat /\ e \in Nat /\ a <= e
  BY DEF Limiter!CancelReservation, Reserved, LimiterTypeOK, DownloadInv,
     Interval
<1>2. /\ \A v \in Subscribers : timeline[v] \in Nat /\ (v # u => timeline'[v] = timeline[v])
      /\ timeline'[u] = IF timeline[u] = e THEN a ELSE timeline[u]
  BY <1>1 DEF Limiter!CancelReservation, Limiter!NextAfterCancel, LimiterTypeOK
<1>3. /\ ~Reserved(s)' /\ intervals' = intervals
      /\ \A t \in Downloads : t # s => downloads'[t] = downloads[t]
  BY DEF Limiter!CancelReservation, Reserved, LimiterTypeOK, Limiter!Idle
<1>4. ASSUME NEW g, Interval(g), AheadOf(g), Apart(downloads[s], g)
      PROVE  g.start < g.end => g.end <= timeline'[g.user]
  BY SMTT(30), <1>1, <1>2, <1>4 DEF Interval, AheadOf, Apart
<1>5. ASSUME NEW t \in Downloads, Reserved(t)'
      PROVE  t # s /\ Reserved(t) /\ downloads'[t] = downloads[t]
  BY <1>3, <1>5 DEF Reserved
<1>6. ASSUME NEW t \in Downloads, Reserved(t)' PROVE AheadOf(downloads[t])'
  BY <1>1, <1>4, <1>5, <1>6 DEF LimiterTypeOK, DownloadInv, TimelineInv, AheadOf
<1>7. ASSUME NEW g \in intervals PROVE AheadOf(g)'
  BY <1>1, <1>4 DEF LimiterTypeOK, TimelineInv, AheadOf
<1> QED
  BY <1>3, <1>5, <1>6, <1>7 DEF TimelineInv, Apart

\* Timelines are reset only after a rate has changed.
LEMMA TimelineStep ==
    ASSUME Limiter!LimiterAssumption, LimiterInv, [Limiter!Next]_(Limiter!vars),
           republished' = {}
    PROVE  TimelineInv'
<1>1. republished = {} /\ LimiterTypeOK /\ TimelineInv
  <2>1. republished \subseteq republished'
    BY DEF Limiter!Next, Limiter!ReadPolicy, Limiter!Reserve,
       Limiter!TimerFires, Limiter!GiveUp, Limiter!CancelReservation,
       Limiter!PublishUsers, Limiter!WakeLimiters, Limiter!Tick, Limiter!vars
  <2> QED
    BY <2>1 DEF LimiterInv
<1>2. ASSUME NEW s \in Downloads, NEW u \in Subscribers, NEW bytes \in Sizes,
             Limiter!ReadPolicy(s, u, bytes)
      PROVE  TimelineInv'
  <2>1. /\ ~Reserved(s)' /\ intervals' = intervals /\ timeline' = timeline
        /\ \A t \in Downloads : t # s => downloads'[t] = downloads[t]
    BY <1>1, <1>2 DEF Limiter!ReadPolicy, Reserved, LimiterTypeOK, Limiter!Idle
  <2>2. ASSUME NEW t \in Downloads, Reserved(t)'
        PROVE  Reserved(t) /\ downloads'[t] = downloads[t]
    BY <2>1, <2>2 DEF Reserved
  <2> QED
    BY SMT, <1>1, <2>1, <2>2 DEF TimelineInv, AheadOf, Apart
<1>3. Limiter!Tick \/ UNCHANGED Limiter!vars =>
        downloads' = downloads /\ intervals' = intervals /\ timeline' = timeline
  BY DEF Limiter!Tick, Limiter!vars
<1>4. ~Limiter!WakeLimiters
  BY <1>1 DEF Limiter!WakeLimiters, LimiterTypeOK
<1>5. ASSUME NEW u \in Subscribers, NEW r \in Rates PROVE ~Limiter!PublishUsers(u, r)
  BY DEF Limiter!PublishUsers
<1> QED
  BY <1>1, <1>2, <1>3, <1>4, <1>5, KeptTimeline, ReserveTimeline, TimerTimeline,
     GiveUpTimeline, CancelTimeline DEF Limiter!Next

\* The inductive invariant of the limiter.
THEOREM LimiterInvariance == Limiter!Spec => []LimiterInv
<1>1. Limiter!Init => LimiterInv
  BY SMT DEF Limiter!Init, LimiterInv, LimiterTypeOK, DownloadInv, TimelineInv,
     Reserved, Limiter!Idle
<1>2. LimiterInv /\ [Limiter!Next]_(Limiter!vars) => LimiterInv'
  BY RatesAssumption, LimiterTypeStep, TimelineStep DEF LimiterInv
<1> QED
  BY <1>1, <1>2, PTL DEF Limiter!Spec

\* All streams of a user share one rate until a rate changes, however reservations
\* are made and given up.
THEOREM RateTheorem == Limiter!Spec => []RateShared
<1>1. LimiterInv => RateShared
  <2> SUFFICES ASSUME LimiterInv, republished = {},
                      NEW g \in intervals, NEW h \in intervals,
                      Limiter!Overlap(g, h), g # h
               PROVE  FALSE
    BY DEF RateShared, Limiter!RateShared
  <2>1. Interval(g) /\ Interval(h) /\ Apart(g, h)
    BY DEF LimiterInv, LimiterTypeOK, TimelineInv
  <2>2. PICK t \in Limiter!Ticks(g) : t \in Limiter!Ticks(h)
    BY DEF Limiter!Overlap
  <2> QED
    BY SMT, <2>1, <2>2 DEF Limiter!Overlap, Interval, Apart, Limiter!Ticks
<1> QED
  BY <1>1, LimiterInvariance, PTL
=============================================================================
