--------------------------- MODULE SessionRegistry ---------------------------
(***************************************************************************)
(* What an inbound promises the policy kernel, and through it the panel:   *)
(* a session is connected before its first request and counted online at   *)
(* most once, its requests are started and stopped while it is connected,  *)
(* and it is disconnected last, with no request left.                      *)
(***************************************************************************)
EXTENDS Functions

CONSTANTS Sessions, Requests

VARIABLES
    table,   \* the requests of every connected session
    online   \* the sessions that are counted online

registry == <<table, online>>

Init == table = [s \in {} |-> {}] /\ online = {}

Connected(s) ==
    /\ s \notin DOMAIN table
    /\ table' = [t \in DOMAIN table \cup {s} |-> IF t = s THEN {} ELSE table[t]]
    /\ UNCHANGED online

Disconnected(s) ==
    /\ s \in DOMAIN table /\ table[s] = {} /\ s \notin online
    /\ table' = Restrict(table, DOMAIN table \ {s})
    /\ UNCHANGED online

Online(s) == s \notin online /\ online' = online \cup {s} /\ UNCHANGED table

Offline(s) ==
    /\ s \in online /\ s \in DOMAIN table /\ table[s] = {}
    /\ online' = online \ {s}
    /\ UNCHANGED table

Start(s, r) ==
    /\ s \in DOMAIN table /\ s \in online /\ r \notin table[s]
    /\ table' = [table EXCEPT ![s] = @ \cup {r}]
    /\ UNCHANGED online

Stop(s, r) ==
    /\ s \in DOMAIN table /\ r \in table[s]
    /\ table' = [table EXCEPT ![s] = @ \ {r}]
    /\ UNCHANGED online

Next ==
    \E s \in Sessions :
        \/ Connected(s) \/ Disconnected(s) \/ Online(s) \/ Offline(s)
        \/ \E r \in Requests : Start(s, r) \/ Stop(s, r)

Spec == Init /\ [][Next]_registry
=============================================================================
