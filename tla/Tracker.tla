------------------------------- MODULE Tracker -------------------------------
(***************************************************************************)
(* The operations of internal/connection on the table of sessions: a       *)
(* function from the sessions it knows to their requests.  Each is one     *)
(* critical section.  A request of an unknown session is ignored.  The     *)
(* online count of a route is kept as the set of sessions it counts.       *)
(***************************************************************************)
EXTENDS Functions

NoSessions == [s \in {} |-> {}]

ConnectSession(table, s) ==
    [t \in DOMAIN table \cup {s} |-> IF t = s THEN {} ELSE table[t]]

DisconnectSession(table, s) == Restrict(table, DOMAIN table \ {s})

StartRequest(table, s, r) ==
    IF s \in DOMAIN table THEN [table EXCEPT ![s] = @ \cup {r}] ELSE table

StopRequest(table, s, r) ==
    IF s \in DOMAIN table THEN [table EXCEPT ![s] = @ \ {r}] ELSE table

LogOnlineState(counted, s, on) == IF on THEN counted \cup {s} ELSE counted \ {s}
=============================================================================
