----------------------------- MODULE MCHysteria -----------------------------
(***************************************************************************)
(* The two layers of the Hysteria2 inbound for TLC: HysteriaServer with    *)
(* two connections, and UDPSessions for the UDP manager of one of them.    *)
(* HysteriaServer relies on the manager only through SessionsExact and     *)
(* RunTerminates, so a behaviour is one of either layer, while the other   *)
(* stays in its initial state.                                             *)
(***************************************************************************)
EXTENDS HysteriaServer

CONSTANTS c1, c2, Ids, MaxEntries

VARIABLES layer, run, current, stop, m, id, state, conn, closers, todo, loop, requests

udpVars == <<run, current, stop, m, id, state, conn, closers, todo, loop, requests>>

UDP == INSTANCE UDPSessions WITH closer <- closers

ASSUME EntriesAssumption == UDP!UDPAssumption

\* One connection with two requests and one with a single one.
MCMaxRequests == [c \in Conns |-> IF c = c1 THEN 2 ELSE 1]

MCInit == Init /\ UDP!Init /\ layer \in {"server", "udp"}

MCNext ==
    /\ \/ layer = "server" /\ Next /\ UNCHANGED udpVars
       \/ layer = "udp" /\ UDP!Next /\ UNCHANGED vars
    /\ UNCHANGED layer

\* In its initial state a layer has no step that is due.
MCSpec == MCInit /\ [][MCNext]_<<vars, udpVars, layer>> /\ Fairness /\ UDP!Fairness
----------------------------------------------------------------------------
\* A session stays in the map until its own exit function has run, which removes
\* no later session of the same id; once closed it has no connection and shows no
\* request; and when Run has returned, nothing of any session is left.
SessionsExact == UDP!MappedUntilGone /\ UDP!ClosedIsFinal /\ UDP!ReturnsClean

\* After the connection has ended or a datagram was refused, Run returns.
RunTerminates == UDP!RunTerminates
=============================================================================
