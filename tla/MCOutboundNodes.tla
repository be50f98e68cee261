-------------------------- MODULE MCOutboundNodes --------------------------
(***************************************************************************)
(* Finite instances of OutboundNodes for TLC.                              *)
(***************************************************************************)
EXTENDS OutboundNodes, TLC

CONSTANTS n1, n2, r1, r2

\* Two requests share one node while the other node cannot be dialled any
\* more, or the bound on dials leaves both nodes the last of them.  The nodes
\* meet only at the dial semaphore, so the two halves are explored apart.
MCInit ==
    \E used \in {[n \in Nodes |-> IF n = n2 THEN MaxDials ELSE 0],
                 [n \in Nodes |-> MaxDials - 1]} :
        InitAfter(used)

MCFairSpec == MCInit /\ [][Next]_vars /\ Fairness
=============================================================================
