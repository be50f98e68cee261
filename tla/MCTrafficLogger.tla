-------------------------- MODULE MCTrafficLogger --------------------------
(***************************************************************************)
(* Finite instances of TrafficLogger for TLC.                              *)
(***************************************************************************)
EXTENDS TrafficLogger, TLC

CONSTANTS s1, s2, n1

StreamSymmetry == Permutations(Streams)

\* A user who is unlimited or rate limited, with a quota smaller than the
\* payloads of the run.
QuotaPolicies ==
    {[active |-> TRUE, rate |-> 0, maxBytes |-> 2],
     [active |-> TRUE, rate |-> 1, maxBytes |-> 1]}

\* Policies change, or months, processes and nodes do.
PolicyOrMonth ==
    \/ updates' = 0 /\ \A u \in Users : policy'[u].rate = 0
    \/ now' = 1 /\ restarts' = 0 /\ \A s \in Streams : call'[s] = NoCall \/ call'[s].id[2] = n1

\* A user who is rate limited or disabled, without a quota.
LimitedOrDisabled ==
    {[active |-> TRUE, rate |-> 1, maxBytes |-> 0],
     [active |-> FALSE, rate |-> 0, maxBytes |-> 0]}
=============================================================================
