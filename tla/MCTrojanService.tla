-------------------------- MODULE MCTrojanService --------------------------
(***************************************************************************)
(* Finite instances of TrojanService for TLC.                              *)
(***************************************************************************)
EXTENDS TrojanService

CONSTANTS c1, c2

\* Two connections whose payloads are used up, or one that carries some.
MCInit == InitAfter({}, MaxChunks) \/ InitAfter({c2}, 0)

MCFairSpec == MCInit /\ [][Next]_vars /\ Fairness
=============================================================================
