--------------------------- MODULE MCControlPlane ---------------------------
(***************************************************************************)
(* Finite instances of ControlPlane for TLC.                               *)
(***************************************************************************)
EXTENDS ControlPlane

CONSTANTS u1, u2, n1, a1, a2

\* Bound: a failed statement, or the end of a user's term, takes the place of
\* a request or of the import.
FailsOrExpires == requests' + imports' + errors' + now' <= MaxRequests + MaxImports
=============================================================================
