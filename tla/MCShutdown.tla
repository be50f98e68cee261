----------------------------- MODULE MCShutdown -----------------------------
(***************************************************************************)
(* Finite instances of Shutdown for TLC: a Trojan inbound before a         *)
(* Hysteria2 inbound, two ticks for the workers and two more in all.       *)
(***************************************************************************)
EXTENDS Shutdown

TwoInbounds == <<"trojan", "hysteria2">>
=============================================================================
