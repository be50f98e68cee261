----------------------------- MODULE MCFragments -----------------------------
(***************************************************************************)
(* Fragments beside other modules: some of its variables have names of     *)
(* their own here.  MCFormats gives the constants their values.            *)
(***************************************************************************)
EXTENDS Naturals

CONSTANTS Messages, Length, HeaderSize, BufferSize, Limits, PacketIDs

VARIABLES next, queue, closed, charged, net, pktID, frags, assembled, label, streak

fragVars == <<next, queue, closed, charged, net, pktID, frags, assembled, label, streak>>

Frag == INSTANCE Fragments WITH delivered <- assembled, run <- streak

ASSUME MessagesAssumption == Frag!FragmentsAssumption
----------------------------------------------------------------------------
\* The Defragger delivers what was sent, whole but for the collision of random
\* packet ids, no byte twice, and every message whose fragments arrive undisturbed.
Reassembled == Frag!DeliveredIntact /\ Frag!DeliveredOnce /\ Frag!UndisturbedDelivered

\* A message that did not fit is charged twice, any other once.
AttemptsCharged == Frag!AttemptsCharged
=============================================================================
