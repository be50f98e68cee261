--------------------------- MODULE TrafficLedger ---------------------------
(***************************************************************************)
(* What the traffic component promises, without caches, mutexes or         *)
(* batches: a book of charged bytes.  Bytes are charged to cells, move to  *)
(* the persistent book in portions, and are lost only when the process     *)
(* goes down with bytes it has not persisted.  A book that was closed (a   *)
(* clean stop) holds everything, and stays as it is until it is reopened.  *)
(***************************************************************************)
EXTENDS Integers

CONSTANTS Cells, Payloads

VARIABLES
    charged,        \* bytes ever charged
    persisted,      \* bytes in the persistent book
    lost,           \* bytes that went down with a process
    closed          \* the process was stopped cleanly

lvars == <<charged, persisted, lost, closed>>

Open(c) == charged[c] - lost[c]     \* what may still become persistent

Init ==
    /\ charged = [c \in Cells |-> 0]
    /\ persisted = [c \in Cells |-> 0]
    /\ lost = [c \in Cells |-> 0]
    /\ closed = FALSE

Charge(c, bytes) ==
    /\ ~closed
    /\ charged' = [charged EXCEPT ![c] = @ + bytes]
    /\ UNCHANGED <<persisted, lost, closed>>

\* Some of what is open becomes persistent; the last portion may close.
Persist ==
    /\ ~closed
    /\ persisted' = [c \in Cells |-> persisted'[c]]
    /\ \A c \in Cells : persisted[c] <= persisted'[c] /\ persisted'[c] <= Open(c)
    /\ \/ closed' = FALSE
       \/ closed' = TRUE /\ \A c \in Cells : persisted'[c] = Open(c)
    /\ UNCHANGED <<charged, lost>>

\* The process goes down with whatever is open, and comes back.
Reopen ==
    /\ lost' = [c \in Cells |-> charged[c] - persisted[c]]
    /\ closed' = FALSE
    /\ UNCHANGED <<charged, persisted>>

Next ==
    \/ \E c \in Cells, bytes \in Payloads : Charge(c, bytes)
    \/ Persist
    \/ Reopen

Spec == Init /\ [][Next]_lvars
=============================================================================
