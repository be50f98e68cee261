----------------------------- MODULE Fragments -----------------------------
(***************************************************************************)
(* UDP messages of one association over QUIC datagrams: the sender of      *)
(* server/udp.go, which tries a message whole and then in fragments, and   *)
(* the Defragger of internal/frag at the other end.                        *)
(*                                                                         *)
(* A datagram may be lost or overtaken, not duplicated (QUIC drops a       *)
(* repeated packet).  The byte i of message m is <<m, i>>.                 *)
(***************************************************************************)
EXTENDS Integers, Sequences, Functions

CONSTANTS
    Messages,   \* 1..n, sent in this order
    Length,     \* bytes of each message
    HeaderSize, \* of a message, without its data
    BufferSize, \* of the buffer a message is serialized into, 4096
    Limits,     \* datagram sizes the path may allow
    PacketIDs   \* what the random packet id is drawn from

\* A message that fits the buffer has at most 255 fragments: a QUIC path carries
\* at least 1200 bytes.
FragmentsAssumption ==
    /\ Length \in [Messages -> Nat \ {0}]
    /\ HeaderSize \in Nat /\ BufferSize \in Nat /\ Limits \subseteq Nat
    /\ \A max \in Limits :
        max > HeaderSize /\ BufferSize - HeaderSize <= 255 * (max - HeaderSize)

VARIABLES
    next,       \* the message to send next
    queue,      \* fragments of the current message that are not sent yet
    closed,     \* the sender gave up: a refused or failing send ends the session
    charged,    \* per message, bytes admitted
    net,        \* datagrams on their way
    pktID, frags,   \* the Defragger; a slot is a set of at most one fragment's data
    delivered,  \* data of the messages Feed returned, in order
    label,      \* history: packet id and fragment count of each fragmented message
    run         \* history: the fragments of one message fed last, without another's between

sender == <<next, queue, closed, charged, label>>
receiver == <<pktID, frags, delivered, run>>
vars == <<sender, net, receiver>>

Data(m) == [i \in 1..Length[m] |-> <<m, i>>]
Whole(m) == [msg |-> m, pktID |-> 0, fragID |-> 0, count |-> 1, data |-> Data(m)]
----------------------------------------------------------------------------
\* The sender.

\* A byte.
FragCount(m, max) == ((Length[m] + max - 1) \div max) % 256

FragUDPMessage(m, id, maxSize) ==
    LET max == maxSize - HeaderSize
        end(k) == IF k * max < Length[m] THEN k * max ELSE Length[m]
    IN  [k \in 1..FragCount(m, max) |->
            [msg |-> m, pktID |-> id, fragID |-> k - 1, count |-> FragCount(m, max),
             data |-> SubSeq(Data(m), (k - 1) * max + 1, end(k))]]

Fits(m, maxSize) == HeaderSize + Length[m] <= maxSize

\* Mutant: only the whole attempt is admitted.
AdmitWhole(f) == IF f.count = 1 THEN Len(f.data) ELSE 0

\* What Admit charges for an attempt to send.
Charge(f) == Len(f.data)

Admitted(f) == charged' = [charged EXCEPT ![f.msg] = @ + Charge(f)]

\* Admit refuses, or the datagram is too large for a path that has changed.
GiveUp ==
    /\ ~closed /\ (queue # <<>> \/ next \in Messages)
    /\ closed' = TRUE
    /\ \/ Admitted(IF queue # <<>> THEN Head(queue) ELSE Whole(next))
       \/ UNCHANGED charged
    /\ UNCHANGED <<next, queue, label, net, receiver>>

\* A message that Serialize finds too long for the buffer is admitted and dropped.
SendWhole(maxSize) ==
    /\ ~closed /\ queue = <<>> /\ next \in Messages
    /\ Fits(next, maxSize) \/ ~Fits(next, BufferSize)
    /\ Admitted(Whole(next))
    /\ net' = IF Fits(next, BufferSize) THEN net \cup {Whole(next)} ELSE net
    /\ next' = next + 1
    /\ UNCHANGED <<queue, closed, label, receiver>>

\* The whole message was admitted and then found too large.
Fragment(maxSize, id) ==
    /\ ~closed /\ queue = <<>> /\ next \in Messages
    /\ ~Fits(next, maxSize) /\ Fits(next, BufferSize)
    /\ Admitted(Whole(next))
    /\ queue' = FragUDPMessage(next, id, maxSize)
    /\ label' = [label EXCEPT ![next] = <<id, FragCount(next, maxSize - HeaderSize)>>]
    /\ next' = next + 1
    /\ UNCHANGED <<closed, net, receiver>>

SendFragment ==
    /\ ~closed /\ queue # <<>>
    /\ Admitted(Head(queue))
    /\ net' = net \cup {Head(queue)}
    /\ queue' = Tail(queue)
    /\ UNCHANGED <<next, closed, label, receiver>>

Lose(f) ==
    /\ f \in net
    /\ net' = net \ {f}
    /\ UNCHANGED <<sender, receiver>>
----------------------------------------------------------------------------
\* The Defragger.

NewMessage(f) == f.pktID # pktID \/ f.count # Len(frags)

\* Mutant: the state is cleared, the fragment that caused it is not kept.
ClearedOnly(f) == [i \in 1..f.count |-> {}]

Cleared(f) == [i \in 1..f.count |-> IF i = f.fragID + 1 THEN {f.data} ELSE {}]

Missing(f) == frags[f.fragID + 1] = {}

Kept(f) == [frags EXCEPT ![f.fragID + 1] = {f.data}]
Full(parts) == \A i \in DOMAIN parts : parts[i] # {}

\* The parts in the order of their ids.
Assembled(parts) ==
    LET part(i) == CHOOSE d \in parts[i] : TRUE
        upTo[i \in 0..Len(parts)] == IF i = 0 THEN <<>> ELSE upTo[i - 1] \o part(i)
    IN  upTo[Len(parts)]

Feed(f) ==
    IF f.count <= 1 THEN delivered' = Append(delivered, f.data) /\ UNCHANGED <<pktID, frags>>
    ELSE IF f.fragID >= f.count THEN UNCHANGED <<pktID, frags, delivered>>
    ELSE IF NewMessage(f)
         THEN pktID' = f.pktID /\ frags' = Cleared(f) /\ UNCHANGED delivered
    ELSE IF Missing(f)
         THEN /\ frags' = Kept(f) /\ UNCHANGED pktID
              /\ delivered' = IF Full(Kept(f)) THEN Append(delivered, Assembled(Kept(f)))
                                               ELSE delivered
    ELSE UNCHANGED <<pktID, frags, delivered>>

Receive(f) ==
    /\ f \in net
    /\ net' = net \ {f}
    /\ Feed(f)
    /\ run' = IF f.count = 1 THEN run
              ELSE IF run.msg = f.msg THEN [run EXCEPT !.ids = @ \cup {f.fragID}]
              ELSE [msg |-> f.msg, ids |-> {f.fragID}]
    /\ UNCHANGED sender
----------------------------------------------------------------------------
Init ==
    /\ next = 1 /\ queue = <<>> /\ closed = FALSE /\ net = {}
    /\ charged = [m \in Messages |-> 0] /\ label = [m \in Messages |-> <<0, 1>>]
    /\ pktID = 0 /\ frags = <<>> /\ delivered = <<>>
    /\ run = [msg |-> 0, ids |-> {}]

Next ==
    \/ GiveUp \/ SendFragment
    \/ \E maxSize \in Limits :
        SendWhole(maxSize) \/ \E id \in PacketIDs : Fragment(maxSize, id)
    \/ \E f \in net : Lose(f) \/ Receive(f)

Spec == Init /\ [][Next]_vars
----------------------------------------------------------------------------
Collide(m, n) == m # n /\ label[m] = label[n] /\ label[m][2] > 1

\* What the other end gets is a message that was sent, whole, whatever was lost or
\* overtaken on the way.  Only two messages that drew the same random packet id and
\* have as many fragments can be mixed.
DeliveredIntact ==
    \A i \in DOMAIN delivered :
        \/ \E m \in Messages : delivered[i] = Data(m)
        \/ LET from == {byte[1] : byte \in Range(delivered[i])}
           IN  /\ \E m, n \in from : m # n
               /\ \A m, n \in from : m = n \/ Collide(m, n)

\* No byte is delivered twice, also not when packet ids collide: a message that was
\* assembled stays in the Defragger, and nothing completes it again.
DeliveredOnce ==
    \A i, j \in DOMAIN delivered :
        i # j => Range(delivered[i]) \cap Range(delivered[j]) = {}

\* The Defragger keeps one packet only; a message whose fragments all arrive, in
\* any order and with none of another fragmented message between them, is delivered.
UndisturbedDelivered ==
    \A m \in Messages :
        run = [msg |-> m, ids |-> 0..label[m][2] - 1] /\ (\A n \in Messages : ~Collide(m, n)) =>
            Data(m) \in Range(delivered)

\* A message that did not fit is charged twice, for the whole attempt and for its
\* fragments, any other once: the fragments cover the message exactly.
AttemptsCharged ==
    ~closed /\ queue = <<>> =>
        \A m \in 1..next - 1 :
            charged[m] = (IF label[m][2] > 1 THEN 2 ELSE 1) * Length[m]
=============================================================================
