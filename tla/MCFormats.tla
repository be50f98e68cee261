------------------------------ MODULE MCFormats ------------------------------
(***************************************************************************)
(* What happens to one payload, for TLC: the two wire formats and the rate *)
(* of its user.  They share no state, so a behaviour is one of them, while *)
(* the others stay in their initial states.                                *)
(*                                                                         *)
(* Clients for TrojanProtocol: requests of every shape, each complete, cut *)
(* at every byte, or with one byte changed; streams of packets; an HTTP    *)
(* request and a client that sends nothing.                                *)
(*                                                                         *)
(* Messages for Fragments: three of one to three fragments, with two       *)
(* packet ids, so that ids may collide and every fragment may be lost or   *)
(* overtaken by any other; a fourth is too long for the sender's buffer.   *)
(*                                                                         *)
(* Streams for DownloadLimiter: two of one user, whose rate changes once.  *)
(***************************************************************************)
EXTENDS TrojanProtocol, MCFragments, MCDownloadLimiter

Credential == <<97, 48>>
MCGranted == {Credential}
Unknown == <<98, 48>>
Letter == 120

Request(credential, command, atyp, host, port) ==
    [credential |-> credential, command |-> command, atyp |-> atyp, host |-> host, port |-> port]

Hosts == {<<addressIPv4, <<0>>>>, <<addressIPv6, <<0, 1>>>>,
          <<addressDomain, <<Letter>>>>, <<addressDomain, <<Letter, Letter, Letter>>>>,
          <<addressDomain, <<Letter, 58>>>>}

Requests ==
    {Request(c, command, h[1], h[2], port) :
        c \in {Credential, Unknown}, command \in {commandConnect, commandUDPAssociate},
        h \in Hosts, port \in {0, 443}}

Content == <<1, 3>>

Datagrams ==
    {[atyp |-> h[1], host |-> h[2], port |-> port, payload |-> payload] :
        h \in Hosts, port \in {0, 53}, payload \in {<<>>, <<1, 3>>}}

Encodable(p) == AppendPacket(p, p.payload) # {}
Readable(p) == Encodable(p) /\ (p.atyp = addressDomain => validDomain(p.host))
Wire(p) == IF Encodable(p) THEN CHOOSE b \in AppendPacket(p, p.payload) : TRUE ELSE <<>>

Client(requests, packets, bytes) == [request |-> requests, packets |-> packets, bytes |-> bytes]

Connects == {r \in Requests : r.command = commandConnect}
Associates == Requests \ Connects

Complete == {Client({r}, <<>>, Header(r) \o Content) : r \in Connects}

Changed(bytes, i, byte) == [bytes EXCEPT ![i] = byte]

Cut == UNION {{Client({r}, <<>>, SubSeq(Header(r), 1, n)) : n \in 0..Len(Header(r)) - 1} :
                r \in Requests}
Garbled == UNION {{Client({}, <<>>, Changed(Header(r) \o Content, i, 2)) :
                    i \in 1..credentialLength + 4 \cup {Len(Header(r)) - 1, Len(Header(r))}} :
                      r \in Connects}
Http == {Client({}, <<>>, <<71, 69, 84, 32, 47, 13, 10, 13, 10, 71, 69, 84, 32, 47, 13, 10>>)}

Association == Request(Credential, commandUDPAssociate, addressIPv4, <<0>>, 0)

\* Two packets, the second one possibly unreadable or cut.
Framed ==
    {Client({Association}, IF Readable(q) THEN <<p, q>> ELSE <<p>>,
            Header(Association) \o Wire(p) \o Wire(q)) :
        p \in {d \in Datagrams : Readable(d)}, q \in Datagrams}
Broken ==
    UNION {{Client({Association}, <<p>>,
                   Header(Association) \o Wire(p) \o SubSeq(Wire(q), 1, n)) :
              n \in 0..Len(Wire(q)) - 1} :
                 p, q \in {d \in Datagrams : Readable(d) /\ d.payload # <<>>}}

MCClients == Complete \cup Cut \cup Garbled \cup Http \cup Framed \cup Broken
             \cup {Client({r}, <<>>, Header(r)) : r \in Associates}
----------------------------------------------------------------------------
VARIABLE part

MCMessages == 1..4
MCLength == [m \in MCMessages |-> m + 2]

MCInit ==
    /\ Init /\ Frag!Init /\ Limiter!Init
    /\ part \in {"trojan", "fragments", "rate"}
    /\ part # "trojan" => sent \in Http /\ ~fallback
    /\ part # "rate" => rates = [u \in Subscribers |-> 1]

MCNext ==
    /\ \/ part = "trojan" /\ Next /\ UNCHANGED <<fragVars, limiterVars>>
       \/ part = "fragments" /\ Frag!Next /\ UNCHANGED <<vars, limiterVars>>
       \/ part = "rate" /\ Limiter!Next /\ UNCHANGED <<vars, fragVars>>
    /\ UNCHANGED part

\* In its initial state the limiter has no step that is due.
MCSpec == MCInit /\ [][MCNext]_<<vars, fragVars, limiterVars, part>> /\ Limiter!Fairness
=============================================================================
