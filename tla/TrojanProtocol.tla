--------------------------- MODULE TrojanProtocol ---------------------------
(***************************************************************************)
(* What a Trojan handler makes of the bytes of one client: the parsers of  *)
(* internal/inbound/trojan/protocol.go and the choice of handle between    *)
(* proxy, website and close.                                               *)
(*                                                                         *)
(* Bytes are their values.  The header is read byte by byte, because the   *)
(* client may stop, or the deadline pass, inside any field; the website    *)
(* must then still get every byte that was consumed.  The lengths of the   *)
(* fields are constants, so that instances can be small.                   *)
(***************************************************************************)
EXTENDS Integers, Sequences

CONSTANTS
    credentialLength, IPv4len, IPv6len, \* 56, 4 and 16
    MaxDomain,          \* what the length byte of a domain can say, 255
    MaxUDPPayloadSize,  \* 65535
    Granted,            \* credentials AuthenticateTrojan accepts
    Clients             \* what a client sends: [request, packets, bytes]

ASSUME ProtocolAssumption ==
    /\ {credentialLength, IPv4len, IPv6len, MaxDomain, MaxUDPPayloadSize} \subseteq Nat \ {0}
    /\ IPv4len <= MaxDomain /\ IPv6len <= MaxDomain

commandConnect == 1
commandUDPAssociate == 3
addressIPv4 == 1
addressDomain == 3
addressIPv6 == 4
CRLF == <<13, 10>>

VARIABLES
    sent,       \* the client's bytes and what they stand for
    fallback,   \* whether a website is configured
    consumed,   \* bytes of the stream that were read
    prefix,     \* the buffer of the TeeReader
    field, buf, \* the field io.ReadFull is filling, and its bytes so far
    got,        \* the fields read
    late,       \* the deadline passed while the header was read
    place,      \* "header", "replay", "copy", "packets", "ended", "closed"
    out,        \* bytes written to the website or the target
    delivered   \* datagrams written to the association

reading == <<prefix, field, buf, got, late>>
vars == <<sent, fallback, consumed, reading, place, out, delivered>>

stream == sent.bytes
Rest == SubSeq(stream, consumed + 1, Len(stream))
----------------------------------------------------------------------------
\* Helpers of protocol.go.

validCredential(bytes) == \A i \in DOMAIN bytes : bytes[i] \in 48..57 \cup 97..102

\* Control characters, space, DEL and  : [ ] / \ ? # @ %
Forbidden == 0..32 \cup {127, 58, 91, 93, 47, 92, 63, 35, 64, 37}
validDomain(host) == host # <<>> /\ \A i \in DOMAIN host : host[i] \notin Forbidden

Byte == 0..255
Port == {n \in Nat : n < 65536}
Uint16(bytes) == 256 * bytes[1] + bytes[2]
PutUint16(n) == <<n \div 256, n % 256>>

maxInitialHeaderSize == credentialLength + 2 + 1 + 1 + 1 + MaxDomain + 2 + 2

AddressLength(atyp) == IF atyp = addressIPv4 THEN IPv4len ELSE IPv6len
----------------------------------------------------------------------------
\* The initial header.

Size == CASE field = "credential" -> credentialLength + 2
          [] field = "command" -> 2
          [] field = "length" -> 1
          [] field = "host" -> got.length
          [] field = "suffix" -> 4

InHeader == place = "header" /\ field \notin {"done", "bad"}

\* Without a website the credential decides before the request is read.
ReadCredential(bytes) ==
    LET credential == SubSeq(bytes, 1, credentialLength)
        valid == SubSeq(bytes, credentialLength + 1, credentialLength + 2) = CRLF
                    /\ validCredential(credential)
    IN  /\ got' = [got EXCEPT !.credential = credential]
        /\ field' = IF valid /\ (fallback \/ credential \in Granted) THEN "command" ELSE "bad"

ReadCommand(bytes) ==
    /\ got' = [got EXCEPT !.command = bytes[1], !.atyp = bytes[2],
                          !.length = AddressLength(bytes[2])]
    /\ field' = IF bytes[1] \notin {commandConnect, commandUDPAssociate} THEN "bad"
                ELSE CASE bytes[2] = addressDomain -> "length"
                       [] bytes[2] \in {addressIPv4, addressIPv6} -> "host"
                       [] OTHER -> "bad"

ReadLength(bytes) ==
    /\ got' = [got EXCEPT !.length = bytes[1]]
    /\ field' = IF bytes[1] = 0 THEN "bad" ELSE "host"

ReadHost(bytes) == got' = [got EXCEPT !.host = bytes] /\ field' = "suffix"

ReadSuffix(bytes) ==
    /\ got' = [got EXCEPT !.port = Uint16(bytes)]
    /\ field' = IF SubSeq(bytes, 3, 4) = CRLF THEN "done" ELSE "bad"

FieldRead(bytes) ==
    \/ field = "credential" /\ ReadCredential(bytes)
    \/ field = "command" /\ ReadCommand(bytes)
    \/ field = "length" /\ ReadLength(bytes)
    \/ field = "host" /\ ReadHost(bytes)
    \/ field = "suffix" /\ ReadSuffix(bytes)

\* Mutant: the reader keeps a field only when it is complete.
TeeWhole(byte, bytes) == IF Len(bytes) = Size THEN prefix \o bytes ELSE prefix

Tee(byte, bytes) == Append(prefix, byte)

\* io.ReadFull through the TeeReader and the LimitReader.
Read ==
    /\ InHeader /\ consumed < Len(stream)
    /\ fallback => consumed < maxInitialHeaderSize
    /\ LET byte == stream[consumed + 1]
           bytes == Append(buf, byte)
       IN  /\ prefix' = IF fallback THEN Tee(byte, bytes) ELSE prefix
           /\ IF Len(bytes) < Size
              THEN buf' = bytes /\ UNCHANGED <<field, got>>
              ELSE buf' = <<>> /\ FieldRead(bytes)
    /\ consumed' = consumed + 1
    /\ UNCHANGED <<sent, fallback, late, place, out, delivered>>

\* The client closes its side, or the limit is reached, inside a field.
Truncated ==
    /\ InHeader
    /\ consumed = Len(stream) \/ (fallback /\ consumed = maxInitialHeaderSize)
    /\ field' = "bad"
    /\ UNCHANGED <<sent, fallback, consumed, prefix, buf, got, late, place, out, delivered>>

\* The deadline of the handshake or of the probe.
DeadlinePasses ==
    /\ InHeader
    /\ field' = "bad" /\ late' = TRUE
    /\ UNCHANGED <<sent, fallback, consumed, prefix, buf, got, place, out, delivered>>
----------------------------------------------------------------------------
\* What handle does with it.

\* errInvalidTarget: the structure is valid, local rules refuse the target.
InvalidTarget ==
    \/ got.atyp = addressDomain /\ ~validDomain(got.host)
    \/ got.port = 0 /\ got.command = commandConnect

\* Mutant: an invalid target is an error like any other.
AuthenticatedIfServed == field = "done" /\ got.credential \in Granted /\ ~InvalidTarget

Authenticated == field = "done" /\ got.credential \in Granted

Serve == IF got.command = commandUDPAssociate THEN "packets" ELSE "copy"

\* A client without identity gets the website; one that sent nothing, or finds
\* no website slot, is closed.
Classify ==
    /\ place = "header" /\ ~InHeader
    /\ \/ Authenticated /\ InvalidTarget /\ place' = "closed"
       \/ Authenticated /\ ~InvalidTarget /\ place' = Serve
       \/ ~Authenticated /\ fallback /\ prefix # <<>> /\ place' = "replay"
       \/ ~Authenticated /\ place' = "closed"
    /\ UNCHANGED <<sent, fallback, consumed, reading, out, delivered>>

\* serveFallback: the consumed bytes first, then the unread stream.
Replay ==
    /\ place = "replay"
    /\ out' = prefix /\ place' = "copy"
    /\ UNCHANGED <<sent, fallback, consumed, reading, delivered>>

\* A copy of any number of bytes, up to the end of the stream.
Copy ==
    /\ place = "copy"
    /\ IF Rest = <<>>
       THEN place' = "ended" /\ UNCHANGED <<consumed, out>>
       ELSE \E n \in 1..Len(Rest) :
                /\ out' = out \o SubSeq(Rest, 1, n)
                /\ consumed' = consumed + n
                /\ UNCHANGED place
    /\ UNCHANGED <<sent, fallback, reading, delivered>>
----------------------------------------------------------------------------
\* The packets of a UDP association.

\* Where the host of a packet starts, and how many bytes it has; 0 for an
\* address type or length that readHost refuses.
HostStart(bytes) == IF bytes[1] = addressDomain THEN 3 ELSE 2
HostLength(bytes) ==
    CASE bytes[1] = addressDomain -> IF Len(bytes) > 1 THEN bytes[2] ELSE 0
      [] bytes[1] \in {addressIPv4, addressIPv6} -> AddressLength(bytes[1])
      [] OTHER -> 0

\* Mutant: the payload is what is there, not what the header says.
PayloadIsRest(bytes, from, length) == SubSeq(bytes, from, Len(bytes))

Payload(bytes, from, length) == SubSeq(bytes, from, from + length - 1)

\* The packet at the head of the bytes, as a set of at most one: none for one
\* that is truncated or invalid.  The caller's buffer holds any length.
ReadPacket(bytes) ==
    IF bytes = <<>> \/ HostLength(bytes) = 0 THEN {}
    ELSE LET at == HostStart(bytes) + HostLength(bytes)   \* port, length, CRLF
         IN  IF Len(bytes) < at + 5 THEN {}
             ELSE LET host == SubSeq(bytes, HostStart(bytes), at - 1)
                      port == Uint16(SubSeq(bytes, at, at + 1))
                      length == Uint16(SubSeq(bytes, at + 2, at + 3))
                      payload == Payload(bytes, at + 6, length)
                      valid == /\ bytes[1] = addressDomain => validDomain(host)
                               /\ port # 0
                               /\ SubSeq(bytes, at + 4, at + 5) = CRLF
                               /\ length <= MaxUDPPayloadSize
                               /\ Len(bytes) >= at + 5 + length
                  IN  IF valid
                      THEN {[atyp |-> bytes[1], host |-> host, port |-> port,
                             payload |-> payload, size |-> at + 5 + Len(payload)]}
                      ELSE {}

\* The bytes of a packet, as a set: none for a source that cannot be encoded.
\* A source is what ParseIP makes of the host once its zone is cut off.
AppendPacket(source, payload) ==
    {bytes \in {<<source.atyp>>
                \o (IF source.atyp = addressDomain THEN <<Len(source.host)>> ELSE <<>>)
                \o source.host \o PutUint16(source.port) \o PutUint16(Len(payload))
                \o CRLF \o payload} :
        /\ source.port # 0 /\ Len(payload) <= MaxUDPPayloadSize
        /\ source.atyp = addressDomain =>
              Len(source.host) \in 1..MaxDomain /\ \A i \in DOMAIN source.host : source.host[i] # 0}

\* copyClientPackets: the first packet that cannot be read ends the association
\* (admission and failing writes are in TrojanService).
Packet ==
    /\ place = "packets"
    /\ IF ReadPacket(Rest) = {}
       THEN place' = "ended" /\ UNCHANGED <<consumed, delivered>>
       ELSE \E p \in ReadPacket(Rest) :
                /\ delivered' = Append(delivered, p)
                /\ consumed' = consumed + p.size
                /\ UNCHANGED place
    /\ UNCHANGED <<sent, fallback, reading, out>>
----------------------------------------------------------------------------
Init ==
    /\ sent \in Clients /\ fallback \in BOOLEAN
    /\ consumed = 0 /\ prefix = <<>> /\ field = "credential" /\ buf = <<>>
    /\ got = [credential |-> <<>>, command |-> 0, atyp |-> 0, length |-> 0,
              host |-> <<>>, port |-> 0]
    /\ late = FALSE /\ place = "header" /\ out = <<>> /\ delivered = <<>>

Next == Read \/ Truncated \/ DeadlinePasses \/ Classify \/ Replay \/ Copy \/ Packet

Spec == Init /\ [][Next]_vars
----------------------------------------------------------------------------
\* The encoding of a request by a client, the reference for the parsers.
Header(r) ==
    r.credential \o CRLF \o <<r.command, r.atyp>>
    \o (IF r.atyp = addressDomain THEN <<Len(r.host)>> ELSE <<>>)
    \o r.host \o PutUint16(r.port) \o CRLF

HasPrefix(bytes, head) == Len(head) <= Len(bytes) /\ SubSeq(bytes, 1, Len(head)) = head

Begins(r, bytes) == HasPrefix(bytes, Header(r))

\* A request that has an encoding.
WellFormed(r) ==
    /\ r.credential \in Seq(Byte) /\ Len(r.credential) = credentialLength
    /\ validCredential(r.credential)
    /\ r.command \in Byte /\ r.host \in Seq(Byte) /\ r.host # <<>> /\ r.port \in Port
    /\ \/ r.atyp = addressDomain
       \/ r.atyp \in {addressIPv4, addressIPv6} /\ Len(r.host) = AddressLength(r.atyp)

\* sent.request is the request the client meant, as a set: none for noise.
ASSUME ClientsAssumption ==
    \A c \in Clients :
        /\ c.bytes \in Seq(Byte)
        /\ \A r \in c.request : WellFormed(r) /\ Len(r.host) <= MaxDomain

Proper(r) == r.credential \in Granted /\ r.command \in {commandConnect, commandUDPAssociate}
TargetRefused(r) ==
    \/ r.atyp = addressDomain /\ ~validDomain(r.host)
    \/ r.port = 0 /\ r.command = commandConnect

Website == place = "replay" \/ (place \in {"copy", "ended"} /\ ~Authenticated)

SameRequest(r, s) ==
    <<r.credential, r.command, r.atyp, r.host, r.port>>
      = <<s.credential, s.command, s.atyp, s.host, s.port>>

\* The website sees the client's stream unchanged, wherever the header parsers
\* gave up: nothing they consumed is lost, repeated or reordered by the replay.
WebsiteSeesStream ==
    Website => /\ HasPrefix(stream, out)
               /\ place = "copy" => Len(out) = consumed
               /\ place = "ended" => out = stream

\* Only a granted client whose complete request was read is proxied, and its
\* target gets exactly what follows the header: the parsers read no payload.
PayloadPreserved ==
    place \in {"copy", "packets", "ended"} /\ ~Website =>
        /\ WellFormed(got) /\ Proper(got) /\ ~TargetRefused(got) /\ Begins(got, stream)
        /\ \A r \in sent.request : Begins(r, stream) => SameRequest(got, r)
        /\ out = SubSeq(stream, Len(Header(got)) + 1, Len(Header(got)) + Len(out))
        /\ place = "ended" /\ got.command = commandConnect => Header(got) \o out = stream

\* A complete request with valid credentials never falls back to the website, not
\* even when local rules refuse its target (errInvalidTarget).
NeverFallsBack ==
    Website => \A r \in sent.request : Proper(r) => ~Begins(r, prefix)

\* A granted client whose request arrives before the deadline is served, if its
\* target is acceptable: the limit on the header is large enough for every one.
RequestServed ==
    (place = "closed" \/ Website) /\ ~late =>
        \A r \in sent.request : Proper(r) /\ Begins(r, stream) => TargetRefused(r)

\* Wherever the header parsers give up or finish, the website gets the client's
\* stream, and the target what follows the header, without a byte lost or repeated.
StreamPreserved == WebsiteSeesStream /\ PayloadPreserved

\* A complete request with valid credentials never goes to the website, and is
\* served if it arrives before the deadline and its target is acceptable.
RightPlace == NeverFallsBack /\ RequestServed

\* The datagrams of an association are the packets the client framed, in order and
\* with their own destinations: reading one never eats into the next.
PacketsFramed ==
    /\ place = "packets" => Len(delivered) <= Len(sent.packets)
    /\ \A i \in DOMAIN delivered :
        /\ i \in DOMAIN sent.packets
        /\ <<delivered[i].atyp, delivered[i].host, delivered[i].port, delivered[i].payload>>
             = <<sent.packets[i].atyp, sent.packets[i].host, sent.packets[i].port,
                 sent.packets[i].payload>>
    /\ place = "ended" /\ got.command = commandUDPAssociate /\ Authenticated =>
          Len(delivered) = Len(sent.packets)
=============================================================================
