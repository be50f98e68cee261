--------------------------- MODULE InboundConfig ---------------------------
(***************************************************************************)
(* The runtime configuration (internal/config): which documents the        *)
(* gateway accepts, and what migrate-inbounds turns a legacy document      *)
(* into.  A document is a record of what strict decoding yields; an        *)
(* optional field is a set of at most one element, so that "every x in the *)
(* field" reads as "if it is configured".  Decoding itself (unknown and    *)
(* duplicate keys, several documents) only rejects and is left out.        *)
(*                                                                         *)
(* An address is a host as written and a port; port 0 stands for every     *)
(* text parseListener refuses.  Durations are in milliseconds.  tls and    *)
(* timezone: both TLS files are named, the time zone is known.             *)
(***************************************************************************)
EXTENDS Integers, Sequences, FiniteSets

Hysteria2 == "hysteria2"
Trojan == "trojan"

Addr(host, port) == [host |-> host, port |-> port]

The(option) == CHOOSE x \in option : TRUE
----------------------------------------------------------------------------
(* parseListener: a name is lower-cased and loses a trailing dot, a literal *)
(* is printed canonically (an IPv4-mapped IPv6 literal as IPv4).            *)

V4 == {"0.0.0.0", "127.0.0.1", "192.0.2.1"}
V6 == {"::", "::1"}

Normalized(host) ==
  CASE host = "LOCALHOST." -> "localhost"
    [] host = "::ffff:127.0.0.1" -> "127.0.0.1"
    [] OTHER -> host

ParseListener(addr) ==
  LET host == Normalized(addr.host)
  IN  [host |-> host,
       port |-> addr.port,
       wildcard |-> host \in {"", "0.0.0.0", "::"},
       family |-> CASE host \in V4 -> 4 [] host \in V6 -> 6 [] OTHER -> 0]

Parses(addr) == addr.port # 0

\* Mutant: an unspecified address is taken for a host like any other.
ConflictsByText(x, y) ==
  LET a == ParseListener(x)
      b == ParseListener(y)
  IN  a.port = b.port /\ a.host = b.host

ListenersDefinitelyConflict(x, y) ==
  LET a == ParseListener(x)
      b == ParseListener(y)
  IN  /\ a.port = b.port
      /\ \/ a.host = b.host
         \/ "" \in {a.host, b.host}
         \/ (a.wildcard \/ b.wildcard) /\ a.family # 0 /\ a.family = b.family

IsLoopback(host) == host \in {"localhost", "127.0.0.1", "::1"}

\* cmd/gateway checks the host as written, without parseListener.
IsLoopbackListen(addr) == IsLoopback(addr.host) \/ addr.host = "::ffff:127.0.0.1"
----------------------------------------------------------------------------
(* Options of an inbound.                                                   *)

InRange(v, low, high) == v = 0 \/ v \in low..high

ValidateInboundQUIC(quic) ==
  /\ \A w \in quic.windows : w = 0 \/ w >= 16384
  /\ InRange(quic.idle, 4000, 120000)
  /\ quic.streams = 0 \/ quic.streams >= 8

ValidateInboundMasquerade(masquerade) ==
  /\ masquerade.type = "proxy"
  /\ \E url \in masquerade.proxy :
       /\ url.scheme \in {"http", "https"}
       /\ url.host # ""
       /\ ~url.credentials
       /\ ~url.query

Or(v, default) == IF v = 0 THEN default ELSE v

Defaulted(f) == [f EXCEPT !.probe = Or(@, 1000), !.dial = Or(@, 3000),
                          !.idle = Or(@, 30000), !.connections = Or(@, 128)]

\* TrojanFallbackConfig.WithDefaults fails unless this holds.
WithDefaultsOK(fallback) ==
  LET f == Defaulted(fallback)
  IN  /\ Parses(f.addr)
      /\ ~ParseListener(f.addr).wildcard
      /\ f.probe \in 50..10000
      /\ f.dial \in 50..30000
      /\ f.idle \in 1000..600000
      /\ f.connections \in 1..65535

ValidateTrojanInbound(trojan, listen) ==
  /\ \A f \in trojan.fallback :
       WithDefaultsOK(f) /\ ~ListenersDefinitelyConflict(listen, f.addr)
  /\ InRange(trojan.handshake, 1000, 120000)
  /\ InRange(trojan.pending, 0, 65535)
  /\ InRange(trojan.udpIdle, 5000, 1800000)

ValidateInbound(inbounds, i) ==
  LET b == inbounds[i]
  IN  /\ b.name # ""
      /\ \A j \in 1..(i - 1) : inbounds[j].name # b.name
      /\ b.type \in {Hysteria2, Trojan}
      /\ Parses(b.listen)
      /\ b.masquerade # {} => b.type = Hysteria2
      /\ \A m \in b.masquerade : ValidateInboundMasquerade(m)
      /\ \A q \in b.quic : b.type = Hysteria2 /\ ValidateInboundQUIC(q)
      /\ \A t \in b.trojan : b.type = Trojan /\ ValidateTrojanInbound(t, b.listen)
      /\ \A j \in 1..(i - 1) : inbounds[j].type = b.type =>
           ~ListenersDefinitelyConflict(inbounds[j].listen, b.listen)
----------------------------------------------------------------------------
(* Subscription.                                                            *)

Endpoint(inbound, serverAddr) == [inbound |-> inbound, serverAddr |-> serverAddr]
NoEndpoint == Endpoint("", Addr("", 0))

Names(inbounds) == {inbounds[i].name : i \in DOMAIN inbounds}

ValidateSubscriptionEndpoint(e, inbounds) ==
  /\ e.inbound \in Names(inbounds)
  /\ Parses(e.serverAddr)
  /\ ~ParseListener(e.serverAddr).wildcard

\* SubConfig.ClientEndpoints: the list if there is one, else the single endpoint.
ClientEndpoints(sub) ==
  IF sub.endpoints # {} THEN The(sub.endpoints)
  ELSE << IF sub.single = {} THEN NoEndpoint ELSE The(sub.single) >>

TCPListeners(c) ==
  {c.inbounds[i].listen : i \in {j \in DOMAIN c.inbounds : c.inbounds[j].type = Trojan}}
    \cup c.admin

ValidateSub(c, sub) ==
  LET es == ClientEndpoints(sub)
  IN  /\ es # << >>
      /\ sub.endpoints = {} \/ sub.single = {}
      /\ \A i \in DOMAIN es : ValidateSubscriptionEndpoint(es[i], c.inbounds)
      /\ \A i, j \in DOMAIN es : i # j => es[i].inbound # es[j].inbound
      /\ \A l \in sub.listen :
           Parses(l) /\ \A t \in TCPListeners(c) : ~ListenersDefinitelyConflict(t, l)

Validate(c) ==
  /\ c.inbounds # << >>
  /\ \A i \in DOMAIN c.inbounds : ValidateInbound(c.inbounds, i)
  /\ c.tls
  /\ c.timezone
  /\ c.flush >= 0
  /\ \A a \in c.admin : Parses(a) /\ IsLoopback(ParseListener(a).host)
  /\ \A s \in c.sub : ValidateSub(c, s)
----------------------------------------------------------------------------
(* MigrateLegacyInbounds: legacy.listen, .masquerade, .trojan, .sub, .api   *)
(* and .admin are optional.  legacy.unsupported: the document has inbounds, *)
(* obfs, users, nodes, a secret, or subscription fields of the new schema.  *)

\* tlsOptions: an SNI or the insecure flag.
Metadata(t) == t.listen # {} /\ (t.serverAddr # {} \/ t.tlsOptions)

Migratable(legacy) ==
  /\ ~legacy.unsupported
  /\ \A m \in legacy.masquerade : m.type = "proxy" /\ m.proxy # {}
  /\ \A s \in legacy.sub : s.serverAddr # {}
  /\ \A t \in legacy.trojan : Metadata(t) /\ legacy.sub # {} => t.serverAddr # {}

MigratedInbounds(legacy) ==
  << [name |-> "hy2-public", type |-> Hysteria2,
      listen |-> IF legacy.listen = {} THEN Addr("", 443) ELSE The(legacy.listen),
      quic |-> legacy.quic, masquerade |-> legacy.masquerade, trojan |-> {}] >>
  \o IF \A t \in legacy.trojan : t.listen = {} THEN << >>
     ELSE << [name |-> "trojan-public", type |-> Trojan,
              listen |-> The(The(legacy.trojan).listen),
              quic |-> {}, masquerade |-> {}, trojan |-> {}] >>

PublishesBoth(s, t) ==
  [listen |-> s.listen, single |-> {},
   endpoints |-> {<< Endpoint("hy2-public", The(s.serverAddr)),
                     Endpoint("trojan-public", The(t.serverAddr)) >>}]

MigratedSub(legacy, s) ==
  IF \E t \in legacy.trojan : Metadata(t)
    THEN PublishesBoth(s, The(legacy.trojan))
    ELSE [listen |-> s.listen, single |-> {Endpoint("hy2-public", The(s.serverAddr))},
          endpoints |-> {}]

Migrated(legacy) ==
  [inbounds |-> MigratedInbounds(legacy),
   tls |-> legacy.tls,
   timezone |-> legacy.timezone,
   flush |-> legacy.flush,
   admin |-> IF legacy.admin # {} THEN legacy.admin ELSE legacy.api,
   sub |-> {MigratedSub(legacy, s) : s \in legacy.sub},
   systemd |-> legacy.systemd]

\* The generated document is validated before it is written.
MigrateLegacyInbounds(legacy) == Migratable(legacy) /\ Validate(Migrated(legacy))
=============================================================================
