----------------------------- MODULE MCProcess -----------------------------
(***************************************************************************)
(* Documents for Process.  Three families keep the number of combinations  *)
(* small: addresses (every pair of listeners that may overlap), options    *)
(* (every bound of a number, one at a time), and subscriptions.            *)
(***************************************************************************)
EXTENDS Process

P(h) == Addr(h, 443)
Hosts == {"", "0.0.0.0", "::", "127.0.0.1", "192.0.2.1", "::1", "localhost", "::ffff:127.0.0.1"}
Addrs == {P(h) : h \in Hosts} \cup {Addr("", 8443)}

Bare(name, type, listen) ==
  [name |-> name, type |-> type, listen |-> listen, quic |-> {}, masquerade |-> {}, trojan |-> {}]
Doc(inbounds, admin, sub) ==
  [inbounds |-> inbounds, tls |-> TRUE, timezone |-> TRUE, flush |-> 0, admin |-> admin, sub |-> sub,
   systemd |-> {}]
Published(inbound, listen) ==
  [listen |-> listen, single |-> {Endpoint(inbound, Addr("gateway", 443))}, endpoints |-> {}]

Types == {Hysteria2, Trojan}
Loopbacks == {P("127.0.0.1"), P("localhost"), P("LOCALHOST."), P("::1"), P("192.0.2.1")}

\* Two inbounds and a subscription service.
PairDocs ==
  {Doc(<<Bare("a", t, x), Bare("b", u, y)>>, {}, s) :
     t, u \in Types, x, y \in Addrs,
     s \in {{}} \cup {{Published("a", {z})} : z \in {P(""), P("127.0.0.1"), P("localhost")}}}

\* An administration service beside an inbound.
AdminDocs ==
  {Doc(<<Bare("a", Hysteria2, P(""))>>, {x}, {Published("a", {y})}) : x \in Loopbacks, y \in Addrs}
  \cup {Doc(<<Bare("a", Trojan, y)>>, {x}, {}) : x \in Loopbacks, y \in Addrs}

QUICs ==
  {[windows |-> {0, w}, idle |-> i, streams |-> n] :
     w \in {0, 16383, 16384}, i \in {0, 3999, 4000, 120001}, n \in {-1, 0, 7, 8}}
URLs == {[scheme |-> s, host |-> h, credentials |-> c, query |-> q] :
           s \in {"http", "ftp"}, h \in {"", "origin"}, c, q \in BOOLEAN}
Masquerades == {[type |-> t, proxy |-> p] : t \in {"proxy", "file"}, p \in {{}} \cup {{u} : u \in URLs}}
Fallback == [addr |-> Addr("127.0.0.1", 8080), probe |-> 0, dial |-> 0, idle |-> 0, connections |-> 0]
Fallbacks == {[Fallback EXCEPT !.addr = a] : a \in Addrs \cup {Addr("", 0)}}
  \cup {[Fallback EXCEPT !.probe = v] : v \in {49, 50, 10001}}
  \cup {[Fallback EXCEPT !.dial = v] : v \in {49, 30000}}
  \cup {[Fallback EXCEPT !.idle = v] : v \in {999, 600001}}
  \cup {[Fallback EXCEPT !.connections = v] : v \in {-1, 1, 65536}}
Limits == [handshake |-> 0, pending |-> 0, udpIdle |-> 0, fallback |-> {}]
Trojans == {[Limits EXCEPT !.fallback = {f}] : f \in Fallbacks}
  \cup {[Limits EXCEPT !.handshake = v] : v \in {-1, 999, 1000}}
  \cup {[Limits EXCEPT !.pending = v] : v \in {-1, 65535, 65536}}
  \cup {[Limits EXCEPT !.udpIdle = v] : v \in {4999, 1800000}}

OptionDocs ==
  {Doc(<<i>>, {}, {}) : i \in
     {[Bare("a", t, P("")) EXCEPT !.quic = {q}] : t \in Types, q \in QUICs}
     \cup {[Bare("a", t, P("")) EXCEPT !.masquerade = {m}] : t \in Types, m \in Masquerades}
     \cup {[Bare("a", t, P("0.0.0.0")) EXCEPT !.trojan = {o}] : t \in Types, o \in Trojans}}
  \cup {[Doc(<<Bare(n, t, P(""))>>, {}, {}) EXCEPT !.tls = b, !.timezone = c, !.flush = f] :
          n \in {"", "a"}, t \in Types \cup {"socks"}, b, c \in BOOLEAN, f \in {-1, 0}}

Endpoints == {Endpoint(n, a) : n \in {"a", "b", "c", ""}, a \in {Addr("gateway", 443), P("::"), Addr("", 0)}}
EndpointDocs ==
  {Doc(<<Bare("a", Hysteria2, P("")), Bare(n, Trojan, P(""))>>, {}, {s}) : n \in {"a", "b"}, s \in
     [listen : {{}, {Addr("", 8080)}},
      single : {{}} \cup {{e} : e \in Endpoints},
      endpoints : {{}, {<< >>}} \cup {{<<e, f>>} : e, f \in Endpoints}]}

\* Every listener at once, and one alone, with the watchdog on or off.
WholeDocs ==
  {[d EXCEPT !.systemd = {[watchdog |-> w]}] : w \in BOOLEAN, d \in
     {Doc(<<Bare("a", Trojan, P("")), Bare("b", Hysteria2, P(""))>>, {Addr("127.0.0.1", 9090)},
          {Published("a", {Addr("", 8080)})}),
      Doc(<<Bare("a", Trojan, P(""))>>, {}, {})}}

\* The first of them, a Trojan inbound before a Hysteria2 inbound.
MCStoppable == {d \in WholeDocs : Len(d.inbounds) = 2 /\ d.systemd = {[watchdog |-> TRUE]}}
MCInbounds == <<"trojan", "hysteria2">>

MCConfigs == PairDocs \cup AdminDocs \cup OptionDocs \cup EndpointDocs \cup WholeDocs

\* Legacy documents.
Opt(S) == {{}} \cup {{x} : x \in S}
MCLegacies ==
  [listen : Opt({P("127.0.0.1")}), tls : {TRUE}, timezone : {TRUE}, flush : {0}, unsupported : BOOLEAN,
   quic : {{}}, masquerade : Opt({[type |-> "proxy", proxy |-> {}]}),
   admin : Opt({Addr("127.0.0.1", 9090)}), api : Opt({Addr("::1", 9090), Addr("", 9090)}),
   sub : Opt([listen : {{}, {Addr("", 8080)}}, serverAddr : Opt({Addr("gateway", 443), P("")})]),
   trojan : Opt([listen : {{}, {P("")}}, tlsOptions : BOOLEAN, serverAddr : Opt({Addr("gateway", 8443)})]),
   systemd : {{}}]
=============================================================================
