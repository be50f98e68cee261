--------------------------- MODULE ProcessProofs ---------------------------
(***************************************************************************)
(* Proofs about the life of the gateway process: for every set of          *)
(* documents and legacy documents, every list of services and every pair   *)
(* of budgets.                                                             *)
(*                                                                         *)
(* StartInv follows the start: what is open at each step, that an accepted *)
(* document was validated, and how old the last heartbeat is.  StoreInv    *)
(* and ClockInv follow the shutdown.  That an accepted document can be     *)
(* served is a statement about Validate, proved for any document first.    *)
(***************************************************************************)
EXTENDS Process, SequenceTheorems, TLAPS

\* Most leaves are first-order reasoning; those with arithmetic or larger
\* expressions over records and functions cite SMT.
USE Zenon

----------------------------------------------------------------------------
\* Sockets of different hosts that collide however names resolve: validate's
\* comparison of the normalized texts finds them.
LEMMA ResolutionsOf ==
    ASSUME NEW h
    PROVE  /\ h = "0.0.0.0" => Resolutions(h) = {{"127.0.0.1", "192.0.2.1"}}
           /\ h = "::" => Resolutions(h) = {{"::1"}}
           /\ h \in Interfaces => {h} \in Resolutions(h)
           /\ h \notin Interfaces \cup {"", "0.0.0.0", "::"} =>
                 \A i \in Interfaces : {i} \in Resolutions(h)
<1>1. ASSUME h = "0.0.0.0" PROVE Resolutions(h) = {{"127.0.0.1", "192.0.2.1"}}
  BY <1>1 DEF Resolutions, Interfaces, V4
<1>2. ASSUME h = "::" PROVE Resolutions(h) = {{"::1"}}
  BY <1>2 DEF Resolutions, Interfaces, V6
<1>3. ASSUME h \in Interfaces PROVE {h} \in Resolutions(h)
  <2>1. Resolutions(h) = {{h}}
    BY <1>3 DEF Resolutions, Interfaces
  <2> QED
    BY <2>1
<1>4. ASSUME h \notin Interfaces \cup {"", "0.0.0.0", "::"}
      PROVE  \A i \in Interfaces : {i} \in Resolutions(h)
  <2>1. Resolutions(h) = (SUBSET Interfaces) \ {{}}
    BY <1>4 DEF Resolutions
  <2>2. \A i \in Interfaces : {i} \in SUBSET Interfaces /\ {i} # {}
    BY Zenon
  <2> QED
    BY <2>1, <2>2
<1> QED
  BY <1>1, <1>2, <1>3, <1>4

\* However the two hosts resolve, they share an interface.
Meet(g, h) == \A r \in Resolutions(g), s \in Resolutions(h) : r \cap s # {}

Name(h) == h \notin Interfaces \cup {"", "0.0.0.0", "::"}
Family(h) == CASE h \in V4 -> 4 [] h \in V6 -> 6 [] OTHER -> 0
Wildcard(h) == h \in {"", "0.0.0.0", "::"}

LEMMA MeetSymmetric ==
    ASSUME NEW g, NEW h, Meet(g, h)
    PROVE  Meet(h, g)
  BY DEF Meet

\* A name may resolve to another interface than any host but "".
LEMMA NameMeets ==
    ASSUME NEW g, NEW h, Name(g), Meet(g, h)
    PROVE  h = ""
<1> SUFFICES ASSUME h # "" PROVE FALSE
  OBVIOUS
<1>1. {"::1"} \in Resolutions(g) /\ {"127.0.0.1"} \in Resolutions(g)
  BY ResolutionsOf DEF Interfaces, Name
<1>2. CASE h = "0.0.0.0"
  <2>1. {"127.0.0.1", "192.0.2.1"} \in Resolutions(h)
    BY <1>2, ResolutionsOf
  <2> QED
    BY <1>1, <2>1 DEF Meet
<1>3. CASE h = "::"
  <2>1. {"::1"} \in Resolutions(h)
    BY <1>3, ResolutionsOf
  <2> QED
    BY <1>1, <2>1 DEF Meet
<1>4. CASE h \in Interfaces
  <2>1. {h} \in Resolutions(h)
    BY <1>4, ResolutionsOf
  <2>2. h # "::1" \/ h # "127.0.0.1"
    OBVIOUS
  <2> QED
    BY <1>1, <2>1, <2>2 DEF Meet
<1>5. CASE Name(h)
  <2>1. {"192.0.2.1"} \in Resolutions(h)
    BY <1>5, ResolutionsOf DEF Interfaces, Name
  <2> QED
    BY <1>1, <2>1 DEF Meet
<1> QED
  BY <1>2, <1>3, <1>4, <1>5 DEF Name

LEMMA WildcardMeets ==
    ASSUME NEW g, NEW h, Meet(g, h), g # h
    PROVE  /\ g = "0.0.0.0" /\ h \in Interfaces \cup {"::"} => h \in {"127.0.0.1", "192.0.2.1"}
           /\ g = "::" /\ h \in Interfaces => h = "::1"
           /\ ~(g \in Interfaces /\ h \in Interfaces)
<1>1. ASSUME g = "0.0.0.0", h \in Interfaces \cup {"::"}
      PROVE  h \in {"127.0.0.1", "192.0.2.1"}
  <2>1. {"127.0.0.1", "192.0.2.1"} \in Resolutions(g)
    BY <1>1, ResolutionsOf
  <2>2. CASE h = "::"
    <3>1. {"::1"} \in Resolutions(h)
      BY <2>2, ResolutionsOf
    <3> QED
      BY <2>1, <3>1 DEF Meet
  <2>3. CASE h \in Interfaces
    <3>1. {h} \in Resolutions(h)
      BY <2>3, ResolutionsOf
    <3> QED
      BY <2>1, <3>1 DEF Meet
  <2> QED
    BY <1>1, <2>2, <2>3
<1>2. ASSUME g = "::", h \in Interfaces PROVE h = "::1"
  <2>1. {"::1"} \in Resolutions(g) /\ {h} \in Resolutions(h)
    BY <1>2, ResolutionsOf
  <2> QED
    BY <2>1 DEF Meet
<1>3. ASSUME g \in Interfaces, h \in Interfaces PROVE FALSE
  <2>1. {g} \in Resolutions(g) /\ {h} \in Resolutions(h)
    BY <1>3, ResolutionsOf
  <2> QED
    BY SMT, <2>1 DEF Meet
<1> QED
  BY <1>1, <1>2, <1>3

\* Two hosts that meet are equal, one is the host of every family, or they are
\* of one family and one of them is its wildcard.
LEMMA HostsMeet ==
    ASSUME NEW a, NEW b, Meet(a, b)
    PROVE  \/ a = b \/ a = "" \/ b = ""
           \/ (Wildcard(a) \/ Wildcard(b)) /\ Family(a) # 0 /\ Family(a) = Family(b)
<1>a. 4 # 0
  BY SMT
<1> SUFFICES ASSUME a # b, a # "", b # ""
             PROVE  (Wildcard(a) \/ Wildcard(b)) /\ Family(a) # 0 /\ Family(a) = Family(b)
  OBVIOUS
<1>1. Meet(b, a)
  BY MeetSymmetric
<1>2. ~Name(a) /\ ~Name(b)
  BY <1>1, NameMeets
<1>3. a \in Interfaces \cup {"0.0.0.0", "::"} /\ b \in Interfaces \cup {"0.0.0.0", "::"}
  BY <1>2 DEF Name
<1>4. /\ Family("0.0.0.0") = 4 /\ Family("127.0.0.1") = 4 /\ Family("192.0.2.1") = 4
      /\ Family("::") = 6 /\ Family("::1") = 6
  BY DEF V4, V6, Family
<1>5. Wildcard("0.0.0.0") /\ Wildcard("::")
  BY DEF Wildcard
<1>6. CASE a = "0.0.0.0"
  <2>1. b \in {"127.0.0.1", "192.0.2.1"}
    BY <1>3, <1>6, WildcardMeets
  <2>2. Family(b) = 4
    BY <1>4, <2>1
  <2>3. Family(a) # 0 /\ Family(a) = Family(b)
    <3>1. Family(a) = 4
      BY <1>4, <1>6
    <3>2. Family(a) = Family(b)
      BY <2>2, <3>1, Zenon
    <3> QED
      BY <1>a, <2>2, <3>1, <3>2, Zenon
  <2>4. Wildcard(a)
    BY <1>5, <1>6
  <2> QED
    BY <2>3, <2>4
<1>7. CASE b = "0.0.0.0"
  <2>1. a \in {"127.0.0.1", "192.0.2.1"}
    BY <1>1, <1>3, <1>7, WildcardMeets
  <2>2. Family(a) = 4
    BY <1>4, <2>1
  <2>3. Family(a) # 0 /\ Family(a) = Family(b)
    <3>1. Family(b) = 4
      BY <1>4, <1>7
    <3>2. Family(a) = Family(b)
      BY <2>2, <3>1, Zenon
    <3> QED
      BY <1>a, <2>2, <3>1, <3>2, Zenon
  <2>4. Wildcard(b)
    BY <1>5, <1>7
  <2> QED
    BY <2>3, <2>4
<1>8. CASE a = "::" /\ b # "0.0.0.0"
  <2>1. b = "::1"
    BY <1>3, <1>8, WildcardMeets
  <2> QED
    BY SMT, <1>4, <1>5, <1>8, <2>1
<1>9. CASE b = "::" /\ a # "0.0.0.0"
  <2>1. a = "::1"
    BY <1>1, <1>3, <1>9, WildcardMeets
  <2> QED
    BY SMT, <1>4, <1>5, <1>9, <2>1
<1>10. CASE a \in Interfaces /\ b \in Interfaces
  BY <1>10, WildcardMeets
<1> QED
  BY <1>3, <1>6, <1>7, <1>8, <1>9, <1>10

\* validate's comparison of normalized texts finds every certain overlap.
LEMMA ClashConflicts ==
    ASSUME NEW x, NEW y, Clash(x, y)
    PROVE  ListenersDefinitelyConflict(x, y) /\ ListenersDefinitelyConflict(y, x)
<1>1. PICK a, b : a = Normalized(x.host) /\ b = Normalized(y.host)
  OBVIOUS
<1>2. x.port = y.port /\ (a = b \/ Meet(a, b))
  BY <1>1 DEF Clash, Meet
<1>3. \/ a = b \/ a = "" \/ b = ""
      \/ (Wildcard(a) \/ Wildcard(b)) /\ Family(a) # 0 /\ Family(a) = Family(b)
  BY <1>2, HostsMeet
<1>4. /\ ParseListener(x).host = a /\ ParseListener(x).port = x.port
      /\ ParseListener(x).wildcard = Wildcard(a) /\ ParseListener(x).family = Family(a)
  BY <1>1 DEF ParseListener, Wildcard, Family
<1>5. /\ ParseListener(y).host = b /\ ParseListener(y).port = y.port
      /\ ParseListener(y).wildcard = Wildcard(b) /\ ParseListener(y).family = Family(b)
  BY <1>1 DEF ParseListener, Wildcard, Family
<1> QED
  BY <1>2, <1>3, <1>4, <1>5, Zenon DEF ListenersDefinitelyConflict
----------------------------------------------------------------------------
(* An accepted document can be served.                                      *)

\* The inbounds of the document are a list.
Listed(c) == Len(c.inbounds) \in Nat /\ DOMAIN c.inbounds = 1..Len(c.inbounds)

\* No two listeners must collide, the administration service and an inbound aside.
ListenersDistinct(c) ==
  \A x, y \in Listeners(c) :
    /\ x[1] # y[1] /\ x[2] = y[2]
    /\ Admin \in {x[1], y[1]} => Sub \in {x[1], y[1]}
    => ~Clash(x[3], y[3])

\* validate compares every inbound with the earlier ones of its type, and the
\* subscription service with the Trojan inbounds and the administration service.
LEMMA ValidDistinct ==
    ASSUME NEW c, Validate(c), Listed(c)
    PROVE  ListenersDistinct(c)
<1> SUFFICES ASSUME NEW x \in Listeners(c), NEW y \in Listeners(c),
                    x[1] # y[1], x[2] = y[2],
                    Admin \in {x[1], y[1]} => Sub \in {x[1], y[1]},
                    Clash(x[3], y[3])
             PROVE  FALSE
  BY DEF ListenersDistinct
<1> DEFINE Of(i) == <<Inbound(i), IF c.inbounds[i].type = Trojan THEN "tcp" ELSE "udp",
                      c.inbounds[i].listen>>
<1>1. Admin # Sub /\ \A i : Inbound(i) # Admin /\ Inbound(i) # Sub
  BY DEF Admin, Sub, Inbound
<1>2. \A z \in Listeners(c) :
          \/ z[1] = Admin /\ z[2] = "tcp" /\ z[3] \in c.admin
          \/ z[1] = Sub /\ z[2] = "tcp" /\ \E s \in c.sub : z[3] \in s.listen
          \/ \E i \in DOMAIN c.inbounds :
                /\ z[1] = Inbound(i) /\ z[3] = c.inbounds[i].listen
                /\ z[2] = IF c.inbounds[i].type = Trojan THEN "tcp" ELSE "udp"
  BY SMT DEF Listeners, Subs
<1>3. ListenersDefinitelyConflict(x[3], y[3]) /\ ListenersDefinitelyConflict(y[3], x[3])
  BY ClashConflicts
<1>4. \A s \in c.sub : \A l \in s.listen, t \in TCPListeners(c) : ~ListenersDefinitelyConflict(t, l)
  BY DEF Validate, ValidateSub
<1>5. \A i \in DOMAIN c.inbounds : c.inbounds[i].type = Trojan => c.inbounds[i].listen \in TCPListeners(c)
  BY DEF TCPListeners
<1>6. \A a \in c.admin : a \in TCPListeners(c)
  BY DEF TCPListeners
<1>7. \A i \in DOMAIN c.inbounds : c.inbounds[i].type \in {Hysteria2, Trojan}
  BY DEF Validate, ValidateInbound
<1>8. \A i, j \in DOMAIN c.inbounds : i < j /\ c.inbounds[i].type = c.inbounds[j].type
          => ~ListenersDefinitelyConflict(c.inbounds[i].listen, c.inbounds[j].listen)
  <2> SUFFICES ASSUME NEW i \in DOMAIN c.inbounds, NEW j \in DOMAIN c.inbounds, i < j,
                      c.inbounds[i].type = c.inbounds[j].type
               PROVE  ~ListenersDefinitelyConflict(c.inbounds[i].listen, c.inbounds[j].listen)
    OBVIOUS
  <2>1. i \in 1..(j - 1)
    BY SMT DEF Listed
  <2>2. ValidateInbound(c.inbounds, j)
    BY DEF Validate
  <2> QED
    BY <2>1, <2>2 DEF ValidateInbound
<1>9. ASSUME NEW u \in Listeners(c), NEW v \in Listeners(c), u[1] = Sub, u[1] # v[1], u[2] = v[2]
      PROVE  ~ListenersDefinitelyConflict(v[3], u[3])
  <2>1. PICK s \in c.sub : u[3] \in s.listen
    BY <1>1, <1>2, <1>9
  <2>2. u[2] = "tcp"
    BY <1>1, <1>2, <1>9
  <2>3. v[3] \in TCPListeners(c)
    BY <1>1, <1>2, <1>5, <1>6, <1>9, <2>2
  <2> QED
    BY <1>4, <2>1, <2>3
<1>10. x[1] # Sub /\ y[1] # Sub
  BY <1>3, <1>9
<1>11. PICK i \in DOMAIN c.inbounds :
          /\ x[1] = Inbound(i) /\ x[3] = c.inbounds[i].listen
          /\ x[2] = IF c.inbounds[i].type = Trojan THEN "tcp" ELSE "udp"
  BY <1>1, <1>2, <1>10
<1>12. PICK j \in DOMAIN c.inbounds :
          /\ y[1] = Inbound(j) /\ y[3] = c.inbounds[j].listen
          /\ y[2] = IF c.inbounds[j].type = Trojan THEN "tcp" ELSE "udp"
  BY <1>1, <1>2, <1>10
<1>13. i # j /\ i \in Nat /\ j \in Nat
  <2>1. i \in Nat /\ j \in Nat
    BY SMT DEF Listed
  <2>2. i # j
    BY <1>11, <1>12
  <2> QED
    BY <2>1, <2>2
<1>14. c.inbounds[i].type = c.inbounds[j].type
  BY <1>7, <1>11, <1>12
<1>15. i < j \/ j < i
  BY SMT, <1>13
<1> QED
  BY <1>3, <1>8, <1>11, <1>12, <1>14, <1>15

\* What has not been bound can be: of what is open, nothing has its address.
LEMMA NotHeld ==
    ASSUME ListenersDistinct(config), AdminFits(config),
           NEW x \in Listeners(config), x[1] # Admin, x[1] \notin bound
    PROVE  ~Held(x[2], x[3])
<1> SUFFICES ASSUME NEW l \in Listeners(config), l[1] \in bound, l[2] = x[2], Clash(l[3], x[3])
             PROVE  FALSE
  BY DEF Held
<1>1. l[1] # x[1]
  OBVIOUS
<1>2. l[1] = Admin /\ x[1] # Sub
  BY <1>1 DEF ListenersDistinct
<1>3. \A z \in Listeners(config) :
          \/ z[1] = Admin /\ z[2] = "tcp" /\ z[3] \in config.admin
          \/ z[1] = Sub
          \/ \E i \in DOMAIN config.inbounds :
                /\ z[1] = Inbound(i) /\ z[3] = config.inbounds[i].listen
                /\ z[2] = IF config.inbounds[i].type = Trojan THEN "tcp" ELSE "udp"
  BY SMT DEF Listeners
<1>4. Admin # Sub /\ \A i : Inbound(i) # Admin
  BY DEF Admin, Sub, Inbound
<1>5. l[2] = "tcp" /\ l[3] \in config.admin
  BY <1>2, <1>3, <1>4
<1>6. PICK i \in DOMAIN config.inbounds :
          /\ x[3] = config.inbounds[i].listen
          /\ x[2] = IF config.inbounds[i].type = Trojan THEN "tcp" ELSE "udp"
  BY <1>2, <1>3
<1>7. config.inbounds[i].type = Trojan
  BY <1>5, <1>6
<1> QED
  BY <1>5, <1>6, <1>7 DEF AdminFits

LEMMA RangeBounds ==
    ASSUME NEW v, NEW low \in Int, NEW high \in Int, InRange(v, low, high)
    PROVE  v # 0 => low <= v /\ v <= high
  BY SMT DEF InRange

\* validate applies the rules of the constructors, and stricter ones.
LEMMA ValidConstructs ==
    ASSUME NEW c, Validate(c), NEW i \in DOMAIN c.inbounds
    PROVE  Constructs(c.inbounds[i])
<1> DEFINE b == c.inbounds[i]
<1>1. ValidateInbound(c.inbounds, i)
  BY DEF Validate
<1>2. /\ b.type \in {Hysteria2, Trojan}
      /\ \A m \in b.masquerade : ValidateInboundMasquerade(m)
      /\ \A q \in b.quic : ValidateInboundQUIC(q)
      /\ \A t \in b.trojan : ValidateTrojanInbound(t, b.listen)
  BY <1>1 DEF ValidateInbound
<1> HIDE DEF b
<1>3. \A m \in b.masquerade : NewMasquerade(m)
  BY <1>2 DEF ValidateInboundMasquerade, NewMasquerade
<1>4. \A q \in b.quic : Fill(q)
  <2> SUFFICES ASSUME NEW q \in b.quic PROVE Fill(q)
    OBVIOUS
  <2>1. ValidateInboundQUIC(q)
    BY <1>2
  <2>2. \A w \in q.windows : w # 0 => w >= 16384
    BY <2>1, SMT DEF ValidateInboundQUIC
  <2>3. q.idle # 0 => 4000 <= q.idle /\ q.idle <= 120000
    BY <2>1, RangeBounds, SMT DEF ValidateInboundQUIC
  <2>4. q.streams # 0 => q.streams >= 8
    BY <2>1, SMT DEF ValidateInboundQUIC
  <2> QED
    BY <2>2, <2>3, <2>4, SMT DEF Fill
<1>5. \A t \in b.trojan : \A f \in t.fallback : WithDefaultsOK(f)
  <2> SUFFICES ASSUME NEW t \in b.trojan, NEW f \in t.fallback PROVE WithDefaultsOK(f)
    OBVIOUS
  <2>1. ValidateTrojanInbound(t, b.listen)
    BY <1>2
  <2>2. \A g \in t.fallback : WithDefaultsOK(g) /\ ~ListenersDefinitelyConflict(b.listen, g.addr)
    BY <2>1, SMT DEF ValidateTrojanInbound
  <2> QED
    BY <2>2, Zenon
<1>6. Constructs(b)
  BY <1>2, <1>3, <1>4, <1>5
  DEF Constructs, NewHysteria2Service, NewTrojanService, Hysteria2, Trojan
<1> QED
  BY <1>6 DEF b

\* validateSubscriptionEndpoint checks what subscriptionEndpoints needs.
LEMMA ValidEndpoints ==
    ASSUME NEW c, Validate(c), NEW s \in c.sub, NEW i \in DOMAIN ClientEndpoints(s)
    PROVE  SubscriptionEndpointOK(c, ClientEndpoints(s)[i])
<1>1. PICK e : e = ClientEndpoints(s)[i]
  OBVIOUS
<1>2. ValidateSubscriptionEndpoint(e, c.inbounds)
  BY <1>1 DEF Validate, ValidateSub
<1>3. PICK j \in DOMAIN c.inbounds : c.inbounds[j].name = e.inbound
  BY <1>2 DEF ValidateSubscriptionEndpoint, Names
<1>4. c.inbounds[j].type \in {Hysteria2, Trojan}
  BY DEF Validate, ValidateInbound
<1>5. Normalized(e.serverAddr.host) \notin {"", "0.0.0.0", "::"} /\ e.serverAddr.port # 0
  BY <1>2 DEF ValidateSubscriptionEndpoint, ParseListener, Parses
<1>6. e.serverAddr.host \notin {"", "0.0.0.0", "::"}
  BY <1>5 DEF Normalized
<1>7. SubscriptionEndpointOK(c, e)
  BY <1>3, <1>4, <1>5, <1>6 DEF SubscriptionEndpointOK
<1> QED
  BY <1>1, <1>7

\* The migrated subscription publishes the address of the legacy one.
LEMMA MigratedPublishes ==
    ASSUME NEW l, NEW s \in l.sub
    PROVE  \E t \in Migrated(l).sub : \E i \in DOMAIN ClientEndpoints(t) :
               ClientEndpoints(t)[i] = Endpoint("hy2-public", The(s.serverAddr))
<1> DEFINE e == Endpoint("hy2-public", The(s.serverAddr))
           t == MigratedSub(l, s)
<1>1. t \in Migrated(l).sub
  BY DEF Migrated
<1>2. \A z : The({z}) = z
  BY DEF The
<1>3. CASE \E m \in l.trojan : Metadata(m)
  <2> DEFINE f == Endpoint("trojan-public", The(The(l.trojan).serverAddr))
  <2>1. t.endpoints = {<<e, f>>}
    BY <1>3 DEF MigratedSub, PublishesBoth
  <2> HIDE DEF e, f, t
  <2>2. ClientEndpoints(t) = <<e, f>>
    BY <1>2, <2>1 DEF ClientEndpoints
  <2>3. 1 \in DOMAIN ClientEndpoints(t) /\ ClientEndpoints(t)[1] = e
    BY SMT, <2>2
  <2> QED
    BY <1>1, <2>3 DEF e
<1>4. CASE ~\E m \in l.trojan : Metadata(m)
  <2>1. t.endpoints = {} /\ t.single = {e}
    BY <1>4 DEF MigratedSub
  <2> HIDE DEF e, t
  <2>2. ClientEndpoints(t) = <<e>>
    BY <1>2, <2>1 DEF ClientEndpoints
  <2>3. 1 \in DOMAIN ClientEndpoints(t) /\ ClientEndpoints(t)[1] = e
    BY SMT, <2>2
  <2> QED
    BY <1>1, <2>3 DEF e
<1> QED
  BY <1>3, <1>4
----------------------------------------------------------------------------
(* The start and the watchdog.                                              *)

Steps == {"config", "store", "snapshot", "tls", "admin", "sub", "inbounds", "start", "record",
          "serving"}

\* The document is one an operator wrote or a migrated one.
DocumentInv ==
    \/ config \in Configs /\ legacy = {}
    \/ \E l \in Legacies : config = Migrated(l) /\ legacy = {l}

\* The listeners bound before inbound n.
Before(n) == {Admin, Sub} \cup {Inbound(j) : j \in 1..(n - 1)}

\* What is open follows the step, and nothing is once the process has ended.
OpenInv ==
    /\ step \in Steps
    /\ next \in Nat \ {0}
    /\ step = "sub" => bound \subseteq {Admin}
    /\ step = "inbounds" => bound \subseteq Before(next)
    /\ exit # "none" => bound = {} /\ store = FALSE
    /\ step \in {"config", "store"} => store = FALSE
    /\ step \in {"config", "store", "snapshot", "tls", "admin"} => bound = {}

\* A heartbeat that is a half period old is being followed by a check, or one
\* was missed; an older one means that one was missed.
WatchInv ==
    /\ age \in Int
    /\ age >= 1 /\ due = 0 => missed = TRUE
    /\ age >= 2 => missed = TRUE
    /\ due \in 0..2 /\ missed \in BOOLEAN

StartInv ==
    /\ DocumentInv /\ (Accepted => Validate(config))
    /\ OpenInv /\ WatchInv /\ KilledAfterMiss

\* The document is only read, and served only if validate accepted it.
LEMMA DocumentStep ==
    ASSUME DocumentInv, Accepted => Validate(config), [Next]_vars
    PROVE  DocumentInv' /\ (Accepted => Validate(config))'
<1>1. CASE LoadRuntime
  BY <1>1 DEF LoadRuntime, At, Goto, Fail, DocumentInv, Accepted
<1>2. CASE OpenStore
  BY <1>2 DEF OpenStore, At, Goto, Fail, DocumentInv, Accepted
<1>3. CASE LoadRuntimeSnapshot
  BY <1>3 DEF LoadRuntimeSnapshot, At, Goto, Fail, DocumentInv, Accepted
<1>4. CASE LoadTLS
  BY <1>4 DEF LoadTLS, At, Goto, Fail, DocumentInv, Accepted
<1>5. CASE BindAdmin
  BY <1>5 DEF BindAdmin, At, Goto, Listen, Abort, Fail, CleanupConstructed,
     DocumentInv, Accepted
<1>6. CASE BindSub
  BY <1>6 DEF BindSub, At, Goto, Listen, Abort, Fail, CleanupConstructed,
     DocumentInv, Accepted
<1>7. CASE NewService
  BY <1>7 DEF NewService, At, Goto, Listen, Abort, Fail, CleanupConstructed,
     DocumentInv, Accepted
<1>8. CASE Warmup
  BY <1>8 DEF Warmup, At, Goto, DocumentInv, Accepted
<1>9. CASE Start
  BY <1>9 DEF Start, At, Goto, DocumentInv, Accepted
<1>10. CASE Record
  BY <1>10 DEF Record, At, DocumentInv, Accepted
<1>11. CASE ServiceError
  BY <1>11 DEF ServiceError, At, Ends, DocumentInv, Accepted
<1>12. CASE Signal
  BY <1>12 DEF Signal, At, Ends, DocumentInv, Accepted
<1>13. CASE Tick
  BY <1>13 DEF Tick, Watching, At, DocumentInv, Accepted
<1>14. CASE RunWatchdog
  BY <1>14 DEF RunWatchdog, Watching, At, DocumentInv, Accepted
<1>15. CASE WatchdogKills
  BY <1>15 DEF WatchdogKills, Watching, At, Ends, DocumentInv, Accepted
<1>16. CASE DatabaseFails
  BY <1>16 DEF DatabaseFails, Watching, At, DocumentInv, Accepted
<1>17. CASE DatabaseRecovers
  BY <1>17 DEF DatabaseRecovers, Watching, At, DocumentInv, Accepted
<1>18. ASSUME NEW l \in bound, LoopEnds(l) PROVE DocumentInv' /\ (Accepted => Validate(config))'
  BY <1>18 DEF LoopEnds, DocumentInv, Accepted
<1>19. CASE UNCHANGED vars
  BY <1>19 DEF vars, DocumentInv, Accepted
<1> QED
  BY SMT, <1>1, <1>2, <1>3, <1>4, <1>5, <1>6, <1>7, <1>8, <1>9, <1>10, <1>11,
     <1>12, <1>13, <1>14, <1>15, <1>16, <1>17, <1>18, <1>19 DEF Next, Main

\* Every failure closes what was opened before it.
LEMMA OpenStep ==
    ASSUME OpenInv, [Next]_vars
    PROVE  OpenInv'
<1>1. CASE LoadRuntime
  BY <1>1 DEF LoadRuntime, At, Goto, Fail, OpenInv, Steps
<1>2. CASE OpenStore
  BY <1>2 DEF OpenStore, At, Goto, Fail, OpenInv, Steps
<1>3. CASE LoadRuntimeSnapshot
  BY <1>3 DEF LoadRuntimeSnapshot, At, Goto, Fail, OpenInv, Steps
<1>4. CASE LoadTLS
  BY <1>4 DEF LoadTLS, At, Goto, Fail, OpenInv, Steps
<1>5. CASE BindAdmin
  BY <1>5 DEF BindAdmin, At, Goto, Listen, Abort, Fail, CleanupConstructed,
     OpenInv, Steps
<1>6. CASE BindSub
  <2>1. {Admin, Sub} \subseteq Before(next)
    BY DEF Before
  <2>2. /\ next' = next /\ step = "sub"
        /\ \/ step' = "inbounds" /\ bound' \subseteq bound \cup {Sub} /\ UNCHANGED <<exit, store>>
           \/ step' = step /\ bound' = {} /\ store' = FALSE
    BY <1>6 DEF BindSub, At, Goto, Listen, Abort, Fail, CleanupConstructed
  <2>3. exit = "none"
    BY <1>6 DEF BindSub, At
  <2> QED
    BY <2>1, <2>2, <2>3 DEF OpenInv, Steps
<1>7. CASE NewService
  <2>1. next' = next + 1 /\ step = "inbounds" /\ step' = step /\ exit = "none"
    BY <1>7 DEF NewService, At, Goto, Listen, Abort, Fail
  <2>2. \/ bound' = bound \cup {Inbound(next)} /\ UNCHANGED <<exit, store>>
        \/ bound' = {} /\ store' = FALSE
    BY <1>7 DEF NewService, Goto, Listen, Abort, CleanupConstructed
  <2>3. next' \in Nat \ {0}
    BY SMT, <2>1 DEF OpenInv
  <2>4. \A j \in 1..(next - 1) : j \in 1..(next' - 1)
    BY SMT, <2>1 DEF OpenInv
  <2>5. Before(next) \subseteq Before(next')
    BY <2>4 DEF Before
  <2>6. next \in 1..(next' - 1)
    BY SMT, <2>1 DEF OpenInv
  <2>7. Inbound(next) \in Before(next')
    BY <2>6 DEF Before
  <2> QED
    BY <2>1, <2>2, <2>3, <2>5, <2>7 DEF OpenInv, Steps
<1>8. CASE Warmup
  BY <1>8 DEF Warmup, At, Goto, OpenInv, Steps
<1>9. CASE Start
  BY <1>9 DEF Start, At, Goto, OpenInv, Steps
<1>10. CASE Record
  BY <1>10 DEF Record, At, OpenInv, Steps
<1>11. CASE ServiceError
  BY <1>11 DEF ServiceError, At, Ends, OpenInv, Steps
<1>12. CASE Signal
  BY <1>12 DEF Signal, At, Ends, OpenInv, Steps
<1>13. CASE Tick
  BY <1>13 DEF Tick, Watching, At, OpenInv, Steps
<1>14. CASE RunWatchdog
  BY <1>14 DEF RunWatchdog, Watching, At, OpenInv, Steps
<1>15. CASE WatchdogKills
  BY <1>15 DEF WatchdogKills, Watching, At, Ends, OpenInv, Steps
<1>16. CASE DatabaseFails
  BY <1>16 DEF DatabaseFails, Watching, At, OpenInv, Steps
<1>17. CASE DatabaseRecovers
  BY <1>17 DEF DatabaseRecovers, Watching, At, OpenInv, Steps
<1>18. ASSUME NEW l \in bound, LoopEnds(l) PROVE OpenInv'
  BY <1>18 DEF LoopEnds, OpenInv, Steps
<1>19. CASE UNCHANGED vars
  BY <1>19 DEF vars, OpenInv, Steps
<1> QED
  BY SMT, <1>1, <1>2, <1>3, <1>4, <1>5, <1>6, <1>7, <1>8, <1>9, <1>10, <1>11,
     <1>12, <1>13, <1>14, <1>15, <1>16, <1>17, <1>18, <1>19 DEF Next, Main

\* The watchdog checks once in each half period.
LEMMA WatchStep ==
    ASSUME WatchInv, KilledAfterMiss, [Next]_vars
    PROVE  WatchInv' /\ KilledAfterMiss'
<1>1. CASE LoadRuntime
  BY <1>1 DEF LoadRuntime, At, Goto, Fail, watch, WatchInv, KilledAfterMiss
<1>2. CASE OpenStore
  BY <1>2 DEF OpenStore, At, Goto, Fail, watch, WatchInv, KilledAfterMiss
<1>3. CASE LoadRuntimeSnapshot
  BY <1>3 DEF LoadRuntimeSnapshot, At, Goto, Fail, watch, WatchInv,
     KilledAfterMiss
<1>4. CASE LoadTLS
  BY <1>4 DEF LoadTLS, At, Goto, Fail, watch, WatchInv, KilledAfterMiss
<1>5. CASE BindAdmin
  BY <1>5 DEF BindAdmin, At, Goto, Listen, Abort, Fail, CleanupConstructed,
     watch, WatchInv, KilledAfterMiss
<1>6. CASE BindSub
  BY <1>6 DEF BindSub, At, Goto, Listen, Abort, Fail, CleanupConstructed,
     watch, WatchInv, KilledAfterMiss
<1>7. CASE NewService
  BY <1>7 DEF NewService, At, Goto, Listen, Abort, Fail, CleanupConstructed,
     watch, WatchInv, KilledAfterMiss
<1>8. CASE Warmup
  BY <1>8 DEF Warmup, At, Goto, watch, WatchInv, KilledAfterMiss
<1>9. CASE Start
  BY <1>9 DEF Start, At, Goto, watch, WatchInv, KilledAfterMiss
<1>10. CASE Record
  <2>1. /\ due' = due /\ exit' = exit
        /\ \/ age' = -1 /\ missed' = missed
           \/ age' = 0 /\ missed' = FALSE
           \/ age' = 1 /\ missed' = TRUE
    BY <1>10 DEF Record
  <2>2. exit' # "watchdog"
    BY <1>10, <2>1 DEF Record, At
  <2>3. age' \in Int /\ (age' >= 1 => missed' = TRUE)
    BY SMT, <2>1
  <2>4. age' >= 2 => age' >= 1
    BY SMT, <2>3
  <2>5. missed' \in BOOLEAN
    BY <2>1 DEF WatchInv
  <2> QED
    BY <2>1, <2>2, <2>3, <2>4, <2>5 DEF WatchInv, KilledAfterMiss
<1>11. CASE ServiceError
  BY <1>11 DEF ServiceError, At, Ends, watch, WatchInv, KilledAfterMiss
<1>12. CASE Signal
  BY <1>12 DEF Signal, At, Ends, watch, WatchInv, KilledAfterMiss
<1>13. CASE Tick
  <2>1. (age + 1) % 1 = 0
    BY SMT DEF WatchInv
  <2>2. /\ due' = IF due < 2 THEN due + 1 ELSE due
        /\ age' = age + 1 /\ missed' = (missed \/ due > 0) /\ exit' = exit /\ exit = "none"
    BY <1>13, <2>1 DEF Tick, Watching, At, WatchdogInterval
  <2>3. age' \in Int /\ (age' >= 2 => age >= 1) /\ due' \in 0..2 /\ due' # 0
    BY SMT, <2>2 DEF WatchInv
  <2>4. due = 0 \/ due > 0
    BY SMT DEF WatchInv
  <2>5. missed' \in BOOLEAN /\ (age' >= 2 => missed' = TRUE)
    BY <2>2, <2>3, <2>4 DEF WatchInv
  <2> QED
    BY <2>2, <2>3, <2>5 DEF WatchInv, KilledAfterMiss
<1>14. CASE RunWatchdog
  <2>1. /\ due > 0 /\ due' = due - 1 /\ exit' = exit /\ exit = "none"
        /\ \/ age' = 0 /\ missed' = FALSE
           \/ age' = age /\ missed' = TRUE
    BY <1>14 DEF RunWatchdog, Watching, At
  <2>2. age' \in Int /\ (age' >= 1 => missed' = TRUE) /\ (age' >= 2 => missed' = TRUE)
    BY SMT, <2>1 DEF WatchInv
  <2>3. due' \in 0..2
    BY SMT, <2>1 DEF WatchInv
  <2>4. missed' \in BOOLEAN /\ exit' # "watchdog"
    BY <2>1
  <2> QED
    BY <2>2, <2>3, <2>4 DEF WatchInv, KilledAfterMiss
<1>15. CASE WatchdogKills
  BY <1>15 DEF WatchdogKills, Watching, At, Ends, watch, WatchInv,
     KilledAfterMiss
<1>16. CASE DatabaseFails
  BY <1>16 DEF DatabaseFails, Watching, At, WatchInv, KilledAfterMiss
<1>17. CASE DatabaseRecovers
  BY <1>17 DEF DatabaseRecovers, Watching, At, WatchInv, KilledAfterMiss
<1>18. ASSUME NEW l \in bound, LoopEnds(l) PROVE WatchInv' /\ KilledAfterMiss'
  BY <1>18 DEF LoopEnds, watch, WatchInv, KilledAfterMiss
<1>19. CASE UNCHANGED vars
  BY <1>19 DEF vars, WatchInv, KilledAfterMiss
<1> QED
  BY SMT, <1>1, <1>2, <1>3, <1>4, <1>5, <1>6, <1>7, <1>8, <1>9, <1>10, <1>11,
     <1>12, <1>13, <1>14, <1>15, <1>16, <1>17, <1>18, <1>19 DEF Next, Main

----------------------------------------------------------------------------
(* The shutdown.                                                            *)

\* Every service whose Close waits, and every worker, stops when told to: only
\* a service that Manager.Wait alone waits for may take longer.
StopsWhenTold == NonCooperative \cap (Waiting \cup Stop!Workers) = {}

\* Once the workers have been given up or have ended.
Finishing == {"join", "flush", "closeStore", "stopped"}

\* The database outlives its users or the budget.
StoreInv ==
    /\ now \in Nat
    /\ pc \in Finishing => running = {} \/ now >= TotalBudget
    /\ database = FALSE => pc = "stopped"
    /\ database \in BOOLEAN

\* No time passes before the workers are waited for, nor after their budget
\* until the final flush.
ClockInv ==
    /\ pc \in {"serving", "close", "closing", "workers", "drain"} \cup Finishing
    /\ pc = "closing" => Inbounds[closing] \in told
    /\ pc \in {"serving", "close", "closing"} => now = 0 /\ running = {}
    /\ pc \in {"workers", "drain"} => now <= WorkerBudget
    /\ running \subseteq Stop!Workers
    /\ final \in Int /\ final <= WorkerBudget
    /\ pc # "stopped" => now <= TotalBudget

LEMMA BudgetTypes ==
    /\ WorkerBudget \in Nat /\ TotalBudget \in Nat /\ MaxNow \in Nat
    /\ WorkerBudget < TotalBudget
  BY ProcessAssumption DEF Stop!ShutdownAssumption

\* Only StopTraffic leads to the end, and running only shrinks after it.
LEMMA StoreStep ==
    ASSUME StoreInv, [Stop!Next]_stopVars
    PROVE  StoreInv'
<1>1. CASE Stop!Begin
  BY <1>1 DEF Stop!Begin, StoreInv, Finishing
<1>2. CASE Stop!CloseService
  BY <1>2 DEF Stop!CloseService, StoreInv, Finishing
<1>3. CASE Stop!ServiceClosed
  BY <1>3 DEF Stop!ServiceClosed, StoreInv, Finishing
<1>4. CASE Stop!StartWorkers
  BY <1>4 DEF Stop!StartWorkers, StoreInv, Finishing
<1>5. CASE Stop!EndWorkerPhase
  BY <1>5 DEF Stop!EndWorkerPhase, StoreInv, Finishing
<1>6. CASE Stop!StopTraffic
  BY <1>6 DEF Stop!StopTraffic, Stop!Drained, Stop!WorkersDone, StoreInv,
     Finishing
<1>7. CASE Stop!Join
  BY <1>7 DEF Stop!Join, StoreInv, Finishing
<1>8. CASE Stop!FinalFlush
  BY <1>8 DEF Stop!FinalFlush, StoreInv, Finishing
<1>9. CASE Stop!CloseStore
  BY <1>9 DEF Stop!CloseStore, StoreInv, Finishing
<1>10. CASE Stop!PeriodicEnds
  BY <1>10 DEF Stop!PeriodicEnds, StoreInv
<1>11. CASE Stop!Tick
  BY SMT, <1>11, BudgetTypes DEF Stop!Tick, StoreInv
<1>12. ASSUME NEW s \in Stop!Services, Stop!HandlersEnd(s) PROVE StoreInv'
  BY <1>12 DEF Stop!HandlersEnd, StoreInv
<1>13. ASSUME NEW w \in Stop!Workers, Stop!WorkerEnds(w) PROVE StoreInv'
  BY <1>13 DEF Stop!WorkerEnds, StoreInv
<1>14. CASE UNCHANGED stopVars
  BY <1>14 DEF stopVars, StoreInv
<1> QED
  BY SMT, <1>1, <1>2, <1>3, <1>4, <1>5, <1>6, <1>7, <1>8, <1>9, <1>10, <1>11,
     <1>12, <1>13, <1>14
  DEF Stop!Next, Stop!MainStep

\* When time may pass: never while run or a service it waits for can proceed.
LEMMA TickWaits ==
    ASSUME StopsWhenTold, StoreInv, ClockInv, Stop!Tick
    PROVE  \/ pc = "workers" /\ now < WorkerBudget
           \/ pc \in {"join", "flush"} /\ now < TotalBudget
<1>1. ~Stop!Prompt /\ pc \notin {"serving", "stopped"}
  BY DEF Stop!Tick
<1>2. pc \notin {"close", "closeStore"}
  BY <1>1 DEF Stop!Prompt
<1>3. pc # "closing"
  <2> SUFFICES ASSUME pc = "closing" PROVE FALSE
    OBVIOUS
  <2>1. Stop!CloseWaits(Inbounds[closing])
    BY <1>1 DEF Stop!Prompt
  <2>2. Inbounds[closing] \in told \cap busy /\ Inbounds[closing] \notin NonCooperative
    BY <2>1 DEF Stop!CloseWaits, ClockInv, StopsWhenTold
  <2> QED
    BY <1>1, <2>2 DEF Stop!Prompt
<1>4. pc # "drain"
  <2> SUFFICES ASSUME pc = "drain" PROVE FALSE
    OBVIOUS
  <2>1. running # {}
    BY <1>1 DEF Stop!Prompt, Stop!Drained, Stop!WorkersDone
  <2>2. Stop!WorkerCtxDone
    BY DEF Stop!WorkerCtxDone
  <2>3. PICK w \in running : w \in Stop!Workers
    BY <2>1 DEF ClockInv
  <2>4. w \notin NonCooperative /\ Stop!MayEnd(w)
    BY <2>2, <2>3 DEF StopsWhenTold, Stop!MayEnd
  <2> QED
    BY <1>1, <2>2, <2>3, <2>4 DEF Stop!Prompt
<1>5. pc = "workers" => now < WorkerBudget
  BY SMT, <1>1, BudgetTypes DEF Stop!Prompt, Stop!WorkerPhaseOver, StoreInv
<1>6. pc \in {"join", "flush"} => now < TotalBudget
  BY SMT, <1>1, BudgetTypes DEF Stop!Prompt, Stop!FinalCtxDone, StoreInv
<1>7. pc \in {"workers", "join", "flush"}
  BY <1>1, <1>2, <1>3, <1>4 DEF ClockInv, Finishing
<1> QED
  BY <1>5, <1>6, <1>7

LEMMA ClockStep ==
    ASSUME StopsWhenTold, StoreInv, ClockInv, [Stop!Next]_stopVars
    PROVE  ClockInv'
<1>1. CASE Stop!Begin
  BY <1>1 DEF Stop!Begin, ClockInv, Finishing
<1>2. CASE Stop!CloseService
  BY <1>2 DEF Stop!CloseService, ClockInv, Finishing
<1>3. CASE Stop!ServiceClosed
  BY <1>3 DEF Stop!ServiceClosed, ClockInv, Finishing
<1>4. CASE Stop!StartWorkers
  BY SMT, <1>4, BudgetTypes DEF Stop!StartWorkers, ClockInv, Finishing
<1>5. CASE Stop!EndWorkerPhase
  BY <1>5 DEF Stop!EndWorkerPhase, ClockInv, Finishing
<1>6. CASE Stop!StopTraffic
  BY SMT, <1>6 DEF Stop!StopTraffic, ClockInv, StoreInv, Finishing
<1>7. CASE Stop!Join
  BY <1>7 DEF Stop!Join, ClockInv, Finishing
<1>8. CASE Stop!FinalFlush
  BY <1>8 DEF Stop!FinalFlush, ClockInv, Finishing
<1>9. CASE Stop!CloseStore
  BY <1>9 DEF Stop!CloseStore, ClockInv, Finishing
<1>10. CASE Stop!PeriodicEnds
  BY <1>10 DEF Stop!PeriodicEnds, ClockInv
<1>11. CASE Stop!Tick
  <2>1. /\ now' = now + 1 /\ now \in Nat
        /\ UNCHANGED <<pc, closing, told, running, final>>
    BY <1>11 DEF Stop!Tick, StoreInv
  <2>2. \/ pc = "workers" /\ now < WorkerBudget
        \/ pc \in {"join", "flush"} /\ now < TotalBudget
    BY <1>11, TickWaits
  <2>3. (pc = "workers" => now' <= WorkerBudget) /\ now' <= TotalBudget
    BY SMT, <2>1, <2>2, BudgetTypes
  <2> QED
    BY <2>1, <2>2, <2>3 DEF ClockInv, Finishing
<1>12. ASSUME NEW s \in Stop!Services, Stop!HandlersEnd(s) PROVE ClockInv'
  BY <1>12 DEF Stop!HandlersEnd, ClockInv
<1>13. ASSUME NEW w \in Stop!Workers, Stop!WorkerEnds(w) PROVE ClockInv'
  BY <1>13 DEF Stop!WorkerEnds, ClockInv
<1>14. CASE UNCHANGED stopVars
  BY <1>14 DEF stopVars, ClockInv
<1> QED
  BY <1>1, <1>2, <1>3, <1>4, <1>5, <1>6, <1>7, <1>8, <1>9, <1>10, <1>11,
     <1>12, <1>13, <1>14
  DEF Stop!Next, Stop!MainStep
----------------------------------------------------------------------------
\* A step of the process is a step of its start or of its shutdown.
LEMMA ProcessSteps ==
    ASSUME [ProcessNext]_<<vars, stopVars>>
    PROVE  [Next]_vars /\ [Stop!Next]_stopVars
  BY DEF ProcessNext

\* The invariant of the start holds for every set of documents.
THEOREM StartInvariance == ProcessSpec => []StartInv
<1>1. ProcessInit => StartInv
  <2> SUFFICES ASSUME ProcessInit PROVE StartInv
    OBVIOUS
  <2>1. Init
    BY DEF ProcessInit
  <2>2. DocumentInv
    BY <2>1 DEF Init, DocumentInv
  <2>3. Accepted => Validate(config)
    BY <2>1 DEF Init, Accepted
  <2>4. OpenInv
    BY SMT, <2>1 DEF Init, OpenInv, Steps
  <2>5. WatchInv /\ KilledAfterMiss
    <3>1. age = -1 /\ due = 0 /\ missed = FALSE /\ exit = "none"
      BY <2>1 DEF Init
    <3>2. age \in Int /\ ~(age >= 1) /\ ~(age >= 2) /\ due \in 0..2
      BY SMT, <3>1
    <3> QED
      BY <3>1, <3>2 DEF WatchInv, KilledAfterMiss
  <2> QED
    BY <2>2, <2>3, <2>4, <2>5 DEF StartInv
<1>2. StartInv /\ [ProcessNext]_<<vars, stopVars>> => StartInv'
  <2> SUFFICES ASSUME StartInv, [ProcessNext]_<<vars, stopVars>> PROVE StartInv'
    OBVIOUS
  <2>1. [Next]_vars
    BY ProcessSteps
  <2>2. DocumentInv' /\ (Accepted => Validate(config))'
    BY <2>1, DocumentStep DEF StartInv
  <2>3. OpenInv'
    BY <2>1, OpenStep DEF StartInv
  <2>4. WatchInv' /\ KilledAfterMiss'
    BY <2>1, WatchStep DEF StartInv
  <2> QED
    BY <2>2, <2>3, <2>4 DEF StartInv
<1> QED
  BY <1>1, <1>2, PTL DEF ProcessSpec

\* cleanupConstructed closes everything, at whatever step the start fails.
THEOREM FailedTheorem == ProcessSpec => []FailedStartReleases
<1>1. StartInv => FailedStartReleases
  BY DEF StartInv, OpenInv, FailedStartReleases
<1> QED
  BY <1>1, StartInvariance, PTL

\* systemd's watchdog ends only a gateway with a heartbeat that was late or not
\* sent: a check in each half period is enough while all of them are.
THEOREM WatchdogTheorem == ProcessSpec => []KilledAfterMiss
<1>1. StartInv => KilledAfterMiss
  BY DEF StartInv
<1> QED
  BY <1>1, StartInvariance, PTL

\* The inbounds of every document are a list, those of a migrated one too.
LEMMA DocumentsListed ==
    ASSUME DocumentInv
    PROVE  Listed(config)
<1>1. CASE config \in Configs
  <2>1. Len(config.inbounds) \in Nat /\ DOMAIN config.inbounds = 1..Len(config.inbounds)
    BY <1>1, DocumentAssumption
  <2> QED
    BY <2>1 DEF Listed
<1>2. ASSUME NEW l \in Legacies, config = Migrated(l) PROVE Listed(config)
  <2>1. config.inbounds = MigratedInbounds(l)
    BY <1>2 DEF Migrated
  <2>2. \E S : MigratedInbounds(l) \in Seq(S)
    <3>1. PICK a, b : \/ MigratedInbounds(l) = <<a>> \o << >>
                      \/ MigratedInbounds(l) = <<a>> \o <<b>>
      <4> DEFINE hysteria ==
                   [name |-> "hy2-public", type |-> Hysteria2,
                    listen |-> IF l.listen = {} THEN Addr("", 443) ELSE The(l.listen),
                    quic |-> l.quic, masquerade |-> l.masquerade, trojan |-> {}]
                 trojan ==
                   [name |-> "trojan-public", type |-> Trojan,
                    listen |-> The(The(l.trojan).listen),
                    quic |-> {}, masquerade |-> {}, trojan |-> {}]
      <4>1. MigratedInbounds(l) = <<hysteria>> \o IF \A t \in l.trojan : t.listen = {}
                                                  THEN << >> ELSE <<trojan>>
        BY DEF MigratedInbounds
      <4> HIDE DEF hysteria, trojan
      <4> QED
        BY <4>1
    <3>2. <<a>> \in Seq({a, b}) /\ << >> \in Seq({a, b}) /\ <<b>> \in Seq({a, b})
      BY SMT
    <3>3. MigratedInbounds(l) \in Seq({a, b})
      BY <3>1, <3>2, ConcatProperties
    <3> QED
      BY <3>3
  <2>3. PICK S : MigratedInbounds(l) \in Seq(S)
    BY <2>2
  <2>4. /\ Len(config.inbounds) \in Nat
        /\ DOMAIN config.inbounds = 1..Len(config.inbounds)
    BY <2>1, <2>3, LenProperties
  <2> QED
    BY <2>4 DEF Listed
<1> QED
  BY <1>1, <1>2 DEF DocumentInv

\* No step of the start is certain to fail once validate accepted the document
\* and the administration service fits: Validate compared every other pair.
LEMMA GoesOn ==
    ASSUME OpenInv, Listed(config), Accepted => Validate(config)
    PROVE  StartGoesOn
<1> SUFFICES ASSUME AdminFits(config), exit = "none"
             PROVE  /\ step = "sub" => \A a \in Subs(config) : ~Held("tcp", a)
                    /\ step = "inbounds" /\ next <= Len(config.inbounds) =>
                         /\ Constructs(config.inbounds[next])
                         /\ ~Held(IF config.inbounds[next].type = Trojan THEN "tcp" ELSE "udp",
                                  config.inbounds[next].listen)
  BY DEF StartGoesOn, At
<1>1. ASSUME step = "sub", NEW a \in Subs(config) PROVE ~Held("tcp", a)
  <2>1. ListenersDistinct(config)
    BY <1>1, ValidDistinct DEF Accepted
  <2>2. PICK x : x = <<Sub, "tcp", a>>
    OBVIOUS
  <2>3. x \in Listeners(config)
    BY <2>2 DEF Listeners
  <2>4. x[1] = Sub /\ x[2] = "tcp" /\ x[3] = a
    BY <2>2
  <2>5. Sub # Admin
    BY DEF Sub, Admin
  <2>6. Sub \notin bound
    BY <1>1, <2>5 DEF OpenInv
  <2> QED
    BY <2>1, <2>3, <2>4, <2>5, <2>6, NotHeld
<1>2. ASSUME step = "inbounds", next <= Len(config.inbounds)
      PROVE  /\ Constructs(config.inbounds[next])
             /\ ~Held(IF config.inbounds[next].type = Trojan THEN "tcp" ELSE "udp",
                      config.inbounds[next].listen)
  <2>1. Validate(config)
    BY <1>2 DEF Accepted
  <2>2. ListenersDistinct(config)
    BY <2>1, ValidDistinct
  <2>3. next \in DOMAIN config.inbounds
    BY SMT, <1>2 DEF OpenInv, Listed
  <2>4. PICK x : x = <<Inbound(next), IF config.inbounds[next].type = Trojan THEN "tcp" ELSE "udp",
                       config.inbounds[next].listen>>
    OBVIOUS
  <2>5. x \in Listeners(config)
    BY <2>3, <2>4 DEF Listeners
  <2>6. x[1] = Inbound(next) /\ x[3] = config.inbounds[next].listen
        /\ x[2] = IF config.inbounds[next].type = Trojan THEN "tcp" ELSE "udp"
    BY <2>4
  <2>7. Inbound(next) # Admin /\ Inbound(next) \notin Before(next)
    <3>1. next \notin 1..(next - 1)
      BY SMT DEF OpenInv
    <3>2. \A i, j : Inbound(i) = Inbound(j) => i = j
      BY SMT DEF Inbound
    <3>3. Inbound(next) # Admin /\ Inbound(next) # Sub
      BY SMT DEF Inbound, Admin, Sub
    <3> QED
      BY <3>1, <3>2, <3>3 DEF Before
  <2>8. Inbound(next) \notin bound
    BY <1>2, <2>7 DEF OpenInv
  <2>9. ~Held(x[2], x[3])
    BY <2>2, <2>5, <2>6, <2>7, <2>8, NotHeld
  <2>10. Constructs(config.inbounds[next])
    BY <2>1, <2>3, ValidConstructs
  <2> QED
    BY <2>6, <2>9, <2>10
<1> QED
  BY <1>1, <1>2

\* Whatever validate accepts and whose administration service fits can be
\* bound, constructed and published, and the clients of a migrated gateway
\* still find theirs.
THEOREM ServesTheorem == ProcessSpec => []AcceptedServes
<1>1. StartInv => AcceptedServes
  <2> SUFFICES ASSUME StartInv PROVE AcceptedServes
    OBVIOUS
  <2>1. Listed(config) /\ (Accepted => Validate(config))
    BY DocumentsListed DEF StartInv
  <2>2. StartGoesOn
    BY <2>1, GoesOn DEF StartInv
  <2>3. SubscriptionEndpointsFound
    BY <2>1, ValidEndpoints DEF SubscriptionEndpointsFound
  <2>4. MigrationKeepsClients
    <3> SUFFICES ASSUME NEW l \in legacy, NEW s \in l.sub
                 PROVE  \E t \in config.sub : \E i \in DOMAIN ClientEndpoints(t) :
                            ClientEndpoints(t)[i] = Endpoint("hy2-public", The(s.serverAddr))
      BY DEF MigrationKeepsClients
    <3>1. config = Migrated(l)
      BY DEF StartInv, DocumentInv
    <3> QED
      BY <3>1, MigratedPublishes
  <2> QED
    BY <2>2, <2>3, <2>4 DEF AcceptedServes
<1> QED
  BY <1>1, StartInvariance, PTL

\* Whatever does not stop, CloseStore comes after the last worker or after the
\* whole budget.
THEOREM StoreTheorem == ProcessSpec => []StoreInv /\ []Stop!StoreOutlivesWorkers
<1>1. ProcessInit => StoreInv
  BY SMT DEF ProcessInit, Stop!Init, StoreInv, Finishing
<1>2. StoreInv /\ [ProcessNext]_<<vars, stopVars>> => StoreInv'
  BY ProcessSteps, StoreStep
<1>3. StoreInv => Stop!StoreOutlivesWorkers
  BY DEF StoreInv, Stop!StoreOutlivesWorkers, Finishing
<1> QED
  BY <1>1, <1>2, <1>3, PTL DEF ProcessSpec

\* The whole shutdown keeps its budgets if what its Close calls and its workers
\* wait for stops when told to.  The service that only Manager.Wait waits for
\* may take any time.
THEOREM BudgetsTheorem ==
    ASSUME StopsWhenTold
    PROVE  ProcessSpec => []BudgetsKept
<1>1. ProcessInit => ClockInv
  BY SMT, BudgetTypes DEF ProcessInit, Stop!Init, ClockInv, Finishing
<1>2. StoreInv /\ ClockInv /\ [ProcessNext]_<<vars, stopVars>> => ClockInv'
  BY ProcessSteps, ClockStep
<1>3. StoreInv /\ ClockInv /\ Stop!StoreOutlivesWorkers => BudgetsKept
  BY DEF ClockInv, BudgetsKept, Stop!FinalizationReserved,
     Stop!ShutdownWithinBudget
<1> QED
  BY <1>1, <1>2, <1>3, StoreTheorem, PTL DEF ProcessSpec
=============================================================================
