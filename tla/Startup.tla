------------------------------ MODULE Startup ------------------------------
(***************************************************************************)
(* One life of the gateway process (cmd/gateway) up to the decision to     *)
(* stop: the configuration is loaded, the store opened, every listener     *)
(* bound and every service constructed, then the serve loops start and     *)
(* the process waits for a signal or for a loop that ends.  systemd        *)
(* watches it.  What follows the decision is module Shutdown; here the     *)
(* process then ends at once.                                              *)
(*                                                                         *)
(* A listener is <<"admin">>, <<"sub">> or <<"inbound", i>>.  Time is      *)
(* counted in halves of the watchdog's period, and only while the process  *)
(* serves: a start takes less than a period.                               *)
(***************************************************************************)
EXTENDS InboundConfig

CONSTANTS Configs,         \* runtime documents an operator may write
          Legacies,        \* legacy documents an operator may migrate
          Signals          \* whether SIGTERM may arrive

\* The inbounds of a document are a list.
ASSUME DocumentAssumption ==
  \A c \in Configs : Len(c.inbounds) \in Nat /\ DOMAIN c.inbounds = 1..Len(c.inbounds)

VARIABLES config,          \* the runtime document
          legacy,          \* the legacy document it was generated from, if any
          step,            \* where runGatewayContext is
          next,            \* the inbound to construct next
          store,           \* the database is open
          bound,           \* listeners that are open
          loops,           \* listeners whose serve loop runs
          errs,            \* errors in httpErrCh and inboundErrCh
          ping,            \* the database answers
          due,             \* ticks of the watchdog: one being served, one in the ticker's channel
          age,             \* half periods since the last heartbeat, -1 if systemd does not watch
          missed,          \* history: a heartbeat was late or not sent since the last one
          exit             \* how the process ended, "none" while it runs

vars == <<config, legacy, step, next, store, bound, loops, errs, ping, due, age, missed, exit>>
watch == <<ping, due, age, missed>>
----------------------------------------------------------------------------
Admin == <<"admin">>
Sub == <<"sub">>
Inbound(i) == <<"inbound", i>>

Subs(c) == UNION {s.listen : s \in c.sub}

\* The listeners a document configures, as <<listener, transport, address>>.
Listeners(c) ==
  {<<Admin, "tcp", a>> : a \in c.admin} \cup {<<Sub, "tcp", a>> : a \in Subs(c)}
  \cup {<<Inbound(i), IF c.inbounds[i].type = Trojan THEN "tcp" ELSE "udp", c.inbounds[i].listen>> :
          i \in DOMAIN c.inbounds}

(* What the sockets decide, independently of the code: the interfaces of a  *)
(* host.  A name may resolve to any of them.  Whether the wildcard of one   *)
(* family also takes the other (dual stack) depends on the host: not        *)
(* certain, and left to the bind, as a name is.                             *)
Interfaces == {"127.0.0.1", "192.0.2.1", "::1"}
Resolutions(host) ==
  CASE host = "" -> {Interfaces}
    [] host = "0.0.0.0" -> {Interfaces \cap V4}
    [] host = "::" -> {Interfaces \cap V6}
    [] host \in Interfaces -> {{host}}
    [] OTHER -> (SUBSET Interfaces) \ {{}}

\* The addresses overlap however names resolve.
Clash(x, y) ==
  LET a == Normalized(x.host)
      b == Normalized(y.host)
  IN  /\ x.port = y.port
      /\ a = b \/ \A r \in Resolutions(a), s \in Resolutions(b) : r \cap s # {}

\* Another socket of the gateway holds the address for certain.
Held(transport, addr) ==
  \E l \in Listeners(config) : l[1] \in bound /\ l[2] = transport /\ Clash(l[3], addr)
----------------------------------------------------------------------------
Init ==
  /\ \/ config \in Configs /\ legacy = {}
     \/ \E l \in Legacies :
          MigrateLegacyInbounds(l) /\ config = Migrated(l) /\ legacy = {l}
  /\ step = "config"
  /\ next = 1
  /\ store = FALSE
  /\ bound = {}
  /\ loops = {}
  /\ errs = {}
  /\ ping = TRUE
  /\ due = 0
  /\ age = -1
  /\ missed = FALSE
  /\ exit = "none"

At(s) == step = s /\ exit = "none"

Goto(s) == step' = s /\ UNCHANGED <<config, legacy, exit>> /\ UNCHANGED watch

Fail == exit' = "error" /\ UNCHANGED <<config, legacy, step>> /\ UNCHANGED watch

LoadRuntime ==
  /\ At("config")
  /\ \/ Validate(config) /\ Goto("store")
     \/ Fail
  /\ UNCHANGED <<next, store, bound, loops, errs>>

OpenStore ==
  /\ At("store")
  /\ \/ Goto("snapshot") /\ store' = TRUE
     \/ Fail /\ UNCHANGED store
  /\ UNCHANGED <<next, bound, loops, errs>>

LoadRuntimeSnapshot ==
  /\ At("snapshot")
  /\ \/ Goto("tls") /\ UNCHANGED store
     \/ Fail /\ store' = FALSE
  /\ UNCHANGED <<next, bound, loops, errs>>

LoadTLS ==
  /\ At("tls")
  /\ \/ Goto("admin") /\ UNCHANGED store
     \/ Fail /\ store' = FALSE
  /\ UNCHANGED <<next, bound, loops, errs>>

\* Mutant: the HTTP listeners are left open.
CleanupInboundsOnly == store' = FALSE /\ bound' = bound \cap {Admin, Sub}

CleanupConstructed == store' = FALSE /\ bound' = {}

Abort == Fail /\ CleanupConstructed

\* Listen and go on, or fail because another socket has the address.
Listen(l, transport, addr, then) ==
  \/ ~Held(transport, addr) /\ Goto(then) /\ bound' = bound \cup {l} /\ UNCHANGED store
  \/ Abort

BindAdmin ==
  /\ At("admin")
  /\ IF config.admin = {} THEN Goto("sub") /\ UNCHANGED <<store, bound>>
     ELSE IF ~IsLoopbackListen(The(config.admin)) THEN Abort
     ELSE Listen(Admin, "tcp", The(config.admin), "sub")
  /\ UNCHANGED <<next, loops, errs>>

BindSub ==
  /\ At("sub")
  /\ IF Subs(config) = {} THEN Goto("inbounds") /\ UNCHANGED <<store, bound>>
     ELSE Listen(Sub, "tcp", The(Subs(config)), "inbounds")
  /\ UNCHANGED <<next, loops, errs>>

\* Config.fill of the Hysteria2 server.
Fill(quic) ==
  /\ \A w \in quic.windows : w # 0 => w >= 16384
  /\ quic.idle # 0 => 4000 <= quic.idle /\ quic.idle <= 120000
  /\ quic.streams # 0 => quic.streams >= 8

NewMasquerade(masquerade) == masquerade.type = "proxy" /\ masquerade.proxy # {}

\* NewService of either protocol, its socket aside.
NewHysteria2Service(b) == (\A m \in b.masquerade : NewMasquerade(m)) /\ (\A q \in b.quic : Fill(q))
NewTrojanService(b) == \A t \in b.trojan : \A f \in t.fallback : WithDefaultsOK(f)

Constructs(b) ==
  CASE b.type = Hysteria2 -> NewHysteria2Service(b)
    [] b.type = Trojan -> NewTrojanService(b)
    [] OTHER -> FALSE

NewService ==
  /\ At("inbounds") /\ next <= Len(config.inbounds)
  /\ LET b == config.inbounds[next]
         transport == IF b.type = Trojan THEN "tcp" ELSE "udp"
     IN  IF Constructs(b) THEN Listen(Inbound(next), transport, b.listen, "inbounds") ELSE Abort
  /\ next' = next + 1
  /\ UNCHANGED <<loops, errs>>

\* Warmup waits for the nodes at most 10 seconds; its failure is only logged.
Warmup ==
  /\ At("inbounds") /\ next > Len(config.inbounds)
  /\ Goto("start")
  /\ UNCHANGED <<next, store, bound, loops, errs>>

Start ==
  /\ At("start")
  /\ Goto("record")
  /\ loops' = bound
  /\ UNCHANGED <<next, store, bound, errs>>

Watchdog == \E s \in config.systemd : s.watchdog

\* StartProcessRun and SetActiveRevision, whose failures are logged; then the
\* watchdog, unless WATCHDOG_USEC is unset.  The start may have taken half a period.
Record ==
  /\ At("record")
  /\ step' = "serving"
  /\ \/ age' = -1 /\ UNCHANGED missed
     \/ Watchdog /\ age' = 0 /\ missed' = FALSE
     \/ Watchdog /\ age' = 1 /\ missed' = TRUE
  /\ UNCHANGED <<config, legacy, next, store, bound, loops, errs, ping, due, exit>>
----------------------------------------------------------------------------
\* Mutant: a serve loop that returns nil is not reported.
ReportsErrors(l, err) == IF err THEN errs \cup {l} ELSE errs

\* inbound.Manager turns a nil into an error; Serve of http.Server never returns nil.
Reports(l, err) == errs \cup {l}

\* A serve loop ends, with or without an error.
LoopEnds(l) ==
  /\ l \in loops /\ exit = "none"
  /\ loops' = loops \ {l}
  /\ \E err \in BOOLEAN : (l \in {Admin, Sub} => err) /\ errs' = Reports(l, err)
  /\ UNCHANGED <<config, legacy, step, next, store, bound, exit>> /\ UNCHANGED watch

\* The select of runGatewayContext, and the shutdown it leads to.
Ends(how) ==
  /\ exit' = how
  /\ bound' = {} /\ loops' = {} /\ store' = FALSE
  /\ UNCHANGED <<config, legacy, step, next, errs>> /\ UNCHANGED watch

ServiceError == At("serving") /\ errs # {} /\ Ends("error")

Signal == At("serving") /\ Signals /\ Ends("signal")
----------------------------------------------------------------------------
\* Mutant: a heartbeat per period.
WholePeriod == 2

\* WatchdogInterval, in half periods.
WatchdogInterval == 1

Watching == At("serving") /\ age >= 0

\* Half a period passes, also while Ping, which has no deadline, still waits.
Tick ==
  /\ Watching /\ age < 2
  /\ age' = age + 1
  /\ due' = IF (age + 1) % WatchdogInterval = 0 /\ due < 2 THEN due + 1 ELSE due
  /\ missed' = (missed \/ due > 0)
  /\ UNCHANGED <<config, legacy, step, next, store, bound, loops, errs, ping, exit>>

Healthy == ping

\* Ping returns; Notify may fail, which is only logged.  The serving flag is true
\* here: it is cleared only after the select.
RunWatchdog ==
  /\ Watching /\ due > 0
  /\ due' = due - 1
  /\ \/ Healthy /\ age' = 0 /\ missed' = FALSE
     \/ missed' = TRUE /\ UNCHANGED age
  /\ UNCHANGED <<config, legacy, step, next, store, bound, loops, errs, ping, exit>>

\* systemd ends a process without a heartbeat for a whole period.
WatchdogKills ==
  /\ Watching /\ age >= 2
  /\ Ends("watchdog")

DatabaseFails ==
  /\ Watching /\ ping
  /\ ping' = FALSE
  /\ UNCHANGED <<config, legacy, step, next, store, bound, loops, errs, due, age, missed, exit>>

DatabaseRecovers ==
  /\ Watching /\ ~ping
  /\ ping' = TRUE
  /\ UNCHANGED <<config, legacy, step, next, store, bound, loops, errs, due, age, missed, exit>>
----------------------------------------------------------------------------
Main == LoadRuntime \/ OpenStore \/ LoadRuntimeSnapshot \/ LoadTLS \/ BindAdmin \/ BindSub
          \/ NewService \/ Warmup \/ Start \/ Record \/ ServiceError

Next == \/ Main
        \/ \E l \in bound : LoopEnds(l)
        \/ Signal
        \/ Tick \/ RunWatchdog \/ WatchdogKills \/ DatabaseFails \/ DatabaseRecovers

Spec == Init /\ [][Next]_vars

\* The main goroutine, time and systemd run; nothing is assumed of signals, of a
\* loop's end, or of the database, which may leave a Ping without an answer.
Fairness == WF_vars(Main) /\ WF_vars(Tick) /\ WF_vars(WatchdogKills)

FairSpec == Spec /\ Fairness
----------------------------------------------------------------------------
\* subscriptionEndpoints, asked when a client fetches its subscription.
SubscriptionEndpointOK(c, e) ==
  /\ \E i \in DOMAIN c.inbounds :
       c.inbounds[i].name = e.inbound /\ c.inbounds[i].type \in {Hysteria2, Trojan}
  /\ e.serverAddr.host \notin {"", "0.0.0.0", "::"}
  /\ e.serverAddr.port # 0

Accepted == step # "config"

(* A start that fails, at whatever step, leaves no listener and no database *)
(* open: cleanupConstructed closes what was constructed before.            *)
FailedStartReleases == exit = "error" => bound = {} /\ ~store

(* The rule of the design for listeners: the inbounds, the administration   *)
(* and the subscription service of one transport all take part in the       *)
(* conflict check, so an accepted document has no certain conflict.         *)
ConflictsReported ==
  Accepted => \A x, y \in Listeners(config) :
    x[1] # y[1] /\ x[2] = y[2] => ~Clash(x[3], y[3])

(* validate does not compare the administration service with the inbounds,  *)
(* and normalizes a host ("LOCALHOST.") that isLoopbackListen then reads as *)
(* written.                                                                 *)
AdminFits(c) ==
  \A a \in c.admin :
    /\ IsLoopbackListen(a)
    /\ \A i \in DOMAIN c.inbounds : c.inbounds[i].type = Trojan => ~Clash(a, c.inbounds[i].listen)

(* If the administration service fits, no step of the start of an accepted  *)
(* document is certain to fail: neither for an address that an earlier      *)
(* listener of the document already has, nor in a constructor.              *)
StartGoesOn ==
  AdminFits(config) =>
    /\ At("sub") => \A a \in Subs(config) : ~Held("tcp", a)
    /\ At("inbounds") /\ next <= Len(config.inbounds) =>
         LET b == config.inbounds[next]
         IN  Constructs(b) /\ ~Held(IF b.type = Trojan THEN "tcp" ELSE "udp", b.listen)

(* subscriptionEndpoints finds a configured inbound and a host and port a   *)
(* client can reach for every endpoint of an accepted document.             *)
SubscriptionEndpointsFound ==
  Accepted => \A s \in config.sub : \A i \in DOMAIN ClientEndpoints(s) :
    SubscriptionEndpointOK(config, ClientEndpoints(s)[i])

(* A migrated document still publishes the address that the clients of the *)
(* legacy gateway use, for Hysteria2.                                       *)
MigrationKeepsClients ==
  \A l \in legacy : \A s \in l.sub : \E t \in config.sub : \E i \in DOMAIN ClientEndpoints(t) :
    ClientEndpoints(t)[i] = Endpoint("hy2-public", The(s.serverAddr))

(* An accepted document whose administration service fits (see AdminFits:   *)
(* validate does not ensure that) can be served: no listener of its own     *)
(* keeps another from its address and no constructor refuses what validate  *)
(* accepted; its endpoints can be published, and after a migration the      *)
(* clients of the legacy gateway still find theirs.                         *)
AcceptedServes == StartGoesOn /\ SubscriptionEndpointsFound /\ MigrationKeepsClients

(* systemd's watchdog ends only a gateway that missed a heartbeat: since    *)
(* the last one a check failed or took half a period, its notification was  *)
(* not sent, or the start itself took that long.  While every check passes  *)
(* in time and is reported, two of them fit into a period.                  *)
KilledAfterMiss == exit = "watchdog" => missed

(* A gateway whose database fails for good is ended, so that systemd can    *)
(* restart it.                                                              *)
SickIsEnded == <>[](~ping) => <>(exit # "none")

(* A serve loop that ends, of an inbound or of an HTTP service, with or     *)
(* without an error and at whatever point after the start, ends the process *)
(* so that systemd can restart it.                                          *)
EndedLoopEndsProcess ==
  \A l \in {Admin, Sub, Inbound(1), Inbound(2)} :
    (l \in bound /\ step \in {"record", "serving"} /\ l \notin loops) ~> (exit # "none")
=============================================================================
