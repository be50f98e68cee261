# A TLA+ model of the proxy gateway

This directory specifies the concurrent core of the gateway in TLA+, checks it
with TLC on small instances and proves the main results with TLAPS for every
instance. Paths below are relative to the repository's root.

## The system

One Go process accepts proxy clients, forwards their streams to upstream
Hysteria2 nodes (or directly), meters every payload per user and node, and
serves an admin panel. SQLite is the only persistent state.

| Part | State | Operations that change it |
|---|---|---|
| Traffic accounting, `internal/traffic/logger.go` | cached month usage, pending records, counters, `flushMu`/`usageMu`, limiter timelines, stop flags | `LogTrafficContext`, `FlushContext`, `ensureMonthlyUsage`, `limitDownloadContext`, `UpdateUsers`, `StopAdmission`, `StopContext` |
| Policy kernel and authenticator, `internal/policy`, `internal/auth` | published user snapshot, sessions | `Authenticate`, `UpdateUsers` (hot refresh), `Connected`/`Disconnected`, `StartRequest`/`StopRequest` |
| Session tracker, `internal/connection` | sessions and their requests | `ConnectSession`, `DisconnectSession`, `StartRequest`, `StopRequest` |
| Outbound nodes, `internal/outbound` | per node: client, readiness, reconnect token | `run` (connect, retry, wait), `markUnavailable`, `TCPContext`, `UDPContext`, `Close` |
| Hysteria2 server and client, `third_party/hysteria-core` | connections, streams, UDP sessions, fragments | handlers of the server, `udpSessionManager`, `Defragger` |
| Trojan inbound, `internal/inbound/trojan` | admitted handlers, upstream registrations, fallback slots | `Serve`, `handle`, `Close`, relay loops |
| Inbound manager, `internal/inbound` | services | `Start`, `Close`, `Wait` |
| Control-plane store, `internal/storage` | users, routes, nodes, revisions, restart jobs, process runs | create/update/delete of users and nodes, migration, restart jobs, process records |
| Admin and subscription HTTP, `internal/api` | none of its own besides login sessions | forms that read and then write the store |
| Gateway process, `cmd/gateway` | serving flag, workers | startup, watchdog, restart scheduler, policy refresh, shutdown |
| Configuration, `internal/config`, `internal/migration` | files | parsing, validation and migration |

How they interact: an inbound authenticates a client with the kernel, opens an
upstream through the outbound factory and reports every payload to the traffic
logger before forwarding it. The refresh loop reads users from the store and
publishes them through the kernel, which wakes reservations in the limiter. The
admin panel writes the store and flushes the logger before it shows traffic. At
the end the process stops admission, closes inbounds, outbounds and HTTP
servers, flushes what was metered and closes the store.

What is hard here: a database read that races with a flush of the same bytes;
flushes that fail half way through a busy second; a policy that is published
while a payload waits in the limiter; a month that ends between two reads of the
clock; a node connection that fails while a newer one is already installed; a
UDP session that is closed between its lookup and its use; admin requests that
read, think and write; a shutdown that must not outlive its deadline and must
not lose what was metered; process exits at any point of all this.

## Modules

| Module | Models |
|---|---|
| `TrafficLogger` | `internal/traffic/logger.go` and the transaction of `internal/storage/sqlite.go` |
| `TrafficLedger` | what the traffic component promises, abstractly |
| `DownloadLimiter` | the timelines of `limitDownloadContext` in `internal/traffic/logger.go` |
| `OutboundNodes` | `internal/outbound/factory.go` |
| `TrojanService` | `internal/inbound/trojan/service.go` and `fallback.go` |
| `TrojanProtocol` | `internal/inbound/trojan/protocol.go` and the use `handle` makes of it |
| `HysteriaServer` | `third_party/hysteria-core/server/server.go` with the adapter in `internal/inbound/hysteria2` |
| `UDPSessions` | `third_party/hysteria-core/server/udp.go` |
| `Fragments` | `third_party/hysteria-core/internal/frag/frag.go` with the sender of `server/udp.go` |
| `Tracker` | operators of `internal/connection/tracker.go` and the online count |
| `SessionRegistry` | what both inbounds promise the policy kernel, abstractly |
| `ControlPlane` | users, nodes and routes: `internal/storage`, the forms of `internal/api`, `internal/policy`, `internal/auth`, subscriptions |
| `RestartJobs` | restart jobs and process records of `internal/storage/management.go`, with the scheduler |
| `InboundConfig` | operators of `internal/config`: validation, defaults, migration |
| `Startup` | `run` in `cmd/gateway/main.go` up to the decision to stop, the watchdog, `internal/inbound/manager.go` |
| `Shutdown` | the end of `run`, with `internal/inbound/manager.go` |
| `Process` | `Startup` followed by `Shutdown` |
| `TrafficLoggerProofs`, `OutboundNodesProofs`, `TrojanServiceProofs`, `FormatsProofs`, `HysteriaProofs`, `ControlPlaneProofs`, `RestartJobsProofs`, `ProcessProofs` | the theorems, with their inductive invariants and proofs; `OutboundNodesProofs` is about `DownloadLimiter` as well, `FormatsProofs` about `TrojanProtocol`, `HysteriaProofs` about `HysteriaServer` and `UDPSessions`, `ProcessProofs` about `Startup`, `InboundConfig` and `Shutdown` |
| `MC...` | finite instances of these for TLC; `MCHysteria` holds two modules side by side, `MCFormats` three; `MCDownloadLimiter` and `MCFragments` give `DownloadLimiter` and `Fragments` variables of their own, for the runs and the proofs |

### TrafficLogger

A stream is a goroutine inside `LogTrafficContext`; its call record holds what
the function has in local variables (the policy it read, the month it computed,
the payload). The ledgers `db`, `pending` and the `batch` of a flush are
functions from (user, node, month) to bytes. `flushMu` and `usageMu` are
explicit where a critical section spans several steps (a flush around its
transaction, a month load around its query); a critical section without a
blocking call is one action. Three flushers exist: the periodic goroutine, the
flush of the admin panel's range query and the final one of `StopContext`.
`FlushCommit` and `FlushFails` are the two outcomes of the transaction.
`Restart` is a process exit at any point followed by a new process. Upload and
download of a payload are not told apart except that only a download meets the
limiter; of the limiter only "a reservation waits, its timer fires, or it is
woken" is kept.

### TrafficLedger

Bytes are charged, later persisted, or lost when the process ends. A charge is
never persisted twice, and nothing is lost while a process runs. `TrafficLogger`
implements it (`ImplementsLedger`).

### DownloadLimiter

The streams of a user reserve consecutive intervals on the user's timeline, as
long as the payload takes at the rate, and wait for the start of theirs. A
reservation that is given up returns its interval if it is the last one. A
changed rate resets all timelines (`WakeLimiters`). `granted` keeps the intervals
of the payloads that were let through.

### OutboundNodes

One worker per node (`run`), requests that share the node's client, and the
factory's `Close`. A client is the number of the dial that made it. `open` is
what the gateway has not closed, `up` what the network has not dropped.
`markUnavailable` is three steps, because the lock is released before the client
is closed and the token sent. The choice a `select` makes between a ready
channel and `ctx.Done()` is free. A locally closed association is two steps,
the flag and the close.

### TrojanService, HysteriaServer, Tracker and SessionRegistry

Both inbounds have one process per client connection whose place in the handler
is explicit, and a `Close` that runs against them. What happens under a mutex is
one step; the three events that publish a session (`Connected`, `Online`,
`StartRequest`) and the three that withdraw it are separate steps.
`TrojanService` adds the accept loop, the two kinds of slots and the two copying
goroutines of a relay; parsing appears as its outcome. `HysteriaServer` has
several requests per connection and keeps of the UDP manager its contract, and
that a payload the kernel refuses, of a stream or of a datagram, closes the
connection.
`Tracker` holds the operations on the session table that both use, and
`SessionRegistry` is the order of events they promise: both are shown to
implement it (`ImplementsRegistry`).

### TrojanProtocol

The header is read byte by byte, since the deadline may pass inside any field.
`field` and `buf` are the `io.ReadFull` in progress, `prefix` is the buffer of the
`TeeReader`. `Classify` is the choice of `handle`; then the website gets the
prefix and the rest, the target the rest, or an association its packets. The
reference is `Header`, the client's encoding, and `AppendPacket` for packets.
Field lengths are constants (a credential of 2 bytes instead of 56, domains of
up to 3 instead of 255).

### UDPSessions and Fragments

`UDPSessions` has the three kinds of threads that may close a session and the
two steps of its exit function. `Fragments` is one association's sender, a
network that loses and reorders, and the `Defragger`; packet ids may collide.

### ControlPlane and RestartJobs

The tables are variables; each form is a sequence of steps, one per statement or
transaction, so two administrators interleave between them. A process takes its
snapshot when it starts and merges later lifecycles into it. `RestartJobs` has
the scheduler, systemd's restarts, the records of starts and exits, failures of
the process between any two steps and failing statements.

### InboundConfig and Startup

A document is a record of what decoding yields, an optional field a set of at
most one element. `Startup` takes any document of the instance, validates it,
opens and binds in the order of `run`, and releases everything when a step
fails. After that come the serve loops, systemd's watchdog and a database that
may fail and recover. Time is counted in halves of the watchdog's period. A
check may take any time, as `Ping` has no deadline; the ticker keeps one tick
for later and drops the others. A check that passes may still fail to notify
systemd. `missed` remembers that a heartbeat was late or not sent. Without
`WATCHDOG_USEC` there is no watchdog (`age` is -1); the model takes it that
systemd watches only a unit whose document enables the watchdog. It also takes it
that a start is shorter than a period (`WatchdogSec` is 30 seconds in
`docs/DEPLOYMENT.md`, and the warm-up waits at most 10).

### Shutdown

`run` after the signal, with a discrete clock that starts when the deadlines are
set. Time passes only when nothing prompt is left to do; members of
`NonCooperative` (a service's handlers, the outbounds, the background loops) may
take any time. The database may use all the time its context allows.

### Process

`Startup` until the `select` of `runGatewayContext` returns, then `Shutdown`, in
one behaviour. A process that fails to start or is killed by systemd has no
shutdown. The shutdown depends on the document only through its services, so it
is followed for one document with a Trojan and a Hysteria2 inbound.

## Runs

| Run | Instance | What it shows |
|---|---|---|
| `ledger` | 1 user with a quota, 2 nodes, 2 streams (symmetric), 3 calls, 2 months, one restart; or 1 node and 1 month while quota and rate change twice | usage, conservation, counters, clean stop, quota, the inductive invariant and refinement |
| `ledger_live` | 1 rate-limited user who may be disabled, 1 node, 2 streams, 2 calls, 1 month, one policy update, no restart | calls return, charged bytes are persisted, the stop ends |
| `nodes` | 2 nodes, 1 dial slot, 2 requests; 3 dials of one node, or the last dial of both | one open client, no stale token, private local closes, nothing left after `Close`; evicted nodes redial, `Close` ends |
| `process` | about 9400 documents in three families, direct and migrated; the watchdog, a check that hangs and a failing database with two of them; then the shutdown with a Hysteria2 service whose handlers may hang | accepted documents bind (if the administration service fits), construct and publish; failed starts release; watchdog and ended loops; budgets, order of closing, termination |
| `conflicts` | the documents of `process` with an administration service | violation, see Findings |
| `shutdown_window` | a stuck background loop | violation, see Findings |
| `trojan` | 2 connections, 1 admission slot, 1 website slot; or 1 connection with 2 payloads per direction | slots, late upstreams, charging first, nothing after `Close`, refinement; slots, relays and `Close` end |
| `hysteria` | 2 connections with 2 and 1 requests; or 2 UDP sessions on 2 ids | events, quiet after `Wait`, refinement, sessions and `Close` end; the session map, `Run` terminates |
| `formats` | about 900 client streams, with and without a website; or 4 messages (one beyond the buffer), 2 datagram sizes, 2 packet ids; or 1 user, 2 streams, rates 0 (unlimited), 1 and 2, sizes 1 and 2, 4 ticks, one change of the rate | Trojan bytes reach the right place unchanged; fragmented messages arrive intact, once, if undisturbed, and are charged per attempt; until the rate changes intervals never overlap, and a waiting reservation is woken |
| `control` | 2 administrators, 2 users, 1 node, 2 requests, 2 starts, 1 import, one failing statement or expiry in place of a request | pending restarts, authorization, both protocols, subscriptions; a disabled user is refused |
| `control_reset` | the same module | violation, see Findings |
| `restart` | 2 jobs, 2 process exits, one failing statement | a job is executed once and linked to its run; while nothing fails to be recorded, exits and open runs are right and due jobs settle |

The properties of a run are in its `.cfg`; each is defined with a comment in the
module it is about. Some state one promise in several parts: `IndInv` contains the
type invariant, `BytesConserved`, `CountersFollowLedger` and `CleanStopPersistsAll`;
`AcceptedServes`, `BudgetsKept`, `ProcessEnds`, `RunsAreTheirProcesses`,
`SessionsExact`, `StreamPreserved`, `RightPlace` and `Reassembled` are conjunctions
of named parts.

An "or" in the table is a choice of the initial state (`nodes`, `trojan`, and the
modules side by side in `hysteria` and `formats`) or an action constraint
(`PolicyOrMonth` in `ledger`, `FailsOrExpires` in `control`): both halves are
explored, their products are not. The halves are independent where it is a choice
of module: `HysteriaServer` uses of the UDP manager only what `SessionsExact` and
`RunTerminates` state, and the two wire formats and the limiter share no state. Nodes meet only at the
dial semaphore, and payloads of two Trojan connections only in the traffic logger.

Why the bounds are enough: the races in the logger are between one stream and a
flush, a load, a policy or a stop, and a second stream adds the contention for
the mutexes; two months are needed for a month that ends inside a call. For a
node, two requests give a late and an early failure, and three dials are needed:
a stale client, the current one, and the one dialed after a wrong eviction (with
two, evicting the wrong client goes unnoticed by `OneOpenClient`). One dial slot
for two nodes makes the semaphore contended. In the shutdown two ticks on each
side of the worker deadline separate "before", "between the deadlines" and
"after". Two connections compete for every slot, and the third party of each race
is `Close`. Two UDP sessions give an id that is used again once its old session
has left the map. Two streams of the limiter are enough to give up a reservation
that another one was made behind, and to reserve again. Two administrators are
what a read and a later write need to be separated by; two starts give a stale and a current process. With two restart jobs and a
window shorter than the clock, starts fall on both sides of it. The streams of
`formats` are every request shape, cut at every byte or with one byte changed; the
documents of `process` are every pair of listeners that may overlap and every
limit, one at a time. Every bound is a constant of its module.

Deadlock is checked in the runs of `TrafficLogger`. It is not in the others,
which really stop: the factory, service or manager is closed, the process has
ended, the client's stream is over, or the bounded requests are used up.

## Fairness

Weak fairness on steps of goroutines that are ready to run, on timers, and on
operations with a deadline. Strong fairness only where Go provides it: a mutex
or channel hands over to its waiters in order, and a `select` chooses at random
among ready cases. For a flush, that the database does not fail forever.

In the inbounds, reads and writes on a socket that was closed on our side fail,
handshake, header and dial have deadlines, and the limiter passes or refuses a
payload; a peer may stay silent for ever. In `DownloadLimiter` only the woken
goroutine is fair, not time. In `Startup` the process, time and systemd are
fair; the database may fail for good or leave a check without an answer. In `ControlPlane` and
`RestartJobs` the periodic loops are fair and statements fail a bounded number of
times. Nothing is assumed of clients, of administrators, of the network, of
dials succeeding, or of handlers and workers listed as non-cooperative.

## Proofs

Every safety property of the runs is proved for all values of the constants,
except three of `formats`. A proof module defines the
inductive invariant, proves that each action keeps it (for record-valued state
first what the action changes, then each conjunct it can disturb), and derives
the properties. Except as noted, TLC has confirmed each invariant on the instance
of its component's run. The number of steps a constant bounds (calls, dials,
jobs, ticks) is arbitrary in the proofs.

| Component | Invariant | Why it is needed | Theorems |
|---|---|---|---|
| `TrafficLogger` | `IndInv` | exact usage depends on who holds `flushMu` between two steps: a stream between query and installation holds it, so no batch is in flight (`MutexInv`) | exact usage, conservation, counters, clean stop, `Refinement` of `TrafficLedger` |
| | `QuotaInv` | on top of `IndInv`: only charged bytes are forwarded, and a call carries a quota that was published | `ForwardedWithinQuota` |
| `DownloadLimiter` | `LimiterInv` | an interval that is given up may be returned only if all others end before it: they lie apart, and none ends after `next` | `RateShared` |
| `OutboundNodes` | `IndInv` | between eviction and the next dial a node belongs to one request or to its worker; at most one request is in `markUnavailable` past the check | `OneOpenClient`, `TokenIsCurrent`, `LocalCloseIsPrivate` |
| `TrojanService` | `IndInv` | sockets, slots, charges and published events are functions of the handler's place | `SlotsExact`, the admission limit, `ClosedIsQuiet`, `ChargedFirst`, refinement of `SessionRegistry` |
| `TrojanProtocol` | `IndInv` | the fields read so far are the bytes at their offsets in the stream, and the field in progress starts where they end; what the `TeeReader` kept is the stream up to there | `StreamPreserved`, `RightPlace` |
| `HysteriaServer` | `IndInv` | the tracker's table follows the places of three goroutines per connection | `RequestsShown`, refinement of `SessionRegistry` |
| `UDPSessions` | `ManagerInv` | three kinds of threads may close one session, and its exit function removes it by its id, in two steps: the id must still be its own | `SessionsExact` |
| `ControlPlane` | `IndInv` | while the revisions agree, so do the running and the saved routes and nodes; a token names its user | `PendingRestartShown`, `AuthorizedByStartup`, `SubscriptionWorks` |
| `RestartJobs` | `IndInv` | the job whose restart is under way is the one claimed last, unless its failure is recorded or two statements were lost | `ExecutedOnce`, `RunsAreTheirProcesses` |
| `Process` | `StartInv`, `StoreInv`, `ClockInv` | what is open at each step of the start, and that a heartbeat is followed by a check within half a period; the clock never passes the deadline a step waits for | `FailedStartReleases`, `KilledAfterMiss`, `AcceptedServes`, `StoreOutlivesWorkers`, `BudgetsKept` |

`Refinement` maps the ledger's `persisted` to `db` and `closed` to "`StopContext`
has returned nil" (`charged` and `lost` are history variables of the logger); each
step is a `Charge`, `Persist` or `Reopen` of the ledger, or a stutter. The two
inbounds keep `table` and `online` of `SessionRegistry` as they are, so the
refinement says that their steps happen in the registry's order.

The quota is about sums over the nodes of a user, and the provers have no
induction. What is needed of a sum (the empty sum, taking one element out in any
order, monotonicity) is proved by taking a smallest subset for which it fails,
which exists because the set is finite.

`StreamPreserved` and `RightPlace` compare what the parsers consumed with `Header`,
the client's encoding, for any stream, set of credentials and lengths of the
fields. The parsers work forwards, one field after the other, and the properties
speak of a whole header. So the invariant ties each field that was read to the
bytes at its place in the stream (`DecodedInv`), fixes where the field in progress
starts (`OffsetInv`), and says that these are also the fields of any request the
stream begins with and that none of the checks refuses it (`TrackInv`). No
induction over the bytes is needed: the layout of a header is written down once,
as a lemma about concatenation.

`AcceptedServes` rests on a statement about `Validate`, proved for every document
with any list of inbounds: two listeners that collide however their host names
resolve have conflicting texts, and every limit that a constructor checks was
checked before. With what is open at each step (`OpenInv`) it follows that no step
of the start is certain to fail. The hypothesis `AdminFits` is about the one
listener for which `Validate` does not ensure this, see Findings. The addresses of
the host (`Interfaces`) are fixed in the model.

The proofs rest on the named assumptions about the constants, which TLC evaluates
in the runs. They are types, sizes (`LimiterAssumption`: there is a largest
payload; `ConstantsAssumption`: there are finitely many nodes;
`DocumentAssumption`: the inbounds of a document are a list;
`ProtocolAssumption`: an IP address is no longer than the longest domain;
`ClientsAssumption`: a client's stream is a sequence of bytes, and a request it
encodes has a host of a length the header can carry) and the
legacy file being consistent with itself. One theorem has a hypothesis:
`BudgetsTheorem` assumes `StopsWhenTold`, that nothing which a `Close` or the
worker group waits for is non-cooperative. `shutdown_window` shows what happens
otherwise. `StoreTheorem` holds without it.

Model checked and not proved:

- liveness, as fairness and `ENABLED` are out of the prover's reach:
  `CallsReturn`, `ChargedIsPersisted`, `EvictedNodeRedials`, `CloseEnds`,
  `RateChangeWakes`, `HandlersEnd`, `SessionEnds`, `RunTerminates`,
  `DisabledIsRefused`, `JobSettles`, `ProcessEnds`;
- `PacketsFramed`, `Reassembled` and `AttemptsCharged`, which need induction over
  the packets of a stream and the fragments of a message.

The invariant of `RestartJobs` was also checked with two failing statements.
`StartInv` contains that the document is one of the instance's, which TLC cannot
evaluate in reasonable time; its other conjuncts were checked with the rest.

## Findings

Three runs end in a violation; `PROJECT.json` quotes the lines they disagree with.

- `FinalizationReserved` (`shutdown_window`): after the worker deadline the
  shutdown waits for the same workers until the total deadline, and calls the
  final flush with an expired context. With workers that stop it holds, as a part
  of `BudgetsKept` (`process`).
- `ResetRevokes` (`control_reset`): saving a user's form writes back the password
  that a reset in between replaced.
- `ConflictsReported` (`conflicts`): the design has the administration service
  take part in the conflict check, but it is compared only with the subscription
  service. On the address of a Trojan inbound it is accepted, the start fails at
  the bind and releases everything. `AcceptedServes` excepts that pair
  (`AdminFits`).

Other behaviours of the code are part of the modules, and the properties are
stated so as to allow them:

- A policy that disables a user and keeps the rate wakes no reservation of the
  limiter, and a changed rate resets the timelines of all users (`RateShared`
  is stated until a rate changes).
- Payloads of an over-quota user are metered before they are refused
  (`ForwardedWithinQuota` is about what is forwarded).
- A node whose connection is lost stays Ready until a request uses it, and an
  error of one stream evicts the client that all requests of the node share.
- The `Close` of a Trojan service waits for its handlers without a deadline, in
  the goroutine that performs the shutdown; `process` has Trojan handlers that end.
- Routes are validated before the transaction that stores them, and of two
  concurrent creations of one node the second replaces the first.
- After an import and a process that could not record its revision, an edit can
  hide the pending restart (`PendingRestartShown` is stated for processes that
  recorded theirs).
- After a lost exit record, the exit of a process that never recorded its start
  ends the run of an earlier one; `ExitOfItsProcess` is stated for runs without
  lost records. When neither systemd's answer nor the record of its refusal gets
  through, another job may be claimed before the restart takes place, and the run
  is linked to that one (`RestartLinked` allows one failure). A process that fails
  after it claimed a job is recorded as the administrator's restart.
- The administration host is normalized when it is validated and read as written
  by `isLoopbackListen`: `LOCALHOST.` is accepted and then refused by the start
  (`AdminFits` excepts it).
- A heartbeat that could not be sent is only logged, and `Ping` has no deadline:
  systemd may end a gateway that is healthy (`KilledAfterMiss` says which ones).
- A process that is started with `HY2_RESTART_TRIGGER` would record that trigger
  and be linked to no job. Nothing in the repository sets it, and the model leaves
  it empty.

## Plan

Next, in this order:

1. Proofs: safety of the fragment reassembly for messages of any length.
2. `TrojanService` and `HysteriaServer` in place of the abstract services of
   `Shutdown`.
3. The session map of the Hysteria2 client, login sessions of the admin web, and
   traffic ranges.

## Not modelled

Congestion control (numeric estimates from measured time), the wire encodings of
the vendored protocol, the HTML of the admin panel, the text of subscription
documents and byte quantities, strict decoding of YAML, schema upgrades, command
line flags and the printing of the one-shot commands: stateless, or out of a
model checker's reach. Login sessions, the client's UDP session map and the
queries for traffic ranges are not modelled yet. The vendored reconnecting
client, the legacy router and the tracker's operations keyed by address are not
used by the gateway's core. TLS, QUIC, SQLite and systemd are external; the
modules keep what the code relies on: a connection is up or down, a transaction
happens or fails, a datagram arrives or not.
