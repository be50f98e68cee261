---------------------------- MODULE ControlPlane ----------------------------
(***************************************************************************)
(* Users, nodes and authorizations: the tables of internal/storage, the    *)
(* forms of the admin web that change them, the legacy import, the         *)
(* snapshot a gateway process starts from, the refresh of user lifecycles, *)
(* and what the authenticator and the subscription service make of them.   *)
(*                                                                         *)
(* A form that reads before it writes is one step per statement or         *)
(* transaction, as the store's mutex covers the transactions only.         *)
(* Passwords, tokens and node credentials are numbers, each random one     *)
(* drawn once; 0 stands for the values of the legacy file.                 *)
(***************************************************************************)
EXTENDS Integers, FiniteSets, Functions

CONSTANTS
    Users, Nodes,
    Admins,        \* concurrent requests of the admin web
    LegacyUsers, LegacyNodes, LegacyRoutes,  \* the legacy YAML file
    MaxRequests, MaxStarts, MaxImports, MaxErrors, MaxNow  \* bounds

Direct == "direct"
Routes == Nodes \cup {Direct}
NoExpiry == 0
Expiries == {NoExpiry, 1}

ASSUME ControlPlaneAssumption ==
    /\ Direct \notin Nodes
    /\ LegacyUsers \subseteq Users /\ LegacyNodes \subseteq Nodes
    /\ LegacyRoutes \subseteq LegacyNodes \cup {Direct} /\ LegacyRoutes # {}
    /\ {MaxRequests, MaxStarts, MaxImports, MaxErrors, MaxNow} \subseteq Nat

VARIABLES
    users,      \* managed_users with user_nodes, by name
    nodes,      \* managed_nodes, by name
    revision, active,  \* config_state
    migrated,   \* management_migrations has the legacy import
    gateway,    \* the startup snapshot of the running process
    published,  \* the authenticator's two maps
    loaded,     \* users read by the refresh loop and not published yet
    form,       \* the request each administrator has in flight
    now,
    secret,     \* number of random secrets drawn
    revoked,    \* history: <<user, password>> replaced by a password reset
    requests, starts, imports, errors

store == <<users, nodes, revision, active, migrated>>
process == <<gateway, published, loaded>>
bounds == <<requests, starts, imports, errors>>
vars == <<store, process, form, now, secret, revoked, bounds>>

Empty == [x \in {} |-> x]
Down == [up |-> FALSE, users |-> Empty, nodes |-> Empty, revision |-> 0,
         recorded |-> "no"]
Idle == [op |-> "idle"]

Put(f, x, v) == [y \in DOMAIN f \cup {x} |-> IF y = x THEN v ELSE f[y]]
Without(f, x) == Restrict(f, DOMAIN f \ {x})
----------------------------------------------------------------------------
\* What the gateway makes of the tables.

UserConfig(row) ==
    [password |-> row.password, disabled |-> row.deleted,
     expires |-> row.expires, routes |-> row.routes]

LoadRuntimeUsers == [u \in DOMAIN users |-> UserConfig(users[u])]

LoadNodes == Restrict(nodes, {n \in DOMAIN nodes : nodes[n].enabled})

\* Mutant: routes come from the database at once.
RefreshLive(startup, fresh) ==
    [u \in DOMAIN startup |->
        IF u \in DOMAIN fresh THEN fresh[u]
        ELSE [startup[u] EXCEPT !.disabled = TRUE]]

\* Mutant: a user who is gone keeps the startup policy.
RefreshKeepsMissing(startup, fresh) ==
    [u \in DOMAIN startup |->
        IF u \in DOMAIN fresh
        THEN [fresh[u] EXCEPT !.routes = startup[u].routes]
        ELSE startup[u]]

RefreshSnapshot(startup, fresh) ==
    [u \in DOMAIN startup |->
        IF u \in DOMAIN fresh
        THEN [fresh[u] EXCEPT !.routes = startup[u].routes]
        ELSE [startup[u] EXCEPT !.disabled = TRUE]]

\* The credential of a Trojan client hashes user, node and password; no two
\* of them share a hash.
BuildTrojanCredentials(us) ==
    UNION {{<<u, r, us[u].password>> : r \in us[u].routes} : u \in DOMAIN us}

UpdateUsers(us) ==
    published' = [users |-> us, trojan |-> BuildTrojanCredentials(us)]

Active(entry) == ~entry.disabled /\ (entry.expires # NoExpiry => entry.expires > now)

Authenticate(u, r, p) ==
    /\ u \in DOMAIN published.users
    /\ Active(published.users[u])
    /\ p = published.users[u].password
    /\ r \in published.users[u].routes

AuthenticateTrojan(c) ==
    /\ c \in published.trojan
    /\ c[1] \in DOMAIN published.users /\ Active(published.users[c[1]])

FindUserByToken(t) ==
    {u \in DOMAIN users : users[u].token = t /\ ~users[u].deleted}

\* Mutant: the document lists the routes of the database.
SubscriptionLive(t) ==
    {<<u, r, users[u].password>> : u \in FindUserByToken(t) \cap DOMAIN gateway.users,
                                   r \in UNION {users[u].routes : u \in FindUserByToken(t)}}

\* The credentials in the subscription document for a token: live password,
\* routes and nodes of the startup snapshot.
Subscription(t) ==
    UNION {{<<u, r, users[u].password>> :
                r \in gateway.users[u].routes \cap (DOMAIN gateway.nodes \cup {Direct})}
           : u \in FindUserByToken(t) \cap DOMAIN gateway.users}
----------------------------------------------------------------------------
\* The gateway process.

\* LoadRuntimeSnapshot reads everything in one transaction.
Start ==
    /\ ~gateway.up /\ starts < MaxStarts
    /\ gateway' = [up |-> TRUE, users |-> LoadRuntimeUsers, nodes |-> LoadNodes,
                   revision |-> revision, recorded |-> "no"]
    /\ UpdateUsers(LoadRuntimeUsers)
    /\ loaded' = {}
    /\ starts' = starts + 1
    /\ UNCHANGED <<store, form, now, secret, revoked, requests, imports, errors>>

\* A failure to record is only logged.
SetActiveRevision ==
    /\ gateway.up /\ gateway.recorded = "no"
    /\ \/ /\ active' = gateway.revision /\ UNCHANGED errors
          /\ gateway' = [gateway EXCEPT !.recorded = "yes"]
       \/ /\ errors < MaxErrors /\ errors' = errors + 1 /\ UNCHANGED active
          /\ gateway' = [gateway EXCEPT !.recorded = "failed"]
    /\ UNCHANGED <<users, nodes, revision, migrated, published, loaded, form,
                   now, secret, revoked, requests, starts, imports>>

\* The process ends, with every request it was serving.
Exit ==
    /\ gateway.up
    /\ gateway' = Down
    /\ published' = [users |-> Empty, trojan |-> {}]
    /\ loaded' = {}
    /\ form' = [a \in Admins |-> Idle]
    /\ UNCHANGED <<store, now, secret, revoked, bounds>>

\* The refresh loop; the routes it also reads are not used.
RefreshRead ==
    /\ gateway.up /\ loaded = {}
    /\ loaded' = {LoadRuntimeUsers}
    /\ UNCHANGED <<store, gateway, published, form, now, secret, revoked, bounds>>

RefreshFails ==
    /\ gateway.up /\ loaded = {} /\ errors < MaxErrors
    /\ errors' = errors + 1
    /\ UNCHANGED <<store, process, form, now, secret, revoked, requests, starts, imports>>

RefreshPublish ==
    /\ \E fresh \in loaded : UpdateUsers(RefreshSnapshot(gateway.users, fresh))
    /\ loaded' = {}
    /\ UNCHANGED <<store, gateway, form, now, secret, revoked, bounds>>

Tick ==
    /\ now < MaxNow
    /\ now' = now + 1
    /\ UNCHANGED <<store, process, form, secret, revoked, bounds>>
----------------------------------------------------------------------------
\* The forms of the admin web.

Begin(a) ==
    /\ gateway.up /\ form[a] = Idle
    /\ requests < MaxRequests /\ requests' = requests + 1

Done(a) == form' = [form EXCEPT ![a] = Idle]

Missing(x, table) == x \notin DOMAIN table

\* Mutant: a changed authorization keeps the revision.
RevisionKept(changed) == revision' = revision

NextRevision(changed) == revision' = IF changed THEN revision + 1 ELSE revision

\* createUser up to the first statement of the store: password and token are
\* drawn, the routes are still to be validated.
CreateUserForm(a, u, routes, expires) ==
    /\ Begin(a)
    /\ secret' = secret + 1
    /\ form' = [form EXCEPT ![a] =
           [op |-> "createUser", user |-> u, routes |-> routes, todo |-> routes,
            expires |-> expires, password |-> secret + 1]]
    /\ UNCHANGED <<store, process, now, revoked, starts, imports, errors>>

\* userAction "save": GetUser, whose password is written back later.
SaveUserForm(a, u, routes, expires) ==
    /\ Begin(a)
    /\ form' = IF Missing(u, users) THEN form
               ELSE [form EXCEPT ![a] =
                       [op |-> "updateUser", user |-> u, routes |-> routes,
                        todo |-> routes, expires |-> expires,
                        password |-> users[u].password]]
    /\ UNCHANGED <<store, process, now, secret, revoked, starts, imports, errors>>

Valid(r) == r = Direct \/ (r \in DOMAIN nodes /\ nodes[r].enabled)

\* validateRoutes: one query per route, outside the transaction.
ValidateRoute(a) ==
    /\ form[a].op \in {"createUser", "updateUser"}
    /\ \E r \in form[a].todo :
        IF Valid(r) THEN form' = [form EXCEPT ![a].todo = @ \ {r}]
        ELSE Done(a)
    /\ UNCHANGED <<store, process, now, secret, revoked, bounds>>

CreateUser(a) ==
    LET f == form[a] IN
    /\ f.op = "createUser" /\ f.todo = {}
    /\ Missing(f.user, users)
    /\ users' = Put(users, f.user,
           [password |-> f.password, token |-> <<f.user, f.password>>,
            deleted |-> FALSE, expires |-> f.expires, routes |-> f.routes])
    /\ NextRevision(TRUE)
    /\ Done(a)
    /\ UNCHANGED <<nodes, active, migrated, process, now, secret, revoked, bounds>>

EditedRow(row, f) ==
    [row EXCEPT !.password = f.password, !.routes = f.routes, !.expires = f.expires]

UpdateUser(a) ==
    LET f == form[a] IN
    /\ f.op = "updateUser" /\ f.todo = {}
    /\ ~Missing(f.user, users)
    /\ users' = [users EXCEPT ![f.user] = EditedRow(@, f)]
    /\ NextRevision(users[f.user].routes # f.routes)
    /\ Done(a)
    /\ UNCHANGED <<nodes, active, migrated, process, now, secret, revoked, bounds>>

SetUserDeleted(a, u, deleted) ==
    /\ Begin(a)
    /\ users' = IF Missing(u, users) THEN users
                ELSE [users EXCEPT ![u].deleted = deleted]
    /\ UNCHANGED <<nodes, revision, active, migrated, process, form, now, secret,
                   revoked, starts, imports, errors>>

ResetUserPassword(a, u) ==
    /\ Begin(a) /\ ~Missing(u, users)
    /\ secret' = secret + 1
    /\ users' = [users EXCEPT ![u].password = secret + 1]
    /\ revoked' = revoked \cup {<<u, users[u].password>>}
    /\ UNCHANGED <<nodes, revision, active, migrated, process, form, now,
                   starts, imports, errors>>

ResetUserToken(a, u) ==
    /\ Begin(a) /\ ~Missing(u, users)
    /\ secret' = secret + 1
    /\ users' = [users EXCEPT ![u].token = <<u, secret + 1>>]
    /\ UNCHANGED <<nodes, revision, active, migrated, process, form, now, revoked,
                   starts, imports, errors>>

\* saveNode: GetNode finds that the name is free.
NewNodeForm(a, n, enabled) ==
    /\ Begin(a)
    /\ secret' = secret + 1
    /\ form' = IF ~Missing(n, nodes) THEN form
               ELSE [form EXCEPT ![a] = [op |-> "saveNode", node |-> n,
                       config |-> [auth |-> secret + 1, enabled |-> enabled]]]
    /\ UNCHANGED <<store, process, now, revoked, starts, imports, errors>>

\* nodeAction "save": GetNode, whose credential is kept when the form has none.
EditNodeForm(a, n, enabled, keep) ==
    /\ Begin(a)
    /\ secret' = IF keep THEN secret ELSE secret + 1
    /\ form' = IF Missing(n, nodes) THEN form
               ELSE [form EXCEPT ![a] = [op |-> "updateNode", node |-> n,
                       config |-> [auth |-> IF keep THEN nodes[n].auth ELSE secret + 1,
                                   enabled |-> enabled]]]
    /\ UNCHANGED <<store, process, now, revoked, starts, imports, errors>>

SaveNode(a) ==
    /\ form[a].op = "saveNode"
    /\ nodes' = Put(nodes, form[a].node, form[a].config)
    /\ NextRevision(TRUE)
    /\ Done(a)
    /\ UNCHANGED <<users, active, migrated, process, now, secret, revoked, bounds>>

UpdateNode(a) ==
    /\ form[a].op = "updateNode" /\ ~Missing(form[a].node, nodes)
    /\ nodes' = [nodes EXCEPT ![form[a].node] = form[a].config]
    /\ NextRevision(TRUE)
    /\ Done(a)
    /\ UNCHANGED <<users, active, migrated, process, now, secret, revoked, bounds>>

WithoutRoute(n) == [u \in DOMAIN users |-> [users[u] EXCEPT !.routes = @ \ {n}]]

DeleteNode(a, n) ==
    /\ Begin(a) /\ ~Missing(n, nodes)
    /\ users' = WithoutRoute(n)
    /\ nodes' = Without(nodes, n)
    /\ NextRevision(TRUE)
    /\ UNCHANGED <<active, migrated, process, form, now, secret, revoked,
                   starts, imports, errors>>

\* The last statement of a form fails: the row exists already or is gone, or
\* the database reports an error; the transaction is rolled back.
FormFails(a) ==
    /\ form[a] # Idle
    /\ \/ /\ form[a].op = "createUser" /\ form[a].todo = {}
          /\ ~Missing(form[a].user, users) /\ UNCHANGED errors
       \/ /\ form[a].op = "updateUser" /\ form[a].todo = {}
          /\ Missing(form[a].user, users) /\ UNCHANGED errors
       \/ /\ form[a].op = "updateNode"
          /\ Missing(form[a].node, nodes) /\ UNCHANGED errors
       \/ errors < MaxErrors /\ errors' = errors + 1
    /\ Done(a)
    /\ UNCHANGED <<store, process, now, secret, revoked, requests, starts, imports>>
----------------------------------------------------------------------------
\* The migrate command, a process of its own.

LegacyRow(u) == [password |-> 0, token |-> <<u, 0>>, deleted |-> FALSE,
                 expires |-> NoExpiry, routes |-> LegacyRoutes]

InsertLegacyUsers == users' = [u \in LegacyUsers |-> LegacyRow(u)]

\* Run with the gateway stopped, as documented.
MigrateLegacy ==
    /\ ~gateway.up /\ imports < MaxImports
    /\ DOMAIN users = {} /\ ~migrated
    /\ LegacyNodes \cap DOMAIN nodes = {}
    /\ InsertLegacyUsers
    /\ nodes' = [n \in DOMAIN nodes \cup LegacyNodes |->
                    IF n \in LegacyNodes THEN [auth |-> 0, enabled |-> TRUE] ELSE nodes[n]]
    /\ revision' = 1 /\ migrated' = TRUE
    /\ imports' = imports + 1
    /\ UNCHANGED <<active, process, form, now, secret, revoked, requests, starts, errors>>

\* --replace-users; a gateway that runs picks the users up on its restart.
ReplaceLegacyUsers ==
    /\ imports < MaxImports /\ LegacyUsers # {}
    /\ \A r \in LegacyRoutes : Valid(r)
    /\ InsertLegacyUsers
    /\ NextRevision(TRUE)
    /\ revoked' = {up \in revoked : up[1] \notin LegacyUsers}
    /\ imports' = imports + 1
    /\ UNCHANGED <<nodes, active, migrated, process, form, now, secret,
                   requests, starts, errors>>
----------------------------------------------------------------------------
Init ==
    /\ users = Empty /\ nodes = Empty
    /\ revision = 0 /\ active = 0 /\ migrated = FALSE
    /\ gateway = Down
    /\ published = [users |-> Empty, trojan |-> {}] /\ loaded = {}
    /\ form = [a \in Admins |-> Idle]
    /\ now = 0 /\ secret = 0 /\ revoked = {}
    /\ requests = 0 /\ starts = 0 /\ imports = 0 /\ errors = 0

RouteSets == (SUBSET Routes) \ {{}}

UserForms(a) ==
    \E u \in Users :
        \/ \E rs \in RouteSets, e \in Expiries :
               CreateUserForm(a, u, rs, e) \/ SaveUserForm(a, u, rs, e)
        \/ \E deleted \in BOOLEAN : SetUserDeleted(a, u, deleted)
        \/ ResetUserPassword(a, u) \/ ResetUserToken(a, u)

NodeForms(a) ==
    \E n \in Nodes :
        \/ \E enabled, keep \in BOOLEAN :
               NewNodeForm(a, n, enabled) \/ EditNodeForm(a, n, enabled, keep)
        \/ DeleteNode(a, n)

FormSteps(a) ==
    \/ ValidateRoute(a) \/ CreateUser(a) \/ UpdateUser(a)
    \/ SaveNode(a) \/ UpdateNode(a) \/ FormFails(a)

Next ==
    \/ Start \/ SetActiveRevision \/ Exit \/ Tick
    \/ RefreshRead \/ RefreshFails \/ RefreshPublish
    \/ MigrateLegacy \/ ReplaceLegacyUsers
    \/ \E a \in Admins : UserForms(a) \/ NodeForms(a) \/ FormSteps(a)

Spec == Init /\ [][Next]_vars

\* The refresh loop runs every two seconds while the process is up; what
\* administrators do is theirs to choose.
FairSpec == Spec /\ WF_vars(RefreshRead) /\ WF_vars(RefreshPublish)
----------------------------------------------------------------------------
\* The routes and nodes a process would run with.
Topology(us, ns) ==
    [routes |-> [u \in DOMAIN us |-> us[u].routes],
     nodes |-> Restrict(ns, {n \in DOMAIN ns : ns[n].enabled})]

Stale == gateway.up /\ Topology(gateway.users, gateway.nodes) # Topology(users, nodes)

\* Whenever a process that recorded its revision works with routes or nodes
\* that differ from the saved ones, the two revisions differ, so that the
\* dashboard asks for a restart; no order of forms, exits and imports hides it.
PendingRestartShown == Stale /\ gateway.recorded = "yes" => revision # active

\* No user is let in on a route that was not assigned when the process started
\* (RefreshSnapshot keeps the routes of the startup snapshot), by either
\* protocol: a Trojan client is let in exactly when a Hysteria2 client with the
\* same user, node and password is.
AuthorizedByStartup ==
    /\ \A u \in DOMAIN published.users :
          u \in DOMAIN gateway.users /\ published.users[u].routes = gateway.users[u].routes
    /\ \A u \in Users, r \in Routes, p \in 0..secret :
          AuthenticateTrojan(<<u, r, p>>) <=> Authenticate(u, r, p)

\* What a subscription hands out works, for an active user, as soon as the
\* refresh has caught up with the password: its routes are the running ones.
SubscriptionWorks ==
    \A u \in DOMAIN users : \A c \in Subscription(users[u].token) :
        /\ c[2] \in DOMAIN gateway.nodes \cup {Direct}
        /\ (published.users[u].password = c[3] /\ Active(published.users[u]))
               => Authenticate(c[1], c[2], c[3])

\* A user who is disabled, or removed by an import, is refused after a
\* refresh, unless restored or the process ends first.
RefusedUntil(u) == ~gateway.up \/ \A r \in Routes, p \in 0..secret : ~Authenticate(u, r, p)
Gone(u) == Missing(u, users) \/ users[u].deleted

DisabledIsRefused == \A u \in Users : Gone(u) ~> (RefusedUntil(u) \/ ~Gone(u))

\* A password that was replaced by a reset is not accepted again once the
\* refresh has published a state read after the reset; in the tables it never
\* comes back.
ResetRevokes == \A u \in DOMAIN users : <<u, users[u].password>> \notin revoked
=============================================================================
