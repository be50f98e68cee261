------------------------- MODULE ControlPlaneProofs -------------------------
(***************************************************************************)
(* Proofs about ControlPlane for any users, nodes, administrators, legacy  *)
(* file and number of requests, starts, imports and failures.              *)
(*                                                                         *)
(* RevisionInv compares the running snapshot with the tables: while their  *)
(* revisions agree so do routes and nodes, however forms, refreshes and    *)
(* imports interleave.  PublishedInv says what RefreshSnapshot keeps of    *)
(* the startup snapshot.                                                   *)
(***************************************************************************)
EXTENDS ControlPlane, TLAPS

\* Most leaves are first-order reasoning; those with arithmetic or larger
\* expressions over records and functions cite SMT.
USE Zenon

Row == [password : Nat, token : Users \X Nat, deleted : BOOLEAN, expires : Expiries,
        routes : SUBSET Routes]
Entry == [password : Nat, disabled : BOOLEAN, expires : Expiries, routes : SUBSET Routes]
NodeConfig == [auth : Nat, enabled : BOOLEAN]
UserForm == [op : {"createUser", "updateUser"}, user : Users, routes : SUBSET Routes,
             todo : SUBSET Routes, expires : Expiries, password : Nat]
NodeForm == [op : {"saveNode", "updateNode"}, node : Nodes, config : NodeConfig]

\* A table with rows of a type.
Table(f, keys, type) == DOMAIN f \subseteq keys /\ f \in [DOMAIN f -> type]

StoreType ==
    /\ Table(users, Users, Row) /\ Table(nodes, Nodes, NodeConfig)
    /\ revision \in Nat /\ active \in Nat /\ secret \in Nat

FormType ==
    /\ form \in [Admins -> {Idle} \cup UserForm \cup NodeForm]

ProcessType ==
    /\ gateway = [up |-> gateway.up, users |-> gateway.users, nodes |-> gateway.nodes,
                  revision |-> gateway.revision, recorded |-> gateway.recorded]
    /\ Table(gateway.users, Users, Entry) /\ Table(gateway.nodes, Nodes, NodeConfig)
    /\ gateway.revision \in Nat
    /\ Table(published.users, Users, Entry)
    /\ \A fresh \in loaded : Table(fresh, Users, Entry)

TypeOK == StoreType /\ FormType /\ ProcessType

\* A token names its user: no two users share one.
TokenInv == \A u \in DOMAIN users : users[u].token[1] = u

\* The running snapshot has the routes and nodes of the tables.
Current ==
    /\ DOMAIN gateway.users = DOMAIN users
    /\ \A u \in DOMAIN users : gateway.users[u].routes = users[u].routes
    /\ gateway.nodes = LoadNodes

RevisionInv ==
    /\ gateway.up =>
          /\ gateway.revision <= revision
          /\ gateway.revision = revision => Current
    /\ gateway.recorded = "yes" => gateway.up /\ active = gateway.revision

PublishedInv ==
    /\ DOMAIN published.users = DOMAIN gateway.users
    /\ \A u \in DOMAIN gateway.users : published.users[u].routes = gateway.users[u].routes
    /\ published.trojan = BuildTrojanCredentials(published.users)

IndInv == TypeOK /\ TokenInv /\ RevisionInv /\ PublishedInv
----------------------------------------------------------------------------
\* A step of a form or of an import: it leaves the process alone, and raises
\* the revision unless routes and nodes stay as they are.
SavedStep ==
    /\ StoreType' /\ FormType' /\ TokenInv'
    /\ UNCHANGED <<gateway, published, loaded, active>>
    /\ \/ ~gateway.up
       \/ revision' > revision
       \/ /\ revision' = revision /\ nodes' = nodes /\ DOMAIN users' = DOMAIN users
          /\ \A u \in DOMAIN users : users'[u].routes = users[u].routes

\* The routes and nodes of the running snapshot are compared with the tables
\* by revision only, so a step that saves keeps the invariant.
LEMMA SavedKeeps ==
    ASSUME IndInv, SavedStep
    PROVE  IndInv'
<1>1. TypeOK' /\ TokenInv'
    BY DEF IndInv, TypeOK, SavedStep, ProcessType
<1>2. PublishedInv'
    BY DEF IndInv, SavedStep, PublishedInv
<1>3. RevisionInv'
    <2>1. gateway' = gateway /\ active' = active
        BY DEF SavedStep
    <2>2. CASE ~gateway.up
        BY <2>1, <2>2 DEF IndInv, RevisionInv
    <2>3. CASE revision' > revision
        <3>1. revision \in Nat /\ revision' \in Nat /\ gateway.revision \in Nat
            BY DEF IndInv, TypeOK, StoreType, ProcessType, SavedStep
        <3> QED
            BY SMT, <2>1, <2>3, <3>1 DEF IndInv, RevisionInv
    <2>4. CASE /\ revision' = revision /\ nodes' = nodes /\ DOMAIN users' = DOMAIN users
               /\ \A u \in DOMAIN users : users'[u].routes = users[u].routes
        <3>1. LoadNodes' = LoadNodes
            BY <2>4 DEF LoadNodes
        <3>2. Current => Current'
            BY <2>1, <2>4, <3>1 DEF Current
        <3> QED
            BY <2>1, <2>4, <3>2 DEF IndInv, RevisionInv
    <2> QED
        BY <2>2, <2>3, <2>4 DEF SavedStep
<1> QED
    BY <1>1, <1>2, <1>3 DEF IndInv

\* A form that ends, or that starts with a well-formed request.
LEMMA FormSet ==
    ASSUME FormType, NEW a \in Admins, NEW f \in {Idle} \cup UserForm \cup NodeForm,
           form' = [form EXCEPT ![a] = f]
    PROVE  FormType'
BY DEF FormType

\* What a form in flight holds, by its kind.
LEMMA FormKinds ==
    ASSUME FormType, NEW a \in Admins
    PROVE  /\ form[a].op \in {"createUser", "updateUser"} => form[a] \in UserForm
           /\ form[a].op \in {"saveNode", "updateNode"} => form[a] \in NodeForm
BY SMT DEF FormType, Idle, UserForm, NodeForm

\* One row is replaced by another of its type and with its token's user.
LEMMA RowSet ==
    ASSUME StoreType, TokenInv, NEW u \in DOMAIN users, NEW row \in Row, row.token[1] = u,
           users' = [users EXCEPT ![u] = row]
    PROVE  /\ Table(users', Users, Row) /\ TokenInv'
           /\ DOMAIN users' = DOMAIN users /\ users'[u] = row
           /\ \A v \in DOMAIN users : v # u => users'[v] = users[v]
BY DEF StoreType, TokenInv, Table

\* Steps that leave every table alone.
LEMMA RequestStep ==
    ASSUME IndInv, NEW a \in Admins,
           UNCHANGED <<store, process>>, secret' \in Nat,
           \/ UNCHANGED form \/ Done(a)
           \/ \E f \in UserForm \cup NodeForm : form' = [form EXCEPT ![a] = f]
    PROVE  IndInv'
<1>1. FormType'
    <2>1. CASE UNCHANGED form
        BY <2>1 DEF IndInv, TypeOK, FormType
    <2>2. CASE Done(a)
        BY <2>2, FormSet DEF IndInv, TypeOK, Done
    <2>3. CASE \E f \in UserForm \cup NodeForm : form' = [form EXCEPT ![a] = f]
        BY <2>3, FormSet DEF IndInv, TypeOK
    <2> QED
        BY <2>1, <2>2, <2>3
<1>2. SavedStep
    BY <1>1 DEF SavedStep, IndInv, TypeOK, StoreType, TokenInv, Table, store,
       process
<1> QED
    BY <1>2, SavedKeeps
----------------------------------------------------------------------------
\* The forms before their transaction.
LEMMA OpenedStep ==
    ASSUME IndInv, NEW a \in Admins, NEW u \in Users, NEW rs \in RouteSets, NEW e \in Expiries,
           CreateUserForm(a, u, rs, e) \/ SaveUserForm(a, u, rs, e)
    PROVE  IndInv'
<1>1. secret \in Nat /\ Table(users, Users, Row)
    BY DEF IndInv, TypeOK, StoreType
<1>2. CASE CreateUserForm(a, u, rs, e)
    <2> DEFINE f == [op |-> "createUser", user |-> u, routes |-> rs, todo |-> rs,
                     expires |-> e, password |-> secret + 1]
    <2>1. f \in UserForm
        BY SMT, <1>1 DEF UserForm, RouteSets
    <2>2. form' = [form EXCEPT ![a] = f] /\ secret' = secret + 1 /\ UNCHANGED <<store, process>>
        BY <1>2 DEF CreateUserForm
    <2>3. secret' \in Nat
        BY SMT, <1>1, <2>2
    <2> HIDE DEF f
    <2> QED
        BY <2>1, <2>2, <2>3, RequestStep
<1>3. CASE SaveUserForm(a, u, rs, e)
    <2>1. secret' = secret /\ UNCHANGED <<store, process>>
        BY <1>3 DEF SaveUserForm
    <2>2. CASE Missing(u, users)
        BY <1>1, <1>3, <2>1, <2>2, RequestStep DEF SaveUserForm
    <2>3. CASE ~Missing(u, users)
        <3> DEFINE f == [op |-> "updateUser", user |-> u, routes |-> rs, todo |-> rs,
                         expires |-> e, password |-> users[u].password]
        <3>1. users[u] \in Row
            BY <1>1, <2>3 DEF Table, Missing
        <3>2. f \in UserForm
            BY <3>1 DEF UserForm, RouteSets, Row
        <3>3. form' = [form EXCEPT ![a] = f]
            BY <1>3, <2>3 DEF SaveUserForm
        <3> HIDE DEF f
        <3> QED
            BY <1>1, <2>1, <3>2, <3>3, RequestStep
    <2> QED
        BY <2>2, <2>3
<1> QED
    BY <1>2, <1>3

LEMMA NodeOpenedStep ==
    ASSUME IndInv, NEW a \in Admins, NEW n \in Nodes, NEW enabled \in BOOLEAN,
           NEW keep \in BOOLEAN,
           NewNodeForm(a, n, enabled) \/ EditNodeForm(a, n, enabled, keep)
    PROVE  IndInv'
<1>1. secret \in Nat /\ Table(nodes, Nodes, NodeConfig)
    BY DEF IndInv, TypeOK, StoreType
<1>2. CASE NewNodeForm(a, n, enabled)
    <2> DEFINE f == [op |-> "saveNode", node |-> n,
                     config |-> [auth |-> secret + 1, enabled |-> enabled]]
    <2>1. f \in NodeForm
        BY SMT, <1>1 DEF NodeForm, NodeConfig
    <2>2. /\ form' = form \/ form' = [form EXCEPT ![a] = f]
          /\ secret' = secret + 1 /\ UNCHANGED <<store, process>>
        BY <1>2 DEF NewNodeForm
    <2>3. secret' \in Nat
        BY SMT, <1>1, <2>2
    <2> HIDE DEF f
    <2> QED
        BY <2>1, <2>2, <2>3, RequestStep
<1>3. CASE EditNodeForm(a, n, enabled, keep)
    <2>1. secret' \in Nat /\ UNCHANGED <<store, process>>
        BY SMT, <1>1, <1>3 DEF EditNodeForm
    <2>2. CASE Missing(n, nodes)
        BY <1>3, <2>1, <2>2, RequestStep DEF EditNodeForm
    <2>3. CASE ~Missing(n, nodes)
        <3> DEFINE auth == IF keep THEN nodes[n].auth ELSE secret + 1
                   f == [op |-> "updateNode", node |-> n,
                         config |-> [auth |-> auth, enabled |-> enabled]]
        <3>1. nodes[n] \in NodeConfig
            BY <1>1, <2>3 DEF Table, Missing
        <3>2. auth \in Nat
            BY SMT, <1>1, <3>1 DEF NodeConfig
        <3>3. form' = [form EXCEPT ![a] = f]
            BY <1>3, <2>3 DEF EditNodeForm
        <3>4. f \in NodeForm
            <4> HIDE DEF auth
            <4> QED
                BY <3>2 DEF NodeForm, NodeConfig
        <3> HIDE DEF f
        <3> QED
            BY <2>1, <3>3, <3>4, RequestStep
    <2> QED
        BY <2>2, <2>3
<1> QED
    BY <1>2, <1>3

LEMMA ValidateStep ==
    ASSUME IndInv, NEW a \in Admins, ValidateRoute(a) \/ FormFails(a)
    PROVE  IndInv'
<1>1. secret' \in Nat /\ UNCHANGED <<store, process>>
    BY DEF IndInv, TypeOK, StoreType, ValidateRoute, FormFails
<1>2. CASE FormFails(a)
    BY <1>1, <1>2, RequestStep DEF FormFails
<1>3. CASE ValidateRoute(a)
    <2>1. PICK r \in form[a].todo :
             form' = [form EXCEPT ![a].todo = @ \ {r}] \/ Done(a)
        BY <1>3 DEF ValidateRoute
    <2>2. CASE Done(a)
        BY <1>1, <2>2, RequestStep
    <2>3. CASE form' = [form EXCEPT ![a].todo = @ \ {r}]
        <3> DEFINE f == [form[a] EXCEPT !.todo = @ \ {r}]
        <3>1. form[a] \in UserForm
            BY <1>3, FormKinds DEF ValidateRoute, IndInv, TypeOK
        <3>2. f \in UserForm
            BY <3>1 DEF UserForm
        <3>3. form' = [form EXCEPT ![a] = f]
            BY <2>3
        <3> HIDE DEF f
        <3> QED
            BY <1>1, <3>2, <3>3, RequestStep
    <2> QED
        BY <2>1, <2>2, <2>3
<1> QED
    BY <1>2, <1>3
----------------------------------------------------------------------------
\* The transactions.
LEMMA CreateUserStep ==
    ASSUME IndInv, NEW a \in Admins, CreateUser(a)
    PROVE  IndInv'
<1> DEFINE row == [password |-> form[a].password,
                   token |-> <<form[a].user, form[a].password>>, deleted |-> FALSE,
                   expires |-> form[a].expires, routes |-> form[a].routes]
<1>1. form[a] \in UserForm /\ StoreType /\ TokenInv /\ FormType
    BY FormKinds DEF CreateUser, IndInv, TypeOK
<1>2. row \in Row /\ row.token[1] = form[a].user /\ form[a].user \in Users
    BY <1>1 DEF Row, UserForm
<1>3. /\ users' = Put(users, form[a].user, row) /\ NextRevision(TRUE) /\ Done(a)
      /\ UNCHANGED <<nodes, active, process, secret>>
    BY DEF CreateUser
<1> HIDE DEF row
<1>4. Table(users', Users, Row) /\ TokenInv'
    BY <1>1, <1>2, <1>3 DEF Put, Table, StoreType, TokenInv
<1>5. revision' \in Nat /\ revision' > revision
    BY SMT, <1>1, <1>3 DEF NextRevision, StoreType
<1>6. StoreType' /\ FormType'
    BY <1>1, <1>3, <1>4, <1>5, FormSet DEF StoreType, Table, Done
<1>7. SavedStep
    BY <1>3, <1>4, <1>5, <1>6 DEF SavedStep, process
<1> QED
    BY <1>7, SavedKeeps

LEMMA UpdateUserStep ==
    ASSUME IndInv, NEW a \in Admins, UpdateUser(a)
    PROVE  IndInv'
<1> DEFINE u == form[a].user
           row == EditedRow(users[u], form[a])
<1>1. form[a] \in UserForm /\ StoreType /\ TokenInv /\ FormType /\ u \in DOMAIN users
    BY FormKinds DEF UpdateUser, IndInv, TypeOK, Missing
<1>2. users[u] \in Row /\ users[u].token[1] = u
    BY <1>1 DEF StoreType, Table, TokenInv
<1>3. row \in Row /\ row.token = users[u].token /\ row.routes = form[a].routes
    BY <1>1, <1>2 DEF Row, UserForm, EditedRow
<1>4. /\ users' = [users EXCEPT ![u] = row] /\ NextRevision(users[u].routes # row.routes)
      /\ Done(a) /\ UNCHANGED <<nodes, active, process, secret>>
    BY <1>3 DEF UpdateUser
<1> HIDE DEF row, u
<1>5. /\ Table(users', Users, Row) /\ TokenInv' /\ DOMAIN users' = DOMAIN users
      /\ users'[u] = row /\ \A v \in DOMAIN users : v # u => users'[v] = users[v]
    BY <1>1, <1>2, <1>3, <1>4, RowSet
<1>6. /\ revision' \in Nat
      /\ revision' > revision \/ (revision' = revision /\ users[u].routes = row.routes)
    BY SMT, <1>1, <1>4 DEF NextRevision, StoreType
<1>7. StoreType' /\ FormType'
    BY <1>1, <1>4, <1>5, <1>6, FormSet DEF StoreType, Table, Done
<1>8. SavedStep
    BY <1>4, <1>5, <1>6, <1>7 DEF SavedStep, process
<1> QED
    BY <1>8, SavedKeeps

\* A change of a row that keeps its routes.
LEMMA RowStep ==
    ASSUME IndInv, NEW u \in DOMAIN users, NEW row \in Row, row.token[1] = u,
           row.routes = users[u].routes, users' = [users EXCEPT ![u] = row],
           UNCHANGED <<nodes, revision, active, process, form>>, secret' \in Nat
    PROVE  IndInv'
<1>1. /\ Table(users', Users, Row) /\ TokenInv' /\ DOMAIN users' = DOMAIN users
      /\ users'[u] = row /\ \A v \in DOMAIN users : v # u => users'[v] = users[v]
    BY RowSet DEF IndInv, TypeOK
<1>2. StoreType' /\ FormType'
    BY <1>1 DEF IndInv, TypeOK, StoreType, FormType, Table
<1>3. SavedStep
    BY <1>1, <1>2 DEF SavedStep, process
<1> QED
    BY <1>3, SavedKeeps

LEMMA LifecycleStep ==
    ASSUME IndInv, NEW a \in Admins, NEW u \in Users, NEW deleted \in BOOLEAN,
           \/ SetUserDeleted(a, u, deleted)
           \/ ResetUserPassword(a, u) \/ ResetUserToken(a, u)
    PROVE  IndInv'
<1>1. secret \in Nat /\ Table(users, Users, Row) /\ TokenInv
    BY DEF IndInv, TypeOK, StoreType
<1>2. u \in DOMAIN users => users[u] \in Row /\ users[u].token[1] = u
    BY <1>1 DEF Table, TokenInv
<1>3. CASE SetUserDeleted(a, u, deleted)
    <2>1. UNCHANGED <<nodes, revision, active, migrated, process, form, secret>>
        BY <1>3 DEF SetUserDeleted
    <2>2. CASE Missing(u, users)
        <3>1. UNCHANGED <<store, process>>
            BY <1>3, <2>1, <2>2 DEF SetUserDeleted, store
        <3> QED
            BY <1>1, <2>1, <3>1, RequestStep
    <2>3. CASE ~Missing(u, users)
        <3> DEFINE row == [users[u] EXCEPT !.deleted = deleted]
        <3>1. row \in Row /\ row.token[1] = u /\ row.routes = users[u].routes
            BY <1>2, <2>3 DEF Row, Missing
        <3>2. users' = [users EXCEPT ![u] = row] /\ u \in DOMAIN users
            BY <1>3, <2>3 DEF SetUserDeleted, Missing
        <3> HIDE DEF row
        <3> QED
            BY <1>1, <2>1, <3>1, <3>2, RowStep
    <2> QED
        BY <2>2, <2>3
<1>4. CASE ResetUserPassword(a, u)
    <2> DEFINE row == [users[u] EXCEPT !.password = secret + 1]
    <2>1. u \in DOMAIN users /\ UNCHANGED <<nodes, revision, active, process, form>>
        BY <1>4 DEF ResetUserPassword, Missing
    <2>2. secret' \in Nat
        BY SMT, <1>1, <1>4 DEF ResetUserPassword
    <2>3. row \in Row /\ row.token[1] = u /\ row.routes = users[u].routes
        BY SMT, <1>1, <1>2, <2>1 DEF Row
    <2>4. users' = [users EXCEPT ![u] = row]
        BY <1>4 DEF ResetUserPassword
    <2> HIDE DEF row
    <2> QED
        BY <2>1, <2>2, <2>3, <2>4, RowStep
<1>5. CASE ResetUserToken(a, u)
    <2> DEFINE row == [users[u] EXCEPT !.token = <<u, secret + 1>>]
    <2>1. u \in DOMAIN users /\ UNCHANGED <<nodes, revision, active, process, form>>
        BY <1>5 DEF ResetUserToken, Missing
    <2>2. secret' \in Nat
        BY SMT, <1>1, <1>5 DEF ResetUserToken
    <2>3. row \in Row /\ row.token[1] = u /\ row.routes = users[u].routes
        BY SMT, <1>1, <1>2, <2>1 DEF Row
    <2>4. users' = [users EXCEPT ![u] = row]
        BY <1>5 DEF ResetUserToken
    <2> HIDE DEF row
    <2> QED
        BY <2>1, <2>2, <2>3, <2>4, RowStep
<1> QED
    BY <1>3, <1>4, <1>5

\* A change of the nodes raises the revision.
LEMMA NodesStep ==
    ASSUME IndInv, FormType', NextRevision(TRUE),
           Table(users', Users, Row), TokenInv', Table(nodes', Nodes, NodeConfig),
           UNCHANGED <<active, process, secret>>
    PROVE  IndInv'
<1>1. revision' \in Nat /\ revision' > revision
    BY SMT DEF NextRevision, IndInv, TypeOK, StoreType
<1>2. StoreType'
    BY <1>1 DEF IndInv, TypeOK, StoreType, Table
<1>3. SavedStep
    BY <1>1, <1>2 DEF SavedStep, process
<1> QED
    BY <1>3, SavedKeeps

LEMMA NodeSteps ==
    ASSUME IndInv, NEW a \in Admins,
           SaveNode(a) \/ UpdateNode(a) \/ \E n \in Nodes : DeleteNode(a, n)
    PROVE  IndInv'
<1>1. /\ Table(users, Users, Row) /\ TokenInv /\ Table(nodes, Nodes, NodeConfig)
      /\ FormType
    BY DEF IndInv, TypeOK, StoreType
<1>2. CASE SaveNode(a) \/ UpdateNode(a)
    <2>1. form[a].node \in Nodes /\ form[a].config \in NodeConfig
        <3>1. form[a] \in NodeForm
            BY <1>1, <1>2, FormKinds DEF SaveNode, UpdateNode
        <3> QED
            BY <3>1 DEF NodeForm
    <2>2. Table(nodes', Nodes, NodeConfig)
        BY <1>1, <1>2, <2>1 DEF SaveNode, UpdateNode, Put, Table, Missing
    <2>3. NextRevision(TRUE) /\ Done(a) /\ UNCHANGED <<users, active, process, secret>>
        BY <1>2 DEF SaveNode, UpdateNode
    <2>4. FormType'
        BY <1>1, <2>3, FormSet DEF Done
    <2>5. Table(users', Users, Row) /\ TokenInv'
        BY <1>1, <2>3 DEF Table, TokenInv
    <2> QED
        BY <2>2, <2>3, <2>4, <2>5, NodesStep
<1>3. CASE \E n \in Nodes : DeleteNode(a, n)
    <2>0. PICK n \in Nodes : DeleteNode(a, n)
        BY <1>3
    <2>1. /\ NextRevision(TRUE) /\ UNCHANGED <<active, process, secret, form>>
          /\ users' = WithoutRoute(n) /\ nodes' = Without(nodes, n)
        BY <2>0 DEF DeleteNode
    <2>2. Table(nodes', Nodes, NodeConfig)
        BY <1>1, <2>1 DEF Table, Without, Restrict
    <2>3. \A u \in DOMAIN users :
             /\ [users[u] EXCEPT !.routes = @ \ {n}] \in Row
             /\ [users[u] EXCEPT !.routes = @ \ {n}].token = users[u].token
        BY <1>1 DEF Table, Row
    <2>4. Table(users', Users, Row) /\ TokenInv'
        BY <1>1, <2>1, <2>3 DEF Table, WithoutRoute, TokenInv
    <2>5. FormType'
        BY <1>1, <2>1 DEF FormType
    <2> QED
        BY <2>1, <2>2, <2>4, <2>5, NodesStep
<1> QED
    BY <1>2, <1>3

LEMMA LegacyStep ==
    ASSUME IndInv, MigrateLegacy \/ ReplaceLegacyUsers
    PROVE  IndInv'
<1>1. StoreType /\ FormType
    BY DEF IndInv, TypeOK
<1>2. \A u \in LegacyUsers : u \in Users /\ LegacyRow(u) \in Row /\ LegacyRow(u).token[1] = u
    BY ControlPlaneAssumption DEF LegacyRow, Row, Expiries, Routes
<1>3. Table(users', Users, Row) /\ TokenInv'
    <2>1. users' = [u \in LegacyUsers |-> LegacyRow(u)]
        BY DEF MigrateLegacy, ReplaceLegacyUsers, InsertLegacyUsers
    <2> QED
        BY <1>2, <2>1 DEF Table, TokenInv
<1>4. UNCHANGED <<active, process, form, secret>>
    BY DEF MigrateLegacy, ReplaceLegacyUsers
<1>5. FormType'
    BY <1>1, <1>4 DEF FormType
<1>6. CASE MigrateLegacy
    <2>1. Table(nodes', Nodes, NodeConfig)
        BY <1>1, <1>6, ControlPlaneAssumption DEF MigrateLegacy, Table,
           NodeConfig, StoreType
    <2>2. StoreType' /\ ~gateway.up
        BY <1>1, <1>3, <1>4, <1>6, <2>1 DEF MigrateLegacy, StoreType, Table
    <2>3. SavedStep
        BY <1>3, <1>4, <1>5, <2>2 DEF SavedStep, process
    <2> QED
        BY <2>3, SavedKeeps
<1>7. CASE ReplaceLegacyUsers
    <2>1. revision' \in Nat /\ revision' > revision
        BY SMT, <1>1, <1>7 DEF ReplaceLegacyUsers, NextRevision, StoreType
    <2>2. StoreType'
        BY <1>1, <1>3, <1>4, <1>7, <2>1 DEF ReplaceLegacyUsers, StoreType, Table
    <2>3. SavedStep
        BY <1>3, <1>4, <1>5, <2>1, <2>2 DEF SavedStep, process
    <2> QED
        BY <2>3, SavedKeeps
<1> QED
    BY <1>6, <1>7
----------------------------------------------------------------------------
\* The process.

\* What the store returns to the gateway.
LEMMA LoadedTypes ==
    ASSUME StoreType
    PROVE  /\ Table(LoadRuntimeUsers, Users, Entry) /\ DOMAIN LoadRuntimeUsers = DOMAIN users
           /\ \A u \in DOMAIN users : LoadRuntimeUsers[u].routes = users[u].routes
           /\ Table(LoadNodes, Nodes, NodeConfig)
<1>1. \A u \in DOMAIN users : users[u] \in Row
    BY DEF StoreType, Table
<1>2. \A u \in DOMAIN users :
         UserConfig(users[u]) \in Entry /\ UserConfig(users[u]).routes = users[u].routes
    BY <1>1 DEF Row, Entry, UserConfig
<1>3. DOMAIN users \subseteq Users
    BY DEF StoreType, Table
<1>4. Table(LoadNodes, Nodes, NodeConfig)
    BY DEF StoreType, Table, LoadNodes, Restrict
<1> QED
    BY <1>2, <1>3, <1>4 DEF LoadRuntimeUsers, Table

LEMMA StartStep ==
    ASSUME IndInv, Start
    PROVE  IndInv'
<1>1. StoreType /\ FormType /\ TokenInv
    BY DEF IndInv, TypeOK
<1>2. StoreType' /\ FormType' /\ TokenInv' /\ UNCHANGED <<users, nodes, revision>>
    BY <1>1 DEF Start, store, StoreType, FormType, TokenInv, Table
<1>3. /\ gateway'.up /\ gateway'.users = LoadRuntimeUsers /\ gateway'.nodes = LoadNodes
      /\ gateway'.revision = revision /\ gateway'.recorded = "no"
      /\ gateway' = [up |-> gateway'.up, users |-> gateway'.users, nodes |-> gateway'.nodes,
                     revision |-> gateway'.revision, recorded |-> gateway'.recorded]
      /\ loaded' = {}
    BY DEF Start
<1>4. /\ published'.users = LoadRuntimeUsers
      /\ published'.trojan = BuildTrojanCredentials(LoadRuntimeUsers)
    BY DEF Start, UpdateUsers
<1>5. ProcessType'
    BY <1>1, <1>3, <1>4, LoadedTypes DEF ProcessType, StoreType, Table
<1>6. PublishedInv'
    BY SMT, <1>3, <1>4 DEF PublishedInv, BuildTrojanCredentials
<1>7. LoadNodes' = LoadNodes
    BY <1>2 DEF LoadNodes
<1>8. Current'
    BY <1>1, <1>2, <1>3, <1>7, LoadedTypes DEF Current
<1>9. RevisionInv'
    BY SMT, <1>1, <1>2, <1>3, <1>8 DEF RevisionInv, StoreType
<1> QED
    BY <1>2, <1>5, <1>6, <1>9 DEF IndInv, TypeOK

LEMMA RecordStep ==
    ASSUME IndInv, SetActiveRevision
    PROVE  IndInv'
<1>1. UNCHANGED <<users, nodes, revision, published, loaded, form, secret>>
    BY DEF SetActiveRevision
<1>2. /\ gateway'.up = gateway.up /\ gateway'.users = gateway.users
      /\ gateway'.nodes = gateway.nodes /\ gateway'.revision = gateway.revision
      /\ gateway' = [up |-> gateway'.up, users |-> gateway'.users, nodes |-> gateway'.nodes,
                     revision |-> gateway'.revision, recorded |-> gateway'.recorded]
      /\ gateway.up /\ gateway'.recorded \in {"yes", "failed"}
      /\ active' = active \/ active' = gateway.revision
      /\ gateway'.recorded = "yes" => active' = gateway.revision
    <2>1. gateway = [up |-> gateway.up, users |-> gateway.users, nodes |-> gateway.nodes,
                     revision |-> gateway.revision, recorded |-> gateway.recorded]
        BY DEF IndInv, TypeOK, ProcessType
    <2> QED
        BY <2>1 DEF SetActiveRevision
<1>3. TypeOK'
    BY <1>1, <1>2 DEF IndInv, TypeOK, StoreType, FormType, ProcessType, Table
<1>4. TokenInv' /\ PublishedInv'
    BY <1>1, <1>2 DEF IndInv, TokenInv, PublishedInv
<1>5. LoadNodes' = LoadNodes
    BY <1>1 DEF LoadNodes
<1>6. RevisionInv'
    BY <1>1, <1>2, <1>5 DEF IndInv, RevisionInv, Current
<1> QED
    BY <1>3, <1>4, <1>6 DEF IndInv

\* A process that is down has no snapshot.
LEMMA DownTypes ==
    /\ Table(Empty, Users, Entry) /\ Table(Empty, Nodes, NodeConfig)
    /\ Table(Empty, Users, Row) /\ BuildTrojanCredentials(Empty) = {}
BY DEF Table, Empty, BuildTrojanCredentials

LEMMA ExitStep ==
    ASSUME IndInv, Exit
    PROVE  IndInv'
<1>1. UNCHANGED store /\ secret' = secret
    BY DEF Exit
<1>2. gateway' = Down /\ published' = [users |-> Empty, trojan |-> {}] /\ loaded' = {}
    BY DEF Exit
<1>3. FormType'
    BY DEF Exit, FormType
<1>4. StoreType' /\ TokenInv'
    BY <1>1 DEF IndInv, TypeOK, StoreType, TokenInv, Table, store
<1>5. ProcessType'
    BY <1>2, DownTypes DEF ProcessType, Down
<1>6. PublishedInv'
    BY <1>2, DownTypes DEF PublishedInv, Down, Empty
<1>7. RevisionInv'
    BY <1>2 DEF RevisionInv, Down
<1> QED
    BY <1>3, <1>4, <1>5, <1>6, <1>7 DEF IndInv, TypeOK

\* RefreshSnapshot keeps the users and the routes it was started with.
LEMMA RefreshKeeps ==
    ASSUME NEW startup, NEW fresh, Table(startup, Users, Entry), Table(fresh, Users, Entry)
    PROVE  LET us == RefreshSnapshot(startup, fresh)
           IN  /\ Table(us, Users, Entry) /\ DOMAIN us = DOMAIN startup
               /\ \A u \in DOMAIN startup : us[u].routes = startup[u].routes
<1>1. \A u \in DOMAIN startup :
         LET e == IF u \in DOMAIN fresh
                  THEN [fresh[u] EXCEPT !.routes = startup[u].routes]
                  ELSE [startup[u] EXCEPT !.disabled = TRUE]
         IN  e \in Entry /\ e.routes = startup[u].routes
    BY DEF Table, Entry
<1> QED
    BY <1>1 DEF Table, RefreshSnapshot

LEMMA RefreshStep ==
    ASSUME IndInv, RefreshRead \/ RefreshPublish
    PROVE  IndInv'
<1>1. UNCHANGED <<store, gateway, form, secret>>
    BY DEF RefreshRead, RefreshPublish
<1>2. StoreType' /\ FormType' /\ TokenInv'
    BY <1>1 DEF IndInv, TypeOK, StoreType, FormType, TokenInv, Table, store
<1>3. LoadNodes' = LoadNodes
    BY <1>1 DEF LoadNodes, store
<1>4. RevisionInv'
    BY <1>1, <1>3 DEF IndInv, RevisionInv, Current, store
<1>5. CASE RefreshRead
    <2>1. ProcessType'
        BY <1>1, <1>5, LoadedTypes DEF IndInv, TypeOK, ProcessType, RefreshRead
    <2>2. PublishedInv'
        BY <1>1, <1>5 DEF IndInv, PublishedInv, RefreshRead
    <2> QED
        BY <1>2, <1>4, <2>1, <2>2 DEF IndInv, TypeOK
<1>6. CASE RefreshPublish
    <2>1. PICK fresh \in loaded : UpdateUsers(RefreshSnapshot(gateway.users, fresh))
        BY <1>6 DEF RefreshPublish
    <2> DEFINE us == RefreshSnapshot(gateway.users, fresh)
    <2>2. /\ Table(us, Users, Entry) /\ DOMAIN us = DOMAIN gateway.users
          /\ \A u \in DOMAIN gateway.users : us[u].routes = gateway.users[u].routes
        BY RefreshKeeps DEF IndInv, TypeOK, ProcessType
    <2>3. published'.users = us /\ published'.trojan = BuildTrojanCredentials(us) /\ loaded' = {}
        BY <1>6, <2>1 DEF UpdateUsers, RefreshPublish
    <2> HIDE DEF us
    <2>4. ProcessType'
        BY <1>1, <2>2, <2>3 DEF IndInv, TypeOK, ProcessType
    <2>5. PublishedInv'
        BY SMT, <1>1, <2>2, <2>3 DEF PublishedInv, BuildTrojanCredentials
    <2> QED
        BY <1>2, <1>4, <2>4, <2>5 DEF IndInv, TypeOK
<1> QED
    BY <1>5, <1>6

\* Tick, a refresh that fails, and steps that change none of this.
LEMMA OtherStep ==
    ASSUME IndInv, UNCHANGED <<store, process, form, secret>>
    PROVE  IndInv'
<1>1. SavedStep
    BY DEF SavedStep, IndInv, TypeOK, StoreType, FormType, TokenInv, Table,
       store, process
<1> QED
    BY <1>1, SavedKeeps
----------------------------------------------------------------------------
LEMMA Initially ==
    ASSUME Init
    PROVE  IndInv
<1>1. TypeOK
    BY DownTypes DEF Init, TypeOK, StoreType, FormType, ProcessType, Down
<1>2. TokenInv
    BY DEF Init, TokenInv, Empty
<1>3. RevisionInv
    BY DEF Init, RevisionInv, Down
<1>4. PublishedInv
    BY DownTypes DEF Init, PublishedInv, Down, Empty
<1> QED
    BY <1>1, <1>2, <1>3, <1>4 DEF IndInv

\* The forms, by their statement.
LEMMA FormsStep ==
    ASSUME IndInv, NEW a \in Admins, UserForms(a) \/ NodeForms(a) \/ FormSteps(a)
    PROVE  IndInv'
<1>1. CASE UserForms(a)
    <2>1. PICK u \in Users :
             \/ \E rs \in RouteSets, e \in Expiries :
                    CreateUserForm(a, u, rs, e) \/ SaveUserForm(a, u, rs, e)
             \/ \E deleted \in BOOLEAN : SetUserDeleted(a, u, deleted)
             \/ ResetUserPassword(a, u) \/ ResetUserToken(a, u)
        BY <1>1 DEF UserForms
    <2>2. CASE \E rs \in RouteSets, e \in Expiries :
                  CreateUserForm(a, u, rs, e) \/ SaveUserForm(a, u, rs, e)
        BY <2>2, OpenedStep
    <2>3. CASE \E deleted \in BOOLEAN : SetUserDeleted(a, u, deleted)
        BY <2>3, LifecycleStep
    <2>4. CASE ResetUserPassword(a, u) \/ ResetUserToken(a, u)
        <3>1. TRUE \in BOOLEAN
            OBVIOUS
        <3> QED
            BY <2>4, <3>1, LifecycleStep
    <2> QED
        BY <2>1, <2>2, <2>3, <2>4
<1>2. CASE NodeForms(a)
    <2>1. PICK n \in Nodes :
             \/ \E enabled, keep \in BOOLEAN :
                    NewNodeForm(a, n, enabled) \/ EditNodeForm(a, n, enabled, keep)
             \/ DeleteNode(a, n)
        BY <1>2 DEF NodeForms
    <2>2. CASE \E enabled, keep \in BOOLEAN :
                  NewNodeForm(a, n, enabled) \/ EditNodeForm(a, n, enabled, keep)
        BY <2>2, NodeOpenedStep
    <2>3. CASE DeleteNode(a, n)
        BY <2>3, NodeSteps
    <2> QED
        BY <2>1, <2>2, <2>3
<1>3. CASE FormSteps(a)
    BY <1>3, ValidateStep, CreateUserStep, UpdateUserStep, NodeSteps
       DEF FormSteps
<1> QED
    BY <1>1, <1>2, <1>3

\* In every reachable state a token names one user, the running snapshot has
\* the routes and nodes of the tables while the revisions agree, and what the
\* authenticator publishes has the users and routes of that snapshot.
THEOREM Invariance == Spec => []IndInv
<1>1. Init => IndInv
    BY Initially
<1>2. IndInv /\ [Next]_vars => IndInv'
    <2> SUFFICES ASSUME IndInv, [Next]_vars
                 PROVE  IndInv'
        OBVIOUS
    <2>1. CASE UNCHANGED vars
        BY <2>1, OtherStep DEF vars
    <2>2. CASE Tick \/ RefreshFails
        BY <2>2, OtherStep DEF Tick, RefreshFails
    <2>3. CASE Next
        BY <2>2, <2>3, StartStep, RecordStep, ExitStep, RefreshStep,
           LegacyStep, FormsStep
           DEF Next
    <2> QED
        BY <2>1, <2>3
<1> QED
    BY <1>1, <1>2, PTL DEF Spec

\* Routes and nodes that differ from the running ones always show as a pending
\* restart: every form and import that changes them raises the revision
\* (NextRevision), and MigrateLegacy, which sets it, runs with no process up.
THEOREM PendingTheorem == Spec => []PendingRestartShown
<1>1. IndInv => PendingRestartShown
    <2> SUFFICES ASSUME IndInv, Stale, gateway.recorded = "yes", revision = active
                 PROVE  FALSE
        BY DEF PendingRestartShown
    <2>1. Current
        BY DEF IndInv, RevisionInv
    <2> DEFINE routes == [u \in DOMAIN gateway.users |-> gateway.users[u].routes]
               saved == [u \in DOMAIN users |-> users[u].routes]
               running == Restrict(gateway.nodes,
                              {n \in DOMAIN gateway.nodes : gateway.nodes[n].enabled})
    <2>2. routes = saved
        BY <2>1 DEF Current
    <2>3. running = LoadNodes
        BY <2>1 DEF Current, LoadNodes, Restrict
    <2>4. Topology(gateway.users, gateway.nodes) = [routes |-> routes, nodes |-> running]
        BY DEF Topology
    <2>5. Topology(users, nodes) = [routes |-> saved, nodes |-> LoadNodes]
        BY DEF Topology, LoadNodes
    <2> HIDE DEF routes, saved, running
    <2> QED
        BY <2>2, <2>3, <2>4, <2>5 DEF Stale
<1> QED
    BY <1>1, Invariance, PTL

\* The table of Trojan credentials is the one of the published users.
LEMMA TrojanMatches ==
    ASSUME IndInv, NEW u, NEW r, NEW p
    PROVE  AuthenticateTrojan(<<u, r, p>>) <=> Authenticate(u, r, p)
<1>1. published.trojan = BuildTrojanCredentials(published.users)
    BY DEF IndInv, PublishedInv
<1>2. <<u, r, p>> \in published.trojan
         <=> /\ u \in DOMAIN published.users
             /\ r \in published.users[u].routes /\ p = published.users[u].password
    BY SMT, <1>1 DEF BuildTrojanCredentials
<1> QED
    BY <1>2 DEF AuthenticateTrojan, Authenticate

\* No refresh, form or import lets a user in on a route that was not assigned
\* when the process started, and both protocols let in the same credentials.
THEOREM AuthorizedTheorem == Spec => []AuthorizedByStartup
<1>1. IndInv => AuthorizedByStartup
    <2> SUFFICES ASSUME IndInv
                 PROVE  AuthorizedByStartup
        OBVIOUS
    <2>1. \A u \in DOMAIN published.users :
             u \in DOMAIN gateway.users /\ published.users[u].routes = gateway.users[u].routes
        BY DEF IndInv, PublishedInv
    <2> QED
        BY <2>1, TrojanMatches DEF AuthorizedByStartup
<1> QED
    BY <1>1, Invariance, PTL

\* Every credential of a subscription document is accepted once the refresh
\* has published the user's password and while the user is active: the token
\* leads to one user, whose routes in the document are the published ones.
THEOREM SubscriptionTheorem == Spec => []SubscriptionWorks
<1>1. IndInv => SubscriptionWorks
    <2> SUFFICES ASSUME IndInv, NEW u \in DOMAIN users, NEW c \in Subscription(users[u].token)
                 PROVE  /\ c[2] \in DOMAIN gateway.nodes \cup {Direct}
                        /\ (published.users[u].password = c[3] /\ Active(published.users[u]))
                               => Authenticate(c[1], c[2], c[3])
        BY DEF SubscriptionWorks
    <2>0. PICK v \in FindUserByToken(users[u].token) \cap DOMAIN gateway.users :
             \E r \in gateway.users[v].routes \cap (DOMAIN gateway.nodes \cup {Direct}) :
                 c = <<v, r, users[v].password>>
        BY DEF Subscription
    <2>1. PICK r \in gateway.users[v].routes \cap (DOMAIN gateway.nodes \cup {Direct}) :
             c = <<v, r, users[v].password>>
        BY <2>0
    <2>2. c[1] = v /\ c[2] = r /\ c[3] = users[v].password
        BY <2>1
    <2>3. v = u
        BY <2>1 DEF FindUserByToken, IndInv, TokenInv
    <2>4. u \in DOMAIN published.users /\ r \in published.users[u].routes
        BY <2>1, <2>3 DEF IndInv, PublishedInv
    <2> QED
        BY <2>1, <2>2, <2>3, <2>4 DEF Authenticate
<1> QED
    BY <1>1, Invariance, PTL
=============================================================================
