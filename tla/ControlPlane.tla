---------------------------- MODULE ControlPlane ----------------------------
(***************************************************************************)
(* The tables of the control plane and the requests that write them:       *)
(* clients and their billing plans, accounts and memberships, squads and   *)
(* stacks, the tasks a run is started for, and the script that seeds the   *)
(* database.                                                               *)
(*                                                                         *)
(* A request reads the account of its token, resolves the client it acts   *)
(* for, reads the row it will change and commits, each in a step of its    *)
(* own; other requests commit in between.  Rows are keyed by the columns   *)
(* that are unique and never change (slug, e-mail, workspace and issue),   *)
(* so an INSERT is refused exactly when its key is there, and the request  *)
(* then ends as one that raises: Abort.  An UPDATE writes the columns      *)
(* whose new value differs from the one the session had loaded.            *)
(***************************************************************************)
EXTENDS Naturals, FiniteSets

CONSTANTS
    Slots,         \* coroutines that may serve requests at the same time
    MaxRequests,   \* bound: requests of one behaviour
    Zero, Root,    \* the client and the system admin the seed script creates
    SeedSquad,     \* the slug of the squad it creates
    Tenant, Admin, \* another client of the populated database, and its administrator
    Agents,        \* agent instances of that database: id -> [client, onboards]
    NewClients, NewUsers, Slugs, Issues, \* values that requests may name
    Roles, ClientEdits, PlanEdits, UserEdits, StackEdits, \* payloads
    STACK_PROFILES, \* the catalog of stack profiles in the source: slug -> text
    Workspace,     \* the Jira workspace of the seeded client
    None

Statuses == {"active", "paused", "archived"}

\* What the schemas of the requests let through; the values the source gives.
ASSUME ControlPlaneConstants ==
    /\ Zero # Tenant /\ Root # Admin
    /\ MaxRequests \in Nat
    /\ "CLIENT_ADMIN" \in Roles
    /\ \A e \in ClientEdits :
          /\ "archived" \notin DOMAIN e
          /\ "status" \in DOMAIN e => e.status \in Statuses \cup {None}
    /\ \A e \in UserEdits :
          /\ "role" \in DOMAIN e => e.role \in Roles
          /\ "active" \in DOMAIN e => e.active \in BOOLEAN

VARIABLES
    db,       \* the tables, each a function from keys to rows
    req,      \* the request each slot serves
    served,   \* requests begun
    runs,     \* background runs started: [agent, task, store]
    crossed   \* clients for which two changes of status overlapped

vars == <<db, req, served, runs, crossed>>

Client(url) == [status |-> "active", archived |-> FALSE, url |-> url]
Plan == [rate |-> 1, markup |-> 0]
Account(admin) == [admin |-> admin, active |-> TRUE, login |-> FALSE]
Member(role) == [role |-> role]
NewStack(parent) == [status |-> "manual", framework |-> None, name |-> 1, parent |-> parent]

\* The tables keyed by unique columns, and the columns that may change.
Columns == [clients |-> {"status", "archived", "url"}, plans |-> {"rate", "markup"},
            users |-> {"admin", "active", "login"}, members |-> {"role"},
            squads |-> {"manifest"}, stacks |-> {"status", "framework", "name", "parent"},
            tasks |-> {"client", "agent"}, profiles |-> {"text"}]
NoRows == [k \in {} |-> None]

Empty == [t \in DOMAIN Columns \cup {"agents", "templates"} |->
             IF t = "templates" THEN 0 ELSE NoRows]

\* After the seed, and a tenant with an administrator and a squad.  The list of
\* templates in the script has grown, and the texts of the profiles have changed:
\* such a database may lack the newest template and hold older texts.
Peopled(copies) ==
    [Empty EXCEPT
        !.clients = [c \in {Zero, Tenant} |-> Client(IF c = Zero THEN Workspace ELSE None)],
        !.plans = [c \in {Zero, Tenant} |-> Plan],
        !.users = [u \in {Root, Admin} |-> Account(u = Root)],
        !.members = [m \in {<<Zero, Root>>, <<Tenant, Admin>>} |-> Member("CLIENT_ADMIN")],
        !.squads = [q \in {<<Zero, SeedSquad>>, <<Tenant, SeedSquad>>} |->
                        [manifest |-> q[1] = Zero]],
        !.agents = Agents,
        !.profiles = [p \in DOMAIN STACK_PROFILES |-> [text |-> None]],
        !.templates = copies]

Idle == [op |-> "none", step |-> "free", client |-> None, role |-> None,
         url |-> None, seen |-> None]

Init ==
    /\ db \in {Empty, Peopled(0), Peopled(1)}
    /\ req = [s \in Slots |-> Idle]
    /\ served = 0 /\ runs = {} /\ crossed = {}

-----------------------------------------------------------------------------
(* Rows *)

Keys(t) == DOMAIN db[t]

\* f, and g wherever f says nothing.
Over(f, g) == [x \in DOMAIN f \cup DOMAIN g |-> IF x \in DOMAIN f THEN f[x] ELSE g[x]]

Put(rows, k, row) == Over([x \in {k} |-> row], rows)
With(d, t, k, row) == [d EXCEPT ![t] = Put(@, k, row)]

\* What a flush writes of payload p, for a row the session had loaded.
MergeWhole(row, loaded, p) == Over(p, loaded)
Merge(row, loaded, p) ==
    [f \in DOMAIN row |-> IF f \in DOMAIN p /\ p[f] # loaded[f] THEN p[f] ELSE row[f]]
Update(t, k, loaded, p) == With(db, t, k, Merge(db[t][k], loaded, p))

-----------------------------------------------------------------------------
(* Requests *)

AdminCalls ==
    [op : {"create_client"}, slug : NewClients]
    \cup [op : {"update_client"}, target : Keys("clients"), edit : ClientEdits]
    \cup [op : {"update_plan"}, target : Keys("plans"), edit : PlanEdits]
    \cup [op : {"create_user"}, target : Keys("clients"), email : NewUsers, role_asked : Roles]

TenantCalls ==
    [op : {"invite"}, email : NewUsers, role_asked : Roles]
    \cup [op : {"edit_user"}, user : Keys("users"), edit : UserEdits]
    \cup [op : {"create_squad"}, slug : Slugs]
    \cup [op : {"create_stack"}, squad : Keys("squads"), slug : Slugs,
          parent : DOMAIN STACK_PROFILES \cup {None}]
    \cup [op : {"update_stack"}, stack : Keys("stacks"), edit : StackEdits]
    \cup [op : {"archive_stack"}, stack : Keys("stacks")]
    \cup [op : {"trigger"}, agent : Keys("agents"), issue : Issues]

Begin(s, call) ==
    /\ req[s] = Idle /\ served < MaxRequests
    /\ req' = [req EXCEPT ![s] = Over(call, Idle)]
    /\ served' = served + 1
    /\ UNCHANGED <<db, runs, crossed>>

\* get_current_user, and require_system_admin on the administration's routes.
Authenticate(s) ==
    \E u \in Keys("users") :
        /\ db.users[u].active
        /\ \/ /\ db.users[u].admin
              /\ \E c \in AdminCalls : Begin(s, Over(c, [actor |-> u, step |-> "read"]))
           \/ \E c \in TenantCalls : Begin(s, Over(c, [actor |-> u, step |-> "context"]))

Login(s) ==
    \E u \in Keys("users") :
        /\ db.users[u].active
        /\ Begin(s, [op |-> "login", actor |-> u, step |-> "commit", seen |-> db.users[u]])

RunScript(s) == \E op \in {"seed", "seed_profiles"} : Begin(s, [op |-> op, step |-> "read"])

\* The clients a request of account u may act for, with the header X-Client-Id or without.
ContextsOf(u, header) ==
    IF db.users[u].admin
    THEN {c \in Keys("clients") : c = header}
    ELSE LET own == {c \in Keys("clients") : <<c, u>> \in Keys("members") /\ header \in {c, None}}
         IN  IF Cardinality(own) = 1 THEN own ELSE {}

RoleIn(u, c) == IF db.users[u].admin THEN "SYSTEM_ADMIN" ELSE db.members[<<c, u>>].role

\* Who may make each call; any member may start a run.
Allowed(op, role) ==
    CASE op = "create_squad" -> role \in {"CLIENT_ADMIN", "SYSTEM_ADMIN"}
      [] op = "trigger" -> TRUE
      [] OTHER -> role = "CLIENT_ADMIN"

Become(s, changes) == req' = [req EXCEPT ![s] = Over(changes, @)]

ResolveContext(s) ==
    /\ req[s].step = "context"
    /\ \E header \in Keys("clients") \cup {None} :
       \E c \in ContextsOf(req[s].actor, header) :
          LET role == RoleIn(req[s].actor, c) IN
          /\ Allowed(req[s].op, role)
          /\ Become(s, [step |-> "read", client |-> c, role |-> role, url |-> db.clients[c].url])
    /\ UNCHANGED <<db, served, runs, crossed>>

\* The request raises, is refused by a constraint, or its process dies: the
\* session closes and what it had not committed is rolled back.
Abort(s) ==
    /\ req[s] # Idle
    /\ req' = [req EXCEPT ![s] = Idle]
    /\ UNCHANGED <<db, served, runs, crossed>>

Reading(s, op) == req[s].op = op /\ req[s].step = "read"
Commits(s, op) == req[s].op = op /\ req[s].step = "commit"

Keeps(s, row) ==
    /\ Become(s, [step |-> "commit", seen |-> row])
    /\ UNCHANGED <<db, served, runs, crossed>>

\* The transaction becomes visible and the request ends.
Store(s, d) ==
    /\ db' = d
    /\ req' = [req EXCEPT ![s] = Idle]
    /\ UNCHANGED <<served, runs>>

-----------------------------------------------------------------------------
(* Clients and plans, for the system administrator *)

ReadNewClient(s) ==
    /\ Reading(s, "create_client") /\ req[s].slug \notin Keys("clients")
    /\ Keeps(s, None)

CreateClient(s) ==
    /\ Commits(s, "create_client")
    /\ req[s].slug \notin Keys("clients")
    /\ Store(s, With(With(db, "clients", req[s].slug, Client(None)), "plans", req[s].slug, Plan))
    /\ UNCHANGED crossed

\* archived_at follows status: set when it becomes archived, cleared otherwise.
DatedOnArchive(p) ==
    IF "status" \in DOMAIN p /\ p.status = "archived" THEN Over(p, [archived |-> TRUE]) ELSE p
Dated(p) ==
    IF "status" \in DOMAIN p THEN Over(p, [archived |-> p.status = "archived"]) ELSE p

ReadClient(s) == Reading(s, "update_client") /\ Keeps(s, db.clients[req[s].target])

\* Request r is about to change the status of client c.
ChangesStatus(r, c) ==
    /\ r.op = "update_client" /\ r.step = "commit"
    /\ r.target = c /\ "status" \in DOMAIN r.edit

\* NOT NULL: an explicit null is refused for the status.
UpdateClient(s) ==
    LET c == req[s].target
        p == Dated(req[s].edit) IN
    /\ Commits(s, "update_client")
    /\ ChangesStatus(req[s], c) => p.status # None
    /\ Store(s, Update("clients", c, req[s].seen, p))
    /\ crossed' = IF /\ ChangesStatus(req[s], c)
                     /\ \E o \in Slots \ {s} : ChangesStatus(req[o], c)
                  THEN crossed \cup {c} ELSE crossed

ReadPlan(s) == Reading(s, "update_plan") /\ Keeps(s, db.plans[req[s].target])

UpdatePlan(s) ==
    /\ Commits(s, "update_plan")
    /\ \A f \in DOMAIN req[s].edit : req[s].edit[f] # None
    /\ Store(s, Update("plans", req[s].target, req[s].seen, req[s].edit))
    /\ UNCHANGED crossed

-----------------------------------------------------------------------------
(* Accounts *)

ReadNewUser(s) ==
    /\ Reading(s, "create_user") \/ Reading(s, "invite")
    /\ req[s].email \notin Keys("users")
    /\ Keeps(s, None)

\* Account and membership in one transaction.
AccountWithMembership(client, r) ==
    With(With(db, "users", r.email, Account(FALSE)),
         "members", <<client, r.email>>, Member(r.role_asked))

CreateClientUser(s) ==
    /\ Commits(s, "create_user") /\ req[s].email \notin Keys("users")
    /\ Store(s, AccountWithMembership(req[s].target, req[s]))
    /\ UNCHANGED crossed

InviteUser(s) ==
    /\ Commits(s, "invite") /\ req[s].email \notin Keys("users")
    /\ Store(s, AccountWithMembership(req[s].client, req[s]))
    /\ UNCHANGED crossed

\* Memberships of user u that an administrator of client c may change.
AnyMembership(c, u) == {m \in Keys("members") : m[2] = u}
MembershipsIn(c, u) == {m \in Keys("members") : m = <<c, u>>}

\* An administrator who edits himself compares with the rows his session
\* loaded to authenticate him.
ReadUser(s) ==
    LET r == req[s] IN
    /\ Reading(s, "edit_user")
    /\ \E m \in MembershipsIn(r.client, r.user) :
          Keeps(s, IF r.user = r.actor
                   THEN [member |-> m, role |-> Member(r.role),
                         user |-> [db.users[r.user] EXCEPT !.active = TRUE]]
                   ELSE [member |-> m, role |-> db.members[m], user |-> db.users[r.user]])

UpdateUser(s) ==
    LET r == req[s]
        m == r.seen.member IN
    /\ Commits(s, "edit_user")
    /\ Store(s, [db EXCEPT !.users[r.user] = Merge(@, r.seen.user, r.edit),
                           !.members[m] = Merge(@, r.seen.role, r.edit)])
    /\ UNCHANGED crossed

CommitLogin(s) ==
    /\ Commits(s, "login")
    /\ Store(s, Update("users", req[s].actor, req[s].seen, [login |-> TRUE]))
    /\ UNCHANGED crossed

-----------------------------------------------------------------------------
(* Squads and stacks *)

ReadNewSquad(s) ==
    /\ Reading(s, "create_squad") /\ <<req[s].client, req[s].slug>> \notin Keys("squads")
    /\ Keeps(s, None)

CreateSquad(s) ==
    /\ Commits(s, "create_squad")
    /\ <<req[s].client, req[s].slug>> \notin Keys("squads")
    /\ Store(s, With(db, "squads", <<req[s].client, req[s].slug>>, [manifest |-> FALSE]))
    /\ UNCHANGED crossed

\* The squad of the URL must be the client's.
ResolveSquad(s, q) == q \in Keys("squads") /\ q[1] = req[s].client

\* A slug that is not in the catalog leaves the stack without a parent.
ParentProfile(slug) == IF slug \in Keys("profiles") THEN slug ELSE None

ReadNewStack(s) ==
    /\ Reading(s, "create_stack") /\ ResolveSquad(s, req[s].squad)
    /\ <<req[s].squad, req[s].slug>> \notin Keys("stacks")
    /\ Keeps(s, ParentProfile(req[s].parent))

CreateStack(s) ==
    LET k == <<req[s].squad, req[s].slug>> IN
    /\ Commits(s, "create_stack") /\ k \notin Keys("stacks")
    /\ Store(s, With(db, "stacks", k, NewStack(req[s].seen)))
    /\ UNCHANGED crossed

ReadStack(s) ==
    /\ Reading(s, "update_stack") \/ Reading(s, "archive_stack")
    /\ ResolveSquad(s, req[s].stack[1])
    /\ Keeps(s, db.stacks[req[s].stack])

UpdateStack(s) ==
    /\ Commits(s, "update_stack")
    /\ "name" \in DOMAIN req[s].edit => req[s].edit.name # None
    /\ Store(s, Update("stacks", req[s].stack, req[s].seen, req[s].edit))
    /\ UNCHANGED crossed

ArchiveStack(s) ==
    /\ Commits(s, "archive_stack")
    /\ Store(s, Update("stacks", req[s].stack, req[s].seen, [status |-> "archived"]))
    /\ UNCHANGED crossed

-----------------------------------------------------------------------------
(* Starting a run of an agent on a Jira issue *)

TaskOf(r) == <<r.url, r.issue>>

\* The route names a client, which must be the context's, and one of its agents.
OwnAgent(r) == db.agents[r.agent].client = r.client

\* The task is looked up with the client's id; the workspace is that of the
\* client row the context loaded.
ReadTask(s) ==
    LET r == req[s]
        found == {k \in Keys("tasks") : k = TaskOf(r) /\ db.tasks[k].client = r.client} IN
    /\ Reading(s, "trigger") /\ OwnAgent(r)
    /\ Keeps(s, IF found = {} THEN None ELSE db.tasks[TaskOf(r)])

\* jira_workspace_url is NOT NULL, and the unique key has no client in it.
CommitTask(s) ==
    LET r == req[s] IN
    /\ Commits(s, "trigger")
    /\ \/ /\ r.seen = None /\ r.url # None /\ TaskOf(r) \notin Keys("tasks")
          /\ db' = With(db, "tasks", TaskOf(r), [client |-> r.client, agent |-> r.agent])
       \/ /\ r.seen # None
          /\ db' = Update("tasks", TaskOf(r), r.seen, [agent |-> r.agent])
    /\ Become(s, [step |-> "launch"])
    /\ UNCHANGED <<served, runs, crossed>>

\* An onboarding analyst gets a memory store: no row of one is ever committed,
\* so the lookup finds none and another is created, unless Anthropic refuses.
StoresFor(agent) == IF db.agents[agent].onboards THEN {"created", None} ELSE {None}

Launch(s) ==
    /\ req[s].step = "launch"
    /\ \E store \in StoresFor(req[s].agent) :
          runs' = runs \cup {[agent |-> req[s].agent, task |-> TaskOf(req[s]), store |-> store]}
    /\ req' = [req EXCEPT ![s] = Idle]
    /\ UNCHANGED <<db, served, crossed>>

-----------------------------------------------------------------------------
(* The seed scripts: one transaction that adds the rows it does not find *)

SeedRow == [clients |-> [key |-> Zero, row |-> Client(Workspace)],
            plans   |-> [key |-> Zero, row |-> Plan],
            users   |-> [key |-> Root, row |-> Account(TRUE)],
            members |-> [key |-> <<Zero, Root>>, row |-> Member("CLIENT_ADMIN")],
            squads  |-> [key |-> <<Zero, SeedSquad>>, row |-> [manifest |-> TRUE]]]
Missing == {t \in DOMAIN SeedRow : SeedRow[t].key \notin Keys(t)}

\* A squad that is there but has no first version of its manifest gets one.
NeedsManifest ==
    LET q == <<Zero, SeedSquad>> IN q \in Keys("squads") /\ ~db.squads[q].manifest

\* scalar_one_or_none raises when it meets two copies of a template.
ReadSeed(s) ==
    /\ Reading(s, "seed") /\ db.templates < 2
    /\ Keeps(s, [missing |-> Missing, manifest |-> NeedsManifest, template |-> db.templates = 0])

Added(d, tables) ==
    [t \in DOMAIN d |->
        IF t \in tables THEN Put(d[t], SeedRow[t].key, SeedRow[t].row) ELSE d[t]]

\* client_id of a system template is NULL, and NULLs do not clash in a UNIQUE key.
CommitSeed(s) ==
    LET todo == req[s].seen
        d == Added(db, todo.missing) IN
    /\ Commits(s, "seed")
    /\ \A t \in todo.missing : SeedRow[t].key \notin Keys(t)
    /\ Store(s, [d EXCEPT !.templates = @ + (IF todo.template THEN 1 ELSE 0),
                          !.squads = IF todo.manifest
                                     THEN [@ EXCEPT ![<<Zero, SeedSquad>>].manifest = TRUE]
                                     ELSE @])
    /\ UNCHANGED crossed

\* The catalog's script also brings the texts it finds up to date.
ReadProfiles(s) == Reading(s, "seed_profiles") /\ Keeps(s, db.profiles)

CommitProfiles(s) ==
    LET old == req[s].seen
        new == DOMAIN STACK_PROFILES \ DOMAIN old
        Text(p) == [text |-> STACK_PROFILES[p]] IN
    /\ Commits(s, "seed_profiles")
    /\ new \cap Keys("profiles") = {}
    /\ Store(s, [db EXCEPT !.profiles =
                    [p \in DOMAIN @ \cup new |->
                        IF p \in new THEN Text(p) ELSE Merge(@[p], old[p], Text(p))]])
    /\ UNCHANGED crossed

-----------------------------------------------------------------------------
Next ==
    \E s \in Slots :
        \/ Authenticate(s) \/ Login(s) \/ RunScript(s) \/ ResolveContext(s) \/ Abort(s)
        \/ ReadNewClient(s) \/ CreateClient(s) \/ ReadClient(s) \/ UpdateClient(s)
        \/ ReadPlan(s) \/ UpdatePlan(s)
        \/ ReadNewUser(s) \/ CreateClientUser(s) \/ InviteUser(s)
        \/ ReadUser(s) \/ UpdateUser(s) \/ CommitLogin(s)
        \/ ReadNewSquad(s) \/ CreateSquad(s)
        \/ ReadNewStack(s) \/ CreateStack(s) \/ ReadStack(s) \/ UpdateStack(s) \/ ArchiveStack(s)
        \/ ReadTask(s) \/ CommitTask(s) \/ Launch(s)
        \/ ReadSeed(s) \/ CommitSeed(s)
        \/ ReadProfiles(s) \/ CommitProfiles(s)

Spec == Init /\ [][Next]_vars

-----------------------------------------------------------------------------
(* Properties *)

\* A row has the columns of its table, with values the code can read.
RowTyped(t, row) ==
    /\ DOMAIN row = Columns[t]
    /\ t = "clients" => row.status \in Statuses
    /\ t = "users" => row.active \in BOOLEAN
    /\ t = "members" => row.role \in Roles

TablesTyped(d) ==
    /\ DOMAIN d = DOMAIN Columns \cup {"agents", "templates"}
    /\ \A t \in DOMAIN Columns : \A k \in DOMAIN d[t] : RowTyped(t, d[t][k])
    /\ d.templates \in Nat

\* What the body, the path and the token of a request name, and the scripts nothing.
Fields ==
    [none |-> {}, seed |-> {}, seed_profiles |-> {}, login |-> {"actor"},
     create_client |-> {"actor", "slug"},
     update_client |-> {"actor", "target", "edit"}, update_plan |-> {"actor", "target", "edit"},
     create_user |-> {"actor", "target", "email", "role_asked"},
     invite |-> {"actor", "email", "role_asked"}, edit_user |-> {"actor", "user", "edit"},
     create_squad |-> {"actor", "slug"}, create_stack |-> {"actor", "squad", "slug", "parent"},
     update_stack |-> {"actor", "stack", "edit"}, archive_stack |-> {"actor", "stack"},
     trigger |-> {"actor", "agent", "issue"}]

RequestTyped(r) ==
    /\ r.op \in DOMAIN Fields /\ DOMAIN r = DOMAIN Idle \cup Fields[r.op]
    /\ r.step \in {"free", "context", "read", "commit", "launch"}
    /\ r.op = "update_client" => r.edit \in ClientEdits
    /\ r.op = "edit_user" => r.edit \in UserEdits
    /\ r.op \in {"create_user", "invite"} => r.role_asked \in Roles

TypeOK ==
    /\ TablesTyped(db)
    /\ DOMAIN req = Slots /\ \A s \in Slots : RequestTyped(req[s])
    /\ served \in 0..MaxRequests /\ crossed \subseteq Keys("clients")

\* An account belongs to exactly one tenant, which exists.
OneTenantEach ==
    \A u \in Keys("users") :
        \E c \in Keys("clients") : {m \in Keys("members") : m[2] = u} = {<<c, u>>}

\* Every client has a plan to be billed by.
PlanEach == Keys("plans") = Keys("clients")

\* A client is dated as archived exactly while it is archived, unless two
\* changes of its status overlapped.
ArchivedDated ==
    \A c \in Keys("clients") \ crossed :
        db.clients[c].archived <=> db.clients[c].status = "archived"

\* A run that was started has a committed task, of the client of its agent.
RunsBacked ==
    \A r \in runs : /\ r.task \in Keys("tasks")
                    /\ db.tasks[r.task].client = db.agents[r.agent].client

\* A membership is of an account in a client, and the account of the seed comes
\* before all others: before it nobody has a token.
MembersKnown ==
    \A m \in Keys("members") : \E c \in Keys("clients"), u \in Keys("users") : m = <<c, u>>
RootFirst == Keys("users") # {} => Root \in Keys("users") /\ <<Zero, Root>> \in Keys("members")

\* The account that sends request r, and the row of tables d that it names, were
\* there when it came; no row is ever deleted.
TargetThere(d, r) ==
    /\ "actor" \in Fields[r.op] => r.actor \in DOMAIN d.users
    /\ r.op \in {"update_client", "create_user"} => r.target \in DOMAIN d.clients
    /\ r.op = "update_plan" => r.target \in DOMAIN d.plans
    /\ r.op = "edit_user" => r.user \in DOMAIN d.users
    /\ r.op \in {"update_stack", "archive_stack"} => r.stack \in DOMAIN d.stacks

\* What it has read belongs to the client it acts for.
InContext(d, r) ==
    /\ r.op = "invite" /\ r.step \in {"read", "commit"} => r.client \in DOMAIN d.clients
    /\ r.op = "edit_user" /\ r.step = "commit" =>
         r.seen.member = <<r.client, r.user>> /\ r.seen.member \in DOMAIN d.members
    /\ r.op = "create_stack" /\ r.step = "commit" => r.squad[1] = r.client
    /\ r.op \in {"update_stack", "archive_stack"} /\ r.step = "commit" =>
         r.stack[1][1] = r.client
    /\ r.op = "trigger" /\ r.step \in {"commit", "launch"} =>
         d.agents[r.agent].client = r.client
    /\ r.op = "trigger" /\ (r.step = "launch" \/ (r.step = "commit" /\ r.seen # None)) =>
         TaskOf(r) \in DOMAIN d.tasks /\ d.tasks[TaskOf(r)].client = r.client
    /\ r.step = "launch" => r.op = "trigger"

\* If it is about to change the status of a client, it has seen it as it is,
\* unless another change of it overlapped.
StatusSeen(d, overlapped, r) ==
    \A c \in DOMAIN d.clients \ overlapped :
        ChangesStatus(r, c) => /\ r.seen.status = d.clients[c].status
                               /\ r.seen.archived = d.clients[c].archived

\* The seed adds a client with its plan, and an account with its membership.
SeedWhole(d, r) ==
    r.op = "seed" /\ r.step = "commit" =>
        /\ r.seen.missing \subseteq DOMAIN SeedRow
        /\ "clients" \in r.seen.missing <=> "plans" \in r.seen.missing
        /\ "users" \in r.seen.missing <=> "members" \in r.seen.missing
        /\ "clients" \notin r.seen.missing => Zero \in DOMAIN d.clients

Fits(d, overlapped, r) ==
    TargetThere(d, r) /\ InContext(d, r) /\ StatusSeen(d, overlapped, r) /\ SeedWhole(d, r)

\* What the control plane's tables keep, whatever requests cross
\* (create_user_for_client, create_client, update_client, trigger_managed_agent_run),
\* and what the requests under way have to do with them.
IInv ==
    /\ TypeOK /\ OneTenantEach /\ PlanEach /\ ArchivedDated /\ RunsBacked
    /\ MembersKnown /\ RootFirst
    /\ \A s \in Slots : Fits(db, crossed, req[s])

\* The client a row belongs to; an account belongs to the client of its membership.
Owner(d, t, k) ==
    CASE t \in {"clients", "plans", "agents"} -> IF t = "agents" THEN d[t][k].client ELSE k
      [] t = "users" -> (CHOOSE m \in DOMAIN d.members : m[2] = k)[1]
      [] t \in {"members", "squads"} -> k[1]
      [] t = "stacks" -> k[1][1]
      [] t = "tasks" -> d[t][k].client

\* Slot s is committing a request entitled to write rows of client c, as its
\* session saw it: made in the context of c, by the administration, by the
\* seed, or by the account itself when it logs in.
EntitledTo(s, c) ==
    LET r == req[s] IN
    /\ r.step = "commit"
    /\ \/ r.client = c
       \/ r.op = "create_client" /\ r.slug = c
       \/ r.op \in {"update_client", "update_plan", "create_user"} /\ r.target = c
       \/ r.op = "seed" /\ c = Zero
       \/ r.op = "login" /\ <<c, r.actor>> \in Keys("members")

Tables == DOMAIN db \ {"templates"}
Owned == Tables \ {"profiles"}

\* A row of a tenant appears or changes only by a request entitled to that tenant
\* (require_client_context, _resolve_squad, update_client_user).
TenantKept ==
    [][\A t \in Owned : \A k \in DOMAIN db'[t] :
          (k \notin Keys(t) \/ db[t][k] # db'[t][k])
             => \E s \in Slots : req'[s] # req[s] /\ EntitledTo(s, Owner(db', t, k))]_vars

\* The fields a request names, with the values it asks for in row k.
Asked(r, k) ==
    CASE r.op = "update_client" -> Dated(r.edit)
      [] r.op \in {"update_plan", "edit_user", "update_stack"} -> r.edit
      [] r.op = "archive_stack" -> [status |-> "archived"]
      [] r.op = "login" -> [login |-> TRUE]
      [] r.op = "trigger" -> [agent |-> r.agent]
      [] r.op = "seed" -> [manifest |-> TRUE]
      [] r.op = "seed_profiles" -> [text |-> STACK_PROFILES[k]]
      [] OTHER -> << >>

\* A committed field changes only into the value that the committing request
\* asked for: a change made meanwhile to another field of the row is kept, and
\* no row disappears (update_client, update_stack, update_client_user, login).
EditsKept ==
    [][\A t \in Tables : \A k \in Keys(t) :
          /\ k \in DOMAIN db'[t]
          /\ \A f \in DOMAIN db[t][k] :
                db'[t][k][f] # db[t][k][f]
                   => \E s \in Slots : /\ req'[s] # req[s] /\ req[s].step = "commit"
                                       /\ f \in DOMAIN Asked(req[s], k)
                                       /\ db'[t][k][f] = Asked(req[s], k)[f]]_vars
=============================================================================
