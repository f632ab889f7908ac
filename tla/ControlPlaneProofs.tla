-------------------------- MODULE ControlPlaneProofs --------------------------
(***************************************************************************)
(* Proofs about ControlPlane, for every number of coroutines, requests,    *)
(* clients, accounts and payloads: its inductive invariant, and that rows  *)
(* change only by whom they may be changed by, and only as was asked for.  *)
(***************************************************************************)
EXTENDS ControlPlane, FiniteSetTheorems, TLAPS

-----------------------------------------------------------------------------
(* Rows and tables.                                                        *)

LEMMA OverValue ==
  ASSUME NEW f, NEW g
  PROVE  /\ DOMAIN Over(f, g) = DOMAIN f \cup DOMAIN g
         /\ \A x \in DOMAIN f : Over(f, g)[x] = f[x]
         /\ \A x \in DOMAIN g \ DOMAIN f : Over(f, g)[x] = g[x]
  BY DEF Over

LEMMA PutValue ==
  ASSUME NEW rows, NEW k, NEW row
  PROVE  Put(rows, k, row) = [j \in DOMAIN rows \cup {k} |-> IF j = k THEN row ELSE rows[j]]
  BY DEF Put, Over

\* The tables have names of their own.
LEMMA TableNames ==
  /\ DOMAIN Columns = {"clients", "plans", "users", "members", "squads", "stacks",
                       "tasks", "profiles"}
  /\ DOMAIN SeedRow = {"clients", "plans", "users", "members", "squads"}
  BY DEF Columns, SeedRow

\* One row is written, and every other one stays.
LEMMA WithRows ==
  ASSUME NEW d, NEW t \in DOMAIN d, NEW k, NEW row
  PROVE  /\ DOMAIN With(d, t, k, row) = DOMAIN d
         /\ DOMAIN With(d, t, k, row)[t] = DOMAIN d[t] \cup {k}
         /\ With(d, t, k, row)[t][k] = row
         /\ \A j \in DOMAIN d[t] \ {k} : With(d, t, k, row)[t][j] = d[t][j]
         /\ \A u \in DOMAIN d \ {t} : With(d, t, k, row)[u] = d[u]
<1>1. /\ DOMAIN With(d, t, k, row) = DOMAIN d
      /\ With(d, t, k, row)[t] = Put(d[t], k, row)
      /\ \A u \in DOMAIN d \ {t} : With(d, t, k, row)[u] = d[u]
  BY DEF With
<1>2. Put(d[t], k, row)
        = [j \in DOMAIN d[t] \cup {k} |-> IF j = k THEN row ELSE d[t][j]]
  BY PutValue
<1> QED
  BY <1>1, <1>2

\* A flush writes what was asked for, or leaves what is there.
LEMMA MergeValue ==
  ASSUME NEW row, NEW loaded, NEW p
  PROVE  /\ DOMAIN Merge(row, loaded, p) = DOMAIN row
         /\ \A f \in DOMAIN row :
              \/ Merge(row, loaded, p)[f] = row[f]
              \/ f \in DOMAIN p /\ Merge(row, loaded, p)[f] = p[f]
         /\ \A f \in DOMAIN row \ DOMAIN p : Merge(row, loaded, p)[f] = row[f]
  BY DEF Merge

LEMMA PutTyped ==
  ASSUME NEW d, TablesTyped(d), NEW t \in DOMAIN Columns, NEW k, NEW row, RowTyped(t, row)
  PROVE  TablesTyped(With(d, t, k, row))
<1>1. t \in DOMAIN d /\ t # "templates" /\ "templates" \in DOMAIN d
  BY TableNames DEF TablesTyped
<1>2. /\ DOMAIN With(d, t, k, row) = DOMAIN d
      /\ DOMAIN With(d, t, k, row)[t] = DOMAIN d[t] \cup {k}
      /\ With(d, t, k, row)[t][k] = row
      /\ \A j \in DOMAIN d[t] \ {k} : With(d, t, k, row)[t][j] = d[t][j]
      /\ \A u \in DOMAIN d \ {t} : With(d, t, k, row)[u] = d[u]
  BY <1>1, WithRows
<1>3. ASSUME NEW u \in DOMAIN Columns, NEW j \in DOMAIN With(d, t, k, row)[u]
      PROVE  RowTyped(u, With(d, t, k, row)[u][j])
  BY <1>2 DEF TablesTyped
<1>4. DOMAIN With(d, t, k, row) = DOMAIN Columns \cup {"agents", "templates"}
  BY <1>2 DEF TablesTyped
<1>5. With(d, t, k, row).templates \in Nat
  BY <1>1, <1>2 DEF TablesTyped
<1> QED
  BY <1>3, <1>4, <1>5 DEF TablesTyped

\* What is asked of a row leaves it a row of its table.
LEMMA MergeTyped ==
  ASSUME NEW t, NEW row, RowTyped(t, row), NEW loaded, NEW p,
         t = "clients" /\ "status" \in DOMAIN p => p.status \in Statuses,
         t = "users" /\ "active" \in DOMAIN p => p.active \in BOOLEAN,
         t = "members" /\ "role" \in DOMAIN p => p.role \in Roles
  PROVE  RowTyped(t, Merge(row, loaded, p))
<1>1. /\ DOMAIN Merge(row, loaded, p) = DOMAIN row
      /\ \A f \in DOMAIN row :
           \/ Merge(row, loaded, p)[f] = row[f]
           \/ f \in DOMAIN p /\ Merge(row, loaded, p)[f] = p[f]
  BY MergeValue
<1>2. CASE t = "clients"
  BY <1>1, <1>2 DEF RowTyped, Columns
<1>3. CASE t = "users"
  BY <1>1, <1>3 DEF RowTyped, Columns
<1>4. CASE t = "members"
  BY <1>1, <1>4 DEF RowTyped, Columns
<1> QED
  BY <1>1, <1>2, <1>3, <1>4 DEF RowTyped

\* No row goes away, and no task or agent changes its client.
Grows(d, e) ==
  /\ \A t \in DOMAIN Columns : DOMAIN d[t] \subseteq DOMAIN e[t]
  /\ e.agents = d.agents
  /\ \A k \in DOMAIN d.tasks : e.tasks[k].client = d.tasks[k].client

\* The clients there were keep their status and its date.
SameStatus(d, e) ==
  \A c \in DOMAIN d.clients : /\ e.clients[c].status = d.clients[c].status
                              /\ e.clients[c].archived = d.clients[c].archived

SameKeys(d, e) ==
  \A t \in {"clients", "plans", "users", "members"} : DOMAIN e[t] = DOMAIN d[t]

LEMMA WithGrows ==
  ASSUME NEW d, TablesTyped(d), NEW t \in DOMAIN Columns, NEW k, NEW row,
         t = "tasks" /\ k \in DOMAIN d.tasks => row.client = d.tasks[k].client
  PROVE  Grows(d, With(d, t, k, row))
<1>1. /\ t \in DOMAIN d /\ t # "agents"
      /\ {"agents", "tasks"} \subseteq DOMAIN d /\ DOMAIN Columns \subseteq DOMAIN d
  BY TableNames DEF TablesTyped
<1>2. /\ DOMAIN With(d, t, k, row)[t] = DOMAIN d[t] \cup {k}
      /\ With(d, t, k, row)[t][k] = row
      /\ \A j \in DOMAIN d[t] \ {k} : With(d, t, k, row)[t][j] = d[t][j]
      /\ \A u \in DOMAIN d \ {t} : With(d, t, k, row)[u] = d[u]
  BY <1>1, WithRows
<1>3. \A u \in DOMAIN Columns : DOMAIN d[u] \subseteq DOMAIN With(d, t, k, row)[u]
  BY <1>1, <1>2
<1>4. \A j \in DOMAIN d.tasks : With(d, t, k, row).tasks[j].client = d.tasks[j].client
  BY <1>1, <1>2
<1> QED
  BY <1>1, <1>2, <1>3, <1>4 DEF Grows

LEMMA GrowsOn ==
  ASSUME NEW d, NEW e, NEW g, Grows(d, e), Grows(e, g)
  PROVE  Grows(d, g)
  BY TableNames DEF Grows
-----------------------------------------------------------------------------
(* Requests.                                                               *)

LEMMA FieldNames ==
  /\ DOMAIN Idle = {"op", "step", "client", "role", "url", "seen"}
  /\ DOMAIN Fields = {"none", "seed", "seed_profiles", "login", "create_client",
                      "update_client", "update_plan", "create_user", "invite", "edit_user",
                      "create_squad", "create_stack", "update_stack", "archive_stack", "trigger"}
  /\ \A o \in DOMAIN Fields : Fields[o] \cap DOMAIN Idle = {}
  BY DEF Idle, Fields

LEMMA IdleFits ==
  ASSUME NEW d, NEW x
  PROVE  RequestTyped(Idle) /\ Fits(d, x, Idle)
<1>1. Idle.op = "none" /\ Idle.step = "free" /\ Fields["none"] = {}
  BY DEF Idle, Fields
<1>2. RequestTyped(Idle)
  BY <1>1, FieldNames DEF RequestTyped
<1> QED
  BY <1>1, <1>2 DEF Fits, TargetThere, InContext, StatusSeen, ChangesStatus, SeedWhole

\* What a step of a request changes of its own fields, and what it leaves.
LEMMA Became ==
  ASSUME NEW r, RequestTyped(r), NEW ch, DOMAIN ch \subseteq DOMAIN Idle \ {"op"}
  PROVE  /\ DOMAIN Over(ch, r) = DOMAIN r /\ Over(ch, r).op = r.op
         /\ \A f \in DOMAIN ch : Over(ch, r)[f] = ch[f]
         /\ \A f \in DOMAIN r \ DOMAIN ch : Over(ch, r)[f] = r[f]
         /\ \A f \in Fields[r.op] : Over(ch, r)[f] = r[f]
<1>1. /\ DOMAIN r = DOMAIN Idle \cup Fields[r.op] /\ r.op \in DOMAIN Fields
      /\ "op" \in DOMAIN Idle
  BY FieldNames DEF RequestTyped
<1>2. Fields[r.op] \cap DOMAIN Idle = {}
  BY <1>1, FieldNames
<1>3. /\ DOMAIN Over(ch, r) = DOMAIN ch \cup DOMAIN r
      /\ \A f \in DOMAIN ch : Over(ch, r)[f] = ch[f]
      /\ \A f \in DOMAIN r \ DOMAIN ch : Over(ch, r)[f] = r[f]
  BY OverValue
<1>4. "op" \in DOMAIN r \ DOMAIN ch /\ Fields[r.op] \subseteq DOMAIN r \ DOMAIN ch
  BY <1>1, <1>2
<1>5. DOMAIN Over(ch, r) = DOMAIN r
  BY <1>1, <1>3
<1> QED
  BY <1>3, <1>4, <1>5

\* A request that has read its row still fits, when the row is the one it named.
LEMMA KeepsFits ==
  ASSUME NEW d, NEW x, NEW r, RequestTyped(r), Fits(d, x, r), r.step = "read", NEW row,
         r.op = "update_client" =>
           /\ row.status = d.clients[r.target].status
           /\ row.archived = d.clients[r.target].archived,
         r.op = "edit_user" =>
           row.member = <<r.client, r.user>> /\ row.member \in DOMAIN d.members,
         r.op = "create_stack" => r.squad[1] = r.client,
         r.op \in {"update_stack", "archive_stack"} => r.stack[1][1] = r.client,
         r.op = "trigger" =>
           /\ d.agents[r.agent].client = r.client
           /\ row # None => TaskOf(r) \in DOMAIN d.tasks /\ d.tasks[TaskOf(r)].client = r.client,
         r.op = "seed" => SeedWhole(d, [op |-> "seed", step |-> "commit", seen |-> row])
  PROVE  /\ RequestTyped(Over([step |-> "commit", seen |-> row], r))
         /\ Fits(d, x, Over([step |-> "commit", seen |-> row], r))
<1> DEFINE ch == [step |-> "commit", seen |-> row]
           q == Over(ch, r)
<1>1. /\ DOMAIN ch = {"step", "seen"} /\ ch.step = "commit" /\ ch.seen = row
      /\ DOMAIN ch \subseteq DOMAIN Idle \ {"op"}
  BY FieldNames
<1>2. /\ DOMAIN q = DOMAIN r /\ q.op = r.op
      /\ q.step = "commit" /\ q.seen = row
      /\ \A f \in DOMAIN r \ {"step", "seen"} : q[f] = r[f]
      /\ \A f \in Fields[r.op] : q[f] = r[f]
  <2> HIDE DEF ch
  <2> QED
    BY <1>1, Became
<1>3. q.client = r.client /\ q.url = r.url
  BY <1>2, FieldNames DEF RequestTyped
<1> HIDE DEF q, ch
<1>4. RequestTyped(q)
  <2>1. /\ r.op = "update_client" => q.edit = r.edit
        /\ r.op = "edit_user" => q.edit = r.edit
        /\ r.op \in {"create_user", "invite"} => q.role_asked = r.role_asked
    BY <1>2 DEF Fields
  <2> QED
    BY <1>2, <2>1 DEF RequestTyped
<1>5. TargetThere(d, q)
  <2>1. /\ "actor" \in Fields[r.op] => q.actor = r.actor
        /\ r.op \in {"update_client", "create_user", "update_plan"} => q.target = r.target
        /\ r.op = "edit_user" => q.user = r.user
        /\ r.op \in {"update_stack", "archive_stack"} => q.stack = r.stack
    BY <1>2 DEF Fields
  <2> QED
    BY <1>2, <2>1 DEF Fits, TargetThere
<1>6. InContext(d, q)
  <2>1. /\ r.op = "edit_user" => q.user = r.user
        /\ r.op = "create_stack" => q.squad = r.squad
        /\ r.op \in {"update_stack", "archive_stack"} => q.stack = r.stack
        /\ r.op = "trigger" => q.agent = r.agent /\ q.issue = r.issue
    BY <1>2 DEF Fields
  <2>2. r.op = "trigger" => TaskOf(q) = TaskOf(r)
    BY <2>1, <1>3 DEF TaskOf
  <2>3. r.op = "invite" => q.client \in DOMAIN d.clients
    BY <1>3 DEF Fits, InContext
  <2> QED
    BY <1>2, <1>3, <2>1, <2>2, <2>3 DEF InContext
<1>7. StatusSeen(d, x, q)
  <2>1. r.op = "update_client" => q.target = r.target
    BY <1>2 DEF Fields
  <2> QED
    BY <1>2, <2>1 DEF StatusSeen, ChangesStatus
<1>8. SeedWhole(d, q)
  BY <1>2 DEF SeedWhole
<1> QED
  BY <1>4, <1>5, <1>6, <1>7, <1>8 DEF Fits, q, ch

\* A request fits when tables have grown as it fits before, if it has still seen
\* the status of the clients.
LEMMA FitsGrown ==
  ASSUME NEW d, NEW e, NEW x, NEW y, NEW r, Fits(d, x, r), Grows(d, e), StatusSeen(e, y, r)
  PROVE  Fits(e, y, r)
<1>1. \A t \in DOMAIN Columns : DOMAIN d[t] \subseteq DOMAIN e[t]
  BY DEF Grows
<1>2. /\ DOMAIN d.clients \subseteq DOMAIN e.clients /\ DOMAIN d.plans \subseteq DOMAIN e.plans
      /\ DOMAIN d.users \subseteq DOMAIN e.users /\ DOMAIN d.members \subseteq DOMAIN e.members
      /\ DOMAIN d.stacks \subseteq DOMAIN e.stacks /\ DOMAIN d.tasks \subseteq DOMAIN e.tasks
  BY <1>1, TableNames
<1>3. TargetThere(e, r)
  BY <1>2 DEF Fits, TargetThere
<1>4. InContext(e, r)
  BY <1>2 DEF Fits, InContext, Grows
<1>5. SeedWhole(e, r)
  BY <1>2 DEF Fits, SeedWhole
<1> QED
  BY <1>3, <1>4, <1>5 DEF Fits

LEMMA SeenKept ==
  ASSUME NEW d, NEW e, NEW x, NEW r, Fits(d, x, r), SameStatus(d, e)
  PROVE  StatusSeen(e, x, r)
<1>1. ASSUME NEW c \in DOMAIN e.clients \ x, ChangesStatus(r, c)
      PROVE  /\ r.seen.status = e.clients[c].status
             /\ r.seen.archived = e.clients[c].archived
  <2>1. c \in DOMAIN d.clients
    BY <1>1 DEF ChangesStatus, Fits, TargetThere
  <2> QED
    BY <2>1, <1>1 DEF Fits, StatusSeen, SameStatus
<1> QED
  BY <1>1 DEF StatusSeen
-----------------------------------------------------------------------------
(* Steps that leave the tables, and steps that commit.                     *)

\* One request goes on, and nothing else happens.
LEMMA Quiet ==
  ASSUME IInv, NEW s \in Slots, NEW r, RequestTyped(r), Fits(db, crossed, r),
         req' = [req EXCEPT ![s] = r], served' \in 0..MaxRequests,
         UNCHANGED <<db, crossed>>, RunsBacked'
  PROVE  IInv'
<1>1. /\ db' = db /\ crossed' = crossed /\ DOMAIN req = Slots /\ DOMAIN req' = Slots
      /\ \A o \in Slots : req'[o] = IF o = s THEN r ELSE req[o]
  BY DEF IInv, TypeOK
<1>2. TypeOK'
  BY <1>1 DEF IInv, TypeOK, Keys
<1>3. OneTenantEach' /\ PlanEach' /\ MembersKnown' /\ RootFirst'
  BY <1>1 DEF IInv, OneTenantEach, PlanEach, MembersKnown, RootFirst, Keys
<1>4. ArchivedDated'
  BY <1>1, Zenon DEF IInv, ArchivedDated, Keys
<1>5. \A o \in Slots : Fits(db', crossed', req'[o])
  BY <1>1 DEF IInv
<1> QED
  BY <1>2, <1>3, <1>4, <1>5 DEF IInv

\* A session closes.
LEMMA Closes ==
  ASSUME IInv, NEW s \in Slots, req' = [req EXCEPT ![s] = Idle],
         UNCHANGED <<db, served, crossed>>, RunsBacked'
  PROVE  IInv'
<1>1. RequestTyped(Idle) /\ Fits(db, crossed, Idle)
  BY IdleFits
<1>2. served' \in 0..MaxRequests
  BY DEF IInv, TypeOK
<1> QED
  BY <1>1, <1>2, Quiet

\* A request that reads its row goes on to commit.
LEMMA Kept ==
  ASSUME IInv, NEW s \in Slots, NEW row, Keeps(s, row),
         LET q == Over([step |-> "commit", seen |-> row], req[s])
         IN  RequestTyped(q) /\ Fits(db, crossed, q)
  PROVE  IInv'
<1> DEFINE q == Over([step |-> "commit", seen |-> row], req[s])
<1>1. req' = [req EXCEPT ![s] = q] /\ UNCHANGED <<db, served, runs, crossed>>
  BY DEF Keeps, Become, IInv, TypeOK
<1>2. served' \in 0..MaxRequests /\ RunsBacked'
  BY <1>1 DEF IInv, TypeOK, RunsBacked, Keys
<1>3. RequestTyped(q) /\ Fits(db, crossed, q)
  OBVIOUS
<1> HIDE DEF q
<1> QED
  BY <1>1, <1>2, <1>3, Quiet

\* The tables of accounts and clients are right when their keys are.
KeysRight == OneTenantEach /\ PlanEach /\ MembersKnown /\ RootFirst

LEMMA SameKeysRight ==
  ASSUME KeysRight, SameKeys(db, db')
  PROVE  KeysRight'
  BY DEF KeysRight, OneTenantEach, PlanEach, MembersKnown, RootFirst, Keys, SameKeys

\* What a transaction has to keep for the control plane to be right after it.
LEMMA Commit ==
  ASSUME IInv, NEW s \in Slots, NEW r,
         RequestTyped(r), Fits(db', crossed', r), req' = [req EXCEPT ![s] = r],
         UNCHANGED <<served, runs>>,
         TablesTyped(db'), Grows(db, db'), KeysRight', ArchivedDated',
         crossed' \subseteq Keys("clients")',
         \A o \in Slots \ {s} : StatusSeen(db', crossed', req[o])
  PROVE  IInv'
<1>1. /\ DOMAIN req = Slots /\ DOMAIN req' = Slots
      /\ \A o \in Slots : req'[o] = IF o = s THEN r ELSE req[o]
  BY DEF IInv, TypeOK
<1>2. TypeOK'
  BY <1>1 DEF IInv, TypeOK, Keys
<1>3. RunsBacked'
  BY TableNames DEF IInv, RunsBacked, Grows, Keys
<1>4. ASSUME NEW o \in Slots \ {s} PROVE Fits(db', crossed', req[o])
  BY FitsGrown DEF IInv
<1>5. \A o \in Slots : Fits(db', crossed', req'[o])
  BY <1>1, <1>4
<1> QED
  BY <1>2, <1>3, <1>5 DEF IInv, KeysRight

\* The same for one that leaves the status of the clients.
LEMMA PlainCommit ==
  ASSUME IInv, NEW s \in Slots, NEW r,
         RequestTyped(r), Fits(db', crossed, r), req' = [req EXCEPT ![s] = r],
         UNCHANGED <<served, runs, crossed>>,
         TablesTyped(db'), Grows(db, db'), KeysRight', SameStatus(db, db'),
         \A c \in Keys("clients")' \ Keys("clients") :
            db'.clients[c].archived <=> db'.clients[c].status = "archived"
  PROVE  IInv'
<1>1. ArchivedDated'
  BY Zenon DEF IInv, ArchivedDated, SameStatus, Keys
<1>2. crossed' \subseteq Keys("clients")'
  BY TableNames DEF IInv, TypeOK, Grows, Keys
<1>3. \A o \in Slots \ {s} : StatusSeen(db', crossed', req[o])
  BY SeenKept DEF IInv
<1> QED
  BY <1>1, <1>2, <1>3, Commit
-----------------------------------------------------------------------------
(* Requests that come, and how they go on.                                 *)

\* The payload of a call has the fields of its kind, and names a row that is there.
Named(d, c) ==
  /\ c.op \in DOMAIN Fields /\ "actor" \in Fields[c.op]
  /\ DOMAIN c = {"op"} \cup (Fields[c.op] \ {"actor"})
  /\ c.op = "update_client" => c.edit \in ClientEdits
  /\ c.op = "edit_user" => c.edit \in UserEdits
  /\ c.op \in {"create_user", "invite"} => c.role_asked \in Roles
  /\ c.op \in {"update_client", "create_user"} => c.target \in DOMAIN d.clients
  /\ c.op = "update_plan" => c.target \in DOMAIN d.plans
  /\ c.op = "edit_user" => c.user \in DOMAIN d.users
  /\ c.op \in {"update_stack", "archive_stack"} => c.stack \in DOMAIN d.stacks

LEMMA AdminNamed ==
  ASSUME NEW c \in AdminCalls
  PROVE  Named(db, c) /\ c.op # "invite"
<1>1. CASE c \in [op : {"create_client"}, slug : NewClients]
  BY <1>1 DEF Named, Fields
<1>2. CASE c \in [op : {"update_client"}, target : Keys("clients"), edit : ClientEdits]
  BY <1>2 DEF Named, Fields, Keys
<1>3. CASE c \in [op : {"update_plan"}, target : Keys("plans"), edit : PlanEdits]
  BY <1>3 DEF Named, Fields, Keys
<1>4. CASE c \in [op : {"create_user"}, target : Keys("clients"), email : NewUsers,
                  role_asked : Roles]
  BY <1>4 DEF Named, Fields, Keys
<1> QED
  BY <1>1, <1>2, <1>3, <1>4 DEF AdminCalls

LEMMA TenantNamed ==
  ASSUME NEW c \in TenantCalls
  PROVE  Named(db, c)
<1>1. CASE c \in [op : {"invite"}, email : NewUsers, role_asked : Roles]
  BY <1>1 DEF Named, Fields
<1>2. CASE c \in [op : {"edit_user"}, user : Keys("users"), edit : UserEdits]
  BY <1>2 DEF Named, Fields, Keys
<1>3. CASE c \in [op : {"create_squad"}, slug : Slugs]
  BY <1>3 DEF Named, Fields
<1>4. CASE c \in [op : {"create_stack"}, squad : Keys("squads"), slug : Slugs,
                  parent : DOMAIN STACK_PROFILES \cup {None}]
  BY <1>4 DEF Named, Fields
<1>5. CASE c \in [op : {"update_stack"}, stack : Keys("stacks"), edit : StackEdits]
  BY <1>5 DEF Named, Fields, Keys
<1>6. CASE c \in [op : {"archive_stack"}, stack : Keys("stacks")]
  BY <1>6 DEF Named, Fields, Keys
<1>7. CASE c \in [op : {"trigger"}, agent : Keys("agents"), issue : Issues]
  BY <1>7 DEF Named, Fields
<1> QED
  BY <1>1, <1>2, <1>3, <1>4, <1>5, <1>6, <1>7 DEF TenantCalls

\* A request that came fits the tables it finds.
LEMMA CallFits ==
  ASSUME NEW d, NEW x, NEW c, Named(d, c), NEW u \in DOMAIN d.users,
         NEW st \in {"read", "context"}, c.op = "invite" => st = "context"
  PROVE  LET q == Over(Over(c, [actor |-> u, step |-> st]), Idle)
         IN  RequestTyped(q) /\ Fits(d, x, q)
<1> DEFINE by == [actor |-> u, step |-> st]
           call == Over(c, by)
           q == Over(call, Idle)
<1>1. /\ DOMAIN by = {"actor", "step"} /\ by.actor = u /\ by.step = st
      /\ DOMAIN c = {"op"} \cup (Fields[c.op] \ {"actor"})
      /\ Fields[c.op] \cap {"op", "step"} = {} /\ "actor" \in Fields[c.op]
  BY FieldNames DEF Named
<1>2. /\ DOMAIN call = DOMAIN c \cup DOMAIN by
      /\ \A f \in DOMAIN c : call[f] = c[f]
      /\ \A f \in DOMAIN by \ DOMAIN c : call[f] = by[f]
  <2> HIDE DEF by
  <2> QED
    BY OverValue
<1>3. /\ DOMAIN q = DOMAIN call \cup DOMAIN Idle
      /\ \A f \in DOMAIN call : q[f] = call[f]
      /\ \A f \in DOMAIN Idle \ DOMAIN call : q[f] = Idle[f]
  <2> HIDE DEF call
  <2> QED
    BY OverValue
<1> HIDE DEF by, call, q
<1>4. /\ DOMAIN q = DOMAIN Idle \cup Fields[c.op]
      /\ q.op = c.op /\ q.step = st /\ q.actor = u
      /\ \A f \in Fields[c.op] \ {"actor"} : q[f] = c[f]
  BY <1>1, <1>2, <1>3, FieldNames
<1>5. /\ c.op \in {"update_client", "create_user", "update_plan"} => q.target = c.target
      /\ c.op \in {"update_client", "edit_user"} => q.edit = c.edit
      /\ c.op \in {"create_user", "invite"} => q.role_asked = c.role_asked
      /\ c.op = "edit_user" => q.user = c.user
      /\ c.op \in {"update_stack", "archive_stack"} => q.stack = c.stack
  BY <1>4 DEF Fields
<1>6. RequestTyped(q)
  BY <1>4, <1>5 DEF RequestTyped, Named
<1>7. TargetThere(d, q)
  BY <1>4, <1>5 DEF TargetThere, Named
<1>8. InContext(d, q) /\ StatusSeen(d, x, q) /\ SeedWhole(d, q)
  BY <1>4 DEF InContext, StatusSeen, ChangesStatus, SeedWhole
<1> QED
  BY <1>6, <1>7, <1>8 DEF Fits, q, call, by

LEMMA Begun ==
  ASSUME IInv, NEW s \in Slots, NEW call, Begin(s, call),
         RequestTyped(Over(call, Idle)), Fits(db, crossed, Over(call, Idle))
  PROVE  IInv'
<1>1. served' \in 0..MaxRequests
  BY ControlPlaneConstants DEF Begin, IInv, TypeOK
<1>2. RunsBacked'
  BY DEF Begin, IInv, RunsBacked, Keys
<1> QED
  BY <1>1, <1>2, Quiet DEF Begin

LEMMA AuthenticateKeeps ==
  ASSUME IInv, NEW s \in Slots, Authenticate(s)
  PROVE  IInv'
<1>1. PICK u \in Keys("users") :
        \/ \E c \in AdminCalls : Begin(s, Over(c, [actor |-> u, step |-> "read"]))
        \/ \E c \in TenantCalls : Begin(s, Over(c, [actor |-> u, step |-> "context"]))
  BY DEF Authenticate
<1>2. ASSUME NEW c \in AdminCalls, Begin(s, Over(c, [actor |-> u, step |-> "read"]))
      PROVE  IInv'
  BY <1>2, AdminNamed, CallFits, Begun DEF Keys
<1>3. ASSUME NEW c \in TenantCalls, Begin(s, Over(c, [actor |-> u, step |-> "context"]))
      PROVE  IInv'
  BY <1>3, TenantNamed, CallFits, Begun DEF Keys
<1> QED
  BY <1>1, <1>2, <1>3

LEMMA LoginKeeps ==
  ASSUME IInv, NEW s \in Slots, Login(s)
  PROVE  IInv'
<1>1. PICK u \in Keys("users") :
        Begin(s, [op |-> "login", actor |-> u, step |-> "commit", seen |-> db.users[u]])
  BY DEF Login
<1> DEFINE call == [op |-> "login", actor |-> u, step |-> "commit", seen |-> db.users[u]]
           q == Over(call, Idle)
<1>2. /\ DOMAIN q = {"op", "actor", "step", "seen"} \cup DOMAIN Idle
      /\ q.op = "login" /\ q.actor = u /\ q.step = "commit"
  BY DEF Over
<1> HIDE DEF q, call
<1>3. RequestTyped(q)
  BY <1>2, FieldNames DEF RequestTyped, Fields
<1>4. TargetThere(db, q)
  BY <1>2 DEF TargetThere, Keys
<1>5. InContext(db, q) /\ StatusSeen(db, crossed, q) /\ SeedWhole(db, q)
  BY <1>2 DEF InContext, StatusSeen, ChangesStatus, SeedWhole
<1> QED
  BY <1>1, <1>3, <1>4, <1>5, Begun DEF Fits, q, call

LEMMA RunScriptKeeps ==
  ASSUME IInv, NEW s \in Slots, RunScript(s)
  PROVE  IInv'
<1>1. PICK op \in {"seed", "seed_profiles"} : Begin(s, [op |-> op, step |-> "read"])
  BY DEF RunScript
<1> DEFINE q == Over([op |-> op, step |-> "read"], Idle)
<1>2. DOMAIN q = {"op", "step"} \cup DOMAIN Idle /\ q.op = op /\ q.step = "read"
  BY DEF Over
<1> HIDE DEF q
<1>3. RequestTyped(q)
  BY <1>2, FieldNames DEF RequestTyped, Fields
<1>4. Fields[op] = {}
  BY DEF Fields
<1>5. Fits(db, crossed, q)
  BY <1>2, <1>4 DEF Fits, TargetThere, InContext, StatusSeen, ChangesStatus, SeedWhole
<1> QED
  BY <1>1, <1>3, <1>5, Begun DEF q
LEMMA ResolveContextKeeps ==
  ASSUME IInv, NEW s \in Slots, ResolveContext(s)
  PROVE  IInv'
<1>0. PICK header \in Keys("clients") \cup {None} :
        \E c \in ContextsOf(req[s].actor, header) :
           Become(s, [step |-> "read", client |-> c, role |-> RoleIn(req[s].actor, c),
                      url |-> db.clients[c].url])
  BY DEF ResolveContext
<1>1. PICK c \in ContextsOf(req[s].actor, header) :
        Become(s, [step |-> "read", client |-> c, role |-> RoleIn(req[s].actor, c),
                   url |-> db.clients[c].url])
  BY <1>0
<1> DEFINE ch == [step |-> "read", client |-> c, role |-> RoleIn(req[s].actor, c),
                  url |-> db.clients[c].url]
           q == Over(ch, req[s])
<1>2. c \in Keys("clients")
  BY <1>1 DEF ContextsOf
<1>3. RequestTyped(req[s]) /\ Fits(db, crossed, req[s])
  BY DEF IInv, TypeOK
<1>4. /\ DOMAIN ch = {"step", "client", "role", "url"} /\ ch.step = "read" /\ ch.client = c
      /\ DOMAIN ch \subseteq DOMAIN Idle \ {"op"}
  BY FieldNames
<1>5. /\ DOMAIN q = DOMAIN req[s] /\ q.op = req[s].op
      /\ q.step = "read" /\ q.client = c
      /\ \A f \in Fields[req[s].op] : q[f] = req[s][f]
  <2> HIDE DEF ch
  <2> QED
    BY <1>3, <1>4, Became
<1>6. req' = [req EXCEPT ![s] = q] /\ UNCHANGED <<db, served, runs, crossed>>
  BY <1>1 DEF ResolveContext, Become, IInv, TypeOK
<1>7. served' \in 0..MaxRequests /\ RunsBacked'
  BY <1>6 DEF IInv, TypeOK, RunsBacked, Keys
<1> HIDE DEF q, ch
<1>8. /\ "actor" \in Fields[q.op] => q.actor = req[s].actor
      /\ q.op \in {"update_client", "create_user", "update_plan"} => q.target = req[s].target
      /\ q.op \in {"update_client", "edit_user"} => q.edit = req[s].edit
      /\ q.op \in {"create_user", "invite"} => q.role_asked = req[s].role_asked
      /\ q.op = "edit_user" => q.user = req[s].user
      /\ q.op \in {"update_stack", "archive_stack"} => q.stack = req[s].stack
  BY <1>5 DEF Fields
<1>9. RequestTyped(q)
  BY <1>3, <1>5, <1>8 DEF RequestTyped
<1>10. TargetThere(db, q)
  BY <1>3, <1>5, <1>8 DEF Fits, TargetThere
<1>11. InContext(db, q) /\ StatusSeen(db, crossed, q) /\ SeedWhole(db, q)
  BY <1>2, <1>5 DEF InContext, StatusSeen, ChangesStatus, SeedWhole, Keys
<1> QED
  BY <1>6, <1>7, <1>9, <1>10, <1>11, Quiet DEF Fits

LEMMA AbortKeeps ==
  ASSUME IInv, NEW s \in Slots, Abort(s)
  PROVE  IInv'
<1>1. RunsBacked'
  BY DEF Abort, IInv, RunsBacked, Keys
<1> QED
  BY <1>1, Closes DEF Abort

\* Reading a row for a request of one of these kinds asks nothing of the row.
LEMMA PlainRead ==
  ASSUME IInv, NEW s \in Slots, NEW row, Keeps(s, row), req[s].step = "read",
         req[s].op \in {"create_client", "update_plan", "create_user", "invite", "create_squad",
                        "seed_profiles"}
  PROVE  IInv'
<1>1. RequestTyped(req[s]) /\ Fits(db, crossed, req[s])
  BY DEF IInv, TypeOK
<1>2. LET q == Over([step |-> "commit", seen |-> row], req[s])
      IN  RequestTyped(q) /\ Fits(db, crossed, q)
  BY <1>1, KeepsFits
<1> QED
  BY <1>2, Kept

LEMMA ReadKeeps ==
  ASSUME IInv, NEW s \in Slots,
         \/ ReadNewClient(s) \/ ReadPlan(s) \/ ReadNewUser(s) \/ ReadNewSquad(s)
         \/ ReadProfiles(s)
  PROVE  IInv'
<1>1. CASE ReadNewClient(s)
  BY <1>1, PlainRead DEF ReadNewClient, Reading
<1>2. CASE ReadPlan(s)
  BY <1>2, PlainRead DEF ReadPlan, Reading
<1>3. CASE ReadNewUser(s)
  BY <1>3, PlainRead DEF ReadNewUser, Reading
<1>4. CASE ReadNewSquad(s)
  BY <1>4, PlainRead DEF ReadNewSquad, Reading
<1>5. CASE ReadProfiles(s)
  BY <1>5, PlainRead DEF ReadProfiles, Reading
<1> QED
  BY <1>1, <1>2, <1>3, <1>4, <1>5

LEMMA ReadClientKeeps ==
  ASSUME IInv, NEW s \in Slots, ReadClient(s)
  PROVE  IInv'
<1>1. RequestTyped(req[s]) /\ Fits(db, crossed, req[s])
  BY DEF IInv, TypeOK
<1> DEFINE row == db.clients[req[s].target]
<1>2. req[s].op = "update_client" /\ req[s].step = "read" /\ Keeps(s, row)
  BY DEF ReadClient, Reading
<1>3. LET q == Over([step |-> "commit", seen |-> row], req[s])
      IN  RequestTyped(q) /\ Fits(db, crossed, q)
  BY <1>1, <1>2, KeepsFits
<1> QED
  BY <1>2, <1>3, Kept

LEMMA ReadUserKeeps ==
  ASSUME IInv, NEW s \in Slots, ReadUser(s)
  PROVE  IInv'
<1> DEFINE Row(m) == IF req[s].user = req[s].actor
                     THEN [member |-> m, role |-> Member(req[s].role),
                           user |-> [db.users[req[s].user] EXCEPT !.active = TRUE]]
                     ELSE [member |-> m, role |-> db.members[m], user |-> db.users[req[s].user]]
<1>1. PICK m \in MembershipsIn(req[s].client, req[s].user) : Keeps(s, Row(m))
  BY DEF ReadUser
<1>2. m = <<req[s].client, req[s].user>> /\ m \in DOMAIN db.members
  BY DEF MembershipsIn, Keys
<1>3. Row(m).member = m
  OBVIOUS
<1>4. RequestTyped(req[s]) /\ Fits(db, crossed, req[s])
  BY DEF IInv, TypeOK
<1>5. req[s].op = "edit_user" /\ req[s].step = "read"
  BY DEF ReadUser, Reading
<1> DEFINE row == Row(m)
<1> HIDE DEF Row
<1>6. LET q == Over([step |-> "commit", seen |-> row], req[s])
      IN  RequestTyped(q) /\ Fits(db, crossed, q)
  BY <1>2, <1>3, <1>4, <1>5, KeepsFits
<1> QED
  BY <1>1, <1>6, Kept

LEMMA ReadNewStackKeeps ==
  ASSUME IInv, NEW s \in Slots, ReadNewStack(s)
  PROVE  IInv'
<1>1. RequestTyped(req[s]) /\ Fits(db, crossed, req[s])
  BY DEF IInv, TypeOK
<1> DEFINE row == ParentProfile(req[s].parent)
<1>2. /\ req[s].op = "create_stack" /\ req[s].step = "read" /\ Keeps(s, row)
      /\ req[s].squad[1] = req[s].client
  BY DEF ReadNewStack, Reading, ResolveSquad
<1>3. LET q == Over([step |-> "commit", seen |-> row], req[s])
      IN  RequestTyped(q) /\ Fits(db, crossed, q)
  BY <1>1, <1>2, KeepsFits
<1> QED
  BY <1>2, <1>3, Kept

LEMMA ReadStackKeeps ==
  ASSUME IInv, NEW s \in Slots, ReadStack(s)
  PROVE  IInv'
<1>1. RequestTyped(req[s]) /\ Fits(db, crossed, req[s])
  BY DEF IInv, TypeOK
<1> DEFINE row == db.stacks[req[s].stack]
<1>2. /\ req[s].op \in {"update_stack", "archive_stack"} /\ req[s].step = "read"
      /\ Keeps(s, row) /\ req[s].stack[1][1] = req[s].client
  BY DEF ReadStack, Reading, ResolveSquad
<1>3. LET q == Over([step |-> "commit", seen |-> row], req[s])
      IN  RequestTyped(q) /\ Fits(db, crossed, q)
  BY <1>1, <1>2, KeepsFits
<1> QED
  BY <1>2, <1>3, Kept

LEMMA ReadTaskKeeps ==
  ASSUME IInv, NEW s \in Slots, ReadTask(s)
  PROVE  IInv'
<1>1. RequestTyped(req[s]) /\ Fits(db, crossed, req[s])
  BY DEF IInv, TypeOK
<1> DEFINE found == {k \in Keys("tasks") : k = TaskOf(req[s])
                                           /\ db.tasks[k].client = req[s].client}
           row == IF found = {} THEN None ELSE db.tasks[TaskOf(req[s])]
<1>2. /\ req[s].op = "trigger" /\ req[s].step = "read" /\ Keeps(s, row)
      /\ db.agents[req[s].agent].client = req[s].client
  BY DEF ReadTask, Reading, OwnAgent
<1>3. row # None => /\ TaskOf(req[s]) \in DOMAIN db.tasks
                    /\ db.tasks[TaskOf(req[s])].client = req[s].client
  BY DEF Keys
<1> HIDE DEF row
<1>4. LET q == Over([step |-> "commit", seen |-> row], req[s])
      IN  RequestTyped(q) /\ Fits(db, crossed, q)
  BY <1>1, <1>2, <1>3, KeepsFits
<1> QED
  BY <1>2, <1>4, Kept

\* Before the seed's account nobody has one, and nobody a membership.
LEMMA NobodyBeforeRoot ==
  ASSUME KeysRight
  PROVE  /\ Root \in Keys("users") <=> <<Zero, Root>> \in Keys("members")
         /\ Root \notin Keys("users") => Keys("users") = {} /\ Keys("members") = {}
  BY DEF KeysRight, MembersKnown, RootFirst

LEMMA ReadSeedKeeps ==
  ASSUME IInv, NEW s \in Slots, ReadSeed(s)
  PROVE  IInv'
<1>1. RequestTyped(req[s]) /\ Fits(db, crossed, req[s])
  BY DEF IInv, TypeOK
<1> DEFINE row == [missing |-> Missing, manifest |-> NeedsManifest,
                   template |-> db.templates = 0]
<1>2. req[s].op = "seed" /\ req[s].step = "read" /\ Keeps(s, row)
  BY DEF ReadSeed, Reading
<1>3. /\ Missing \subseteq DOMAIN SeedRow
      /\ "clients" \in Missing <=> Zero \notin Keys("clients")
      /\ "plans" \in Missing <=> Zero \notin Keys("plans")
      /\ "users" \in Missing <=> Root \notin Keys("users")
      /\ "members" \in Missing <=> <<Zero, Root>> \notin Keys("members")
  BY DEF Missing, SeedRow
<1>4. SeedWhole(db, [op |-> "seed", step |-> "commit", seen |-> row])
  BY <1>3, NobodyBeforeRoot DEF SeedWhole, IInv, KeysRight, PlanEach, Keys
<1>5. LET q == Over([step |-> "commit", seen |-> row], req[s])
      IN  RequestTyped(q) /\ Fits(db, crossed, q)
  BY <1>1, <1>2, <1>4, KeepsFits
<1> QED
  BY <1>2, <1>5, Kept
-----------------------------------------------------------------------------
(* Transactions.                                                           *)

\* A request that ends with a plain commit.
LEMMA Stored ==
  ASSUME IInv, NEW s \in Slots, req' = [req EXCEPT ![s] = Idle],
         UNCHANGED <<served, runs, crossed>>,
         TablesTyped(db'), Grows(db, db'), KeysRight', SameStatus(db, db'),
         \A c \in Keys("clients")' \ Keys("clients") :
            db'.clients[c].archived <=> db'.clients[c].status = "archived"
  PROVE  IInv'
<1>1. RequestTyped(Idle) /\ Fits(db', crossed, Idle)
  BY IdleFits
<1> QED
  BY <1>1, PlainCommit

\* A transaction that writes one row, of no new client, plan, account or membership.
LEMMA OneRow ==
  ASSUME IInv, NEW t \in DOMAIN Columns \ {"clients"}, NEW k, NEW row, RowTyped(t, row),
         db' = With(db, t, k, row),
         t \in {"plans", "users", "members"} => k \in DOMAIN db[t],
         t = "tasks" /\ k \in DOMAIN db.tasks => row.client = db.tasks[k].client
  PROVE  /\ TablesTyped(db') /\ Grows(db, db') /\ KeysRight' /\ SameStatus(db, db')
         /\ Keys("clients")' = Keys("clients")
<1>1. TablesTyped(db)
  BY DEF IInv, TypeOK
<1>2. TablesTyped(db') /\ Grows(db, db')
  BY <1>1, PutTyped, WithGrows
<1>3. t \in DOMAIN db /\ DOMAIN Columns \subseteq DOMAIN db
  BY <1>1 DEF TablesTyped
<1>4. /\ DOMAIN db'[t] = DOMAIN db[t] \cup {k}
      /\ \A u \in DOMAIN db \ {t} : db'[u] = db[u]
  BY <1>3, WithRows
<1>5. db'.clients = db.clients
  BY <1>3, <1>4, TableNames
<1>6. SameKeys(db, db')
  BY <1>3, <1>4, TableNames DEF SameKeys
<1>7. KeysRight'
  BY <1>6, SameKeysRight DEF IInv, KeysRight
<1> QED
  BY <1>2, <1>5, <1>7 DEF SameStatus, Keys

\* A request that ends by writing such a row.
LEMMA RowStored ==
  ASSUME IInv, NEW s \in Slots, req' = [req EXCEPT ![s] = Idle],
         UNCHANGED <<served, runs, crossed>>,
         NEW t \in DOMAIN Columns \ {"clients", "tasks"}, NEW k, NEW row, RowTyped(t, row),
         db' = With(db, t, k, row),
         t \in {"plans", "users", "members"} => k \in DOMAIN db[t]
  PROVE  IInv'
  BY OneRow, Stored

\* An UPDATE of a plan, account or stack that is there, with a payload its schema takes.
LEMMA UpdateStored ==
  ASSUME IInv, NEW s \in Slots, NEW t \in {"plans", "users", "stacks"}, NEW k \in DOMAIN db[t],
         NEW loaded, NEW p, t = "users" /\ "active" \in DOMAIN p => p.active \in BOOLEAN,
         Store(s, Update(t, k, loaded, p)), UNCHANGED crossed
  PROVE  IInv'
<1> DEFINE row == Merge(db[t][k], loaded, p)
<1>1. db' = With(db, t, k, row) /\ req' = [req EXCEPT ![s] = Idle]
      /\ UNCHANGED <<served, runs, crossed>>
  BY DEF Store, Update
<1>2. t \in DOMAIN Columns \ {"clients", "tasks"}
  BY TableNames
<1>3. RowTyped(t, db[t][k])
  BY <1>2 DEF IInv, TypeOK, TablesTyped
<1>4. RowTyped(t, row)
  BY <1>3, MergeTyped
<1> HIDE DEF row
<1> QED
  BY <1>1, <1>2, <1>4, RowStored

LEMMA UpdatePlanKeeps ==
  ASSUME IInv, NEW s \in Slots, UpdatePlan(s)
  PROVE  IInv'
<1>1. req[s].target \in DOMAIN db.plans
  BY DEF UpdatePlan, Commits, IInv, Fits, TargetThere
<1> QED
  BY <1>1, UpdateStored DEF UpdatePlan

LEMMA CommitLoginKeeps ==
  ASSUME IInv, NEW s \in Slots, CommitLogin(s)
  PROVE  IInv'
<1>1. req[s].actor \in DOMAIN db.users
  BY DEF CommitLogin, Commits, IInv, Fits, TargetThere, Fields
<1>2. DOMAIN [login |-> TRUE] = {"login"}
  OBVIOUS
<1> QED
  BY <1>1, <1>2, UpdateStored DEF CommitLogin

LEMMA UpdateStackKeeps ==
  ASSUME IInv, NEW s \in Slots, UpdateStack(s) \/ ArchiveStack(s)
  PROVE  IInv'
<1>1. req[s].stack \in DOMAIN db.stacks
  BY DEF UpdateStack, ArchiveStack, Commits, IInv, Fits, TargetThere
<1>2. CASE UpdateStack(s)
  BY <1>1, <1>2, UpdateStored DEF UpdateStack
<1>3. CASE ArchiveStack(s)
  BY <1>1, <1>3, UpdateStored DEF ArchiveStack
<1> QED
  BY <1>2, <1>3

LEMMA CreateSquadKeeps ==
  ASSUME IInv, NEW s \in Slots, CreateSquad(s)
  PROVE  IInv'
<1> DEFINE row == [manifest |-> FALSE]
<1>1. RowTyped("squads", row) /\ "squads" \in DOMAIN Columns \ {"clients", "tasks"}
  BY DEF RowTyped, Columns
<1>2. db' = With(db, "squads", <<req[s].client, req[s].slug>>, row)
      /\ req' = [req EXCEPT ![s] = Idle] /\ UNCHANGED <<served, runs, crossed>>
  BY DEF CreateSquad, Store
<1> HIDE DEF row
<1> QED
  BY <1>1, <1>2, RowStored

LEMMA CreateStackKeeps ==
  ASSUME IInv, NEW s \in Slots, CreateStack(s)
  PROVE  IInv'
<1> DEFINE row == NewStack(req[s].seen)
<1>1. RowTyped("stacks", row) /\ "stacks" \in DOMAIN Columns \ {"clients", "tasks"}
  BY DEF RowTyped, Columns, NewStack
<1>2. db' = With(db, "stacks", <<req[s].squad, req[s].slug>>, row)
      /\ req' = [req EXCEPT ![s] = Idle] /\ UNCHANGED <<served, runs, crossed>>
  BY DEF CreateStack, Store
<1> HIDE DEF row
<1> QED
  BY <1>1, <1>2, RowStored

LEMMA CommitTaskKeeps ==
  ASSUME IInv, NEW s \in Slots, CommitTask(s)
  PROVE  IInv'
<1> DEFINE r == req[s]
           q == Over([step |-> "launch"], r)
           k == TaskOf(r)
<1>1. /\ r.op = "trigger" /\ r.step = "commit" /\ RequestTyped(r) /\ Fits(db, crossed, r)
      /\ DOMAIN req = Slots
  BY DEF CommitTask, Commits, IInv, TypeOK
<1>2. db.agents[r.agent].client = r.client
  BY <1>1 DEF Fits, InContext
<1>3. req' = [req EXCEPT ![s] = q] /\ UNCHANGED <<served, runs, crossed>>
  BY <1>1 DEF CommitTask, Become
<1>4. PICK row : /\ db' = With(db, "tasks", k, row) /\ RowTyped("tasks", row)
                 /\ row.client = r.client
                 /\ k \in DOMAIN db.tasks => row.client = db.tasks[k].client
  <2>1. CASE /\ r.seen = None /\ k \notin DOMAIN db.tasks
             /\ db' = With(db, "tasks", k, [client |-> r.client, agent |-> r.agent])
    <3> DEFINE row == [client |-> r.client, agent |-> r.agent]
    <3>1. RowTyped("tasks", row) /\ row.client = r.client
      BY DEF RowTyped, Columns
    <3> HIDE DEF row
    <3> QED
      BY <2>1, <3>1 DEF row
  <2>2. CASE r.seen # None /\ db' = Update("tasks", k, r.seen, [agent |-> r.agent])
    <3> DEFINE p == [agent |-> r.agent]
               row == Merge(db.tasks[k], r.seen, p)
    <3>1. k \in DOMAIN db.tasks /\ db.tasks[k].client = r.client
      BY <1>1, <2>2 DEF Fits, InContext
    <3>2. RowTyped("tasks", db.tasks[k])
      BY <3>1, TableNames DEF IInv, TypeOK, TablesTyped
    <3>3. RowTyped("tasks", row)
      BY <3>2, MergeTyped
    <3>4. "client" \in DOMAIN db.tasks[k] \ DOMAIN p
      BY <3>2 DEF RowTyped, Columns
    <3>5. row.client = db.tasks[k].client
      BY <3>4, MergeValue
    <3> HIDE DEF row
    <3> QED
      BY <2>2, <3>1, <3>3, <3>5 DEF Update, row
  <2> QED
    BY <2>1, <2>2 DEF CommitTask, Keys
<1>5. /\ TablesTyped(db') /\ Grows(db, db') /\ KeysRight' /\ SameStatus(db, db')
      /\ Keys("clients")' = Keys("clients")
  BY <1>4, OneRow, TableNames
<1>6. k \in DOMAIN db'.tasks /\ db'.tasks[k].client = r.client
  BY <1>4, WithRows, TableNames DEF IInv, TypeOK, TablesTyped
<1>7. /\ DOMAIN q = DOMAIN r /\ q.op = "trigger" /\ q.step = "launch"
      /\ \A f \in DOMAIN r \ {"step"} : q[f] = r[f]
      /\ \A f \in Fields["trigger"] : q[f] = r[f]
  BY <1>1, Became, FieldNames
<1>8. /\ q.actor = r.actor /\ q.agent = r.agent /\ q.issue = r.issue
      /\ q.client = r.client /\ q.url = r.url
  BY <1>1, <1>7, FieldNames DEF Fields, RequestTyped
<1>9. r.actor \in DOMAIN db.users
  BY <1>1 DEF Fits, TargetThere, Fields
<1> HIDE DEF q
<1>10. RequestTyped(q)
  BY <1>1, <1>7 DEF RequestTyped
<1>11. TargetThere(db', q)
  BY <1>5, <1>7, <1>8, <1>9, TableNames DEF TargetThere, Grows
<1>12. InContext(db', q)
  BY <1>2, <1>5, <1>6, <1>7, <1>8 DEF InContext, TaskOf, Grows
<1>13. StatusSeen(db', crossed, q) /\ SeedWhole(db', q)
  BY <1>7 DEF StatusSeen, ChangesStatus, SeedWhole
<1> QED
  BY <1>3, <1>5, <1>10, <1>11, <1>12, <1>13, PlainCommit DEF Fits

LEMMA LaunchKeeps ==
  ASSUME IInv, NEW s \in Slots, Launch(s)
  PROVE  IInv'
<1>1. Fits(db, crossed, req[s]) /\ req[s].step = "launch"
  BY DEF IInv, Launch
<1>2. /\ TaskOf(req[s]) \in DOMAIN db.tasks /\ db.tasks[TaskOf(req[s])].client = req[s].client
      /\ db.agents[req[s].agent].client = req[s].client
  BY <1>1 DEF Fits, InContext
<1>3. PICK store : runs' = runs \cup {[agent |-> req[s].agent, task |-> TaskOf(req[s]),
                                       store |-> store]}
  BY DEF Launch
<1>4. RunsBacked'
  BY <1>2, <1>3 DEF Launch, IInv, RunsBacked, Keys
<1> QED
  BY <1>4, Closes DEF Launch
LEMMA CreateClientKeeps ==
  ASSUME IInv, NEW s \in Slots, CreateClient(s)
  PROVE  IInv'
<1> DEFINE k == req[s].slug
           row == Client(None)
           e == With(db, "clients", k, row)
<1>1. /\ k \notin Keys("clients") /\ db' = With(e, "plans", k, Plan)
      /\ req' = [req EXCEPT ![s] = Idle] /\ UNCHANGED <<served, runs, crossed>>
  BY DEF CreateClient, Store
<1>2. /\ RowTyped("clients", row) /\ RowTyped("plans", Plan)
      /\ row.archived = FALSE /\ row.status = "active"
  BY DEF RowTyped, Columns, Client, Plan, Statuses
<1>3. TablesTyped(db) /\ DOMAIN Columns \subseteq DOMAIN db
  BY DEF IInv, TypeOK, TablesTyped
<1> HIDE DEF row, k
<1>4. /\ TablesTyped(e) /\ Grows(db, e) /\ DOMAIN e = DOMAIN db
      /\ DOMAIN e.clients = DOMAIN db.clients \cup {k} /\ e.clients[k] = row
      /\ \A c \in DOMAIN db.clients \ {k} : e.clients[c] = db.clients[c]
      /\ \A t \in DOMAIN db \ {"clients"} : e[t] = db[t]
  BY <1>2, <1>3, PutTyped, WithGrows, WithRows, TableNames
<1> HIDE DEF e
<1>5. /\ TablesTyped(db') /\ Grows(e, db')
      /\ DOMAIN db'.plans = DOMAIN e.plans \cup {k}
      /\ \A t \in DOMAIN e \ {"plans"} : db'[t] = e[t]
  BY <1>1, <1>2, <1>3, <1>4, PutTyped, WithGrows, WithRows, TableNames
<1>6. Grows(db, db')
  BY <1>4, <1>5, GrowsOn
<1>7. /\ DOMAIN db'.clients = DOMAIN db.clients \cup {k} /\ db'.clients[k] = row
      /\ \A c \in DOMAIN db.clients : db'.clients[c] = db.clients[c]
      /\ DOMAIN db'.plans = DOMAIN db.plans \cup {k}
      /\ db'.users = db.users /\ db'.members = db.members
  BY <1>1, <1>3, <1>4, <1>5, TableNames DEF Keys
<1>8. KeysRight'
  BY <1>7 DEF IInv, KeysRight, OneTenantEach, PlanEach, MembersKnown, RootFirst, Keys
<1>9. SameStatus(db, db')
  BY <1>7 DEF SameStatus
<1>10. \A c \in Keys("clients")' \ Keys("clients") :
          db'.clients[c].archived <=> db'.clients[c].status = "archived"
  BY <1>2, <1>7 DEF Keys
<1> QED
  BY <1>1, <1>5, <1>6, <1>8, <1>9, <1>10, Stored

\* An account and its only membership, in a client that is there.
LEMMA AccountStored ==
  ASSUME IInv, NEW s \in Slots, NEW c \in DOMAIN db.clients,
         req[s].op \in {"create_user", "invite"}, req[s].email \notin Keys("users"),
         Store(s, AccountWithMembership(c, req[s])), UNCHANGED crossed
  PROVE  IInv'
<1> DEFINE u == req[s].email
           m == <<c, u>>
           account == Account(FALSE)
           member == Member(req[s].role_asked)
           e == With(db, "users", u, account)
<1>1. /\ db' = With(e, "members", m, member)
      /\ req' = [req EXCEPT ![s] = Idle] /\ UNCHANGED <<served, runs, crossed>>
  BY DEF Store, AccountWithMembership
<1>2. RowTyped("users", account) /\ RowTyped("members", member)
  BY DEF RowTyped, Columns, Account, Member, IInv, TypeOK, RequestTyped
<1>3. TablesTyped(db) /\ DOMAIN Columns \subseteq DOMAIN db
  BY DEF IInv, TypeOK, TablesTyped
<1> HIDE DEF account, member, u
<1>4. /\ TablesTyped(e) /\ Grows(db, e) /\ DOMAIN e = DOMAIN db
      /\ DOMAIN e.users = DOMAIN db.users \cup {u}
      /\ \A t \in DOMAIN db \ {"users"} : e[t] = db[t]
  BY <1>2, <1>3, PutTyped, WithGrows, WithRows, TableNames
<1> HIDE DEF e, m
<1>5. /\ TablesTyped(db') /\ Grows(e, db')
      /\ DOMAIN db'.members = DOMAIN e.members \cup {m}
      /\ \A t \in DOMAIN e \ {"members"} : db'[t] = e[t]
  BY <1>1, <1>2, <1>3, <1>4, PutTyped, WithGrows, WithRows, TableNames
<1>6. Grows(db, db')
  BY <1>4, <1>5, GrowsOn
<1>7. /\ db'.clients = db.clients /\ db'.plans = db.plans
      /\ DOMAIN db'.users = DOMAIN db.users \cup {u}
      /\ DOMAIN db'.members = DOMAIN db.members \cup {m}
      /\ m[1] = c /\ m[2] = u /\ m = <<c, u>> /\ u \notin DOMAIN db.users
  BY <1>3, <1>4, <1>5, TableNames DEF Keys, u, m
<1>8. Root \in DOMAIN db.users /\ <<Zero, Root>> \in DOMAIN db.members
  BY DEF IInv, Fits, TargetThere, Fields, RootFirst, Keys
<1>9. \A n \in DOMAIN db.members : n[2] \in DOMAIN db.users
  BY DEF IInv, MembersKnown, Keys
<1>10. OneTenantEach'
  <2>1. ASSUME NEW a \in DOMAIN db'.users
        PROVE  \E b \in DOMAIN db'.clients : {n \in DOMAIN db'.members : n[2] = a} = {<<b, a>>}
    <3>1. CASE a = u
      BY <1>7, <1>9, <3>1
    <3>2. CASE a # u
      BY <1>7, <3>2 DEF IInv, OneTenantEach, Keys
    <3> QED
      BY <3>1, <3>2
  <2> QED
    BY <2>1 DEF OneTenantEach, Keys
<1>11. PlanEach' /\ MembersKnown' /\ RootFirst'
  BY <1>7, <1>8 DEF IInv, PlanEach, MembersKnown, RootFirst, Keys
<1>12. SameStatus(db, db') /\ Keys("clients")' = Keys("clients")
  BY <1>7 DEF SameStatus, Keys
<1> QED
  BY <1>1, <1>5, <1>6, <1>10, <1>11, <1>12, Stored DEF KeysRight

LEMMA CreateUserKeeps ==
  ASSUME IInv, NEW s \in Slots, CreateClientUser(s) \/ InviteUser(s)
  PROVE  IInv'
<1>1. CASE CreateClientUser(s)
  <2>1. req[s].op = "create_user" /\ req[s].target \in DOMAIN db.clients
    BY <1>1 DEF CreateClientUser, Commits, IInv, Fits, TargetThere
  <2> QED
    BY <1>1, <2>1, AccountStored DEF CreateClientUser
<1>2. CASE InviteUser(s)
  <2>1. req[s].op = "invite" /\ req[s].client \in DOMAIN db.clients
    BY <1>2 DEF InviteUser, Commits, IInv, Fits, InContext
  <2> QED
    BY <1>2, <2>1, AccountStored DEF InviteUser
<1> QED
  BY <1>1, <1>2

LEMMA UpdateUserKeeps ==
  ASSUME IInv, NEW s \in Slots, UpdateUser(s)
  PROVE  IInv'
<1> DEFINE r == req[s]
           u == r.user
           m == r.seen.member
<1>1. /\ r.op = "edit_user" /\ r.step = "commit" /\ r.edit \in UserEdits
      /\ req' = [req EXCEPT ![s] = Idle] /\ UNCHANGED <<served, runs, crossed>>
      /\ db' = [db EXCEPT !.users[u] = Merge(@, r.seen.user, r.edit),
                          !.members[m] = Merge(@, r.seen.role, r.edit)]
  BY DEF UpdateUser, Commits, Store, IInv, TypeOK, RequestTyped
<1>2. u \in DOMAIN db.users /\ m \in DOMAIN db.members
  BY <1>1 DEF IInv, Fits, TargetThere, InContext
<1>3. TablesTyped(db) /\ DOMAIN Columns \subseteq DOMAIN db /\ "templates" \in DOMAIN db
  BY DEF IInv, TypeOK, TablesTyped
<1> DEFINE account == Merge(db.users[u], r.seen.user, r.edit)
           member == Merge(db.members[m], r.seen.role, r.edit)
<1>4. /\ DOMAIN db' = DOMAIN db
      /\ db'.users = [db.users EXCEPT ![u] = account]
      /\ db'.members = [db.members EXCEPT ![m] = member]
      /\ \A t \in DOMAIN db \ {"users", "members"} : db'[t] = db[t]
  BY <1>1, <1>3, TableNames
<1>5. RowTyped("users", account) /\ RowTyped("members", member)
  <2>1. RowTyped("users", db.users[u]) /\ RowTyped("members", db.members[m])
    BY <1>2, <1>3, TableNames DEF TablesTyped
  <2>2. /\ "role" \in DOMAIN r.edit => r.edit.role \in Roles
        /\ "active" \in DOMAIN r.edit => r.edit.active \in BOOLEAN
    BY <1>1, ControlPlaneConstants
  <2> QED
    BY <2>1, <2>2, MergeTyped
<1> HIDE DEF account, member, u, m, r
<1>6. TablesTyped(db')
  <2>1. ASSUME NEW t \in DOMAIN Columns, NEW k \in DOMAIN db'[t]
        PROVE  RowTyped(t, db'[t][k])
    <3>1. CASE t = "users"
      BY <1>3, <1>4, <1>5, <3>1 DEF TablesTyped
    <3>2. CASE t = "members"
      BY <1>3, <1>4, <1>5, <3>2 DEF TablesTyped
    <3>3. CASE t \notin {"users", "members"}
      BY <1>3, <1>4, <3>3 DEF TablesTyped
    <3> QED
      BY <3>1, <3>2, <3>3
  <2>2. DOMAIN db' = DOMAIN Columns \cup {"agents", "templates"} /\ db'.templates \in Nat
    BY <1>3, <1>4 DEF TablesTyped
  <2> QED
    BY <2>1, <2>2 DEF TablesTyped
<1>7. \A t \in DOMAIN Columns : DOMAIN db'[t] = DOMAIN db[t]
  BY <1>3, <1>4
<1>8. db'.clients = db.clients /\ db'.tasks = db.tasks /\ db'.agents = db.agents
  BY <1>3, <1>4, TableNames DEF TablesTyped
<1>9. KeysRight'
  BY <1>7, SameKeysRight, TableNames DEF IInv, KeysRight, SameKeys
<1>10. Grows(db, db') /\ SameStatus(db, db') /\ Keys("clients")' = Keys("clients")
  BY <1>7, <1>8 DEF Grows, SameStatus, Keys
<1> QED
  BY <1>1, <1>6, <1>9, <1>10, Stored

LEMMA CommitProfilesKeeps ==
  ASSUME IInv, NEW s \in Slots, CommitProfiles(s)
  PROVE  IInv'
<1> DEFINE Text(p) == [text |-> STACK_PROFILES[p]]
           new == DOMAIN STACK_PROFILES \ DOMAIN req[s].seen
           texts == [p \in DOMAIN db.profiles \cup new |->
                       IF p \in new THEN Text(p)
                       ELSE Merge(db.profiles[p], req[s].seen[p], Text(p))]
<1>1. /\ db' = [db EXCEPT !.profiles = texts]
      /\ req' = [req EXCEPT ![s] = Idle] /\ UNCHANGED <<served, runs, crossed>>
  BY DEF CommitProfiles, Store
<1>2. TablesTyped(db) /\ DOMAIN db = DOMAIN Columns \cup {"agents", "templates"}
  BY DEF IInv, TypeOK, TablesTyped
<1>3. \A p \in new : RowTyped("profiles", Text(p))
  BY DEF RowTyped, Columns
<1>4. ASSUME NEW p \in DOMAIN db.profiles
      PROVE  RowTyped("profiles", Merge(db.profiles[p], req[s].seen[p], Text(p)))
  <2>1. RowTyped("profiles", db.profiles[p])
    BY <1>2, TableNames DEF TablesTyped
  <2> HIDE DEF Text
  <2> QED
    BY <2>1, MergeTyped
<1> HIDE DEF Text, new
<1>5. \A p \in DOMAIN texts : RowTyped("profiles", texts[p])
  BY <1>3, <1>4
<1>6. DOMAIN db.profiles \subseteq DOMAIN texts
  OBVIOUS
<1> HIDE DEF texts
<1>7. /\ DOMAIN db' = DOMAIN db /\ db'.profiles = texts
      /\ \A t \in DOMAIN db \ {"profiles"} : db'[t] = db[t]
  BY <1>1, <1>2, TableNames
<1>8. TablesTyped(db')
  BY <1>2, <1>5, <1>7, TableNames DEF TablesTyped
<1>9. /\ db'.clients = db.clients /\ db'.tasks = db.tasks /\ db'.agents = db.agents
      /\ db'.plans = db.plans /\ db'.users = db.users /\ db'.members = db.members
      /\ \A t \in DOMAIN Columns : DOMAIN db[t] \subseteq DOMAIN db'[t]
  BY <1>2, <1>6, <1>7, TableNames
<1>10. KeysRight'
  BY <1>9, SameKeysRight DEF IInv, KeysRight, SameKeys
<1>11. Grows(db, db') /\ SameStatus(db, db') /\ Keys("clients")' = Keys("clients")
  BY <1>9 DEF Grows, SameStatus, Keys
<1> QED
  BY <1>1, <1>8, <1>10, <1>11, Stored
\* archived_at follows status, and only status.
LEMMA DatedValue ==
  ASSUME NEW e \in ClientEdits
  PROVE  /\ "status" \in DOMAIN Dated(e) <=> "status" \in DOMAIN e
         /\ "status" \notin DOMAIN e => Dated(e) = e /\ "archived" \notin DOMAIN Dated(e)
         /\ "status" \in DOMAIN e =>
              /\ "archived" \in DOMAIN Dated(e) /\ Dated(e).status = e.status
              /\ Dated(e).archived = (e.status = "archived")
<1>1. "archived" \notin DOMAIN e
  BY ControlPlaneConstants
<1>2. CASE "status" \notin DOMAIN e
  BY <1>1, <1>2 DEF Dated
<1>3. CASE "status" \in DOMAIN e
  <2> DEFINE date == [archived |-> e.status = "archived"]
  <2>1. DOMAIN date = {"archived"} /\ date.archived = (e.status = "archived")
    OBVIOUS
  <2>2. Dated(e) = Over(e, date)
    BY <1>3 DEF Dated
  <2> HIDE DEF date
  <2>3. /\ DOMAIN Dated(e) = DOMAIN e \cup DOMAIN date
        /\ \A f \in DOMAIN e : Dated(e)[f] = e[f]
        /\ \A f \in DOMAIN date \ DOMAIN e : Dated(e)[f] = date[f]
    BY <2>2 DEF Over
  <2>4. "archived" \in DOMAIN Dated(e) /\ "status" \in DOMAIN Dated(e)
    BY <1>3, <2>1, <2>3
  <2>5. Dated(e).status = e.status
    BY <1>3, <2>3
  <2>6. Dated(e).archived = date.archived
    BY <1>1, <2>1, <2>3
  <2> QED
    BY <1>3, <2>1, <2>4, <2>5, <2>6, Zenon
<1> QED
  BY <1>2, <1>3

LEMMA UpdateClientKeeps ==
  ASSUME IInv, NEW s \in Slots, UpdateClient(s)
  PROVE  IInv'
<1> DEFINE r == req[s]
           c == r.target
           p == Dated(r.edit)
           row == Merge(db.clients[c], r.seen, p)
           changes == ChangesStatus(r, c)
           other == \E o \in Slots \ {s} : ChangesStatus(req[o], c)
<1>1. /\ r.op = "update_client" /\ r.step = "commit" /\ r.edit \in ClientEdits
      /\ changes => p.status # None
      /\ db' = With(db, "clients", c, row)
      /\ req' = [req EXCEPT ![s] = Idle] /\ UNCHANGED <<served, runs>>
      /\ crossed' = IF changes /\ other THEN crossed \cup {c} ELSE crossed
  BY DEF UpdateClient, Commits, Store, Update, IInv, TypeOK, RequestTyped
<1>2. c \in DOMAIN db.clients /\ StatusSeen(db, crossed, r)
  BY <1>1 DEF IInv, Fits, TargetThere
<1>3. /\ changes <=> "status" \in DOMAIN r.edit
      /\ ~changes => "status" \notin DOMAIN p /\ "archived" \notin DOMAIN p
      /\ changes => /\ {"status", "archived"} \subseteq DOMAIN p
                    /\ p.archived = (p.status = "archived")
  BY <1>1, DatedValue DEF ChangesStatus
<1>4. TablesTyped(db) /\ DOMAIN Columns \subseteq DOMAIN db /\ crossed \subseteq DOMAIN db.clients
  BY DEF IInv, TypeOK, TablesTyped, Keys
<1>5. "status" \in DOMAIN p => p.status \in Statuses
  BY <1>1, <1>3, DatedValue, ControlPlaneConstants
<1>6. RowTyped("clients", db.clients[c])
  BY <1>2, <1>4, TableNames DEF TablesTyped
<1>7. {"status", "archived"} \subseteq DOMAIN db.clients[c]
  BY <1>6 DEF RowTyped, Columns
<1>8. RowTyped("clients", row)
  BY <1>5, <1>6, MergeTyped
\* What becomes of the two columns.
<1>9. ~changes => /\ row.status = db.clients[c].status
                  /\ row.archived = db.clients[c].archived
  BY <1>3, <1>7, MergeValue
<1>10. changes /\ c \notin crossed => row.status = p.status /\ row.archived = p.archived
  BY <1>2, <1>3, <1>7 DEF StatusSeen, Merge
<1> HIDE DEF row, p, changes, other, c
<1>11. TablesTyped(db') /\ Grows(db, db')
  BY <1>1, <1>4, <1>8, PutTyped, WithGrows, TableNames
<1>12. /\ DOMAIN db'.clients = DOMAIN db.clients /\ db'.clients[c] = row
       /\ \A b \in DOMAIN db.clients \ {c} : db'.clients[b] = db.clients[b]
       /\ \A t \in DOMAIN db \ {"clients"} : db'[t] = db[t]
  <2>1. "clients" \in DOMAIN db
    BY <1>4, TableNames
  <2>2. /\ DOMAIN db'.clients = DOMAIN db.clients \cup {c} /\ db'.clients[c] = row
        /\ \A b \in DOMAIN db.clients \ {c} : db'.clients[b] = db.clients[b]
        /\ \A t \in DOMAIN db \ {"clients"} : db'[t] = db[t]
    BY <1>1, <2>1, WithRows
  <2> QED
    BY <1>2, <2>2
<1>13. KeysRight'
  BY <1>4, <1>12, SameKeysRight, TableNames DEF IInv, KeysRight, SameKeys
<1>14. crossed' \subseteq Keys("clients")'
  BY <1>1, <1>2, <1>4, <1>12 DEF Keys
<1>15. crossed \subseteq crossed' /\ (c \notin crossed' => ~changes \/ ~other)
  BY <1>1
<1>16. ArchivedDated'
  <2>1. ASSUME NEW b \in DOMAIN db'.clients \ crossed'
        PROVE  db'.clients[b].archived <=> db'.clients[b].status = "archived"
    <3>1. b \in DOMAIN db.clients \ crossed
      BY <1>12, <1>15
    <3>2. db.clients[b].archived <=> db.clients[b].status = "archived"
      BY <3>1 DEF IInv, ArchivedDated, Keys
    <3>3. CASE b # c
      BY <3>1, <3>2, <3>3, <1>12
    <3>4. CASE b = c /\ ~changes
      BY <3>2, <3>4, <1>9, <1>12
    <3>5. CASE b = c /\ changes
      BY <3>1, <3>5, <1>3, <1>10, <1>12
    <3> QED
      BY <3>3, <3>4, <3>5
  <2> QED
    BY <2>1 DEF ArchivedDated, Keys
<1>17. ASSUME NEW o \in Slots \ {s}
       PROVE  StatusSeen(db', crossed', req[o])
  <2>1. ASSUME NEW b \in DOMAIN db'.clients \ crossed', ChangesStatus(req[o], b)
        PROVE  /\ req[o].seen.status = db'.clients[b].status
               /\ req[o].seen.archived = db'.clients[b].archived
    <3>1. /\ req[o].seen.status = db.clients[b].status
          /\ req[o].seen.archived = db.clients[b].archived
      BY <2>1, <1>12, <1>15 DEF IInv, Fits, StatusSeen
    <3>2. b = c => ~changes
      BY <2>1, <1>15 DEF other
    <3> QED
      BY <3>1, <3>2, <1>9, <1>12
  <2> QED
    BY <2>1 DEF StatusSeen
<1> QED
  BY <1>1, <1>11, <1>13, <1>14, <1>16, <1>17, IdleFits, Commit
LEMMA SeedRowTyped ==
  \A t \in DOMAIN SeedRow : t \in DOMAIN Columns /\ RowTyped(t, SeedRow[t].row)
<1>1. /\ RowTyped("clients", Client(Workspace)) /\ RowTyped("plans", Plan)
      /\ RowTyped("users", Account(TRUE)) /\ RowTyped("members", Member("CLIENT_ADMIN"))
      /\ RowTyped("squads", [manifest |-> TRUE])
  BY ControlPlaneConstants
  DEF RowTyped, Columns, Client, Plan, Account, Member, Statuses
<1>2. ASSUME NEW t \in DOMAIN SeedRow PROVE RowTyped(t, SeedRow[t].row)
  <2>1. SeedRow["clients"].row = Client(Workspace)
    BY DEF SeedRow
  <2>2. SeedRow["plans"].row = Plan
    BY DEF SeedRow
  <2>3. SeedRow["users"].row = Account(TRUE)
    BY DEF SeedRow
  <2>4. SeedRow["members"].row = Member("CLIENT_ADMIN")
    BY DEF SeedRow
  <2>5. SeedRow["squads"].row = [manifest |-> TRUE]
    BY DEF SeedRow
  <2> QED
    BY <1>1, <2>1, <2>2, <2>3, <2>4, <2>5, TableNames
<1> QED
  BY <1>2, TableNames

\* The tables after the seed: rows that were missing, and the first version of a manifest.
LEMMA SeedTables ==
  ASSUME IInv, NEW s \in Slots, CommitSeed(s)
  PROVE  LET missing == req[s].seen.missing
             q == <<Zero, SeedSquad>>
         IN  /\ missing \subseteq DOMAIN SeedRow /\ req[s].op = "seed" /\ req[s].step = "commit"
             /\ \A t \in missing : SeedRow[t].key \notin Keys(t)
             /\ DOMAIN db' = DOMAIN db /\ db'.templates \in Nat
             /\ \A t \in DOMAIN db \ {"templates", "squads"} :
                  db'[t] = IF t \in missing
                           THEN Put(db[t], SeedRow[t].key, SeedRow[t].row) ELSE db[t]
             /\ LET old == IF "squads" \in missing
                           THEN Put(db.squads, q, [manifest |-> TRUE]) ELSE db.squads
                IN  db'.squads = old \/ db'.squads = [old EXCEPT ![q].manifest = TRUE]
<1> DEFINE todo == req[s].seen
           q == <<Zero, SeedSquad>>
           d == Added(db, todo.missing)
<1>1. /\ req[s].op = "seed" /\ req[s].step = "commit"
      /\ \A t \in todo.missing : SeedRow[t].key \notin Keys(t)
      /\ db' = [d EXCEPT !.templates = @ + (IF todo.template THEN 1 ELSE 0),
                         !.squads = IF todo.manifest THEN [@ EXCEPT ![q].manifest = TRUE] ELSE @]
  BY DEF CommitSeed, Commits, Store
<1>2. todo.missing \subseteq DOMAIN SeedRow
  BY <1>1 DEF IInv, Fits, SeedWhole
<1>3. DOMAIN db = DOMAIN Columns \cup {"agents", "templates"} /\ db.templates \in Nat
  BY DEF IInv, TypeOK, TablesTyped
<1>4. /\ DOMAIN d = DOMAIN db
      /\ \A t \in DOMAIN db :
           d[t] = IF t \in todo.missing THEN Put(db[t], SeedRow[t].key, SeedRow[t].row) ELSE db[t]
  BY DEF Added
<1>5. SeedRow["squads"].key = q /\ SeedRow["squads"].row = [manifest |-> TRUE]
  BY DEF SeedRow
<1> HIDE DEF d, todo, q
<1>6. d.templates = db.templates
  BY <1>2, <1>3, <1>4, TableNames
<1>7. d.squads = IF "squads" \in todo.missing THEN Put(db.squads, q, [manifest |-> TRUE])
                 ELSE db.squads
  BY <1>3, <1>4, <1>5, TableNames
<1>8. /\ DOMAIN db' = DOMAIN db
      /\ db'.templates = d.templates + (IF todo.template THEN 1 ELSE 0)
      /\ db'.squads = IF todo.manifest THEN [d.squads EXCEPT ![q].manifest = TRUE] ELSE d.squads
      /\ \A t \in DOMAIN db \ {"templates", "squads"} : db'[t] = d[t]
  BY <1>1, <1>3, <1>4, TableNames
<1>9. db'.templates \in Nat
  BY <1>3, <1>6, <1>8
<1> QED
  BY <1>1, <1>2, <1>4, <1>7, <1>8, <1>9 DEF todo, q

LEMMA CommitSeedKeeps ==
  ASSUME IInv, NEW s \in Slots, CommitSeed(s)
  PROVE  IInv'
<1> DEFINE missing == req[s].seen.missing
           q == <<Zero, SeedSquad>>
           m == <<Zero, Root>>
           old == IF "squads" \in missing
                  THEN Put(db.squads, q, [manifest |-> TRUE]) ELSE db.squads
<1>1. /\ missing \subseteq DOMAIN SeedRow /\ req[s].op = "seed" /\ req[s].step = "commit"
      /\ \A t \in missing : SeedRow[t].key \notin Keys(t)
      /\ DOMAIN db' = DOMAIN db /\ db'.templates \in Nat
      /\ \A t \in DOMAIN db \ {"templates", "squads"} :
           db'[t] = IF t \in missing
                    THEN Put(db[t], SeedRow[t].key, SeedRow[t].row) ELSE db[t]
      /\ db'.squads = old \/ db'.squads = [old EXCEPT ![q].manifest = TRUE]
  BY SeedTables
<1>2. req' = [req EXCEPT ![s] = Idle] /\ UNCHANGED <<served, runs, crossed>>
  BY DEF CommitSeed, Store
<1>3. /\ "clients" \in missing <=> "plans" \in missing
      /\ "users" \in missing <=> "members" \in missing
      /\ "clients" \notin missing => Zero \in Keys("clients")
  BY <1>1 DEF IInv, Fits, SeedWhole, Keys
<1>4. TablesTyped(db) /\ DOMAIN db = DOMAIN Columns \cup {"agents", "templates"}
  BY DEF IInv, TypeOK, TablesTyped
<1>5. /\ SeedRow["clients"].key = Zero /\ SeedRow["clients"].row = Client(Workspace)
      /\ SeedRow["plans"].key = Zero /\ SeedRow["users"].key = Root
      /\ SeedRow["members"].key = m
  BY DEF SeedRow
<1> HIDE DEF missing, m, q
\* Each table has the rows it had, and perhaps the seed's.
<1>6. ASSUME NEW t \in DOMAIN Columns \ {"squads"}
      PROVE  /\ DOMAIN db'[t] = IF t \in missing THEN DOMAIN db[t] \cup {SeedRow[t].key}
                                ELSE DOMAIN db[t]
             /\ \A k \in DOMAIN db[t] : db'[t][k] = db[t][k]
             /\ t \in missing => db'[t][SeedRow[t].key] = SeedRow[t].row
  BY <1>1, <1>4, PutValue, TableNames DEF Keys
<1>7. DOMAIN db.squads \subseteq DOMAIN db'.squads
  <2>1. DOMAIN db.squads \subseteq DOMAIN old
    BY PutValue
  <2> HIDE DEF old
  <2> QED
    BY <1>1, <2>1
<1>8. \A k \in DOMAIN db'.squads : RowTyped("squads", db'.squads[k])
  <2>1. RowTyped("squads", [manifest |-> TRUE])
    BY DEF RowTyped, Columns
  <2>2. \A k \in DOMAIN db.squads : RowTyped("squads", db.squads[k])
    BY <1>4, TableNames DEF TablesTyped
  <2>3. \A k \in DOMAIN old : RowTyped("squads", old[k])
    BY <2>1, <2>2, PutValue
  <2> HIDE DEF old
  <2>4. \A k \in DOMAIN old : DOMAIN old[k] = {"manifest"}
    BY <2>3 DEF RowTyped, Columns
  <2>5. CASE db'.squads = [old EXCEPT ![q].manifest = TRUE]
    BY <2>4, <2>5 DEF RowTyped, Columns
  <2> QED
    BY <1>1, <2>3, <2>5
<1> HIDE DEF old
<1>9. TablesTyped(db')
  <2>1. ASSUME NEW t \in DOMAIN Columns, NEW k \in DOMAIN db'[t]
        PROVE  RowTyped(t, db'[t][k])
    <3>1. CASE t = "squads"
      BY <1>8, <3>1
    <3>2. CASE t # "squads" /\ k \in DOMAIN db[t]
      BY <1>4, <1>6, <3>2 DEF TablesTyped
    <3>3. CASE t # "squads" /\ k \notin DOMAIN db[t]
      <4>1. /\ t \in missing /\ k = SeedRow[t].key
            /\ db'[t][k] = SeedRow[t].row
        BY <1>6, <3>3
      <4> QED
        BY <1>1, <4>1, SeedRowTyped
    <3> QED
      BY <3>1, <3>2, <3>3
  <2> QED
    BY <1>1, <1>4, <2>1 DEF TablesTyped
<1>10. Grows(db, db')
  <2>1. \A t \in DOMAIN Columns : DOMAIN db[t] \subseteq DOMAIN db'[t]
    BY <1>6, <1>7
  <2>2. db'.agents = db.agents
    BY <1>1, <1>4, TableNames
  <2>3. \A k \in DOMAIN db.tasks : db'.tasks[k] = db.tasks[k]
    BY <1>6, TableNames
  <2> QED
    BY <2>1, <2>2, <2>3 DEF Grows
<1>11. /\ Keys("clients")' = IF "clients" \in missing THEN Keys("clients") \cup {Zero}
                             ELSE Keys("clients")
       /\ Keys("plans")' = IF "plans" \in missing THEN Keys("plans") \cup {Zero}
                           ELSE Keys("plans")
       /\ Keys("users")' = IF "users" \in missing THEN Keys("users") \cup {Root}
                           ELSE Keys("users")
       /\ Keys("members")' = IF "members" \in missing THEN Keys("members") \cup {m}
                             ELSE Keys("members")
  BY <1>5, <1>6, TableNames DEF Keys
<1>12. "users" \in missing => Keys("users") = {} /\ Keys("members") = {}
  BY <1>1, <1>5, NobodyBeforeRoot DEF IInv, KeysRight
<1>13. m = <<Zero, Root>> /\ m[1] = Zero /\ m[2] = Root /\ Zero \in Keys("clients")'
  BY <1>3, <1>11 DEF m
<1>14. PlanEach'
  BY <1>3, <1>11 DEF IInv, PlanEach
<1>15. MembersKnown' /\ RootFirst' /\ OneTenantEach'
  <2>1. CASE "users" \in missing
    <3>1. Keys("users")' = {Root} /\ Keys("members")' = {m}
      BY <1>3, <1>11, <1>12, <2>1
    <3> QED
      BY <1>13, <3>1 DEF MembersKnown, RootFirst, OneTenantEach
  <2>2. CASE "users" \notin missing
    <3>1. /\ Keys("users")' = Keys("users") /\ Keys("members")' = Keys("members")
          /\ Keys("clients") \subseteq Keys("clients")'
      BY <1>3, <1>11, <2>2
    <3> QED
      BY <3>1 DEF IInv, MembersKnown, RootFirst, OneTenantEach
  <2> QED
    BY <2>1, <2>2
<1>16. \A c \in Keys("clients") : db'.clients[c] = db.clients[c]
  BY <1>6, TableNames DEF Keys
<1>17. \A c \in Keys("clients")' \ Keys("clients") : db'.clients[c] = Client(Workspace)
  BY <1>5, <1>6, <1>11, TableNames
<1>18. \A c \in Keys("clients")' \ Keys("clients") :
          db'.clients[c].archived <=> db'.clients[c].status = "archived"
  BY <1>17 DEF Client
<1>19. SameStatus(db, db')
  BY <1>16 DEF SameStatus, Keys
<1> QED
  BY <1>2, <1>9, <1>10, <1>14, <1>15, <1>18, <1>19, Stored DEF KeysRight
-----------------------------------------------------------------------------
(* The inductive invariant.                                                *)

LEMMA EmptyRight ==
  ASSUME db = Empty
  PROVE  TablesTyped(db) /\ KeysRight /\ ArchivedDated
<1>1. /\ DOMAIN db = DOMAIN Columns \cup {"agents", "templates"} /\ db.templates = 0
      /\ \A t \in DOMAIN Columns : db[t] = NoRows
  BY TableNames DEF Empty
<1>2. DOMAIN NoRows = {}
  BY DEF NoRows
<1>3. TablesTyped(db)
  BY <1>1, <1>2 DEF TablesTyped
<1>4. Keys("users") = {} /\ Keys("members") = {} /\ Keys("clients") = {} /\ Keys("plans") = {}
  BY <1>1, <1>2, TableNames DEF Keys
<1> QED
  BY <1>3, <1>4 DEF KeysRight, OneTenantEach, PlanEach, MembersKnown, RootFirst, ArchivedDated

LEMMA PeopledRight ==
  ASSUME NEW n \in {0, 1}, db = Peopled(n)
  PROVE  TablesTyped(db) /\ KeysRight /\ ArchivedDated
<1> DEFINE people == {<<Zero, Root>>, <<Tenant, Admin>>}
           homes == {<<Zero, SeedSquad>>, <<Tenant, SeedSquad>>}
<1>1. DOMAIN Empty = DOMAIN Columns \cup {"agents", "templates"}
  BY DEF Empty
<1>2. /\ DOMAIN db = DOMAIN Columns \cup {"agents", "templates"} /\ db.templates = n
      /\ db.clients = [c \in {Zero, Tenant} |-> Client(IF c = Zero THEN Workspace ELSE None)]
      /\ db.plans = [c \in {Zero, Tenant} |-> Plan]
      /\ db.users = [u \in {Root, Admin} |-> Account(u = Root)]
      /\ db.members = [m \in people |-> Member("CLIENT_ADMIN")]
      /\ db.squads = [q \in homes |-> [manifest |-> q[1] = Zero]]
      /\ db.stacks = Empty.stacks /\ db.tasks = Empty.tasks
      /\ db.profiles = [p \in DOMAIN STACK_PROFILES |-> [text |-> None]]
  BY <1>1, TableNames DEF Peopled
<1>3. Empty.stacks = NoRows /\ Empty.tasks = NoRows /\ DOMAIN NoRows = {}
  BY TableNames DEF Empty, NoRows
<1>4. /\ \A url : RowTyped("clients", Client(url)) /\ RowTyped("plans", Plan)
      /\ RowTyped("members", Member("CLIENT_ADMIN"))
      /\ RowTyped("profiles", [text |-> None])
  BY ControlPlaneConstants DEF RowTyped, Columns, Client, Plan, Member, Statuses
<1>5. \A q : RowTyped("squads", [manifest |-> q[1] = Zero])
  BY DEF RowTyped, Columns
<1>6. ASSUME NEW t \in DOMAIN Columns, NEW k \in DOMAIN db[t]
      PROVE  RowTyped(t, db[t][k])
  <2>1. CASE t = "clients"
    BY <1>2, <1>4, <2>1
  <2>2. CASE t = "plans"
    BY <1>2, <1>4, <2>2
  <2>3. CASE t = "users"
    <3>1. /\ k \in {Root, Admin}
          /\ db[t][k] = [admin |-> (k = Root), active |-> TRUE, login |-> FALSE]
      BY <1>2, <2>3 DEF Account
    <3>2. DOMAIN db[t][k] = {"admin", "active", "login"} /\ db[t][k].active = TRUE
      BY <3>1
    <3> QED
      BY <2>3, <3>2 DEF RowTyped, Columns
  <2>4. CASE t = "members"
    BY <1>2, <1>4, <2>4
  <2>5. CASE t = "squads"
    BY <1>2, <1>5, <2>5
  <2>6. CASE t = "profiles"
    BY <1>2, <1>4, <2>6
  <2>7. CASE t = "stacks" \/ t = "tasks"
    BY <1>2, <1>3, <2>7
  <2> QED
    BY <2>1, <2>2, <2>3, <2>4, <2>5, <2>6, <2>7, TableNames
<1>7. TablesTyped(db)
  BY <1>2, <1>6 DEF TablesTyped
<1>8. /\ Keys("clients") = {Zero, Tenant} /\ Keys("plans") = {Zero, Tenant}
      /\ Keys("users") = {Root, Admin} /\ Keys("members") = people
  BY <1>2 DEF Keys
<1>9. OneTenantEach
  <2>1. Root # Admin
    BY ControlPlaneConstants
  <2>2. {m \in people : m[2] = Root} = {<<Zero, Root>>}
    BY <2>1
  <2>3. {m \in people : m[2] = Admin} = {<<Tenant, Admin>>}
    BY <2>1
  <2> HIDE DEF people
  <2> QED
    BY <1>8, <2>2, <2>3 DEF OneTenantEach
<1>10. PlanEach /\ MembersKnown /\ RootFirst
  BY <1>8 DEF PlanEach, MembersKnown, RootFirst
<1>11. \A url : ~Client(url).archived /\ Client(url).status = "active"
  BY DEF Client
<1>12. ArchivedDated
  BY <1>2, <1>11 DEF ArchivedDated, Keys
<1> QED
  BY <1>7, <1>9, <1>10, <1>12 DEF KeysRight

LEMMA InitIInv == Init => IInv
<1> SUFFICES ASSUME Init PROVE IInv
  OBVIOUS
<1>1. TablesTyped(db) /\ KeysRight /\ ArchivedDated
  BY EmptyRight, PeopledRight DEF Init
<1>2. RequestTyped(Idle) /\ Fits(db, crossed, Idle)
  BY IdleFits
<1>3. /\ DOMAIN req = Slots /\ \A s \in Slots : req[s] = Idle
      /\ served = 0 /\ runs = {} /\ crossed = {} /\ 0 \in 0..MaxRequests
  BY ControlPlaneConstants DEF Init
<1>4. TypeOK
  BY <1>1, <1>2, <1>3 DEF TypeOK
<1>5. RunsBacked
  BY <1>3 DEF RunsBacked
<1> QED
  BY <1>1, <1>2, <1>3, <1>4, <1>5 DEF IInv, KeysRight

LEMMA StutterKeeps ==
  ASSUME IInv, UNCHANGED vars
  PROVE  IInv'
<1>1. /\ TypeOK' /\ OneTenantEach' /\ PlanEach' /\ RunsBacked' /\ MembersKnown' /\ RootFirst'
      /\ \A s \in Slots : Fits(db', crossed', req'[s])
  BY DEF IInv, vars, TypeOK, OneTenantEach, PlanEach, RunsBacked, MembersKnown, RootFirst, Keys
<1>2. ArchivedDated'
  BY Zenon DEF IInv, vars, ArchivedDated, Keys
<1> QED
  BY <1>1, <1>2 DEF IInv

LEMMA NextKeeps ==
  ASSUME IInv, Next
  PROVE  IInv'
  BY AuthenticateKeeps, LoginKeeps, RunScriptKeeps, ResolveContextKeeps, AbortKeeps,
     ReadKeeps, ReadClientKeeps, ReadUserKeeps, ReadNewStackKeeps, ReadStackKeeps,
     ReadTaskKeeps, ReadSeedKeeps,
     CreateClientKeeps, UpdateClientKeeps, UpdatePlanKeeps, CreateUserKeeps, UpdateUserKeeps,
     CommitLoginKeeps, CreateSquadKeeps, CreateStackKeeps, UpdateStackKeeps, CommitTaskKeeps,
     LaunchKeeps, CommitSeedKeeps, CommitProfilesKeeps DEF Next

\* Whatever requests cross: every account has one tenant, every client a plan, a
\* client is dated while it is archived, a run that was started has its task, and
\* what a request under way has read is still its client's (create_user_for_client,
\* create_client, update_client, trigger_managed_agent_run, seed).
THEOREM TablesRight == Spec => []IInv
<1>1. IInv /\ [Next]_vars => IInv'
  BY NextKeeps, StutterKeeps
<1> QED
  BY InitIInv, <1>1, PTL DEF Spec

\* A request that names no client acts for exactly one, unless an administrator of
\* the platform sends it (require_client_context, create_user_for_client).
SoleContext ==
  \A u \in Keys("users") : ~db.users[u].admin => \E c : ContextsOf(u, None) = {c}

LEMMA ContextIsSole ==
  ASSUME IInv
  PROVE  SoleContext
<1> SUFFICES ASSUME NEW u \in Keys("users"), ~db.users[u].admin
             PROVE  \E c : ContextsOf(u, None) = {c}
  BY DEF SoleContext
<1> DEFINE own == {c \in Keys("clients") : <<c, u>> \in Keys("members") /\ None \in {c, None}}
<1>1. PICK b \in Keys("clients") : {m \in Keys("members") : m[2] = u} = {<<b, u>>}
  BY DEF IInv, OneTenantEach
<1>2. <<b, u>> \in Keys("members")
  BY <1>1
<1>3. ASSUME NEW c, <<c, u>> \in Keys("members") PROVE c = b
  <2>1. <<c, u>>[2] = u
    OBVIOUS
  <2>2. <<c, u>> \in {<<b, u>>}
    BY <1>1, <1>3, <2>1
  <2> QED
    BY <2>2
<1>4. own = {b}
  BY <1>2, <1>3
<1>5. Cardinality(own) = 1
  BY <1>4, FS_Singleton
<1> HIDE DEF own
<1>6. ContextsOf(u, None) = own
  BY <1>5 DEF ContextsOf, own
<1> QED
  BY <1>4, <1>6

\* A request without the header X-Client-Id always has its one client: the answers 403
\* and 400 to an account of none and of several stay unused (require_client_context).
THEOREM ContextNeverAmbiguous == Spec => []SoleContext
  BY TablesRight, ContextIsSole, PTL
-----------------------------------------------------------------------------
(* What a transaction may write.                                           *)

Committing(s) == req[s].step = "commit" /\ req'[s] # req[s]

\* Every row that appears or changes is of a client that the request of slot s
\* is entitled to.
OwnRows(s) ==
  \A t \in Owned : \A k \in DOMAIN db'[t] :
     (k \notin Keys(t) \/ db[t][k] # db'[t][k]) => EntitledTo(s, Owner(db', t, k))

\* Every field of a row that changes has the value the request of slot s asks for.
AskedFields(s) ==
  \A t \in Tables : \A k \in Keys(t) :
     /\ k \in DOMAIN db'[t]
     /\ \A f \in DOMAIN db[t][k] :
           db'[t][k][f] # db[t][k][f]
              => f \in DOMAIN Asked(req[s], k) /\ db'[t][k][f] = Asked(req[s], k)[f]

LEMMA EndsCommit ==
  ASSUME IInv, NEW s \in Slots, req[s].step = "commit",
         \/ req' = [req EXCEPT ![s] = Idle]
         \/ Become(s, [step |-> "launch"])
  PROVE  Committing(s)
<1>1. DOMAIN req = Slots
  BY DEF IInv, TypeOK
<1>2. CASE req' = [req EXCEPT ![s] = Idle]
  <2>1. req'[s].step = "free"
    BY <1>1, <1>2 DEF Idle
  <2> QED
    BY <2>1 DEF Committing
<1>3. CASE Become(s, [step |-> "launch"])
  <2>1. req'[s].step = "launch"
    BY <1>1, <1>3 DEF Become, Over
  <2> QED
    BY <2>1 DEF Committing
<1> QED
  BY <1>2, <1>3

\* The membership of an account says whose it is.
LEMMA OwnerOfAccount ==
  ASSUME NEW d, NEW u, NEW c, {m \in DOMAIN d.members : m[2] = u} = {<<c, u>>}
  PROVE  Owner(d, "users", u) = c
<1>1. \A m \in DOMAIN d.members : m[2] = u <=> m = <<c, u>>
  OBVIOUS
<1>2. <<c, u>> \in DOMAIN d.members /\ <<c, u>>[2] = u
  OBVIOUS
<1>3. (CHOOSE m \in DOMAIN d.members : m[2] = u) = <<c, u>>
  BY <1>1, <1>2
<1> QED
  BY <1>3 DEF Owner

LEMMA OwnerOfRow ==
  ASSUME NEW d, NEW k
  PROVE  /\ Owner(d, "clients", k) = k /\ Owner(d, "plans", k) = k
         /\ Owner(d, "members", k) = k[1] /\ Owner(d, "squads", k) = k[1]
         /\ Owner(d, "stacks", k) = k[1][1] /\ Owner(d, "tasks", k) = d.tasks[k].client
  BY DEF Owner

\* An account that has a membership is its client's.
LEMMA OwnerOfMember ==
  ASSUME NEW d, NEW u, NEW c, <<c, u>> \in DOMAIN d.members,
         \E b \in DOMAIN d.clients : {m \in DOMAIN d.members : m[2] = u} = {<<b, u>>}
  PROVE  Owner(d, "users", u) = c
<1>1. PICK b \in DOMAIN d.clients : {m \in DOMAIN d.members : m[2] = u} = {<<b, u>>}
  OBVIOUS
<1>2. <<c, u>>[2] = u
  OBVIOUS
<1>3. <<c, u>> \in {<<b, u>>}
  BY <1>1, <1>2
<1>4. b = c
  BY <1>3
<1> QED
  BY <1>1, <1>4, OwnerOfAccount

\* A transaction that writes one row.
LEMMA RowWritten ==
  ASSUME IInv, NEW s \in Slots, NEW t \in DOMAIN Columns, NEW k, NEW row,
         db' = With(db, t, k, row),
         EntitledTo(s, Owner(db', t, k)),
         k \in DOMAIN db[t] =>
           \A f \in DOMAIN db[t][k] :
              row[f] # db[t][k][f]
                 => f \in DOMAIN Asked(req[s], k) /\ row[f] = Asked(req[s], k)[f]
  PROVE  OwnRows(s) /\ AskedFields(s)
<1>1. t \in DOMAIN db
  BY DEF IInv, TypeOK, TablesTyped
<1>2. /\ DOMAIN db'[t] = DOMAIN db[t] \cup {k} /\ db'[t][k] = row
      /\ \A j \in DOMAIN db[t] \ {k} : db'[t][j] = db[t][j]
      /\ \A v \in DOMAIN db \ {t} : db'[v] = db[v]
  BY <1>1, WithRows
<1>3. OwnRows(s)
  BY <1>2 DEF OwnRows, Owned, Tables, Keys
<1>4. AskedFields(s)
  <2>1. ASSUME NEW v \in Tables, NEW j \in Keys(v)
        PROVE  /\ j \in DOMAIN db'[v]
               /\ \A f \in DOMAIN db[v][j] :
                    db'[v][j][f] # db[v][j][f]
                       => f \in DOMAIN Asked(req[s], j) /\ db'[v][j][f] = Asked(req[s], j)[f]
    <3>1. CASE v = t /\ j = k
      BY <1>2, <3>1 DEF Keys
    <3>2. CASE ~(v = t /\ j = k)
      BY <1>2, <3>2 DEF Keys, Tables
    <3> QED
      BY <3>1, <3>2
  <2> QED
    BY <2>1 DEF AskedFields
<1> QED
  BY <1>3, <1>4

\* The same for an UPDATE with what the request asks for.
LEMMA UpdateWritten ==
  ASSUME IInv, NEW s \in Slots, NEW t \in DOMAIN Columns, NEW k, NEW loaded, NEW p,
         p = Asked(req[s], k), db' = Update(t, k, loaded, p), EntitledTo(s, Owner(db', t, k))
  PROVE  OwnRows(s) /\ AskedFields(s)
<1> DEFINE row == Merge(db[t][k], loaded, p)
<1>1. db' = With(db, t, k, row)
  BY DEF Update
<1>2. \A f \in DOMAIN db[t][k] : row[f] # db[t][k][f] => f \in DOMAIN p /\ row[f] = p[f]
  BY MergeValue
<1> HIDE DEF row
<1> QED
  BY <1>1, <1>2, RowWritten

LEMMA TableIsThere ==
  ASSUME IInv
  PROVE  DOMAIN db = DOMAIN Columns \cup {"agents", "templates"}
  BY DEF IInv, TypeOK, TablesTyped

LEMMA UpdateClientWrites ==
  ASSUME IInv, NEW s \in Slots, UpdateClient(s)
  PROVE  Committing(s) /\ OwnRows(s) /\ AskedFields(s)
<1> DEFINE c == req[s].target
           p == Dated(req[s].edit)
<1>1. /\ req[s].op = "update_client" /\ req[s].step = "commit"
      /\ db' = Update("clients", c, req[s].seen, p) /\ req' = [req EXCEPT ![s] = Idle]
  BY DEF UpdateClient, Commits, Store
<1>2. Asked(req[s], c) = p
  BY <1>1 DEF Asked
<1>3. EntitledTo(s, Owner(db', "clients", c))
  BY <1>1, OwnerOfRow DEF EntitledTo
<1> HIDE DEF c, p
<1> QED
  BY <1>1, <1>2, <1>3, UpdateWritten, EndsCommit, TableNames

LEMMA UpdatePlanWrites ==
  ASSUME IInv, NEW s \in Slots, UpdatePlan(s)
  PROVE  Committing(s) /\ OwnRows(s) /\ AskedFields(s)
<1> DEFINE c == req[s].target
<1>1. /\ req[s].op = "update_plan" /\ req[s].step = "commit"
      /\ db' = Update("plans", c, req[s].seen, req[s].edit) /\ req' = [req EXCEPT ![s] = Idle]
  BY DEF UpdatePlan, Commits, Store
<1>2. Asked(req[s], c) = req[s].edit
  BY <1>1 DEF Asked
<1>3. EntitledTo(s, Owner(db', "plans", c))
  BY <1>1, OwnerOfRow DEF EntitledTo
<1> HIDE DEF c
<1> QED
  BY <1>1, <1>2, <1>3, UpdateWritten, EndsCommit, TableNames

LEMMA CommitLoginWrites ==
  ASSUME IInv, IInv', NEW s \in Slots, CommitLogin(s)
  PROVE  Committing(s) /\ OwnRows(s) /\ AskedFields(s)
<1> DEFINE u == req[s].actor
           p == [login |-> TRUE]
<1>1. /\ req[s].op = "login" /\ req[s].step = "commit"
      /\ db' = Update("users", u, req[s].seen, p) /\ req' = [req EXCEPT ![s] = Idle]
  BY DEF CommitLogin, Commits, Store
<1>2. Asked(req[s], u) = p
  BY <1>1 DEF Asked
<1>3. u \in DOMAIN db.users
  BY <1>1 DEF IInv, Fits, TargetThere, Fields
<1>4. PICK c : {m \in DOMAIN db.members : m[2] = u} = {<<c, u>>}
  BY <1>3 DEF IInv, OneTenantEach, Keys
<1> HIDE DEF u, p
<1>5. db'.members = db.members
  BY <1>1, TableIsThere, TableNames, WithRows DEF Update
<1>6. Owner(db', "users", u) = c
  BY <1>4, <1>5, OwnerOfAccount
<1>7. <<c, u>> \in Keys("members")
  BY <1>4 DEF Keys
<1>8. EntitledTo(s, c)
  BY <1>1, <1>7 DEF EntitledTo, u
<1> QED
  BY <1>1, <1>2, <1>6, <1>8, UpdateWritten, EndsCommit, TableNames

LEMMA UpdateStackWrites ==
  ASSUME IInv, NEW s \in Slots, UpdateStack(s) \/ ArchiveStack(s)
  PROVE  Committing(s) /\ OwnRows(s) /\ AskedFields(s)
<1> DEFINE k == req[s].stack
<1>1. PICK p : /\ db' = Update("stacks", k, req[s].seen, p) /\ p = Asked(req[s], k)
               /\ req[s].op \in {"update_stack", "archive_stack"} /\ req[s].step = "commit"
               /\ req' = [req EXCEPT ![s] = Idle]
  <2>1. CASE UpdateStack(s)
    BY <2>1 DEF UpdateStack, Commits, Store, Asked
  <2>2. CASE ArchiveStack(s)
    BY <2>2 DEF ArchiveStack, Commits, Store, Asked
  <2> QED
    BY <2>1, <2>2
<1>2. k[1][1] = req[s].client
  BY <1>1 DEF IInv, Fits, InContext
<1>3. EntitledTo(s, Owner(db', "stacks", k))
  BY <1>1, <1>2, OwnerOfRow DEF EntitledTo
<1> HIDE DEF k
<1> QED
  BY <1>1, <1>3, UpdateWritten, EndsCommit, TableNames
LEMMA CreateSquadWrites ==
  ASSUME IInv, NEW s \in Slots, CreateSquad(s)
  PROVE  Committing(s) /\ OwnRows(s) /\ AskedFields(s)
<1> DEFINE k == <<req[s].client, req[s].slug>>
           row == [manifest |-> FALSE]
<1>1. /\ req[s].step = "commit" /\ k \notin DOMAIN db.squads
      /\ db' = With(db, "squads", k, row) /\ req' = [req EXCEPT ![s] = Idle]
  BY DEF CreateSquad, Commits, Store, Keys
<1>2. EntitledTo(s, Owner(db', "squads", k))
  BY <1>1, OwnerOfRow DEF EntitledTo
<1> HIDE DEF k, row
<1> QED
  BY <1>1, <1>2, RowWritten, EndsCommit, TableNames

LEMMA CreateStackWrites ==
  ASSUME IInv, NEW s \in Slots, CreateStack(s)
  PROVE  Committing(s) /\ OwnRows(s) /\ AskedFields(s)
<1> DEFINE k == <<req[s].squad, req[s].slug>>
           row == NewStack(req[s].seen)
<1>1. /\ req[s].op = "create_stack" /\ req[s].step = "commit" /\ k \notin DOMAIN db.stacks
      /\ db' = With(db, "stacks", k, row) /\ req' = [req EXCEPT ![s] = Idle]
  BY DEF CreateStack, Commits, Store, Keys
<1>2. k[1][1] = req[s].client
  BY <1>1 DEF IInv, Fits, InContext
<1>3. EntitledTo(s, Owner(db', "stacks", k))
  BY <1>1, <1>2, OwnerOfRow DEF EntitledTo
<1> HIDE DEF k, row
<1> QED
  BY <1>1, <1>3, RowWritten, EndsCommit, TableNames

LEMMA CommitTaskWrites ==
  ASSUME IInv, IInv', NEW s \in Slots, CommitTask(s)
  PROVE  Committing(s) /\ OwnRows(s) /\ AskedFields(s)
<1> DEFINE r == req[s]
           q == Over([step |-> "launch"], r)
           k == TaskOf(r)
<1>1. /\ r.op = "trigger" /\ r.step = "commit" /\ RequestTyped(r)
      /\ Become(s, [step |-> "launch"]) /\ DOMAIN req = Slots
  BY DEF CommitTask, Commits, IInv, TypeOK
\* The task is then the client's, as the request goes on to launch.
<1>2. db'.tasks[k].client = r.client
  <2>1. req'[s] = q
    BY <1>1 DEF Become
  <2>2. /\ q.op = "trigger" /\ q.step = "launch"
        /\ \A f \in DOMAIN r \ {"step"} : q[f] = r[f]
        /\ \A f \in Fields["trigger"] : q[f] = r[f]
    BY <1>1, Became, FieldNames
  <2>3. TaskOf(q) = k /\ q.client = r.client
    BY <1>1, <2>2, FieldNames DEF Fields, RequestTyped, TaskOf
  <2> HIDE DEF q, k
  <2>4. db'.tasks[TaskOf(q)].client = q.client
    BY <2>1, <2>2 DEF IInv, Fits, InContext
  <2> QED
    BY <2>3, <2>4
<1>3. EntitledTo(s, Owner(db', "tasks", k))
  BY <1>1, <1>2, OwnerOfRow DEF EntitledTo
<1>4. Committing(s)
  BY <1>1, EndsCommit
<1>5. CASE /\ k \notin DOMAIN db.tasks
           /\ db' = With(db, "tasks", k, [client |-> r.client, agent |-> r.agent])
  <2> DEFINE row == [client |-> r.client, agent |-> r.agent]
  <2> HIDE DEF row, k
  <2> QED
    BY <1>3, <1>4, <1>5, RowWritten, TableNames DEF row
<1>6. CASE db' = Update("tasks", k, r.seen, [agent |-> r.agent])
  <2>1. Asked(r, k) = [agent |-> r.agent]
    BY <1>1 DEF Asked
  <2> HIDE DEF k
  <2> QED
    BY <1>3, <1>4, <1>6, <2>1, UpdateWritten, TableNames
<1> QED
  BY <1>5, <1>6 DEF CommitTask, Keys

\* A transaction that adds a row to each of two tables.
LEMMA TwoRowsWritten ==
  ASSUME IInv, NEW s \in Slots, NEW t \in DOMAIN Columns, NEW v \in DOMAIN Columns \ {t},
         NEW k, k \notin DOMAIN db[t], NEW j, j \notin DOMAIN db[v], NEW row, NEW new,
         db' = With(With(db, t, k, row), v, j, new),
         EntitledTo(s, Owner(db', t, k)), EntitledTo(s, Owner(db', v, j))
  PROVE  OwnRows(s) /\ AskedFields(s)
<1> DEFINE e == With(db, t, k, row)
<1>1. t \in DOMAIN db /\ v \in DOMAIN db
  BY TableIsThere
<1>2. /\ DOMAIN e = DOMAIN db /\ DOMAIN e[t] = DOMAIN db[t] \cup {k}
      /\ \A i \in DOMAIN db[t] \ {k} : e[t][i] = db[t][i]
      /\ \A u \in DOMAIN db \ {t} : e[u] = db[u]
  BY <1>1, WithRows
<1>3. db' = With(e, v, j, new)
  OBVIOUS
<1> HIDE DEF e
<1>4. /\ DOMAIN db'[v] = DOMAIN e[v] \cup {j}
      /\ \A i \in DOMAIN e[v] \ {j} : db'[v][i] = e[v][i]
      /\ \A u \in DOMAIN e \ {v} : db'[u] = e[u]
  BY <1>1, <1>2, <1>3, WithRows
<1>5. ASSUME NEW u \in DOMAIN db, NEW i \in DOMAIN db[u]
      PROVE  i \in DOMAIN db'[u] /\ db'[u][i] = db[u][i]
  BY <1>1, <1>2, <1>4
<1>6. ASSUME NEW u \in DOMAIN db, NEW i \in DOMAIN db'[u] \ DOMAIN db[u]
      PROVE  (u = t /\ i = k) \/ (u = v /\ i = j)
  BY <1>1, <1>2, <1>4
<1>7. OwnRows(s)
  BY <1>5, <1>6 DEF OwnRows, Owned, Tables, Keys
<1> QED
  BY <1>5, <1>7 DEF AskedFields, Tables, Keys

LEMMA CreateClientWrites ==
  ASSUME IInv, NEW s \in Slots, CreateClient(s)
  PROVE  Committing(s) /\ OwnRows(s) /\ AskedFields(s)
<1> DEFINE k == req[s].slug
           row == Client(None)
<1>1. /\ req[s].op = "create_client" /\ req[s].step = "commit"
      /\ k \notin DOMAIN db.clients /\ req' = [req EXCEPT ![s] = Idle]
      /\ db' = With(With(db, "clients", k, row), "plans", k, Plan)
  BY DEF CreateClient, Commits, Store, Keys
<1>2. k \notin DOMAIN db.plans
  BY <1>1 DEF IInv, PlanEach, Keys
<1>3. EntitledTo(s, Owner(db', "clients", k)) /\ EntitledTo(s, Owner(db', "plans", k))
  BY <1>1, OwnerOfRow DEF EntitledTo
<1> HIDE DEF k, row
<1> QED
  BY <1>1, <1>2, <1>3, TwoRowsWritten, EndsCommit, TableNames

LEMMA AccountWrites ==
  ASSUME IInv, IInv', NEW s \in Slots, NEW c, EntitledTo(s, c),
         req[s].email \notin Keys("users"), Store(s, AccountWithMembership(c, req[s]))
  PROVE  Committing(s) /\ OwnRows(s) /\ AskedFields(s)
<1> DEFINE u == req[s].email
           m == <<c, u>>
           account == Account(FALSE)
           member == Member(req[s].role_asked)
           e == With(db, "users", u, account)
<1>1. db' = With(e, "members", m, member) /\ req' = [req EXCEPT ![s] = Idle]
  BY DEF Store, AccountWithMembership
<1>2. u \notin DOMAIN db.users /\ m \notin DOMAIN db.members
  BY DEF IInv, MembersKnown, Keys
<1>3. m[1] = c
  OBVIOUS
<1> HIDE DEF account, member, u, m
<1>4. {"users", "members"} \subseteq DOMAIN db
  BY TableIsThere, TableNames
<1>5. DOMAIN e = DOMAIN db /\ u \in DOMAIN e.users
  BY <1>4, WithRows
<1>6. /\ m \in DOMAIN db'.members /\ u \in DOMAIN db'.users
  <2> HIDE DEF e
  <2> QED
    BY <1>1, <1>4, <1>5, WithRows
<1>7. Owner(db', "users", u) = c
  <2>1. \E b \in DOMAIN db'.clients : {n \in DOMAIN db'.members : n[2] = u} = {<<b, u>>}
    BY <1>6 DEF IInv, OneTenantEach, Keys
  <2> QED
    BY <1>6, <2>1, OwnerOfMember DEF m
<1>8. Owner(db', "members", m) = c
  BY <1>3, OwnerOfRow
<1>9. OwnRows(s) /\ AskedFields(s)
  BY <1>1, <1>2, <1>7, <1>8, TwoRowsWritten, TableNames DEF e
<1> QED
  BY <1>1, <1>9, EndsCommit DEF EntitledTo

LEMMA CreateUserWrites ==
  ASSUME IInv, IInv', NEW s \in Slots, CreateClientUser(s) \/ InviteUser(s)
  PROVE  Committing(s) /\ OwnRows(s) /\ AskedFields(s)
<1>1. CASE CreateClientUser(s)
  <2>1. EntitledTo(s, req[s].target)
    BY <1>1 DEF CreateClientUser, Commits, EntitledTo
  <2> QED
    BY <1>1, <2>1, AccountWrites DEF CreateClientUser
<1>2. CASE InviteUser(s)
  <2>1. EntitledTo(s, req[s].client)
    BY <1>2 DEF InviteUser, Commits, EntitledTo
  <2> QED
    BY <1>2, <2>1, AccountWrites DEF InviteUser
<1> QED
  BY <1>1, <1>2
LEMMA UpdateUserWrites ==
  ASSUME IInv, IInv', NEW s \in Slots, UpdateUser(s)
  PROVE  Committing(s) /\ OwnRows(s) /\ AskedFields(s)
<1> DEFINE r == req[s]
           u == r.user
           m == r.seen.member
           account == Merge(db.users[u], r.seen.user, r.edit)
           member == Merge(db.members[m], r.seen.role, r.edit)
<1>1. /\ r.op = "edit_user" /\ r.step = "commit" /\ req' = [req EXCEPT ![s] = Idle]
      /\ db' = [db EXCEPT !.users[u] = Merge(@, r.seen.user, r.edit),
                          !.members[m] = Merge(@, r.seen.role, r.edit)]
  BY DEF UpdateUser, Commits, Store
<1>2. u \in DOMAIN db.users /\ m \in DOMAIN db.members /\ m = <<r.client, u>>
  BY <1>1 DEF IInv, Fits, TargetThere, InContext
<1>3. {"users", "members"} \subseteq DOMAIN db
  BY TableIsThere, TableNames
<1>4. /\ db'.users = [db.users EXCEPT ![u] = account]
      /\ db'.members = [db.members EXCEPT ![m] = member]
      /\ \A t \in DOMAIN db \ {"users", "members"} : db'[t] = db[t]
  BY <1>1, <1>3, TableNames
<1>5. \A k : Asked(r, k) = r.edit
  BY <1>1 DEF Asked
<1>6. \A f \in DOMAIN db.users[u] :
        account[f] # db.users[u][f] => f \in DOMAIN r.edit /\ account[f] = r.edit[f]
  BY MergeValue
<1>7. \A f \in DOMAIN db.members[m] :
        member[f] # db.members[m][f] => f \in DOMAIN r.edit /\ member[f] = r.edit[f]
  BY MergeValue
<1>8. EntitledTo(s, r.client) /\ m[1] = r.client
  BY <1>1, <1>2 DEF EntitledTo
<1>9. Owner(db', "members", m) = r.client
  BY <1>8, OwnerOfRow
<1> HIDE DEF account, member, u, m
<1>10. u \in DOMAIN db'.users /\ m \in DOMAIN db'.members
  BY <1>2, <1>4
<1>11. Owner(db', "users", u) = r.client
  <2>1. \E b \in DOMAIN db'.clients : {n \in DOMAIN db'.members : n[2] = u} = {<<b, u>>}
    BY <1>10 DEF IInv, OneTenantEach, Keys
  <2> QED
    BY <1>2, <1>10, <2>1, OwnerOfMember
<1>12. OwnRows(s)
  <2>1. ASSUME NEW t \in Owned, NEW k \in DOMAIN db'[t], k \notin Keys(t) \/ db[t][k] # db'[t][k]
        PROVE  (t = "users" /\ k = u) \/ (t = "members" /\ k = m)
    BY <1>2, <1>4, <2>1 DEF Owned, Tables, Keys
  <2> QED
    BY <1>8, <1>9, <1>11, <2>1 DEF OwnRows
<1>13. AskedFields(s)
  <2>1. ASSUME NEW t \in Tables, NEW k \in Keys(t)
        PROVE  /\ k \in DOMAIN db'[t]
               /\ \A f \in DOMAIN db[t][k] :
                    db'[t][k][f] # db[t][k][f]
                       => f \in DOMAIN Asked(req[s], k) /\ db'[t][k][f] = Asked(req[s], k)[f]
    <3>1. CASE t = "users" /\ k = u
      BY <1>2, <1>4, <1>5, <1>6, <3>1
    <3>2. CASE t = "members" /\ k = m
      BY <1>2, <1>4, <1>5, <1>7, <3>2
    <3>3. CASE ~(t = "users" /\ k = u) /\ ~(t = "members" /\ k = m)
      BY <1>4, <3>3 DEF Tables, Keys
    <3> QED
      BY <3>1, <3>2, <3>3
  <2> QED
    BY <2>1 DEF AskedFields
<1> QED
  BY <1>1, <1>12, <1>13, EndsCommit

LEMMA CommitProfilesWrites ==
  ASSUME IInv, NEW s \in Slots, CommitProfiles(s)
  PROVE  Committing(s) /\ OwnRows(s) /\ AskedFields(s)
<1> DEFINE Text(p) == [text |-> STACK_PROFILES[p]]
           new == DOMAIN STACK_PROFILES \ DOMAIN req[s].seen
           texts == [p \in DOMAIN db.profiles \cup new |->
                       IF p \in new THEN Text(p)
                       ELSE Merge(db.profiles[p], req[s].seen[p], Text(p))]
<1>1. /\ req[s].op = "seed_profiles" /\ req[s].step = "commit"
      /\ new \cap DOMAIN db.profiles = {}
      /\ db' = [db EXCEPT !.profiles = texts] /\ req' = [req EXCEPT ![s] = Idle]
  BY DEF CommitProfiles, Commits, Store, Keys
<1>2. "profiles" \in DOMAIN db
  BY TableIsThere, TableNames
<1>3. /\ db'.profiles = texts
      /\ \A t \in DOMAIN db \ {"profiles"} : db'[t] = db[t]
  BY <1>1, <1>2
<1>4. \A p : Asked(req[s], p) = Text(p)
  BY <1>1 DEF Asked
<1>5. ASSUME NEW p \in DOMAIN db.profiles
      PROVE  /\ p \in DOMAIN texts
             /\ \A f \in DOMAIN db.profiles[p] :
                  texts[p][f] # db.profiles[p][f]
                     => f \in DOMAIN Text(p) /\ texts[p][f] = Text(p)[f]
  <2>1. p \in DOMAIN texts /\ texts[p] = Merge(db.profiles[p], req[s].seen[p], Text(p))
    BY <1>1
  <2> HIDE DEF texts, Text
  <2> QED
    BY <2>1, MergeValue
<1> HIDE DEF texts, Text, new
<1>6. OwnRows(s)
  BY <1>3 DEF OwnRows, Owned, Tables, Keys
<1>7. AskedFields(s)
  <2>1. ASSUME NEW t \in Tables, NEW k \in Keys(t)
        PROVE  /\ k \in DOMAIN db'[t]
               /\ \A f \in DOMAIN db[t][k] :
                    db'[t][k][f] # db[t][k][f]
                       => f \in DOMAIN Asked(req[s], k) /\ db'[t][k][f] = Asked(req[s], k)[f]
    <3>1. CASE t = "profiles"
      BY <1>3, <1>4, <1>5, <3>1 DEF Keys
    <3>2. CASE t # "profiles"
      BY <1>3, <3>2 DEF Tables, Keys
    <3> QED
      BY <3>1, <3>2
  <2> QED
    BY <2>1 DEF AskedFields
<1> QED
  BY <1>1, <1>6, <1>7, EndsCommit

LEMMA CommitSeedWrites ==
  ASSUME IInv, IInv', NEW s \in Slots, CommitSeed(s)
  PROVE  Committing(s) /\ OwnRows(s) /\ AskedFields(s)
<1> DEFINE missing == req[s].seen.missing
           q == <<Zero, SeedSquad>>
           m == <<Zero, Root>>
           old == IF "squads" \in missing
                  THEN Put(db.squads, q, [manifest |-> TRUE]) ELSE db.squads
<1>1. /\ missing \subseteq DOMAIN SeedRow /\ req[s].op = "seed" /\ req[s].step = "commit"
      /\ \A t \in missing : SeedRow[t].key \notin Keys(t)
      /\ \A t \in DOMAIN db \ {"templates", "squads"} :
           db'[t] = IF t \in missing
                    THEN Put(db[t], SeedRow[t].key, SeedRow[t].row) ELSE db[t]
      /\ db'.squads = old \/ db'.squads = [old EXCEPT ![q].manifest = TRUE]
  BY SeedTables
<1>2. req' = [req EXCEPT ![s] = Idle]
  BY DEF CommitSeed, Store
<1>3. DOMAIN db = DOMAIN Columns \cup {"agents", "templates"}
  BY TableIsThere
<1>4. /\ SeedRow["clients"].key = Zero /\ SeedRow["plans"].key = Zero
      /\ SeedRow["users"].key = Root /\ SeedRow["members"].key = m
      /\ SeedRow["squads"].key = q /\ m[1] = Zero /\ q[1] = Zero
  BY DEF SeedRow
<1>5. "squads" \in missing => q \notin DOMAIN db.squads
  BY <1>1, <1>4 DEF Keys
<1>6. EntitledTo(s, Zero) /\ \A k : Asked(req[s], k) = [manifest |-> TRUE]
  BY <1>1 DEF EntitledTo, Asked
<1> HIDE DEF missing, m, q
<1>7. ASSUME NEW t \in DOMAIN db \ {"templates", "squads"}
      PROVE  /\ DOMAIN db[t] \subseteq DOMAIN db'[t]
             /\ \A k \in DOMAIN db[t] : db'[t][k] = db[t][k]
             /\ \A k \in DOMAIN db'[t] \ DOMAIN db[t] : t \in missing /\ k = SeedRow[t].key
             /\ t \in missing => SeedRow[t].key \in DOMAIN db'[t]
  <2>1. CASE t \in missing
    <3>1. db'[t] = [j \in DOMAIN db[t] \cup {SeedRow[t].key} |->
                      IF j = SeedRow[t].key THEN SeedRow[t].row ELSE db[t][j]]
      BY <1>1, <2>1, PutValue
    <3> QED
      BY <1>1, <2>1, <3>1 DEF Keys
  <2>2. CASE t \notin missing
    BY <1>1, <2>2
  <2> QED
    BY <2>1, <2>2
<1>8. /\ \A k \in DOMAIN old \ {q} : k \in DOMAIN db.squads /\ old[k] = db.squads[k]
      /\ \A k \in DOMAIN db.squads : k \in DOMAIN old /\ old[k] = db.squads[k]
  BY <1>5, PutValue
<1>9. \A k \in DOMAIN old : DOMAIN old[k] = {"manifest"}
  <2>1. \A k \in DOMAIN db.squads : DOMAIN db.squads[k] = {"manifest"}
    BY TableNames DEF IInv, TypeOK, TablesTyped, RowTyped, Columns
  <2>2. DOMAIN [manifest |-> TRUE] = {"manifest"}
    OBVIOUS
  <2> QED
    BY <2>1, <2>2, PutValue
<1> HIDE DEF old
<1>10. /\ DOMAIN db'.squads = DOMAIN old
       /\ \A k \in DOMAIN old \ {q} : db'.squads[k] = old[k]
       /\ q \in DOMAIN old => \/ db'.squads[q] = old[q]
                              \/ db'.squads[q].manifest = TRUE
  BY <1>1, <1>9
\* The owner of what was added is the client of the seed.
<1>11. ASSUME NEW t \in missing PROVE Owner(db', t, SeedRow[t].key) = Zero
  <2>1. CASE t = "users" /\ Root \in Keys("users")'
    <3>1. /\ m \in DOMAIN db'.members
          /\ \E b \in DOMAIN db'.clients : {n \in DOMAIN db'.members : n[2] = Root} = {<<b, Root>>}
      BY <2>1 DEF IInv, RootFirst, OneTenantEach, Keys, m
    <3> QED
      BY <1>4, <2>1, <3>1, OwnerOfMember DEF m
  <2>2. CASE t # "users"
    BY <1>1, <1>4, <2>2, OwnerOfRow, TableNames
  <2>3. t = "users" => Root \in Keys("users")'
    BY <1>3, <1>4, <1>7, TableNames DEF Keys
  <2> QED
    BY <2>1, <2>2, <2>3
<1>12. OwnRows(s)
  <2>1. ASSUME NEW t \in Owned, NEW k \in DOMAIN db'[t], k \notin Keys(t) \/ db[t][k] # db'[t][k]
        PROVE  Owner(db', t, k) = Zero
    <3>1. CASE t = "squads"
      <4>1. k = q
        BY <1>8, <1>10, <2>1, <3>1 DEF Keys
      <4> QED
        BY <1>4, <3>1, <4>1, OwnerOfRow
    <3>2. CASE t # "squads"
      <4>1. t \in missing /\ k = SeedRow[t].key
        BY <1>7, <2>1, <3>2 DEF Owned, Tables, Keys
      <4> QED
        BY <1>11, <4>1
    <3> QED
      BY <3>1, <3>2
  <2> QED
    BY <1>6, <2>1 DEF OwnRows
<1>13. AskedFields(s)
  <2>1. ASSUME NEW t \in Tables, NEW k \in Keys(t)
        PROVE  /\ k \in DOMAIN db'[t]
               /\ \A f \in DOMAIN db[t][k] :
                    db'[t][k][f] # db[t][k][f]
                       => f \in DOMAIN Asked(req[s], k) /\ db'[t][k][f] = Asked(req[s], k)[f]
    <3>1. CASE t = "squads"
      <4>1. /\ k \in DOMAIN db'.squads /\ DOMAIN db.squads[k] = {"manifest"}
            /\ db'.squads[k] = db.squads[k] \/ db'.squads[k].manifest = TRUE
        BY <1>8, <1>9, <1>10, <3>1 DEF Keys
      <4>2. DOMAIN Asked(req[s], k) = {"manifest"} /\ Asked(req[s], k).manifest = TRUE
        BY <1>6
      <4>3. ASSUME NEW f \in DOMAIN db.squads[k], db'.squads[k][f] # db.squads[k][f]
            PROVE  f \in DOMAIN Asked(req[s], k) /\ db'.squads[k][f] = Asked(req[s], k)[f]
        BY <4>1, <4>2, <4>3
      <4> QED
        BY <3>1, <4>1, <4>3
    <3>2. CASE t # "squads"
      BY <1>7, <3>2 DEF Tables, Keys
    <3> QED
      BY <3>1, <3>2
  <2> QED
    BY <2>1 DEF AskedFields
<1> QED
  BY <1>1, <1>2, <1>12, <1>13, EndsCommit

\* Every other step leaves the tables alone.
LEMMA NextWrites ==
  ASSUME IInv, IInv', Next
  PROVE  db' = db \/ \E s \in Slots : Committing(s) /\ OwnRows(s) /\ AskedFields(s)
<1>1. PICK s \in Slots :
        \/ Authenticate(s) \/ Login(s) \/ RunScript(s) \/ ResolveContext(s) \/ Abort(s)
        \/ ReadNewClient(s) \/ CreateClient(s) \/ ReadClient(s) \/ UpdateClient(s)
        \/ ReadPlan(s) \/ UpdatePlan(s)
        \/ ReadNewUser(s) \/ CreateClientUser(s) \/ InviteUser(s)
        \/ ReadUser(s) \/ UpdateUser(s) \/ CommitLogin(s)
        \/ ReadNewSquad(s) \/ CreateSquad(s)
        \/ ReadNewStack(s) \/ CreateStack(s) \/ ReadStack(s) \/ UpdateStack(s) \/ ArchiveStack(s)
        \/ ReadTask(s) \/ CommitTask(s) \/ Launch(s)
        \/ ReadSeed(s) \/ CommitSeed(s)
        \/ ReadProfiles(s) \/ CommitProfiles(s)
  BY DEF Next
<1>2. CASE \/ Authenticate(s) \/ Login(s) \/ RunScript(s) \/ ResolveContext(s) \/ Abort(s)
           \/ Launch(s)
  BY <1>2 DEF Authenticate, Login, RunScript, Begin, ResolveContext, Abort, Launch
<1>3. CASE \/ ReadNewClient(s) \/ ReadClient(s) \/ ReadPlan(s) \/ ReadNewUser(s) \/ ReadUser(s)
           \/ ReadNewSquad(s) \/ ReadNewStack(s) \/ ReadStack(s) \/ ReadTask(s) \/ ReadSeed(s)
           \/ ReadProfiles(s)
  BY <1>3 DEF ReadNewClient, ReadClient, ReadPlan, ReadNewUser, ReadUser, ReadNewSquad,
              ReadNewStack, ReadStack, ReadTask, ReadSeed, ReadProfiles, Keeps
<1>4. CASE \/ CreateClient(s) \/ UpdateClient(s) \/ UpdatePlan(s)
           \/ CreateClientUser(s) \/ InviteUser(s) \/ UpdateUser(s) \/ CommitLogin(s)
           \/ CreateSquad(s) \/ CreateStack(s) \/ UpdateStack(s) \/ ArchiveStack(s)
           \/ CommitTask(s) \/ CommitSeed(s) \/ CommitProfiles(s)
  BY <1>4, CreateClientWrites, UpdateClientWrites, UpdatePlanWrites, CreateUserWrites,
     UpdateUserWrites, CommitLoginWrites, CreateSquadWrites, CreateStackWrites,
     UpdateStackWrites, CommitTaskWrites, CommitSeedWrites, CommitProfilesWrites
<1> QED
  BY <1>1, <1>2, <1>3, <1>4

\* A row of a tenant appears or changes only by a request entitled to that tenant, as
\* its session saw it (require_client_context, _resolve_squad, update_client_user).
THEOREM RowsOfTheirTenant == Spec => TenantKept
<1> DEFINE Step == \A t \in Owned : \A k \in DOMAIN db'[t] :
                     (k \notin Keys(t) \/ db[t][k] # db'[t][k])
                        => \E s \in Slots : req'[s] # req[s] /\ EntitledTo(s, Owner(db', t, k))
<1>1. ASSUME IInv, IInv', Next PROVE Step
  BY <1>1, NextWrites DEF OwnRows, Committing, Owned, Tables, Keys
<1>2. IInv /\ IInv' /\ [Next]_vars => [Step]_vars
  BY <1>1
<1> QED
  BY TablesRight, <1>2, PTL DEF Spec, TenantKept

\* A field changes only into the value the committing request asked for: what crossed
\* it is not written back, and no row goes away (update_client, update_stack,
\* update_client_user, login).
THEOREM FieldsAsAsked == Spec => EditsKept
<1> DEFINE Step == \A t \in Tables : \A k \in Keys(t) :
                     /\ k \in DOMAIN db'[t]
                     /\ \A f \in DOMAIN db[t][k] :
                          db'[t][k][f] # db[t][k][f]
                            => \E s \in Slots : /\ req'[s] # req[s] /\ req[s].step = "commit"
                                                /\ f \in DOMAIN Asked(req[s], k)
                                                /\ db'[t][k][f] = Asked(req[s], k)[f]
<1>1. ASSUME IInv, IInv', Next PROVE Step
  BY <1>1, NextWrites DEF AskedFields, Committing, Tables, Keys
<1>2. IInv /\ IInv' /\ [Next]_vars => [Step]_vars
  BY <1>1
<1> QED
  BY TablesRight, <1>2, PTL DEF Spec, EditsKept

=============================================================================
