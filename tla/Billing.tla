------------------------------ MODULE Billing ------------------------------
(***************************************************************************)
(* The ledger of external calls and what is read from it.  Agent loops,    *)
(* managed sessions, the greenfield planner and skill proposals store one  *)
(* row per call in external_api_calls, inside transactions of their own    *)
(* length (claude_client.py, managed_runner.py, skill_proposer.py); Tasks  *)
(* are created, given to agents and closed, some more than once;           *)
(* backfill_runs.py groups the calls without a Task into runs; reports add *)
(* a period up (cost_calc.py, cost.py), and runs, calls and Tasks are      *)
(* listed page by page (agent_runs_query.py, agent_run_detail.py,          *)
(* client_tasks.py).                                                       *)
(*                                                                         *)
(* occurred_at and created_at default to now(), which Postgres fixes when  *)
(* the transaction begins: time here advances with every transaction, so   *)
(* no two begin together, and Second is the clock of the HIST- keys.       *)
(* closed_at is the process's own clock, which is taken to be the same.    *)
(* Statements see what is committed (READ COMMITTED).                      *)
(***************************************************************************)
EXTENDS Integers, Sequences, FiniteSets, SequencesExt

CONSTANTS
  Clients, Agents,
  Issues,     \* of Tasks
  Analyses,   \* those of onboarding analyses, the only Tasks that are closed
  Filters,    \* how somebody narrows a list of Tasks down
  Loops,      \* agent loops: rows of an agent, on a Task or on none
  Sessions,   \* managed runs: the usage of a whole session in one row
  Proposals,  \* skill proposals: rows of a client only
  AgentOf,    \* [Loops \cup Sessions -> Agents]
  TaskOf,     \* [Loops \cup Sessions -> Issues \cup {None}]
  Placements, \* the ways agents, proposals and Tasks may belong to clients
  Price,      \* [Writers -> Nat], the cost of one answered call
  Plan,       \* [Clients -> what get_billing_plan finds, or None]
  Unit,       \* units of cost in a cent
  Gap,        \* GAP_MINUTES
  PerSecond,  \* instants in one second of a HIST- key
  PeriodEnd,  \* the last instant of the period that is reported
  PageSize,   \* limit
  TopClients, \* limit of the ranking
  MaxTime,    \* bound: the clock
  MaxCalls,   \* bound: rows
  MaxRuns,    \* bound: runs of the backfill script
  Faults,     \* TRUE: calls fail, transactions are rolled back
  None

Writers == Loops \cup Sessions \cup Proposals

ASSUME BillingConstants ==
  /\ IsFiniteSet(Clients) /\ IsFiniteSet(Issues)
  /\ Analyses \subseteq Issues
  /\ Loops \cap Sessions = {} /\ Proposals \cap (Loops \cup Sessions) = {}
  /\ AgentOf \in [Loops \cup Sessions -> Agents]
  /\ TaskOf \in [Loops \cup Sessions -> Issues \cup {None}]
  /\ Placements \subseteq [Agents \cup Proposals \cup Issues -> Clients]
  /\ Price \in [Writers -> Nat]
  /\ {Unit, Gap, PerSecond, PageSize, TopClients, MaxTime} \subseteq Nat \ {0}
  /\ {PeriodEnd, MaxCalls, MaxRuns} \subseteq Nat
  /\ PerSecond <= Gap
  /\ Faults \in BOOLEAN

VARIABLES
  clientOf,  \* the client of an agent, a proposal or a Task
  now,       \* the next instant
  began,     \* when the open transaction of a writer began, or 0
  rows,      \* external_api_calls, committed or not
  open,      \* the rows not committed
  created,   \* [the committed Tasks -> created_at]
  columns,   \* and their assigned_agent_id and status
  closed,    \* [those closed -> closed_at]
  closing,   \* closed_at and status that are written and not committed
  running,   \* the analyses whose background task has not failed
  backfill,  \* the run of backfill_runs.py
  runs,      \* how many of its runs have begun
  page,      \* the list somebody pages through
  report     \* the cost report somebody waits for

ledger   == <<rows, open>>
taskRows == <<created, columns, closed, closing, running>>
panel    == <<page, report>>
vars == <<clientOf, now, began, ledger, taskRows, backfill, runs, panel>>

MaxOf(S) == CHOOSE x \in S : \A y \in S : y <= x
MinOf(S) == CHOOSE x \in S : \A y \in S : x <= y

Calls == 1..MaxCalls
Owners == Agents \cup Proposals
Second(t) == t \div PerSecond

\* HIST-<second>, the key of a Task in the workspace of a client
Hist == Clients \X {Second(t) : t \in 0..MaxTime}
Tasks == Issues \cup Hist

\* No issue of Jira has a key HIST-<second>.
ASSUME KeysApart == None \notin Tasks /\ Issues \cap Hist = {}

Statuses == {"pending", "in_progress", "cancelled", "failed"}
Columns == [agent : Agents \cup {None}, status : Statuses]

\* status, agent_id; since and until.  The squad of a Task never changes.
ASSUME FilterType == Filters \subseteq [wanted : SUBSET Columns, dates : SUBSET (0..MaxTime)]

Stored == DOMAIN rows \ open

OwnerOf(w) == IF w \in Proposals THEN w ELSE AgentOf[w]

\* Nobody reads, nothing runs.
Resting == [at |-> "idle"]

Init ==
  /\ clientOf \in Placements
  /\ now = 1
  /\ began = [w \in Writers |-> 0]
  /\ rows = <<>> /\ open = {}
  /\ created = [t \in {} |-> 0] /\ columns = [t \in {} |-> None]
  /\ closed = [t \in {} |-> 0] /\ closing = {} /\ running = {}
  /\ backfill = Resting /\ runs = 0
  /\ page = Resting /\ report = Resting

Tick ==
  /\ now < MaxTime
  /\ now' = now + 1

-----------------------------------------------------------------------------
(* Tasks, and the rows of the calls.                                       *)

\* A run inserts the Task of its issue for its agent; an analysis one for
\* nobody, and goes on in the background.
OpenTask(t, a) ==
  /\ t \notin DOMAIN created
  /\ IF t \in Analyses THEN a = None ELSE a # None /\ clientOf[a] = clientOf[t]
  /\ Tick
  /\ created' = [u \in DOMAIN created \cup {t} |->
                  IF u = t THEN now ELSE created[u]]
  /\ columns' = [u \in DOMAIN created \cup {t} |->
                  IF u # t THEN columns[u]
                  ELSE [agent |-> a, status |-> IF a = None THEN "in_progress" ELSE "pending"]]
  /\ running' = running \cup ({t} \cap Analyses)
  /\ UNCHANGED <<clientOf, began, ledger, closed, closing, backfill, runs, panel>>

\* What a list of Tasks shows.
TaskClient(t) == IF t \in Issues THEN clientOf[t] ELSE t[1]
Matches(of, t) ==
  TaskClient(t) = of.client /\ columns[t] \in of.wanted /\ created[t] \in of.dates

\* The columns of a Task are updated, which may take it off the list that
\* somebody pages through.
Update(t, new) ==
  /\ columns' = [columns EXCEPT ![t] = new]
  /\ page' = IF /\ page # Resting
                /\ page.of.list = "tasks" /\ Matches(page.of, t) /\ new \notin page.of.wanted
               THEN [page EXCEPT !.left = TRUE] ELSE page

\* _ensure_task: a run of another agent on the issue.
AssignTask(t, a) ==
  /\ t \in (DOMAIN created \cap Issues) \ Analyses
  /\ clientOf[a] = clientOf[t] /\ columns[t].agent # a
  /\ Update(t, [columns[t] EXCEPT !.agent = a])
  /\ UNCHANGED <<clientOf, now, began, ledger, created, closed, closing, running,
                 backfill, runs, report>>

\* closed_at and the status are written over whatever they were.
CloseTask(t, status) ==
  /\ Tick
  /\ closing' = closing \cup {[task |-> t, at |-> now, status |-> status]}

\* cancel_analysis: the Task was active when it was read, which may be long ago.
CancelAnalysis(t) ==
  /\ t \in DOMAIN created \cap Analyses
  /\ CloseTask(t, "cancelled")
  /\ UNCHANGED <<clientOf, began, ledger, created, columns, closed, running,
                 backfill, runs, panel>>

\* _mark_failed, which does not look at the status.  _mark_completed comes after
\* a call that always raises.
FailAnalysis(t) ==
  /\ t \in running
  /\ running' = running \ {t}
  /\ CloseTask(t, "failed")
  /\ UNCHANGED <<clientOf, began, ledger, created, columns, closed, backfill, runs, panel>>

CommitClosing(p) ==
  /\ closing' = closing \ {p}
  /\ closed' = [t \in DOMAIN closed \cup {p.task} |-> IF t = p.task THEN p.at ELSE closed[t]]
  /\ Update(p.task, [columns[p.task] EXCEPT !.status = p.status])
  /\ UNCHANGED <<clientOf, now, began, ledger, created, running, backfill, runs, report>>

\* The commit fails, or the process dies.
LoseClosing(p) ==
  /\ Faults
  /\ closing' = closing \ {p}
  /\ UNCHANGED <<clientOf, now, began, ledger, created, columns, closed, running,
                 backfill, runs, panel>>

\* The writer's Task, if it works on one, exists.
Ready(w) ==
  w \in Loops \cup Sessions => TaskOf[w] \in DOMAIN created \cup {None}

\* The transaction goes on, or begins with this statement.
Statement(w) ==
  IF began[w] = 0
    THEN Tick /\ began' = [began EXCEPT ![w] = now]
    ELSE UNCHANGED <<now, began>>

\* mutant: occurred_at is copied from the Task
StampOfTask(w) ==
  IF w \in Sessions THEN created[TaskOf[w]]
  ELSE IF began[w] = 0 THEN now ELSE began[w]

\* server_default now()
Stamp(w) == IF began[w] = 0 THEN now ELSE began[w]

\* The row is added and flushed.
Add(w, failed) ==
  LET free == Calls \ DOMAIN rows
  IN  /\ free # {}
      /\ Ready(w)
      /\ Statement(w)
      /\ LET c == MinOf(free)
         IN  /\ rows' = [d \in DOMAIN rows \cup {c} |->
                          IF d # c THEN rows[d]
                          ELSE [writer |-> w, owner |-> OwnerOf(w),
                                task |-> IF w \in Proposals THEN None ELSE TaskOf[w],
                                at |-> Stamp(w), failed |-> failed]]
             /\ open' = open \cup {c}
      /\ UNCHANGED <<clientOf, taskRows, backfill, runs, panel>>

\* ClaudeClient.complete is answered, _record_call.
ChatCall(w) == w \in Loops /\ Add(w, FALSE)

\* It raises, _record_error.
ChatError(w) == Faults /\ w \in Loops /\ Add(w, TRUE)

\* _record_session_cost
SessionUsage(w) ==
  /\ w \in Sessions
  /\ \A c \in open : rows[c].writer # w
  /\ Add(w, FALSE)

\* propose_skill_from_stack
ProposeSkill(w) == w \in Proposals /\ Add(w, FALSE)

RowsOf(w) == {c \in open : rows[c].writer = w}

Commit(w) ==
  /\ began[w] # 0
  /\ began' = [began EXCEPT ![w] = 0]
  /\ open' = open \ RowsOf(w)
  /\ UNCHANGED <<clientOf, now, rows, taskRows, backfill, runs, panel>>

\* An exception, a crash: what was flushed is gone, though it was paid for.
Rollback(w) ==
  /\ Faults
  /\ began[w] # 0
  /\ began' = [began EXCEPT ![w] = 0]
  /\ rows' = [c \in DOMAIN rows \ RowsOf(w) |-> rows[c]]
  /\ open' = open \ RowsOf(w)
  /\ UNCHANGED <<clientOf, now, taskRows, backfill, runs, panel>>

-----------------------------------------------------------------------------
(* scripts/dev/backfill_runs.py: one transaction.                          *)

\* mutant: calls that have a Task are grouped again
EveryCall(a) == {c \in Stored : rows[c].owner = a}

\* The calls of an agent without a Task.
Orphans(a) == {c \in Stored : rows[c].owner = a /\ rows[c].task = None}

BackfillStart ==
  /\ backfill = Resting
  /\ runs < MaxRuns
  /\ Tick
  /\ runs' = runs + 1
  /\ backfill' = [at |-> "agents", began |-> now, groups |-> {}, agent |-> None,
                  left |-> {a \in Agents : Orphans(a) # {}},
                  added |-> [h \in {} |-> None], moves |-> [c \in {} |-> None]]
  /\ UNCHANGED <<clientOf, began, ledger, taskRows, panel>>

\* mutant: the gap is measured from the first call of the group
StartsLoosely(S) == {MinOf({rows[c].at : c \in S})}

\* The times of calls that follow the previous one by more than the gap.
Starts(S) ==
  {t \in {rows[c].at : c \in S} : \A d \in S : rows[d].at < t => t - rows[d].at > Gap}

GroupAt(S, t) ==
  {c \in S : rows[c].at >= t /\ \A u \in Starts(S) : u > t => rows[c].at < u}

\* The calls of the next agent are read and grouped.
BackfillAgent(a) ==
  /\ backfill # Resting
  /\ backfill.groups = {}
  /\ a \in backfill.left
  /\ LET S == Orphans(a)
     IN  backfill' = [backfill EXCEPT
           !.left = @ \ {a}, !.agent = a,
           !.groups = IF S = {} THEN {}
                      ELSE {[start |-> t, calls |-> GroupAt(S, t)] : t \in Starts(S)}]
  /\ UNCHANGED <<clientOf, now, began, ledger, taskRows, runs, panel>>

NextGroup == CHOOSE g \in backfill.groups : \A h \in backfill.groups : g.start <= h.start

KeyOf(g) == <<clientOf[backfill.agent], Second(g.start)>>

\* The workspaces of the clients are one: the key is another client's already.
Taken(key) == \E h \in (DOMAIN created \cap Hist) \ {key} : h[2] = key[2]

\* The Task is found or inserted, the calls of the group are updated.
BackfillGroup ==
  /\ backfill # Resting
  /\ backfill.groups # {}
  /\ LET g == NextGroup
         key == KeyOf(g)
         added == DOMAIN backfill.added
     IN  /\ key \in DOMAIN created \cup added \/ ~Taken(key)
         /\ ~\E h \in added : h # key /\ h[2] = key[2]
         /\ backfill' = [backfill EXCEPT
              !.groups = @ \ {g},
              !.added = [h \in added \cup ({key} \ DOMAIN created) |->
                          IF h \in added THEN @[h] ELSE backfill.agent],
              !.moves = [c \in DOMAIN @ \cup g.calls |->
                          IF c \in g.calls THEN key ELSE @[c]]]
  /\ UNCHANGED <<clientOf, now, began, ledger, taskRows, runs, panel>>

\* The UNIQUE key refuses the Task: after the rollback the handler reads
\* attributes that have expired and raises.  Everything is rolled back.
BackfillRefused ==
  /\ backfill # Resting
  /\ backfill.groups # {}
  /\ LET key == KeyOf(NextGroup)
         added == DOMAIN backfill.added
     IN  \/ key \notin DOMAIN created \cup added /\ Taken(key)
         \/ \E h \in added : h # key /\ h[2] = key[2]
  /\ backfill' = Resting
  /\ UNCHANGED <<clientOf, now, began, ledger, taskRows, runs, panel>>

BackfillCrash ==
  /\ Faults
  /\ backfill # Resting
  /\ backfill' = Resting
  /\ UNCHANGED <<clientOf, now, began, ledger, taskRows, runs, panel>>

BackfillCommit ==
  /\ backfill # Resting
  /\ backfill.left = {} /\ backfill.groups = {}
  /\ rows' = [c \in DOMAIN rows |->
               IF c \in DOMAIN backfill.moves
                 THEN [rows[c] EXCEPT !.task = backfill.moves[c]] ELSE rows[c]]
  /\ LET all == DOMAIN created \cup DOMAIN backfill.added
     IN  /\ created' = [t \in all |->
                         IF t \in DOMAIN created THEN created[t] ELSE backfill.began]
         /\ columns' = [t \in all |->
                         IF t \in DOMAIN created THEN columns[t]
                         ELSE [agent |-> backfill.added[t], status |-> "pending"]]
  /\ backfill' = Resting
  /\ UNCHANGED <<clientOf, now, began, open, closed, closing, running, runs, panel>>

-----------------------------------------------------------------------------
(* Lists read page by page.                                                *)

\* What a list shows: the runs of an agent, the calls of a run, the Tasks.
Items(of) ==
  CASE of.list = "runs"  -> {rows[c].task : c \in {d \in Stored : rows[d].owner = of.agent}}
                              \ {None}
    [] of.list = "calls" -> {c \in Stored : rows[c].owner = of.agent /\ rows[c].task = of.task}
    [] of.list = "tasks" -> {t \in DOMAIN created : Matches(of, t)}

Ended(a, t) == MaxOf({rows[c].at : c \in {d \in Stored : rows[d].owner = a /\ rows[d].task = t}})

\* ORDER BY max(occurred_at) DESC, occurred_at ASC, created_at DESC
Key(of, i) ==
  CASE of.list = "runs"  -> -Ended(of.agent, i)
    [] of.list = "calls" -> rows[i].at
    [] of.list = "tasks" -> -created[i]

\* mutant: no ORDER BY
Unordered(of) == SetToSeqs(Items(of))

\* Postgres orders equal keys as it likes, each time.
Listings(of) ==
  {s \in SetToSeqs(Items(of)) :
     \A i, j \in DOMAIN s : i < j => Key(of, s[i]) <= Key(of, s[j])}

Runs == {<<rows[c].owner, rows[c].task>> : c \in Stored} \cap (Agents \X Tasks)

Lists ==
  {[list |-> "runs", agent |-> r[1]] : r \in Runs}
    \cup {[list |-> "calls", agent |-> r[1], task |-> r[2]] : r \in Runs}
    \cup {[list |-> "tasks", client |-> k, wanted |-> f.wanted, dates |-> f.dates] :
            k \in Clients, f \in Filters}

\* Somebody begins to page through a list, with nothing on it seen.
OpenList(of) ==
  /\ page = Resting /\ report = Resting
  /\ Items(of) # {}
  /\ page' = [at |-> "reading", of |-> of, offset |-> 0, cut |-> FALSE, left |-> FALSE,
              unseen |-> [i \in Items(of) |-> Key(of, i)]]
  /\ UNCHANGED <<clientOf, now, began, ledger, taskRows, backfill, runs, report>>

Min2(x, y) == IF x < y THEN x ELSE y

\* One page, and whether it ends between calls of one transaction; an empty one
\* is the last.
NextPage ==
  /\ page.at = "reading"
  /\ \E s \in Listings(page.of) :
       LET last == page.offset + PageSize
           shown == {s[i] : i \in (page.offset + 1)..Min2(last, Len(s))}
       IN  page' = IF shown = {} THEN Resting
                   ELSE [page EXCEPT
                     !.offset = last,
                     !.unseen = [i \in DOMAIN @ \ shown |-> @[i]],
                     !.cut = \/ @
                             \/ /\ last < Len(s)
                                /\ Key(page.of, s[last]) = Key(page.of, s[last + 1])]
  /\ UNCHANGED <<clientOf, now, began, ledger, taskRows, backfill, runs, report>>

-----------------------------------------------------------------------------
(* Cost reports.                                                           *)

CostOf(c) == IF rows[c].failed THEN 0 ELSE Price[rows[c].writer]

Total(cost) == FoldSet(LAMBDA c, n : n + cost[c], 0, DOMAIN cost)
Sum(S) == Total([c \in S |-> CostOf(c)])

\* quantize: to the nearest, halves to the even
HalfEven(x, n) ==
  LET q == x \div n
      r == 2 * (x % n)
  IN  IF r > n \/ (r = n /\ q % 2 = 1) THEN q + 1 ELSE q

\* _compute_breakdown: cents, from the plan or the defaults
Breakdown(usd, tasks, plan) ==
  LET p == IF plan = None THEN [infra |-> 20, fixed |-> 0, fx |-> 5] ELSE plan
      direct == HalfEven(usd * p.fx, Unit)
      infra == HalfEven(direct * p.infra, 100)
  IN  direct + infra + p.fixed * tasks

InPeriod(t) == t <= PeriodEnd

ClientCalls(k) == {c \in Stored : clientOf[rows[c].owner] = k /\ InPeriod(rows[c].at)}

\* mutant: Tasks count where they were created
ClientCreated(k) ==
  {t \in DOMAIN closed : clientOf[t] = k /\ InPeriod(created[t])}

ClientClosed(k) ==
  {t \in DOMAIN closed : clientOf[t] = k /\ InPeriod(closed[t])}

ClientSessions(k) == {c \in ClientCalls(k) : rows[c].writer \in Sessions}

Line(k, direct, calls, tasks, managed) ==
  [client |-> k, direct |-> direct, calls |-> calls, tasks |-> tasks,
   managed |-> managed, full |-> Breakdown(direct, tasks, Plan[k])]

\* The period is over and so are the transactions that began in it, or date the
\* closing of a Task in it.
Settled ==
  /\ now > PeriodEnd
  /\ \A w \in Writers : began[w] = 0 \/ began[w] > PeriodEnd
  /\ \A p \in closing : p.at > PeriodEnd

\* A report of a period that is not settled is whatever its statements find;
\* it leaves nothing behind and is not followed here.  counted is what it would
\* have found of the Tasks right away.
Ask(clients) ==
  /\ report = Resting /\ page = Resting
  /\ Settled
  /\ clients # <<>>
  /\ report' = [at |-> "sum", left |-> clients, lines |-> <<>>,
                direct |-> 0, calls |-> 0, tasks |-> 0,
                counted |-> [k \in Clients |-> Cardinality(ClientClosed(k))]]
  /\ UNCHANGED <<clientOf, now, began, ledger, taskRows, backfill, runs, page>>

\* admin_cost_for_client, client_cost_summary
AskSummary(k) == Ask(<<k>>)

Active == {k \in Clients : ClientCalls(k) # {}}

\* admin_cost_by_client: the dearest first.
AskRanking ==
  \E s \in SetToSeqs(Active) :
    /\ \A i, j \in DOMAIN s : i < j => Sum(ClientCalls(s[i])) >= Sum(ClientCalls(s[j]))
    /\ Ask(SubSeq(s, 1, Min2(TopClients, Len(s))))

\* cost_for_client_period, a statement at a time: sums, Tasks, sessions.
ReportSum ==
  /\ report.at = "sum"
  /\ LET S == ClientCalls(Head(report.left))
     IN  report' = [report EXCEPT !.at = "tasks", !.direct = Sum(S), !.calls = Cardinality(S)]
  /\ UNCHANGED <<clientOf, now, began, ledger, taskRows, backfill, runs, page>>

ReportTasks ==
  /\ report.at = "tasks"
  /\ report' = [report EXCEPT !.at = "managed",
                  !.tasks = Cardinality(ClientClosed(Head(report.left)))]
  /\ UNCHANGED <<clientOf, now, began, ledger, taskRows, backfill, runs, page>>

LastLine ==
  Line(Head(report.left), report.direct, report.calls, report.tasks,
       Cardinality(ClientSessions(Head(report.left))))

ReportManaged ==
  /\ report.at = "managed"
  /\ report' = IF Len(report.left) = 1 THEN Resting
               ELSE [report EXCEPT !.at = "sum", !.left = Tail(@),
                                   !.lines = Append(@, LastLine)]
  /\ UNCHANGED <<clientOf, now, began, ledger, taskRows, backfill, runs, page>>

-----------------------------------------------------------------------------
Ledger ==
  \/ /\ Tick
     /\ UNCHANGED <<clientOf, began, ledger, taskRows, backfill, runs, panel>>
  \/ \E t \in Issues, a \in Agents \cup {None} : OpenTask(t, a)
  \/ \E t \in Issues, a \in Agents : AssignTask(t, a)
  \/ \E t \in Analyses : CancelAnalysis(t) \/ FailAnalysis(t)
  \/ \E p \in closing : CommitClosing(p) \/ LoseClosing(p)
  \/ \E w \in Writers :
       \/ ChatCall(w) \/ ChatError(w) \/ SessionUsage(w) \/ ProposeSkill(w)
       \/ Commit(w) \/ Rollback(w)

Backfill ==
  \/ BackfillStart \/ BackfillGroup \/ BackfillRefused \/ BackfillCrash \/ BackfillCommit
  \/ \E a \in Agents : BackfillAgent(a)

Panel ==
  \/ \E of \in Lists : OpenList(of)
  \/ NextPage
  \/ \E k \in Clients : AskSummary(k)
  \/ AskRanking \/ ReportSum \/ ReportTasks \/ ReportManaged

Next == Ledger \/ Backfill \/ Panel

Spec == Init /\ [][Next]_vars

-----------------------------------------------------------------------------
(* Properties.                                                             *)

\* Every variable keeps its type.
TypeOK ==
  /\ clientOf \in Placements /\ now \in 1..MaxTime
  /\ began \in [Writers -> 0..MaxTime]
  /\ DOMAIN rows \subseteq Calls /\ open \subseteq DOMAIN rows
  /\ \A c \in DOMAIN rows :
       rows[c] \in [writer : Writers, owner : Owners, task : Tasks \cup {None},
                    at : 1..MaxTime, failed : BOOLEAN]
  /\ DOMAIN closed \subseteq DOMAIN created /\ DOMAIN created \subseteq Tasks
  /\ \A t \in DOMAIN created : created[t] \in 0..MaxTime
  /\ columns \in [DOMAIN created -> Columns]
  /\ closing \subseteq [task : DOMAIN created \cap Analyses, at : 1..MaxTime, status : Statuses]
  /\ running \subseteq DOMAIN created \cap Analyses
  /\ runs \in 0..MaxRuns

\* A row waits for the transaction of its writer, dated when that began, and
\* is in no HIST- run: the script sees what is committed.
OpenRowsDated ==
  \A c \in open : rows[c].at = began[rows[c].writer] /\ rows[c].task \notin Hist

Before(e, c) == rows[e].at < rows[c].at /\ rows[c].at - rows[e].at <= Gap

\* A call in a HIST- run was made in the second of its key, or follows another
\* of its agent in that run within the gap; none is older than the key.
HistLinked ==
  \A c \in Stored, h \in Hist : rows[c].task = h =>
    /\ h[2] <= Second(rows[c].at)
    /\ \/ Second(rows[c].at) = h[2]
       \/ \E e \in Stored :
            rows[e].task = h /\ rows[e].owner = rows[c].owner /\ Before(e, c)

\* The groups the script holds are made of committed calls without a Task, of
\* the agent it is at, each linked to the first of its group; none is in two.
GroupsLinked ==
  /\ backfill.groups # {} => backfill.agent \in Agents
  /\ \A g \in backfill.groups :
       /\ g.start \in 1..MaxTime /\ g.calls \subseteq Orphans(backfill.agent)
       /\ \A c \in g.calls : /\ g.start <= rows[c].at
                             /\ rows[c].at = g.start \/ \E e \in g.calls : Before(e, c)
       /\ \A h \in backfill.groups : g # h => g.calls \cap h.calls = {}

\* And so are the calls it has updated, under the keys it gave them.
MovesLinked ==
  \A c \in DOMAIN backfill.moves :
    /\ c \in Stored /\ rows[c].task = None
    /\ backfill.moves[c] \in Hist
    /\ backfill.moves[c][2] <= Second(rows[c].at)
    /\ \/ Second(rows[c].at) = backfill.moves[c][2]
       \/ \E e \in DOMAIN backfill.moves :
            /\ backfill.moves[e] = backfill.moves[c]
            /\ rows[e].owner = rows[c].owner /\ Before(e, c)
    /\ rows[c].owner \notin backfill.left
    /\ \A g \in backfill.groups : c \notin g.calls

BackfillHolds ==
  backfill # Resting =>
    /\ DOMAIN backfill = {"at", "began", "groups", "agent", "left", "added", "moves"}
    /\ backfill.at = "agents" /\ backfill.left \subseteq Agents
    /\ backfill.began \in 1..MaxTime
    /\ \A h \in DOMAIN backfill.added : h \in Hist /\ backfill.added[h] \in Agents
    /\ backfill.groups # {} => backfill.agent \notin backfill.left
    /\ GroupsLinked /\ MovesLinked

\* The calls of an agent in one HIST- run follow each other within the gap,
\* also when the script runs again over calls that were committed late.
RunsChained ==
  \A h \in Hist, c, d \in Stored :
    /\ rows[c].task = h /\ rows[d].task = h
    /\ rows[c].owner = rows[d].owner
    /\ rows[c].at - rows[d].at > Gap
    => \E e \in Stored :
         /\ rows[e].task = h /\ rows[e].owner = rows[c].owner
         /\ rows[e].at < rows[c].at /\ rows[c].at - rows[e].at <= Gap

\* What is due from a client by its calls.
Due(k) == Sum(ClientCalls(k))

\* Of the Tasks, a report may show as many as the period had at some time since
\* it was asked for.
TrueLines(k) ==
  {Line(k, Due(k), Cardinality(ClientCalls(k)), n, Cardinality(ClientSessions(k))) :
     n \in Cardinality(ClientClosed(k))..report.counted[k]}

\* A report is of a settled period; its lines and the figures it has so far are
\* those of the ledger, and its clients come in the order of what they owe.
ReportHolds ==
  report # Resting =>
    /\ Settled
    /\ DOMAIN report = {"at", "left", "lines", "direct", "calls", "tasks", "counted"}
    /\ report.at \in {"sum", "tasks", "managed"}
    /\ report.left \in Seq(Clients) \ {<<>>}
    /\ \A k \in Clients :
         report.counted[k] \in Nat /\ Cardinality(ClientClosed(k)) <= report.counted[k]
    /\ report.lines \in Seq(UNION {TrueLines(k) : k \in Clients})
    /\ report.at # "sum" => /\ report.direct = Due(Head(report.left))
                            /\ report.calls = Cardinality(ClientCalls(Head(report.left)))
    /\ report.at = "managed" => LastLine \in TrueLines(Head(report.left))
    /\ \A i, j \in DOMAIN report.lines :
         i < j => report.lines[i].direct >= report.lines[j].direct
    /\ \A i \in DOMAIN report.lines, j \in DOMAIN report.left :
         report.lines[i].direct >= Due(report.left[j])
    /\ \A i, j \in DOMAIN report.left :
         i < j => Due(report.left[i]) >= Due(report.left[j])

\* What is on the list and has not moved since it was opened.
Quiet == {i \in DOMAIN page.unseen \cap Items(page.of) : Key(page.of, i) = page.unseen[i]}

\* What stands before a key, wherever a listing puts what has that key.
Earlier(of, k) == {j \in Items(of) : Key(of, j) < k}

\* Nothing moves to the end of a list and only Tasks leave one, so that what was
\* not seen and has not moved is still behind the pages read, unless one was cut
\* or a Task left.
PageHolds ==
  page # Resting =>
    /\ DOMAIN page = {"at", "of", "offset", "cut", "left", "unseen"} /\ page.at = "reading"
    /\ page.of.list \in {"runs", "calls", "tasks"}
    /\ page.of.list = "calls" => page.of.task # None
    /\ page.offset \in Nat /\ page.cut \in BOOLEAN
    /\ page.left \in BOOLEAN /\ (page.left => page.of.list = "tasks")
    /\ ~page.left => \A i \in DOMAIN page.unseen :
         /\ i \in Items(page.of) /\ page.unseen[i] \in Int
         /\ Key(page.of, i) <= page.unseen[i]
    /\ ~page.cut /\ ~page.left => \A i \in Quiet :
         Cardinality(Earlier(page.of, Key(page.of, i))) >= page.offset

\* IInv: the invariant of the ledger, of the script that groups its calls, of
\* the reports read from it and of the list somebody pages through.
IInv ==
  /\ TypeOK /\ OpenRowsDated /\ HistLinked /\ BackfillHolds /\ RunsChained
  /\ ReportHolds /\ PageHolds

\* The calls a client is billed for a period never change again once the period
\* is over and the transactions begun in it have ended: neither late calls nor
\* the backfill reach it.  Nor do Tasks come into it; but one may go out of it,
\* and into a later one, when an analysis that was cancelled in the period is
\* closed once more by its failure (_mark_failed overwrites closed_at).
SettledPeriodFixed ==
  [][Settled => \A k \in Clients :
       /\ ClientCalls(k)' = ClientCalls(k)
       /\ ClientClosed(k)' \subseteq ClientClosed(k)
       /\ \A t \in ClientClosed(k) \ ClientClosed(k)' :
            t \in Analyses /\ t \in DOMAIN closed']_vars

\* A call that belongs to a run stays in it, however often the backfill runs,
\* fails half-way, or meets calls that were committed meanwhile.
AssignedOnce ==
  [][\A c \in Stored : rows[c].task # None => c \in DOMAIN rows' /\ rows'[c].task = rows[c].task]_vars

ListComplete ==
  page # Resting /\ page' = Resting => page.cut \/ page.left \/ Quiet = {}

ReportExact ==
  report # Resting /\ report' = Resting =>
    LET lines == Append(report.lines, LastLine)
    IN  /\ \A i \in DOMAIN lines : lines[i] \in TrueLines(lines[i].client)
        /\ \A i, j \in DOMAIN lines : i < j => lines[i].direct >= lines[j].direct

\* Whoever pages through a list to its end has seen everything that was on it
\* at the start and did not move meanwhile, whatever is added, moved to the
\* front or committed late - unless a page ended inside one transaction, whose
\* calls have one date and no order, or a Task went off a list narrowed down by
\* agent or status, after which those behind it are one page position earlier.
\* And a report of a settled period is exact in every figure, though each comes
\* from a statement of its own, and ranks by what it shows; of Tasks closed
\* again meanwhile it may show those of any moment since it was asked for.
AnswersTrue == [][ListComplete /\ ReportExact]_vars

=============================================================================
