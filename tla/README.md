# Formal models of dev-autonomo

TLA+ models of the agent platform in `src/src/dev_autonomo` (paths below are
relative to it), checked with TLC and proved with TLAPS.

Run a model from this directory with `tlc -config <run>.cfg <MC module>`, a
proof with `tlapm <module>.tla`. `PROJECT.json` lists the runs, maps every
definition to the lines it models, and lists the hazards the properties are for.

## 1. The system

A FastAPI control plane serves many clients (tenants). Each client has squads of
agents (BA, Architect, Dev, Reviewer, Onboarding Analyst). Agents run either as
Anthropic Managed Agents sessions or in a local tool-use loop; they learn from
repositories, uploaded documents and merged pull requests through a RAG store.
Postgres is reached through `session_scope` (`db/session.py`), which commits at
the end and rolls back on an exception; Qdrant, RabbitMQ, Anthropic, Voyage, Jira
and GitHub share no transaction with it.

| Component | State | Operations | Interacts with | Hard behaviour | Module |
|---|---|---|---|---|---|
| Managed runner (`agent_runtime/managed_runner.py`), dreaming | tasks and child tasks, cached agent/environment ids, usage rows, dream_jobs; objects on Anthropic | `run_managed_task`, `_post_task_dream_hook`, `_execute_dream_job` | triggers and onboarding call it | runs on one issue, template or client; row locks held across remote calls; failures between transactions | `ManagedRuns` |
| RAG sources, feedback loop (`services/rag_ingest.py`, `feedback_extractor.py`) | rag_sources, rag_audit_log, Qdrant points | `ingest`, `delete_source`, `process_merged_pr` | routers, GitHub webhook | two stores without a transaction; UNIQUE key on a placeholder | `RagSources` |
| Onboarding v2 (`onboarding/analyzer.py`, `local_repo_clone.py`) | onboarding Task, clone directory | starts, `cancel_analysis`, background stages | managed runner | starts and cancels that race with the stages | `OnboardingAnalysis` |
| Legacy runs: agent loop, tools, enforcement, worktrees, runners, trigger (`agent_runtime`, `scripts/dev/_runner_lib.py`, `agent_run_trigger.py`) | Task, cached manifest, audit rows; bare clone, worktrees; GitHub branches and pull requests | `run_task`, one operation per tool, `signal_complete`, `checkout_for_task`, `cleanup` | GitHub, Jira, manifests | processes on one clone and one repository; effects outside an open transaction | `DevRuns` |
| Credentials and Files sync (`services/anthropic_files_sync.py`) | secrets, file ids, files on Anthropic | create, rotate, delete, sync | both panels | upload, delete and commit over two stores | `SecretFiles` |
| Squads, setups, timeline (`client_squads.py`, `services/onboarding_analyzer.py`, `jira_sync.py`) | manifest versions, agents, templates, `jira_events` | PUT, POST, PATCH, DELETE, `finalize_setup`, Jira webhook | panel, Jira | read, await, write | `SquadPanel` |
| Reindex pipeline (`common/queue.py`, `knowledge/`) | RabbitMQ queue, code chunks | `consume_forever`, `reindex_files`, `index_repo` | workers, runners | redelivery, delete before insert | `CodeIndex` |
| Cost and queries (`common/cost_calc.py`, `agent_runs_query.py`, `scripts/dev/backfill_runs.py`) | `external_api_calls` | usage rows, backfill, reports, paged lists | everybody who calls a model | rows that appear late; pages over moving rows | `Billing` |
| Clients, users, squads, stacks, managed trigger (`control_plane`) | the tables themselves | administration, tenant requests, login, seeds, `trigger_managed_agent_run` | all | checks read before an await and used after it | `ControlPlane` |
| Retrieval, shell, web panels | none | reads | | | not modelled |

What makes each correct, beyond its types: a run's report is stored whole or not
at all and before its session is deleted; ids in a cache belong to a committed
creator; a source's row and its chunks agree; writers of one text exclude each
other; an index holds each file's chunks once and gets back those it deletes; an
answered cancel is kept; an accepted completion has nothing unpushed, no commit
is lost, and what GitHub and Jira were asked through their API is audited; the file a session is given
exists; versions only move forward; the calls of a settled bill are fixed; a tenant's rows
change only by its own requests; each started piece of work ends.

## 2. Plan

| # | Modules | About | State |
|---|---|---|---|
| 1 | `ManagedRuns`, `RunLedger`, `ManagedRunsProofs` | the managed runner and what it promises to a bill | done, proved |
| 2 | `RagSources`, `KnowledgeProofs` | ingest, feedback loop and deletion over two stores | done, proved |
| 3 | `OnboardingAnalysis`, `KnowledgeProofs` | start, cancel and the background stages | done, proved |
| 4 | `DevRuns`, `DevRunsProofs` | legacy runs from their trigger to their cleanup | done, proved |
| 5 | `SecretFiles`, `SecretFilesProofs` | upload, flush, delete and commit over two stores | done, proved |
| 6 | `SquadPanel`, `SquadPanelProofs` | versions, agents, setups, timeline | done, proved |
| 7 | `CodeIndex`, `CodeIndexProofs` | queue delivery, worker, indexer | done, its safety proved |
| 8 | `Billing`, `BillingProofs` | dated calls, backfill, reports, pages | done, proved |
| 9 | `ControlPlane`, `ControlPlaneProofs` | the tables and the requests that write them | done, proved |

"Proved" is of every safety property of the module's runs; section 13 says how, and
what stays with TLC: liveness.

## 3. ManagedRuns

One process per call of `run_managed_task`. An action is the code between two
points where another run can see or change shared state.

| State | Code |
|---|---|
| `tasks`, `child` | rows of `tasks`; the UNIQUE key (workspace, issue) is the function's domain, a child key is issue and index |
| `agentId`, `envId`, `tplLock`, `cliLock` | `skill_templates.anthropic_agent_id`, `clients.anthropic_environment_id`, and the row lock an unfinished UPDATE holds |
| `calls`, `dreams` | `external_api_calls`, `dream_jobs` |
| `agents`, `envs`, `session` | objects on Anthropic, each named by the run that created it |
| `pc`, `fate`, `found`, `agentRef`, `envRef`, `result`, `dreamer` | a run's local variables; `expire_on_commit=False` lets it keep values it read early |

`ResolveClient` to `CommitSetup` are the first transaction, `Stream` to
`Retrieve` run without one, `Persist` and `PersistConflict` are the second.
`Raise` is an exception that leaves the function (its transaction rolls back),
`Crash` a dead process. `Raise` is excluded at steps whose exceptions the code
catches in place.

Runs:

- `managed_threads`: two runs on one issue, one agent, up to two threads each,
  a stream may name a thread twice, faults everywhere. The report of a run is
  whole or absent, dreams come last, a child row never changes its thread, and
  the runs implement `RunLedger`, which closes a session only after its report.
- `managed_liveness`: two runs with different agents of one template and client,
  so both row locks are contended, one with a rubric. Cached ids are committed
  ones, locks never outlive a run, an outcome is a grader's, and every started
  run and consolidation ends.
- `managed_cost_lost` (violated): child keys restart at 1, so a second run on an
  issue loses its usage in the rollback, without any fault.

`RunLedger` is what a reader of the database may assume: a run opens a session,
the session reports once, the report is shown whole, then the session closes.
The mapping derives the phase from `pc` and what is shown from `calls` and
`child`.

Seen without a run: the consolidation names a session that the run deleted
before it created the job (`managed_runner.py:659, 664`, `dreaming.py:97`).

## 4. RagSources

One process per call of `ingest`, `process_merged_pr` or `delete_source`, each in
a transaction that its router or background task commits last.

| State | Code |
|---|---|
| `rows` | committed rows of `rag_sources`, by the call that created them |
| `chunks` | calls whose points are in Qdrant; visible at the upsert |
| `keys` | index entries an open transaction inserted: another insertion of one waits, and fails once it is committed |
| `hash`, `outcome`, `pc`, `target`, `cleaned`, `end` | what a call holds in memory, and how it ended |
| `audit` | feedback calls whose entries in `rag_audit_log` are committed |

`Insert` is a flush under the UNIQUE key of `rag_sources`. `ingest` inserts the
placeholder "pending" (`InsertPending`), then the real hash (`Claim`);
`process_merged_pr` only the real one. An exception of `ingest` is stored as a
FAILED row, one of `process_merged_pr` rolls back (`Fail`). A flush that fails
poisons the transaction, so the handler's own flush raises too (`Refuse`).
`UpsertError` leaves open whether Qdrant applied the points. `Abort` is a dead
process or a failed transaction at any step.

Runs:

- `rag_sources`: two ingests, one pull request, a deletion, one collection, two
  texts, faults everywhere, under fairness: rows and chunks stay in step, writers
  of one text exclude each other, a chunk keeps the row it can be removed by, and
  every call ends. Two deletions at once are covered by the proofs only.

Seen without a run: `ingest` commits a failed extraction with the hash
"pending" (`rag_ingest.py:277, 391`), after which the first flush of every later
ingest into the collection is refused, and a failed embedding is answered as a duplicate
for ever, although `rag_ingest.py:12-14` says the
UNIQUE constraint keeps out duplicates "da mesma fonte"; a second delivery of a merged
pull request gets another text from the model and another hash, which no key recognises
(`feedback_extractor.py:389`); the audit entries of validated chunks are lost when
embedding or upsert raises (line 501).

## 5. OnboardingAnalysis

One squad. A request that starts an analysis and the background task it leaves
behind have a name in common; so have the Task and the clone directory they own.

| State | Code |
|---|---|
| `status`, `step`, `progress` | `tasks.status`, `current_step` and the keys of `scan_progress`; `closed_at`, `outcome_status` and `step_label` are written together with `status` |
| `workspace`, `url` | `clients.jira_workspace_url`, and the value a start read when it arrived |
| `born`, `clock` | `created_at`, the time the start's transaction began, by which the latest Task is found |
| `clones` | clone directories on disk |
| `call`, `chosen`, `bg`, `seen` | the next step of a request, the row a cancel holds, the next step of a background task, and the `scan_progress` a transaction has read and will write back |

A transaction that reads `scan_progress` and writes it is two steps, with every
other transaction possible in between; SQLAlchemy writes only the columns that
were assigned, so `UpdateStep` and `Patch` leave the status alone. `KeyTaken` is
the UNIQUE key of `tasks`; insertion and commit follow each other and are one
step. The two look-ups of an active analysis, in the router and in
`start_analysis`, are one: the first only words the answer. `StageRaises`,
`MarkFailedRaises` (the handler fails too; a second attempt that succeeds is a
later first attempt), `CleanupFails`, `Die` and `AbortRequest` are the faults,
which `MayFail` selects. Names this module would share with `RagSources` begin with
`OA` (`OASpec`, `OAInv`), so that one module can prove things about both.

An analysis of this version never completes. `ManagedTaskSpec` has no field
`initial_user_message` (`analyzer.py:834`) and `RagSource` no `squad_id`
(`analyzer.py:350`), so both kinds end FAILED (`Raise`). The stages behind these
statements are unreachable and are left out of the model.

Runs:

- `onboarding_analysis`: a repository and a greenfield start, a cancel, two
  workspaces between which the client moves, faults everywhere: an analysis that
  ended is closed and left no clone, a FAILED row says so in every column, an
  answered cancel is never undone into an active analysis, and requests and
  analyses end.

The model also shows, without a run of their own: `_mark_failed` overwrites the
CANCELLED a client was answered (`analyzer.py:1118` against 24-26); a cancel of a
FAILED analysis changes nothing and the next start meets the key of the old Task
(`analyzer.py:186` against 139-140); a cancel that an
`UpdateStep` or a `Patch` follows before the next check leaves a CANCELLED row
whose step is a stage, or without its `cancelled_at`; of two simultaneous starts one is
refused with an error instead of being given the other's Task; after `Die` the
row stays active and every start is answered with it until a cancel; after a
move of the workspace two starts may both run, and a cancel only sees the later.

## 6. DevRuns

One process per legacy run (`python -m` scripts, started by a trigger or by
hand). `Devs` work on a branch of their own, `Fixers` answer a review on the
branch of a pull request, `Desks` have no workspace.

| State | Code |
|---|---|
| `pc`, `outcome`, `turn`, `blocks`, `accepted` | where a process is; the loops of `AgentRunner.run`; whether `signal_complete` was accepted |
| `tasks`, `prUrl`, `manifest` | rows of `tasks`, `Task.pr_url`, `squads.current_manifest_id` |
| `loaded`, `decided` | the enforcer's cached manifest, and for the properties which ones its decisions followed |
| `unsaved`, `exposed` | runs with rows only flushed, and runs that called GitHub or Jira before these were committed |
| `pushed`, `lost` | runs that pushed before their rows were committed, and runs whose rows from before a push were rolled back |
| `cache`, `heads`, `tracking`, `upstream`, `registered`, `trees`, `edited`, `added` | the bare clone (cloned by the manager it has no fetch refspec, prepared by an operator it has), its refs and worktrees |
| `remote`, `pulls` | GitHub |

A branch is the version of main it stands on and the authors of its own commits,
which is what `git push` and `git rebase` look at. Each tool that changes
something is an action, open to the runs whose runner registers it (`Offered`);
tools that read, refusals and errors change nothing but the audit rows. The tools
that call the API of GitHub or Jira commit the session first (`SettleBeforeCall`);
`git_push` changes a branch on GitHub and never does, so its authorization and the
calls that led to it wait for the next commit (`Push` adds to `pushed`; a rollback,
after a raise or a death, moves what is lost to `lost`). `run_repo_check`
runs without asking the manifest and leaves no record; past its timeout only the
shell is killed, and that what it started ends is assumed. A request to GitHub
whose answer is lost is sent again to another address (`OpenPullError`).

Runs:

- `dev_runs`: a Dev and a Fixer, two turns of two tool calls, a manifest that
  appears, one push by a human and one merge, faults everywhere. No commit is
  lost on GitHub or in the clone, accepted completions are delivered, a run follows one
  manifest, leftovers block nobody. `EffectsAudited`: a pull request, a review or a
  transition is asked for with everything that led to it committed, earlier pushes
  included; the rows of a push are lost by no run but one that died or whose model call
  raised. The invariant also says
  what these rest on: a branch is unknown before its checkout and there after it, a
  worktree stands while its run works in it, what was fetched last is what GitHub has
  or an ancestor of it, a run about to open a pull request has committed its session.
- `dev_liveness`: a Dev and a Desk triggered on one issue: every process ends.

Seen without a run: a Dev pushes, its next model call raises, and the row of the call
that pushed is rolled back although the process lives (`toolset/github.py:83`,
`EffectsAudited` allows it), while `claude_client.py:42` says that each call is
recorded; once main has moved, `git_push` rebases a branch GitHub
already has and the push, without force, is refused, whatever is committed
(`toolset/github.py:69`), while `run_dev_address_review.py:80` says the pull
request updates itself; in a cache cloned by the manager every `git_push` ends as
`rebase_conflict`; a crashed run's worktree turns later fixers of its branch away
(`worktree.py:10`); blocks after an accepted `signal_complete` of the same turn
are still executed; audit rows of a run that raises before its next commit are
rolled back; a retried review after a read time-out is posted twice
(`github_client.py:75`).

## 7. SecretFiles

One coroutine per request of the two credential routers. `secrets` and `pointer`
are the database, `files` is Anthropic; `pend` and `lock` are an open
transaction's flushed file ids and the row lock they hold; `cached` is the client
object a request loaded when it was authenticated and never reloads, `sited` whether
that object has the client's Jira site and e-mail. `UpdateClient` is the administration's
PATCH that sets or clears them; only its effect on the skip is modelled, not that the
content of the Jira file carries them too.

Run `secret_files`: two requests at a time, three in all, one crash, two kinds.
The file a session would be given exists, except inside the transaction that
replaces it or after a death between its DELETE and its COMMIT; it carries the
newest credential unless one of six named things happened: a write from the
administration panel, which never synchronizes, a synchronization that was skipped
because the client object lacked its Jira site or e-mail
(`anthropic_files_sync.py:114`), a failed upload, the removal of the last credential, a
crash, or an overtaken synchronization that commits last.
Concurrent synchronizations may also leave files nobody names. The invariant says who
still owes a kind a synchronization (`Owed`): a file that is not the newest has a
cause, or a coroutine about to see to it that read nothing older (`TokenFresh`).

## 8. SquadPanel

One coroutine per request: it reads, awaits and writes. `held` and `made` are
what an open setup has inserted, so that two setups can wait for each other's
keys and one is aborted (`DeadlockAborted`). Run `squad_panel`: two at a time,
four requests, a squad of two devs and an architect. Versions of manifests and
prompts only move forward, a setup is complete or absent, and the two things the
code leaves open are bounded: a required tier loses its last agent only by a
PATCH of the status or by a crossing count, a recorded event only by `EventCap`
newer ones or by a webhook that had read the list before. `EventCap` is 2 for 50. The
invariant adds that ids and keys are given once (`IdsOnce`, `KeysOnce`), that no
version is left out (`VersionsDense`), so that the next is the number of those there
are plus one, and what a request may still believe of what it read (`StepsMatch`).

## 9. CodeIndex

Runners (`_ensure_indexed`) and the reindex worker write one Qdrant collection;
every call to Voyage or Qdrant is a step that may fail. Messages are chosen from
outside: the push webhook builds a `ReindexMessage` its class refuses
(`webhooks.py:143`), so none comes from it. The worker opens a message's paths
relative to its own directory, and `delete_by_file` filters by path alone: both
are in the model, so a message of another repository reindexes the local file
under that label. A message names at least one file, as the webhook, from which the
class is taken, sends none without. An exception of `chunk_file` is swallowed after the
file's chunks were deleted, and the message is acknowledged (`indexer.py:204`): such a
file is in `unread` until a later message reads it. Run `code_index`: a runner, two
messages, two pulls, two faults, of which an unreadable file is one. Without overlapping
writers a file has one copy; and a file that a
message is about gets eventually indexed at its version or a later one, although
its chunks were deleted first, and although a message that can never be handled
goes round for ever (`queue.py:107-113`) - unless the last message about it could not
read it, the one way in which its chunks are gone for good. The invariant keeps who was at work with
whom (`MetOpen`) and what a writer can find beside it: a runner only what was written
while it ran (`FreshRunners`), the worker, in a file it deleted, only what was written
since (`DeletedFirst`).

## 10. Billing

Writers store a row per call in transactions of their own length; `occurred_at`
is `now()`, the start of the transaction, so a row appears later than its date
says.

| State | Code |
|---|---|
| `rows`, `open`, `began` | `external_api_calls`, those not committed, and when each writer's transaction began |
| `created`, `columns`, `closed` | `created_at`, the agent and the status, and `closed_at` of `tasks` |
| `closing`, `running` | closings written and not committed; analyses whose background task has not failed |
| `backfill`, `page`, `report` | what the script, somebody who pages and a report hold between two statements |

`OpenTask` and `AssignTask` are `_ensure_task` and its counterpart of the analyses. Of all
Tasks only those of analyses (`Analyses`) are ever closed, by `CancelAnalysis` and by
`FailAnalysis`, which do not look at each other: `_mark_failed` writes `closed_at` over
that of a cancel (`analyzer.py:651, 1122`), and the two may commit in either order.
A list of Tasks is narrowed by agent, status and dates (`Filters`); an update that takes a
Task off it is noted in `page.left`.

Runs:

- `billing`: two loops, a managed session and a proposal, three rows, two runs of the
  backfill, paging and reports; or, with one call and one run of the backfill
  (`MCBound`), a Task that changes hands and an analysis that is cancelled and then
  fails, with lists narrowed by status, or by agent and date: one closing falls in the
  period and another after it, while a report is read.

Once a period is over and the transactions begun in it have ended, the calls a client is
billed for never change; no Task comes into the period, but one of an analysis may go out
of it, and be counted and charged in a later one, when it is closed once more
(`SettledPeriodFixed`). A call stays in the run it belongs to; runs of the backfill are
chains within the gap; who pages to the end has seen what did not move, unless a page
ended between calls of one date or a Task went off the list meanwhile; a report of a
settled period is exact and ranked by what it shows, its number of Tasks that of some
moment since it was asked for (`TrueLines`, from `report.counted`). A report of an
unsettled one is not followed (its three statements may
disagree). Two concurrent backfills could reassign calls; one at a time is
modelled, and it groups one agent after the other, all groups of an agent before the
calls of the next are read. The invariant says what the chains rest on (`HistLinked`: a
call in a run is of the second of its key or follows another within the gap, `Gap`
being at least a second), what the script holds between two statements
(`GroupsLinked`, `MovesLinked`), that a report in progress agrees with the ledger
(`ReportHolds`), and that on a list nothing moves to the end and only Tasks leave one, so
that until then what has not moved is behind the pages read (`PageHolds`). `KeysApart` says that
no Jira issue is called HIST-<second>.

Seen without a run: the IntegrityError handler of `backfill_runs.py:130` rolls the
whole script back and raises; an unknown second slug in `propose_skills` answers
400 without a commit, and the cost of the first is lost; embeddings, graders and
the feedback extractor store no row although `cost.py:3` adds up all calls.

## 11. ControlPlane

The tables as functions from their unique columns, and one coroutine per request
with a step each for authentication, context, reading and committing. A flush
writes the columns that differ from the loaded row (`Merge`). A token is any
active account's; an explicit null is refused by NOT NULL and left out. Run
`control_plane`: two at a time, three requests, on an empty database or one with
the seeded client and a tenant, with and without the newest seeded template.
An account has one tenant, a client a plan, a started run its Task; an archived
client is dated unless two changes of status overlapped; a tenant's rows change
only by requests let into it; crossing edits keep each other's fields. The invariant
says besides what each request may still rely on when it commits (`Fits`): what it
named is there (`TargetThere`), what it read belongs to the client it acts for
(`InContext`), the status it is about to change is the one it saw or another change
crossed it (`StatusSeen`), and the seed adds a client with its plan and an account with
its membership (`SeedWhole`). `RootFirst` and `MembersKnown` are why it may: before the
seed's account there is nobody who could have written a membership. Which fields a
request has is in `Fields`, part of `TypeOK`.

Seen without a run: two clients with one workspace URL meet in the UNIQUE key of
`tasks` and the second is answered 500 (`managed_agent_run_trigger.py:162`);
every onboarding run creates another memory store, since the row is never
committed (line 288 says idempotent); seeds in parallel create two system
templates, after which the next seed raises; an archived stack's slug can never
be used again.

## 12. Bounds and fairness

Two runs, or three writers, are enough for every pair to meet at every step; a
third adds only another instance of a pair, since each shared resource (key, row
lock, cached id, branch) is held by one call at a time. `MaxThreads = 2` gives two
threads, a duplicate event, and a second run whose keys collide with one or with
both. Two hashes give both a duplicate and two different texts. One collection
is the interesting case: calls of different collections share nothing. Two starts
and one cancel give every pair of transactions on a row and both orders of two
starts; two workspaces let the second start run although the first has its Task.

In `DevRuns` two turns of two blocks reach edit, commit, push and completion, also
by a Fixer on what a Dev left; one merge and two human commits put a branch behind
and beside GitHub. Three or four requests are a read, an overlapping write and a
third that meets the result. In `Billing` instants go to 5 with the period ending
at 3, so that calls fall in, after and across it; pages of one row give every cut.
In `CodeIndex` two messages are fewer than the prefetch of four, as the model of
the requeued order needs. The proofs hold for all values.

Fairness is weak and per call, run or worker: a coroutine that started is resumed
by the event loop, a process by its operating system, until it returns or raises.
Nothing is assumed about requests arriving, faults, or processes dying; a call
that waits for a key or a row lock is enabled once it is free. `CodeIndex` assumes
it of the worker only, with a bounded number of failures. `SecretFiles`,
`SquadPanel`, `Billing` and `ControlPlane` state no fairness: their properties are
safety. The event loop itself is assumed to run; that a synchronous stream can
stop it is listed as a hazard.

## 13. Proofs

Each proof module shows that `IInv` is inductive, by a lemma per action or group of
actions, and derives the properties from it. The assumptions are those the modules
declare, on the types of their constants and on the positivity of some; TLC evaluates
them in every run.

`ManagedRunsProofs`: `TypeOK` is preserved by each action; `IInv` adds what a
step relies on (a Task row past `_ensure_task`, a flushed id is one's own, a
locked row will receive the holder's id, a child row belongs to a persisted run
that reported it, a run has opened its session before it uses it).
`ResultsAllOrNothing` is not inductive: it needs `ChildOwned`
and `ThreadsStored`, so that the conflict branch cannot leave part of a report.
From `Inductive` follow `TypeCorrect`, `AllOrNothing`, `AccountedFirst`,
`DreamsLast`, `CacheAndLocks` and `LocksReleased`; `ChildRowsKept` is an action
property. `OutcomesGraded` needs that the run which wrote an outcome does not change
its result afterwards. `ImplementsLedger` maps each step to one of `RunLedger` or to
none: the commit of the second transaction is the moment at which the report is shown
whole (`ShownIsReport`), no other action changes what is shown, and a session is
deleted only afterwards. Assumption: `RunConstants`.

`KnowledgeProofs`, of `RagSources`: `KeysStep` shows that the UNIQUE index works as mutual
exclusion (`HoldsClaim`, `KeysExclusive`), `StoresStep` that a row appears last
and a delete starts from a committed row (`RowsLast`, `DeletesCommitted`), which
gives `IndexedBacked` and `RemovedStaysRemoved`; `RemovableStep` needs both.
Assumption: `SourceConstants`.

The same module, of `OnboardingAnalysis`: one lemma per kind of step. `EndedClosed` and
`FailureTold` are not inductive: `ClosedBehind` adds that a background task on
its way to the cleanup has a closed row behind it and that a FAILED row belongs
to one that writes no more; `GreenfieldStages` that an analysis without a
`finally` clause never has a clone. Assumption: `AnalysisConstants`.

`DevRunsProofs`: branches are compared by `Ancestor`, a reflexive and transitive relation
(its lemmas come first). `RemoteGrows` follows from what a push may do (`FastForward`), `HeadsGrow` from
what each tool does to a local branch and `BranchesFresh` for those that create one.
`AcceptedIsDelivered` needs `TrackingBehind`: the check compares with what was fetched
last, which GitHub has or has gone beyond. `EffectsCommitted` rests on every call to an
API coming after `SettleBeforeCall` and on who may end with flushed rows of a push
(`pushed` is part of `unsaved`). `OnlyTreesBlock` needs that `CheckoutBusy`
alone calls a run busy, and that it first prunes the entries without a worktree. Assumption: `DevConstants`.

`SecretFilesProofs`: `PointerLive` needs that ids are owned by one file (`IdsOwned`) and
a fresh upload is named by nobody (`FreshKept`), so that a DELETE never takes another's
file. `NewestCarried` follows from `Owed` once no coroutine is left that owes anything; a skip
is a cause, so that it leaves none owing.
"The newest" is the row of the largest id; that a set of numbers has a least or a
greatest member comes from well-foundedness (`WFMin`), not from an induction of ours.
Assumption: `SecretFilesConstants`.

`SquadPanelProofs`: `VersionsForward` needs `VersionsDense` and `KeysOnce`: the version
an editor computed is above all others, or its key is taken and its commit fails.
`LastOfTier` and `TimelineKeeps` follow from `StepsMatch`, which says which of the
things a request has read are still so, and by whose step they ceased to be.
`SetupsWhole` is the part of `IInv` that `PendingSetups` makes inductive.
Assumption: `SquadPanelConstants`.

`CodeIndexProofs`: `OneCopy` is not inductive. Two turns both open have met
(`MetOpen`); one that ended before another began left chunks only where that one
deletes (`DeletedFirst`) or cannot be, having counted none (`FreshRunners`).
Assumption: `CodeIndexConstants`.

`BillingProofs`: the actions on the ledger are six effects (`LedgerEffects`), and every
invariant is proved against these. `RunsChained` follows from `HistLinked`: two calls of
one second are less than `PerSecond`, hence than the gap, apart. `BilledOnce` is
`SettledStays`: a row that becomes visible late is dated when its transaction began,
after the period, and so is a closing committed late, which can therefore only take a
Task out of the period. Sums are not evaluated: a total is the same because the calls and
their costs are, and the number of Tasks lies between what the period has left and what
it had when the report was asked for. `AnswersHold` needs `PageHolds`: while nothing has
left the list, an item that has not moved stays
behind as many as were shown (`FirstOnes`, by counting), since what stands before it
never falls behind it (`ItemsStay`), and a page that is not cut ends between two keys.
Assumptions: `BillingConstants`, `KeysApart`.

`ControlPlaneProofs`: first what writing a row does to the tables (`WithRows`,
`MergeValue`), and when a request fits tables that have grown (`FitsGrown`). A step is
then quiet (`Quiet`: one request goes on, with `KeepsFits` for all that read) or a
transaction (`Commit`, `Stored`), of which only what it writes is left to show.
`ArchivedDated` needs `StatusSeen`: `archived_at` is written only when it differs from
the loaded one, so a change that crossed another may leave it behind. `OneTenantEach`
gives `ContextNeverAmbiguous`, that two refusals of `require_client_context` are never
reached. `RowsOfTheirTenant` and `FieldsAsAsked` state `TenantKept` and `EditsKept`: each
transaction writes rows of clients its request is entitled to (`OwnRows`; whose an
account is follows from its only membership) and values it was asked for
(`AskedFields`). Assumption: `ControlPlaneConstants`, what the request schemas let
through, and that the two clients and the two accounts of the populated database differ.

Only model-checked: all liveness (`EveryRunEnds` twice, `DreamLeavesRunning`,
`EveryCallEnds`, `EverythingEnds`, `ChunksReturn`), which the prover does not reach,
nor ENABLED. That the sums, roundings and sequences of equal keys compute what they
should rests on their definitions, which TLC evaluates; an induction over data is out
of reach of the installed provers.

## 14. Not modelled

- Prompts, formatting, logging; the content of messages and chunks (model values);
  the web panels, migrations, catalog data (`seed_data/`), deployment files, demos
  and smoke tests.
- Reads that leave nothing behind: retrieval and reranking, status endpoints,
  tools that only read.
- Code that cannot be reached: the onboarding stages behind `analyzer.py:831` and
  `:350` with the grader's loop, `_persist_stacks`, `_save_manifest` and
  `rag_indexer.py`; `start_analysis`, `get_analysis_status` and `read_manifest` of
  `services/onboarding_analyzer.py`; `rebase_onto_base`; `contextual.py`; the
  playbook miner, whose queue nobody consumes; `git_branch`, `delete_file`,
  `github_merge_pr` and `github_get_pr_checks`, which no runner registers;
  `post_stage_comment`, which never finds its credential.
- Code that raises whenever it is called: `dashboard-summary`, `top-tasks` and
  `daily-series` (`ExternalApiCall` has no `created_at`), the search of
  `services/rag_retriever.py`, the push branch of the GitHub webhook.
- Agents that a rolled-back setup leaves on Anthropic; secrets of kinds without a
  file; two credentials of kind GITHUB_TOKEN, which make
  `scalar_one_or_none` raise (`webhooks.py:198`).

Postgres is assumed to give READ COMMITTED with UNIQUE indexes and row locks; a
deadlock abort of Postgres is a `Raise`, an `Abort`, an `AbortRequest` or, in `SquadPanel`, an action.
