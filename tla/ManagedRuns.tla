---------------------------- MODULE ManagedRuns ----------------------------
(***************************************************************************)
(* run_managed_task (agent_runtime/managed_runner.py): any number of runs, *)
(* in one process or several, over the shared tables tasks,                *)
(* skill_templates, clients, external_api_calls and dream_jobs, and over   *)
(* the objects the runs create on Anthropic (agents, environments,         *)
(* sessions).                                                              *)
(*                                                                         *)
(* An action is the code between two points where another run can observe  *)
(* or change shared state: a SELECT, a flush that waits for a row lock, a  *)
(* commit, or a call to Anthropic.  A run creates at most one agent, one   *)
(* environment and one session, so each of them is named by its run.       *)
(***************************************************************************)
EXTENDS Naturals, Sequences

CONSTANTS
  Runs,             \* calls of run_managed_task
  Issues,           \* values of (jira_workspace_url, jira_issue_key)
  Clients,          \* rows of clients
  Agents,           \* rows of agent_instances
  Templates,        \* rows of skill_templates
  IssueOf,          \* the issue a run works on
  ClientOf,         \* the client of a run's spec
  AgentOf,          \* the agent instance of a run's spec
  TemplateOf,       \* the skill template of an agent instance
  HasOutcome,       \* runs whose spec has an outcome (rubric)
  HasStore,         \* runs whose resources hold a memory_store
  MaxThreads,       \* bound: thread_created events in one stream
  DreamingEnabled,  \* settings.DREAMING_ENABLED
  Faults,           \* TRUE: exceptions and process crashes may happen
  None              \* the null value

\* session ids of sub-threads: the k-th thread of the session of run r
ThreadIds == Runs \X (1..MaxThreads)

Outcomes == {"skipped", "pending", "satisfied", "failed"}

\* the columns of a Task row
TaskRows == [client : Clients, agent : Agents, session : Runs \cup {None},
             outcome : Outcomes]

ASSUME RunConstants ==
  /\ IssueOf \in [Runs -> Issues]
  /\ ClientOf \in [Runs -> Clients]
  /\ AgentOf \in [Runs -> Agents]
  /\ TemplateOf \in [Agents -> Templates]
  /\ HasOutcome \subseteq Runs
  /\ HasStore \subseteq Runs
  /\ MaxThreads \in Nat
  /\ DreamingEnabled \in BOOLEAN
  /\ Faults \in BOOLEAN
  /\ None \notin Runs \cup Agents \cup ThreadIds \cup TaskRows

Tpl(r) == TemplateOf[AgentOf[r]]

\* what one stream may report, an event possibly delivered twice
Streams == UNION {[1..n -> 1..MaxThreads] : n \in 0..MaxThreads}

Verdicts == {"none", "satisfied", "failed"}   \* "unsatisfied" acts as "failed"

VARIABLES
  \* the database, committed rows only
  tasks,      \* by issue: the Task row, or None
  child,      \* by issue and index: thread id of Task "<issue>.thread-<i>", or None
  agentId,    \* skill_templates.anthropic_agent_id
  envId,      \* clients.anthropic_environment_id
  calls,      \* runs whose session has an external_api_calls row
  dreams,     \* status of the dream_jobs row of a run's session
  tplLock,    \* the run holding the row lock of a skill template
  cliLock,    \* the run holding the row lock of a client
  \* Anthropic
  agents,     \* runs that created an agent
  envs,       \* runs that created an environment
  session,    \* state of a run's session
  \* the memory of a run
  pc,         \* the next step of a run
  fate,       \* how a run was cut short, if it was
  found,      \* assigned agent of the row the SELECT of _ensure_task found, or None
  agentRef,   \* tpl.anthropic_agent_id as this run sees it
  envRef,     \* local_client.anthropic_environment_id as this run sees it
  result,     \* what the stream and sessions.retrieve returned
  dreamer     \* the background task _execute_dream_job of a run

db    == <<tasks, child, agentId, envId, calls, dreams>>
locks == <<tplLock, cliLock>>
cloud == <<agents, envs, session>>
local == <<found, agentRef, envRef, result, dreamer>>
vars  == <<db, locks, cloud, pc, fate, local>>

Steps == {"idle", "template", "find", "task", "agent", "flushAgent", "env",
          "flushEnv", "session", "commit", "stream", "retrieve", "persist",
          "delete", "dream", "done"}

NoResult == [error |-> FALSE, verdict |-> "none", threads |-> <<>>,
             usage |-> FALSE, idle |-> FALSE]

Init ==
  /\ tasks    = [i \in Issues |-> None]
  /\ child    = [i \in Issues |-> [k \in 1..MaxThreads |-> None]]
  /\ agentId  = [t \in Templates |-> None]
  /\ envId    = [c \in Clients |-> None]
  /\ calls    = {}
  /\ dreams   = [r \in Runs |-> "none"]
  /\ tplLock  = [t \in Templates |-> None]
  /\ cliLock  = [c \in Clients |-> None]
  /\ agents   = {}
  /\ envs     = {}
  /\ session  = [r \in Runs |-> "none"]
  /\ pc       = [r \in Runs |-> "idle"]
  /\ fate     = [r \in Runs |-> "running"]
  /\ found    = [r \in Runs |-> None]
  /\ agentRef = [r \in Runs |-> None]
  /\ envRef   = [r \in Runs |-> None]
  /\ result   = [r \in Runs |-> NoResult]
  /\ dreamer  = [r \in Runs |-> "none"]

At(r, step) == pc[r] = step /\ fate[r] = "running"
Goto(r, step) == pc' = [pc EXCEPT ![r] = step]

\* mutant: the transaction is left open, its row locks stay
KeepLocks(r) == UNCHANGED locks

\* a transaction ends: its row locks are free again
ReleaseLocks(r) ==
  /\ tplLock' = [t \in Templates |-> IF tplLock[t] = r THEN None ELSE tplLock[t]]
  /\ cliLock' = [c \in Clients |-> IF cliLock[c] = r THEN None ELSE cliLock[c]]

-----------------------------------------------------------------------------
(* First session_scope: identities, Task, agent, environment, session.     *)

\* SELECT the client; its cached environment id stays in the identity map.
ResolveClient(r) ==
  /\ At(r, "idle")
  /\ envRef' = [envRef EXCEPT ![r] = envId[ClientOf[r]]]
  /\ Goto(r, "template")
  /\ UNCHANGED <<db, locks, cloud, fate, found, agentRef, result, dreamer>>

\* SELECT squad, agent instance and skill template with its cached agent id.
ResolveTemplate(r) ==
  /\ At(r, "template")
  /\ agentRef' = [agentRef EXCEPT ![r] = agentId[Tpl(r)]]
  /\ Goto(r, "find")
  /\ UNCHANGED <<db, locks, cloud, fate, found, envRef, result, dreamer>>

\* _ensure_task, the SELECT: it filters by client, the UNIQUE key does not.
FindTask(r) ==
  LET row == tasks[IssueOf[r]]
  IN  /\ At(r, "find")
      /\ found' = [found EXCEPT ![r] =
                     IF row = None \/ row.client # ClientOf[r] THEN None ELSE row.agent]
      /\ Goto(r, "task")
      /\ UNCHANGED <<db, locks, cloud, fate, agentRef, envRef, result, dreamer>>

\* _ensure_task, a row was found: reassign it if the agent differed, commit.
ReassignTask(r) ==
  /\ At(r, "task") /\ found[r] # None
  /\ tasks' = IF found[r] = AgentOf[r]
                THEN tasks
                ELSE [tasks EXCEPT ![IssueOf[r]].agent = AgentOf[r]]
  /\ Goto(r, "agent")
  /\ UNCHANGED <<child, agentId, envId, calls, dreams, locks, cloud, fate, local>>

\* _ensure_task, no row was found: INSERT and commit.
InsertTask(r) ==
  /\ At(r, "task") /\ found[r] = None
  /\ tasks[IssueOf[r]] = None
  /\ tasks' = [tasks EXCEPT ![IssueOf[r]] =
                 [client |-> ClientOf[r], agent |-> AgentOf[r],
                  session |-> None, outcome |-> "skipped"]]
  /\ Goto(r, "agent")
  /\ UNCHANGED <<child, agentId, envId, calls, dreams, locks, cloud, fate, local>>

\* Another row took the UNIQUE key since the SELECT: IntegrityError.
InsertTaskConflict(r) ==
  /\ At(r, "task") /\ found[r] = None
  /\ tasks[IssueOf[r]] # None
  /\ fate' = [fate EXCEPT ![r] = "raised"]
  /\ UNCHANGED <<db, locks, cloud, pc, local>>

\* _ensure_agent, cached id.
ReuseAgent(r) ==
  /\ At(r, "agent") /\ agentRef[r] # None
  /\ Goto(r, "env")
  /\ UNCHANGED <<db, locks, cloud, fate, local>>

\* _ensure_agent, no cached id: agents.create.
CreateAgent(r) ==
  /\ At(r, "agent") /\ agentRef[r] = None
  /\ agents' = agents \cup {r}
  /\ agentRef' = [agentRef EXCEPT ![r] = r]
  /\ Goto(r, "flushAgent")
  /\ UNCHANGED <<db, locks, envs, session, fate, found, envRef, result, dreamer>>

\* mutant: the agent id is committed as soon as it is known
FlushAgentCommits(r) ==
  /\ At(r, "flushAgent")
  /\ tplLock[Tpl(r)] = None
  /\ agentId' = [agentId EXCEPT ![Tpl(r)] = agentRef[r]]
  /\ Goto(r, "env")
  /\ UNCHANGED <<tasks, child, envId, calls, dreams, locks, cloud, fate, local>>

\* _ensure_agent, flush: the UPDATE waits for the template's row lock.
FlushAgent(r) ==
  /\ At(r, "flushAgent")
  /\ tplLock[Tpl(r)] = None
  /\ tplLock' = [tplLock EXCEPT ![Tpl(r)] = r]
  /\ Goto(r, "env")
  /\ UNCHANGED <<db, cliLock, cloud, fate, local>>

\* _ensure_environment, cached id.
ReuseEnvironment(r) ==
  /\ At(r, "env") /\ envRef[r] # None
  /\ Goto(r, "session")
  /\ UNCHANGED <<db, locks, cloud, fate, local>>

\* _ensure_environment, no cached id: environments.create.
CreateEnvironment(r) ==
  /\ At(r, "env") /\ envRef[r] = None
  /\ envs' = envs \cup {r}
  /\ envRef' = [envRef EXCEPT ![r] = r]
  /\ Goto(r, "flushEnv")
  /\ UNCHANGED <<db, locks, agents, session, fate, found, agentRef, result, dreamer>>

\* _ensure_environment, flush: the UPDATE waits for the client's row lock.
FlushEnvironment(r) ==
  /\ At(r, "flushEnv")
  /\ cliLock[ClientOf[r]] = None
  /\ cliLock' = [cliLock EXCEPT ![ClientOf[r]] = r]
  /\ Goto(r, "session")
  /\ UNCHANGED <<db, tplLock, cloud, fate, local>>

\* sessions.create.
CreateSession(r) ==
  /\ At(r, "session")
  /\ session' = [session EXCEPT ![r] = "live"]
  /\ Goto(r, "commit")
  /\ UNCHANGED <<db, locks, agents, envs, fate, local>>

\* Commit: the session id on the Task, and the ids this run flushed.
CommitSetup(r) ==
  /\ At(r, "commit")
  /\ tasks' = [tasks EXCEPT ![IssueOf[r]].session = r]
  /\ agentId' = [t \in Templates |-> IF tplLock[t] = r THEN agentRef[r] ELSE agentId[t]]
  /\ envId' = [c \in Clients |-> IF cliLock[c] = r THEN envRef[r] ELSE envId[c]]
  /\ ReleaseLocks(r)
  /\ Goto(r, "stream")
  /\ UNCHANGED <<child, calls, dreams, cloud, fate, local>>

-----------------------------------------------------------------------------
(* Stream and usage, with no transaction open.                             *)

\* mutant: the verdict is stored when its event arrives
StreamStoresVerdict(r) ==
  /\ At(r, "stream")
  /\ \E v \in Verdicts \ {"none"} :
       /\ r \in HasOutcome
       /\ tasks' = [tasks EXCEPT ![IssueOf[r]].outcome = v]
       /\ result' = [result EXCEPT ![r] = [@ EXCEPT !.verdict = v]]
  /\ Goto(r, "retrieve")
  /\ UNCHANGED <<child, agentId, envId, calls, dreams, locks, cloud, fate,
                 found, agentRef, envRef, dreamer>>

\* _stream_events returns: verdict of the grader and threads spawned.
Stream(r) ==
  /\ At(r, "stream")
  /\ \E v \in Verdicts, th \in Streams :
       /\ v # "none" => r \in HasOutcome
       /\ result' = [result EXCEPT ![r] = [@ EXCEPT !.verdict = v, !.threads = th]]
  /\ Goto(r, "retrieve")
  /\ UNCHANGED <<db, locks, cloud, fate, found, agentRef, envRef, dreamer>>

\* _stream_events raises: whatever the stream reported is lost.
StreamError(r) ==
  /\ At(r, "stream")
  /\ result' = [result EXCEPT ![r].error = TRUE]
  /\ Goto(r, "retrieve")
  /\ UNCHANGED <<db, locks, cloud, fate, found, agentRef, envRef, dreamer>>

\* sessions.retrieve answers, or raises (then usage and status stay None).
Retrieve(r) ==
  /\ At(r, "retrieve")
  /\ \E u, idle \in BOOLEAN :
       result' = [result EXCEPT ![r] = [@ EXCEPT !.usage = u, !.idle = idle]]
  /\ Goto(r, "persist")
  /\ UNCHANGED <<db, locks, cloud, fate, found, agentRef, envRef, dreamer>>

-----------------------------------------------------------------------------
(* Second session_scope: usage, outcome and child Tasks in one commit.     *)

\* mutant: a thread whose key is taken counts as stored
FreeKeys(r) ==
  LET th == result[r].threads
  IN  {k \in DOMAIN th : /\ \A j \in 1..(k - 1) : th[j] # th[k]
                         /\ child[IssueOf[r]][k] = None}

\* _persist_thread_as_child_task: indices that get a row of their own; the
\* others find their thread already stored, before or earlier in this loop.
NewChildren(r) ==
  LET th == result[r].threads
  IN  {k \in DOMAIN th :
         /\ \A j \in 1..(k - 1) : th[j] # th[k]
         /\ \A j \in 1..MaxThreads : child[IssueOf[r]][j] # <<r, th[k]>>}

\* mutant: the insert overwrites the row that holds the key
KeyOverwritten(r) == FALSE

\* a key "<issue>.thread-<k>" this run must insert is already taken
KeyTaken(r) == \E k \in NewChildren(r) : child[IssueOf[r]][k] # None

\* what outcome_status becomes: PENDING unless the grader decided
StoredOutcome(r) ==
  IF result[r].verdict = "none" THEN "pending" ELSE result[r].verdict

\* mutant: the commit comes before the loop over the threads
PersistBeforeThreads(r) ==
  /\ At(r, "persist") /\ ~KeyTaken(r)
  /\ calls' = IF result[r].usage THEN calls \cup {r} ELSE calls
  /\ Goto(r, "delete")
  /\ UNCHANGED <<tasks, child, agentId, envId, dreams, locks, cloud, fate, local>>

\* usage, outcome and child Tasks, in one commit
Persist(r) ==
  /\ At(r, "persist") /\ ~KeyTaken(r)
  /\ calls' = IF result[r].usage THEN calls \cup {r} ELSE calls
  /\ tasks' = IF r \in HasOutcome
                THEN [tasks EXCEPT ![IssueOf[r]].outcome = StoredOutcome(r)]
                ELSE tasks
  /\ child' = [child EXCEPT ![IssueOf[r]] =
                 [k \in 1..MaxThreads |->
                    IF k \in NewChildren(r) THEN <<r, result[r].threads[k]>> ELSE @[k]]]
  /\ Goto(r, "delete")
  /\ UNCHANGED <<agentId, envId, dreams, locks, cloud, fate, local>>

\* mutant: the usage was committed by a transaction of its own
ConflictKeepsUsage(r) ==
  /\ At(r, "persist") /\ KeyTaken(r)
  /\ calls' = IF result[r].usage THEN calls \cup {r} ELSE calls
  /\ fate' = [fate EXCEPT ![r] = "raised"]
  /\ UNCHANGED <<tasks, child, agentId, envId, dreams, locks, cloud, pc, local>>

\* UNIQUE violation on a child key: rollback of usage, outcome and children.
PersistConflict(r) ==
  /\ At(r, "persist") /\ KeyTaken(r)
  /\ fate' = [fate EXCEPT ![r] = "raised"]
  /\ UNCHANGED <<db, locks, cloud, pc, local>>

\* sessions.delete: an error is ignored and the session stays.
DeleteSession(r) ==
  /\ At(r, "delete")
  /\ \E s \in {"deleted", "live"} : session' = [session EXCEPT ![r] = s]
  /\ Goto(r, "dream")
  /\ UNCHANGED <<db, locks, agents, envs, fate, local>>

-----------------------------------------------------------------------------
(* Dreaming hook and its background task.                                  *)

\* mutant: completed as soon as the stream did not raise
StreamReturned(r) == ~result[r].error

Completed(r) == ~result[r].error /\ result[r].idle

\* _post_task_dream_hook: a CANDIDATE row, and the background task if enabled.
DreamHook(r) ==
  /\ At(r, "dream")
  /\ IF Completed(r) /\ r \in HasStore
       THEN /\ dreams' = [dreams EXCEPT ![r] = "candidate"]
            /\ dreamer' = [dreamer EXCEPT ![r] = IF DreamingEnabled THEN "queued" ELSE "none"]
       ELSE UNCHANGED <<dreams, dreamer>>
  /\ Goto(r, "done")
  /\ UNCHANGED <<tasks, child, agentId, envId, calls, locks, cloud, fate,
                 found, agentRef, envRef, result>>

\* _execute_dream_job: RUNNING, committed before the consolidation starts.
StartDream(r) ==
  /\ dreamer[r] = "queued"
  /\ dreams' = [dreams EXCEPT ![r] = "running"]
  /\ dreamer' = [dreamer EXCEPT ![r] = "consolidating"]
  /\ UNCHANGED <<tasks, child, agentId, envId, calls, locks, cloud, pc, fate,
                 found, agentRef, envRef, result>>

\* mutant: the status of an unfinished dream is written back
FinishDreamUnmapped(r) ==
  /\ dreamer[r] = "consolidating"
  /\ \E s \in {"completed", "failed", "running"} : dreams' = [dreams EXCEPT ![r] = s]
  /\ dreamer' = [dreamer EXCEPT ![r] = "ended"]
  /\ UNCHANGED <<tasks, child, agentId, envId, calls, locks, cloud, pc, fate,
                 found, agentRef, envRef, result>>

\* dreaming.consolidate returned or raised ("canceled" and errors: FAILED).
FinishDream(r) ==
  /\ dreamer[r] = "consolidating"
  /\ \E s \in {"completed", "failed", "skipped_unavailable"} :
       dreams' = [dreams EXCEPT ![r] = s]
  /\ dreamer' = [dreamer EXCEPT ![r] = "ended"]
  /\ UNCHANGED <<tasks, child, agentId, envId, calls, locks, cloud, pc, fate,
                 found, agentRef, envRef, result>>

-----------------------------------------------------------------------------
(* Failures: an exception that leaves run_managed_task, or a dead process. *)

\* before the first effect, and the steps whose exceptions are caught in place
Guarded == {"idle", "retrieve", "delete", "done"}

\* mutant: no rollback when the exception leaves session_scope
RaiseWithoutRollback(r) ==
  /\ Faults
  /\ fate[r] = "running" /\ pc[r] \notin Guarded
  /\ fate' = [fate EXCEPT ![r] = "raised"]
  /\ UNCHANGED <<db, locks, cloud, pc, local>>

\* session_scope rolls back and the exception leaves run_managed_task.
Raise(r) ==
  /\ Faults
  /\ fate[r] = "running" /\ pc[r] \notin Guarded
  /\ fate' = [fate EXCEPT ![r] = "raised"]
  /\ ReleaseLocks(r)
  /\ UNCHANGED <<db, cloud, pc, local>>

\* The process dies, and so does a background consolidation of a finished run
\* (as it does when the event loop of a script ends, or its own SQL fails).
Crash(r) ==
  /\ Faults
  /\ fate[r] = "running" /\ pc[r] # "idle"
  /\ pc[r] = "done" => dreamer[r] \in {"queued", "consolidating"}
  /\ fate' = [fate EXCEPT ![r] = "crashed"]
  /\ dreamer' = [dreamer EXCEPT ![r] = IF @ \in {"queued", "consolidating"} THEN "lost" ELSE @]
  /\ ReleaseLocks(r)
  /\ UNCHANGED <<db, cloud, pc, found, agentRef, envRef, result>>

-----------------------------------------------------------------------------
EnsureTask(r) ==
  FindTask(r) \/ ReassignTask(r) \/ InsertTask(r) \/ InsertTaskConflict(r)
EnsureAgent(r) == ReuseAgent(r) \/ CreateAgent(r) \/ FlushAgent(r)
EnsureEnvironment(r) ==
  ReuseEnvironment(r) \/ CreateEnvironment(r) \/ FlushEnvironment(r)

\* what a started run does next, and its background task
Proceed(r) ==
  \/ ResolveTemplate(r) \/ EnsureTask(r) \/ EnsureAgent(r) \/ EnsureEnvironment(r)
  \/ CreateSession(r) \/ CommitSetup(r)
  \/ Stream(r) \/ StreamError(r) \/ Retrieve(r)
  \/ Persist(r) \/ PersistConflict(r) \/ DeleteSession(r) \/ DreamHook(r)
DreamTask(r) == StartDream(r) \/ FinishDream(r)

Next == \E r \in Runs :
  ResolveClient(r) \/ Proceed(r) \/ DreamTask(r) \/ Raise(r) \/ Crash(r)

Spec == Init /\ [][Next]_vars

(* A started coroutine is resumed by the event loop until it ends: every   *)
(* call it makes returns or raises.  Nothing makes a caller start a run,   *)
(* an exception happen or a process die.                                   *)
Fairness == \A r \in Runs : WF_vars(Proceed(r)) /\ WF_vars(DreamTask(r))
FairSpec == Spec /\ Fairness

-----------------------------------------------------------------------------
(* Type invariant.                                                         *)

Results == [error : BOOLEAN, verdict : Verdicts, threads : Streams,
            usage : BOOLEAN, idle : BOOLEAN]

\* Every variable keeps its type.
TypeOK ==
  /\ tasks \in [Issues -> TaskRows \cup {None}]
  /\ child \in [Issues -> [1..MaxThreads -> ThreadIds \cup {None}]]
  /\ agentId \in [Templates -> Runs \cup {None}]
  /\ envId \in [Clients -> Runs \cup {None}]
  /\ calls \subseteq Runs
  /\ dreams \in [Runs -> {"none", "candidate", "running", "completed", "failed",
                         "skipped_unavailable"}]
  /\ tplLock \in [Templates -> Runs \cup {None}]
  /\ cliLock \in [Clients -> Runs \cup {None}]
  /\ agents \subseteq Runs
  /\ envs \subseteq Runs
  /\ session \in [Runs -> {"none", "live", "deleted"}]
  /\ pc \in [Runs -> Steps]
  /\ fate \in [Runs -> {"running", "raised", "crashed"}]
  /\ found \in [Runs -> Agents \cup {None}]
  /\ agentRef \in [Runs -> Runs \cup {None}]
  /\ envRef \in [Runs -> Runs \cup {None}]
  /\ result \in [Runs -> Results]
  /\ dreamer \in [Runs -> {"none", "queued", "consolidating", "ended", "lost"}]

-----------------------------------------------------------------------------
(* Safety.                                                                 *)

\* the run is past the commit of its first, and of its second, session_scope
SetupDone == {"stream", "retrieve", "persist", "delete", "dream", "done"}
Persisted == {"delete", "dream", "done"}

\* thread ids of run r that have a Task row
StoredThreads(r) == {t \in ThreadIds :
                       t[1] = r /\ \E i \in Issues, k \in 1..MaxThreads : child[i][k] = t}
ReportedThreads(r) == {<<r, result[r].threads[k]>> : k \in DOMAIN result[r].threads}

(* What the database shows of a run is all of what its session reported,   *)
(* or none of it: the usage row and the child Tasks become visible         *)
(* together, whichever other runs on the same issue commit in between and  *)
(* wherever the run is cut short.                                          *)
ResultsAllOrNothing ==
  \A r \in Runs :
    IF pc[r] \in Persisted
      THEN /\ r \in calls <=> result[r].usage
           /\ StoredThreads(r) = ReportedThreads(r)
      ELSE r \notin calls /\ StoredThreads(r) = {}

(* A session is deleted from Anthropic, which makes its usage and threads  *)
(* unrecoverable, only once what it reported is committed.                 *)
AccountedBeforeDeleted ==
  \A r \in Runs : session[r] = "deleted" =>
    /\ result[r].usage => r \in calls
    /\ ReportedThreads(r) \subseteq StoredThreads(r)

(* The agent and environment ids that other runs can read were created for *)
(* that template and that client by a run whose transaction committed: an  *)
(* id flushed by a run that then fails is never handed to another run.     *)
CachedIdsCommitted ==
  /\ \A t \in Templates : agentId[t] # None =>
       agentId[t] \in agents /\ Tpl(agentId[t]) = t /\ pc[agentId[t]] \in SetupDone
  /\ \A c \in Clients : envId[c] # None =>
       envId[c] \in envs /\ ClientOf[envId[c]] = c /\ pc[envId[c]] \in SetupDone

(* A row lock belongs to a run that is still between its flush and its     *)
(* commit: nobody waits for a run that committed, failed or died.          *)
LockHoldersAlive ==
  /\ \A t \in Templates : tplLock[t] # None =>
       /\ fate[tplLock[t]] = "running"
       /\ pc[tplLock[t]] \in {"env", "flushEnv", "session", "commit"}
  /\ \A c \in Clients : cliLock[c] # None =>
       fate[cliLock[c]] = "running" /\ pc[cliLock[c]] \in {"session", "commit"}

(* The outcome a Task shows is the one some finished run with a rubric on  *)
(* that very issue got from the grader: in particular SATISFIED needs a    *)
(* stream that reported it and a commit that kept it.                      *)
OutcomeFromGrader ==
  \A i \in Issues : tasks[i] # None /\ tasks[i].outcome # "skipped" =>
    \E r \in HasOutcome : /\ IssueOf[r] = i
                          /\ pc[r] \in Persisted
                          /\ StoredOutcome(r) = tasks[i].outcome

(* A dream_jobs row exists only for a run that completed and whose results *)
(* are committed: no consolidation of failed or unaccounted sessions.      *)
DreamOnlyAfterSuccess ==
  \A r \in Runs : dreams[r] # "none" =>
    /\ ~result[r].error /\ result[r].idle
    /\ result[r].usage => r \in calls
    /\ ReportedThreads(r) \subseteq StoredThreads(r)

(* A child Task row keeps the thread it was created for: a later run on    *)
(* the same issue, whose threads are numbered from 1 again, never takes it *)
(* over.                                                                   *)
ChildRowsStable ==
  [][\A i \in Issues, k \in 1..MaxThreads :
       child[i][k] # None => child'[i][k] = child[i][k]]_vars

-----------------------------------------------------------------------------
(* Inductive invariant: what each step relies on.                          *)

\* past _ensure_task the Task row exists
TaskExists ==
  \A r \in Runs :
    pc[r] \notin {"idle", "template", "find", "task"} \/ found[r] # None
      => tasks[IssueOf[r]] # None

\* a run that is about to flush an id created it
FlushesOwnId ==
  \A r \in Runs :
    /\ pc[r] = "flushAgent" => r \in agents /\ agentRef[r] = r
    /\ pc[r] = "flushEnv" => r \in envs /\ envRef[r] = r

\* a locked row will receive the id its holder created
LockedForOwnId ==
  /\ \A t \in Templates : tplLock[t] # None =>
       Tpl(tplLock[t]) = t /\ tplLock[t] \in agents /\ agentRef[tplLock[t]] = tplLock[t]
  /\ \A c \in Clients : cliLock[c] # None =>
       ClientOf[cliLock[c]] = c /\ cliLock[c] \in envs /\ envRef[cliLock[c]] = cliLock[c]

\* a child row belongs to a run on its issue that committed it and reported it
ChildOwned ==
  \A i \in Issues, k \in 1..MaxThreads : child[i][k] # None =>
    /\ IssueOf[child[i][k][1]] = i
    /\ pc[child[i][k][1]] \in Persisted
    /\ child[i][k] \in ReportedThreads(child[i][k][1])

\* every thread a persisted run reported has a row, duplicates share one
ThreadsStored ==
  \A r \in Runs : pc[r] \in Persisted =>
    \A k \in DOMAIN result[r].threads :
      \E j \in 1..MaxThreads : child[IssueOf[r]][j] = <<r, result[r].threads[k]>>

\* a usage row belongs to a persisted run, and is there if usage was retrieved
CallsOwned ==
  \A r \in Runs : r \in calls <=> pc[r] \in Persisted /\ result[r].usage

\* past sessions.create there is a session
SessionOpened ==
  \A r \in Runs : pc[r] = "commit" \/ pc[r] \in SetupDone => session[r] # "none"

\* deletion and dreaming come after the second commit
DeletedLate == \A r \in Runs : session[r] = "deleted" => pc[r] \in {"dream", "done"}
DreamsLate ==
  \A r \in Runs : dreams[r] # "none" \/ dreamer[r] # "none"
    => pc[r] = "done" /\ Completed(r)

IInv ==
  /\ TypeOK /\ TaskExists /\ FlushesOwnId /\ LockedForOwnId /\ LockHoldersAlive
  /\ CachedIdsCommitted /\ ChildOwned /\ ThreadsStored /\ CallsOwned
  /\ SessionOpened /\ DeletedLate /\ DreamsLate

-----------------------------------------------------------------------------
(* Liveness.                                                               *)

Ended(r) == pc[r] = "done" \/ fate[r] # "running"

(* Every started run ends, though runs wait for each other's row locks and *)
(* some of them fail or die while they hold one.                           *)
EveryRunEnds == \A r \in Runs : pc[r] # "idle" ~> Ended(r)

(* A consolidation that was started leaves RUNNING unless its process died. *)
DreamLeavesRunning ==
  \A r \in Runs : dreams[r] = "running" ~> dreams[r] # "running" \/ dreamer[r] = "lost"

-----------------------------------------------------------------------------
(* What the documentation says and the code does not keep; a run refutes   *)
(* it.                                                                     *)

(* README: costs are measured per run.  When nothing fails, the usage a    *)
(* run retrieved is recorded before the run ends.                          *)
EveryUsageBilled ==
  \A r \in Runs : Ended(r) /\ result[r].usage => r \in calls

-----------------------------------------------------------------------------
(* Every run, seen from the ledger, follows RunLedger.                     *)

Phase(r) ==
  IF pc[r] \in Persisted THEN "saved"
  ELSE IF pc[r] = "persist" THEN "reported"
  ELSE IF session[r] = "none" THEN "new" ELSE "open"

\* what the session of a run reported, once sessions.retrieve has returned
Reported(r) ==
  IF pc[r] \in Persisted \cup {"persist"}
    THEN [usage |-> result[r].usage, threads |-> ReportedThreads(r)]
    ELSE [usage |-> FALSE, threads |-> {}]

\* what the database shows of a run
Shown(r) == [usage |-> r \in calls, threads |-> StoredThreads(r)]

Ledger == INSTANCE RunLedger WITH
  Threads <- ThreadIds,
  phase   <- [r \in Runs |-> Phase(r)],
  report  <- [r \in Runs |-> Reported(r)],
  shown   <- [r \in Runs |-> Shown(r)],
  closed  <- {r \in Runs : session[r] = "deleted"}

\* ManagedRuns implements the ledger a bill can be made from.
RefinesLedger == Ledger!Spec
=============================================================================
