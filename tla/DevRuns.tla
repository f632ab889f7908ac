------------------------------ MODULE DevRuns ------------------------------
(***************************************************************************)
(* The legacy agent runs: a trigger or a command line starts a detached    *)
(* process, which finds or creates the Task of its issue, checks out a git *)
(* worktree when the agent writes code, and loops between the model and    *)
(* the tools it asks for until signal_complete is accepted or the turns    *)
(* are over (scripts/dev/_runner_lib.py, run_dev_address_review.py,        *)
(* agent_runtime/).  The runs share one bare clone, one GitHub repository  *)
(* and the manifest of their squad.                                        *)
(*                                                                         *)
(* A branch is the version of main it stands on and the authors of the     *)
(* commits of its own: a rebase changes the version and rewrites them.     *)
(* Tools that only read, and calls answered with an error, change nothing  *)
(* and are not here: a turn may use none of the actions below.             *)
(***************************************************************************)
EXTENDS Naturals, Sequences

CONSTANTS
  Devs,       \* runs that work on a new branch, each on its own
  Fixers,     \* runs that answer a review on the branch of a pull request
  Desks,      \* runs without a workspace: BA, Architect, Reviewer
  IssueOf,    \* [Devs \cup Desks -> issues], the key of each run's Task
  OpenPulls,  \* branches whose pull request a human has opened
  Main,
  Human,      \* the author of the commits no run made
  Manifests,  \* versions of the squad's manifest
  Grants,     \* the pairs <<manifest, "repo" or "project">> in force
  MaxTurns,   \* max_turns
  MaxBlocks,  \* bound: tool_use blocks of one turn
  MaxPushes,  \* bound: commits by humans on a branch, and merges into main
  Faults,     \* TRUE: processes die, GitHub, Jira and Anthropic fail
  None

Runs == Devs \cup Fixers \cup Desks
Workspace == Devs \cup Fixers
Branches == Devs \cup OpenPulls
Refs == Branches \cup {Main}
Issues == {IssueOf[r] : r \in Devs \cup Desks} \cup Branches

\* what a branch may be: the version of main it stands on, its own commits
BranchStates == [base : Nat, own : Seq(Runs \cup {Human})]

ASSUME DevConstants ==
  /\ Devs \cap Fixers = {} /\ Devs \cap Desks = {} /\ Fixers \cap Desks = {}
  /\ OpenPulls \cap Devs = {} /\ Main \notin Branches
  /\ MaxTurns \in Nat \ {0} /\ MaxBlocks \in Nat /\ MaxPushes \in Nat
  /\ Faults \in BOOLEAN
  /\ Human \notin Runs /\ None \notin Manifests \cup Branches
  /\ None \notin BranchStates /\ "unread" \notin Manifests \cup {None}

VARIABLES
  pc,         \* the next step of a run
  outcome,    \* how it ended
  target,     \* the branch a fixer works on
  turn,       \* turns used
  blocks,     \* blocks of this turn already dispatched
  accepted,   \* runs whose signal_complete was accepted
  tasks,      \* issues with a committed Task
  prUrl,      \* the issues whose Task has a pr_url
  manifest,   \* squads.current_manifest_id
  loaded,     \* the manifest a run's enforcer has read, or "unread"
  decided,    \* the manifests a run's decisions followed
  unsaved,    \* runs with audit or cost rows flushed and not committed
  exposed,    \* runs that called GitHub or Jira before such rows were
  pushed,     \* runs that pushed before such rows were
  lost,       \* runs whose rows from before a push were rolled back
  cache,      \* the bare clone: "absent", "plain" or "tracking"
  heads,      \* its refs/heads
  tracking,   \* its refs/remotes/origin
  upstream,   \* branches with an upstream configured
  registered, \* worktrees in its registry
  trees,      \* worktrees whose directory exists
  edited,     \* worktrees with a changed file
  added,      \* worktrees with a new file
  remote,     \* the branches on GitHub
  pulls       \* the branches with a pull request

loop   == <<turn, blocks, accepted>>
policy == <<loaded, decided>>
record == <<pushed, lost>>
ledger == <<unsaved, exposed, record>>
db     == <<tasks, prUrl, manifest>>
bare   == <<cache, heads, tracking, upstream, registered, trees>>
github == <<remote, pulls>>
dirty  == <<edited, added>>
vars == <<pc, outcome, target, loop, db, policy, ledger, bare, dirty, github>>

Commits(base, own) == [base |-> base, own |-> own]

\* x is y or an ancestor of y
Ancestor(x, y) ==
  IF x.own = <<>>
    THEN x.base <= y.base
    ELSE /\ x.base = y.base
         /\ Len(x.own) <= Len(y.own)
         /\ SubSeq(y.own, 1, Len(x.own)) = x.own

BranchOf(r) == IF r \in Fixers THEN target[r] ELSE r

\* LEO-n, or PR-n-review
Key(r) == IF r \in Fixers THEN target[r] ELSE IssueOf[r]

\* The cache is cloned by the first run, or was prepared with a fetch refspec
\* by an operator: a bare clone has none.
Init ==
  /\ pc = [r \in Runs |-> "idle"]
  /\ outcome = [r \in Runs |-> "none"]
  /\ target = [r \in Fixers |-> None]
  /\ turn = [r \in Runs |-> 0] /\ blocks = [r \in Runs |-> 0]
  /\ accepted = {}
  /\ tasks = {} /\ prUrl = {}
  /\ manifest \in Manifests \cup {None}
  /\ loaded = [r \in Runs |-> "unread"] /\ decided = [r \in Runs |-> {}]
  /\ unsaved = {} /\ exposed = {} /\ pushed = {} /\ lost = {}
  /\ remote = [b \in Refs |-> IF b = Main THEN Commits(0, <<>>)
                              ELSE IF b \in OpenPulls THEN Commits(0, <<Human>>)
                              ELSE None]
  /\ pulls = OpenPulls
  /\ cache \in {"absent", "tracking"}
  /\ heads \in {[b \in Refs |-> None],
                [b \in Refs |-> IF b = Main THEN remote[b] ELSE None],
                remote}
  /\ (cache = "absent") <=> (heads[Main] = None)
  /\ tracking = [b \in Refs |-> None]
  /\ upstream = {} /\ registered = {} /\ trees = {}
  /\ edited = {} /\ added = {}

Go(r, from, to) == pc[r] = from /\ pc' = [pc EXCEPT ![r] = to]

End(r, from, how) ==
  /\ Go(r, from, "dead")
  /\ outcome' = [outcome EXCEPT ![r] = how]
  /\ UNCHANGED target

-----------------------------------------------------------------------------
(* trigger_agent_run and the runner's own lookup of the Task.              *)

\* POST runs: the Task of the issue is read, or is to be inserted.
Trigger(r) ==
  /\ r \notin Fixers
  /\ Go(r, "idle", IF Key(r) \in tasks THEN "spawned" ELSE "posting")
  /\ UNCHANGED <<outcome, target, loop, db, policy, ledger, bare, dirty, github>>

\* The Task is inserted and committed, the process is spawned.
TriggerInsert(r) ==
  /\ Go(r, "posting", "spawned")
  /\ Key(r) \notin tasks
  /\ tasks' = tasks \cup {Key(r)}
  /\ UNCHANGED <<outcome, target, loop, prUrl, manifest, policy, ledger, bare, dirty,
                 github>>

\* The UNIQUE key refuses the slower of two triggers: a 500, no process.
TriggerRefused(r) ==
  /\ Key(r) \in tasks
  /\ End(r, "posting", "refused")
  /\ UNCHANGED <<loop, db, policy, ledger, bare, dirty, github>>

\* The command line starts the process directly.
CommandLine(r) ==
  /\ r \notin Fixers
  /\ Go(r, "idle", "spawned")
  /\ UNCHANGED <<outcome, target, loop, db, policy, ledger, bare, dirty, github>>

\* run_dev_address_review: the branch of the pull request, from GitHub.
AddressReview(r, b) ==
  /\ r \in Fixers
  /\ b \in pulls
  /\ Go(r, "idle", "spawned")
  /\ target' = [target EXCEPT ![r] = b]
  /\ UNCHANGED <<outcome, loop, db, policy, ledger, bare, dirty, github>>

Started(r) == IF r \in Workspace THEN "checkout" ELSE "model"

\* _resolve_identities, and the SELECT of _ensure_task.
FindTask(r) ==
  /\ Go(r, "spawned", IF Key(r) \in tasks THEN Started(r) ELSE "inserting")
  /\ UNCHANGED <<outcome, target, loop, db, policy, ledger, bare, dirty, github>>

InsertTask(r) ==
  /\ Go(r, "inserting", Started(r))
  /\ Key(r) \notin tasks
  /\ tasks' = tasks \cup {Key(r)}
  /\ UNCHANGED <<outcome, target, loop, prUrl, manifest, policy, ledger, bare, dirty,
                 github>>

InsertRefused(r) ==
  /\ Key(r) \in tasks
  /\ End(r, "inserting", "refused")
  /\ UNCHANGED <<loop, db, policy, ledger, bare, dirty, github>>

-----------------------------------------------------------------------------
(* GitWorktreeManager.checkout_for_task.                                   *)

\* _ensure_bare: clone every branch, or fetch where the refspec says.
EnsureBare ==
  /\ cache' = IF cache = "absent" THEN "plain" ELSE cache
  /\ tracking' = IF cache = "tracking" THEN remote ELSE tracking

Cloned == IF cache = "absent" THEN remote ELSE heads

\* mutant: the registry is not pruned before the worktree is added
NotPruned == registered

\* worktree prune: the entries whose directory is gone are forgotten
Pruned == registered \cap trees

Busy(b) == \E r \in Pruned : BranchOf(r) = b

AddTree(r) ==
  /\ registered' = Pruned \cup {r}
  /\ trees' = trees \cup {r}

\* worktree add -b from the local main of the bare clone.
CheckoutNew(r) ==
  /\ r \in Devs
  /\ Go(r, "checkout", "model")
  /\ EnsureBare
  /\ heads' = [Cloned EXCEPT ![r] = Cloned[Main]]
  /\ AddTree(r)
  /\ UNCHANGED <<outcome, target, loop, db, policy, ledger, upstream, dirty, github>>

\* mutant: worktree add -B, which resets the branch to what GitHub has
ResetHead(h, b) == remote[b]

\* An existing local branch is taken as it is, a missing one tracks origin.
LocalHead(h, b) == IF h[b] # None THEN h[b] ELSE remote[b]

CheckoutExisting(r) ==
  /\ r \in Fixers
  /\ Go(r, "checkout", "model")
  /\ ~Busy(target[r])
  /\ Cloned[target[r]] # None \/ cache = "tracking"
  /\ EnsureBare
  /\ heads' = [Cloned EXCEPT ![target[r]] = LocalHead(Cloned, target[r])]
  /\ upstream' = IF Cloned[target[r]] = None THEN upstream \cup {target[r]}
                                              ELSE upstream
  /\ AddTree(r)
  /\ UNCHANGED <<outcome, target, loop, db, policy, ledger, dirty, github>>

\* worktree add fails: the branch is checked out in another worktree.
CheckoutBusy(r) ==
  /\ r \in Fixers
  /\ End(r, "checkout", "busy")
  /\ Busy(target[r])
  /\ EnsureBare
  /\ heads' = Cloned
  /\ registered' = Pruned
  /\ UNCHANGED <<loop, db, policy, ledger, upstream, trees, dirty, github>>

\* The token is missing, or the clone or the fetch fails.
CheckoutError(r) ==
  /\ Faults
  /\ End(r, "checkout", "error")
  /\ UNCHANGED <<loop, db, policy, ledger, bare, dirty, github>>

-----------------------------------------------------------------------------
(* AgentRunner.run.                                                        *)

Flush(r) == unsaved' = unsaved \cup {r} /\ UNCHANGED record

\* The transaction is committed.
Settle(r) ==
  /\ unsaved' = unsaved \ {r}
  /\ pushed' = pushed \ {r}
  /\ UNCHANGED lost

\* It is rolled back: what is on GitHub by then stays there.
RollBack(r) ==
  /\ unsaved' = unsaved \ {r}
  /\ pushed' = pushed \ {r}
  /\ lost' = lost \cup ({r} \cap pushed)

\* A write outside the database, with what is not committed by then.
Expose(r) == exposed' = exposed \cup ({r} \cap unsaved)

\* mutant: a turn is not counted
SameTurn(r) == turn' = turn

NextTurn(r) == turn' = [turn EXCEPT ![r] = @ + 1]

\* The model answers with tool_use; the cost of the call is flushed.
ModelAsks(r) ==
  /\ Go(r, "model", "tools")
  /\ turn[r] < MaxTurns
  /\ NextTurn(r)
  /\ blocks' = [blocks EXCEPT ![r] = 0]
  /\ Flush(r)
  /\ UNCHANGED <<outcome, target, accepted, db, policy, exposed, bare, dirty,
                 github>>

\* end_turn, or a stop reason the loop does not know: the run is over.
ModelStops(r) ==
  /\ Go(r, "model", "closing")
  /\ turn[r] < MaxTurns
  /\ NextTurn(r)
  /\ outcome' = [outcome EXCEPT ![r] = "stopped"]
  /\ Flush(r)
  /\ UNCHANGED <<target, blocks, accepted, db, policy, exposed, bare, dirty,
                 github>>

\* complete raises: session_scope rolls back what is not committed.
ModelError(r) ==
  /\ Faults
  /\ End(r, "model", "error")
  /\ RollBack(r)
  /\ UNCHANGED <<loop, db, policy, exposed, bare, dirty, github>>

\* The blocks of the turn are all dispatched.
EndTurn(r) ==
  /\ pc[r] = "tools"
  /\ \/ /\ r \in accepted
        /\ Go(r, "tools", "closing")
        /\ outcome' = [outcome EXCEPT ![r] = "completed"]
     \/ /\ r \notin accepted
        /\ turn[r] < MaxTurns
        /\ Go(r, "tools", "model")
        /\ UNCHANGED outcome
     \/ /\ r \notin accepted
        /\ turn[r] = MaxTurns
        /\ Go(r, "tools", "closing")
        /\ outcome' = [outcome EXCEPT ![r] = "exhausted"]
  /\ UNCHANGED <<target, loop, db, policy, ledger, bare, dirty, github>>

\* One more block of the turn, after which the loop goes on at "to".
Block(r, to) ==
  /\ Go(r, "tools", to)
  /\ blocks[r] < MaxBlocks
  /\ blocks' = [blocks EXCEPT ![r] = @ + 1]
  /\ UNCHANGED <<outcome, target, turn>>

-----------------------------------------------------------------------------
(* ManifestEnforcer, and the tools that change something.                  *)

\* What each runner registers, of these tools.
DevTools == {"edit_file", "create_file", "git_commit", "git_push", "github_create_pr",
             "jira", "run_repo_check"}
FixerTools == {"edit_file", "create_file", "git_commit", "git_push",
               "github_get_review_comments", "run_repo_check"}
DeskTools == {"github_get_pr", "github_review_pr", "jira"}

Offered(r, tool) ==
  tool \in IF r \in Devs THEN DevTools ELSE IF r \in Fixers THEN FixerTools ELSE DeskTools

\* mutant: the manifest is read at every decision
CurrentPolicy(r) == manifest

\* _load_manifest reads it once.
Policy(r) == IF loaded[r] = "unread" THEN manifest ELSE loaded[r]

Allowed(r, resource) == <<Policy(r), resource>> \in Grants

\* check_*: the manifest is loaded, the decision follows it.
Decide(r) ==
  /\ loaded' = [loaded EXCEPT ![r] = Policy(r)]
  /\ decided' = [decided EXCEPT ![r] = @ \cup {Policy(r)}]

\* authorize: the attempt is added and flushed.
Authorize(r) == Decide(r) /\ Flush(r)

\* The worktrees with such a change, when a tool may write or fail to.
Touched(r, files) ==
  IF Allowed(r, "repo") THEN {files, files \cup {r}} ELSE {files}

\* edit_file: refused by the manifest, impossible, or written.
EditFile(r) ==
  /\ Offered(r, "edit_file")
  /\ Block(r, "tools")
  /\ Authorize(r)
  /\ edited' \in Touched(r, edited)
  /\ UNCHANGED <<accepted, db, exposed, bare, added, github>>

\* create_file
CreateFile(r) ==
  /\ Offered(r, "create_file")
  /\ Block(r, "tools")
  /\ Authorize(r)
  /\ added' \in Touched(r, added)
  /\ UNCHANGED <<accepted, db, exposed, bare, edited, github>>

\* run_repo_check: a command of the repository runs in the worktree, whatever
\* the manifest says, and may leave changed and new files behind.  That what it
\* starts comes to an end is assumed: past the timeout only the shell is killed.
RunCheck(r) ==
  /\ Offered(r, "run_repo_check")
  /\ Block(r, "tools")
  /\ edited' \in {edited, edited \cup {r}}
  /\ added' \in {added, added \cup {r}}
  /\ UNCHANGED <<accepted, db, policy, ledger, bare, github>>

Dirty == edited \cup added

\* git add -A, git commit: every change of the worktree.
Commit(r) ==
  /\ Offered(r, "git_commit")
  /\ r \in Dirty
  /\ Block(r, "tools")
  /\ heads' = [heads EXCEPT ![BranchOf(r)].own = Append(@, r)]
  /\ edited' = edited \ {r}
  /\ added' = added \ {r}
  /\ UNCHANGED <<accepted, db, policy, ledger, cache, tracking, upstream,
                 registered, trees, github>>

\* git fetch origin, which only a fetch refspec turns into tracking refs.
Fetched == IF cache = "tracking" THEN remote ELSE tracking

\* rebase on origin/main
Rebased(h, main) ==
  IF h.base >= main.base THEN h ELSE Commits(main.base, h.own)

\* A changed file stops it, and a conflict may.
MayStop(r) ==
  LET h == heads[BranchOf(r)]
  IN  r \in edited \/ (h.own # <<>> /\ h.base < remote[Main].base)

\* origin/main is unknown, or the rebase stops: rebase_conflict.
PushConflict(r) ==
  /\ Offered(r, "git_push")
  /\ Block(r, "tools")
  /\ cache = "plain" \/ MayStop(r)
  /\ tracking' = Fetched
  /\ UNCHANGED <<accepted, db, policy, ledger, cache, heads, upstream,
                 registered, trees, dirty, github>>

\* mutant: git push --force
Forced(old, new) == TRUE

\* What GitHub takes: a new branch, or a fast-forward.
FastForward(old, new) == old # None => Ancestor(old, new)

\* git_push with set_upstream: the rebase stays whether GitHub takes it or not.
\* The tool does not commit the session: what is flushed stays flushed.
Push(r) ==
  LET b == BranchOf(r)
      h == Rebased(heads[b], remote[Main])
  IN  /\ Offered(r, "git_push")
      /\ r \notin edited
      /\ cache = "tracking"
      /\ Block(r, "tools")
      /\ heads' = [heads EXCEPT ![b] = h]
      /\ \/ /\ FastForward(remote[b], h)
            /\ remote' = [remote EXCEPT ![b] = h]
            /\ tracking' = [remote EXCEPT ![b] = h]
            /\ upstream' = upstream \cup {b}
            /\ pushed' = IF h = remote[b] THEN pushed ELSE pushed \cup ({r} \cap unsaved)
         \/ /\ ~FastForward(remote[b], h)
            /\ tracking' = remote
            /\ UNCHANGED <<remote, upstream, pushed>>
      /\ UNCHANGED <<accepted, db, policy, unsaved, exposed, lost, cache, registered,
                     trees, dirty, pulls>>

\* mutant: github_create_pr does not commit before it calls GitHub
NotSettled(r) == UNCHANGED <<unsaved, record>>

SettleBeforeCall(r) == Settle(r)

\* github_create_pr: the branch is on GitHub with nothing ahead of it, the
\* token is read and the session committed.
CheckPull(r) ==
  LET b == BranchOf(r)
  IN  /\ Offered(r, "github_create_pr")
      /\ cache = "tracking"
      /\ remote[b] # None
      /\ Ancestor(heads[b], remote[b])
      /\ Block(r, "opening")
      /\ tracking' = remote
      /\ SettleBeforeCall(r)
      /\ UNCHANGED <<accepted, db, policy, exposed, cache, heads, upstream,
                     registered, trees, dirty, github>>

\* The pull request is created and answered.
OpenPull(r) ==
  /\ BranchOf(r) \notin pulls
  /\ Go(r, "opening", "recording")
  /\ pulls' = pulls \cup {BranchOf(r)}
  /\ Expose(r)
  /\ UNCHANGED <<outcome, target, loop, db, policy, unsaved, record, bare, dirty, remote>>

\* The answer is an error: refused, or created and the answer lost, in which
\* case the retry on another address is told that it exists.
OpenPullError(r) ==
  /\ Go(r, "opening", "tools")
  /\ \/ UNCHANGED <<pulls, exposed>>
     \/ /\ Faults
        /\ BranchOf(r) \notin pulls
        /\ pulls' = pulls \cup {BranchOf(r)}
        /\ Expose(r)
  /\ UNCHANGED <<outcome, target, loop, db, policy, unsaved, record, bare, dirty, remote>>

\* Task.pr_url is set and committed.
RecordPull(r) ==
  /\ Go(r, "recording", "tools")
  /\ prUrl' = prUrl \cup {Key(r)}
  /\ Settle(r)
  /\ UNCHANGED <<outcome, target, loop, tasks, manifest, policy, exposed, bare,
                 dirty, github>>

\* Reads of GitHub: decided but not logged; the session is committed with the
\* date the token was read.
Consult(r) ==
  /\ Block(r, "tools")
  /\ Decide(r)
  /\ IF Allowed(r, "repo") THEN Settle(r) ELSE UNCHANGED <<unsaved, record>>
  /\ UNCHANGED <<accepted, db, exposed, bare, dirty, github>>

\* github_get_pr
ReadPull(r) == Offered(r, "github_get_pr") /\ Consult(r)

\* github_get_review_comments
ReadReview(r) == Offered(r, "github_get_review_comments") /\ Consult(r)

\* The review is posted, or the issue changed, with what is not committed by then.
Written(r) == exposed \cup ({r} \cap unsaved')

\* authorize adds and flushes an attempt; when it is allowed the token is read
\* and the session committed, then GitHub or Jira is called, or fails to be.
Act(r, resource) ==
  /\ Block(r, "tools")
  /\ Decide(r)
  /\ IF Allowed(r, resource) THEN SettleBeforeCall(r) ELSE Flush(r)
  /\ exposed' \in {exposed} \cup (IF Allowed(r, resource) THEN {Written(r)} ELSE {})
  /\ UNCHANGED <<accepted, db, bare, dirty, github>>

\* github_review_pr
Review(r) == Offered(r, "github_review_pr") /\ Act(r, "repo")

\* jira_update_status, jira_add_comment, jira_create_subtask
MoveIssue(r) == Offered(r, "jira") /\ Act(r, "project")

-----------------------------------------------------------------------------
(* signal_complete.                                                        *)

\* mutant: commits not pushed are not looked for
NothingDirty(r) == r \notin Dirty

\* _check_unpushed_work: a clean tree, an upstream, nothing ahead of it
Pushed(r) ==
  LET b == BranchOf(r)
  IN  /\ r \notin Dirty
      /\ b \in upstream
      /\ tracking[b] # None
      /\ Ancestor(heads[b], tracking[b])

\* _had_commits_on_branch
HadCommits(r) == heads[BranchOf(r)].own # <<>>

\* A URL in the deliverables stands for the pull request of the Task.
SignalComplete(r) ==
  /\ Block(r, "tools")
  /\ r \in Workspace =>
       /\ Pushed(r)
       /\ \E cited \in BOOLEAN : ~HadCommits(r) \/ cited \/ Key(r) \in prUrl
  /\ accepted' = accepted \cup {r}
  /\ UNCHANGED <<db, policy, ledger, bare, dirty, github>>

-----------------------------------------------------------------------------
(* The end of a run, and the rest of the world.                            *)

\* cleanup removes the directory and prunes another repository's registry.
Cleanup(r) ==
  /\ Go(r, "closing", "leaving")
  /\ trees' = trees \ {r}
  /\ edited' = edited \ {r}
  /\ added' = added \ {r}
  /\ UNCHANGED <<outcome, target, loop, db, policy, ledger, cache, heads, tracking,
                 upstream, registered, github>>

\* session_scope commits.
Leave(r) ==
  /\ Go(r, "leaving", "ended")
  /\ Settle(r)
  /\ UNCHANGED <<outcome, target, loop, db, policy, exposed, bare, dirty, github>>

Busily == {"spawned", "inserting", "checkout", "model", "tools", "opening",
           "recording", "closing", "leaving"}

\* The process dies: its worktree stays, its transaction is rolled back.
Crash(r) ==
  /\ Faults
  /\ \E at \in Busily : End(r, at, "crashed")
  /\ RollBack(r)
  /\ UNCHANGED <<loop, db, policy, exposed, bare, dirty, github>>

\* PUT manifest
PutManifest(m) ==
  /\ m # manifest
  /\ manifest' = m
  /\ UNCHANGED <<pc, outcome, target, loop, tasks, prUrl, policy, ledger, bare, dirty,
                 github>>

\* Someone else pushes to a branch.
HumanPush(b) ==
  /\ b \in Branches
  /\ remote[b] # None
  /\ Len(SelectSeq(remote[b].own, LAMBDA a : a = Human)) < MaxPushes + 1
  /\ remote' = [remote EXCEPT ![b].own = Append(@, Human)]
  /\ UNCHANGED <<pc, outcome, target, loop, db, policy, ledger, bare, dirty, pulls>>

\* Something is merged into main.
MainMoves ==
  /\ remote[Main].base < MaxPushes
  /\ remote' = [remote EXCEPT ![Main].base = @ + 1]
  /\ UNCHANGED <<pc, outcome, target, loop, db, policy, ledger, bare, dirty, pulls>>

Tools(r) ==
  \/ EditFile(r) \/ CreateFile(r) \/ RunCheck(r) \/ Commit(r) \/ PushConflict(r) \/ Push(r)
  \/ CheckPull(r) \/ OpenPull(r) \/ OpenPullError(r) \/ RecordPull(r)
  \/ ReadPull(r) \/ ReadReview(r) \/ Review(r) \/ MoveIssue(r) \/ SignalComplete(r)

\* The steps of a process that is running.
Run(r) ==
  \/ FindTask(r) \/ InsertTask(r) \/ InsertRefused(r)
  \/ CheckoutNew(r) \/ CheckoutExisting(r) \/ CheckoutBusy(r)
  \/ ModelAsks(r) \/ ModelStops(r) \/ EndTurn(r) \/ Tools(r)
  \/ Cleanup(r) \/ Leave(r)

Request(r) ==
  \/ Trigger(r) \/ TriggerInsert(r) \/ TriggerRefused(r) \/ CommandLine(r)
  \/ \E b \in Branches : AddressReview(r, b)

World ==
  \/ \E m \in Manifests : PutManifest(m)
  \/ \E b \in Branches : HumanPush(b)
  \/ MainMoves

Next ==
  \/ \E r \in Runs : Request(r) \/ Run(r)
  \/ \E r \in Runs : CheckoutError(r) \/ ModelError(r) \/ Crash(r)
  \/ World

Spec == Init /\ [][Next]_vars /\ \A r \in Runs : WF_vars(Run(r))

-----------------------------------------------------------------------------
(* Properties.                                                             *)

RefsType == [Refs -> BranchStates \cup {None}]

\* Every variable keeps its type.
TypeOK ==
  /\ pc \in [Runs -> {"idle", "posting", "dead", "ended"} \cup Busily]
  /\ target \in [Fixers -> Branches \cup {None}]
  /\ outcome \in [Runs -> {"none", "refused", "busy", "error", "crashed",
                           "stopped", "exhausted", "completed"}]
  /\ turn \in [Runs -> 0..MaxTurns] /\ blocks \in [Runs -> 0..MaxBlocks]
  /\ accepted \subseteq Runs
  /\ tasks \subseteq Issues /\ prUrl \subseteq Issues
  /\ manifest \in Manifests \cup {None}
  /\ loaded \in [Runs -> Manifests \cup {None, "unread"}]
  /\ decided \in [Runs -> SUBSET (Manifests \cup {None})]
  /\ unsaved \subseteq Runs /\ exposed \subseteq Runs
  /\ pushed \subseteq Runs /\ lost \subseteq Runs
  /\ cache \in {"absent", "plain", "tracking"}
  /\ heads \in RefsType /\ tracking \in RefsType /\ remote \in RefsType
  /\ upstream \subseteq Branches /\ pulls \subseteq Branches
  /\ registered \subseteq Workspace /\ trees \subseteq Workspace
  /\ Dirty \subseteq trees

\* A pull request, a review or a transition is asked of GitHub or Jira only when
\* every authorization and every model call that led to it is committed, those
\* of earlier pushes included.  git_push does not commit: its rows are saved by
\* the next commit, and no run that goes on or that comes to an end of its own
\* has lost them, only one whose process died or whose model call raised.
EffectsAudited ==
  /\ exposed = {}
  /\ pushed \subseteq unsaved
  /\ \A r \in lost : pc[r] = "dead" /\ outcome[r] \in {"crashed", "error"}

\* All the decisions of one run follow one manifest, whatever PUT manifest does
\* meanwhile: the enforcer reads it once.
OnePolicyPerRun ==
  \A r \in Runs : \A m, n \in decided[r] : m = n

\* A fixer works on the branch of a pull request, which GitHub has.
TargetsPulled ==
  /\ \A r \in Fixers : /\ pc[r] # "idle" => target[r] # None
                       /\ target[r] # None => target[r] \in pulls
  /\ \A b \in pulls : remote[b] # None

\* Nobody but the merge of a pull request moves main.
MainMerged == remote[Main] # None /\ remote[Main].own = <<>>

\* Nothing is in a clone that is not there; main is in one that is.
NothingCloned ==
  IF cache = "absent" THEN \A b \in Refs : heads[b] = None ELSE heads[Main] # None

\* The branch of a Dev is unknown to everyone before its checkout.
BeforeCheckout == {"idle", "posting", "spawned", "inserting", "checkout"}
BranchesFresh ==
  \A d \in Devs : pc[d] \in BeforeCheckout =>
    heads[d] = None /\ remote[d] = None /\ d \notin pulls

\* A run that works in a worktree has it, and the branch it is on.
InTree == {"model", "tools", "opening", "recording", "closing"}
TreesThere ==
  \A r \in Workspace : pc[r] \in InTree => r \in trees /\ heads[BranchOf(r)] # None

\* A run about to open a pull request has pushed and committed its session.
OpensSettled ==
  \A r \in Runs : /\ pc[r] \in {"opening", "recording"} => r \in Devs /\ remote[r] # None
                  /\ pc[r] = "opening" => r \notin unsaved

\* What was fetched last is what GitHub has or an ancestor of it.
TrackingBehind ==
  \A b \in Refs : tracking[b] # None =>
    remote[b] # None /\ Ancestor(tracking[b], remote[b])

\* The decisions of a run follow the manifest its enforcer has read.
PolicyRead ==
  \A r \in Runs : /\ decided[r] \subseteq {loaded[r]}
                  /\ loaded[r] = "unread" => decided[r] = {}

\* The inductive invariant of the runs: their types, the two properties above,
\* and what the steps rely on.
IInv ==
  /\ TypeOK /\ EffectsAudited /\ OnePolicyPerRun
  /\ TargetsPulled /\ MainMerged /\ NothingCloned /\ BranchesFresh /\ TreesThere
  /\ OpensSettled /\ TrackingBehind /\ PolicyRead

\* No commit on GitHub is ever lost: fixers start from local heads that may be
\* behind, rebase them and push, and git_push does not force.
RemoteKept ==
  [][\A b \in Refs : remote[b] # None => Ancestor(remote[b], remote'[b])]_vars

\* A commit a run made stays on its branch in the bare clone, pushed or not,
\* through rebases, refused pushes, crashes, and checkouts by later runs.
CommitsKept ==
  [][\A b \in Branches : heads[b] # None =>
       /\ heads'[b] # None
       /\ Len(heads[b].own) <= Len(heads'[b].own)
       /\ SubSeq(heads'[b].own, 1, Len(heads[b].own)) = heads[b].own]_vars

\* When signal_complete of a run with a workspace is accepted, nothing of its
\* branch is missing on GitHub: no change without a commit, no commit that is
\* only local, although what is compared is the last fetch.
AcceptedDelivered ==
  [][\A r \in (accepted' \ accepted) \cap Workspace :
       /\ r \notin Dirty
       /\ remote[BranchOf(r)] # None
       /\ Ancestor(heads[BranchOf(r)], remote[BranchOf(r)])]_vars

\* A fixer is turned away only while the worktree of another one still stands:
\* the entries that cleanup leaves in the registry block nobody.
EndedRunsBlockNobody ==
  [][\A r \in Fixers : outcome[r] # "busy" /\ outcome'[r] = "busy" =>
       \E s \in trees : BranchOf(s) = target[r]]_vars

\* A process that was started comes to an end: the turns are bounded.
EveryRunEnds ==
  \A r \in Runs : pc[r] \in Busily ~> pc[r] \in {"ended", "dead"}
=============================================================================
