------------------------- MODULE OnboardingAnalysis -------------------------
(***************************************************************************)
(* The onboarding analysis of one squad (onboarding/analyzer.py): requests *)
(* that start one, over a repository or greenfield, requests that cancel   *)
(* the latest, and the background task a start leaves behind, each in      *)
(* short transactions of its own on the analysis's Task row.               *)
(*                                                                         *)
(* A start creates at most one Task and one background task: both are      *)
(* named by it.  _oa_scan_with_grader_loop passes ManagedTaskSpec a field  *)
(* it does not have, and _count_greenfield_materials reads a column that   *)
(* rag_sources does not have: the stages after these two lines are never   *)
(* reached, and are not here.                                              *)
(*                                                                         *)
(* What every specification has begins with OA here, as the source names   *)
(* the steps of this analysis, so that one module can extend this one and  *)
(* another.                                                                *)
(***************************************************************************)
EXTENDS Naturals

CONSTANTS
  Starts,      \* POST run-onboarding-analysis, run-greenfield-analysis
  Cancels,     \* POST cancel-onboarding-analysis
  Greenfield,  \* the starts without a repository
  Workspaces,  \* values of clients.jira_workspace_url
  MayFail,     \* TRUE: processes may die, transactions and rmtree may fail
  Null         \* the null value

Requests == Starts \cup Cancels
ASSUME AnalysisConstants ==
  /\ Greenfield \subseteq Starts
  /\ Starts \cap Cancels = {}
  /\ MayFail \in BOOLEAN
  /\ Null \notin Starts

ProgressKeys == {"started_at", "total_files", "oa_iterations", "failed_at", "cancelled_at"}

VARIABLES
  workspace,  \* clients.jira_workspace_url, committed
  status,     \* tasks.status of the Task a start created, or "none"
  step,       \* tasks.current_step
  progress,   \* keys of tasks.scan_progress
  clones,     \* starts whose clone directory exists
  call,       \* the next step of a request, or its answer
  url,        \* the workspace a start read with the client
  born,       \* created_at of its Task: when its transaction began
  clock,
  chosen,     \* the Task a cancel read
  bg,         \* the next step of a background task
  seen        \* the scan_progress an open transaction has read

oaVars == <<workspace, status, step, progress, clones, call, url, born, clock,
          chosen, bg, seen>>
row == <<status, step, progress>>
request == <<call, url, born, clock, chosen>>

OAInit ==
  /\ workspace \in Workspaces
  /\ status   = [s \in Starts |-> "none"]
  /\ step     = [s \in Starts |-> "none"]
  /\ progress = [s \in Starts |-> {}]
  /\ clones   = {}
  /\ call     = [r \in Requests |-> "idle"]
  /\ url      = [s \in Starts |-> Null]
  /\ born     = [s \in Starts |-> 0]
  /\ clock    = 0
  /\ chosen   = [c \in Cancels |-> Null]
  /\ bg       = [s \in Starts |-> "none"]
  /\ seen     = [r \in Requests |-> {}]

Tasks == {s \in Starts : status[s] # "none"}
Active == {s \in Tasks : status[s] = "in_progress"}

\* ORDER BY created_at DESC LIMIT 1
Latest(T) == {s \in T : \A t \in T : born[t] <= born[s]}

Answer(r, from, to) == call[r] = from /\ call' = [call EXCEPT ![r] = to]

-----------------------------------------------------------------------------
(* start_analysis, start_greenfield_analysis.                              *)

\* The request authenticates: its transaction begins, the client is read.
Arrive(s) ==
  /\ Answer(s, "idle", "find")
  /\ url' = [url EXCEPT ![s] = workspace]
  /\ born' = [born EXCEPT ![s] = clock]
  /\ clock' = clock + 1
  /\ UNCHANGED <<workspace, row, clones, chosen, bg, seen>>

\* An active analysis is answered in place of a new one.
FindActive(s) ==
  /\ Answer(s, "find", IF Active # {} THEN "existing" ELSE "insert")
  /\ UNCHANGED <<workspace, row, clones, url, born, clock, chosen, bg, seen>>

\* mutant: only an active analysis occupies the key
ActiveKeyTaken(s) == \E t \in Active : url[t] = url[s]

\* the UNIQUE key of tasks: the workspace, and ONBOARDING-{squad.id}
KeyTaken(s) == \E t \in Tasks : url[t] = url[s]

\* Insert and commit the Task, leave the analysis to a background task.
InsertTask(s) ==
  /\ Answer(s, "insert", "started")
  /\ ~KeyTaken(s)
  /\ status' = [status EXCEPT ![s] = "in_progress"]
  /\ progress' = [progress EXCEPT ![s] = {"started_at"}]
  /\ bg' = [bg EXCEPT ![s] = IF s \in Greenfield THEN "indexing_materials" ELSE "cloning"]
  /\ UNCHANGED <<workspace, step, clones, url, born, clock, chosen, seen>>

\* The insertion violates the key: nothing catches the IntegrityError.
InsertRefused(s) ==
  /\ Answer(s, "insert", "refused")
  /\ KeyTaken(s)
  /\ UNCHANGED <<workspace, row, clones, url, born, clock, chosen, bg, seen>>

\* PATCH /clients/{id} gives the client another workspace.
MoveWorkspace(w) ==
  /\ w # workspace
  /\ workspace' = w
  /\ UNCHANGED <<row, clones, request, bg, seen>>

-----------------------------------------------------------------------------
(* cancel_analysis.                                                        *)

\* Read the latest Task of the squad; it is active.
ReadLatest(c) ==
  /\ Answer(c, "idle", "write")
  /\ \E s \in Latest(Tasks) :
       /\ status[s] = "in_progress"
       /\ chosen' = [chosen EXCEPT ![c] = s]
       /\ seen' = [seen EXCEPT ![c] = progress[s]]
  /\ UNCHANGED <<workspace, row, clones, url, born, clock, bg>>

\* It is closed: already_finished.
AlreadyFinished(c) ==
  /\ Answer(c, "idle", "already_finished")
  /\ \E s \in Latest(Tasks) : status[s] # "in_progress"
  /\ UNCHANGED <<workspace, row, clones, url, born, clock, chosen, bg, seen>>

\* There is none: 404.
NothingToCancel(c) ==
  /\ Answer(c, "idle", "not_found")
  /\ Tasks = {}
  /\ UNCHANGED <<workspace, row, clones, url, born, clock, chosen, bg, seen>>

\* mutant: the status is checked again, the other columns are written anyway
WriteUnlessClosed(c) ==
  /\ Answer(c, "write", "cancelled")
  /\ LET s == chosen[c] IN
       /\ status' = [status EXCEPT ![s] = IF @ = "in_progress" THEN "cancelled" ELSE @]
       /\ step' = [step EXCEPT ![s] = "cancelled"]
       /\ progress' = [progress EXCEPT ![s] = seen[c] \cup {"cancelled_at"}]
  /\ UNCHANGED <<workspace, clones, url, born, clock, chosen, bg, seen>>

\* Write the columns the request changed, whatever was written since.
WriteCancelled(c) ==
  /\ Answer(c, "write", "cancelled")
  /\ LET s == chosen[c] IN
       /\ status' = [status EXCEPT ![s] = "cancelled"]
       /\ step' = [step EXCEPT ![s] = "cancelled"]
       /\ progress' = [progress EXCEPT ![s] = seen[c] \cup {"cancelled_at"}]
  /\ UNCHANGED <<workspace, clones, url, born, clock, chosen, bg, seen>>

-----------------------------------------------------------------------------
(* _run_analysis_in_background, _run_greenfield_in_background.             *)

Proceed(s, from, to) == bg[s] = from /\ bg' = [bg EXCEPT ![s] = to]

\* the stages, as _update_step writes them, and the check that follows each
CheckAfter == [cloning |-> "check_clone", scanning |-> "check_scan",
               oa_scanning |-> "check_agent", indexing_materials |-> "check_count"]
\* what a check leads to; the agent's loop begins with a second one
WorkAfter == [check_clone |-> "clone", check_scan |-> "scan", check_agent |-> "check_loop",
              check_loop |-> "iterate", check_count |-> "count"]
\* what a transaction that has read scan_progress adds to it, and its sequel
Patches == [patch_scan |-> [key |-> "total_files", next |-> "oa_scanning"],
            patch_loop |-> [key |-> "oa_iterations", next |-> "agent"]]

\* _update_step writes current_step only.
UpdateStep(s) ==
  /\ bg[s] \in DOMAIN CheckAfter
  /\ step' = [step EXCEPT ![s] = bg[s]]
  /\ bg' = [bg EXCEPT ![s] = CheckAfter[bg[s]]]
  /\ UNCHANGED <<workspace, status, progress, clones, request, seen>>

\* _check_cancelled: the Task is not cancelled.
CheckPasses(s) ==
  /\ bg[s] \in DOMAIN WorkAfter
  /\ status[s] # "cancelled"
  /\ bg' = [bg EXCEPT ![s] = WorkAfter[bg[s]]]
  /\ UNCHANGED <<workspace, row, clones, request, seen>>

\* the finally clause, which greenfield does not have
Leave(s) == IF s \in Greenfield THEN "ended" ELSE "cleanup"

\* It is: return.
CheckStops(s) ==
  /\ bg[s] \in DOMAIN WorkAfter
  /\ status[s] = "cancelled"
  /\ bg' = [bg EXCEPT ![s] = Leave(s)]
  /\ UNCHANGED <<workspace, row, clones, request, seen>>

Clone(s) ==
  /\ Proceed(s, "clone", "scanning")
  /\ clones' = clones \cup {s}
  /\ UNCHANGED <<workspace, row, request, seen>>

\* CloneError, after which the directory may be there or not.
CloneFails(s) ==
  /\ Proceed(s, "clone", "fail")
  /\ clones' \in {clones, clones \cup {s}}
  /\ UNCHANGED <<workspace, row, request, seen>>

\* scan_filesystem, then the transaction of _patch_scan_progress reads.
Scan(s) ==
  /\ Proceed(s, "scan", "patch_scan")
  /\ seen' = [seen EXCEPT ![s] = progress[s]]
  /\ UNCHANGED <<workspace, row, clones, request>>

\* The same in the agent's loop, before its first iteration.
Iterate(s) ==
  /\ Proceed(s, "iterate", "patch_loop")
  /\ seen' = [seen EXCEPT ![s] = progress[s]]
  /\ UNCHANGED <<workspace, row, clones, request>>

\* mutant: the whole row is written as it was read
PatchRow(s) ==
  /\ bg[s] \in DOMAIN Patches
  /\ status' = [status EXCEPT ![s] = "in_progress"]
  /\ progress' = [progress EXCEPT ![s] = seen[s] \cup {Patches[bg[s]].key}]
  /\ bg' = [bg EXCEPT ![s] = Patches[bg[s]].next]
  /\ UNCHANGED <<workspace, step, clones, request, seen>>

\* Write the patched scan_progress.
Patch(s) ==
  /\ bg[s] \in DOMAIN Patches
  /\ progress' = [progress EXCEPT ![s] = seen[s] \cup {Patches[bg[s]].key}]
  /\ bg' = [bg EXCEPT ![s] = Patches[bg[s]].next]
  /\ UNCHANGED <<workspace, status, step, clones, request, seen>>

\* ManagedTaskSpec(initial_user_message=...), RagSource.squad_id: an exception.
Raise(s) ==
  /\ bg[s] \in {"agent", "count"}
  /\ bg' = [bg EXCEPT ![s] = "fail"]
  /\ UNCHANGED <<workspace, row, clones, request, seen>>

\* A transaction or the scan raises in the try block.
StageRaises(s) ==
  /\ MayFail
  /\ \/ bg[s] \in DOMAIN CheckAfter \cup DOMAIN WorkAfter \cup DOMAIN Patches
     \/ bg[s] \in {"scan", "iterate"}
  /\ bg' = [bg EXCEPT ![s] = "fail"]
  /\ UNCHANGED <<workspace, row, clones, request, seen>>

\* _mark_failed reads the Task.
ReadFailing(s) ==
  /\ Proceed(s, "fail", "mark_failed")
  /\ seen' = [seen EXCEPT ![s] = progress[s]]
  /\ UNCHANGED <<workspace, row, clones, request>>

\* And writes it, without looking at the status.
MarkFailed(s) ==
  /\ Proceed(s, "mark_failed", Leave(s))
  /\ status' = [status EXCEPT ![s] = "failed"]
  /\ step' = [step EXCEPT ![s] = "failed"]
  /\ progress' = [progress EXCEPT ![s] = seen[s] \cup {"failed_at"}]
  /\ UNCHANGED <<workspace, clones, request, seen>>

\* mutant: marking the failure is tried until the database answers
MarkFailedRetried(s) ==
  /\ MayFail
  /\ bg[s] \in {"fail", "mark_failed"}
  /\ bg' = [bg EXCEPT ![s] = "fail"]
  /\ UNCHANGED <<workspace, row, clones, request, seen>>

\* _mark_failed raises too, out of the handler: the finally clause remains.
MarkFailedRaises(s) ==
  /\ MayFail
  /\ bg[s] \in {"fail", "mark_failed"}
  /\ bg' = [bg EXCEPT ![s] = IF s \in Greenfield THEN "broken" ELSE "unmarked"]
  /\ UNCHANGED <<workspace, row, clones, request, seen>>

\* cleanup_clone.
Cleanup(s) ==
  /\ bg[s] \in {"cleanup", "unmarked"}
  /\ clones' = clones \ {s}
  /\ bg' = [bg EXCEPT ![s] = IF @ = "cleanup" THEN "ended" ELSE "broken"]
  /\ UNCHANGED <<workspace, row, request, seen>>

\* rmtree fails: a warning is logged.
CleanupFails(s) ==
  /\ MayFail
  /\ bg[s] \in {"cleanup", "unmarked"}
  /\ bg' = [bg EXCEPT ![s] = "broken"]
  /\ UNCHANGED <<workspace, row, clones, request, seen>>

-----------------------------------------------------------------------------
Stopped == {"ended", "broken", "dead"}

\* The process stops: killed, or shut down, when the finally clause still runs.
Die(s) ==
  /\ MayFail
  /\ bg[s] \notin Stopped \cup {"none"}
  /\ bg' = [bg EXCEPT ![s] = "dead"]
  /\ clones' \in {clones, clones \ {s}}
  /\ UNCHANGED <<workspace, row, request, seen>>

\* A request dies, or its transaction fails.
AbortRequest(r) ==
  /\ MayFail
  /\ call[r] \in {"find", "insert", "write"}
  /\ call' = [call EXCEPT ![r] = "aborted"]
  /\ UNCHANGED <<workspace, row, clones, url, born, clock, chosen, bg, seen>>

StartStep(s) == FindActive(s) \/ InsertTask(s) \/ InsertRefused(s)
ReadTask(c) == ReadLatest(c) \/ AlreadyFinished(c) \/ NothingToCancel(c)
Stage(s) ==
  \/ UpdateStep(s) \/ CheckPasses(s) \/ CheckStops(s)
  \/ Clone(s) \/ CloneFails(s) \/ Scan(s) \/ Iterate(s) \/ Patch(s) \/ Raise(s)
Ending(s) == ReadFailing(s) \/ MarkFailed(s) \/ Cleanup(s)
Fault(s) == StageRaises(s) \/ MarkFailedRaises(s) \/ CleanupFails(s) \/ Die(s)

OANext ==
  \/ \E w \in Workspaces : MoveWorkspace(w)
  \/ \E s \in Starts : Arrive(s) \/ StartStep(s) \/ Stage(s) \/ Ending(s) \/ Fault(s)
  \/ \E c \in Cancels : ReadTask(c) \/ WriteCancelled(c)
  \/ \E r \in Requests : AbortRequest(r)

OASpec == OAInit /\ [][OANext]_oaVars

(* The event loop resumes what awaits: the clone has a timeout, Postgres   *)
(* answers or raises.  No request need arrive and nothing need fail.       *)
OAFairness ==
  /\ \A s \in Starts : WF_oaVars(StartStep(s)) /\ WF_oaVars(Stage(s) \/ Ending(s))
  /\ \A c \in Cancels : WF_oaVars(WriteCancelled(c))
OAFairSpec == OASpec /\ OAFairness

-----------------------------------------------------------------------------
\* Every variable keeps its type.
OATypeOK ==
  /\ workspace \in Workspaces
  /\ status \in [Starts -> {"none", "in_progress", "failed", "cancelled"}]
  /\ step \in [Starts -> {"none", "failed", "cancelled"} \cup DOMAIN CheckAfter]
  /\ progress \in [Starts -> SUBSET ProgressKeys]
  /\ clones \subseteq Starts
  /\ call \in [Requests -> {"idle", "find", "insert", "existing", "started", "refused", "write",
                         "already_finished", "not_found", "cancelled", "aborted"}]
  /\ url \in [Starts -> Workspaces \cup {Null}]
  /\ born \in [Starts -> Nat]
  /\ clock \in Nat
  /\ chosen \in [Cancels -> Starts \cup {Null}]
  /\ bg \in [Starts -> {"none", "clone", "scan", "iterate", "agent", "count", "fail",
                        "mark_failed", "cleanup", "unmarked"} \cup Stopped
                       \cup DOMAIN CheckAfter \cup DOMAIN WorkAfter \cup DOMAIN Patches]
  /\ seen \in [Requests -> SUBSET ProgressKeys]

-----------------------------------------------------------------------------
(* Safety.                                                                 *)

(* An analysis whose background task came to its end is closed, and its    *)
(* clone is gone: whatever a cancel overwrote or was overwritten by, no    *)
(* path out of the stages leaves the row active or the directory behind.   *)
EndedClosed ==
  \A s \in Starts : bg[s] = "ended" =>
    status[s] \in {"failed", "cancelled"} /\ s \notin clones

(* A FAILED analysis says so in every column: the step the client's screen *)
(* shows is "failed" and scan_progress has the failure, though cancels and *)
(* stages write the same columns in transactions that overlap.             *)
FailureTold ==
  \A s \in Starts : status[s] = "failed" => step[s] = "failed" /\ "failed_at" \in progress[s]

(* A cancel that was answered is not lost: no transaction that read the    *)
(* Task before it makes the Task active again.                             *)
CancelNotLost ==
  \A c \in Cancels : call[c] = "cancelled" => status[chosen[c]] \in {"failed", "cancelled"}

(* Analyses of one squad that are active together have different keys: of  *)
(* starts that both found the squad idle, the UNIQUE key lets one insert.  *)
OneRowPerKey == \A s, t \in Tasks : s # t => url[s] # url[t]

-----------------------------------------------------------------------------
(* Inductive invariant.                                                    *)

\* a row and its background task exist together, once a start was answered
RowAndTask ==
  \A s \in Starts :
    /\ status[s] = "none" <=> bg[s] = "none"
    /\ status[s] # "none" => call[s] = "started"
    /\ s \in clones => bg[s] # "none" /\ s \notin Greenfield

\* the repository stages are not greenfield's
GreenfieldStages ==
  \A s \in Greenfield :
    bg[s] \in {"none", "indexing_materials", "check_count", "count", "fail", "mark_failed"}
              \cup Stopped

\* a background task on its way out leaves a closed row, and a failed row
\* belongs to a background task that writes no more
ClosedBehind ==
  \A s \in Starts :
    /\ bg[s] \in {"cleanup", "ended"} => status[s] \in {"failed", "cancelled"}
    /\ status[s] = "failed" => bg[s] \in {"cleanup"} \cup Stopped

\* a cancel has a committed row in hand
CancelHasRow ==
  \A c \in Cancels : call[c] \in {"write", "cancelled"} =>
    chosen[c] \in Starts /\ status[chosen[c]] # "none"

OAInv ==
  /\ OATypeOK /\ RowAndTask /\ GreenfieldStages /\ ClosedBehind /\ CancelHasRow
  /\ EndedClosed /\ FailureTold /\ CancelNotLost /\ OneRowPerKey

-----------------------------------------------------------------------------
(* Liveness.                                                               *)

(* Every request that arrived is answered or dies, and every analysis that *)
(* was started stops, with a cancel or without.                            *)
EverythingEnds ==
  /\ \A s \in Starts : call[s] = "find" ~> call[s] \notin {"find", "insert"}
  /\ \A s \in Starts : bg[s] # "none" ~> bg[s] \in Stopped
  /\ \A c \in Cancels : call[c] = "write" ~> call[c] # "write"

=============================================================================
