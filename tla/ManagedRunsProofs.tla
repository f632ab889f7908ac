------------------------- MODULE ManagedRunsProofs -------------------------
(***************************************************************************)
(* Theorems about ManagedRuns for every set of runs, issues, clients,      *)
(* agents and templates, every bound on threads, with and without faults.  *)
(***************************************************************************)
EXTENDS ManagedRuns, WellFoundedInduction, NaturalsInduction, TLAPS

(* A stored outcome is one of the values of the column.                    *)
LEMMA StoredOutcomeType ==
  ASSUME TypeOK, NEW r \in Runs
  PROVE  StoredOutcome(r) \in Outcomes
BY DEF TypeOK, StoredOutcome, Outcomes, Results, Verdicts

(* A stream of at most MaxThreads events names thread ids of its run.      *)
LEMMA StreamType ==
  ASSUME NEW th \in Streams, NEW k \in DOMAIN th
  PROVE  k \in 1..MaxThreads /\ th[k] \in 1..MaxThreads
BY RunConstants DEF Streams

(* Writing one column of the Task row of an issue keeps the table typed.   *)
LEMMA TaskUpdateType ==
  ASSUME TypeOK, NEW i \in Issues, tasks[i] # None
  PROVE  /\ \A a \in Agents :
              [tasks EXCEPT ![i].agent = a] \in [Issues -> TaskRows \cup {None}]
         /\ \A s \in Runs :
              [tasks EXCEPT ![i].session = s] \in [Issues -> TaskRows \cup {None}]
         /\ \A o \in Outcomes :
              [tasks EXCEPT ![i].outcome = o] \in [Issues -> TaskRows \cup {None}]
<1>1. tasks[i] \in TaskRows
  BY DEF TypeOK
<1> QED
  BY <1>1 DEF TypeOK, TaskRows

(* An updated row is still a row.                                          *)
LEMMA UpdatedTaskStays ==
  ASSUME TypeOK, NEW i \in Issues
  PROVE  \A j \in Issues : tasks[j] # None =>
           /\ \A a \in Agents : [tasks EXCEPT ![i].agent = a][j] # None
           /\ \A s \in Runs : [tasks EXCEPT ![i].session = s][j] # None
           /\ \A o \in Outcomes : [tasks EXCEPT ![i].outcome = o][j] # None
<1> SUFFICES ASSUME NEW j \in Issues, tasks[j] # None
             PROVE  /\ \A a \in Agents : [tasks EXCEPT ![i].agent = a][j] # None
                    /\ \A s \in Runs : [tasks EXCEPT ![i].session = s][j] # None
                    /\ \A o \in Outcomes : [tasks EXCEPT ![i].outcome = o][j] # None
  OBVIOUS
<1>1. CASE i = j
  <2>1. tasks[i] \in TaskRows
    BY <1>1 DEF TypeOK
  <2>2. /\ \A a \in Agents : [tasks[i] EXCEPT !.agent = a] \in TaskRows
        /\ \A s \in Runs : [tasks[i] EXCEPT !.session = s] \in TaskRows
        /\ \A o \in Outcomes : [tasks[i] EXCEPT !.outcome = o] \in TaskRows
    BY <2>1 DEF TaskRows
  <2> QED
    BY <1>1, <2>2, RunConstants DEF TypeOK
<1>2. CASE i # j
  BY <1>2 DEF TypeOK
<1> QED
  BY <1>1, <1>2

(* Releasing the row locks of a run keeps both lock tables typed.          *)
LEMMA ReleaseType ==
  ASSUME TypeOK, NEW r \in Runs, ReleaseLocks(r)
  PROVE  /\ tplLock' \in [Templates -> Runs \cup {None}]
         /\ cliLock' \in [Clients -> Runs \cup {None}]
BY DEF TypeOK, ReleaseLocks

(* Every column written by a step has its type, given that the Task row    *)
(* exists when it is updated.                                              *)
LEMMA TypeStep == TypeOK /\ TaskExists /\ [Next]_vars => TypeOK'
<1> SUFFICES ASSUME TypeOK, TaskExists, [Next]_vars PROVE TypeOK'
  OBVIOUS
<1> USE DEF At, Goto, Steps
<1>0. CASE UNCHANGED vars
  BY <1>0 DEF TypeOK, vars, db, locks, cloud, local
<1>1. ASSUME NEW r \in Runs, ResolveClient(r) PROVE TypeOK'
  BY <1>1, RunConstants DEF ResolveClient, TypeOK, db, locks, cloud
<1>2. ASSUME NEW r \in Runs, ResolveTemplate(r) PROVE TypeOK'
  <2>1. agentId[Tpl(r)] \in Runs \cup {None}
    BY RunConstants DEF TypeOK, Tpl
  <2> QED
    BY <1>2, <2>1 DEF ResolveTemplate, TypeOK, db, locks, cloud
<1>3. ASSUME NEW r \in Runs, FindTask(r) PROVE TypeOK'
  <2>1. tasks[IssueOf[r]] # None => tasks[IssueOf[r]].agent \in Agents
    BY RunConstants DEF TypeOK, TaskRows
  <2> QED
    BY <1>3, <2>1 DEF FindTask, TypeOK, db, locks, cloud
<1>4. ASSUME NEW r \in Runs, ReassignTask(r) PROVE TypeOK'
  <2>1. tasks' \in [Issues -> TaskRows \cup {None}]
    <3>1. tasks[IssueOf[r]] # None /\ IssueOf[r] \in Issues /\ AgentOf[r] \in Agents
      BY <1>4, RunConstants DEF ReassignTask, TaskExists
    <3>2. [tasks EXCEPT ![IssueOf[r]].agent = AgentOf[r]] \in [Issues -> TaskRows \cup {None}]
      BY <3>1, TaskUpdateType
    <3> QED
      BY <1>4, <3>2 DEF ReassignTask, TypeOK
  <2> QED
    BY <1>4, <2>1 DEF ReassignTask, TypeOK, locks, cloud, local
<1>5. ASSUME NEW r \in Runs, InsertTask(r) PROVE TypeOK'
  <2>1. tasks' \in [Issues -> TaskRows \cup {None}]
    BY <1>5, RunConstants DEF InsertTask, TypeOK, TaskRows, Outcomes
  <2> QED
    BY <1>5, <2>1 DEF InsertTask, TypeOK, locks, cloud, local
<1>6. ASSUME NEW r \in Runs, InsertTaskConflict(r) PROVE TypeOK'
  BY <1>6 DEF InsertTaskConflict, TypeOK, db, locks, cloud, local
<1>7. ASSUME NEW r \in Runs, ReuseAgent(r) PROVE TypeOK'
  BY <1>7 DEF ReuseAgent, TypeOK, db, locks, cloud, local
<1>8. ASSUME NEW r \in Runs, CreateAgent(r) PROVE TypeOK'
  BY <1>8 DEF CreateAgent, TypeOK, db, locks
<1>9. ASSUME NEW r \in Runs, FlushAgent(r) PROVE TypeOK'
  BY <1>9, RunConstants DEF FlushAgent, Tpl, TypeOK, db, cloud, local
<1>10. ASSUME NEW r \in Runs, ReuseEnvironment(r) PROVE TypeOK'
  BY <1>10 DEF ReuseEnvironment, TypeOK, db, locks, cloud, local
<1>11. ASSUME NEW r \in Runs, CreateEnvironment(r) PROVE TypeOK'
  BY <1>11 DEF CreateEnvironment, TypeOK, db, locks
<1>12. ASSUME NEW r \in Runs, FlushEnvironment(r) PROVE TypeOK'
  BY <1>12, RunConstants DEF FlushEnvironment, TypeOK, db, cloud, local
<1>13. ASSUME NEW r \in Runs, CreateSession(r) PROVE TypeOK'
  BY <1>13 DEF CreateSession, TypeOK, db, locks, local
<1>14. ASSUME NEW r \in Runs, CommitSetup(r) PROVE TypeOK'
  <2>1. tasks' \in [Issues -> TaskRows \cup {None}]
    <3>1. tasks[IssueOf[r]] # None /\ IssueOf[r] \in Issues
      BY <1>14, RunConstants DEF CommitSetup, TaskExists
    <3> QED
      BY <1>14, <3>1, TaskUpdateType DEF CommitSetup
  <2>2. /\ agentId' \in [Templates -> Runs \cup {None}]
        /\ envId' \in [Clients -> Runs \cup {None}]
    BY <1>14 DEF CommitSetup, TypeOK
  <2>3. /\ tplLock' \in [Templates -> Runs \cup {None}]
        /\ cliLock' \in [Clients -> Runs \cup {None}]
    BY <1>14, ReleaseType DEF CommitSetup
  <2> QED
    BY <1>14, <2>1, <2>2, <2>3 DEF CommitSetup, TypeOK, cloud, local
<1>15. ASSUME NEW r \in Runs, Stream(r) PROVE TypeOK'
  <2>1. result' \in [Runs -> Results]
    <3>1. PICK v \in Verdicts, th \in Streams :
             result' = [result EXCEPT ![r] = [@ EXCEPT !.verdict = v, !.threads = th]]
      BY <1>15 DEF Stream
    <3>2. [result[r] EXCEPT !.verdict = v, !.threads = th] \in Results
      <4>1. result[r] \in Results
        BY DEF TypeOK
      <4> QED
        BY <4>1 DEF Results
    <3> QED
      BY <3>1, <3>2 DEF TypeOK
  <2> QED
    BY <1>15, <2>1 DEF Stream, TypeOK, db, locks, cloud
<1>16. ASSUME NEW r \in Runs, StreamError(r) PROVE TypeOK'
  <2>1. result' \in [Runs -> Results]
    BY <1>16 DEF StreamError, TypeOK, Results
  <2> QED
    BY <1>16, <2>1 DEF StreamError, TypeOK, db, locks, cloud
<1>17. ASSUME NEW r \in Runs, Retrieve(r) PROVE TypeOK'
  <2>1. result' \in [Runs -> Results]
    <3>1. PICK u \in BOOLEAN, idle \in BOOLEAN :
             result' = [result EXCEPT ![r] = [@ EXCEPT !.usage = u, !.idle = idle]]
      BY <1>17 DEF Retrieve
    <3>2. [result[r] EXCEPT !.usage = u, !.idle = idle] \in Results
      <4>1. result[r] \in Results
        BY DEF TypeOK
      <4> QED
        BY <4>1 DEF Results
    <3> QED
      BY <3>1, <3>2 DEF TypeOK
  <2> QED
    BY <1>17, <2>1 DEF Retrieve, TypeOK, db, locks, cloud
<1>18. ASSUME NEW r \in Runs, Persist(r) PROVE TypeOK'
  <2>1. tasks' \in [Issues -> TaskRows \cup {None}]
    <3>1. tasks[IssueOf[r]] # None /\ IssueOf[r] \in Issues
      BY <1>18, RunConstants DEF Persist, TaskExists
    <3>2. [tasks EXCEPT ![IssueOf[r]].outcome = StoredOutcome(r)]
            \in [Issues -> TaskRows \cup {None}]
      BY <3>1, TaskUpdateType, StoredOutcomeType
    <3> QED
      BY <1>18, <3>2 DEF Persist, TypeOK
  <2>2. ASSUME NEW k \in NewChildren(r)
        PROVE  <<r, result[r].threads[k]>> \in ThreadIds
    BY StreamType DEF NewChildren, ThreadIds, TypeOK, Results
  <2>3. child' \in [Issues -> [1..MaxThreads -> ThreadIds \cup {None}]]
    <3>1. child \in [Issues -> [1..MaxThreads -> ThreadIds \cup {None}]]
      BY DEF TypeOK
    <3>2. [k \in 1..MaxThreads |-> IF k \in NewChildren(r)
              THEN <<r, result[r].threads[k]>> ELSE child[IssueOf[r]][k]]
            \in [1..MaxThreads -> ThreadIds \cup {None}]
      BY <2>2, <3>1, RunConstants
    <3> QED
      BY <1>18, <3>1, <3>2 DEF Persist
  <2>4. calls' \subseteq Runs
    BY <1>18 DEF Persist, TypeOK
  <2> QED
    BY <1>18, <2>1, <2>3, <2>4 DEF Persist, TypeOK, locks, cloud, local
<1>19. ASSUME NEW r \in Runs, PersistConflict(r) PROVE TypeOK'
  BY <1>19 DEF PersistConflict, TypeOK, db, locks, cloud, local
<1>20. ASSUME NEW r \in Runs, DeleteSession(r) PROVE TypeOK'
  BY <1>20 DEF DeleteSession, TypeOK, db, locks, local
<1>21. ASSUME NEW r \in Runs, DreamHook(r) PROVE TypeOK'
  BY <1>21 DEF DreamHook, TypeOK, locks, cloud
<1>22. ASSUME NEW r \in Runs, StartDream(r) PROVE TypeOK'
  BY <1>22 DEF StartDream, TypeOK, locks, cloud
<1>23. ASSUME NEW r \in Runs, FinishDream(r) PROVE TypeOK'
  BY <1>23 DEF FinishDream, TypeOK, locks, cloud
<1>24. ASSUME NEW r \in Runs, Raise(r) PROVE TypeOK'
  BY <1>24, ReleaseType DEF Raise, TypeOK, db, cloud, local
<1>25. ASSUME NEW r \in Runs, Crash(r) PROVE TypeOK'
  BY <1>25, ReleaseType DEF Crash, TypeOK, db, cloud
<1> QED
  BY <1>0, <1>1, <1>2, <1>3, <1>4, <1>5, <1>6, <1>7, <1>8, <1>9, <1>10, <1>11,
     <1>12, <1>13, <1>14, <1>15, <1>16, <1>17, <1>18, <1>19, <1>20, <1>21,
     <1>22, <1>23, <1>24, <1>25
  DEF Next, Proceed, EnsureTask, EnsureAgent, EnsureEnvironment, DreamTask

(* In the initial state every variable has its type.                       *)
LEMMA TypeInit == Init => TypeOK
<1> SUFFICES ASSUME Init PROVE TypeOK
  OBVIOUS
<1>1. NoResult \in Results
  <2>1. <<>> \in Streams
    BY RunConstants DEF Streams
  <2> QED
    BY <2>1 DEF NoResult, Results, Verdicts
<1> QED
  BY <1>1, RunConstants DEF Init, TypeOK, Steps

(* The row _ensure_task found or inserted is there for the rest of the run *)
(* and of every run on the same issue: no step removes a Task row.         *)
LEMMA TaskExistsStep == TypeOK /\ TaskExists /\ [Next]_vars => TaskExists'
<1> SUFFICES ASSUME TypeOK, TaskExists, [Next]_vars PROVE TaskExists'
  OBVIOUS
<1> USE DEF At, Goto, Steps
<1>1. CASE UNCHANGED vars
  BY <1>1 DEF TaskExists, vars, db, local
<1>2. ASSUME NEW r \in Runs, FindTask(r) PROVE TaskExists'
  BY <1>2 DEF FindTask, TaskExists, TypeOK, db
<1>3. ASSUME NEW r \in Runs, ReassignTask(r) PROVE TaskExists'
  <2>1. tasks' = tasks \/ tasks' = [tasks EXCEPT ![IssueOf[r]].agent = AgentOf[r]]
    BY <1>3 DEF ReassignTask
  <2>2. \A i \in Issues : tasks[i] # None => tasks'[i] # None
    BY <2>1, UpdatedTaskStays, RunConstants DEF TypeOK
  <2> QED
    BY <1>3, <2>2, RunConstants DEF ReassignTask, TaskExists, TypeOK, local
<1>4. ASSUME NEW r \in Runs, InsertTask(r) PROVE TaskExists'
  <2>1. [client |-> ClientOf[r], agent |-> AgentOf[r], session |-> None,
         outcome |-> "skipped"] \in TaskRows
    BY RunConstants DEF TaskRows, Outcomes
  <2>2. tasks'[IssueOf[r]] # None /\ \A i \in Issues : tasks[i] # None => tasks'[i] # None
    BY <1>4, <2>1, RunConstants DEF InsertTask, TypeOK
  <2> QED
    BY <1>4, <2>2, RunConstants DEF InsertTask, TaskExists, TypeOK, local
<1>5. ASSUME NEW r \in Runs, CommitSetup(r) PROVE TaskExists'
  <2>1. tasks' = [tasks EXCEPT ![IssueOf[r]].session = r]
    BY <1>5 DEF CommitSetup
  <2>2. \A i \in Issues : tasks[i] # None => tasks'[i] # None
    BY <2>1, UpdatedTaskStays, RunConstants DEF TypeOK
  <2> QED
    BY <1>5, <2>2, RunConstants DEF CommitSetup, TaskExists, TypeOK, local
<1>6. ASSUME NEW r \in Runs, Persist(r) PROVE TaskExists'
  <2>1. tasks' = tasks \/ tasks' = [tasks EXCEPT ![IssueOf[r]].outcome = StoredOutcome(r)]
    BY <1>6 DEF Persist
  <2>2. \A i \in Issues : tasks[i] # None => tasks'[i] # None
    BY <2>1, UpdatedTaskStays, StoredOutcomeType, RunConstants DEF TypeOK
  <2> QED
    BY <1>6, <2>2, RunConstants DEF Persist, TaskExists, TypeOK, local
<1>7. ASSUME NEW r \in Runs, ResolveClient(r) \/ ResolveTemplate(r) PROVE TaskExists'
  BY <1>7 DEF ResolveClient, ResolveTemplate, TaskExists, TypeOK, db
<1>8. ASSUME NEW r \in Runs, EnsureAgent(r) PROVE TaskExists'
  BY <1>8 DEF EnsureAgent, ReuseAgent, CreateAgent, FlushAgent, TaskExists, TypeOK, db, local
<1>9. ASSUME NEW r \in Runs, EnsureEnvironment(r) PROVE TaskExists'
  BY <1>9 DEF EnsureEnvironment, ReuseEnvironment, CreateEnvironment, FlushEnvironment,
              TaskExists, TypeOK, db, local
<1>10. ASSUME NEW r \in Runs, CreateSession(r) \/ DeleteSession(r) PROVE TaskExists'
  BY <1>10 DEF CreateSession, DeleteSession, TaskExists, TypeOK, db, local
<1>11. ASSUME NEW r \in Runs, Stream(r) \/ StreamError(r) \/ Retrieve(r)
       PROVE  TaskExists'
  BY <1>11 DEF Stream, StreamError, Retrieve, TaskExists, TypeOK, db
<1>12. ASSUME NEW r \in Runs, DreamHook(r) \/ DreamTask(r) PROVE TaskExists'
  BY <1>12 DEF DreamHook, DreamTask, StartDream, FinishDream, TaskExists, TypeOK
<1>13. ASSUME NEW r \in Runs,
              InsertTaskConflict(r) \/ PersistConflict(r) \/ Raise(r) \/ Crash(r)
       PROVE  TaskExists'
  BY <1>13 DEF InsertTaskConflict, PersistConflict, Raise, Crash, TaskExists, TypeOK, db, local
<1> QED
  BY <1>1, <1>2, <1>3, <1>4, <1>5, <1>6, <1>7, <1>8, <1>9, <1>10, <1>11, <1>12, <1>13
  DEF Next, Proceed, EnsureTask

(* Every variable of run_managed_task keeps its type: in particular no     *)
(* step updates a Task row that is not there.                              *)
THEOREM TypeCorrect == Spec => []TypeOK
<1>1. Init => TaskExists
  BY DEF Init, TaskExists
<1>2. QED
  BY <1>1, TypeInit, TypeStep, TaskExistsStep, PTL DEF Spec

-----------------------------------------------------------------------------
(* What the database shows of a run.                                       *)

\* what every step but the commit of the second session_scope leaves alone
LedgerKept ==
  /\ UNCHANGED <<calls, child>>
  /\ \A q \in Runs : /\ pc'[q] \in Persisted <=> pc[q] \in Persisted
                     /\ pc[q] \in Persisted => result'[q] = result[q]

(* Only Persist writes usage or child rows, and results of a persisted run *)
(* never change.                                                           *)
LEMMA OthersKeepLedger ==
  ASSUME TypeOK, [Next]_vars, \A r \in Runs : ~Persist(r)
  PROVE  LedgerKept
<1> USE DEF At, Goto, Steps, Persisted, LedgerKept
<1>1. CASE UNCHANGED vars
  BY <1>1 DEF vars, db, local
<1>2. ASSUME NEW r \in Runs, EnsureTask(r) PROVE LedgerKept
  BY <1>2 DEF EnsureTask, FindTask, ReassignTask, InsertTask, InsertTaskConflict,
              TypeOK, db, local
<1>3. ASSUME NEW r \in Runs, ResolveClient(r) \/ ResolveTemplate(r) PROVE LedgerKept
  BY <1>3 DEF ResolveClient, ResolveTemplate, TypeOK, db
<1>4. ASSUME NEW r \in Runs, EnsureAgent(r) PROVE LedgerKept
  BY <1>4 DEF EnsureAgent, ReuseAgent, CreateAgent, FlushAgent, TypeOK, db, local
<1>5. ASSUME NEW r \in Runs, EnsureEnvironment(r) PROVE LedgerKept
  BY <1>5 DEF EnsureEnvironment, ReuseEnvironment, CreateEnvironment, FlushEnvironment,
              TypeOK, db, local
<1>6. ASSUME NEW r \in Runs, CreateSession(r) \/ CommitSetup(r) \/ DeleteSession(r)
      PROVE  LedgerKept
  BY <1>6 DEF CreateSession, CommitSetup, DeleteSession, TypeOK, db, local
<1>7. ASSUME NEW r \in Runs, Stream(r) \/ StreamError(r) \/ Retrieve(r)
      PROVE  LedgerKept
  BY <1>7 DEF Stream, StreamError, Retrieve, TypeOK, db
<1>8. ASSUME NEW r \in Runs, DreamHook(r) \/ DreamTask(r) PROVE LedgerKept
  BY <1>8 DEF DreamHook, DreamTask, StartDream, FinishDream, TypeOK
<1>9. ASSUME NEW r \in Runs, PersistConflict(r) \/ Raise(r) \/ Crash(r)
      PROVE  LedgerKept
  BY <1>9 DEF PersistConflict, Raise, Crash, TypeOK, db, local
<1> QED
  BY <1>1, <1>2, <1>3, <1>4, <1>5, <1>6, <1>7, <1>8, <1>9 DEF Next, Proceed

(* Of the indices at which a stream reported one thread, some index is     *)
(* first.                                                                  *)
LEMMA FirstReport ==
  ASSUME NEW th \in Streams, NEW k \in DOMAIN th
  PROVE  \E f \in DOMAIN th : th[f] = th[k] /\ \A j \in 1..(f - 1) : th[j] # th[f]
<1> DEFINE S == {j \in DOMAIN th : th[j] = th[k]}
<1>1. S \subseteq Nat /\ S # {} /\ \A f \in S : \A j \in 1..(f - 1) : j \in DOMAIN th
  BY RunConstants DEF Streams
<1>2. PICK f \in S : \A j \in S : <<j, f>> \notin OpToRel(<, Nat)
  BY <1>1, NatLessThanWellFounded, WFMin, Zenon
<1>3. \A j \in S : ~(j < f)
  BY <1>1, <1>2 DEF OpToRel
<1>4. \A j \in 1..(f - 1) : th[j] # th[f]
  BY <1>1, <1>3
<1> QED
  BY <1>4

(* The commit of the second session_scope stores every reported thread,    *)
(* once, under keys that were free.                                        *)
LEMMA PersistStoresThreads ==
  ASSUME TypeOK, NEW r \in Runs, Persist(r)
  PROVE  /\ \A i \in Issues, k \in 1..MaxThreads :
              child[i][k] # None => child'[i][k] = child[i][k]
         /\ \A i \in Issues, k \in 1..MaxThreads :
              \/ child'[i][k] = child[i][k]
              \/ i = IssueOf[r] /\ child'[i][k] \in ReportedThreads(r)
         /\ \A k \in DOMAIN result[r].threads : \E j \in 1..MaxThreads :
              child'[IssueOf[r]][j] = <<r, result[r].threads[k]>>
<1> DEFINE th == result[r].threads
           i0 == IssueOf[r]
<1>1. th \in Streams /\ i0 \in Issues
  BY RunConstants DEF TypeOK, Results
<1>2. \A i \in Issues, k \in 1..MaxThreads :
        child'[i][k] = IF i = i0 /\ k \in NewChildren(r) THEN <<r, th[k]>> ELSE child[i][k]
  BY <1>1 DEF Persist, TypeOK
<1>3. \A k \in NewChildren(r) : k \in DOMAIN th /\ child[i0][k] = None
  BY DEF Persist, KeyTaken, NewChildren
<1>4. ASSUME NEW k \in DOMAIN th
      PROVE  \E j \in 1..MaxThreads : child'[i0][j] = <<r, th[k]>>
  <2>1. PICK f \in DOMAIN th : th[f] = th[k] /\ \A j \in 1..(f - 1) : th[j] # th[f]
    BY <1>1, <1>4, FirstReport
  <2>2. f \in 1..MaxThreads
    BY <1>1, <2>1, StreamType
  <2>3. CASE f \in NewChildren(r)
    BY <1>1, <1>2, <2>1, <2>2, <2>3
  <2>4. CASE f \notin NewChildren(r)
    <3>1. PICK j \in 1..MaxThreads : child[i0][j] = <<r, th[f]>>
      BY <2>1, <2>4 DEF NewChildren
    <3>2. j \notin NewChildren(r)
      <4>1. <<r, th[f]>> \in ThreadIds
        BY <1>1, <2>1, StreamType DEF ThreadIds
      <4> QED
        BY <1>3, <3>1, <4>1, RunConstants
    <3> QED
      BY <1>1, <1>2, <2>1, <3>1, <3>2
  <2> QED
    BY <2>3, <2>4
<1> QED
  BY <1>1, <1>2, <1>3, <1>4 DEF ReportedThreads

(* A child row holds a thread id or is absent.                             *)
LEMMA ChildType ==
  ASSUME TypeOK, NEW i \in Issues, NEW k \in 1..MaxThreads
  PROVE  child[i][k] \in ThreadIds \cup {None}
<1>1. child[i] \in [1..MaxThreads -> ThreadIds \cup {None}]
  BY DEF TypeOK
<1> QED
  BY <1>1

(* The three facts about stored rows are kept by every step.               *)
LEMMA LedgerStep ==
  ASSUME TypeOK, ChildOwned, ThreadsStored, CallsOwned, [Next]_vars
  PROVE  ChildOwned' /\ ThreadsStored' /\ CallsOwned'
<1> USE DEF ReportedThreads
<1>1. ASSUME NEW r \in Runs, Persist(r)
      PROVE  ChildOwned' /\ ThreadsStored' /\ CallsOwned'
  <2>1. /\ pc' = [pc EXCEPT ![r] = "delete"] /\ pc[r] = "persist"
        /\ result' = result
        /\ calls' = IF result[r].usage THEN calls \cup {r} ELSE calls
    BY <1>1 DEF Persist, At, Goto, local
  <2>2. /\ pc[r] \notin Persisted /\ pc'[r] \in Persisted
        /\ \A q \in Runs : q # r => pc'[q] = pc[q]
    BY <2>1 DEF TypeOK, Persisted
  <2>3. CallsOwned'
    BY <2>1, <2>2 DEF CallsOwned
  <2>4. ThreadsStored'
    <3> SUFFICES ASSUME NEW q \in Runs, pc'[q] \in Persisted, NEW k \in DOMAIN result[q].threads
                 PROVE  \E j \in 1..MaxThreads :
                          child'[IssueOf[q]][j] = <<q, result[q].threads[k]>>
      BY <2>1 DEF ThreadsStored
    <3>1. CASE q = r
      BY <1>1, <3>1, PersistStoresThreads
    <3>2. CASE q # r
      <4>1. PICK j \in 1..MaxThreads : child[IssueOf[q]][j] = <<q, result[q].threads[k]>>
        BY <2>2, <3>2 DEF ThreadsStored
      <4>2. <<q, result[q].threads[k]>> \in ThreadIds
        BY StreamType DEF ThreadIds, TypeOK, Results
      <4>3. child'[IssueOf[q]][j] = child[IssueOf[q]][j]
        BY <1>1, <4>1, <4>2, PersistStoresThreads, RunConstants
      <4> QED
        BY <4>1, <4>3
    <3> QED
      BY <3>1, <3>2
  <2>5. ChildOwned'
    <3> SUFFICES ASSUME NEW i \in Issues, NEW k \in 1..MaxThreads, child'[i][k] # None
                 PROVE  /\ IssueOf[child'[i][k][1]] = i
                        /\ pc'[child'[i][k][1]] \in Persisted
                        /\ child'[i][k] \in ReportedThreads(child'[i][k][1])
      BY <2>1 DEF ChildOwned
    <3>1. CASE child'[i][k] = child[i][k]
      <4>1. child[i][k] \in ThreadIds
        BY <3>1, ChildType
      <4>2. child[i][k][1] \in Runs
        BY <4>1 DEF ThreadIds
      <4> QED
        BY <2>2, <3>1, <4>2 DEF ChildOwned
    <3>2. CASE i = IssueOf[r] /\ child'[i][k] \in ReportedThreads(r)
      <4>1. child'[i][k][1] = r
        BY <3>2
      <4> QED
        BY <2>2, <3>2, <4>1
    <3> QED
      BY <1>1, <3>1, <3>2, PersistStoresThreads
  <2> QED
    BY <2>3, <2>4, <2>5
<1>2. ASSUME \A r \in Runs : ~Persist(r)
      PROVE  ChildOwned' /\ ThreadsStored' /\ CallsOwned'
  <2>1. LedgerKept
    BY <1>2, OthersKeepLedger
  <2>2. CallsOwned'
    BY <2>1 DEF CallsOwned, LedgerKept
  <2>3. ThreadsStored'
    BY <2>1 DEF ThreadsStored, LedgerKept
  <2>4. ChildOwned'
    <3> SUFFICES ASSUME NEW i \in Issues, NEW k \in 1..MaxThreads, child[i][k] # None
                 PROVE  /\ IssueOf[child[i][k][1]] = i
                        /\ pc'[child[i][k][1]] \in Persisted
                        /\ (child[i][k] \in ReportedThreads(child[i][k][1]))'
      BY <2>1 DEF ChildOwned, LedgerKept
    <3>1. child[i][k][1] \in Runs
      BY ChildType DEF ThreadIds
    <3> QED
      BY <2>1, <3>1 DEF ChildOwned, LedgerKept
  <2> QED
    BY <2>2, <2>3, <2>4
<1> QED
  BY <1>1, <1>2

(* Rows that carry the name of their run make the results of a run visible *)
(* as a whole.                                                             *)
LEMMA LedgerImpliesAllOrNothing ==
  ASSUME TypeOK, ChildOwned, ThreadsStored, CallsOwned
  PROVE  ResultsAllOrNothing
<1> SUFFICES ASSUME NEW r \in Runs
             PROVE  IF pc[r] \in Persisted
                      THEN /\ r \in calls <=> result[r].usage
                           /\ StoredThreads(r) = ReportedThreads(r)
                      ELSE r \notin calls /\ StoredThreads(r) = {}
  BY DEF ResultsAllOrNothing
<1>1. \A t \in StoredThreads(r) : pc[r] \in Persisted /\ t \in ReportedThreads(r)
  <2> SUFFICES ASSUME NEW t \in ThreadIds, t[1] = r,
                      NEW i \in Issues, NEW k \in 1..MaxThreads, child[i][k] = t
               PROVE  pc[r] \in Persisted /\ t \in ReportedThreads(r)
    BY DEF StoredThreads
  <2> QED
    BY RunConstants DEF ChildOwned
<1>2. pc[r] \in Persisted => ReportedThreads(r) \subseteq StoredThreads(r)
  <2> SUFFICES ASSUME pc[r] \in Persisted, NEW k \in DOMAIN result[r].threads
               PROVE  <<r, result[r].threads[k]>> \in StoredThreads(r)
    BY DEF ReportedThreads
  <2>1. <<r, result[r].threads[k]>> \in ThreadIds
    BY StreamType DEF ThreadIds, TypeOK, Results
  <2>2. IssueOf[r] \in Issues
    BY RunConstants
  <2> QED
    BY <2>1, <2>2 DEF ThreadsStored, StoredThreads
<1>3. CASE pc[r] \in Persisted
  <2>1. r \in calls <=> result[r].usage
    BY <1>3 DEF CallsOwned
  <2>2. StoredThreads(r) = ReportedThreads(r)
    BY <1>1, <1>2, <1>3
  <2> QED
    BY <1>3, <2>1, <2>2, Zenon
<1>4. CASE pc[r] \notin Persisted
  BY <1>1, <1>4 DEF CallsOwned
<1> QED
  BY <1>3, <1>4

-----------------------------------------------------------------------------
(* Row locks and cached ids.                                               *)

SetupInv ==
  FlushesOwnId /\ LockedForOwnId /\ LockHoldersAlive /\ CachedIdsCommitted

(* A step that takes and frees no lock, caches no id and does not move a   *)
(* lock holder away from its transaction keeps all of them.                *)
LEMMA SetupKept ==
  ASSUME TypeOK, SetupInv, NEW r \in Runs, NEW s \in Steps,
         UNCHANGED <<agentId, envId, tplLock, cliLock, agents, envs, fate>>,
         pc' = [pc EXCEPT ![r] = s], s \notin {"flushAgent", "flushEnv"},
         \/ pc[r] = "env" /\ s = "session"
         \/ pc[r] = "session" /\ s = "commit"
         \/ pc[r] \notin {"env", "flushEnv", "session", "commit"},
         pc[r] \in SetupDone => s \in SetupDone,
         pc[r] \notin {"idle", "template"} => UNCHANGED <<agentRef, envRef>>,
         \A q \in Runs : q # r => agentRef'[q] = agentRef[q] /\ envRef'[q] = envRef[q]
  PROVE  SetupInv'
<1> USE DEF TypeOK, SetupInv
<1>1. FlushesOwnId'
  BY DEF FlushesOwnId
<1>2. LockedForOwnId'
  BY DEF LockedForOwnId, LockHoldersAlive, Tpl
<1>3. LockHoldersAlive'
  BY DEF LockHoldersAlive
<1>4. CachedIdsCommitted'
  BY DEF CachedIdsCommitted, Tpl
<1> QED
  BY <1>1, <1>2, <1>3, <1>4

(* A run that fails or dies gives its locks back and keeps every cached id.*)
LEMMA SetupReleased ==
  ASSUME TypeOK, SetupInv, NEW r \in Runs, ReleaseLocks(r),
         UNCHANGED <<agentId, envId, agents, envs, pc, agentRef, envRef>>,
         \A q \in Runs : q # r => fate'[q] = fate[q]
  PROVE  SetupInv'
<1> USE DEF TypeOK, SetupInv, ReleaseLocks
<1>1. FlushesOwnId'
  BY DEF FlushesOwnId
<1>2. LockedForOwnId'
  BY RunConstants DEF LockedForOwnId, Tpl
<1>3. LockHoldersAlive'
  BY RunConstants DEF LockHoldersAlive
<1>4. CachedIdsCommitted'
  BY DEF CachedIdsCommitted, Tpl
<1> QED
  BY <1>1, <1>2, <1>3, <1>4

(* Every step keeps locks with live owners and cached ids committed.       *)
LEMMA SetupStep ==
  ASSUME TypeOK, SetupInv, [Next]_vars
  PROVE  SetupInv'
<1> USE DEF At, Goto
<1>1. CASE UNCHANGED vars
  BY <1>1 DEF SetupInv, FlushesOwnId, LockedForOwnId, LockHoldersAlive,
              CachedIdsCommitted, Tpl, vars, db, locks, cloud, local
<1>2. ASSUME NEW r \in Runs, ResolveClient(r) PROVE SetupInv'
  BY <1>2, SetupKept DEF ResolveClient, TypeOK, Steps, SetupDone, db, locks, cloud
<1>3. ASSUME NEW r \in Runs, ResolveTemplate(r) PROVE SetupInv'
  BY <1>3, SetupKept DEF ResolveTemplate, TypeOK, Steps, SetupDone, db, locks, cloud
<1>4. ASSUME NEW r \in Runs, FindTask(r) PROVE SetupInv'
  BY <1>4, SetupKept DEF FindTask, Steps, SetupDone, db, locks, cloud
<1>5. ASSUME NEW r \in Runs, ReassignTask(r) \/ InsertTask(r) PROVE SetupInv'
  BY <1>5, SetupKept DEF ReassignTask, InsertTask, Steps, SetupDone, locks, cloud, local
<1>6. ASSUME NEW r \in Runs, ReuseAgent(r) PROVE SetupInv'
  BY <1>6, SetupKept DEF ReuseAgent, Steps, SetupDone, db, locks, cloud, local
<1>7. ASSUME NEW r \in Runs, ReuseEnvironment(r) \/ CreateSession(r) PROVE SetupInv'
  BY <1>7, SetupKept
  DEF ReuseEnvironment, CreateSession, Steps, SetupDone, db, locks, cloud, local
<1>8. ASSUME NEW r \in Runs, Stream(r) \/ StreamError(r) \/ Retrieve(r) PROVE SetupInv'
  BY <1>8, SetupKept DEF Stream, StreamError, Retrieve, Steps, SetupDone, db, locks, cloud
<1>9. ASSUME NEW r \in Runs, Persist(r) \/ DeleteSession(r) \/ DreamHook(r)
      PROVE  SetupInv'
  BY <1>9, SetupKept
  DEF Persist, DeleteSession, DreamHook, Steps, SetupDone, db, locks, cloud, local
<1>10. ASSUME NEW r \in Runs, DreamTask(r) PROVE SetupInv'
  BY <1>10 DEF DreamTask, StartDream, FinishDream, SetupInv, FlushesOwnId, LockedForOwnId,
               LockHoldersAlive, CachedIdsCommitted, Tpl, locks, cloud
<1>11. ASSUME NEW r \in Runs, Raise(r) \/ Crash(r) PROVE SetupInv'
  BY <1>11, SetupReleased DEF Raise, Crash, TypeOK, db, cloud, local
<1>12. ASSUME NEW r \in Runs, InsertTaskConflict(r) \/ PersistConflict(r)
       PROVE  SetupInv'
  <2>1. ReleaseLocks(r)
    BY <1>12 DEF InsertTaskConflict, PersistConflict, ReleaseLocks, SetupInv,
                 LockHoldersAlive, TypeOK, locks
  <2> QED
    BY <1>12, <2>1, SetupReleased
    DEF InsertTaskConflict, PersistConflict, TypeOK, db, cloud, local
<1>13. ASSUME NEW r \in Runs, CreateAgent(r) PROVE SetupInv'
  <2> USE <1>13 DEF CreateAgent, TypeOK, SetupInv, db, locks
  <2>1. FlushesOwnId'
    BY DEF FlushesOwnId
  <2>2. LockedForOwnId'
    BY DEF LockedForOwnId, LockHoldersAlive, Tpl
  <2>3. LockHoldersAlive'
    BY DEF LockHoldersAlive
  <2>4. CachedIdsCommitted'
    BY DEF CachedIdsCommitted, SetupDone, Tpl
  <2> QED
    BY <2>1, <2>2, <2>3, <2>4
<1>14. ASSUME NEW r \in Runs, CreateEnvironment(r) PROVE SetupInv'
  <2> USE <1>14 DEF CreateEnvironment, TypeOK, SetupInv, db, locks
  <2>1. FlushesOwnId'
    BY DEF FlushesOwnId
  <2>2. LockedForOwnId'
    BY DEF LockedForOwnId, LockHoldersAlive, Tpl
  <2>3. LockHoldersAlive'
    BY DEF LockHoldersAlive
  <2>4. CachedIdsCommitted'
    BY DEF CachedIdsCommitted, SetupDone, Tpl
  <2> QED
    BY <2>1, <2>2, <2>3, <2>4
<1>15. ASSUME NEW r \in Runs, FlushAgent(r) PROVE SetupInv'
  <2> USE <1>15, RunConstants DEF FlushAgent, TypeOK, SetupInv, db, cloud, local
  <2>1. FlushesOwnId'
    BY DEF FlushesOwnId
  <2>2. LockedForOwnId'
    BY DEF LockedForOwnId, FlushesOwnId, Tpl
  <2>3. LockHoldersAlive'
    BY DEF LockHoldersAlive, Tpl
  <2>4. CachedIdsCommitted'
    BY DEF CachedIdsCommitted, SetupDone, Tpl
  <2> QED
    BY <2>1, <2>2, <2>3, <2>4
<1>16. ASSUME NEW r \in Runs, FlushEnvironment(r) PROVE SetupInv'
  <2> USE <1>16, RunConstants DEF FlushEnvironment, TypeOK, SetupInv, db, cloud, local
  <2>1. FlushesOwnId'
    BY DEF FlushesOwnId
  <2>2. LockedForOwnId'
    BY DEF LockedForOwnId, FlushesOwnId, Tpl
  <2>3. LockHoldersAlive'
    BY DEF LockHoldersAlive
  <2>4. CachedIdsCommitted'
    BY DEF CachedIdsCommitted, SetupDone, Tpl
  <2> QED
    BY <2>1, <2>2, <2>3, <2>4
<1>17. ASSUME NEW r \in Runs, CommitSetup(r) PROVE SetupInv'
  <2> USE <1>17, RunConstants DEF CommitSetup, ReleaseLocks, TypeOK, SetupInv, cloud, local
  <2>1. FlushesOwnId'
    BY DEF FlushesOwnId
  <2>2. LockedForOwnId'
    BY DEF LockedForOwnId, Tpl
  <2>3. LockHoldersAlive'
    BY DEF LockHoldersAlive
  <2>4. CachedIdsCommitted'
    BY DEF CachedIdsCommitted, LockedForOwnId, SetupDone, Tpl
  <2> QED
    BY <2>1, <2>2, <2>3, <2>4
<1> QED
  BY <1>1, <1>2, <1>3, <1>4, <1>5, <1>6, <1>7, <1>8, <1>9, <1>10, <1>11, <1>12,
     <1>13, <1>14, <1>15, <1>16, <1>17
  DEF Next, Proceed, EnsureTask, EnsureAgent, EnsureEnvironment

-----------------------------------------------------------------------------
(* Deletion and dreaming come last.                                        *)

(* Only a run past its second commit deletes its session or dreams, and    *)
(* its results are final by then.                                          *)
LEMMA LateStep ==
  ASSUME TypeOK, DeletedLate, DreamsLate, [Next]_vars
  PROVE  DeletedLate' /\ DreamsLate'
<1> USE DEF At, Goto, DeletedLate, DreamsLate, Completed
<1>1. CASE UNCHANGED vars
  BY <1>1 DEF vars, db, cloud, local
<1>2. ASSUME NEW r \in Runs, EnsureTask(r) PROVE DeletedLate' /\ DreamsLate'
  BY <1>2 DEF EnsureTask, FindTask, ReassignTask, InsertTask, InsertTaskConflict,
              TypeOK, db, cloud, local
<1>3. ASSUME NEW r \in Runs, ResolveClient(r) \/ ResolveTemplate(r)
      PROVE  DeletedLate' /\ DreamsLate'
  BY <1>3 DEF ResolveClient, ResolveTemplate, TypeOK, db, cloud
<1>4. ASSUME NEW r \in Runs, EnsureAgent(r) PROVE DeletedLate' /\ DreamsLate'
  BY <1>4 DEF EnsureAgent, ReuseAgent, CreateAgent, FlushAgent, TypeOK, db, cloud, local
<1>5. ASSUME NEW r \in Runs, EnsureEnvironment(r) PROVE DeletedLate' /\ DreamsLate'
  BY <1>5 DEF EnsureEnvironment, ReuseEnvironment, CreateEnvironment, FlushEnvironment,
              TypeOK, db, cloud, local
<1>6. ASSUME NEW r \in Runs, CreateSession(r) \/ CommitSetup(r)
      PROVE  DeletedLate' /\ DreamsLate'
  BY <1>6 DEF CreateSession, CommitSetup, TypeOK, db, cloud, local
<1>7. ASSUME NEW r \in Runs, Stream(r) \/ StreamError(r) \/ Retrieve(r)
      PROVE  DeletedLate' /\ DreamsLate'
  BY <1>7 DEF Stream, StreamError, Retrieve, TypeOK, db, cloud
<1>8. ASSUME NEW r \in Runs, Persist(r) PROVE DeletedLate' /\ DreamsLate'
  BY <1>8 DEF Persist, TypeOK, cloud, local
<1>9. ASSUME NEW r \in Runs, DeleteSession(r) PROVE DeletedLate' /\ DreamsLate'
  BY <1>9 DEF DeleteSession, TypeOK, db, local
<1>10. ASSUME NEW r \in Runs, DreamHook(r) PROVE DeletedLate' /\ DreamsLate'
  BY <1>10 DEF DreamHook, TypeOK, cloud
<1>11. ASSUME NEW r \in Runs, DreamTask(r) PROVE DeletedLate' /\ DreamsLate'
  BY <1>11 DEF DreamTask, StartDream, FinishDream, TypeOK, cloud
<1>12. ASSUME NEW r \in Runs, PersistConflict(r) \/ Raise(r)
       PROVE  DeletedLate' /\ DreamsLate'
  BY <1>12 DEF PersistConflict, Raise, TypeOK, db, cloud, local
<1>13. ASSUME NEW r \in Runs, Crash(r) PROVE DeletedLate' /\ DreamsLate'
  BY <1>13 DEF Crash, TypeOK, db, cloud
<1> QED
  BY <1>1, <1>2, <1>3, <1>4, <1>5, <1>6, <1>7, <1>8, <1>9, <1>10, <1>11, <1>12, <1>13
  DEF Next, Proceed

(* A run streams, retrieves and persists only after it opened a session,   *)
(* and no step takes the session object away again.                        *)
LEMMA SessionStep ==
  ASSUME TypeOK, SessionOpened, [Next]_vars
  PROVE  SessionOpened'
<1> USE DEF At, Goto, SessionOpened, SetupDone
<1>1. CASE UNCHANGED vars
  BY <1>1 DEF vars, cloud
<1>2. ASSUME NEW r \in Runs, EnsureTask(r) \/ ResolveClient(r) \/ ResolveTemplate(r)
      PROVE  SessionOpened'
  BY <1>2 DEF EnsureTask, FindTask, ReassignTask, InsertTask, InsertTaskConflict,
              ResolveClient, ResolveTemplate, TypeOK, cloud
<1>3. ASSUME NEW r \in Runs, EnsureAgent(r) \/ EnsureEnvironment(r) PROVE SessionOpened'
  BY <1>3 DEF EnsureAgent, ReuseAgent, CreateAgent, FlushAgent, EnsureEnvironment,
              ReuseEnvironment, CreateEnvironment, FlushEnvironment, TypeOK, cloud
<1>4. ASSUME NEW r \in Runs, CreateSession(r) PROVE SessionOpened'
  BY <1>4 DEF CreateSession, TypeOK
<1>5. ASSUME NEW r \in Runs, CommitSetup(r) \/ Stream(r) \/ StreamError(r) \/ Retrieve(r)
      PROVE  SessionOpened'
  BY <1>5 DEF CommitSetup, Stream, StreamError, Retrieve, TypeOK, cloud
<1>6. ASSUME NEW r \in Runs, Persist(r) \/ PersistConflict(r) PROVE SessionOpened'
  BY <1>6 DEF Persist, PersistConflict, TypeOK, cloud
<1>7. ASSUME NEW r \in Runs, DeleteSession(r) PROVE SessionOpened'
  BY <1>7 DEF DeleteSession, TypeOK
<1>8. ASSUME NEW r \in Runs, DreamHook(r) \/ DreamTask(r) \/ Raise(r) \/ Crash(r)
      PROVE  SessionOpened'
  BY <1>8 DEF DreamHook, DreamTask, StartDream, FinishDream, Raise, Crash, TypeOK, cloud
<1> QED
  BY <1>1, <1>2, <1>3, <1>4, <1>5, <1>6, <1>7, <1>8 DEF Next, Proceed

-----------------------------------------------------------------------------
(* The theorems.                                                           *)

(* IInv is an inductive invariant of run_managed_task.                     *)
THEOREM Inductive == Spec => []IInv
<1>1. Init => IInv
  <2> SUFFICES ASSUME Init PROVE IInv
    OBVIOUS
  <2>1. TaskExists /\ FlushesOwnId /\ LockedForOwnId /\ LockHoldersAlive /\ CachedIdsCommitted
    BY DEF Init, TaskExists, FlushesOwnId, LockedForOwnId, LockHoldersAlive,
           CachedIdsCommitted
  <2>2. ChildOwned /\ ThreadsStored /\ CallsOwned /\ SessionOpened /\ DeletedLate /\ DreamsLate
    BY DEF Init, ChildOwned, ThreadsStored, CallsOwned, SessionOpened, DeletedLate,
           DreamsLate, Persisted, SetupDone
  <2> QED
    BY <2>1, <2>2, TypeInit DEF IInv
<1>2. IInv /\ [Next]_vars => IInv'
  BY TypeStep, TaskExistsStep, SetupStep, LedgerStep, SessionStep, LateStep DEF IInv, SetupInv
<1>3. QED
  BY <1>1, <1>2, PTL DEF Spec

(* The database shows all of what a session reported, or nothing.          *)
THEOREM AllOrNothing == Spec => []ResultsAllOrNothing
<1>1. IInv => ResultsAllOrNothing
  BY LedgerImpliesAllOrNothing DEF IInv
<1>2. QED
  BY <1>1, Inductive, PTL

(* A session is deleted only when what it reported is committed.           *)
THEOREM AccountedFirst == Spec => []AccountedBeforeDeleted
<1>1. IInv => AccountedBeforeDeleted
  BY LedgerImpliesAllOrNothing
  DEF IInv, DeletedLate, AccountedBeforeDeleted, ResultsAllOrNothing, Persisted
<1>2. QED
  BY <1>1, Inductive, PTL

(* A dream job is registered only for a completed, accounted run.          *)
THEOREM DreamsLast == Spec => []DreamOnlyAfterSuccess
<1>1. IInv => DreamOnlyAfterSuccess
  BY LedgerImpliesAllOrNothing
  DEF IInv, DreamsLate, Completed, DreamOnlyAfterSuccess, ResultsAllOrNothing, Persisted
<1>2. QED
  BY <1>1, Inductive, PTL

(* Cached ids are committed ids, and locks have live owners.               *)
THEOREM CacheAndLocks == Spec => [](CachedIdsCommitted /\ LockHoldersAlive)
<1>1. IInv => CachedIdsCommitted /\ LockHoldersAlive
  BY DEF IInv
<1>2. QED
  BY <1>1, Inductive, PTL

(* No row lock outlives the run that holds it: every failure path leaves   *)
(* the session scope, and a dead process holds none.                       *)
THEOREM LocksReleased == Spec => []LockHoldersAlive
<1>1. QED
  BY CacheAndLocks, PTL

(* No step gives a stored child row to another thread.                     *)
THEOREM ChildRowsKept == Spec => ChildRowsStable
<1>1. IInv /\ [Next]_vars =>
        [\A i \in Issues, k \in 1..MaxThreads :
           child[i][k] # None => child'[i][k] = child[i][k]]_vars
  <2> SUFFICES ASSUME IInv, [Next]_vars
               PROVE  \A i \in Issues, k \in 1..MaxThreads :
                        child[i][k] # None => child'[i][k] = child[i][k]
    OBVIOUS
  <2>1. CASE \E r \in Runs : Persist(r)
    BY <2>1, PersistStoresThreads DEF IInv
  <2>2. CASE \A r \in Runs : ~Persist(r)
    BY <2>2, OthersKeepLedger DEF IInv, LedgerKept
  <2> QED
    BY <2>1, <2>2
<1>2. QED
  BY <1>1, Inductive, PTL DEF Spec, ChildRowsStable

-----------------------------------------------------------------------------
(* The outcome of a Task.                                                  *)

\* what every step but the commit of the second session_scope leaves alone
OutcomesKept ==
  \A i \in Issues : tasks'[i] # None /\ tasks'[i].outcome # "skipped" =>
    tasks[i] # None /\ tasks[i].outcome = tasks'[i].outcome

(* Only Persist writes an outcome: an inserted row starts as "skipped", and *)
(* the other updates are of other columns.                                 *)
LEMMA OthersKeepOutcomes ==
  ASSUME TypeOK, TaskExists, [Next]_vars, \A r \in Runs : ~Persist(r)
  PROVE  OutcomesKept
<1> USE DEF OutcomesKept
<1>1. ASSUME UNCHANGED tasks PROVE OutcomesKept
  BY <1>1
<1>2. ASSUME NEW r \in Runs, ReassignTask(r) PROVE OutcomesKept
  <2>1. tasks[IssueOf[r]] \in TaskRows /\ IssueOf[r] \in Issues
    BY <1>2, RunConstants DEF ReassignTask, TaskExists, TypeOK
  <2>2. tasks' = tasks \/ tasks' = [tasks EXCEPT ![IssueOf[r]].agent = AgentOf[r]]
    BY <1>2 DEF ReassignTask
  <2> QED
    BY <2>1, <2>2, RunConstants DEF TaskRows, TypeOK
<1>3. ASSUME NEW r \in Runs, InsertTask(r) PROVE OutcomesKept
  BY <1>3, RunConstants DEF InsertTask, TypeOK
<1>4. ASSUME NEW r \in Runs, CommitSetup(r) PROVE OutcomesKept
  <2>1. tasks[IssueOf[r]] \in TaskRows /\ IssueOf[r] \in Issues
    BY <1>4, RunConstants DEF CommitSetup, At, TaskExists, TypeOK
  <2>2. tasks' = [tasks EXCEPT ![IssueOf[r]].session = r]
    BY <1>4 DEF CommitSetup
  <2> QED
    BY <2>1, <2>2, RunConstants DEF TaskRows, TypeOK
<1>5. ASSUME NEW r \in Runs, EnsureTask(r) PROVE OutcomesKept
  BY <1>1, <1>2, <1>3, <1>5 DEF EnsureTask, FindTask, InsertTaskConflict, db
<1>6. ASSUME NEW r \in Runs, Proceed(r) PROVE OutcomesKept
  BY <1>1, <1>4, <1>5, <1>6
  DEF Proceed, ResolveTemplate, EnsureAgent, ReuseAgent, CreateAgent, FlushAgent,
      EnsureEnvironment, ReuseEnvironment, CreateEnvironment, FlushEnvironment,
      CreateSession, Stream, StreamError, Retrieve, PersistConflict, DeleteSession,
      DreamHook, db
<1> QED
  BY <1>1, <1>6 DEF Next, ResolveClient, DreamTask, StartDream, FinishDream, Raise, Crash,
                    vars, db

(* A run that is past its second commit keeps what its grader said.        *)
LEMMA OutcomeStep ==
  ASSUME TypeOK, TaskExists, OutcomeFromGrader, [Next]_vars
  PROVE  OutcomeFromGrader'
<1>1. ASSUME NEW r \in Runs, Persist(r) PROVE OutcomeFromGrader'
  <2> SUFFICES ASSUME NEW i \in Issues, tasks'[i] # None, tasks'[i].outcome # "skipped"
               PROVE  \E q \in HasOutcome : /\ IssueOf[q] = i
                                            /\ pc'[q] \in Persisted
                                            /\ StoredOutcome(q)' = tasks'[i].outcome
    BY DEF OutcomeFromGrader
  <2>1. /\ pc[r] = "persist" /\ pc' = [pc EXCEPT ![r] = "delete"] /\ result' = result
        /\ \A q \in Runs : StoredOutcome(q)' = StoredOutcome(q)
    BY <1>1 DEF Persist, At, Goto, local, StoredOutcome
  <2>2. \A q \in Runs : pc[q] \in Persisted => pc'[q] \in Persisted
    BY <2>1 DEF TypeOK, Persisted
  <2>3. CASE r \in HasOutcome /\ i = IssueOf[r]
    <3>1. tasks[i] \in TaskRows
      BY <1>1, <2>3 DEF Persist, At, TaskExists, TypeOK
    <3>2. tasks'[i].outcome = StoredOutcome(r)
      BY <1>1, <2>3, <3>1 DEF Persist, TaskRows, TypeOK
    <3>3. pc'[r] \in Persisted
      BY <2>1 DEF TypeOK, Persisted
    <3> QED
      BY <2>1, <2>3, <3>2, <3>3
  <2>4. CASE ~(r \in HasOutcome /\ i = IssueOf[r])
    <3>1. tasks'[i] = tasks[i]
      BY <1>1, <2>4 DEF Persist, TypeOK
    <3>2. PICK q \in HasOutcome : /\ IssueOf[q] = i
                                  /\ pc[q] \in Persisted
                                  /\ StoredOutcome(q) = tasks[i].outcome
      BY <3>1 DEF OutcomeFromGrader
    <3> QED
      BY <2>1, <2>2, <3>1, <3>2, RunConstants
  <2> QED
    BY <2>3, <2>4
<1>2. ASSUME \A r \in Runs : ~Persist(r) PROVE OutcomeFromGrader'
  <2>1. OutcomesKept /\ LedgerKept
    BY <1>2, OthersKeepOutcomes, OthersKeepLedger
  <2>2. \A q \in HasOutcome : pc[q] \in Persisted =>
          pc'[q] \in Persisted /\ StoredOutcome(q)' = StoredOutcome(q)
    BY <2>1, RunConstants DEF LedgerKept, StoredOutcome
  <2> QED
    BY <2>1, <2>2 DEF OutcomesKept, OutcomeFromGrader
<1> QED
  BY <1>1, <1>2

(* An outcome other than "skipped" on a Task is what the grader told some  *)
(* run with a rubric on that issue, whose second commit succeeded.         *)
THEOREM OutcomesGraded == Spec => []OutcomeFromGrader
<1>1. Init => OutcomeFromGrader
  BY DEF Init, OutcomeFromGrader
<1>2. IInv /\ OutcomeFromGrader /\ [Next]_vars => OutcomeFromGrader'
  BY OutcomeStep DEF IInv
<1>3. QED
  BY <1>1, <1>2, Inductive, PTL DEF Spec

-----------------------------------------------------------------------------
(* ManagedRuns implements RunLedger.                                       *)

\* what the database shows of a run is its report from the second commit on
ShownIsReport ==
  \A r \in Runs : Shown(r) = IF pc[r] \in Persisted THEN Reported(r)
                             ELSE [usage |-> FALSE, threads |-> {}]

\* how far a run is and what its session reported, as the ledger sees them
ViewKept(r) == Phase(r)' = Phase(r) /\ Reported(r)' = Reported(r)

(* The invariant makes the database a function of phase and report.        *)
LEMMA InvShown == IInv => ShownIsReport
<1> SUFFICES ASSUME IInv, NEW r \in Runs
             PROVE  Shown(r) = IF pc[r] \in Persisted THEN Reported(r)
                               ELSE [usage |-> FALSE, threads |-> {}]
  BY DEF ShownIsReport
<1>1. ResultsAllOrNothing
  BY LedgerImpliesAllOrNothing DEF IInv
<1>2. result[r].usage \in BOOLEAN
  BY DEF IInv, TypeOK, Results
<1>3. CASE pc[r] \in Persisted
  <2>1. (r \in calls) = result[r].usage /\ StoredThreads(r) = ReportedThreads(r)
    BY <1>1, <1>2, <1>3 DEF ResultsAllOrNothing
  <2> QED
    BY <1>3, <2>1 DEF Shown, Reported
<1>4. CASE pc[r] \notin Persisted
  <2>1. (r \in calls) = FALSE /\ StoredThreads(r) = {}
    BY <1>1, <1>4 DEF ResultsAllOrNothing
  <2> QED
    BY <1>4, <2>1 DEF Shown
<1> QED
  BY <1>3, <1>4

(* A step that keeps phase and report of a run keeps what is shown of it.  *)
LEMMA ShownKept ==
  ASSUME ShownIsReport, ShownIsReport', NEW r \in Runs, ViewKept(r)
  PROVE  Shown(r)' = Shown(r)
<1>1. pc'[r] \in Persisted <=> pc[r] \in Persisted
  BY DEF ViewKept, Phase, Persisted
<1> QED
  BY <1>1 DEF ShownIsReport, ViewKept

(* Phase and report are decided by the session, by the stage of the run    *)
(* and, from sessions.retrieve on, by its result.                          *)
LEMMA ViewDecided ==
  ASSUME NEW r \in Runs,
         session'[r] = session[r],
         pc'[r] \in Persisted <=> pc[r] \in Persisted,
         pc'[r] = "persist" <=> pc[r] = "persist",
         pc[r] \in Persisted \cup {"persist"} => result'[r] = result[r]
  PROVE  ViewKept(r)
<1>1. Phase(r)' = Phase(r)
  BY DEF Phase
<1>2. CASE pc[r] \in Persisted \cup {"persist"}
  <2>1. ReportedThreads(r)' = ReportedThreads(r)
    BY <1>2 DEF ReportedThreads
  <2> QED
    BY <1>1, <1>2, <2>1 DEF ViewKept, Reported
<1>3. CASE pc[r] \notin Persisted \cup {"persist"}
  BY <1>1, <1>3 DEF ViewKept, Reported
<1> QED
  BY <1>2, <1>3

\* the four steps of a run that the ledger sees
Visible(r) == CreateSession(r) \/ Retrieve(r) \/ Persist(r) \/ DeleteSession(r)

\* the session of every run, its stage and its result stay as they are
StageKept ==
  /\ session' = session
  /\ \A q \in Runs : /\ pc'[q] \in Persisted <=> pc[q] \in Persisted
                     /\ pc'[q] = "persist" <=> pc[q] = "persist"
                     /\ pc[q] \in Persisted \cup {"persist"} => result'[q] = result[q]

(* Every other step is invisible: what the stream told counts only once    *)
(* the session is retrieved.                                               *)
LEMMA OthersInvisible ==
  ASSUME TypeOK, [Next]_vars, \A r \in Runs : ~Visible(r)
  PROVE  StageKept
<1> USE DEF TypeOK, At, Goto, Persisted, StageKept
<1>1. CASE UNCHANGED vars
  BY <1>1 DEF vars, cloud, local
<1>2. ASSUME NEW r \in Runs, EnsureTask(r) PROVE StageKept
  BY <1>2 DEF EnsureTask, FindTask, ReassignTask, InsertTask, InsertTaskConflict, cloud, local
<1>3. ASSUME NEW r \in Runs, ResolveClient(r) \/ ResolveTemplate(r) PROVE StageKept
  BY <1>3 DEF ResolveClient, ResolveTemplate, cloud
<1>4. ASSUME NEW r \in Runs, EnsureAgent(r) PROVE StageKept
  BY <1>4 DEF EnsureAgent, ReuseAgent, CreateAgent, FlushAgent, cloud, local
<1>5. ASSUME NEW r \in Runs, EnsureEnvironment(r) PROVE StageKept
  BY <1>5 DEF EnsureEnvironment, ReuseEnvironment, CreateEnvironment, FlushEnvironment,
              cloud, local
<1>6. ASSUME NEW r \in Runs, CommitSetup(r) PROVE StageKept
  BY <1>6 DEF CommitSetup, cloud, local
<1>7. ASSUME NEW r \in Runs, Stream(r) \/ StreamError(r) PROVE StageKept
  BY <1>7 DEF Stream, StreamError, cloud
<1>8. ASSUME NEW r \in Runs, DreamHook(r) \/ DreamTask(r) PROVE StageKept
  BY <1>8 DEF DreamHook, DreamTask, StartDream, FinishDream, cloud
<1>9. ASSUME NEW r \in Runs, PersistConflict(r) \/ Raise(r) \/ Crash(r) PROVE StageKept
  BY <1>9 DEF PersistConflict, Raise, Crash, cloud, local
<1> QED
  BY <1>1, <1>2, <1>3, <1>4, <1>5, <1>6, <1>7, <1>8, <1>9 DEF Next, Proceed, Visible

(* In the initial state nothing is opened, reported or shown.              *)
LEMMA LedgerInit == Init => Ledger!Init
<1> SUFFICES ASSUME Init PROVE Ledger!Init
  OBVIOUS
<1>1. ASSUME NEW r \in Runs
      PROVE  /\ Phase(r) = "new"
             /\ Reported(r) = [usage |-> FALSE, threads |-> {}]
             /\ Shown(r) = [usage |-> FALSE, threads |-> {}]
  <2>1. pc[r] = "idle" /\ session[r] = "none" /\ r \notin calls
    BY DEF Init
  <2>2. StoredThreads(r) = {}
    BY RunConstants DEF Init, StoredThreads
  <2>3. (r \in calls) = FALSE
    BY <2>1
  <2> QED
    BY <2>1, <2>2, <2>3 DEF Phase, Reported, Shown, Persisted
<1>2. {r \in Runs : session[r] = "deleted"} = {}
  BY DEF Init
<1> QED
  BY <1>1, <1>2 DEF Ledger!Init, Ledger!Nothing

(* The step of one run that opens, reports, shows or closes its session.   *)
LEMMA VisibleSimulated ==
  ASSUME IInv, IInv', ShownIsReport, ShownIsReport', NEW r \in Runs, Visible(r)
  PROVE  Ledger!Next \/ UNCHANGED Ledger!vars
<1> DEFINE Gone == {q \in Runs : session[q] = "deleted"}
<1> USE DEF At, Goto
<1>1. /\ \A q \in Runs : q # r => ViewKept(q) /\ Shown(q)' = Shown(q)
      /\ \A q \in Runs : q # r => session'[q] = session[q]
  <2>1. ASSUME NEW q \in Runs, q # r
        PROVE  pc'[q] = pc[q] /\ result'[q] = result[q] /\ session'[q] = session[q]
    <3>1. pc \in [Runs -> Steps] /\ result \in [Runs -> Results]
          /\ session \in [Runs -> {"none", "live", "deleted"}]
      BY DEF IInv, TypeOK
    <3>2. CASE CreateSession(r) \/ DeleteSession(r)
      BY <2>1, <3>1, <3>2 DEF CreateSession, DeleteSession, local
    <3>3. CASE Retrieve(r) \/ Persist(r)
      BY <2>1, <3>1, <3>3 DEF Retrieve, Persist, cloud, local
    <3> QED
      BY <3>2, <3>3 DEF Visible
  <2>2. ASSUME NEW q \in Runs, q # r PROVE ViewKept(q) /\ Shown(q)' = Shown(q)
    <3>1. ViewKept(q)
      BY <2>1, <2>2, ViewDecided
    <3> QED
      BY <3>1, ShownKept
  <2> QED
    BY <2>1, <2>2
<1>2. CASE CreateSession(r)
  <2>1. /\ pc[r] = "session" /\ pc'[r] = "commit" /\ session'[r] = "live"
    BY <1>2 DEF CreateSession, IInv, TypeOK
  <2>2. /\ Reported(r)' = Reported(r) /\ Shown(r)' = Shown(r) /\ Phase(r)' = "open"
        /\ Phase(r) = IF session[r] = "none" THEN "new" ELSE "open"
    BY <2>1 DEF Phase, Reported, ShownIsReport, Persisted
  <2>3. Gone' = Gone
    BY <1>1, <2>1 DEF IInv, DeletedLate
  <2>4. CASE session[r] = "none"
    <3>1. Ledger!Open(r)
      BY <1>1, <2>2, <2>3, <2>4 DEF Ledger!Open, Ledger!Step, ViewKept
    <3> QED
      BY <3>1 DEF Ledger!Next
  <2>5. CASE session[r] # "none"
    BY <1>1, <2>2, <2>3, <2>5 DEF Ledger!vars, ViewKept
  <2> QED
    BY <2>4, <2>5
<1>3. CASE Retrieve(r)
  <2>1. /\ pc[r] = "retrieve" /\ pc'[r] = "persist" /\ session'[r] = session[r]
        /\ session[r] # "none"
    BY <1>3 DEF Retrieve, IInv, TypeOK, cloud, SessionOpened, SetupDone
  <2>2. Phase(r) = "open" /\ Phase(r)' = "reported" /\ Shown(r)' = Shown(r)
    BY <2>1 DEF Phase, ShownIsReport, Persisted
  <2>3. Reported(r)' \in Ledger!Reports
    <3>1. result'[r] \in Results
      BY DEF IInv, TypeOK
    <3>2. ReportedThreads(r)' \subseteq ThreadIds
      BY <3>1, StreamType DEF Results, ReportedThreads, ThreadIds
    <3> QED
      BY <2>1, <3>1, <3>2 DEF Reported, Results, Ledger!Reports
  <2>4. Gone' = Gone
    BY <1>1, <2>1
  <2>5. Ledger!Report(r)
    BY <1>1, <2>2, <2>3, <2>4 DEF Ledger!Report, Ledger!Step, ViewKept
  <2> QED
    BY <2>5 DEF Ledger!Next
<1>4. CASE Persist(r)
  <2>1. /\ pc[r] = "persist" /\ pc'[r] = "delete" /\ session'[r] = session[r]
        /\ result'[r] = result[r]
    BY <1>4 DEF Persist, IInv, TypeOK, cloud, local
  <2>2. ReportedThreads(r)' = ReportedThreads(r)
    BY <2>1 DEF ReportedThreads
  <2>3. /\ Phase(r) = "reported" /\ Phase(r)' = "saved" /\ Reported(r)' = Reported(r)
        /\ Shown(r)' = Reported(r)
    BY <2>1, <2>2 DEF Phase, Reported, ShownIsReport, Persisted
  <2>4. Gone' = Gone
    BY <1>1, <2>1
  <2>5. Ledger!Show(r)
    BY <1>1, <2>3, <2>4 DEF Ledger!Show, Ledger!Step, ViewKept
  <2> QED
    BY <2>5 DEF Ledger!Next
<1>5. CASE DeleteSession(r)
  <2>1. /\ pc[r] = "delete" /\ pc'[r] = "dream" /\ result'[r] = result[r]
        /\ session'[r] \in {"deleted", "live"} /\ session[r] # "deleted"
    BY <1>5 DEF DeleteSession, IInv, TypeOK, local, DeletedLate
  <2>2. ReportedThreads(r)' = ReportedThreads(r)
    BY <2>1 DEF ReportedThreads
  <2>3. /\ Phase(r) = "saved" /\ Phase(r)' = "saved" /\ Reported(r)' = Reported(r)
        /\ Shown(r)' = Shown(r)
    BY <2>1, <2>2 DEF Phase, Reported, ShownIsReport, Persisted
  <2>4. CASE session'[r] = "deleted"
    <3>1. r \notin Gone /\ Gone' = Gone \cup {r}
      BY <1>1, <2>1, <2>4
    <3>2. Ledger!Close(r)
      BY <1>1, <2>3, <3>1 DEF Ledger!Close, ViewKept
    <3> QED
      BY <3>2 DEF Ledger!Next
  <2>5. CASE session'[r] = "live"
    <3>1. Gone' = Gone
      BY <1>1, <2>1, <2>5
    <3> QED
      BY <1>1, <2>3, <3>1 DEF Ledger!vars, ViewKept
  <2> QED
    BY <2>1, <2>4, <2>5
<1> QED
  BY <1>2, <1>3, <1>4, <1>5 DEF Visible

(* Each step of the runs is one of the ledger, or none.                    *)
LEMMA LedgerSimulated ==
  ASSUME IInv, IInv', ShownIsReport, ShownIsReport', [Next]_vars
  PROVE  [Ledger!Next]_(Ledger!vars)
<1>1. CASE \E r \in Runs : Visible(r)
  BY <1>1, VisibleSimulated
<1>2. CASE \A r \in Runs : ~Visible(r)
  <2>1. StageKept
    BY <1>2, OthersInvisible DEF IInv
  <2>2. \A r \in Runs : ViewKept(r)
    BY <2>1, ViewDecided DEF StageKept
  <2>3. \A r \in Runs : Shown(r)' = Shown(r)
    BY <2>2, ShownKept
  <2> QED
    BY <2>1, <2>2, <2>3 DEF StageKept, ViewKept, Ledger!vars
<1> QED
  BY <1>1, <1>2

(* run_managed_task implements the ledger: whoever reads the database sees *)
(* a session reported once, shown whole and closed after that.             *)
THEOREM ImplementsLedger == Spec => RefinesLedger
<1>1. IInv /\ IInv' /\ ShownIsReport /\ ShownIsReport' /\ [Next]_vars
        => [Ledger!Next]_(Ledger!vars)
  BY LedgerSimulated
<1>2. QED
  BY <1>1, LedgerInit, Inductive, InvShown, PTL DEF Spec, RefinesLedger, Ledger!Spec

=============================================================================
