---------------------------- MODULE BillingProofs ----------------------------
(***************************************************************************)
(* Theorems about Billing for any clients, agents and writers, any bounds  *)
(* and any plans.                                                          *)
(***************************************************************************)
EXTENDS Billing, SequenceTheorems, FiniteSetTheorems, WellFoundedInduction, TLAPS

-----------------------------------------------------------------------------
(* Data.                                                                   *)

LEMMA Division ==
  ASSUME NEW t \in Nat, NEW n \in Nat \ {0}
  PROVE  t \div n \in Nat /\ n * (t \div n) <= t /\ t < n * (t \div n) + n
BY SMT

(* Two instants of one second are less than a second apart.                *)
LEMMA Seconds ==
  /\ \A t \in Nat : Second(t) \in Nat
  /\ \A t, u \in Nat : t <= u => Second(t) <= Second(u)
  /\ \A t, u \in Nat : Second(t) = Second(u) /\ t <= u => u - t < PerSecond
<1>1. PerSecond \in Nat \ {0}
  BY BillingConstants
<1>2. ASSUME NEW t \in Nat
      PROVE  Second(t) \in Nat /\ PerSecond * Second(t) <= t /\ t < PerSecond * Second(t) + PerSecond
  BY <1>1, Division DEF Second
<1>3. ASSUME NEW t \in Nat, NEW u \in Nat, t <= u, Second(u) < Second(t) PROVE FALSE
  <2>1. Second(u) + 1 <= Second(t)
    BY <1>2, <1>3
  <2>2. PerSecond * (Second(u) + 1) <= PerSecond * Second(t)
    BY <1>1, <1>2, <2>1
  <2>3. PerSecond * (Second(u) + 1) = PerSecond * Second(u) + PerSecond
    BY <1>1, <1>2
  <2> QED
    BY <1>1, <1>2, <1>3, <2>2, <2>3
<1>4. ASSUME NEW t \in Nat, NEW u \in Nat, Second(t) = Second(u), t <= u
      PROVE  u - t < PerSecond
  <2>1. PICK x : x = PerSecond * Second(t)
    OBVIOUS
  <2>2. x \in Nat
    BY <1>1, <1>2, <2>1
  <2>3. x <= t /\ u < x + PerSecond
    BY <1>2, <1>4, <2>1
  <2> QED
    BY <1>1, <2>2, <2>3
<1> QED
  BY <1>2, <1>3, <1>4

(* Every set of natural numbers that is not empty has a least element.     *)
LEMMA LeastNatural ==
  ASSUME NEW T, T \subseteq Nat, T # {}
  PROVE  MinOf(T) \in T /\ \A y \in T : MinOf(T) <= y
<1> DEFINE R == OpToRel(<, Nat)
<1>1. \A x, y \in Nat : y < x => <<y, x>> \in R
  BY DEF OpToRel
<1>2. IsWellFoundedOn(R, Nat)
  BY NatLessThanWellFounded
<1> HIDE DEF R
<1>3. PICK x \in T : \A y \in T : ~(<<y, x>> \in R)
  BY <1>2, WFMin
<1>4. \A y \in T : ~(y < x)
  BY <1>1, <1>3
<1>5. \A y \in T : x <= y
  BY <1>4
<1>6. \E z \in T : \A y \in T : z <= y
  BY <1>5
<1> QED
  BY <1>6, Zenon DEF MinOf

-----------------------------------------------------------------------------
(* What steps do to the ledger.                                            *)

RowType == [writer : Writers, owner : Owners, task : Tasks \cup {None},
            at : 1..MaxTime, failed : BOOLEAN]

(* Whatever else a step does.                                              *)
Around == TypeOK' /\ clientOf' = clientOf /\ now' >= now

(* A Task is closed when that is committed, dated when it was written,     *)
(* over a date it may have had; what is written is dated now.              *)
Closings ==
  /\ DOMAIN closed \subseteq DOMAIN closed'
  /\ \A t \in DOMAIN closed' : \/ t \in DOMAIN closed /\ closed'[t] = closed[t]
                               \/ \E p \in closing : p.task = t /\ closed'[t] = p.at
  /\ \A p \in closing' : p \in closing \/ p.at = now

(* No row changes; Tasks may be closed.                                    *)
Keeps == Around /\ UNCHANGED <<rows, open, began>> /\ Closings

(* A row of w is added and waits for its transaction.                      *)
Adds(w) ==
  /\ Around /\ UNCHANGED <<closed, closing>>
  /\ \E c \in Calls \ DOMAIN rows :
       /\ DOMAIN rows' = DOMAIN rows \cup {c} /\ open' = open \cup {c}
       /\ \A d \in DOMAIN rows : rows'[d] = rows[d]
       /\ rows'[c].writer = w /\ rows'[c].at = began'[w] /\ rows'[c].task \notin Hist
  /\ \A x \in Writers \ {w} : began'[x] = began[x]
  /\ IF began[w] = 0 THEN began'[w] = now ELSE began'[w] = began[w]

(* The transaction of w ends: its rows are stored, or gone.                *)
Closes(w) ==
  /\ Around /\ UNCHANGED <<closed, closing>> /\ began[w] # 0 /\ began'[w] = 0
  /\ \A x \in Writers \ {w} : began'[x] = began[x]
  /\ open' = open \ RowsOf(w)

Commits(w) == Closes(w) /\ rows' = rows
Rolls(w) ==
  /\ Closes(w) /\ DOMAIN rows' = DOMAIN rows \ RowsOf(w)
  /\ \A c \in DOMAIN rows' : rows'[c] = rows[c]

(* The script commits: calls are given Tasks, and nothing else of them     *)
(* changes.                                                                *)
Groups ==
  /\ Around /\ UNCHANGED <<open, began, closed, closing>>
  /\ backfill # Resting /\ backfill' = Resting
  /\ DOMAIN rows' = DOMAIN rows
  /\ \A c \in DOMAIN rows :
       /\ rows'[c].writer = rows[c].writer /\ rows'[c].owner = rows[c].owner
       /\ rows'[c].at = rows[c].at /\ rows'[c].failed = rows[c].failed
       /\ rows'[c].task =
            IF c \in DOMAIN backfill.moves THEN backfill.moves[c] ELSE rows[c].task

LedgerEffects ==
  \/ Keeps \/ Groups
  \/ \E w \in Writers : Adds(w) \/ Commits(w) \/ Rolls(w)

(* What a step leaves of the rest.                                         *)
Script == backfill' = backfill
Report == report' = report

-----------------------------------------------------------------------------
(* The actions on the ledger do that.                                      *)

LEMMA TypeParts ==
  ASSUME TypeOK
  PROVE  /\ now \in Nat /\ now \in 1..MaxTime /\ MaxTime \in Nat
         /\ \A w \in Writers : began[w] \in 0..MaxTime /\ began[w] \in Nat
         /\ \A c \in DOMAIN rows :
              /\ rows[c] \in RowType /\ c \in Nat /\ rows[c].at \in Nat /\ rows[c].at # 0
              /\ rows[c].writer \in Writers
         /\ clientOf \in [Agents \cup Proposals \cup Issues -> Clients]
         /\ \A p \in closing :
              /\ p.task \in DOMAIN created \cap Analyses /\ p.at \in 1..MaxTime
              /\ p.status \in Statuses /\ p.at \in Nat
<1>1. MaxTime \in Nat /\ Placements \subseteq [Agents \cup Proposals \cup Issues -> Clients]
      /\ MaxCalls \in Nat
  BY BillingConstants
<1>2. now \in 1..MaxTime /\ clientOf \in Placements /\ began \in [Writers -> 0..MaxTime]
      /\ DOMAIN rows \subseteq 1..MaxCalls
  BY DEF TypeOK, Calls
<1>3. \A c \in DOMAIN rows : rows[c] \in RowType
  BY DEF TypeOK, RowType
<1>4. ASSUME NEW c \in DOMAIN rows
      PROVE  c \in Nat /\ rows[c].at \in Nat /\ rows[c].at # 0 /\ rows[c].writer \in Writers
  <2>1. rows[c].at \in 1..MaxTime /\ rows[c].writer \in Writers /\ c \in 1..MaxCalls
    BY <1>2, <1>3 DEF RowType
  <2> QED
    BY <1>1, <2>1
<1>5. now \in Nat /\ \A w \in Writers : began[w] \in 0..MaxTime /\ began[w] \in Nat
  BY <1>1, <1>2
<1>6. ASSUME NEW p \in closing
      PROVE  /\ p.task \in DOMAIN created \cap Analyses /\ p.at \in 1..MaxTime
             /\ p.status \in Statuses /\ p.at \in Nat
  <2>1. p \in [task : DOMAIN created \cap Analyses, at : 1..MaxTime, status : Statuses]
    BY DEF TypeOK
  <2> QED
    BY <1>1, <2>1
<1> QED
  BY <1>1, <1>2, <1>3, <1>4, <1>5, <1>6

LEMMA TickKept ==
  ASSUME TypeOK, Tick
  PROVE  now' \in 1..MaxTime /\ now' >= now
BY BillingConstants DEF TypeOK, Tick

(* What the Tasks are, apart from the rest.                                *)
TaskTypes ==
  /\ DOMAIN closed \subseteq DOMAIN created /\ DOMAIN created \subseteq Tasks
  /\ \A t \in DOMAIN created : created[t] \in 0..MaxTime
  /\ columns \in [DOMAIN created -> Columns]
  /\ closing \subseteq [task : DOMAIN created \cap Analyses, at : 1..MaxTime, status : Statuses]
  /\ running \subseteq DOMAIN created \cap Analyses

(* A step on the Tasks changes nothing else.                               *)
LEMMA TaskStep ==
  ASSUME TypeOK, TaskTypes', Closings, now' \in 1..MaxTime, now' >= now,
         UNCHANGED <<clientOf, began, ledger, backfill, runs, report>>
  PROVE  Keeps /\ Script /\ Report
<1>1. UNCHANGED <<rows, open>>
  BY DEF ledger
<1>2. TypeOK'
  BY <1>1 DEF TypeOK, TaskTypes
<1> QED
  BY <1>1, <1>2 DEF Keeps, Around, Script, Report

LEMMA NowStays ==
  ASSUME TypeOK, now' = now
  PROVE  now' \in 1..MaxTime /\ now' >= now
BY BillingConstants DEF TypeOK

LEMMA OpenTaskStep ==
  ASSUME TypeOK, NEW t \in Issues, NEW a \in Agents \cup {None}, OpenTask(t, a)
  PROVE  Keeps /\ Script /\ Report
<1>1. now' \in 1..MaxTime /\ now' >= now
  BY TickKept DEF OpenTask
<1>2. PICK new : new = [agent |-> a, status |-> IF a = None THEN "in_progress" ELSE "pending"]
  OBVIOUS
<1>3. new \in Columns
  BY <1>2 DEF Columns, Statuses
<1>4. /\ created' = [u \in DOMAIN created \cup {t} |-> IF u = t THEN now ELSE created[u]]
      /\ columns' = [u \in DOMAIN created \cup {t} |-> IF u # t THEN columns[u] ELSE new]
      /\ running' = running \cup ({t} \cap Analyses)
      /\ UNCHANGED <<clientOf, began, ledger, closed, closing, backfill, runs, panel>>
  BY <1>2 DEF OpenTask
<1>5. now \in 0..MaxTime
  BY TypeParts
<1>6. DOMAIN created' = DOMAIN created \cup {t}
  BY <1>4
<1>7. TaskTypes'
  <2>1. /\ DOMAIN closed' \subseteq DOMAIN created' /\ DOMAIN created' \subseteq Tasks
        /\ running' \subseteq DOMAIN created' \cap Analyses
    BY <1>4, <1>6 DEF TypeOK, Tasks
  <2>2. \A u \in DOMAIN created' : created'[u] \in 0..MaxTime
    BY <1>4, <1>5 DEF TypeOK
  <2>3. columns' \in [DOMAIN created' -> Columns]
    BY <1>3, <1>4, <1>6 DEF TypeOK
  <2>4. closing' \subseteq [task : DOMAIN created' \cap Analyses, at : 1..MaxTime,
                            status : Statuses]
    BY <1>4, <1>6 DEF TypeOK
  <2> QED
    BY <2>1, <2>2, <2>3, <2>4 DEF TaskTypes, Statuses, Columns
<1>8. Closings /\ report' = report
  BY <1>4 DEF Closings, panel
<1> QED
  BY <1>1, <1>4, <1>7, <1>8, TaskStep

LEMMA AssignTaskStep ==
  ASSUME TypeOK, NEW t \in Issues, NEW a \in Agents, AssignTask(t, a)
  PROVE  Keeps /\ Script /\ Report
<1>1. t \in DOMAIN created
  BY DEF AssignTask
<1>2. PICK new : new = [columns[t] EXCEPT !.agent = a]
  OBVIOUS
<1>3. new \in Columns
  <2>1. columns[t] \in Columns
    BY <1>1 DEF TypeOK
  <2> QED
    BY <1>2, <2>1 DEF Columns
<1>4. /\ columns' = [columns EXCEPT ![t] = new]
      /\ UNCHANGED <<clientOf, now, began, ledger, created, closed, closing, running,
                     backfill, runs, report>>
  BY <1>2 DEF AssignTask, Update
<1>5. TaskTypes' /\ Closings
  BY <1>3, <1>4 DEF TypeOK, TaskTypes, Closings, Statuses, Columns
<1> QED
  BY <1>4, <1>5, NowStays, TaskStep

LEMMA CloseTaskStep ==
  ASSUME TypeOK, NEW t \in DOMAIN created \cap Analyses, NEW status \in Statuses,
         CloseTask(t, status), running' \subseteq running,
         UNCHANGED <<clientOf, began, ledger, created, columns, closed, backfill, runs, panel>>
  PROVE  Keeps /\ Script /\ Report
<1>1. now' \in 1..MaxTime /\ now' >= now
  BY TickKept DEF CloseTask
<1>2. PICK p : p = [task |-> t, at |-> now, status |-> status]
  OBVIOUS
<1>3. /\ p \in [task : DOMAIN created \cap Analyses, at : 1..MaxTime, status : Statuses]
      /\ p.at = now
  BY <1>2, TypeParts
<1>4. closing' = closing \cup {p}
  BY <1>2 DEF CloseTask
<1>5. TaskTypes' /\ Closings
  BY <1>3, <1>4 DEF TypeOK, TaskTypes, Closings, Statuses, Columns
<1>6. report' = report
  BY DEF panel
<1> QED
  BY <1>1, <1>5, <1>6, TaskStep

LEMMA CommitClosingStep ==
  ASSUME TypeOK, NEW p \in closing, CommitClosing(p)
  PROVE  Keeps /\ Script /\ Report
<1>1. p.task \in DOMAIN created \cap Analyses /\ p.status \in Statuses
  BY TypeParts
<1>2. PICK new : new = [columns[p.task] EXCEPT !.status = p.status]
  OBVIOUS
<1>3. new \in Columns
  <2>1. columns[p.task] \in Columns
    BY <1>1 DEF TypeOK
  <2> QED
    BY <1>1, <1>2, <2>1 DEF Columns
<1>4. /\ columns' = [columns EXCEPT ![p.task] = new] /\ closing' = closing \ {p}
      /\ closed' = [t \in DOMAIN closed \cup {p.task} |->
                     IF t = p.task THEN p.at ELSE closed[t]]
      /\ UNCHANGED <<clientOf, now, began, ledger, created, running, backfill, runs, report>>
  BY <1>2 DEF CommitClosing, Update
<1>5. DOMAIN closed' = DOMAIN closed \cup {p.task}
  BY <1>4
<1>6. TaskTypes'
  BY <1>1, <1>3, <1>4, <1>5 DEF TypeOK, TaskTypes, Statuses, Columns
<1>7. Closings
  BY <1>4, <1>5 DEF Closings
<1> QED
  BY <1>4, <1>6, <1>7, NowStays, TaskStep

LEMMA LoseClosingStep ==
  ASSUME TypeOK, NEW p \in closing, LoseClosing(p)
  PROVE  Keeps /\ Script /\ Report
<1>1. /\ closing' = closing \ {p} /\ report' = report
      /\ UNCHANGED <<clientOf, now, began, ledger, created, columns, closed, running,
                     backfill, runs>>
  BY DEF LoseClosing, panel
<1>2. TaskTypes' /\ Closings
  BY <1>1 DEF TypeOK, TaskTypes, Closings, Statuses, Columns
<1> QED
  BY <1>1, <1>2, NowStays, TaskStep

LEMMA AddStep ==
  ASSUME TypeOK, NEW w \in Writers, NEW failed \in BOOLEAN, Add(w, failed)
  PROVE  Adds(w) /\ Script /\ Report
<1>1. PICK c : c = MinOf(Calls \ DOMAIN rows)
  OBVIOUS
<1>2. c \in Calls \ DOMAIN rows
  <2>1. Calls \ DOMAIN rows \subseteq Nat /\ Calls \ DOMAIN rows # {}
    BY BillingConstants DEF Add, Calls
  <2> QED
    BY <1>1, <2>1, LeastNatural
<1>3. PICK new : new = [writer |-> w, owner |-> OwnerOf(w),
                        task |-> IF w \in Proposals THEN None ELSE TaskOf[w],
                        at |-> Stamp(w), failed |-> failed]
  OBVIOUS
<1>4. /\ rows' = [d \in DOMAIN rows \cup {c} |-> IF d # c THEN rows[d] ELSE new]
      /\ open' = open \cup {c} /\ Statement(w)
      /\ UNCHANGED <<clientOf, created, columns, closed, closing, running, backfill, runs, report>>
  BY <1>1, <1>3 DEF Add, panel, taskRows
<1>5. /\ DOMAIN rows' = DOMAIN rows \cup {c} /\ rows'[c] = new
      /\ \A d \in DOMAIN rows : rows'[d] = rows[d]
  BY <1>2, <1>4
<1>6. /\ now' \in 1..MaxTime /\ now' >= now /\ began' \in [Writers -> 0..MaxTime]
      /\ \A x \in Writers \ {w} : began'[x] = began[x]
      /\ IF began[w] = 0 THEN began'[w] = now ELSE began'[w] = began[w]
      /\ Stamp(w) = began'[w] /\ Stamp(w) \in 1..MaxTime
  <2>1. began \in [Writers -> 0..MaxTime] /\ now \in 1..MaxTime /\ MaxTime \in Nat
    BY BillingConstants DEF TypeOK
  <2>2. CASE began[w] = 0
    <3>1. Tick /\ began' = [began EXCEPT ![w] = now]
      BY <1>4, <2>2 DEF Statement
    <3> QED
      BY <2>1, <2>2, <3>1, TickKept DEF Stamp
  <2>3. CASE began[w] # 0
    <3>1. now' = now /\ began' = began
      BY <1>4, <2>3 DEF Statement
    <3> QED
      BY <2>1, <2>3, <3>1 DEF Stamp
  <2> QED
    BY <2>2, <2>3
<1>7. new \in RowType /\ new.writer = w /\ new.at = Stamp(w) /\ new.task \notin Hist
  <2>1. OwnerOf(w) \in Owners
    BY BillingConstants DEF OwnerOf, Owners, Writers
  <2>2. (IF w \in Proposals THEN None ELSE TaskOf[w]) \in Issues \cup {None}
    BY BillingConstants DEF Writers
  <2>3. PICK task : task = IF w \in Proposals THEN None ELSE TaskOf[w]
    OBVIOUS
  <2>4. task \in Tasks \cup {None} /\ task \notin Hist
    BY <2>2, <2>3, KeysApart DEF Tasks
  <2> QED
    BY <1>3, <1>6, <2>1, <2>3, <2>4 DEF RowType
<1>8. TypeOK'
  <2>1. DOMAIN rows' \subseteq Calls /\ open' \subseteq DOMAIN rows'
    BY <1>2, <1>4, <1>5 DEF TypeOK
  <2>2. \A d \in DOMAIN rows' : rows'[d] \in RowType
    BY <1>5, <1>7 DEF TypeOK, RowType
  <2> QED
    BY <1>4, <1>6, <2>1, <2>2 DEF TypeOK, RowType
<1>9. rows'[c].writer = w /\ rows'[c].at = began'[w] /\ rows'[c].task \notin Hist
  BY <1>5, <1>6, <1>7
<1> QED
  BY <1>2, <1>4, <1>5, <1>6, <1>8, <1>9 DEF Adds, Around, Script, Report

LEMMA CommitStep ==
  ASSUME TypeOK, NEW w \in Writers, Commit(w)
  PROVE  Commits(w) /\ Script /\ Report
<1>1. /\ began[w] # 0 /\ began' = [began EXCEPT ![w] = 0] /\ open' = open \ RowsOf(w)
      /\ UNCHANGED <<clientOf, now, rows, created, columns, closed, closing, running,
                     backfill, runs, report>>
  BY DEF Commit, panel, taskRows
<1>2. /\ began' \in [Writers -> 0..MaxTime] /\ began'[w] = 0
      /\ \A x \in Writers \ {w} : began'[x] = began[x]
  BY <1>1, BillingConstants DEF TypeOK
<1>3. TypeOK' /\ now' >= now
  BY <1>1, <1>2, BillingConstants DEF TypeOK
<1> QED
  BY <1>1, <1>2, <1>3 DEF Commits, Closes, Around, Script, Report

LEMMA RollbackStep ==
  ASSUME TypeOK, NEW w \in Writers, Rollback(w)
  PROVE  Rolls(w) /\ Script /\ Report
<1>1. /\ began[w] # 0 /\ began' = [began EXCEPT ![w] = 0] /\ open' = open \ RowsOf(w)
      /\ rows' = [c \in DOMAIN rows \ RowsOf(w) |-> rows[c]]
      /\ UNCHANGED <<clientOf, now, created, columns, closed, closing, running,
                     backfill, runs, report>>
  BY DEF Rollback, panel, taskRows
<1>2. /\ began' \in [Writers -> 0..MaxTime] /\ began'[w] = 0
      /\ \A x \in Writers \ {w} : began'[x] = began[x]
  BY <1>1, BillingConstants DEF TypeOK
<1>3. DOMAIN rows' = DOMAIN rows \ RowsOf(w) /\ \A c \in DOMAIN rows' : rows'[c] = rows[c]
  BY <1>1
<1>4. open' \subseteq DOMAIN rows' /\ DOMAIN rows' \subseteq Calls
  BY <1>1, <1>3 DEF TypeOK
<1>5. \A c \in DOMAIN rows' : rows'[c] \in RowType
  BY <1>3 DEF TypeOK, RowType
<1>6. TypeOK' /\ now' >= now
  BY <1>1, <1>2, <1>4, <1>5, BillingConstants DEF TypeOK, RowType
<1> QED
  BY <1>1, <1>2, <1>3, <1>6 DEF Rolls, Closes, Around, Script, Report

LEMMA BackfillCommitStep ==
  ASSUME TypeOK, BackfillHolds, BackfillCommit
  PROVE  Groups /\ Report
<1>1. /\ backfill # Resting /\ backfill' = Resting
      /\ rows' = [c \in DOMAIN rows |->
                   IF c \in DOMAIN backfill.moves
                     THEN [rows[c] EXCEPT !.task = backfill.moves[c]] ELSE rows[c]]
      /\ created' = [t \in DOMAIN created \cup DOMAIN backfill.added |->
                      IF t \in DOMAIN created THEN created[t] ELSE backfill.began]
      /\ columns' = [t \in DOMAIN created \cup DOMAIN backfill.added |->
                      IF t \in DOMAIN created THEN columns[t]
                      ELSE [agent |-> backfill.added[t], status |-> "pending"]]
      /\ UNCHANGED <<clientOf, now, began, open, closed, closing, running, runs, page, report>>
  BY DEF BackfillCommit, panel
<1>2. /\ DOMAIN backfill.added \subseteq Hist /\ backfill.began \in 1..MaxTime
      /\ \A h \in DOMAIN backfill.added : backfill.added[h] \in Agents
      /\ \A c \in DOMAIN backfill.moves : backfill.moves[c] \in Hist
  BY <1>1 DEF BackfillHolds, MovesLinked
<1>3. ASSUME NEW c \in DOMAIN rows
      PROVE  /\ rows'[c] \in RowType
             /\ rows'[c].writer = rows[c].writer /\ rows'[c].owner = rows[c].owner
             /\ rows'[c].at = rows[c].at /\ rows'[c].failed = rows[c].failed
             /\ rows'[c].task =
                  IF c \in DOMAIN backfill.moves THEN backfill.moves[c] ELSE rows[c].task
  <2>1. rows[c] \in RowType
    BY TypeParts
  <2>2. CASE c \in DOMAIN backfill.moves
    <3>1. PICK new : new = [rows[c] EXCEPT !.task = backfill.moves[c]]
      OBVIOUS
    <3>2. backfill.moves[c] \in Tasks \cup {None}
      BY <1>2, <2>2 DEF Tasks
    <3>3. /\ new \in RowType /\ new.writer = rows[c].writer /\ new.owner = rows[c].owner
          /\ new.at = rows[c].at /\ new.failed = rows[c].failed
          /\ new.task = backfill.moves[c]
      BY <2>1, <3>1, <3>2 DEF RowType
    <3>4. rows'[c] = new
      BY <1>1, <2>2, <3>1
    <3> QED
      BY <2>2, <3>3, <3>4
  <2>3. CASE c \notin DOMAIN backfill.moves
    BY <1>1, <2>1, <2>3
  <2> QED
    BY <2>2, <2>3
<1>4. DOMAIN rows' = DOMAIN rows
  BY <1>1
<1>5. TypeOK' /\ now' >= now
  <2>1. \A c \in DOMAIN rows' : rows'[c] \in RowType
    BY <1>3, <1>4
  <2>2. /\ DOMAIN created' \subseteq Tasks /\ DOMAIN created \subseteq DOMAIN created'
        /\ \A t \in DOMAIN created' : created'[t] \in 0..MaxTime
    BY <1>1, <1>2 DEF TypeOK, Tasks
  <2>3. /\ DOMAIN rows' \subseteq Calls /\ open' \subseteq DOMAIN rows'
        /\ DOMAIN closed' \subseteq DOMAIN created'
        /\ running' \subseteq DOMAIN created' \cap Analyses
    BY <1>1, <1>4, <2>2 DEF TypeOK
  <2>4. /\ clientOf' \in Placements /\ now' \in 1..MaxTime /\ runs' \in 0..MaxRuns
        /\ began' \in [Writers -> 0..MaxTime] /\ now' >= now
    BY <1>1, BillingConstants DEF TypeOK
  <2>5. columns' \in [DOMAIN created' -> Columns]
    <3>1. \A h \in DOMAIN backfill.added :
            [agent |-> backfill.added[h], status |-> "pending"] \in Columns
      BY <1>2 DEF Columns, Statuses
    <3> QED
      BY <1>1, <3>1 DEF TypeOK
  <2>6. closing' \subseteq [task : DOMAIN created' \cap Analyses, at : 1..MaxTime,
                            status : Statuses]
    BY <1>1, <2>2 DEF TypeOK
  <2> QED
    BY <2>1, <2>2, <2>3, <2>4, <2>5, <2>6 DEF TypeOK, RowType, Columns, Statuses
<1> QED
  BY <1>1, <1>3, <1>4, <1>5 DEF Groups, Around, Report

-----------------------------------------------------------------------------
(* The rows that are stored, and those that are not.                       *)

LEMMA TypesKept ==
  ASSUME LedgerEffects
  PROVE  TypeOK' /\ clientOf' = clientOf /\ now' >= now
BY DEF LedgerEffects, Keeps, Groups, Adds, Commits, Rolls, Closes, Around

(* What is stored stays, and only the script gives it another Task; what   *)
(* becomes so is what a transaction had added.                             *)
LEMMA StoredKept ==
  ASSUME TypeOK, LedgerEffects
  PROVE  /\ \A c \in Stored : /\ c \in Stored' /\ c \in DOMAIN rows'
                              /\ rows'[c].writer = rows[c].writer
                              /\ rows'[c].owner = rows[c].owner
                              /\ rows'[c].at = rows[c].at
                              /\ rows'[c].failed = rows[c].failed
         /\ ~Groups => \A c \in Stored : rows'[c].task = rows[c].task
         /\ \A c \in Stored' \ Stored :
              \E w \in Writers : Commits(w) /\ c \in RowsOf(w) /\ rows'[c] = rows[c]
<1>1. /\ Stored = DOMAIN rows \ open /\ Stored' = DOMAIN rows' \ open'
      /\ open \subseteq DOMAIN rows
  BY DEF Stored, TypeOK
<1> USE <1>1
<1>2. CASE Keeps
  BY <1>2 DEF Keeps
<1>3. CASE Groups
  BY <1>3 DEF Groups
<1>4. ASSUME NEW w \in Writers, Adds(w)
      PROVE  /\ \A c \in Stored : c \in Stored' /\ c \in DOMAIN rows' /\ rows'[c] = rows[c]
             /\ Stored' \subseteq Stored
  <2>1. PICK c \in Calls \ DOMAIN rows :
          /\ DOMAIN rows' = DOMAIN rows \cup {c} /\ open' = open \cup {c}
          /\ \A d \in DOMAIN rows : rows'[d] = rows[d]
    BY <1>4 DEF Adds
  <2> QED
    BY <2>1
<1>5. ASSUME NEW w \in Writers, Commits(w)
      PROVE  /\ \A c \in Stored : c \in Stored' /\ c \in DOMAIN rows' /\ rows'[c] = rows[c]
             /\ \A c \in Stored' \ Stored : c \in RowsOf(w) /\ rows'[c] = rows[c]
  BY <1>5 DEF Commits, Closes
<1>6. ASSUME NEW w \in Writers, Rolls(w)
      PROVE  /\ \A c \in Stored : c \in Stored' /\ c \in DOMAIN rows' /\ rows'[c] = rows[c]
             /\ Stored' \subseteq Stored
  BY <1>6 DEF Rolls, Closes, RowsOf
<1> QED
  BY <1>2, <1>3, <1>4, <1>5, <1>6 DEF LedgerEffects

LEMMA OpenRowsDatedKept ==
  ASSUME TypeOK, OpenRowsDated, BackfillHolds, LedgerEffects
  PROVE  OpenRowsDated'
<1>1. open \subseteq DOMAIN rows /\ \A c \in open : rows[c].writer \in Writers /\ rows[c].at # 0
  BY TypeParts DEF TypeOK
<1>2. CASE Keeps
  BY <1>2 DEF Keeps, OpenRowsDated
<1>3. CASE Groups
  <2>1. \A c \in DOMAIN backfill.moves : c \notin open
    BY <1>3 DEF Groups, BackfillHolds, MovesLinked, Stored
  <2> QED
    BY <1>1, <1>3, <2>1 DEF Groups, OpenRowsDated
<1>4. ASSUME NEW w \in Writers, Adds(w) PROVE OpenRowsDated'
  <2>1. PICK c \in Calls \ DOMAIN rows :
          /\ DOMAIN rows' = DOMAIN rows \cup {c} /\ open' = open \cup {c}
          /\ \A d \in DOMAIN rows : rows'[d] = rows[d]
          /\ rows'[c].writer = w /\ rows'[c].at = began'[w] /\ rows'[c].task \notin Hist
    BY <1>4 DEF Adds
  <2>2. ASSUME NEW d \in open
        PROVE  rows'[d].at = began'[rows'[d].writer] /\ rows'[d].task \notin Hist
    <3>1. /\ rows[d].at = began[rows[d].writer] /\ rows[d].task \notin Hist
          /\ rows'[d] = rows[d]
      BY <1>1, <2>1 DEF OpenRowsDated
    <3>2. began'[rows[d].writer] = began[rows[d].writer]
      BY <1>1, <1>4, <3>1 DEF Adds
    <3> QED
      BY <3>1, <3>2
  <2> QED
    BY <2>1, <2>2 DEF OpenRowsDated
<1>5. ASSUME NEW w \in Writers, Commits(w) \/ Rolls(w) PROVE OpenRowsDated'
  <2>1. /\ open' = open \ RowsOf(w) /\ \A x \in Writers \ {w} : began'[x] = began[x]
        /\ \A c \in open' : rows'[c] = rows[c]
    BY <1>1, <1>5 DEF Commits, Rolls, Closes, RowsOf
  <2>2. \A c \in open' : rows[c].writer # w
    BY <2>1 DEF RowsOf
  <2> QED
    BY <1>1, <2>1, <2>2 DEF OpenRowsDated
<1> QED
  BY <1>2, <1>3, <1>4, <1>5 DEF LedgerEffects

-----------------------------------------------------------------------------
(* HIST- runs.                                                             *)

(* A call that follows another of its run still does, and one of the run's *)
(* second is still of it.                                                  *)
LEMMA HistLinkedKept ==
  ASSUME TypeOK, OpenRowsDated, HistLinked, BackfillHolds, LedgerEffects
  PROVE  HistLinked'
<1> SUFFICES ASSUME NEW c \in Stored', NEW h \in Hist, rows'[c].task = h
             PROVE  /\ h[2] <= Second(rows'[c].at)
                    /\ \/ Second(rows'[c].at) = h[2]
                       \/ \E e \in Stored' : /\ rows'[e].task = h
                                             /\ rows'[e].owner = rows'[c].owner
                                             /\ rows'[e].at < rows'[c].at
                                             /\ rows'[c].at - rows'[e].at <= Gap
  <2>1. Hist' = Hist
    BY DEF Hist, Second
  <2> QED
    BY <2>1 DEF HistLinked, Before, Second
<1>1. c \in Stored
  <2>1. SUFFICES ASSUME c \notin Stored PROVE FALSE
    OBVIOUS
  <2>2. PICK w \in Writers : c \in RowsOf(w) /\ rows'[c] = rows[c]
    BY <2>1, StoredKept
  <2>3. c \in open
    BY <2>2 DEF RowsOf
  <2> QED
    BY <2>2, <2>3 DEF OpenRowsDated
<1>2. /\ rows'[c].owner = rows[c].owner /\ rows'[c].at = rows[c].at
      /\ \A e \in Stored : /\ e \in Stored' /\ rows'[e].owner = rows[e].owner
                           /\ rows'[e].at = rows[e].at
  BY <1>1, StoredKept
<1>3. CASE rows[c].task = h
  <2>1. /\ h[2] <= Second(rows[c].at)
        /\ \/ Second(rows[c].at) = h[2]
           \/ \E e \in Stored :
                rows[e].task = h /\ rows[e].owner = rows[c].owner /\ Before(e, c)
    BY <1>1, <1>3 DEF HistLinked
  <2>2. ASSUME NEW e \in Stored, rows[e].task = h PROVE rows'[e].task = h
    <3>1. CASE ~Groups
      BY <2>2, <3>1, StoredKept
    <3>2. CASE Groups
      <4>1. e \notin DOMAIN backfill.moves
        <5>1. h # None
          BY KeysApart DEF Tasks
        <5> QED
          BY <2>2, <3>2, <5>1 DEF Groups, BackfillHolds, MovesLinked
      <4>2. e \in DOMAIN rows
        BY DEF Stored
      <4> QED
        BY <2>2, <3>2, <4>1, <4>2 DEF Groups
    <3> QED
      BY <3>1, <3>2
  <2> QED
    BY <1>2, <2>1, <2>2 DEF Before
<1>4. CASE rows[c].task # h
  <2>1. Groups
    BY <1>1, <1>4, StoredKept
  <2>2. /\ c \in DOMAIN backfill.moves /\ backfill.moves[c] = h
        /\ \A e \in DOMAIN backfill.moves : /\ e \in Stored
                                            /\ rows'[e].task = backfill.moves[e]
    <3>1. \A e \in DOMAIN backfill.moves : e \in Stored /\ e \in DOMAIN rows
      BY <2>1 DEF Groups, BackfillHolds, MovesLinked, Stored
    <3>2. c \in DOMAIN rows
      BY <1>1 DEF Stored
    <3> QED
      BY <1>4, <2>1, <3>1, <3>2 DEF Groups
  <2>3. /\ backfill.moves[c][2] <= Second(rows[c].at)
        /\ \/ Second(rows[c].at) = backfill.moves[c][2]
           \/ \E e \in DOMAIN backfill.moves :
                /\ backfill.moves[e] = backfill.moves[c]
                /\ rows[e].owner = rows[c].owner /\ Before(e, c)
    BY <2>1, <2>2 DEF Groups, BackfillHolds, MovesLinked
  <2> QED
    BY <1>2, <2>2, <2>3 DEF Before
<1> QED
  BY <1>3, <1>4

(* The second of a run's key is less than the gap.                         *)
LEMMA RunsAreChained ==
  ASSUME TypeOK, HistLinked
  PROVE  RunsChained
<1> SUFFICES ASSUME NEW h \in Hist, NEW c \in Stored, NEW d \in Stored,
                    rows[c].task = h, rows[d].task = h, rows[c].owner = rows[d].owner,
                    rows[c].at - rows[d].at > Gap
             PROVE  \E e \in Stored :
                      /\ rows[e].task = h /\ rows[e].owner = rows[c].owner
                      /\ rows[e].at < rows[c].at /\ rows[c].at - rows[e].at <= Gap
  BY DEF RunsChained
<1>1. Second(rows[c].at) # h[2]
  <2>1. SUFFICES ASSUME Second(rows[c].at) = h[2] PROVE FALSE
    OBVIOUS
  <2>2. rows[c].at \in Nat /\ rows[d].at \in Nat
    BY TypeParts DEF Stored
  <2>3. Gap \in Nat /\ PerSecond \in Nat /\ PerSecond <= Gap
    BY BillingConstants
  <2>4. rows[d].at <= rows[c].at
    BY <2>2, <2>3
  <2>5. Second(rows[d].at) <= Second(rows[c].at) /\ h[2] <= Second(rows[d].at)
    BY <2>2, <2>4, Seconds DEF HistLinked
  <2>6. Second(rows[d].at) = Second(rows[c].at)
    BY <2>1, <2>2, <2>5, Seconds
  <2>7. rows[c].at - rows[d].at < PerSecond
    BY <2>2, <2>4, <2>6, Seconds
  <2> QED
    BY <2>2, <2>3, <2>7
<1> QED
  BY <1>1 DEF HistLinked, Before

-----------------------------------------------------------------------------
(* What the script holds.                                                  *)

(* The calls of a group begin at its start, and each other follows one of  *)
(* the group within the gap.                                               *)
LEMMA GroupLinks ==
  ASSUME TypeOK, NEW S \in SUBSET Stored, NEW t \in Starts(S)
  PROVE  /\ t \in 1..MaxTime
         /\ \A c \in GroupAt(S, t) :
              /\ c \in S /\ t <= rows[c].at
              /\ rows[c].at = t \/ \E e \in GroupAt(S, t) : Before(e, c)
<1>1. /\ Gap \in Nat
      /\ \A c \in S : rows[c].at \in Nat /\ rows[c].at \in 1..MaxTime
  BY BillingConstants, TypeParts DEF Stored, RowType
<1>2. PICK d0 \in S : t = rows[d0].at
  BY DEF Starts
<1>3. t \in Nat /\ t \in 1..MaxTime
  BY <1>1, <1>2
<1>4. \A d \in S : rows[d].at < t => t - rows[d].at > Gap
  BY DEF Starts
<1>5. ASSUME NEW c \in GroupAt(S, t), rows[c].at # t
      PROVE  \E e \in GroupAt(S, t) : Before(e, c)
  <2>1. /\ c \in S /\ rows[c].at >= t
        /\ \A u \in Starts(S) : u > t => rows[c].at < u
    BY DEF GroupAt
  <2>2. rows[c].at > t /\ rows[c].at \in Nat
    BY <1>1, <1>3, <1>5, <2>1
  <2>3. rows[c].at \notin Starts(S)
    BY <2>1, <2>2
  <2>4. PICK d \in S : rows[d].at < rows[c].at /\ ~(rows[c].at - rows[d].at > Gap)
    BY <2>1, <2>3 DEF Starts
  <2>5. rows[d].at \in Nat
    BY <1>1
  <2>6. rows[d].at >= t
    BY <1>1, <1>3, <1>4, <2>2, <2>4, <2>5
  <2>7. ASSUME NEW u \in Starts(S), u > t PROVE rows[d].at < u
    <3>1. rows[c].at < u
      BY <2>1, <2>7
    <3>2. u \in Nat
      BY <1>1 DEF Starts
    <3> QED
      BY <2>2, <2>4, <2>5, <3>1, <3>2
  <2>8. d \in GroupAt(S, t)
    BY <2>6, <2>7 DEF GroupAt
  <2>9. Before(d, c)
    BY <1>1, <2>2, <2>4, <2>5 DEF Before
  <2> QED
    BY <2>8, <2>9
<1>6. \A c \in GroupAt(S, t) : c \in S /\ t <= rows[c].at
  BY <1>1, <1>3 DEF GroupAt
<1> QED
  BY <1>3, <1>5, <1>6

LEMMA GroupsApart ==
  ASSUME TypeOK, NEW S \in SUBSET Stored, NEW t \in Starts(S), NEW u \in Starts(S), t # u
  PROVE  GroupAt(S, t) \cap GroupAt(S, u) = {}
<1>1. \A c \in S : rows[c].at \in Nat
  BY TypeParts DEF Stored
<1>2. t \in Nat /\ u \in Nat
  BY <1>1 DEF Starts
<1> SUFFICES ASSUME NEW c \in GroupAt(S, t), c \in GroupAt(S, u) PROVE FALSE
  OBVIOUS
<1>3. /\ rows[c].at \in Nat /\ rows[c].at >= t /\ rows[c].at >= u
      /\ u > t => rows[c].at < u
      /\ t > u => rows[c].at < t
  BY <1>1 DEF GroupAt
<1> QED
  BY <1>2, <1>3

LEMMA NextGroupIsOne ==
  ASSUME GroupsLinked, backfill.groups # {}
  PROVE  NextGroup \in backfill.groups
<1>1. PICK T : T = {g.start : g \in backfill.groups}
  OBVIOUS
<1>2. T \subseteq Nat /\ T # {}
  BY <1>1 DEF GroupsLinked
<1>3. MinOf(T) \in T /\ \A y \in T : MinOf(T) <= y
  BY <1>2, LeastNatural
<1>4. \E g \in backfill.groups : \A h \in backfill.groups : g.start <= h.start
  BY <1>1, <1>3
<1> QED
  BY <1>4, Zenon DEF NextGroup

(* While others work on the ledger, it holds what it held.                 *)
LEMMA ScriptWaits ==
  ASSUME TypeOK, BackfillHolds, LedgerEffects, Script
  PROVE  BackfillHolds'
<1> SUFFICES ASSUME backfill # Resting PROVE BackfillHolds'
  BY DEF BackfillHolds, Script
<1>1. ~Groups /\ backfill' = backfill
  BY DEF Groups, Script
<1>2. /\ DOMAIN backfill = {"at", "began", "groups", "agent", "left", "added", "moves"}
      /\ backfill.at = "agents" /\ backfill.left \subseteq Agents
      /\ backfill.began \in 1..MaxTime
      /\ \A h \in DOMAIN backfill.added : h \in Hist /\ backfill.added[h] \in Agents
      /\ backfill.groups # {} => backfill.agent \notin backfill.left
      /\ GroupsLinked /\ MovesLinked
  BY DEF BackfillHolds
<1>3. \A c \in Stored : /\ c \in Stored' /\ rows'[c].task = rows[c].task
                        /\ rows'[c].owner = rows[c].owner /\ rows'[c].at = rows[c].at
  BY <1>1, StoredKept
<1>4. Hist' = Hist /\ \A t : Second(t)' = Second(t)
  BY DEF Hist, Second
<1>5. GroupsLinked'
  <2>1. ASSUME NEW g \in backfill.groups
        PROVE  /\ g.start \in 1..MaxTime /\ g.calls \subseteq Orphans(backfill.agent)'
               /\ \A c \in g.calls :
                    /\ g.start <= rows'[c].at
                    /\ \/ rows'[c].at = g.start
                       \/ \E e \in g.calls : /\ rows'[e].at < rows'[c].at
                                             /\ rows'[c].at - rows'[e].at <= Gap
    <3>1. /\ g.start \in 1..MaxTime /\ g.calls \subseteq Orphans(backfill.agent)
          /\ \A c \in g.calls : /\ g.start <= rows[c].at
                                /\ rows[c].at = g.start \/ \E e \in g.calls : Before(e, c)
      BY <1>2 DEF GroupsLinked
    <3>2. \A c \in g.calls : c \in Stored
      BY <3>1 DEF Orphans
    <3>3. \A c \in g.calls : rows'[c].at = rows[c].at
      BY <1>3, <3>2
    <3>4. g.calls \subseteq Orphans(backfill.agent)'
      BY <1>1, <1>3, <3>1 DEF Orphans
    <3> QED
      BY <3>1, <3>3, <3>4 DEF Before
  <2> QED
    BY <1>1, <1>2, <2>1 DEF GroupsLinked, Before
<1>6. MovesLinked'
  <2>1. ASSUME NEW c \in DOMAIN backfill.moves
        PROVE  /\ c \in Stored' /\ rows'[c].task = None
               /\ backfill.moves[c] \in Hist
               /\ backfill.moves[c][2] <= Second(rows'[c].at)
               /\ \/ Second(rows'[c].at) = backfill.moves[c][2]
                  \/ \E e \in DOMAIN backfill.moves :
                       /\ backfill.moves[e] = backfill.moves[c]
                       /\ rows'[e].owner = rows'[c].owner /\ rows'[e].at < rows'[c].at
                       /\ rows'[c].at - rows'[e].at <= Gap
               /\ rows'[c].owner \notin backfill.left
               /\ \A g \in backfill.groups : c \notin g.calls
    <3>1. \A d \in DOMAIN backfill.moves : d \in Stored
      BY <1>2 DEF MovesLinked
    <3> QED
      BY <1>2, <1>3, <3>1 DEF MovesLinked, Before
  <2> QED
    BY <1>1, <1>4, <2>1 DEF MovesLinked, Before, Second
<1> QED
  BY <1>1, <1>2, <1>4, <1>5, <1>6 DEF BackfillHolds

(* The rows and Tasks are as they were while the script works.             *)
LEMMA ScriptKeeps ==
  ASSUME TypeOK, now' \in 1..MaxTime, now' >= now, runs' \in 0..MaxRuns,
         UNCHANGED <<clientOf, began, ledger, taskRows, panel>>
  PROVE  Keeps /\ Report
<1>1. UNCHANGED <<rows, open, report, created, columns, closed, closing, running>>
  BY DEF ledger, panel, taskRows
<1>2. TypeOK'
  BY <1>1 DEF TypeOK, Statuses, Columns
<1>3. Closings
  BY <1>1 DEF Closings
<1> QED
  BY <1>1, <1>2, <1>3 DEF Keeps, Around, Report

LEMMA NowKept ==
  ASSUME TypeOK, now' = now, runs' = runs
  PROVE  now' \in 1..MaxTime /\ now' >= now /\ runs' \in 0..MaxRuns
BY BillingConstants DEF TypeOK

LEMMA BackfillStartStep ==
  ASSUME TypeOK, BackfillStart
  PROVE  Keeps /\ Report /\ BackfillHolds'
<1>1. now' \in 1..MaxTime /\ now' >= now /\ runs' \in 0..MaxRuns
  BY TickKept, BillingConstants DEF BackfillStart, TypeOK
<1>2. Keeps /\ Report
  BY <1>1, ScriptKeeps DEF BackfillStart
<1>3. PICK new : new = [at |-> "agents", began |-> now, groups |-> {}, agent |-> None,
                        left |-> {a \in Agents : Orphans(a) # {}},
                        added |-> [h \in {} |-> None], moves |-> [c \in {} |-> None]]
  OBVIOUS
<1>4. /\ DOMAIN new = {"at", "began", "groups", "agent", "left", "added", "moves"}
      /\ new.at = "agents" /\ new.left \subseteq Agents /\ DOMAIN new.added = {}
      /\ new.groups = {} /\ DOMAIN new.moves = {} /\ new.began \in 1..MaxTime
  BY <1>3, TypeParts
<1>5. backfill' = new
  BY <1>3 DEF BackfillStart
<1>6. GroupsLinked' /\ MovesLinked'
  BY <1>4, <1>5 DEF GroupsLinked, MovesLinked
<1> QED
  BY <1>2, <1>4, <1>5, <1>6 DEF BackfillHolds

LEMMA BackfillEnds ==
  ASSUME TypeOK, backfill' = Resting,
         UNCHANGED <<clientOf, now, began, ledger, taskRows, runs, panel>>
  PROVE  Keeps /\ Report /\ BackfillHolds'
<1>1. Keeps /\ Report
  BY NowKept, ScriptKeeps
<1> QED
  BY <1>1 DEF BackfillHolds, Resting

LEMMA BackfillAgentStep ==
  ASSUME TypeOK, BackfillHolds, NEW a \in Agents, BackfillAgent(a)
  PROVE  Keeps /\ Report /\ BackfillHolds'
<1>1. /\ backfill # Resting /\ backfill.groups = {} /\ a \in backfill.left
      /\ UNCHANGED <<clientOf, now, began, ledger, taskRows, runs, panel>>
  BY DEF BackfillAgent
<1>2. Keeps /\ Report
  BY <1>1, NowKept, ScriptKeeps
<1>3. PICK S : S = Orphans(a)
  OBVIOUS
<1>4. S \in SUBSET Stored
  BY <1>3 DEF Orphans
<1>5. PICK groups : groups = IF S = {} THEN {}
                             ELSE {[start |-> t, calls |-> GroupAt(S, t)] : t \in Starts(S)}
  OBVIOUS
<1>6. ASSUME NEW g \in groups
      PROVE  \E t \in Starts(S) : g.start = t /\ g.calls = GroupAt(S, t)
                                  /\ g = [start |-> t, calls |-> GroupAt(S, t)]
  BY <1>5
<1>7. /\ DOMAIN backfill = {"at", "began", "groups", "agent", "left", "added", "moves"}
      /\ backfill.at = "agents" /\ backfill.left \subseteq Agents
      /\ backfill.began \in 1..MaxTime /\ MovesLinked
      /\ \A h \in DOMAIN backfill.added : h \in Hist /\ backfill.added[h] \in Agents
  BY <1>1 DEF BackfillHolds
<1>8. backfill' = [backfill EXCEPT !.left = @ \ {a}, !.agent = a, !.groups = groups]
  BY <1>3, <1>5 DEF BackfillAgent
<1>9. /\ DOMAIN backfill' = DOMAIN backfill
      /\ backfill'.at = "agents" /\ backfill'.left = backfill.left \ {a}
      /\ backfill'.agent = a /\ backfill'.groups = groups
      /\ backfill'.added = backfill.added /\ backfill'.moves = backfill.moves
      /\ backfill'.began = backfill.began
  BY <1>7, <1>8
<1>10. UNCHANGED <<rows, open, clientOf>>
  BY <1>1 DEF ledger
<1>11. GroupsLinked'
  <2>1. ASSUME NEW g \in groups
        PROVE  /\ g.start \in 1..MaxTime /\ g.calls \subseteq Orphans(a)
               /\ \A c \in g.calls : /\ g.start <= rows[c].at
                                     /\ rows[c].at = g.start \/ \E e \in g.calls : Before(e, c)
               /\ \A h \in groups : g # h => g.calls \cap h.calls = {}
    <3>1. PICK t \in Starts(S) : g.start = t /\ g.calls = GroupAt(S, t)
                                  /\ g = [start |-> t, calls |-> GroupAt(S, t)]
      BY <1>6, <2>1
    <3>2. ASSUME NEW h \in groups, g # h PROVE g.calls \cap h.calls = {}
      <4>1. PICK u \in Starts(S) : h.start = u /\ h.calls = GroupAt(S, u)
                                    /\ h = [start |-> u, calls |-> GroupAt(S, u)]
        BY <1>6, <3>2
      <4>2. t # u
        BY <3>1, <3>2, <4>1
      <4> QED
        BY <1>4, <3>1, <4>1, <4>2, GroupsApart
    <3>3. /\ t \in 1..MaxTime
          /\ \A c \in GroupAt(S, t) :
               /\ c \in S /\ t <= rows[c].at
               /\ rows[c].at = t \/ \E e \in GroupAt(S, t) : Before(e, c)
      BY <1>4, GroupLinks
    <3> QED
      BY <1>3, <3>1, <3>2, <3>3
  <2>2. Orphans(a)' = Orphans(a)
    BY <1>10 DEF Orphans, Stored
  <2> QED
    BY <1>9, <1>10, <2>1, <2>2 DEF GroupsLinked, Before
<1>12. MovesLinked'
  <2>1. ASSUME NEW c \in DOMAIN backfill.moves, NEW g \in groups PROVE c \notin g.calls
    <3>1. rows[c].owner # a
      BY <1>1, <1>7 DEF MovesLinked
    <3>2. \A d \in g.calls : d \in S
      BY <1>6 DEF GroupAt
    <3> QED
      BY <1>3, <3>1, <3>2 DEF Orphans
  <2>2. ASSUME NEW c \in DOMAIN backfill.moves
        PROVE  /\ c \in Stored' /\ rows'[c].task = None
               /\ backfill.moves[c] \in Hist
               /\ backfill.moves[c][2] <= Second(rows'[c].at)
               /\ \/ Second(rows'[c].at) = backfill.moves[c][2]
                  \/ \E e \in DOMAIN backfill.moves :
                       /\ backfill.moves[e] = backfill.moves[c]
                       /\ rows'[e].owner = rows'[c].owner /\ rows'[e].at < rows'[c].at
                       /\ rows'[c].at - rows'[e].at <= Gap
               /\ rows'[c].owner \notin backfill.left \ {a}
    BY <1>7, <1>10 DEF MovesLinked, Before, Stored
  <2>3. Hist' = Hist /\ \A t : Second(t)' = Second(t)
    BY DEF Hist, Second
  <2> QED
    BY <1>9, <2>1, <2>2, <2>3 DEF MovesLinked, Before, Second
<1>13. Hist' = Hist
  BY DEF Hist, Second
<1> QED
  BY <1>2, <1>7, <1>9, <1>11, <1>12, <1>13 DEF BackfillHolds

(* The calls of a group get the key of its first.                          *)
LEMMA BackfillGroupStep ==
  ASSUME TypeOK, BackfillHolds, BackfillGroup
  PROVE  Keeps /\ Report /\ BackfillHolds'
<1>1. /\ backfill # Resting /\ backfill.groups # {}
      /\ UNCHANGED <<clientOf, now, began, ledger, taskRows, runs, panel>>
  BY DEF BackfillGroup
<1>2. Keeps /\ Report
  BY <1>1, NowKept, ScriptKeeps
<1>3. /\ DOMAIN backfill = {"at", "began", "groups", "agent", "left", "added", "moves"}
      /\ backfill.at = "agents" /\ backfill.left \subseteq Agents
      /\ backfill.began \in 1..MaxTime
      /\ \A h \in DOMAIN backfill.added : h \in Hist /\ backfill.added[h] \in Agents
      /\ GroupsLinked /\ MovesLinked
      /\ backfill.agent \notin backfill.left
  BY <1>1 DEF BackfillHolds
<1>4. PICK g : g = NextGroup
  OBVIOUS
<1>5. /\ g \in backfill.groups /\ backfill.agent \in Agents
      /\ g.start \in 1..MaxTime /\ g.calls \subseteq Orphans(backfill.agent)
      /\ \A c \in g.calls : /\ g.start <= rows[c].at
                            /\ rows[c].at = g.start \/ \E e \in g.calls : Before(e, c)
      /\ \A h \in backfill.groups : g # h => g.calls \cap h.calls = {}
  BY <1>1, <1>3, <1>4, NextGroupIsOne DEF GroupsLinked
<1>6. PICK key : key = KeyOf(g)
  OBVIOUS
<1>7. key \in Hist /\ key[2] = Second(g.start)
  <2>1. clientOf[backfill.agent] \in Clients
    BY <1>5, TypeParts
  <2>2. g.start \in 0..MaxTime
    BY <1>5, BillingConstants
  <2> QED
    BY <1>6, <2>1, <2>2 DEF KeyOf, Hist
<1>8. PICK moves : moves = [c \in DOMAIN backfill.moves \cup g.calls |->
                             IF c \in g.calls THEN key ELSE backfill.moves[c]]
  OBVIOUS
<1>9. PICK added : added = [h \in DOMAIN backfill.added \cup ({key} \ DOMAIN created) |->
                             IF h \in DOMAIN backfill.added THEN backfill.added[h]
                             ELSE backfill.agent]
  OBVIOUS
<1>10. backfill' = [backfill EXCEPT !.groups = @ \ {g}, !.added = added, !.moves = moves]
  BY <1>4, <1>6, <1>8, <1>9 DEF BackfillGroup
<1>11. /\ DOMAIN backfill' = DOMAIN backfill
       /\ backfill'.at = "agents" /\ backfill'.left = backfill.left
       /\ backfill'.agent = backfill.agent /\ backfill'.groups = backfill.groups \ {g}
       /\ backfill'.added = added /\ backfill'.moves = moves
       /\ backfill'.began = backfill.began
  BY <1>3, <1>10
<1>12. \A h \in DOMAIN added : h \in Hist /\ added[h] \in Agents
  BY <1>3, <1>5, <1>7, <1>9
<1>13. UNCHANGED <<rows, open, clientOf>>
  BY <1>1 DEF ledger
<1>14. Hist' = Hist /\ \A t : Second(t)' = Second(t)
  BY DEF Hist, Second
<1>15. GroupsLinked'
  <2>1. Orphans(backfill.agent)' = Orphans(backfill.agent)
    BY <1>11, <1>13 DEF Orphans, Stored
  <2> QED
    BY <1>3, <1>5, <1>11, <1>13, <2>1 DEF GroupsLinked, Before
<1>16. MovesLinked'
  <2>1. ASSUME NEW c \in g.calls
        PROVE  /\ c \in Stored /\ rows[c].task = None /\ moves[c] = key
               /\ key[2] <= Second(rows[c].at)
               /\ \/ Second(rows[c].at) = key[2]
                  \/ \E e \in DOMAIN moves :
                       /\ moves[e] = key /\ rows[e].owner = rows[c].owner /\ Before(e, c)
               /\ rows[c].owner \notin backfill.left
               /\ \A h \in backfill.groups \ {g} : c \notin h.calls
    <3>1. \A e \in g.calls : /\ e \in Stored /\ rows[e].task = None
                             /\ rows[e].owner = backfill.agent
                             /\ e \in DOMAIN moves /\ moves[e] = key
      BY <1>5, <1>8 DEF Orphans
    <3>2. rows[c].at \in Nat /\ g.start \in Nat
      BY <1>5, <3>1, TypeParts, BillingConstants DEF Stored
    <3>3. g.start <= rows[c].at
      BY <1>5
    <3>4. key[2] <= Second(rows[c].at)
      BY <1>7, <3>2, <3>3, Seconds
    <3>5. \/ Second(rows[c].at) = key[2]
          \/ \E e \in g.calls : Before(e, c)
      BY <1>5, <1>7
    <3> QED
      BY <1>3, <1>5, <3>1, <3>4, <3>5
  <2>2. ASSUME NEW c \in DOMAIN backfill.moves
        PROVE  /\ c \in Stored /\ rows[c].task = None /\ moves[c] = backfill.moves[c]
               /\ moves[c] \in Hist /\ moves[c][2] <= Second(rows[c].at)
               /\ \/ Second(rows[c].at) = moves[c][2]
                  \/ \E e \in DOMAIN moves :
                       /\ moves[e] = moves[c] /\ rows[e].owner = rows[c].owner /\ Before(e, c)
               /\ rows[c].owner \notin backfill.left
               /\ \A h \in backfill.groups \ {g} : c \notin h.calls
    <3>1. \A d \in DOMAIN backfill.moves : d \in DOMAIN moves /\ moves[d] = backfill.moves[d]
      BY <1>3, <1>5, <1>8 DEF MovesLinked
    <3> QED
      BY <1>3, <3>1 DEF MovesLinked
  <2>3. ASSUME NEW c \in DOMAIN moves
        PROVE  /\ c \in Stored' /\ rows'[c].task = None
               /\ moves[c] \in Hist /\ moves[c][2] <= Second(rows'[c].at)
               /\ \/ Second(rows'[c].at) = moves[c][2]
                  \/ \E e \in DOMAIN moves :
                       /\ moves[e] = moves[c] /\ rows'[e].owner = rows'[c].owner
                       /\ rows'[e].at < rows'[c].at /\ rows'[c].at - rows'[e].at <= Gap
               /\ rows'[c].owner \notin backfill.left
               /\ \A h \in backfill.groups \ {g} : c \notin h.calls
    <3>1. c \in g.calls \/ c \in DOMAIN backfill.moves
      BY <1>8
    <3> QED
      BY <1>7, <1>13, <2>1, <2>2, <3>1 DEF Before, Stored
  <2> QED
    BY <1>11, <1>14, <2>3 DEF MovesLinked, Before, Second
<1> QED
  BY <1>2, <1>3, <1>11, <1>12, <1>14, <1>15, <1>16 DEF BackfillHolds

-----------------------------------------------------------------------------
(* A settled period.                                                       *)

LEMMA TasksAreFinite == IsFiniteSet(Tasks)
<1>1. PICK n : n = Second(MaxTime)
  OBVIOUS
<1>2. n \in Nat /\ \A t \in 0..MaxTime : Second(t) \in 0..n
  BY <1>1, Seconds, BillingConstants
<1>3. PICK S : S = {Second(t) : t \in 0..MaxTime}
  OBVIOUS
<1>4. IsFiniteSet(S)
  <2>1. S \in SUBSET (0..n)
    BY <1>2, <1>3
  <2>2. IsFiniteSet(0..n)
    BY <1>2, FS_Interval
  <2> QED
    BY <2>1, <2>2, FS_Subset
<1>5. IsFiniteSet(Hist) /\ IsFiniteSet(Issues)
  BY <1>3, <1>4, FS_Product, BillingConstants DEF Hist
<1> QED
  BY <1>5, FS_Union DEF Tasks

(* The Tasks of a period can be counted.                                   *)
LEMMA ClosedCounted ==
  ASSUME TypeOK, NEW k, NEW T \in SUBSET ClientClosed(k)
  PROVE  /\ IsFiniteSet(T) /\ Cardinality(T) \in Nat
         /\ Cardinality(ClientClosed(k)) \in Nat
         /\ Cardinality(T) <= Cardinality(ClientClosed(k))
<1>1. ClientClosed(k) \in SUBSET Tasks
  BY DEF ClientClosed, TypeOK
<1>2. IsFiniteSet(ClientClosed(k))
  BY <1>1, TasksAreFinite, FS_Subset
<1> QED
  BY <1>2, FS_Subset, FS_CardinalityType

(* Late calls and closings carry later dates; only the Task of an analysis *)
(* that is closed once more leaves the period.                             *)
LEMMA SettledStays ==
  ASSUME TypeOK, OpenRowsDated, LedgerEffects, Settled
  PROVE  /\ Settled'
         /\ \A k \in Clients :
              /\ ClientCalls(k)' = ClientCalls(k) /\ ClientClosed(k)' \subseteq ClientClosed(k)
              /\ \A t \in ClientClosed(k) \ ClientClosed(k)' :
                   t \in Analyses /\ t \in DOMAIN closed'
              /\ \A c \in ClientCalls(k) : /\ rows'[c].writer = rows[c].writer
                                           /\ rows'[c].failed = rows[c].failed
<1>1. /\ now \in Nat /\ now' \in Nat /\ PeriodEnd \in Nat /\ now' >= now /\ now > PeriodEnd
      /\ \A w \in Writers : began[w] \in Nat /\ (began[w] = 0 \/ began[w] > PeriodEnd)
      /\ \A p \in closing : p.at \in Nat /\ p.at > PeriodEnd /\ p.task \in Analyses
  <2>1. now' \in 1..MaxTime /\ MaxTime \in Nat
    BY TypesKept, BillingConstants DEF TypeOK
  <2> QED
    BY <2>1, TypeParts, TypesKept, BillingConstants DEF Settled
<1>2. Settled'
  <2>1. \A w \in Writers : began'[w] = began[w] \/ began'[w] = 0 \/ began'[w] = now
    BY DEF LedgerEffects, Keeps, Groups, Adds, Commits, Rolls, Closes
  <2>2. \A w \in Writers : began'[w] = 0 \/ began'[w] > PeriodEnd
    BY <1>1, <2>1
  <2>3. \A p \in closing' : p.at > PeriodEnd
    BY <1>1 DEF LedgerEffects, Keeps, Closings, Groups, Adds, Commits, Rolls, Closes
  <2> QED
    BY <1>1, <2>2, <2>3 DEF Settled
<1>3. ASSUME NEW k \in Clients
      PROVE  /\ ClientCalls(k)' = ClientCalls(k)
             /\ \A c \in ClientCalls(k) : /\ rows'[c].writer = rows[c].writer
                                          /\ rows'[c].failed = rows[c].failed
  <2>1. \A c \in Stored : /\ c \in Stored'
                          /\ rows'[c].owner = rows[c].owner /\ rows'[c].at = rows[c].at
                          /\ rows'[c].writer = rows[c].writer
                          /\ rows'[c].failed = rows[c].failed
    BY StoredKept
  <2>2. ASSUME NEW c \in Stored', c \notin Stored PROVE ~(rows'[c].at <= PeriodEnd)
    <3>1. PICK w \in Writers : Commits(w) /\ c \in RowsOf(w) /\ rows'[c] = rows[c]
      BY <2>2, StoredKept
    <3>2. rows[c].at = began[w] /\ began[w] # 0
      BY <3>1 DEF RowsOf, OpenRowsDated, Commits, Closes
    <3> QED
      BY <1>1, <3>1, <3>2
  <2>3. clientOf' = clientOf
    BY TypesKept
  <2>4. ClientCalls(k)' = {c \in Stored' : clientOf[rows'[c].owner] = k /\ rows'[c].at <= PeriodEnd}
    BY <2>3 DEF ClientCalls, InPeriod
  <2>5. ClientCalls(k) = {c \in Stored : clientOf[rows[c].owner] = k /\ rows[c].at <= PeriodEnd}
    BY DEF ClientCalls, InPeriod
  <2>6. \A c : c \in ClientCalls(k)' <=> c \in ClientCalls(k)
    BY <2>1, <2>2, <2>4, <2>5
  <2> QED
    BY <2>1, <2>5, <2>6
<1>4. ASSUME NEW k \in Clients
      PROVE  /\ ClientClosed(k)' \subseteq ClientClosed(k)
             /\ \A t \in ClientClosed(k) \ ClientClosed(k)' :
                  t \in Analyses /\ t \in DOMAIN closed'
  <2>1. /\ DOMAIN closed \subseteq DOMAIN closed'
        /\ \A t \in DOMAIN closed' : \/ t \in DOMAIN closed /\ closed'[t] = closed[t]
                                     \/ \E p \in closing : p.task = t /\ closed'[t] = p.at
    BY DEF LedgerEffects, Keeps, Closings, Groups, Adds, Commits, Rolls, Closes
  <2>2. \A t \in DOMAIN closed' : closed'[t] <= PeriodEnd =>
          t \in DOMAIN closed /\ closed'[t] = closed[t]
    BY <1>1, <2>1
  <2>3. /\ ClientClosed(k) = {t \in DOMAIN closed : clientOf[t] = k /\ closed[t] <= PeriodEnd}
        /\ ClientClosed(k)' = {t \in DOMAIN closed' : clientOf[t] = k /\ closed'[t] <= PeriodEnd}
    BY TypesKept DEF ClientClosed, InPeriod
  <2>4. ClientClosed(k)' \subseteq ClientClosed(k)
    BY <2>2, <2>3
  <2>5. ASSUME NEW t \in ClientClosed(k), t \notin ClientClosed(k)'
        PROVE  t \in Analyses /\ t \in DOMAIN closed'
    <3>1. t \in DOMAIN closed' /\ closed'[t] # closed[t]
      BY <2>1, <2>3, <2>5
    <3> QED
      BY <1>1, <2>1, <3>1
  <2> QED
    BY <2>4, <2>5
<1> QED
  BY <1>2, <1>3, <1>4

(* Every figure of its calls stays, and its Tasks become no more.          *)
LEMMA FiguresKept ==
  ASSUME TypeOK, OpenRowsDated, LedgerEffects, Settled, NEW k \in Clients
  PROVE  /\ Due(k)' = Due(k) /\ ClientCalls(k)' = ClientCalls(k)
         /\ ClientSessions(k)' = ClientSessions(k)
         /\ Cardinality(ClientClosed(k)') \in Nat /\ Cardinality(ClientClosed(k)) \in Nat
         /\ Cardinality(ClientClosed(k)') <= Cardinality(ClientClosed(k))
<1>1. /\ ClientCalls(k)' = ClientCalls(k) /\ ClientClosed(k)' \subseteq ClientClosed(k)
      /\ \A c \in ClientCalls(k) : /\ rows'[c].writer = rows[c].writer
                                   /\ rows'[c].failed = rows[c].failed
  BY SettledStays
<1>2. ClientSessions(k)' = ClientSessions(k)
  BY <1>1 DEF ClientSessions
<1>3. Due(k)' = Due(k)
  <2>1. PICK S : S = ClientCalls(k)
    OBVIOUS
  <2>2. [c \in S |-> CostOf(c)]' = [c \in S |-> CostOf(c)]
    BY <1>1, <2>1 DEF CostOf
  <2>3. Due(k) = Total([c \in S |-> CostOf(c)])
    BY <2>1 DEF Due, Sum
  <2>4. Due(k)' = Total([c \in S |-> CostOf(c)]')
    BY <1>1, <2>1 DEF Due, Sum
  <2> QED
    BY <2>2, <2>3, <2>4
<1>4. PICK T : T = ClientClosed(k)'
  OBVIOUS
<1>5. T \in SUBSET ClientClosed(k)
  BY <1>1, <1>4
<1>6. /\ Cardinality(T) \in Nat /\ Cardinality(ClientClosed(k)) \in Nat
      /\ Cardinality(T) <= Cardinality(ClientClosed(k))
  BY <1>5, ClosedCounted
<1> QED
  BY <1>1, <1>2, <1>3, <1>4, <1>6

-----------------------------------------------------------------------------
(* Reports.                                                                *)

\* What may stand in a report of the period.
Exact == UNION {TrueLines(k) : k \in Clients}

Counted ==
  \A k \in Clients :
    report.counted[k] \in Nat /\ Cardinality(ClientClosed(k)) <= report.counted[k]

ReportParts ==
  /\ DOMAIN report = {"at", "left", "lines", "direct", "calls", "tasks", "counted"}
  /\ report.at \in {"sum", "tasks", "managed"}
  /\ report.left \in Seq(Clients) /\ report.left # <<>>
  /\ Counted
  /\ report.lines \in Seq(Exact)

ReportFigures ==
  /\ report.at # "sum" => /\ report.direct = Due(Head(report.left))
                          /\ report.calls = Cardinality(ClientCalls(Head(report.left)))
  /\ report.at = "managed" => LastLine \in TrueLines(Head(report.left))

ReportOrder ==
  /\ \A i, j \in DOMAIN report.lines :
       i < j => report.lines[i].direct >= report.lines[j].direct
  /\ \A i \in DOMAIN report.lines, j \in DOMAIN report.left :
       report.lines[i].direct >= Due(report.left[j])
  /\ \A i, j \in DOMAIN report.left :
       i < j => Due(report.left[i]) >= Due(report.left[j])

LEMMA ReportHoldsParts ==
  /\ ReportHolds <=>
       (report # Resting => Settled /\ ReportParts /\ ReportFigures /\ ReportOrder)
  /\ ReportHolds' <=>
       (report' # Resting => Settled' /\ ReportParts' /\ ReportFigures' /\ ReportOrder')
BY DEF ReportHolds, ReportParts, ReportFigures, ReportOrder, Exact, Counted

(* The figures of k are those they were, its Tasks no more.                *)
SameFigures(k) ==
  /\ Due(k)' = Due(k) /\ ClientCalls(k)' = ClientCalls(k)
  /\ ClientSessions(k)' = ClientSessions(k)
  /\ Cardinality(ClientClosed(k)') \in Nat
  /\ Cardinality(ClientClosed(k)') <= Cardinality(ClientClosed(k))

(* What a report was entitled to show, it still is.                        *)
LEMMA TrueLinesGrow ==
  ASSUME Counted, \A k \in Clients : SameFigures(k) /\ Cardinality(ClientClosed(k)) \in Nat,
         report'.counted = report.counted
  PROVE  /\ Counted' /\ Exact \subseteq Exact'
         /\ \A k \in Clients : TrueLines(k) \subseteq TrueLines(k)'
<1>1. ASSUME NEW k \in Clients
      PROVE  /\ TrueLines(k) \subseteq TrueLines(k)'
             /\ Cardinality(ClientClosed(k)') <= report'.counted[k]
  <2>1. PICK due, calls, sessions :
          /\ due = Due(k) /\ calls = Cardinality(ClientCalls(k))
          /\ sessions = Cardinality(ClientSessions(k))
    OBVIOUS
  <2>2. /\ due = Due(k)' /\ calls = Cardinality(ClientCalls(k)')
        /\ sessions = Cardinality(ClientSessions(k)')
    BY <2>1 DEF SameFigures
  <2>3. PICK least, most, before :
          /\ before = Cardinality(ClientClosed(k)) /\ least = Cardinality(ClientClosed(k)')
          /\ most = report.counted[k]
    OBVIOUS
  <2>4. most \in Nat /\ least \in Nat /\ before \in Nat /\ least <= before /\ before <= most
    BY <2>3 DEF Counted, SameFigures
  <2>5. TrueLines(k) = {Line(k, due, calls, n, sessions) : n \in before..most}
    BY <2>1, <2>3 DEF TrueLines
  <2>6. TrueLines(k)' = {Line(k, due, calls, n, sessions) : n \in least..most}
    BY <2>2, <2>3 DEF TrueLines, Line, Due
  <2>7. before..most \subseteq least..most
    BY <2>4
  <2>8. TrueLines(k) \subseteq TrueLines(k)'
    BY <2>5, <2>6, <2>7
  <2> QED
    BY <2>3, <2>4, <2>8
<1>2. Counted'
  BY <1>1 DEF Counted
<1> QED
  BY <1>1, <1>2 DEF Exact

(* The lines of a report name clients and owe what they owe.               *)
LEMMA LineParts ==
  ASSUME NEW k \in Clients, NEW l \in TrueLines(k)
  PROVE  l.client = k /\ l.direct = Due(k)
BY DEF TrueLines, Line

(* The order of a report is that of what is due.                           *)
LEMMA OrderKept ==
  ASSUME ReportParts, ReportOrder, \A k \in Clients : Due(k)' = Due(k),
         report'.left = report.left, report'.lines = report.lines
  PROVE  ReportOrder'
<1>1. PICK left, lines : left = report.left /\ lines = report.lines
  OBVIOUS
<1>2. \A j \in DOMAIN left : left[j] \in Clients
  BY <1>1, ElementOfSeq DEF ReportParts
<1>3. \A j \in DOMAIN left : Due(left[j])' = Due(left[j])
  BY <1>2
<1>4. /\ \A i, j \in DOMAIN lines : i < j => lines[i].direct >= lines[j].direct
      /\ \A i \in DOMAIN lines, j \in DOMAIN left : lines[i].direct >= Due(left[j])'
      /\ \A i, j \in DOMAIN left : i < j => Due(left[i])' >= Due(left[j])'
  BY <1>1, <1>3 DEF ReportOrder
<1>5. left = report'.left /\ lines = report'.lines
  BY <1>1
<1> QED
  BY <1>4, <1>5 DEF ReportOrder, Due

LEMMA ReportWaits ==
  ASSUME TypeOK, OpenRowsDated, ReportHolds, LedgerEffects, Report
  PROVE  ReportHolds'
<1> SUFFICES ASSUME report # Resting
             PROVE  Settled' /\ ReportParts' /\ ReportFigures' /\ ReportOrder'
  BY ReportHoldsParts DEF Report
<1>1. /\ Settled /\ ReportParts /\ ReportFigures /\ ReportOrder /\ report' = report
  BY ReportHoldsParts DEF Report
<1>2. \A k \in Clients : SameFigures(k) /\ Cardinality(ClientClosed(k)) \in Nat
  BY <1>1, FiguresKept DEF SameFigures
<1>3. /\ Settled' /\ Counted' /\ Exact \subseteq Exact'
      /\ \A k \in Clients : TrueLines(k) \subseteq TrueLines(k)'
  BY <1>1, <1>2, SettledStays, TrueLinesGrow DEF ReportParts
<1>4. ReportParts'
  <2>1. PICK lines, old, new : lines = report.lines /\ old = Exact /\ new = Exact'
    OBVIOUS
  <2>2. lines \in Seq(new)
    BY <1>1, <1>3, <2>1, SeqMonotonic DEF ReportParts
  <2> QED
    BY <1>1, <1>3, <2>1, <2>2 DEF ReportParts
<1>5. ReportFigures'
  <2>1. PICK k : k = Head(report.left)
    OBVIOUS
  <2>2. k \in Clients
    BY <1>1, <2>1, HeadTailProperties DEF ReportParts
  <2>3. /\ report'.at # "sum" => /\ report'.direct = Due(k)'
                                 /\ report'.calls = Cardinality(ClientCalls(k)')
    BY <1>1, <1>2, <2>1, <2>2 DEF ReportFigures, SameFigures
  <2>4. Head(report'.left) = k
    BY <1>1, <2>1
  <2>5. LastLine' = LastLine
    <3>1. ClientSessions(k)' = ClientSessions(k)
      BY <1>2, <2>2 DEF SameFigures
    <3>2. LastLine = Line(k, report.direct, report.calls, report.tasks,
                          Cardinality(ClientSessions(k)))
      BY <2>1 DEF LastLine
    <3>3. LastLine' = Line(k, report.direct, report.calls, report.tasks,
                           Cardinality(ClientSessions(k)'))
      BY <1>1, <2>4 DEF LastLine, Line
    <3> QED
      BY <3>1, <3>2, <3>3
  <2>6. report'.at = "managed" => LastLine' \in TrueLines(k)'
    BY <1>1, <1>3, <2>1, <2>2, <2>5 DEF ReportFigures
  <2> QED
    BY <2>3, <2>4, <2>6 DEF ReportFigures, Due, TrueLines
<1>6. ReportOrder'
  BY <1>1, <1>2, OrderKept DEF SameFigures
<1> QED
  BY <1>3, <1>4, <1>5, <1>6

(* Whoever reads changes nothing else.                                     *)
LEMMA PanelKeeps ==
  ASSUME TypeOK, UNCHANGED <<clientOf, now, began, ledger, taskRows, backfill, runs>>
  PROVE  Keeps /\ Script
<1>1. UNCHANGED <<rows, open, created, columns, closed, closing, running>>
  BY DEF ledger, taskRows
<1>2. TypeOK' /\ now' >= now
  BY <1>1, BillingConstants DEF TypeOK, Columns, Statuses
<1>3. Closings
  BY <1>1 DEF Closings
<1> QED
  BY <1>1, <1>2, <1>3 DEF Keeps, Around, Script

(* The ledger as it was, so are the figures.                               *)
LEMMA PanelFigures ==
  ASSUME TypeOK, UNCHANGED <<clientOf, now, began, ledger, taskRows, backfill, runs>>
  PROVE  /\ Settled' = Settled
         /\ \A k \in Clients :
              /\ SameFigures(k) /\ ClientClosed(k)' = ClientClosed(k)
              /\ Cardinality(ClientClosed(k)) \in Nat
<1>1. UNCHANGED <<rows, open, closed, closing>>
  BY DEF ledger, taskRows
<1>2. Settled' = Settled
  BY <1>1 DEF Settled
<1>3. Stored' = Stored
  BY <1>1 DEF Stored
<1>4. ASSUME NEW k \in Clients
      PROVE  /\ ClientCalls(k)' = ClientCalls(k) /\ ClientClosed(k)' = ClientClosed(k)
             /\ ClientSessions(k)' = ClientSessions(k)
  BY <1>1, <1>3 DEF ClientCalls, ClientClosed, ClientSessions, InPeriod
<1>5. ASSUME NEW k \in Clients PROVE Due(k)' = Due(k)
  <2>1. PICK S : S = ClientCalls(k)
    OBVIOUS
  <2>2. [c \in S |-> CostOf(c)]' = [c \in S |-> CostOf(c)]
    BY <1>1 DEF CostOf
  <2>3. Due(k) = Total([c \in S |-> CostOf(c)])
    BY <2>1 DEF Due, Sum
  <2>4. Due(k)' = Total([c \in S |-> CostOf(c)]')
    BY <1>4, <2>1 DEF Due, Sum
  <2> QED
    BY <2>2, <2>3, <2>4
<1>6. ASSUME NEW k \in Clients
      PROVE  /\ Cardinality(ClientClosed(k)) \in Nat
             /\ Cardinality(ClientClosed(k)) <= Cardinality(ClientClosed(k))
  BY ClosedCounted
<1> QED
  BY <1>2, <1>4, <1>5, <1>6 DEF SameFigures

(* The report a client, or a ranking, asks for.                            *)
LEMMA AskStep ==
  ASSUME TypeOK, NEW clients \in Seq(Clients), Ask(clients),
         \A i, j \in DOMAIN clients : i < j => Due(clients[i]) >= Due(clients[j])
  PROVE  Keeps /\ Script /\ ReportHolds' /\ report' # Resting
<1>1. /\ Settled /\ clients # <<>>
      /\ UNCHANGED <<clientOf, now, began, ledger, taskRows, backfill, runs>>
  BY DEF Ask
<1>2. Keeps /\ Script /\ Settled'
  BY <1>1, PanelKeeps, PanelFigures
<1>3. PICK new : new = [at |-> "sum", left |-> clients, lines |-> <<>>,
                        direct |-> 0, calls |-> 0, tasks |-> 0,
                        counted |-> [k \in Clients |-> Cardinality(ClientClosed(k))]]
  OBVIOUS
<1>4. /\ DOMAIN new = {"at", "left", "lines", "direct", "calls", "tasks", "counted"}
      /\ new.at = "sum" /\ new.left = clients /\ new.lines = <<>>
      /\ \A k \in Clients : new.counted[k] = Cardinality(ClientClosed(k))
  BY <1>3
<1>5. report' = new
  BY <1>3 DEF Ask
<1>6. ReportParts'
  <2>1. new.lines \in Seq(Exact')
    BY <1>4, EmptySeq
  <2>2. Counted'
    <3>1. \A k \in Clients : /\ ClientClosed(k)' = ClientClosed(k)
                             /\ Cardinality(ClientClosed(k)) \in Nat
      BY <1>1, PanelFigures
    <3>2. \A k \in Clients : /\ new.counted[k] \in Nat
                             /\ Cardinality(ClientClosed(k)') <= new.counted[k]
      BY <1>4, <3>1
    <3> QED
      BY <1>5, <3>2 DEF Counted
  <2> QED
    BY <1>1, <1>4, <1>5, <2>1, <2>2 DEF ReportParts
<1>7. ReportFigures'
  BY <1>4, <1>5 DEF ReportFigures
<1>8. ReportOrder'
  <2>1. \A k \in Clients : Due(k)' = Due(k)
    BY <1>1, PanelFigures DEF SameFigures
  <2>2. \A i \in DOMAIN clients : clients[i] \in Clients
    BY ElementOfSeq
  <2>3. \A i, j \in DOMAIN clients : i < j => Due(clients[i])' >= Due(clients[j])'
    BY <2>1, <2>2
  <2>4. DOMAIN new.lines = {}
    <3>1. <<>> \in Seq({}) /\ Len(<<>>) = 0
      BY EmptySeq
    <3> QED
      BY <1>4, <3>1
  <2>5. report'.lines = new.lines /\ report'.left = clients
    BY <1>4, <1>5
  <2> QED
    BY <2>3, <2>4, <2>5 DEF ReportOrder, Due
<1>9. report' # Resting
  BY <1>4, <1>5 DEF Resting
<1> QED
  BY <1>2, <1>6, <1>7, <1>8, <1>9, ReportHoldsParts

LEMMA AskSummaryStep ==
  ASSUME TypeOK, NEW k \in Clients, AskSummary(k)
  PROVE  Keeps /\ Script /\ ReportHolds' /\ report' # Resting
<1>1. PICK clients : clients = <<k>>
  OBVIOUS
<1>2. clients \in Seq(Clients) /\ DOMAIN clients = {1} /\ Ask(clients)
  BY <1>1 DEF AskSummary
<1>3. \A i, j \in DOMAIN clients : i < j => Due(clients[i]) >= Due(clients[j])
  BY <1>2
<1> QED
  BY <1>2, <1>3, AskStep

LEMMA AskRankingStep ==
  ASSUME TypeOK, AskRanking
  PROVE  Keeps /\ Script /\ ReportHolds' /\ report' # Resting
<1>1. PICK s \in SetToSeqs(Active) :
        /\ \A i, j \in DOMAIN s : i < j => Sum(ClientCalls(s[i])) >= Sum(ClientCalls(s[j]))
        /\ Ask(SubSeq(s, 1, Min2(TopClients, Len(s))))
  BY DEF AskRanking
<1>2. IsFiniteSet(Active) /\ Active \subseteq Clients
  <2>1. Active \in SUBSET Clients
    BY DEF Active
  <2> QED
    BY <2>1, FS_Subset, BillingConstants
<1>3. PICK n : n = Cardinality(Active)
  OBVIOUS
<1>4. n \in Nat
  BY <1>2, <1>3, FS_CardinalityType
<1>5. s \in [1..n -> Active]
  BY <1>1, <1>3 DEF SetToSeqs
<1>6. s \in Seq(Clients) /\ Len(s) = n /\ DOMAIN s = 1..n /\ \A i \in 1..n : s[i] \in Clients
  BY <1>2, <1>4, <1>5
<1>7. PICK m : m = Min2(TopClients, Len(s))
  OBVIOUS
<1>8. m \in Nat /\ m <= n
  BY <1>4, <1>6, <1>7, BillingConstants DEF Min2
<1>9. PICK clients : clients = SubSeq(s, 1, m)
  OBVIOUS
<1>10. /\ clients \in Seq(Clients) /\ DOMAIN clients = 1..m
       /\ \A i \in 1..m : clients[i] = s[i]
  <2>1. \A i \in 1..m : s[i] \in Clients
    BY <1>4, <1>6, <1>8
  <2>2. /\ clients \in Seq(Clients) /\ Len(clients) = IF 1 <= m THEN m - 1 + 1 ELSE 0
        /\ \A i \in 1..(m - 1 + 1) : clients[i] = s[1 + i - 1]
    BY <1>8, <1>9, <2>1, SubSeqProperties
  <2>3. Len(clients) = m
    BY <1>8, <2>2
  <2>4. m - 1 + 1 = m /\ \A i \in 1..m : 1 + i - 1 = i
    BY <1>8
  <2> QED
    BY <2>2, <2>3, <2>4, LenProperties
<1>11. \A i, j \in DOMAIN clients : i < j => Due(clients[i]) >= Due(clients[j])
  <2>1. \A i, j \in 1..m : i \in DOMAIN s /\ j \in DOMAIN s
    BY <1>4, <1>6, <1>8
  <2> QED
    BY <1>1, <1>10, <2>1 DEF Due
<1>12. Ask(clients)
  BY <1>1, <1>7, <1>9
<1> QED
  BY <1>10, <1>11, <1>12, AskStep

(* A report goes on: what it shows is what it was entitled to show.        *)
LEMMA ReportGoesOn ==
  ASSUME TypeOK, UNCHANGED <<clientOf, now, began, ledger, taskRows, backfill, runs>>,
         ReportParts, DOMAIN report' = DOMAIN report,
         report'.at \in {"sum", "tasks", "managed"},
         report'.left \in Seq(Clients), report'.left # <<>>,
         report'.counted = report.counted, report'.lines \in Seq(Exact)
  PROVE  ReportParts' /\ \A k \in Clients : TrueLines(k) \subseteq TrueLines(k)'
<1>1. \A k \in Clients : SameFigures(k) /\ Cardinality(ClientClosed(k)) \in Nat
  BY PanelFigures
<1>2. /\ Counted' /\ Exact \subseteq Exact'
      /\ \A k \in Clients : TrueLines(k) \subseteq TrueLines(k)'
  BY <1>1, TrueLinesGrow DEF ReportParts
<1>3. PICK lines, old, new : lines = report'.lines /\ old = Exact /\ new = Exact'
  OBVIOUS
<1>4. lines \in Seq(new)
  BY <1>2, <1>3, SeqMonotonic
<1> QED
  BY <1>2, <1>3, <1>4 DEF ReportParts

LEMMA ReportSumStep ==
  ASSUME TypeOK, ReportHolds, ReportSum
  PROVE  Keeps /\ Script /\ ReportHolds' /\ report' # Resting
<1>1. /\ report.at = "sum" /\ report # Resting
      /\ UNCHANGED <<clientOf, now, began, ledger, taskRows, backfill, runs>>
  BY DEF ReportSum, Resting
<1>2. Keeps /\ Script /\ Settled' = Settled
  BY <1>1, PanelKeeps, PanelFigures
<1>3. Settled /\ ReportParts /\ ReportOrder
  BY <1>1, ReportHoldsParts
<1>4. PICK left, lines : left = report.left /\ lines = report.lines
  OBVIOUS
<1>5. PICK k : k = Head(left)
  OBVIOUS
<1>6. PICK S : S = ClientCalls(k)
  OBVIOUS
<1>7. report' = [report EXCEPT !.at = "tasks", !.direct = Sum(S), !.calls = Cardinality(S)]
  BY <1>4, <1>5, <1>6 DEF ReportSum
<1>8. /\ DOMAIN report' = DOMAIN report /\ report'.at = "tasks"
      /\ report'.left = left /\ report'.lines = lines
      /\ report'.direct = Sum(S) /\ report'.calls = Cardinality(S)
      /\ report'.counted = report.counted
  BY <1>3, <1>4, <1>7 DEF ReportParts
<1>9. k \in Clients /\ left \in Seq(Clients)
  BY <1>3, <1>4, <1>5, HeadTailProperties DEF ReportParts
<1>10. \A c \in Clients : Due(c)' = Due(c) /\ ClientCalls(c)' = ClientCalls(c)
  BY <1>1, PanelFigures DEF SameFigures
<1>11. ReportParts'
  <2>1. left # <<>> /\ lines \in Seq(Exact)
    BY <1>3, <1>4 DEF ReportParts
  <2> QED
    BY <1>1, <1>3, <1>8, <1>9, <2>1, ReportGoesOn
<1>12. ReportFigures'
  <2>1. report'.direct = Due(k)' /\ report'.calls = Cardinality(ClientCalls(k)')
    BY <1>6, <1>8, <1>9, <1>10 DEF Due
  <2>2. Head(report'.left) = k
    BY <1>5, <1>8
  <2> QED
    BY <1>8, <2>1, <2>2 DEF ReportFigures, Due
<1>13. ReportOrder'
  BY <1>3, <1>4, <1>8, <1>10, OrderKept
<1>14. report' # Resting
  BY <1>8 DEF Resting
<1> QED
  BY <1>2, <1>3, <1>11, <1>12, <1>13, <1>14, ReportHoldsParts

LEMMA ReportTasksStep ==
  ASSUME TypeOK, ReportHolds, ReportTasks
  PROVE  Keeps /\ Script /\ ReportHolds' /\ report' # Resting
<1>1. /\ report.at = "tasks" /\ report # Resting
      /\ UNCHANGED <<clientOf, now, began, ledger, taskRows, backfill, runs>>
  BY DEF ReportTasks, Resting
<1>2. Keeps /\ Script /\ Settled' = Settled
  BY <1>1, PanelKeeps, PanelFigures
<1>3. Settled /\ ReportParts /\ ReportOrder /\ ReportFigures
  BY <1>1, ReportHoldsParts
<1>4. PICK left, lines : left = report.left /\ lines = report.lines
  OBVIOUS
<1>5. PICK k : k = Head(left)
  OBVIOUS
<1>6. report' = [report EXCEPT !.at = "managed", !.tasks = Cardinality(ClientClosed(k))]
  BY <1>4, <1>5 DEF ReportTasks
<1>7. /\ DOMAIN report' = DOMAIN report /\ report'.at = "managed"
      /\ report'.left = left /\ report'.lines = lines
      /\ report'.direct = report.direct /\ report'.calls = report.calls
      /\ report'.tasks = Cardinality(ClientClosed(k)) /\ report'.counted = report.counted
  BY <1>3, <1>4, <1>6 DEF ReportParts
<1>8. k \in Clients /\ left \in Seq(Clients)
  BY <1>3, <1>4, <1>5, HeadTailProperties DEF ReportParts
<1>9. \A c \in Clients : SameFigures(c) /\ Due(c)' = Due(c)
  BY <1>1, PanelFigures DEF SameFigures
<1>10. ReportParts' /\ TrueLines(k) \subseteq TrueLines(k)'
  <2>1. left # <<>> /\ lines \in Seq(Exact)
    BY <1>3, <1>4 DEF ReportParts
  <2> QED
    BY <1>1, <1>3, <1>7, <1>8, <2>1, ReportGoesOn
<1>11. ReportFigures'
  <2>1. /\ report.direct = Due(k) /\ report.calls = Cardinality(ClientCalls(k))
        /\ report'.direct = Due(k)' /\ report'.calls = Cardinality(ClientCalls(k)')
    BY <1>1, <1>3, <1>4, <1>5, <1>7, <1>8, <1>9 DEF ReportFigures, SameFigures
  <2>2. Head(report'.left) = k
    BY <1>5, <1>7
  <2>3. PICK n : n = Cardinality(ClientClosed(k))
    OBVIOUS
  <2>4. n \in n..report.counted[k]
    BY <1>1, <1>3, <1>8, <2>3, PanelFigures DEF ReportParts, Counted
  <2>5. Line(k, report.direct, report.calls, n, Cardinality(ClientSessions(k))) \in TrueLines(k)
    BY <2>1, <2>3, <2>4 DEF TrueLines
  <2>6. LastLine' = Line(k, report.direct, report.calls, n, Cardinality(ClientSessions(k)))
    <3>1. LastLine' = Line(k, report.direct, report.calls, n, Cardinality(ClientSessions(k)'))
      BY <1>7, <2>2, <2>3 DEF LastLine, Line
    <3>2. ClientSessions(k)' = ClientSessions(k)
      BY <1>8, <1>9 DEF SameFigures
    <3> QED
      BY <3>1, <3>2
  <2>7. LastLine' \in TrueLines(k)'
    BY <1>10, <2>5, <2>6
  <2> QED
    BY <2>1, <2>2, <2>7 DEF ReportFigures, Due, TrueLines
<1>12. ReportOrder'
  BY <1>3, <1>4, <1>7, <1>9, OrderKept
<1>13. report' # Resting
  BY <1>7 DEF Resting
<1> QED
  BY <1>2, <1>3, <1>10, <1>11, <1>12, <1>13, ReportHoldsParts

(* The lines so far and the last one, and the clients that remain.         *)
LEMMA LinesGrow ==
  ASSUME ReportParts, ReportFigures, ReportOrder, report.at = "managed",
         NEW lines, lines = Append(report.lines, LastLine)
  PROVE  /\ lines \in Seq(Exact)
         /\ \A i \in DOMAIN lines : lines[i] \in TrueLines(lines[i].client)
         /\ \A i, j \in DOMAIN lines : i < j => lines[i].direct >= lines[j].direct
         /\ Len(report.left) # 1 =>
              /\ Tail(report.left) \in Seq(Clients) /\ Tail(report.left) # <<>>
              /\ \A i \in DOMAIN lines, j \in DOMAIN Tail(report.left) :
                   lines[i].direct >= Due(Tail(report.left)[j])
              /\ \A i, j \in DOMAIN Tail(report.left) :
                   i < j => Due(Tail(report.left)[i]) >= Due(Tail(report.left)[j])
<1>1. PICK left, old, k, last : /\ left = report.left /\ old = report.lines
                                /\ k = Head(left) /\ last = LastLine
  OBVIOUS
<1>2. /\ left \in Seq(Clients) /\ left # <<>> /\ old \in Seq(Exact)
      /\ k \in Clients /\ last \in Exact /\ last.direct = Due(k)
  <2>1. left \in Seq(Clients) /\ left # <<>> /\ old \in Seq(Exact)
    BY <1>1 DEF ReportParts
  <2>2. k \in Clients
    BY <1>1, <2>1, HeadTailProperties
  <2>3. last \in TrueLines(k)
    BY <1>1 DEF ReportFigures
  <2> QED
    BY <2>1, <2>2, <2>3, LineParts DEF Exact
<1>3. PICK n : n = Len(old)
  OBVIOUS
<1>4. n \in Nat /\ DOMAIN old = 1..n
  BY <1>2, <1>3, LenProperties
<1>5. /\ lines \in Seq(Exact) /\ DOMAIN lines = 1..(n + 1) /\ lines[n + 1] = last
      /\ \A i \in DOMAIN lines : lines[i] \in Exact
      /\ \A i \in 1..n : lines[i] = old[i]
  <2>1. /\ lines \in Seq(Exact) /\ Len(lines) = n + 1 /\ lines[n + 1] = last
        /\ \A i \in 1..n : lines[i] = old[i]
    BY <1>1, <1>2, <1>3, AppendProperties
  <2>2. DOMAIN lines = 1..(n + 1)
    BY <2>1, LenProperties
  <2>3. \A i \in 1..(n + 1) : lines[i] \in Exact
    BY <2>1, ElementOfSeq
  <2> QED
    BY <2>1, <2>2, <2>3
<1>6. \A i \in DOMAIN lines : lines[i] \in TrueLines(lines[i].client)
  <2>1. \A l \in Exact : l \in TrueLines(l.client)
    BY LineParts DEF Exact
  <2> QED
    BY <1>5, <2>1
<1>7. /\ \A i, j \in 1..n : i < j => old[i].direct >= old[j].direct
      /\ \A i \in 1..n, j \in DOMAIN left : old[i].direct >= Due(left[j])
      /\ \A i, j \in DOMAIN left : i < j => Due(left[i]) >= Due(left[j])
  BY <1>1, <1>4 DEF ReportOrder
<1>8. PICK m : m = Len(left)
  OBVIOUS
<1>9. m \in Nat \ {0} /\ DOMAIN left = 1..m /\ k = left[1]
  <2>1. m \in Nat /\ DOMAIN left = 1..m
    BY <1>2, <1>8, LenProperties
  <2>2. m # 0
    BY <1>2, <1>8, EmptySeq
  <2> QED
    BY <1>1, <1>2, <2>1, <2>2
<1>10. \A i, j \in DOMAIN lines : i < j => lines[i].direct >= lines[j].direct
  <2> SUFFICES ASSUME NEW i \in 1..(n + 1), NEW j \in 1..(n + 1), i < j
               PROVE  lines[i].direct >= lines[j].direct
    BY <1>5
  <2>1. i \in 1..n
    BY <1>4
  <2>2. CASE j \in 1..n
    BY <1>5, <1>7, <2>1, <2>2
  <2>3. CASE j = n + 1
    <3>1. old[i].direct >= Due(left[1])
      BY <1>7, <1>9, <2>1
    <3> QED
      BY <1>2, <1>5, <1>9, <2>1, <2>3, <3>1
  <2>4. j \in 1..n \/ j = n + 1
    BY <1>4
  <2> QED
    BY <2>2, <2>3, <2>4, Zenon
<1>11. ASSUME m # 1
       PROVE  /\ Tail(left) \in Seq(Clients) /\ Tail(left) # <<>>
              /\ \A i \in DOMAIN lines, j \in DOMAIN Tail(left) :
                   lines[i].direct >= Due(Tail(left)[j])
              /\ \A i, j \in DOMAIN Tail(left) :
                   i < j => Due(Tail(left)[i]) >= Due(Tail(left)[j])
  <2>1. PICK rest : rest = Tail(left)
    OBVIOUS
  <2>2. /\ rest \in Seq(Clients) /\ Len(rest) = m - 1
        /\ \A i \in 1..Len(rest) : rest[i] = left[i + 1]
    BY <1>2, <1>8, <2>1, HeadTailProperties
  <2>3. DOMAIN rest = 1..(m - 1)
    BY <2>2, LenProperties
  <2>4. rest # <<>>
    <3>1. <<>> \in Seq(Clients) /\ Len(<<>>) = 0
      BY EmptySeq
    <3>2. m - 1 # 0
      BY <1>9, <1>11
    <3> QED
      BY <2>2, <3>1, <3>2
  <2>5. \A j \in 1..(m - 1) : j + 1 \in 1..m /\ 1 < j + 1 /\ rest[j] = left[j + 1]
    BY <1>9, <2>2
  <2>6. \A i \in DOMAIN lines, j \in 1..(m - 1) : lines[i].direct >= Due(rest[j])
    <3> SUFFICES ASSUME NEW i \in 1..(n + 1), NEW j \in 1..(m - 1)
                 PROVE  lines[i].direct >= Due(rest[j])
      BY <1>5
    <3>1. j + 1 \in DOMAIN left /\ 1 \in DOMAIN left /\ 1 < j + 1 /\ rest[j] = left[j + 1]
      BY <1>9, <2>5
    <3>2. CASE i \in 1..n
      BY <1>5, <1>7, <3>1, <3>2
    <3>3. CASE i = n + 1
      BY <1>2, <1>5, <1>7, <1>9, <3>1, <3>3
    <3>4. i \in 1..n \/ i = n + 1
      BY <1>4
    <3> QED
      BY <3>2, <3>3, <3>4, Zenon
  <2>7. \A i, j \in 1..(m - 1) : i < j => Due(rest[i]) >= Due(rest[j])
    <3> SUFFICES ASSUME NEW i \in 1..(m - 1), NEW j \in 1..(m - 1), i < j
                 PROVE  Due(rest[i]) >= Due(rest[j])
      OBVIOUS
    <3>1. i + 1 \in DOMAIN left /\ j + 1 \in DOMAIN left /\ i + 1 < j + 1
      BY <1>9, <2>5
    <3> QED
      BY <1>7, <2>5, <3>1
  <2> QED
    BY <2>1, <2>2, <2>3, <2>4, <2>6, <2>7
<1> QED
  BY <1>1, <1>5, <1>6, <1>8, <1>10, <1>11

(* A report goes on with the next client, or is answered.                  *)
LEMMA ReportManagedStep ==
  ASSUME TypeOK, ReportHolds, ReportManaged
  PROVE  Keeps /\ Script /\ ReportHolds'
<1>1. /\ report.at = "managed" /\ report # Resting
      /\ UNCHANGED <<clientOf, now, began, ledger, taskRows, backfill, runs>>
  BY DEF ReportManaged, Resting
<1>2. Keeps /\ Script /\ Settled' = Settled
  BY <1>1, PanelKeeps, PanelFigures
<1>3. Settled /\ ReportParts /\ ReportOrder /\ ReportFigures
  BY <1>1, ReportHoldsParts
<1>4. CASE Len(report.left) = 1
  BY <1>2, <1>4, ReportHoldsParts DEF ReportManaged
<1>5. CASE Len(report.left) # 1
  <2>1. PICK left, lines : left = Tail(report.left) /\ lines = Append(report.lines, LastLine)
    OBVIOUS
  <2>2. /\ lines \in Seq(Exact) /\ left \in Seq(Clients) /\ left # <<>>
        /\ \A i, j \in DOMAIN lines : i < j => lines[i].direct >= lines[j].direct
        /\ \A i \in DOMAIN lines, j \in DOMAIN left : lines[i].direct >= Due(left[j])
        /\ \A i, j \in DOMAIN left : i < j => Due(left[i]) >= Due(left[j])
    BY <1>1, <1>3, <1>5, <2>1, LinesGrow
  <2>3. report' = [report EXCEPT !.at = "sum", !.left = left, !.lines = lines]
    BY <1>5, <2>1 DEF ReportManaged
  <2>4. /\ DOMAIN report' = DOMAIN report /\ report'.at = "sum"
        /\ report'.left = left /\ report'.lines = lines
        /\ report'.counted = report.counted
    BY <1>3, <2>3 DEF ReportParts
  <2>5. ReportParts'
    BY <1>1, <1>3, <2>2, <2>4, ReportGoesOn
  <2>6. ReportFigures'
    BY <2>4 DEF ReportFigures
  <2>7. \A j \in DOMAIN left : Due(left[j])' = Due(left[j])
    <3>1. \A k \in Clients : Due(k)' = Due(k)
      BY <1>1, PanelFigures DEF SameFigures
    <3>2. \A j \in DOMAIN left : left[j] \in Clients
      BY <2>2, ElementOfSeq, LenProperties
    <3> QED
      BY <3>1, <3>2
  <2>8. ReportOrder'
    <3>1. /\ \A i \in DOMAIN lines, j \in DOMAIN left : lines[i].direct >= Due(left[j])'
          /\ \A i, j \in DOMAIN left : i < j => Due(left[i])' >= Due(left[j])'
      BY <2>2, <2>7
    <3> QED
      BY <2>2, <2>4, <3>1 DEF ReportOrder, Due
  <2> QED
    BY <1>2, <1>3, <2>5, <2>6, <2>8, ReportHoldsParts
<1> QED
  BY <1>4, <1>5

(* Time goes by, or somebody turns a page.                                 *)
LEMMA TimeStep ==
  ASSUME TypeOK, Tick,
         UNCHANGED <<clientOf, began, ledger, taskRows, backfill, runs, panel>>
  PROVE  Keeps /\ Script /\ Report
<1>1. now' \in 1..MaxTime /\ now' >= now
  BY TickKept
<1>2. runs' \in 0..MaxRuns
  BY DEF TypeOK
<1> QED
  BY <1>1, <1>2, ScriptKeeps DEF Script

LEMMA ListStep ==
  ASSUME TypeOK, (\E of \in Lists : OpenList(of)) \/ NextPage
  PROVE  Keeps /\ Script /\ Report
<1>1. /\ UNCHANGED <<clientOf, now, began, ledger, taskRows, backfill, runs>>
      /\ report' = report
  BY DEF OpenList, NextPage
<1> QED
  BY <1>1, PanelKeeps DEF Report

-----------------------------------------------------------------------------
(* Lists, read page by page.                                               *)

\* Tasks stay, and their dates.
TasksKept ==
  \A t \in DOMAIN created : t \in DOMAIN created' /\ created'[t] = created[t]

\* And those of the list that is read stay on it, unless it is marked.
ListKept ==
  /\ page # Resting /\ page.of.list = "tasks" /\ ~page'.left
  => \A t \in DOMAIN created :
       columns'[t] = columns[t] \/ (Matches(page.of, t) => columns'[t] \in page.of.wanted)

\* The list that is read stays the same, but may be marked.
ListMarked ==
  \/ page' = page
  \/ page # Resting /\ page.of.list = "tasks" /\ page' = [page EXCEPT !.left = TRUE]

LEMMA TasksStay ==
  ASSUME Next
  PROVE  TasksKept
<1>1. ASSUME NEW t \in Issues, NEW a \in Agents \cup {None}, OpenTask(t, a) PROVE TasksKept
  BY <1>1 DEF OpenTask, TasksKept
<1>2. CASE BackfillCommit
  <2>1. created' = [t \in DOMAIN created \cup DOMAIN backfill.added |->
                     IF t \in DOMAIN created THEN created[t] ELSE backfill.began]
    BY <1>2 DEF BackfillCommit
  <2> QED
    BY <2>1 DEF TasksKept
<1>3. CASE created' = created
  BY <1>3 DEF TasksKept
<1>4. CASE Ledger
  BY <1>1, <1>3, <1>4 DEF Ledger, AssignTask, CancelAnalysis, FailAnalysis, CommitClosing,
     LoseClosing, ChatCall, ChatError, SessionUsage, ProposeSkill, Add, Commit, Rollback, taskRows
<1>5. CASE Backfill
  BY <1>2, <1>3, <1>5 DEF Backfill, BackfillStart, BackfillGroup, BackfillRefused,
     BackfillCrash, BackfillAgent, taskRows
<1>6. CASE Panel
  BY <1>3, <1>6 DEF Panel, OpenList, NextPage, AskSummary, AskRanking, Ask, ReportSum,
     ReportTasks, ReportManaged, taskRows
<1> QED
  BY <1>4, <1>5, <1>6 DEF Next

(* A Task that is updated leaves the list unnoticed never.                 *)
LEMMA UpdateMarks ==
  ASSUME TypeOK, PageHolds, NEW t \in DOMAIN created, NEW new, Update(t, new)
  PROVE  ListMarked /\ ListKept
<1>1. columns' = [columns EXCEPT ![t] = new] /\ DOMAIN columns = DOMAIN created
  BY DEF Update, TypeOK
<1>2. columns'[t] = new /\ \A u \in DOMAIN created \ {t} : columns'[u] = columns[u]
  BY <1>1
<1>3. CASE /\ page # Resting
           /\ page.of.list = "tasks" /\ Matches(page.of, t) /\ new \notin page.of.wanted
  <2>1. page' = [page EXCEPT !.left = TRUE] /\ "left" \in DOMAIN page
    BY <1>3 DEF Update, PageHolds
  <2>2. page'.left
    BY <2>1
  <2> QED
    BY <1>3, <2>1, <2>2 DEF ListMarked, ListKept
<1>4. CASE ~(/\ page # Resting
             /\ page.of.list = "tasks" /\ Matches(page.of, t) /\ new \notin page.of.wanted)
  <2>1. page' = page
    BY <1>4 DEF Update
  <2>2. ListKept
    BY <1>2, <1>4 DEF ListKept
  <2> QED
    BY <2>1, <2>2 DEF ListMarked
<1> QED
  BY <1>3, <1>4

LEMMA PagesWait ==
  ASSUME TypeOK, PageHolds, Next
  PROVE  (ListMarked /\ ListKept) \/ NextPage \/ \E of \in Lists : OpenList(of)
<1>1. CASE page' = page /\ \A t \in DOMAIN created : columns'[t] = columns[t]
  BY <1>1 DEF ListMarked, ListKept
<1>2. CASE Ledger
  <2>1. ASSUME NEW t \in Issues, NEW a \in Agents \cup {None}, OpenTask(t, a)
        PROVE  ListMarked /\ ListKept
    <3>1. \A u \in DOMAIN created : u # t /\ columns'[u] = columns[u]
      BY <2>1 DEF OpenTask
    <3> QED
      BY <2>1, <3>1 DEF OpenTask, panel, ListMarked, ListKept
  <2>2. ASSUME NEW t \in Issues, NEW a \in Agents, AssignTask(t, a)
        PROVE  ListMarked /\ ListKept
    <3>1. t \in DOMAIN created /\ Update(t, [columns[t] EXCEPT !.agent = a])
      BY <2>2 DEF AssignTask
    <3> QED
      BY <3>1, UpdateMarks
  <2>3. ASSUME NEW p \in closing, CommitClosing(p) PROVE ListMarked /\ ListKept
    <3>1. p.task \in DOMAIN created
      BY <2>3, TypeParts
    <3>2. Update(p.task, [columns[p.task] EXCEPT !.status = p.status])
      BY <2>3 DEF CommitClosing
    <3> QED
      BY <3>1, <3>2, UpdateMarks
  <2> QED
    BY <1>1, <1>2, <2>1, <2>2, <2>3 DEF Ledger, CancelAnalysis, FailAnalysis, LoseClosing,
       ChatCall, ChatError, SessionUsage, ProposeSkill, Add, Commit, Rollback, panel, taskRows
<1>3. CASE Backfill
  <2>1. CASE BackfillCommit
    <3>1. columns' = [t \in DOMAIN created \cup DOMAIN backfill.added |->
                       IF t \in DOMAIN created THEN columns[t]
                       ELSE [agent |-> backfill.added[t], status |-> "pending"]]
      BY <2>1 DEF BackfillCommit
    <3>2. \A t \in DOMAIN created : columns'[t] = columns[t]
      BY <3>1
    <3> QED
      BY <1>1, <2>1, <3>2 DEF BackfillCommit, panel
  <2> QED
    BY <1>1, <1>3, <2>1 DEF Backfill, BackfillStart, BackfillGroup, BackfillRefused,
       BackfillCrash, BackfillAgent, panel, taskRows
<1>4. CASE Panel
  BY <1>1, <1>4 DEF Panel, AskSummary, AskRanking, Ask, ReportSum, ReportTasks, ReportManaged,
     taskRows
<1> QED
  BY <1>2, <1>3, <1>4 DEF Next

(* A call that belongs to a run stays in it.                               *)
LEMMA AssignedStays ==
  ASSUME TypeOK, BackfillHolds, LedgerEffects, NEW c \in Stored, rows[c].task # None
  PROVE  /\ c \in Stored' /\ c \in DOMAIN rows' /\ rows'[c].task = rows[c].task
         /\ rows'[c].owner = rows[c].owner /\ rows'[c].at = rows[c].at
<1>1. /\ c \in Stored' /\ c \in DOMAIN rows' /\ (~Groups => rows'[c].task = rows[c].task)
      /\ rows'[c].owner = rows[c].owner /\ rows'[c].at = rows[c].at
  BY StoredKept
<1>2. CASE Groups
  <2>1. c \notin DOMAIN backfill.moves
    BY <1>2 DEF Groups, BackfillHolds, MovesLinked
  <2> QED
    BY <1>1, <1>2, <2>1 DEF Groups, Stored
<1> QED
  BY <1>1, <1>2

LEMMA GreatestBounded ==
  ASSUME NEW n \in Nat, NEW T \in SUBSET (0..n), T # {}
  PROVE  MaxOf(T) \in T /\ \A y \in T : y <= MaxOf(T)
<1>1. PICK U : U = {n - x : x \in T}
  OBVIOUS
<1>2. U \subseteq Nat /\ U # {}
  <2>1. \A x \in T : x \in 0..n
    OBVIOUS
  <2>2. \A x \in T : n - x \in Nat
    BY <2>1
  <2> QED
    BY <1>1, <2>2
<1>3. MinOf(U) \in U /\ \A y \in U : MinOf(U) <= y
  BY <1>2, LeastNatural
<1>4. PICK x \in T : MinOf(U) = n - x
  BY <1>1, <1>3
<1>5. \A y \in T : y <= x
  <2> SUFFICES ASSUME NEW y \in T PROVE y <= x
    OBVIOUS
  <2>1. n - x <= n - y
    BY <1>1, <1>3, <1>4
  <2> QED
    BY <2>1
<1>6. \E z \in T : \A y \in T : y <= z
  BY <1>5
<1> QED
  BY <1>6, Zenon DEF MaxOf

(* The dates of the calls of a run.                                        *)
Dates(a, t) == {rows[c].at : c \in {d \in Stored : rows[d].owner = a /\ rows[d].task = t}}

LEMMA EndedIsLast ==
  ASSUME TypeOK, NEW a, NEW t, Dates(a, t) # {}
  PROVE  /\ Ended(a, t) \in Dates(a, t) /\ Ended(a, t) \in Nat
         /\ \A y \in Dates(a, t) : y <= Ended(a, t)
<1>1. PICK T : T = Dates(a, t)
  OBVIOUS
<1>2. MaxTime \in Nat /\ \A c \in Stored : rows[c].at \in 0..MaxTime
  <2>1. \A c \in Stored : rows[c] \in RowType
    BY TypeParts DEF Stored
  <2> QED
    BY <2>1, TypeParts DEF RowType
<1>3. T \in SUBSET (0..MaxTime) /\ T # {}
  BY <1>1, <1>2 DEF Dates
<1>4. MaxOf(T) \in T /\ \A y \in T : y <= MaxOf(T)
  BY <1>2, <1>3, GreatestBounded
<1>5. Ended(a, t) = MaxOf(T)
  BY <1>1 DEF Ended, Dates
<1> QED
  BY <1>1, <1>3, <1>4, <1>5

DatesEnd ==
  \A a, t : Dates(a, t) # {} =>
    Ended(a, t) \in Nat /\ \A y \in Dates(a, t) : y <= Ended(a, t)

LEMMA LatestDates == TypeOK => DatesEnd
BY EndedIsLast DEF DatesEnd

IsList(of) == of.list \in {"runs", "calls", "tasks"} /\ (of.list = "calls" => of.task # None)

LEMMA KeysAreInts ==
  ASSUME TypeOK, NEW of, IsList(of), NEW i \in Items(of)
  PROVE  Key(of, i) \in Int
<1>1. CASE of.list = "runs"
  <2>1. \E c \in Stored : rows[c].owner = of.agent /\ rows[c].task = i
    BY <1>1 DEF Items
  <2>2. Dates(of.agent, i) # {}
    BY <2>1 DEF Dates
  <2>3. Ended(of.agent, i) \in Nat
    BY <2>2, EndedIsLast
  <2> QED
    BY <1>1, <2>3 DEF Key
<1>2. CASE of.list = "calls"
  <2>1. i \in Stored /\ rows[i].at \in Nat
    BY <1>2, TypeParts DEF Items, Stored
  <2> QED
    BY <1>2, <2>1 DEF Key
<1>3. CASE of.list = "tasks"
  <2>1. i \in DOMAIN created /\ created[i] \in Nat
    BY <1>3, BillingConstants DEF Items, TypeOK
  <2> QED
    BY <1>3, <2>1 DEF Key
<1> QED
  BY <1>1, <1>2, <1>3 DEF IsList

(* What is on a list stays on it unless that is marked, and moves to the   *)
(* front if at all: a later call puts its run there, and nothing else gets *)
(* another date.                                                           *)
LEMMA ItemsStay ==
  ASSUME TypeOK, TypeOK', BackfillHolds, LedgerEffects, TasksKept, ListKept,
         page # Resting, ~page'.left, NEW of, of = page.of, IsList(of), NEW i \in Items(of)
  PROVE  i \in Items(of)' /\ Key(of, i)' <= Key(of, i)
<1>1. CASE of.list = "runs"
  <2>1. i # None /\ \E c \in Stored : rows[c].owner = of.agent /\ rows[c].task = i
    BY <1>1 DEF Items
  <2>2. ASSUME NEW c \in Stored, rows[c].owner = of.agent, rows[c].task = i
        PROVE  /\ c \in Stored' /\ rows'[c].owner = of.agent /\ rows'[c].task = i
               /\ rows'[c].at = rows[c].at
    BY <2>1, <2>2, AssignedStays
  <2>3. i \in Items(of)'
    BY <1>1, <2>1, <2>2 DEF Items
  <2>4. PICK S, T : S = Dates(of.agent, i) /\ T = Dates(of.agent, i)'
    OBVIOUS
  <2>5. S # {} /\ S \subseteq T
    BY <2>1, <2>2, <2>4 DEF Dates
  <2>6. PICK x, y : x = Ended(of.agent, i) /\ y = Ended(of.agent, i)'
    OBVIOUS
  <2>7. x \in S /\ x \in Nat
    BY <2>4, <2>5, <2>6, EndedIsLast
  <2>8. (TypeOK => DatesEnd)'
    BY LatestDates, PTL
  <2>9. y \in Nat /\ \A z \in T : z <= y
    BY <2>4, <2>5, <2>6, <2>8 DEF DatesEnd
  <2>10. -y <= -x
    BY <2>5, <2>7, <2>9
  <2> QED
    BY <1>1, <2>3, <2>6, <2>10 DEF Key
<1>2. CASE of.list = "calls"
  <2>1. i \in Stored /\ rows[i].owner = of.agent /\ rows[i].task = of.task /\ of.task # None
    BY <1>2 DEF Items, IsList
  <2>2. /\ i \in Stored' /\ rows'[i].owner = of.agent /\ rows'[i].task = of.task
        /\ rows'[i].at = rows[i].at
    BY <2>1, AssignedStays
  <2>3. rows[i].at \in Nat
    BY <2>1, TypeParts DEF Stored
  <2> QED
    BY <1>2, <2>2, <2>3 DEF Items, Key
<1>3. CASE of.list = "tasks"
  <2>1. i \in DOMAIN created /\ i \in DOMAIN created' /\ created'[i] = created[i]
    BY <1>3 DEF Items, TasksKept
  <2>2. created[i] \in Nat
    BY <2>1, BillingConstants DEF TypeOK
  <2>3. Matches(of, i)'
    <3>1. Matches(of, i) /\ clientOf' = clientOf
      BY <1>3, TypesKept DEF Items
    <3>2. columns'[i] = columns[i] \/ columns'[i] \in of.wanted
      BY <1>3, <2>1, <3>1 DEF ListKept
    <3> QED
      BY <2>1, <3>1, <3>2 DEF Matches, TaskClient
  <2> QED
    BY <1>3, <2>1, <2>2, <2>3 DEF Items, Key
<1> QED
  BY <1>1, <1>2, <1>3 DEF IsList

(* What lists show is finite, and their keys are numbers.                  *)
ListsOrdered ==
  \A of : IsList(of) =>
    IsFiniteSet(Items(of)) /\ \A i \in Items(of) : Key(of, i) \in Int

LEMMA EveryListOrdered == TypeOK => ListsOrdered
<1> SUFFICES ASSUME TypeOK, NEW of, IsList(of) PROVE IsFiniteSet(Items(of))
  BY KeysAreInts DEF ListsOrdered
<1>1. IsFiniteSet(Calls) /\ IsFiniteSet(Tasks)
  BY TasksAreFinite, FS_Interval, BillingConstants DEF Calls
<1>2. \A c \in Stored : c \in Calls /\ rows[c].task \in Tasks \cup {None}
  BY TypeParts DEF Stored, TypeOK, RowType
<1>3. Items(of) \in SUBSET Tasks \/ Items(of) \in SUBSET Calls
  BY <1>2 DEF IsList, Items, TypeOK
<1> QED
  BY <1>1, <1>3, FS_Subset

(* A listing shows every item once, in the order of their keys.            *)
LEMMA ListingParts ==
  ASSUME TypeOK, NEW of, IsList(of), NEW s \in Listings(of),
         NEW n, n = Cardinality(Items(of))
  PROVE  /\ n \in Nat /\ Len(s) = n /\ DOMAIN s = 1..n /\ s \in [1..n -> Items(of)]
         /\ \A p, q \in 1..n : s[p] = s[q] => p = q
         /\ \A i \in Items(of) : \E p \in 1..n : s[p] = i
         /\ \A p, q \in 1..n : p < q => Key(of, s[p]) <= Key(of, s[q])
<1>1. IsFiniteSet(Items(of))
  BY EveryListOrdered DEF ListsOrdered
<1>2. n \in Nat
  BY <1>1, FS_CardinalityType
<1>3. /\ s \in [1..n -> Items(of)] /\ \A p, q \in 1..n : s[p] = s[q] => p = q
      /\ \A p, q \in DOMAIN s : p < q => Key(of, s[p]) <= Key(of, s[q])
  BY DEF Listings, SetToSeqs
<1>4. s \in Injection(1..n, Items(of))
  BY <1>3 DEF Injection, IsInjective
<1>5. Cardinality(1..n) = n
  BY <1>2, FS_Interval
<1>6. s \in Surjection(1..n, Items(of))
  BY <1>1, <1>4, <1>5, FS_Injection
<1>7. Len(s) = n
  BY <1>2, <1>3
<1> QED
  BY <1>2, <1>3, <1>6, <1>7 DEF Surjection

(* How many items the first ones of a listing are.                         *)
LEMMA FirstOnes ==
  ASSUME NEW n \in Nat, NEW S, NEW s \in [1..n -> S], IsFiniteSet(S),
         \A p, q \in 1..n : s[p] = s[q] => p = q,
         NEW m \in 0..n, NEW T \in SUBSET S
  PROVE  /\ (\A q \in 1..m : s[q] \in T) => m <= Cardinality(T)
         /\ (\A i \in T : \E q \in 1..m : s[q] = i) => Cardinality(T) <= m
<1>1. IsFiniteSet(T) /\ IsFiniteSet(1..m) /\ Cardinality(1..m) = m
  BY FS_Subset, FS_Interval
<1>2. PICK f : f = [q \in 1..m |-> s[q]]
  OBVIOUS
<1>3. f \in [1..m -> S] /\ IsInjective(f) /\ \A q \in 1..m : f[q] = s[q]
  BY <1>2 DEF IsInjective
<1>4. ASSUME \A q \in 1..m : s[q] \in T PROVE m <= Cardinality(T)
  <2>1. f \in Injection(1..m, T)
    BY <1>3, <1>4 DEF Injection
  <2> QED
    BY <1>1, <2>1, FS_Injection
<1>5. ASSUME \A i \in T : \E q \in 1..m : s[q] = i PROVE Cardinality(T) <= m
  <2>1. PICK U : U = {s[q] : q \in 1..m}
    OBVIOUS
  <2>2. f \in Surjection(1..m, U)
    BY <1>3, <2>1 DEF Surjection
  <2>3. IsFiniteSet(U) /\ Cardinality(U) <= m
    BY <1>1, <2>2, FS_Surjection
  <2>4. T \in SUBSET U
    BY <1>5, <2>1
  <2>5. /\ Cardinality(T) <= Cardinality(U) /\ Cardinality(T) \in Nat
        /\ Cardinality(U) \in Nat
    BY <1>1, <2>3, <2>4, FS_Subset, FS_CardinalityType
  <2> QED
    BY <2>3, <2>5
<1> QED
  BY <1>4, <1>5

(* While nobody turns a page, what is behind stays behind.                 *)
LEMMA PageWaits ==
  ASSUME TypeOK, TypeOK', BackfillHolds, PageHolds, LedgerEffects, TasksKept,
         ListMarked, ListKept
  PROVE  PageHolds'
<1> SUFFICES ASSUME page # Resting PROVE PageHolds'
  <2>1. CASE page = Resting
    BY <2>1 DEF PageHolds, ListMarked
  <2> QED
    BY <2>1
<1>1. PICK of, unseen, offset, cut : /\ of = page.of /\ unseen = page.unseen
                                     /\ offset = page.offset /\ cut = page.cut
  OBVIOUS
<1>2. /\ DOMAIN page = {"at", "of", "offset", "cut", "left", "unseen"} /\ page.at = "reading"
      /\ IsList(of) /\ offset \in Nat /\ cut \in BOOLEAN
      /\ page.left \in BOOLEAN /\ (page.left => of.list = "tasks")
      /\ ~page.left => \A i \in DOMAIN unseen : /\ i \in Items(of) /\ unseen[i] \in Int
                                                /\ Key(of, i) <= unseen[i]
      /\ ~cut /\ ~page.left =>
           \A i \in Quiet : Cardinality(Earlier(of, Key(of, i))) >= offset
  BY <1>1 DEF PageHolds, IsList
<1>8. /\ DOMAIN page' = DOMAIN page /\ page'.at = "reading" /\ page'.of = of
      /\ page'.offset = offset /\ page'.cut = cut /\ page'.unseen = unseen
      /\ page'.left \in BOOLEAN /\ (page'.left => of.list = "tasks")
      /\ page.left => page'.left
  <2>1. CASE page' = page
    BY <1>1, <1>2, <2>1
  <2>2. CASE page.of.list = "tasks" /\ page' = [page EXCEPT !.left = TRUE]
    BY <1>1, <1>2, <2>2
  <2> QED
    BY <2>1, <2>2 DEF ListMarked
<1>9. CASE page'.left
  BY <1>2, <1>8, <1>9 DEF PageHolds, IsList
<1> SUFFICES ASSUME ~page'.left PROVE PageHolds'
  BY <1>9
<1>3. \A i \in Items(of) : /\ i \in Items(of)' /\ Key(of, i)' <= Key(of, i)
                           /\ Key(of, i) \in Int
  BY <1>1, <1>2, ItemsStay, KeysAreInts
<1>4. (TypeOK => ListsOrdered)'
  BY EveryListOrdered, PTL
<1>5. IsFiniteSet(Items(of)') /\ \A i \in Items(of)' : Key(of, i)' \in Int
  BY <1>2, <1>4 DEF ListsOrdered, IsList
<1>6. \A i \in DOMAIN unseen : /\ i \in Items(of)' /\ unseen[i] \in Int
                              /\ Key(of, i)' <= unseen[i]
  BY <1>2, <1>3, <1>5, <1>8
<1>7. ASSUME ~cut, NEW i \in DOMAIN unseen, Key(of, i)' = unseen[i]
      PROVE  Cardinality({j \in Items(of)' : Key(of, j)' < Key(of, i)'}) >= offset
  <2>1. PICK k : k = unseen[i]
    OBVIOUS
  <2>2. Key(of, i) = k /\ k \in Int
    BY <1>2, <1>3, <1>7, <1>8, <2>1
  <2>3. i \in Quiet
    BY <1>1, <1>2, <1>7, <1>8, <2>1, <2>2 DEF Quiet
  <2>4. PICK S, T : S = Earlier(of, k) /\ T = {j \in Items(of)' : Key(of, j)' < k}
    OBVIOUS
  <2>5. Cardinality(S) >= offset
    BY <1>2, <1>7, <1>8, <2>2, <2>3, <2>4
  <2>6. T \in SUBSET (Items(of)')
    BY <2>4
  <2>7. S \in SUBSET T
    <3> SUFFICES ASSUME NEW j \in S PROVE j \in T
      OBVIOUS
    <3>1. j \in Items(of) /\ Key(of, j) < k
      BY <2>4 DEF Earlier
    <3>2. j \in Items(of)' /\ Key(of, j)' < k
      BY <1>3, <1>5, <2>2, <3>1
    <3> QED
      BY <2>4, <3>2
  <2>8. IsFiniteSet(T)
    BY <1>5, <2>6, FS_Subset
  <2>9. /\ Cardinality(S) <= Cardinality(T) /\ Cardinality(T) \in Nat
        /\ Cardinality(S) \in Nat
    BY <2>7, <2>8, FS_Subset, FS_CardinalityType
  <2>10. Cardinality(T) >= offset
    BY <1>2, <2>5, <2>9
  <2> QED
    BY <1>7, <2>1, <2>4, <2>10
<1>10. ASSUME ~page'.cut, NEW i \in Quiet'
       PROVE  Cardinality(Earlier(of, Key(of, i))') >= offset
  BY <1>7, <1>8, <1>10 DEF Quiet, Earlier
<1> QED
  BY <1>2, <1>6, <1>8, <1>10 DEF PageHolds, Earlier, IsList

LEMMA OpenListStep ==
  ASSUME TypeOK, NEW of \in Lists, OpenList(of)
  PROVE  PageHolds' /\ page = Resting
<1>1. page = Resting /\ UNCHANGED <<rows, open, created, columns, clientOf>>
  BY DEF OpenList, ledger, taskRows
<1>2. IsList(of)
  BY KeysApart DEF Lists, Runs, IsList
<1>3. PICK new : new = [at |-> "reading", of |-> of, offset |-> 0, cut |-> FALSE, left |-> FALSE,
                        unseen |-> [i \in Items(of) |-> Key(of, i)]]
  OBVIOUS
<1>4. /\ DOMAIN new = {"at", "of", "offset", "cut", "left", "unseen"} /\ new.at = "reading"
      /\ new.of = of /\ new.offset = 0 /\ new.cut = FALSE /\ new.left = FALSE
      /\ DOMAIN new.unseen = Items(of) /\ \A i \in Items(of) : new.unseen[i] = Key(of, i)
  BY <1>3
<1>5. page' = new
  BY <1>3 DEF OpenList
<1>6. IsFiniteSet(Items(of)) /\ \A i \in Items(of) : Key(of, i) \in Int
  BY <1>2, EveryListOrdered DEF ListsOrdered
<1>7. Items(of)' = Items(of) /\ \A i : Key(of, i)' = Key(of, i)
  <2>1. Stored' = Stored
    BY <1>1 DEF Stored
  <2> QED
    BY <1>1, <2>1 DEF Items, Key, Ended, Matches, TaskClient
<1>8. \A k : Cardinality({j \in Items(of) : Key(of, j) < k}) >= 0
  <2> TAKE k
  <2>1. {j \in Items(of) : Key(of, j) < k} \in SUBSET Items(of)
    OBVIOUS
  <2> QED
    BY <1>6, <2>1, FS_Subset, FS_CardinalityType
<1>9. /\ DOMAIN page' = {"at", "of", "offset", "cut", "left", "unseen"} /\ page'.at = "reading"
      /\ page'.of = of /\ page'.offset = 0 /\ page'.cut \in BOOLEAN /\ page'.left = FALSE
  BY <1>4, <1>5
<1>10. \A i \in DOMAIN page'.unseen : /\ i \in Items(of)' /\ page'.unseen[i] \in Int
                                      /\ Key(of, i)' <= page'.unseen[i]
  BY <1>4, <1>5, <1>6, <1>7
<1>11. \A i : Cardinality(Earlier(of, Key(of, i))') >= 0
  BY <1>7, <1>8 DEF Earlier
<1>12. page'.offset \in Nat /\ page'.offset = 0
  BY <1>9
<1>13. PageHolds'
  BY <1>2, <1>9, <1>10, <1>11, <1>12 DEF PageHolds, IsList, Earlier
<1> QED
  BY <1>1, <1>13

(* Whoever turns a page finds behind it what has not moved; at the end of  *)
(* the list nothing of that is left, unless a page was cut or a Task left. *)
LEMMA NextPageStep ==
  ASSUME TypeOK, PageHolds, NextPage
  PROVE  PageHolds' /\ ListComplete
<1>1. /\ page.at = "reading" /\ page # Resting
      /\ UNCHANGED <<rows, open, created, columns, clientOf>>
  BY DEF NextPage, Resting, ledger, taskRows
<1>2. PICK of, unseen, offset, cut, left :
        /\ of = page.of /\ unseen = page.unseen /\ offset = page.offset
        /\ cut = page.cut /\ left = page.left
  OBVIOUS
<1>3. /\ DOMAIN page = {"at", "of", "offset", "cut", "left", "unseen"}
      /\ IsList(of) /\ offset \in Nat /\ cut \in BOOLEAN
      /\ left \in BOOLEAN /\ (left => of.list = "tasks")
      /\ ~left => \A i \in DOMAIN unseen : /\ i \in Items(of) /\ unseen[i] \in Int
                                           /\ Key(of, i) <= unseen[i]
      /\ ~cut /\ ~left => \A i \in Quiet : Cardinality(Earlier(of, Key(of, i))) >= offset
  BY <1>1, <1>2 DEF PageHolds, IsList
<1>4. PICK s \in Listings(of) :
        LET last == offset + PageSize
            shown == {s[i] : i \in (offset + 1)..Min2(last, Len(s))}
        IN  page' = IF shown = {} THEN Resting
                    ELSE [page EXCEPT
                      !.offset = last,
                      !.unseen = [i \in DOMAIN @ \ shown |-> @[i]],
                      !.cut = \/ @
                              \/ /\ last < Len(s)
                                 /\ Key(of, s[last]) = Key(of, s[last + 1])]
  BY <1>2 DEF NextPage
<1>5. PICK n, last, shown, all :
        /\ n = Cardinality(Items(of)) /\ last = offset + PageSize /\ all = Items(of)
        /\ shown = {s[i] : i \in (offset + 1)..Min2(last, n)}
  OBVIOUS
<1>6. /\ n \in Nat /\ Len(s) = n /\ DOMAIN s = 1..n /\ s \in [1..n -> all]
      /\ \A p, q \in 1..n : s[p] = s[q] => p = q
      /\ \A i \in all : \E p \in 1..n : s[p] = i
      /\ \A p, q \in 1..n : p < q => Key(of, s[p]) <= Key(of, s[q])
  BY <1>3, <1>5, ListingParts
<1>7. /\ IsFiniteSet(all) /\ \A i \in all : Key(of, i) \in Int
      /\ last \in Nat /\ last > offset
  BY <1>3, <1>5, EveryListOrdered, BillingConstants DEF ListsOrdered
<1>8. Items(of)' = all /\ \A i : Key(of, i)' = Key(of, i)
  <2>1. Stored' = Stored
    BY <1>1 DEF Stored
  <2> QED
    BY <1>1, <1>5, <2>1 DEF Items, Key, Ended, Matches, TaskClient
<1>9. ASSUME ~cut, ~left, NEW i \in Quiet, NEW p \in 1..n, s[p] = i
      PROVE  p > offset
  <2> SUFFICES ASSUME p <= offset PROVE FALSE
    BY <1>3, <1>6
  <2>1. PICK T : T = Earlier(of, Key(of, i))
    OBVIOUS
  <2>2. T \in SUBSET all /\ p - 1 \in 0..n /\ p \in Nat
    BY <1>5, <1>6, <2>1 DEF Earlier
  <2>3. ASSUME NEW j \in T PROVE \E q \in 1..(p - 1) : s[q] = j
    <3>1. j \in all /\ Key(of, j) < Key(of, i)
      BY <1>5, <2>1 DEF Earlier
    <3>2. PICK q \in 1..n : s[q] = j
      BY <1>6, <3>1
    <3>3. i \in all /\ Key(of, i) \in Int /\ Key(of, j) \in Int
      BY <1>6, <1>7, <1>9, <3>1
    <3>4. q # p /\ ~(p < q)
      BY <1>6, <1>9, <3>1, <3>2, <3>3
    <3> QED
      BY <1>6, <3>2, <3>4
  <2>4. Cardinality(T) <= p - 1
    <3>1. PICK m : m = p - 1
      OBVIOUS
    <3>2. m \in 0..n /\ \A j \in T : \E q \in 1..m : s[q] = j
      BY <2>2, <2>3, <3>1
    <3>3. Cardinality(T) <= m
      BY <1>6, <1>7, <2>2, <3>2, FirstOnes
    <3> QED
      BY <3>1, <3>3
  <2>5. Cardinality(T) >= offset /\ Cardinality(T) \in Nat
    BY <1>3, <1>7, <1>9, <2>1, <2>2, FS_Subset, FS_CardinalityType
  <2> QED
    BY <1>3, <2>2, <2>4, <2>5
<1>10. CASE shown = {}
  <2>1. page' = Resting
    BY <1>4, <1>5, <1>6, <1>10
  <2>2. ASSUME ~cut, ~left, NEW i \in Quiet PROVE FALSE
    <3>1. i \in all
      BY <1>2, <1>5 DEF Quiet
    <3>2. PICK p \in 1..n : s[p] = i
      BY <1>6, <3>1
    <3>3. p > offset
      BY <1>9, <2>2, <3>2
    <3>4. offset + 1 \in (offset + 1)..Min2(last, n)
      BY <1>3, <1>6, <1>7, <3>3 DEF Min2
    <3> QED
      BY <1>5, <1>10, <3>4
  <2> QED
    BY <1>2, <1>3, <2>1, <2>2 DEF PageHolds, ListComplete
<1>11. CASE shown # {}
  <2>1. PICK tied : tied = (last < n /\ Key(of, s[last]) = Key(of, s[last + 1]))
    OBVIOUS
  <2>2. PICK new : new = [page EXCEPT
                     !.offset = last,
                     !.unseen = [i \in DOMAIN @ \ shown |-> @[i]],
                     !.cut = @ \/ (last < n /\ Key(of, s[last]) = Key(of, s[last + 1]))]
    OBVIOUS
  <2>3. page' = new
    BY <1>4, <1>5, <1>6, <1>11, <2>2
  <2>4. /\ DOMAIN new = {"at", "of", "offset", "cut", "left", "unseen"} /\ new.at = "reading"
        /\ new.of = of /\ new.offset = last /\ new.left = left
        /\ new.cut = (cut \/ (last < n /\ Key(of, s[last]) = Key(of, s[last + 1])))
        /\ DOMAIN new.unseen = DOMAIN unseen \ shown
        /\ \A i \in DOMAIN unseen \ shown : new.unseen[i] = unseen[i]
    BY <1>1, <1>2, <1>3, <2>2
  <2>5. new.cut \in BOOLEAN
    BY <2>4
  <2>6. ASSUME ~new.cut, ~left, NEW i \in DOMAIN unseen \ shown, Key(of, i) = unseen[i]
        PROVE  Cardinality({j \in all : Key(of, j) < Key(of, i)}) >= last
    <3>1. ~cut /\ ~(last < n /\ Key(of, s[last]) = Key(of, s[last + 1]))
      BY <2>4, <2>6
    <3>2. i \in all /\ i \in Quiet
      BY <1>2, <1>3, <1>5, <2>6 DEF Quiet
    <3>3. PICK p \in 1..n : s[p] = i
      BY <1>6, <3>2
    <3>4. p > offset
      BY <1>9, <2>6, <3>1, <3>2, <3>3
    <3>5. p > last
      <4>1. p \notin (offset + 1)..Min2(last, n)
        BY <1>5, <2>6, <3>3
      <4> QED
        BY <1>3, <1>6, <1>7, <3>4, <4>1 DEF Min2
    <3>6. PICK T : T = {j \in all : Key(of, j) < Key(of, i)}
      OBVIOUS
    <3>7. ASSUME NEW q \in 1..last PROVE s[q] \in T
      <4>1. q \in 1..n /\ last \in 1..n /\ last + 1 \in 1..n /\ last < n
        BY <1>3, <1>6, <1>7, <3>5
      <4>2. /\ s[q] \in all /\ s[last] \in all /\ s[last + 1] \in all
            /\ Key(of, s[q]) \in Int /\ Key(of, s[last]) \in Int
            /\ Key(of, s[last + 1]) \in Int /\ Key(of, i) \in Int
        BY <1>6, <1>7, <3>2, <4>1
      <4>3. Key(of, s[q]) <= Key(of, s[last])
        BY <1>6, <4>1, <4>2
      <4>4. Key(of, s[last]) < Key(of, s[last + 1])
        <5>1. Key(of, s[last]) <= Key(of, s[last + 1])
          BY <1>6, <1>7, <4>1
        <5> QED
          BY <3>1, <4>1, <4>2, <5>1
      <4>5. Key(of, s[last + 1]) <= Key(of, i)
        BY <1>6, <1>7, <3>3, <3>5, <4>1, <4>2
      <4> QED
        BY <3>6, <4>2, <4>3, <4>4, <4>5
    <3>8. last \in 0..n /\ T \in SUBSET all
      BY <1>6, <1>7, <3>5, <3>6
    <3>9. last <= Cardinality(T) /\ Cardinality(T) \in Nat
      BY <1>6, <1>7, <3>7, <3>8, FirstOnes, FS_Subset, FS_CardinalityType
    <3> QED
      BY <1>7, <3>6, <3>9
  <2>7. PageHolds'
    <3>1. /\ DOMAIN page' = {"at", "of", "offset", "cut", "left", "unseen"}
          /\ page'.at = "reading" /\ page'.of = of /\ page'.offset = last
          /\ page'.cut \in BOOLEAN /\ page'.left = left
      BY <2>3, <2>4, <2>5
    <3>2. ~left => \A i \in DOMAIN page'.unseen :
            i \in Items(of)' /\ page'.unseen[i] \in Int /\ Key(of, i)' <= page'.unseen[i]
      BY <1>3, <1>5, <1>8, <2>3, <2>4
    <3>3. ASSUME ~page'.cut, ~left, NEW i \in Quiet'
          PROVE  Cardinality(Earlier(of, Key(of, i))') >= last
      <4>1. i \in DOMAIN unseen \ shown /\ Key(of, i) = unseen[i]
        BY <1>8, <2>3, <2>4, <3>1, <3>3 DEF Quiet
      <4>2. Earlier(of, Key(of, i))' = {j \in all : Key(of, j) < Key(of, i)}
        BY <1>8 DEF Earlier
      <4> QED
        BY <2>3, <2>6, <3>3, <4>1, <4>2
    <3> QED
      BY <1>3, <1>7, <3>1, <3>2, <3>3 DEF PageHolds, IsList, Earlier
  <2>8. page' # Resting
    BY <2>3, <2>4 DEF Resting
  <2> QED
    BY <2>7, <2>8 DEF ListComplete
<1> QED
  BY <1>10, <1>11

(* What is known of a list, and that it is complete when it ends.          *)
LEMMA PagesKept ==
  ASSUME TypeOK, TypeOK', BackfillHolds, PageHolds, LedgerEffects, Next
  PROVE  PageHolds' /\ ListComplete
<1>1. CASE ListMarked /\ ListKept
  <2>1. page # Resting => page' # Resting
    BY <1>1 DEF ListMarked, PageHolds, Resting
  <2> QED
    BY <1>1, <2>1, TasksStay, PageWaits DEF ListComplete
<1>2. CASE NextPage
  BY <1>2, NextPageStep
<1>3. CASE \E of \in Lists : OpenList(of)
  BY <1>3, OpenListStep DEF ListComplete
<1> QED
  BY <1>1, <1>2, <1>3, PagesWait

-----------------------------------------------------------------------------
(* The invariant.                                                          *)

(* Every step is one of the effects on the ledger; whoever takes no part in *)
(* it finds what is held unharmed.                                         *)
LEMMA StepEffects ==
  ASSUME TypeOK, OpenRowsDated, BackfillHolds, ReportHolds, Next
  PROVE  LedgerEffects /\ BackfillHolds' /\ ReportHolds'
<1>1. ASSUME LedgerEffects, Script, Report
      PROVE  LedgerEffects /\ BackfillHolds' /\ ReportHolds'
  BY <1>1, ScriptWaits, ReportWaits
<1>2. ASSUME Keeps, Report, BackfillHolds'
      PROVE  LedgerEffects /\ BackfillHolds' /\ ReportHolds'
  BY <1>2, ReportWaits DEF LedgerEffects
<1>3. ASSUME Keeps, Script, ReportHolds'
      PROVE  LedgerEffects /\ BackfillHolds' /\ ReportHolds'
  BY <1>3, ScriptWaits DEF LedgerEffects
<1>4. CASE Ledger
  <2>1. CASE /\ Tick
             /\ UNCHANGED <<clientOf, began, ledger, taskRows, backfill, runs, panel>>
    BY <1>1, <2>1, TimeStep DEF LedgerEffects
  <2>2. CASE \/ \E t \in Issues, a \in Agents \cup {None} : OpenTask(t, a)
             \/ \E t \in Issues, a \in Agents : AssignTask(t, a)
    BY <1>1, <2>2, OpenTaskStep, AssignTaskStep DEF LedgerEffects
  <2>5. ASSUME NEW t \in Analyses, CancelAnalysis(t) \/ FailAnalysis(t)
        PROVE  LedgerEffects /\ BackfillHolds' /\ ReportHolds'
    <3>1. \E status \in Statuses : CloseTask(t, status)
      BY <2>5 DEF CancelAnalysis, FailAnalysis, Statuses
    <3>2. /\ t \in DOMAIN created \cap Analyses /\ running' \subseteq running
          /\ UNCHANGED <<clientOf, began, ledger, created, columns, closed, backfill, runs, panel>>
      BY <2>5 DEF CancelAnalysis, FailAnalysis, TypeOK
    <3> QED
      BY <1>1, <3>1, <3>2, CloseTaskStep DEF LedgerEffects
  <2>6. CASE \E p \in closing : CommitClosing(p) \/ LoseClosing(p)
    BY <1>1, <2>6, CommitClosingStep, LoseClosingStep DEF LedgerEffects
  <2>3. ASSUME NEW w \in Writers,
               ChatCall(w) \/ ChatError(w) \/ SessionUsage(w) \/ ProposeSkill(w)
        PROVE  LedgerEffects /\ BackfillHolds' /\ ReportHolds'
    <3>1. \E failed \in BOOLEAN : Add(w, failed)
      BY <2>3 DEF ChatCall, ChatError, SessionUsage, ProposeSkill
    <3> QED
      BY <1>1, <3>1, AddStep DEF LedgerEffects
  <2>4. ASSUME NEW w \in Writers, Commit(w) \/ Rollback(w)
        PROVE  LedgerEffects /\ BackfillHolds' /\ ReportHolds'
    BY <1>1, <2>4, CommitStep, RollbackStep DEF LedgerEffects
  <2> QED
    BY <1>4, <2>1, <2>2, <2>3, <2>4, <2>5, <2>6 DEF Ledger
<1>5. CASE Backfill
  <2>1. CASE BackfillStart
    BY <1>2, <2>1, BackfillStartStep
  <2>2. CASE BackfillGroup
    BY <1>2, <2>2, BackfillGroupStep
  <2>3. CASE BackfillRefused \/ BackfillCrash
    <3>1. /\ backfill' = Resting
          /\ UNCHANGED <<clientOf, now, began, ledger, taskRows, runs, panel>>
      BY <2>3 DEF BackfillRefused, BackfillCrash
    <3> QED
      BY <1>2, <3>1, BackfillEnds
  <2>4. CASE BackfillCommit
    <3>1. Groups /\ Report
      BY <2>4, BackfillCommitStep
    <3>2. LedgerEffects /\ backfill' = Resting
      BY <3>1 DEF Groups, LedgerEffects
    <3>3. BackfillHolds'
      BY <3>2 DEF BackfillHolds, Resting
    <3> QED
      BY <3>1, <3>2, <3>3, ReportWaits
  <2>5. ASSUME NEW a \in Agents, BackfillAgent(a)
        PROVE  LedgerEffects /\ BackfillHolds' /\ ReportHolds'
    BY <1>2, <2>5, BackfillAgentStep
  <2> QED
    BY <1>5, <2>1, <2>2, <2>3, <2>4, <2>5 DEF Backfill
<1>6. CASE Panel
  <2>1. CASE (\E of \in Lists : OpenList(of)) \/ NextPage
    BY <1>1, <2>1, ListStep DEF LedgerEffects
  <2>2. CASE \E k \in Clients : AskSummary(k)
    BY <1>3, <2>2, AskSummaryStep
  <2>3. CASE AskRanking
    BY <1>3, <2>3, AskRankingStep
  <2>4. CASE ReportSum
    BY <1>3, <2>4, ReportSumStep
  <2>5. CASE ReportTasks
    BY <1>3, <2>5, ReportTasksStep
  <2>6. CASE ReportManaged
    BY <1>3, <2>6, ReportManagedStep
  <2> QED
    BY <1>6, <2>1, <2>2, <2>3, <2>4, <2>5, <2>6 DEF Panel
<1> QED
  BY <1>4, <1>5, <1>6 DEF Next

LEMMA InitInvariant ==
  ASSUME Init
  PROVE  IInv
<1>1. rows = <<>> /\ open = {} /\ DOMAIN rows = {}
  BY DEF Init
<1>2. Stored = {}
  BY <1>1 DEF Stored
<1>3. TypeOK
  <2> USE BillingConstants
  <2>1. clientOf \in Placements /\ began \in [Writers -> 0..MaxTime] /\ runs \in 0..MaxRuns
    BY BillingConstants DEF Init
  <2>2. now \in 1..MaxTime
    BY BillingConstants DEF Init
  <2>3. /\ DOMAIN created = {} /\ DOMAIN closed = {} /\ closing = {} /\ running = {}
        /\ columns = [t \in {} |-> None]
    BY DEF Init
  <2>4. columns \in [DOMAIN created -> Columns]
    BY <2>3
  <2> QED
    BY <1>1, <2>1, <2>2, <2>3, <2>4 DEF TypeOK
<1>4. OpenRowsDated /\ HistLinked /\ RunsChained
  BY <1>1, <1>2 DEF OpenRowsDated, HistLinked, RunsChained
<1>5. BackfillHolds /\ ReportHolds /\ PageHolds
  BY DEF Init, BackfillHolds, ReportHolds, PageHolds
<1> QED
  BY <1>3, <1>4, <1>5 DEF IInv

LEMMA NextInvariant ==
  ASSUME IInv, Next
  PROVE  IInv'
<1>1. TypeOK /\ OpenRowsDated /\ HistLinked /\ BackfillHolds /\ ReportHolds /\ PageHolds
  BY DEF IInv
<1>2. LedgerEffects /\ BackfillHolds' /\ ReportHolds'
  BY <1>1, StepEffects
<1>3. TypeOK' /\ OpenRowsDated' /\ HistLinked'
  BY <1>1, <1>2, TypesKept, OpenRowsDatedKept, HistLinkedKept
<1>4. (TypeOK /\ HistLinked => RunsChained)'
  BY RunsAreChained, PTL
<1>5. PageHolds'
  BY <1>1, <1>2, <1>3, PagesKept
<1> QED
  BY <1>2, <1>3, <1>4, <1>5 DEF IInv

(* Nothing changes: what is settled is the same in every figure.           *)
LEMMA Stutters ==
  ASSUME IInv, UNCHANGED vars
  PROVE  IInv' /\ rows' = rows /\ report' = report
         /\ \A k \in Clients :
              ClientCalls(k)' = ClientCalls(k) /\ ClientClosed(k)' = ClientClosed(k)
<1>1. TypeOK /\ OpenRowsDated /\ HistLinked /\ BackfillHolds /\ ReportHolds /\ PageHolds
  BY DEF IInv
<1>2. UNCHANGED <<clientOf, now, began, ledger, taskRows, backfill, runs, panel>>
  BY DEF vars
<1>8. UNCHANGED <<created, columns, page>>
  BY <1>2 DEF taskRows, panel
<1>3. Keeps /\ Script /\ Report
  <2>1. Keeps /\ Script
    BY <1>1, <1>2, PanelKeeps
  <2> QED
    BY <1>2, <2>1 DEF Report, panel
<1>4. BackfillHolds' /\ ReportHolds' /\ TypeOK' /\ OpenRowsDated' /\ HistLinked'
  BY <1>1, <1>3, ScriptWaits, ReportWaits, TypesKept, OpenRowsDatedKept, HistLinkedKept
     DEF LedgerEffects
<1>5. (TypeOK /\ HistLinked => RunsChained)'
  BY RunsAreChained, PTL
<1>6. PageHolds'
  <2>1. LedgerEffects /\ TasksKept /\ ListMarked /\ ListKept
    BY <1>3, <1>8 DEF LedgerEffects, TasksKept, ListMarked, ListKept
  <2> QED
    BY <1>1, <1>4, <2>1, PageWaits
<1>7. IInv'
  BY <1>4, <1>5, <1>6 DEF IInv
<1> QED
  BY <1>1, <1>2, <1>7, PanelFigures DEF ledger, panel, SameFigures

(* Spec keeps IInv: the types; the rows that wait for a transaction are     *)
(* dated when it began; every call in a HIST- run is of the second of its   *)
(* key or follows another of its agent within the gap, and so a run has no  *)
(* gaps however often the script runs; what the script holds fits the calls *)
(* as they are; a report in progress agrees with the ledger; and on a list  *)
(* somebody pages through, what has not moved is still behind the pages.    *)
THEOREM Inductive == Spec => []IInv
<1>1. Init => IInv
  BY InitInvariant
<1>2. IInv /\ [Next]_vars => IInv'
  BY NextInvariant, Stutters
<1> QED
  BY <1>1, <1>2, PTL DEF Spec

(* The calls a client is billed for a period are fixed once the period is  *)
(* over and the transactions begun in it have ended: whatever is committed *)
(* later carries a later date, and the backfill changes no date and no     *)
(* owner.  No Task comes into the period, and only that of an analysis     *)
(* goes, into a later one: closed_at is written over when one that was     *)
(* cancelled fails.                                                        *)
THEOREM BilledOnce == Spec => SettledPeriodFixed
<1> DEFINE Fixed ==
      \A k \in Clients :
        /\ ClientCalls(k)' = ClientCalls(k)
        /\ ClientClosed(k)' \subseteq ClientClosed(k)
        /\ \A t \in ClientClosed(k) \ ClientClosed(k)' :
             t \in Analyses /\ t \in DOMAIN closed'
<1>1. ASSUME IInv, [Next]_vars, Settled PROVE Fixed
  <2>1. CASE Next
    <3>1. TypeOK /\ OpenRowsDated /\ LedgerEffects
      BY <1>1, <2>1, StepEffects DEF IInv
    <3> QED
      BY <1>1, <3>1, SettledStays
  <2>2. CASE UNCHANGED vars
    BY <1>1, <2>2, Stutters
  <2> QED
    BY <1>1, <2>1, <2>2
<1>2. IInv /\ [Next]_vars => [Settled => Fixed]_vars
  BY <1>1
<1> QED
  BY <1>2, Inductive, PTL DEF Spec, SettledPeriodFixed

(* A stored call that belongs to a run is never removed and never given to *)
(* another run: transactions roll back only what is not stored, and the    *)
(* script holds only calls that still have no Task when it commits.        *)
THEOREM RunsKeepCalls == Spec => AssignedOnce
<1>1. ASSUME IInv, [Next]_vars, NEW c \in Stored, rows[c].task # None
      PROVE  c \in DOMAIN rows' /\ rows'[c].task = rows[c].task
  <2>1. CASE Next
    <3>1. TypeOK /\ BackfillHolds /\ LedgerEffects
      BY <1>1, <2>1, StepEffects DEF IInv
    <3> QED
      BY <1>1, <3>1, AssignedStays
  <2>2. CASE UNCHANGED vars
    BY <1>1, <2>2, Stutters DEF Stored
  <2> QED
    BY <1>1, <2>1, <2>2
<1>2. IInv /\ [Next]_vars
        => [\A c \in Stored : rows[c].task # None =>
              c \in DOMAIN rows' /\ rows'[c].task = rows[c].task]_vars
  BY <1>1
<1> QED
  BY <1>2, Inductive, PTL DEF Spec, AssignedOnce

(* Whoever pages through a list to its end has seen everything that was on *)
(* it and did not move, unless a page ended inside one transaction or a    *)
(* Task left a list narrowed down by agent or status; and when the report  *)
(* of a settled period is answered, every line agrees with the ledger in   *)
(* every figure, though each figure came from a statement of its own, and  *)
(* the lines rank by what they show.  Of Tasks closed again meanwhile a    *)
(* line counts those of some moment since the report was asked for.        *)
THEOREM AnswersHold == Spec => AnswersTrue
<1>1. ASSUME IInv, Next, report # Resting, report' = Resting
      PROVE  ReportManaged
  <2>1. TypeOK /\ BackfillHolds /\ ReportHolds
    BY <1>1 DEF IInv
  <2>2. report' # report
    BY <1>1
  <2>3. ~Ledger
    BY <2>2 DEF Ledger, panel, OpenTask, AssignTask, CancelAnalysis, FailAnalysis,
       CommitClosing, LoseClosing, ChatCall, ChatError, SessionUsage, ProposeSkill, Add,
       Commit, Rollback
  <2>4. ~Backfill
    BY <2>2 DEF Backfill, panel, BackfillStart, BackfillGroup, BackfillRefused,
       BackfillCrash, BackfillCommit, BackfillAgent
  <2>5. /\ ~\E of \in Lists : OpenList(of)
        /\ ~NextPage
        /\ ~\E k \in Clients : AskSummary(k)
        /\ ~AskRanking
        /\ ~ReportSum
        /\ ~ReportTasks
    BY <1>1, <2>1, <2>2, AskSummaryStep, AskRankingStep, ReportSumStep, ReportTasksStep
       DEF OpenList, NextPage
  <2> QED
    BY <1>1, <2>3, <2>4, <2>5 DEF Next, Panel
<1>2. ASSUME IInv, Next PROVE ReportExact
  <2> SUFFICES ASSUME report # Resting, report' = Resting PROVE ReportExact
    BY DEF ReportExact
  <2>1. ReportManaged /\ report.at = "managed"
    BY <1>1, <1>2 DEF ReportManaged
  <2>2. ReportParts /\ ReportFigures /\ ReportOrder
    BY <1>2, ReportHoldsParts DEF IInv
  <2>3. PICK lines : lines = Append(report.lines, LastLine)
    OBVIOUS
  <2>4. /\ \A i \in DOMAIN lines : lines[i] \in TrueLines(lines[i].client)
        /\ \A i, j \in DOMAIN lines : i < j => lines[i].direct >= lines[j].direct
    BY <2>1, <2>2, <2>3, LinesGrow
  <2> QED
    BY <2>3, <2>4 DEF ReportExact
<1>3. ASSUME IInv, Next PROVE ListComplete
  <2>1. TypeOK /\ BackfillHolds /\ PageHolds /\ LedgerEffects
    BY <1>3, StepEffects DEF IInv
  <2> QED
    BY <1>3, <2>1, TypesKept, PagesKept
<1>4. IInv /\ [Next]_vars => [ListComplete /\ ReportExact]_vars
  BY <1>2, <1>3
<1> QED
  BY <1>4, Inductive, PTL DEF Spec, AnswersTrue

=============================================================================
