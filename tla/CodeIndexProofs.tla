---------------------------- MODULE CodeIndexProofs ----------------------------
(***************************************************************************)
(* Theorems about CodeIndex for any number of runners, repositories, files *)
(* and versions, and any messages that name files or can never be handled. *)
(***************************************************************************)
EXTENDS CodeIndex, SequenceTheorems, TLAPS

-----------------------------------------------------------------------------
(* Data.                                                                   *)

LEMMA WriterKinds == \A w \in Writers : w = Worker \/ (w \in Runners /\ w # Worker)
BY CodeIndexConstants DEF Writers

LEMMA MessageParts ==
  ASSUME NEW m \in Messages, m.body = "reindex"
  PROVE  m.repo \in Repos /\ m.files \in Seq(Files) /\ m.files # <<>>
BY CodeIndexConstants

(* The chunks of a file are of that file, and of the turn that read it.    *)
LEMMA ChunksTyped ==
  ASSUME TypeOK, NEW repo \in Repos, NEW f \in Files, NEW by \in Nat \ {0}
  PROVE  /\ Chunks(repo, f, by) \subseteq Points
         /\ \A c \in Chunks(repo, f, by) : c.file = f /\ c.by = by
<1>1. disk[f] \in Versions /\ ChunkCount[disk[f]] \in Nat
  BY CodeIndexConstants DEF TypeOK
<1>2. SUFFICES ASSUME NEW i \in 1..ChunkCount[disk[f]],
                      NEW c, c = [repo |-> repo, file |-> f, ver |-> disk[f], part |-> i, by |-> by]
               PROVE  c \in Points /\ c.file = f /\ c.by = by
  BY DEF Chunks
<1>3. i \in Nat
  BY <1>1
<1> QED
  BY <1>1, <1>2, <1>3 DEF Points

-----------------------------------------------------------------------------
(* What steps do, a writer at a time.                                      *)

Apart(w) ==
  \A x \in Writers \ {w} : pc'[x] = pc[x] /\ batch'[x] = batch[x] /\ turn'[x] = turn[x]

(* The turn of a writer is over.                                           *)
Closed(w) ==
  /\ turn[w] # 0 /\ turn'[w] = 0 /\ batch'[w] = {}
  /\ w = Worker => pc'[w] = "idle"
  /\ w # Worker => pc'[w] \in {"indexed", "failed"} /\ left' = left /\ msg' = msg
  /\ UNCHANGED <<stamp, met, blind>>

Ends(w) ==
  /\ TypeOK' /\ Apart(w) /\ Closed(w) /\ points' = points /\ collection' = collection

(* The others are as they were, and nobody's turn begins or ends.          *)
Stays(w) ==
  /\ TypeOK' /\ Apart(w) /\ turn'[w] = turn[w]
  /\ UNCHANGED <<stamp, met, blind>>

Moves(w) ==
  /\ Stays(w) /\ batch'[w] = batch[w] /\ points' = points
  /\ pc[w] \in {"ensure", "create", "embed"}
  /\ collection => collection'
  /\ left' = left /\ msg' = msg
  /\ \/ pc[w] # "embed" /\ pc'[w] = "create"
     \/ pc[w] # "embed" /\ collection' /\ pc'[w] = AfterEnsure(w)
     \/ pc[w] = "embed" /\ pc'[w] = (IF w = Worker THEN "upsert" ELSE "ensure")

Writes(w) ==
  \E c \in batch[w] :
    /\ TypeOK' /\ Apart(w) /\ pc[w] = "upsert"
    /\ points' = points \cup {c} /\ collection' = collection
    /\ \/ Closed(w)
       \/ /\ Stays(w) /\ batch'[w] = batch[w] \ {c} /\ batch'[w] # {} /\ pc'[w] = "upsert"
          /\ left' = left /\ msg' = msg

Opens(w) ==
  /\ TypeOK' /\ Apart(w) /\ pc[w] = "idle" /\ turn[w] = 0
  /\ stamp' = stamp + 1 /\ turn'[w] = stamp + 1 /\ batch'[w] = batch[w]
  /\ met' = met \cup {{stamp + 1, turn[x]} : x \in {y \in Writers \ {w} : turn[y] # 0}}
  /\ points' = points /\ collection' = collection /\ blind \subseteq blind'
  /\ \/ /\ w = Worker /\ pc'[w] = "ensure"
        /\ left' # <<>> /\ msg' \in Messages /\ msg'.body = "reindex"
     \/ /\ w # Worker /\ pc'[w] = "walk" /\ left' = left /\ msg' = msg
        /\ points = {} \/ stamp + 1 \in blind'

(* A runner that finds chunks has nothing to do.                           *)
Passes(w) ==
  /\ Stays(w) /\ w # Worker /\ batch'[w] = batch[w] /\ points' = points
  /\ collection' = collection /\ left' = left /\ msg' = msg
  /\ pc[w] = "idle" /\ pc'[w] = "indexed"

Walks(w) ==
  /\ Stays(w) /\ w # Worker /\ points' = points
  /\ collection' = collection /\ left' = left /\ msg' = msg
  /\ pc[w] = "walk" /\ pc'[w] = "embed"
  /\ batch'[w] # {} /\ \A c \in batch'[w] : c.by = turn[w]

Deletes ==
  /\ Stays(Worker) /\ batch'[Worker] = batch[Worker] /\ collection' = collection
  /\ left' = left /\ msg' = msg
  /\ pc[Worker] = "delete" /\ pc'[Worker] = "chunk"
  /\ points' = {p \in points : p.file # Head(left)}

Chunked ==
  /\ Stays(Worker) /\ points' = points /\ collection' = collection /\ msg' = msg
  /\ pc[Worker] = "chunk"
  /\ \A c \in batch'[Worker] :
       c \in batch[Worker] \/ (c.file = Head(left) /\ c.by = turn[Worker])
  /\ \/ pc'[Worker] = "delete" /\ left' # <<>>
     \/ pc'[Worker] = "embed" /\ batch'[Worker] # {}

(* Nobody moves.                                                           *)
Around ==
  /\ TypeOK' /\ UNCHANGED <<points, collection, pc, batch, turn, stamp, met, blind, msg, left>>

Effects ==
  \/ Around \/ Deletes \/ Chunked
  \/ \E w \in Writers : Ends(w) \/ Moves(w) \/ Writes(w) \/ Opens(w) \/ Passes(w) \/ Walks(w)

-----------------------------------------------------------------------------
(* The actions do that.                                                    *)

(* Of the writers' state only that of w changes.                           *)
LEMMA LocalStep ==
  ASSUME TypeOK, NEW w \in Writers, NEW step \in Steps, NEW chunks \in SUBSET Points, NEW t \in Nat,
         pc' = [pc EXCEPT ![w] = step] \/ (pc' = pc /\ step = pc[w]),
         batch' = [batch EXCEPT ![w] = chunks] \/ (batch' = batch /\ chunks = batch[w]),
         turn' = [turn EXCEPT ![w] = t] \/ (turn' = turn /\ t = turn[w])
  PROVE  /\ Apart(w) /\ pc'[w] = step /\ batch'[w] = chunks /\ turn'[w] = t
         /\ pc' \in [Writers -> Steps] /\ batch' \in [Writers -> SUBSET Points]
         /\ turn' \in [Writers -> Nat]
<1>1. /\ pc \in [Writers -> Steps] /\ batch \in [Writers -> SUBSET Points]
      /\ turn \in [Writers -> Nat]
  BY DEF TypeOK
<1>2. /\ pc'[w] = step /\ pc' \in [Writers -> Steps]
      /\ \A x \in Writers \ {w} : pc'[x] = pc[x]
  BY <1>1
<1>3. /\ batch'[w] = chunks /\ batch' \in [Writers -> SUBSET Points]
      /\ \A x \in Writers \ {w} : batch'[x] = batch[x]
  BY <1>1
<1>4. /\ turn'[w] = t /\ turn' \in [Writers -> Nat]
      /\ \A x \in Writers \ {w} : turn'[x] = turn[x]
  BY <1>1
<1> QED
  BY <1>2, <1>3, <1>4 DEF Apart

LocalTyped == disk \in [Files -> Versions] /\ unread \subseteq Files

LEMMA LocalKept ==
  ASSUME TypeOK, UNCHANGED local
  PROVE  LocalTyped'
BY DEF TypeOK, LocalTyped, local

LEMMA TurnsRun ==
  ASSUME StepsMatch, NEW w \in Writers, pc[w] \notin {"idle", "indexed", "failed"}
  PROVE  /\ turn[w] # 0
         /\ w = Worker => msg \in Messages /\ msg.body = "reindex"
BY DEF StepsMatch

(* A turn ends: done, raised, or the process died.                         *)
LEMMA CloseStep ==
  ASSUME TypeOK, StepsMatch, NEW w \in Writers, turn[w] # 0,
         NEW step \in Steps, Close(w, step), step = "idle" <=> w = Worker,
         step \in {"idle", "indexed", "failed"},
         queue' \in Seq(Messages),
         IF w = Worker THEN msg' = NoMessage /\ left' = <<>> ELSE UNCHANGED <<msg, left>>,
         {sent', pulls', faults'} \subseteq Nat, LocalTyped',
         UNCHANGED <<stamp, met, blind>>,
         collection' = collection, points' \subseteq Points
  PROVE  TypeOK' /\ Apart(w) /\ Closed(w)
<1>1. /\ pc' = [pc EXCEPT ![w] = step] /\ turn' = [turn EXCEPT ![w] = 0]
      /\ batch' = [batch EXCEPT ![w] = {}]
  BY DEF Close, Goto
<1>2. /\ Apart(w) /\ pc'[w] = step /\ batch'[w] = {} /\ turn'[w] = 0
      /\ pc' \in [Writers -> Steps] /\ batch' \in [Writers -> SUBSET Points]
      /\ turn' \in [Writers -> Nat]
  <2>1. {} \in SUBSET Points /\ 0 \in Nat
    OBVIOUS
  <2> QED
    BY <1>1, <2>1, LocalStep
<1>3. msg' \in Messages \cup {NoMessage} /\ left' \in Seq(Files)
  BY EmptySeq DEF TypeOK
<1>4. TypeOK'
  BY <1>2, <1>3 DEF TypeOK, LocalTyped
<1>5. Closed(w)
  BY <1>2 DEF Closed
<1> QED
  BY <1>2, <1>4, <1>5

LEMMA DoneStep ==
  ASSUME TypeOK, StepsMatch, NEW w \in Writers, turn[w] # 0, Done(w),
         LocalTyped', {sent', pulls', faults'} \subseteq Nat,
         collection' = collection, points' \subseteq Points
  PROVE  TypeOK' /\ Apart(w) /\ Closed(w)
<1> DEFINE step == IF w = Worker THEN "idle" ELSE "indexed"
<1>1. /\ Close(w, step) /\ UNCHANGED <<queue, stamp, met, blind>>
      /\ IF w = Worker THEN msg' = NoMessage /\ left' = <<>> ELSE UNCHANGED <<msg, left>>
  BY DEF Done
<1>2. step \in Steps /\ (step = "idle" <=> w = Worker) /\ step \in {"idle", "indexed", "failed"}
  BY DEF Steps
<1>3. queue' \in Seq(Messages)
  BY <1>1 DEF TypeOK
<1> HIDE DEF step
<1> QED
  BY <1>1, <1>2, <1>3, CloseStep

LEMMA RaiseStep ==
  ASSUME TypeOK, StepsMatch, NEW w \in Writers, pc[w] \notin {"idle", "indexed", "failed"},
         Raise(w), LocalTyped', UNCHANGED store, {sent', pulls', faults'} \subseteq Nat
  PROVE  Ends(w)
<1> DEFINE step == IF w = Worker THEN "idle" ELSE "failed"
<1>1. /\ Close(w, step) /\ UNCHANGED <<stamp, met, blind>>
      /\ IF w = Worker THEN msg' = NoMessage /\ left' = <<>> ELSE UNCHANGED <<msg, left>>
      /\ queue' = (IF w = Worker THEN Append(queue, msg) ELSE queue)
  BY DEF Raise, worker
<1>2. step \in Steps /\ (step = "idle" <=> w = Worker) /\ step \in {"idle", "indexed", "failed"}
  BY DEF Steps
<1>3. queue' \in Seq(Messages) /\ turn[w] # 0
  BY <1>1, TurnsRun, AppendProperties DEF TypeOK
<1>4. collection' = collection /\ points' = points /\ points' \subseteq Points
  BY DEF store, TypeOK
<1> HIDE DEF step
<1> QED
  BY <1>1, <1>2, <1>3, <1>4, CloseStep DEF Ends

LEMMA CallFailsStep ==
  ASSUME TypeOK, StepsMatch, NEW w \in Writers, pc[w] \notin {"idle", "indexed", "failed"},
         CallFails(w), LocalTyped'
  PROVE  Ends(w)
<1>1. {sent', pulls', faults'} \subseteq Nat /\ Raise(w) /\ UNCHANGED store
  BY DEF CallFails, TypeOK
<1> QED
  BY <1>1, RaiseStep

LEMMA CrashStep ==
  ASSUME TypeOK, StepsMatch, NEW w \in Writers, Crash(w)
  PROVE  Ends(w)
<1> DEFINE step == IF w = Worker THEN "idle" ELSE "failed"
<1>1. /\ Close(w, step) /\ UNCHANGED <<stamp, met, blind>> /\ LocalTyped'
      /\ IF w = Worker THEN msg' = NoMessage /\ left' = <<>> ELSE UNCHANGED <<msg, left>>
      /\ queue' = (IF w = Worker THEN <<msg>> \o queue ELSE queue)
      /\ pc[w] \notin {"idle", "indexed", "failed"}
      /\ {sent', pulls', faults'} \subseteq Nat
  BY LocalKept DEF Crash, worker, TypeOK
<1>2. step \in Steps /\ (step = "idle" <=> w = Worker) /\ step \in {"idle", "indexed", "failed"}
  BY DEF Steps
<1>3. queue' \in Seq(Messages) /\ turn[w] # 0
  <2>1. turn[w] # 0 /\ (w = Worker => msg \in Messages)
    BY <1>1, TurnsRun
  <2>2. w = Worker => <<msg>> \in Seq(Messages)
    BY <2>1
  <2>3. queue \in Seq(Messages)
    BY DEF TypeOK
  <2> QED
    BY <1>1, <2>1, <2>2, <2>3, ConcatProperties
<1>4. collection' = collection /\ points' = points /\ points' \subseteq Points
  BY DEF Crash, store, TypeOK
<1> HIDE DEF step
<1> QED
  BY <1>1, <1>2, <1>3, <1>4, CloseStep DEF Ends

(* A writer goes on, with what it holds.                                   *)
LEMMA GotoStep ==
  ASSUME TypeOK, NEW w \in Writers, NEW step \in Steps, Goto(w, step),
         LocalTyped', UNCHANGED <<worker, batch, counters, turns>>,
         collection' \in BOOLEAN, points' \subseteq Points
  PROVE  /\ Stays(w) /\ batch'[w] = batch[w] /\ pc'[w] = step
         /\ left' = left /\ msg' = msg
<1>1. pc' = [pc EXCEPT ![w] = step] /\ batch' = batch /\ turn' = turn
  BY DEF Goto, turns
<1>2. batch[w] \in SUBSET Points /\ turn[w] \in Nat
  BY DEF TypeOK
<1>3. /\ Apart(w) /\ pc'[w] = step /\ batch'[w] = batch[w] /\ turn'[w] = turn[w]
      /\ pc' \in [Writers -> Steps] /\ batch' \in [Writers -> SUBSET Points]
      /\ turn' \in [Writers -> Nat]
  BY <1>1, <1>2, LocalStep
<1>4. TypeOK'
  BY <1>3 DEF TypeOK, LocalTyped, worker, counters, turns
<1> QED
  BY <1>3, <1>4 DEF Stays, worker, turns

LEMMA CheckCollectionStep ==
  ASSUME TypeOK, StepsMatch, NEW w \in Writers, CheckCollection(w)
  PROVE  Moves(w) \/ Ends(w)
<1>1. LocalTyped' /\ pc[w] = "ensure"
  BY LocalKept DEF CheckCollection
<1>2. CASE CallFails(w)
  BY <1>1, <1>2, CallFailsStep
<1>3. CASE /\ Goto(w, IF collection THEN AfterEnsure(w) ELSE "create")
           /\ UNCHANGED <<store, worker, batch, counters, turns>>
  <2>1. PICK step : step = (IF collection THEN AfterEnsure(w) ELSE "create")
    OBVIOUS
  <2>2. step \in Steps
    BY <2>1 DEF Steps, AfterEnsure
  <2>3. Goto(w, step)
    BY <1>3, <2>1
  <2>4. collection' = collection /\ points' = points
        /\ collection' \in BOOLEAN /\ points' \subseteq Points
    BY <1>3 DEF store, TypeOK
  <2>5. UNCHANGED <<worker, batch, counters, turns>>
    BY <1>1, <1>3
  <2>6. /\ Stays(w) /\ batch'[w] = batch[w] /\ pc'[w] = step
        /\ left' = left /\ msg' = msg
    BY <1>1, <2>2, <2>3, <2>4, <2>5, GotoStep
  <2> QED
    BY <1>1, <2>1, <2>4, <2>6 DEF Moves
<1> QED
  BY <1>2, <1>3 DEF CheckCollection

LEMMA CreateCollectionStep ==
  ASSUME TypeOK, StepsMatch, NEW w \in Writers, CreateCollection(w)
  PROVE  Moves(w) \/ Ends(w)
<1>1. LocalTyped' /\ pc[w] = "create"
  BY LocalKept DEF CreateCollection
<1>2. CASE CallFails(w)
  BY <1>1, <1>2, CallFailsStep
<1>3. CASE Raise(w) /\ UNCHANGED <<store, counters>>
  <2>1. {sent', pulls', faults'} \subseteq Nat
    BY <1>3 DEF counters, TypeOK
  <2> QED
    BY <1>1, <1>3, <2>1, RaiseStep
<1>4. CASE /\ collection' = TRUE /\ Goto(w, AfterEnsure(w))
           /\ UNCHANGED <<points, worker, batch, counters, turns>>
  <2>1. PICK step : step = AfterEnsure(w)
    OBVIOUS
  <2>2. step \in Steps
    BY <2>1 DEF Steps, AfterEnsure
  <2>3. Goto(w, step)
    BY <1>4, <2>1
  <2>4. collection' /\ points' = points /\ collection' \in BOOLEAN /\ points' \subseteq Points
    BY <1>4 DEF TypeOK
  <2>5. UNCHANGED <<worker, batch, counters, turns>>
    BY <1>1, <1>4
  <2>6. /\ Stays(w) /\ batch'[w] = batch[w] /\ pc'[w] = step
        /\ left' = left /\ msg' = msg
    BY <1>1, <2>2, <2>3, <2>4, <2>5, GotoStep
  <2> QED
    BY <1>1, <2>1, <2>4, <2>6 DEF Moves
<1> QED
  BY <1>2, <1>3, <1>4 DEF CreateCollection

LEMMA EmbedStep ==
  ASSUME TypeOK, StepsMatch, NEW w \in Writers, Embed(w)
  PROVE  Moves(w) \/ Ends(w)
<1>1. LocalTyped' /\ pc[w] = "embed"
  BY LocalKept DEF Embed
<1>2. CASE CallFails(w)
  BY <1>1, <1>2, CallFailsStep
<1>3. CASE /\ Goto(w, IF w = Worker THEN "upsert" ELSE "ensure")
           /\ UNCHANGED <<store, worker, batch, counters, turns>>
  <2>1. PICK step : step = (IF w = Worker THEN "upsert" ELSE "ensure")
    OBVIOUS
  <2>2. step \in Steps
    BY <2>1 DEF Steps
  <2>3. Goto(w, step)
    BY <1>3, <2>1
  <2>4. collection' = collection /\ points' = points
        /\ collection' \in BOOLEAN /\ points' \subseteq Points
    BY <1>3 DEF store, TypeOK
  <2>5. UNCHANGED <<worker, batch, counters, turns>>
    BY <1>1, <1>3
  <2>6. /\ Stays(w) /\ batch'[w] = batch[w] /\ pc'[w] = step
        /\ left' = left /\ msg' = msg
    BY <1>1, <2>2, <2>3, <2>4, <2>5, GotoStep
  <2> QED
    BY <1>1, <2>1, <2>4, <2>6 DEF Moves
<1> QED
  BY <1>2, <1>3 DEF Embed

LEMMA UpsertStep ==
  ASSUME TypeOK, StepsMatch, NEW w \in Writers, Upsert(w)
  PROVE  Writes(w) \/ Ends(w)
<1>1. LocalTyped' /\ pc[w] = "upsert"
  BY LocalKept DEF Upsert
<1>2. CASE CallFails(w)
  BY <1>1, <1>2, CallFailsStep
<1>3. CASE /\ LET c == CHOOSE c \in batch[w] : TRUE IN
                  /\ points' = points \cup {c}
                  /\ IF batch[w] = {c} THEN Done(w)
                     ELSE /\ batch' = [batch EXCEPT ![w] = @ \ {c}]
                          /\ UNCHANGED <<worker, pc, turns>>
           /\ UNCHANGED <<collection, counters>>
  <2>1. PICK c : c = CHOOSE x \in batch[w] : TRUE
    OBVIOUS
  <2>2. batch[w] # {} /\ batch[w] \subseteq Points
    BY <1>1 DEF StepsMatch, TypeOK
  <2>3. c \in batch[w]
    <3>1. \E x \in batch[w] : TRUE
      BY <2>2
    <3> QED
      BY <2>1, <3>1, Zenon
  <2>4. /\ points' = points \cup {c}
        /\ IF batch[w] = {c} THEN Done(w)
           ELSE /\ batch' = [batch EXCEPT ![w] = @ \ {c}]
                /\ UNCHANGED <<worker, pc, turns>>
    BY <1>3, <2>1
  <2>5. collection' = collection /\ counters' = counters /\ points' \subseteq Points
    BY <1>3, <2>2, <2>3, <2>4 DEF TypeOK
  <2>6. CASE batch[w] = {c}
    <3>1. Done(w) /\ turn[w] # 0
      BY <1>1, <2>4, <2>6, TurnsRun
    <3>2. TypeOK' /\ Apart(w) /\ Closed(w)
      <4>1. {sent', pulls', faults'} \subseteq Nat
        BY <2>5 DEF counters, TypeOK
      <4> QED
        BY <1>1, <2>5, <3>1, <4>1, DoneStep
    <3> QED
      BY <1>1, <2>3, <2>4, <2>5, <3>2 DEF Writes
  <2>7. CASE batch[w] # {c}
    <3>1. PICK rest : rest = batch[w] \ {c}
      OBVIOUS
    <3>2. rest \in SUBSET Points /\ rest # {}
      BY <2>2, <2>3, <2>7, <3>1
    <3>3. batch' = [batch EXCEPT ![w] = rest] /\ pc' = pc /\ turn' = turn
          /\ UNCHANGED <<worker, turns>>
      BY <2>4, <2>7, <3>1 DEF turns
    <3>4. pc[w] \in Steps /\ turn[w] \in Nat
      BY DEF TypeOK
    <3>5. /\ Apart(w) /\ pc'[w] = pc[w] /\ batch'[w] = rest /\ turn'[w] = turn[w]
          /\ pc' \in [Writers -> Steps] /\ batch' \in [Writers -> SUBSET Points]
          /\ turn' \in [Writers -> Nat]
      BY <3>2, <3>3, <3>4, LocalStep
    <3>6. TypeOK'
      BY <1>1, <2>5, <3>3, <3>5 DEF TypeOK, LocalTyped, worker, counters, turns
    <3>7. Stays(w)
      BY <3>3, <3>5, <3>6 DEF Stays, turns
    <3> QED
      BY <1>1, <2>3, <2>4, <2>5, <3>1, <3>2, <3>3, <3>5, <3>6, <3>7 DEF Writes, worker
  <2> QED
    BY <2>6, <2>7
<1> QED
  BY <1>2, <1>3 DEF Upsert

(* A turn begins.                                                          *)
LEMMA OpenStep ==
  ASSUME TypeOK, StepsMatch, NEW w \in Writers, NEW step \in Steps,
         Goto(w, step), Open(w), pc[w] = "idle",
         LocalTyped', UNCHANGED <<store, batch>>,
         queue' \in Seq(Messages), msg' \in Messages \cup {NoMessage}, left' \in Seq(Files),
         {sent', pulls', faults'} \subseteq Nat, blind' \subseteq Nat
  PROVE  /\ TypeOK' /\ Apart(w) /\ turn[w] = 0 /\ pc'[w] = step
         /\ stamp' = stamp + 1 /\ turn'[w] = stamp + 1 /\ batch'[w] = batch[w]
         /\ met' = met \cup {{stamp + 1, turn[x]} : x \in {y \in Writers \ {w} : turn[y] # 0}}
         /\ points' = points /\ collection' = collection
<1>1. PICK t : t = stamp + 1
  OBVIOUS
<1>2. t \in Nat /\ stamp' = t
  BY <1>1 DEF Open, TypeOK
<1>3. /\ pc' = [pc EXCEPT ![w] = step] /\ turn' = [turn EXCEPT ![w] = t] /\ batch' = batch
  BY <1>1 DEF Goto, Open
<1>4. batch[w] \in SUBSET Points
  BY DEF TypeOK
<1>5. /\ Apart(w) /\ pc'[w] = step /\ batch'[w] = batch[w] /\ turn'[w] = t
      /\ pc' \in [Writers -> Steps] /\ batch' \in [Writers -> SUBSET Points]
      /\ turn' \in [Writers -> Nat]
  BY <1>2, <1>3, <1>4, LocalStep
<1>6. met' = met \cup {{stamp + 1, turn[x]} : x \in {y \in Writers \ {w} : turn[y] # 0}}
  BY DEF Open
<1>7. met' \subseteq SUBSET Nat
  <2>1. \A x \in Writers : {stamp + 1, turn[x]} \in SUBSET Nat
    BY <1>1, <1>2 DEF TypeOK
  <2>2. {{stamp + 1, turn[x]} : x \in {y \in Writers \ {w} : turn[y] # 0}} \subseteq SUBSET Nat
    BY <2>1
  <2>3. met \subseteq SUBSET Nat
    BY DEF TypeOK
  <2> QED
    BY <1>6, <2>2, <2>3
<1>8. points' = points /\ collection' = collection
  BY DEF store
<1>9. TypeOK'
  BY <1>2, <1>5, <1>7, <1>8 DEF TypeOK, LocalTyped
<1>10. turn[w] = 0
  BY DEF StepsMatch
<1> QED
  BY <1>1, <1>2, <1>5, <1>6, <1>8, <1>9, <1>10

LEMMA CountChunksStep ==
  ASSUME TypeOK, StepsMatch, NEW w \in Runners, CountChunks(w)
  PROVE  Opens(w) \/ Passes(w)
<1>1. /\ pc[w] = "idle" /\ w \in Writers /\ w # Worker
      /\ LocalTyped' /\ UNCHANGED <<store, worker, batch, sent, pulls>>
  BY CodeIndexConstants, LocalKept DEF CountChunks, Writers
<1>2. /\ queue' \in Seq(Messages) /\ msg' \in Messages \cup {NoMessage} /\ left' \in Seq(Files)
      /\ left' = left /\ msg' = msg /\ {sent', pulls', faults, stamp} \subseteq Nat
      /\ "walk" \in Steps /\ "indexed" \in Steps
      /\ collection' = collection /\ points' = points
      /\ collection' \in BOOLEAN /\ points' \subseteq Points
  BY <1>1 DEF TypeOK, worker, Steps, store
<1>3. CASE /\ points = {} /\ Goto(w, "walk") /\ Open(w) /\ UNCHANGED <<faults, blind>>
  <2>1. {sent', pulls', faults'} \subseteq Nat /\ blind' \subseteq Nat
    BY <1>2, <1>3 DEF TypeOK
  <2>2. /\ TypeOK' /\ Apart(w) /\ turn[w] = 0 /\ pc'[w] = "walk"
        /\ stamp' = stamp + 1 /\ turn'[w] = stamp + 1 /\ batch'[w] = batch[w]
        /\ met' = met \cup {{stamp + 1, turn[x]} : x \in {y \in Writers \ {w} : turn[y] # 0}}
        /\ points' = points /\ collection' = collection
    BY <1>1, <1>2, <1>3, <2>1, OpenStep
  <2> QED
    BY <1>1, <1>2, <1>3, <2>2 DEF Opens
<1>4. CASE /\ faults' = faults + 1 /\ Goto(w, "walk") /\ Open(w)
           /\ blind' = blind \cup {stamp + 1}
  <2>1. {sent', pulls', faults'} \subseteq Nat /\ blind' \subseteq Nat
    <3>1. stamp + 1 \in Nat /\ faults + 1 \in Nat /\ sent' \in Nat /\ pulls' \in Nat
      BY <1>2
    <3>2. blind \subseteq Nat
      BY DEF TypeOK
    <3> QED
      BY <1>4, <3>1, <3>2
  <2>2. /\ TypeOK' /\ Apart(w) /\ turn[w] = 0 /\ pc'[w] = "walk"
        /\ stamp' = stamp + 1 /\ turn'[w] = stamp + 1 /\ batch'[w] = batch[w]
        /\ met' = met \cup {{stamp + 1, turn[x]} : x \in {y \in Writers \ {w} : turn[y] # 0}}
        /\ points' = points /\ collection' = collection
    BY <1>1, <1>2, <1>4, <2>1, OpenStep
  <2> QED
    BY <1>1, <1>2, <1>4, <2>2 DEF Opens
<1>5. CASE Goto(w, "indexed") /\ UNCHANGED <<stamp, turn, met, faults, blind>>
  <2>1. UNCHANGED <<worker, batch, counters, turns>>
    BY <1>1, <1>5 DEF counters, turns
  <2>2. /\ Stays(w) /\ batch'[w] = batch[w] /\ pc'[w] = "indexed"
        /\ left' = left /\ msg' = msg
    BY <1>1, <1>2, <1>5, <2>1, GotoStep
  <2> QED
    BY <1>1, <1>2, <2>2 DEF Passes
<1> QED
  BY <1>3, <1>4, <1>5 DEF CountChunks

LEMMA WalkFilesStep ==
  ASSUME TypeOK, StepsMatch, NEW w \in Runners, WalkFiles(w)
  PROVE  Walks(w) \/ Ends(w)
<1>1. /\ pc[w] = "walk" /\ w \in Writers /\ w # Worker
      /\ LocalTyped' /\ UNCHANGED <<store, sent, pulls>>
  BY CodeIndexConstants, LocalKept DEF WalkFiles, Writers
<1>2. turn[w] \in Nat \ {0}
  BY <1>1, TurnsRun DEF TypeOK
<1>3. PICK raised \in SUBSET Files :
        /\ ReadRaises(raised)
        /\ LET found == UNION {Chunks(LocalRepo, f, turn[w]) : f \in Files \ raised} IN
           IF found = {} THEN Done(w)
           ELSE /\ batch' = [batch EXCEPT ![w] = found] /\ Goto(w, "embed")
                /\ UNCHANGED <<worker, turns>>
  BY DEF WalkFiles
<1>9. PICK found : found = UNION {Chunks(LocalRepo, f, turn[w]) : f \in Files \ raised}
  OBVIOUS
<1>4. IF found = {} THEN Done(w)
      ELSE /\ batch' = [batch EXCEPT ![w] = found] /\ Goto(w, "embed")
           /\ UNCHANGED <<worker, turns>>
  BY <1>3, <1>9
<1>5. found \in SUBSET Points /\ \A c \in found : c.by = turn[w]
  <2>1. ASSUME NEW f \in Files
        PROVE  /\ Chunks(LocalRepo, f, turn[w]) \subseteq Points
               /\ \A c \in Chunks(LocalRepo, f, turn[w]) : c.by = turn[w]
    <3>1. LocalRepo \in Repos
      BY CodeIndexConstants
    <3> QED
      BY <1>2, <3>1, ChunksTyped
  <2> QED
    BY <1>9, <2>1
<1>6. /\ collection' = collection /\ points' = points /\ points' \subseteq Points
      /\ {sent', pulls', faults'} \subseteq Nat
  BY <1>1, <1>3 DEF store, TypeOK, ReadRaises
<1>7. CASE found = {}
  <2>1. TypeOK' /\ Apart(w) /\ Closed(w)
    BY <1>1, <1>2, <1>4, <1>6, <1>7, DoneStep
  <2> QED
    BY <1>6, <2>1 DEF Ends
<1>8. CASE found # {}
  <2>1. /\ pc' = [pc EXCEPT ![w] = "embed"] /\ batch' = [batch EXCEPT ![w] = found]
        /\ turn' = turn /\ UNCHANGED <<worker, turns>>
    BY <1>4, <1>8 DEF Goto, turns
  <2>2. "embed" \in Steps /\ turn[w] \in Nat
    BY <1>2 DEF Steps
  <2>3. /\ Apart(w) /\ pc'[w] = "embed" /\ batch'[w] = found /\ turn'[w] = turn[w]
        /\ pc' \in [Writers -> Steps] /\ batch' \in [Writers -> SUBSET Points]
        /\ turn' \in [Writers -> Nat]
    BY <1>1, <1>5, <2>1, <2>2, LocalStep
  <2>4. TypeOK'
    BY <1>1, <1>6, <2>1, <2>3 DEF TypeOK, LocalTyped, worker, turns
  <2>5. Stays(w)
    BY <2>1, <2>3, <2>4 DEF Stays, turns
  <2> QED
    BY <1>1, <1>5, <1>6, <1>8, <2>1, <2>3, <2>5 DEF Walks, worker
<1> QED
  BY <1>7, <1>8

LEMMA TakeMessageStep ==
  ASSUME TypeOK, StepsMatch, TakeMessage
  PROVE  Around \/ Opens(Worker)
<1>1. /\ pc[Worker] = "idle" /\ queue # <<>> /\ Worker \in Writers
      /\ LocalTyped' /\ UNCHANGED <<store, batch, counters, blind>>
  BY LocalKept DEF TakeMessage, Writers
<1>2. PICK m : m = Head(queue)
  OBVIOUS
<1>3. m \in Messages /\ Tail(queue) \in Seq(Messages)
  BY <1>1, <1>2, HeadTailProperties DEF TypeOK
<1>4. CASE /\ queue' = IF m.body = "bad fields" THEN Append(Tail(queue), m) ELSE Tail(queue)
           /\ UNCHANGED <<msg, left, pc, stamp, turn, met>>
  <2>1. queue' \in Seq(Messages)
    BY <1>3, <1>4, AppendProperties
  <2> QED
    BY <1>1, <1>4, <2>1 DEF Around, TypeOK, LocalTyped, store, counters
<1>5. CASE /\ m.body = "reindex" /\ queue' = Tail(queue) /\ msg' = m /\ left' = m.files
           /\ Goto(Worker, "ensure") /\ Open(Worker)
  <2>1. m.files \in Seq(Files) /\ m.files # <<>>
    BY <1>3, <1>5, MessageParts
  <2>2. /\ queue' \in Seq(Messages) /\ msg' \in Messages \cup {NoMessage} /\ left' \in Seq(Files)
        /\ {sent', pulls', faults'} \subseteq Nat /\ blind' \subseteq Nat /\ blind' = blind
        /\ "ensure" \in Steps /\ UNCHANGED <<store, batch>>
    BY <1>1, <1>3, <1>5, <2>1 DEF TypeOK, counters, Steps
  <2>3. /\ TypeOK' /\ Apart(Worker) /\ turn[Worker] = 0 /\ pc'[Worker] = "ensure"
        /\ stamp' = stamp + 1 /\ turn'[Worker] = stamp + 1 /\ batch'[Worker] = batch[Worker]
        /\ met' = met \cup {{stamp + 1, turn[x]} : x \in {y \in Writers \ {Worker} : turn[y] # 0}}
        /\ points' = points /\ collection' = collection
    BY <1>1, <1>5, <2>2, OpenStep
  <2> QED
    BY <1>1, <1>3, <1>5, <2>1, <2>2, <2>3 DEF Opens
<1> QED
  BY <1>2, <1>4, <1>5 DEF TakeMessage

LEMMA DeleteFileStep ==
  ASSUME TypeOK, StepsMatch, DeleteFile
  PROVE  Deletes \/ Ends(Worker)
<1>1. LocalTyped' /\ pc[Worker] = "delete" /\ Worker \in Writers
  BY LocalKept DEF DeleteFile, Writers
<1>2. CASE CallFails(Worker)
  BY <1>1, <1>2, CallFailsStep
<1>3. CASE /\ points' = DeleteByFile(Head(left)) /\ Goto(Worker, "chunk")
           /\ UNCHANGED <<collection, worker, batch, counters, turns>>
  <2>1. /\ points' = {p \in points : p.file # Head(left)} /\ points' \subseteq Points
        /\ collection' \in BOOLEAN /\ collection' = collection
    BY <1>3 DEF DeleteByFile, TypeOK
  <2>2. "chunk" \in Steps /\ UNCHANGED <<worker, batch, counters, turns>>
    BY <1>1, <1>3 DEF Steps
  <2>3. /\ Stays(Worker) /\ batch'[Worker] = batch[Worker] /\ pc'[Worker] = "chunk"
        /\ left' = left /\ msg' = msg
    BY <1>1, <1>3, <2>1, <2>2, GotoStep
  <2> QED
    BY <1>1, <2>1, <2>3 DEF Deletes
<1> QED
  BY <1>2, <1>3 DEF DeleteFile

LEMMA ChunkFileStep ==
  ASSUME TypeOK, StepsMatch, ChunkFile
  PROVE  Chunked \/ Ends(Worker)
<1>1. /\ pc[Worker] = "chunk" /\ Worker \in Writers
      /\ UNCHANGED <<disk, store, sent, pulls>>
  BY DEF ChunkFile, Writers
<1>2. turn[Worker] \in Nat \ {0} /\ msg \in Messages /\ msg.body = "reindex" /\ left # <<>>
      /\ left \in Seq(Files) /\ batch[Worker] \in SUBSET Points
  BY <1>1, TurnsRun DEF TypeOK, StepsMatch
<1>3. /\ Head(left) \in Files /\ Tail(left) \in Seq(Files) /\ msg.repo \in Repos
      /\ Len(left) > 1 => Tail(left) # <<>>
  <2>1. /\ Head(left) \in Files /\ Tail(left) \in Seq(Files) /\ Len(Tail(left)) = Len(left) - 1
    BY <1>2, HeadTailProperties
  <2>2. Len(<<>>) = 0
    OBVIOUS
  <2>3. msg.repo \in Repos
    BY <1>2, MessageParts
  <2>4. Len(left) > 1 => Len(Tail(left)) # 0
    <3>1. Len(left) \in Nat
      BY <1>2, LenProperties
    <3> QED
      BY <2>1, <3>1
  <2>5. Len(left) > 1 => Tail(left) # <<>>
    BY <2>2, <2>4
  <2> QED
    BY <2>1, <2>3, <2>5
<1>0. PICK raised \in {{}, {Head(left)}} :
        /\ ReadRaises(raised)
        /\ unread' = IF msg.repo = LocalRepo THEN (unread \ {Head(left)}) \cup raised
                                             ELSE unread
        /\ AfterRead(IF raised = {}
                     THEN batch[Worker] \cup Chunks(msg.repo, Head(left), turn[Worker])
                     ELSE batch[Worker])
  BY DEF ChunkFile
<1>a. LocalTyped'
  BY <1>0, <1>1, <1>3 DEF LocalTyped, TypeOK
<1>4. PICK new : new = IF raised = {} THEN Chunks(msg.repo, Head(left), turn[Worker]) ELSE {}
  OBVIOUS
<1>5. new \subseteq Points /\ \A c \in new : c.file = Head(left) /\ c.by = turn[Worker]
  BY <1>2, <1>3, <1>4, ChunksTyped
<1>6. PICK read : read = batch[Worker] \cup new
  OBVIOUS
<1>7. /\ read \in SUBSET Points
      /\ \A c \in read : c \in batch[Worker] \/ (c.file = Head(left) /\ c.by = turn[Worker])
  BY <1>2, <1>5, <1>6
<1>8. IF Len(left) > 1
      THEN /\ batch' = [batch EXCEPT ![Worker] = read] /\ left' = Tail(left)
           /\ Goto(Worker, "delete") /\ UNCHANGED <<queue, msg, turns>>
      ELSE IF read = {} THEN Done(Worker)
      ELSE /\ batch' = [batch EXCEPT ![Worker] = read] /\ left' = <<>>
           /\ Goto(Worker, "embed") /\ UNCHANGED <<queue, msg, turns>>
  <2>1. AfterRead(read)
    BY <1>0, <1>4, <1>6
  <2> QED
    BY <2>1 DEF AfterRead
<1>9. /\ collection' = collection /\ points' = points /\ points' \subseteq Points
      /\ {sent', pulls', faults'} \subseteq Nat
  BY <1>0, <1>1 DEF store, TypeOK, ReadRaises
<1>10. ASSUME NEW step \in Steps, pc' = [pc EXCEPT ![Worker] = step],
              batch' = [batch EXCEPT ![Worker] = read], left' \in Seq(Files),
              UNCHANGED <<queue, msg, turns>>
       PROVE  Stays(Worker) /\ pc'[Worker] = step /\ batch'[Worker] = read /\ msg' = msg
  <2>1. turn' = turn /\ turn[Worker] \in Nat
    BY <1>2, <1>10 DEF turns
  <2>2. /\ Apart(Worker) /\ pc'[Worker] = step /\ batch'[Worker] = read
        /\ turn'[Worker] = turn[Worker]
        /\ pc' \in [Writers -> Steps] /\ batch' \in [Writers -> SUBSET Points]
        /\ turn' \in [Writers -> Nat]
    BY <1>1, <1>7, <1>10, <2>1, LocalStep
  <2>3. TypeOK'
    BY <1>a, <1>1, <1>9, <1>10, <2>2 DEF TypeOK, LocalTyped, turns
  <2> QED
    BY <1>10, <2>2, <2>3 DEF Stays, turns
<1>11. CASE Len(left) > 1
  <2>1. /\ pc' = [pc EXCEPT ![Worker] = "delete"] /\ "delete" \in Steps
        /\ batch' = [batch EXCEPT ![Worker] = read] /\ left' = Tail(left)
        /\ UNCHANGED <<queue, msg, turns>>
    BY <1>8, <1>11 DEF Goto, Steps
  <2>2. Stays(Worker) /\ pc'[Worker] = "delete" /\ batch'[Worker] = read /\ msg' = msg
    BY <1>3, <1>10, <2>1
  <2> QED
    BY <1>1, <1>3, <1>7, <1>9, <1>11, <2>1, <2>2 DEF Chunked
<1>12. CASE ~(Len(left) > 1) /\ read = {}
  <2>1. TypeOK' /\ Apart(Worker) /\ Closed(Worker)
    BY <1>a, <1>1, <1>2, <1>8, <1>9, <1>12, DoneStep
  <2> QED
    BY <1>9, <2>1 DEF Ends
<1>13. CASE ~(Len(left) > 1) /\ read # {}
  <2>1. /\ pc' = [pc EXCEPT ![Worker] = "embed"] /\ "embed" \in Steps
        /\ batch' = [batch EXCEPT ![Worker] = read] /\ left' = <<>>
        /\ UNCHANGED <<queue, msg, turns>>
    BY <1>8, <1>13 DEF Goto, Steps
  <2>2. left' \in Seq(Files)
    BY <2>1
  <2>3. Stays(Worker) /\ pc'[Worker] = "embed" /\ batch'[Worker] = read /\ msg' = msg
    BY <1>10, <2>1, <2>2
  <2> QED
    BY <1>1, <1>7, <1>9, <1>13, <2>3 DEF Chunked
<1> QED
  BY <1>11, <1>12, <1>13

LEMMA PullStep ==
  ASSUME TypeOK, NEW f \in Files, Pull(f)
  PROVE  Around
<1>1. disk' \in [Files -> Versions]
  BY DEF TypeOK, Pull
<1> QED
  BY <1>1 DEF Around, TypeOK, Pull, store, worker, turns

LEMMA PublishStep ==
  ASSUME TypeOK, NEW b \in Messages, Publish(b)
  PROVE  Around
<1>1. queue' \in Seq(Messages)
  BY AppendProperties DEF TypeOK, Publish
<1> QED
  BY <1>1 DEF Around, TypeOK, Publish, local, store, turns

LEMMA StepEffects ==
  ASSUME TypeOK, StepsMatch, Next
  PROVE  Effects
<1>1. ASSUME NEW f \in Files, Pull(f) PROVE Effects
  BY <1>1, PullStep DEF Effects
<1>2. ASSUME NEW b \in Messages, Publish(b) PROVE Effects
  BY <1>2, PublishStep DEF Effects
<1>3. Worker \in Writers /\ Runners \subseteq Writers
  BY DEF Writers
<1>4. ASSUME NEW w \in Writers, Write(w) PROVE Effects
  <2>1. Moves(w) \/ Writes(w) \/ Ends(w)
    BY <1>4, CheckCollectionStep, CreateCollectionStep, EmbedStep, UpsertStep DEF Write
  <2> QED
    BY <2>1 DEF Effects
<1>5. ASSUME Work PROVE Effects
  <2>1. Around \/ Opens(Worker) \/ Deletes \/ Ends(Worker) \/ Chunked \/ Write(Worker)
    BY <1>5, TakeMessageStep, DeleteFileStep, ChunkFileStep DEF Work
  <2> QED
    BY <1>3, <1>4, <2>1 DEF Effects
<1>6. ASSUME NEW w \in Runners, Run(w) PROVE Effects
  <2>1. Opens(w) \/ Passes(w) \/ Walks(w) \/ Ends(w) \/ Write(w)
    BY <1>6, CountChunksStep, WalkFilesStep DEF Run
  <2> QED
    BY <1>3, <1>4, <2>1 DEF Effects
<1>7. ASSUME NEW w \in Writers, Crash(w) PROVE Effects
  BY <1>7, CrashStep DEF Effects
<1> QED
  BY <1>1, <1>2, <1>5, <1>6, <1>7 DEF Next

-----------------------------------------------------------------------------
(* Steps and turns match.                                                  *)

Matches(w) ==
  /\ turn[w] \in 0..stamp
  /\ turn[w] = 0 <=> pc[w] \in {"idle", "indexed", "failed"}
  /\ \A c \in batch[w] : c.by = turn[w]
  /\ pc[w] \in {"embed", "upsert"} => batch[w] # {}
  /\ pc[w] \in {"upsert", "delete", "chunk"} => collection
  /\ w # Worker => /\ pc[w] \notin {"delete", "chunk"}
                   /\ pc[w] \in {"ensure", "create"} => batch[w] # {}
  /\ w = Worker => /\ pc[w] \notin {"walk", "indexed", "failed"}
                   /\ pc[w] = "embed" => collection
                   /\ pc[w] \in {"ensure", "create", "delete", "chunk"} => left # <<>>
                   /\ pc[w] # "idle" => msg \in Messages /\ msg.body = "reindex"

PointsMatch == (\A p \in points : p.by \in 1..stamp) /\ (points # {} => collection)

LEMMA StepsMatchParts == StepsMatch <=> PointsMatch /\ \A w \in Writers : Matches(w)
<1>1. /\ Worker \in Writers /\ Runners \subseteq Writers
      /\ \A w \in Writers : w # Worker <=> w \in Runners
  BY CodeIndexConstants DEF Writers
<1>2. StepsMatch => PointsMatch /\ \A w \in Writers : Matches(w)
  <2>1. ASSUME StepsMatch PROVE PointsMatch
    BY <2>1 DEF StepsMatch, PointsMatch
  <2>2. ASSUME StepsMatch, NEW w \in Writers PROVE Matches(w)
    <3>1. w = Worker \/ w \in Runners
      BY <1>1
    <3>2. CASE w = Worker
      BY <1>1, <2>2, <3>2 DEF StepsMatch, Matches
    <3>3. CASE w \in Runners
      <4>1. /\ turn[w] \in 0..stamp
            /\ turn[w] = 0 <=> pc[w] \in {"idle", "indexed", "failed"}
            /\ \A c \in batch[w] : c.by = turn[w]
            /\ pc[w] \in {"embed", "upsert"} => batch[w] # {}
            /\ pc[w] \in {"upsert", "delete", "chunk"} => collection
        BY <2>2 DEF StepsMatch
      <4>2. /\ pc[w] \notin {"delete", "chunk"}
            /\ pc[w] \in {"ensure", "create"} => batch[w] # {}
        BY <2>2, <3>3 DEF StepsMatch
      <4>3. w # Worker
        BY <1>1, <3>3
      <4> QED
        BY <4>1, <4>2, <4>3 DEF Matches
    <3> QED
      BY <3>1, <3>2, <3>3
  <2> QED
    BY <2>1, <2>2
<1>3. PointsMatch /\ (\A w \in Writers : Matches(w)) => StepsMatch
  <2> SUFFICES ASSUME PointsMatch, \A w \in Writers : Matches(w)
               PROVE  StepsMatch
    OBVIOUS
  <2>1. \A w \in Writers :
          /\ turn[w] \in 0..stamp
          /\ turn[w] = 0 <=> pc[w] \in {"idle", "indexed", "failed"}
          /\ \A c \in batch[w] : c.by = turn[w]
          /\ pc[w] \in {"embed", "upsert"} => batch[w] # {}
          /\ pc[w] \in {"upsert", "delete", "chunk"} => collection
    BY DEF Matches
  <2>2. \A w \in Runners : /\ pc[w] \notin {"delete", "chunk"}
                           /\ pc[w] \in {"ensure", "create"} => batch[w] # {}
    BY <1>1 DEF Matches
  <2>3. Matches(Worker)
    BY <1>1
  <2> QED
    BY <2>1, <2>2, <2>3 DEF StepsMatch, PointsMatch, Matches
<1> QED
  BY <1>2, <1>3

LEMMA StepsMatchPartsNext == StepsMatch' <=> PointsMatch' /\ \A w \in Writers : Matches(w)'
<1>1. /\ Worker \in Writers /\ Runners \subseteq Writers
      /\ \A w \in Writers : w # Worker <=> w \in Runners
  BY CodeIndexConstants DEF Writers
<1>2. StepsMatch' => PointsMatch' /\ \A w \in Writers : Matches(w)'
  <2>1. ASSUME StepsMatch' PROVE PointsMatch'
    BY <2>1 DEF StepsMatch, PointsMatch
  <2>2. ASSUME StepsMatch', NEW w \in Writers PROVE Matches(w)'
    <3>1. w = Worker \/ w \in Runners
      BY <1>1
    <3>2. CASE w = Worker
      BY <1>1, <2>2, <3>2 DEF StepsMatch, Matches
    <3>3. CASE w \in Runners
      <4>1. /\ turn'[w] \in 0..stamp'
            /\ turn'[w] = 0 <=> pc'[w] \in {"idle", "indexed", "failed"}
            /\ \A c \in batch'[w] : c.by = turn'[w]
            /\ pc'[w] \in {"embed", "upsert"} => batch'[w] # {}
            /\ pc'[w] \in {"upsert", "delete", "chunk"} => collection'
        BY <2>2 DEF StepsMatch
      <4>2. /\ pc'[w] \notin {"delete", "chunk"}
            /\ pc'[w] \in {"ensure", "create"} => batch'[w] # {}
        BY <2>2, <3>3 DEF StepsMatch
      <4>3. w # Worker
        BY <1>1, <3>3
      <4> QED
        BY <4>1, <4>2, <4>3 DEF Matches
    <3> QED
      BY <3>1, <3>2, <3>3
  <2> QED
    BY <2>1, <2>2
<1>3. PointsMatch' /\ (\A w \in Writers : Matches(w)') => StepsMatch'
  <2> SUFFICES ASSUME PointsMatch', \A w \in Writers : Matches(w)'
               PROVE  StepsMatch'
    OBVIOUS
  <2>1. \A w \in Writers :
          /\ turn'[w] \in 0..stamp'
          /\ turn'[w] = 0 <=> pc'[w] \in {"idle", "indexed", "failed"}
          /\ \A c \in batch'[w] : c.by = turn'[w]
          /\ pc'[w] \in {"embed", "upsert"} => batch'[w] # {}
          /\ pc'[w] \in {"upsert", "delete", "chunk"} => collection'
    BY DEF Matches
  <2>2. \A w \in Runners : /\ pc'[w] \notin {"delete", "chunk"}
                           /\ pc'[w] \in {"ensure", "create"} => batch'[w] # {}
    BY <1>1 DEF Matches
  <2>3. Matches(Worker)'
    BY <1>1
  <2> QED
    BY <2>1, <2>2, <2>3 DEF StepsMatch, PointsMatch, Matches
<1> QED
  BY <1>2, <1>3

(* A step of one writer leaves the others' in order.                       *)
LEMMA OthersMatch ==
  ASSUME TypeOK, TypeOK', StepsMatch, NEW w \in Writers, Apart(w), stamp' >= stamp,
         collection => collection', w # Worker => left' = left /\ msg' = msg
  PROVE  \A x \in Writers \ {w} : Matches(x)'
<1>1. stamp \in Nat /\ stamp' \in Nat
  BY DEF TypeOK
<1> SUFFICES ASSUME NEW x \in Writers \ {w} PROVE Matches(x)'
  OBVIOUS
<1>2. pc'[x] = pc[x] /\ batch'[x] = batch[x] /\ turn'[x] = turn[x] /\ Matches(x)
  BY StepsMatchParts DEF Apart
<1>3. x = Worker => left' = left /\ msg' = msg
  OBVIOUS
<1>4. turn'[x] \in 0..stamp'
  BY <1>1, <1>2 DEF Matches
<1> QED
  BY <1>2, <1>3, <1>4 DEF Matches

LEMMA StepsMatchKept ==
  ASSUME TypeOK, StepsMatch, Effects
  PROVE  StepsMatch'
<1>1. PointsMatch /\ \A w \in Writers : Matches(w)
  BY StepsMatchParts
<1>2. stamp \in Nat
  BY DEF TypeOK
<1>3. CASE Around
  <2>1. PointsMatch' /\ \A w \in Writers : Matches(w)'
    BY <1>1, <1>3 DEF Around, PointsMatch, Matches
  <2> QED
    BY <2>1, StepsMatchPartsNext
<1>4. CASE Deletes
  <2>1. TypeOK' /\ Worker \in Writers /\ Matches(Worker) /\ stamp' = stamp
    BY <1>1, <1>4 DEF Deletes, Stays, Writers
  <2>2. \A x \in Writers \ {Worker} : Matches(x)'
    BY <1>2, <1>4, <2>1, OthersMatch DEF Deletes, Stays
  <2>3. Matches(Worker)'
    BY <1>4, <2>1 DEF Deletes, Stays, Matches
  <2>4. PointsMatch'
    BY <1>1, <1>4, <2>1 DEF Deletes, PointsMatch
  <2> QED
    BY <2>2, <2>3, <2>4, StepsMatchPartsNext
<1>5. CASE Chunked
  <2>1. TypeOK' /\ Worker \in Writers /\ Matches(Worker) /\ stamp' = stamp
    BY <1>1, <1>5 DEF Chunked, Stays, Writers
  <2>2. \A x \in Writers \ {Worker} : Matches(x)'
    BY <1>2, <1>5, <2>1, OthersMatch DEF Chunked, Stays
  <2>3. Matches(Worker)'
    BY <1>5, <2>1 DEF Chunked, Stays, Matches
  <2>4. PointsMatch'
    BY <1>1, <1>5, <2>1 DEF Chunked, PointsMatch
  <2> QED
    BY <2>2, <2>3, <2>4, StepsMatchPartsNext
<1>6. ASSUME NEW w \in Writers, Ends(w) PROVE StepsMatch'
  <2>1. TypeOK' /\ Matches(w) /\ stamp' = stamp
    BY <1>1, <1>6 DEF Ends, Closed
  <2>2. \A x \in Writers \ {w} : Matches(x)'
    BY <1>2, <1>6, <2>1, OthersMatch DEF Ends, Closed
  <2>3. Matches(w)'
    BY <1>2, <1>6, <2>1 DEF Ends, Closed, Matches
  <2>4. PointsMatch'
    BY <1>1, <1>6, <2>1 DEF Ends, PointsMatch
  <2> QED
    BY <2>2, <2>3, <2>4, StepsMatchPartsNext
<1>7. ASSUME NEW w \in Writers, Moves(w) PROVE StepsMatch'
  <2>1. TypeOK' /\ Matches(w) /\ stamp' = stamp
    BY <1>1, <1>7 DEF Moves, Stays
  <2>2. \A x \in Writers \ {w} : Matches(x)'
    BY <1>2, <1>7, <2>1, OthersMatch DEF Moves, Stays
  <2>3. Matches(w)'
    BY <1>7, <2>1 DEF Moves, Stays, Matches, AfterEnsure
  <2>4. PointsMatch'
    BY <1>1, <1>7, <2>1 DEF Moves, PointsMatch
  <2> QED
    BY <2>2, <2>3, <2>4, StepsMatchPartsNext
<1>8. ASSUME NEW w \in Writers, Writes(w) PROVE StepsMatch'
  <2>1. PICK c \in batch[w] :
          /\ TypeOK' /\ Apart(w) /\ pc[w] = "upsert"
          /\ points' = points \cup {c} /\ collection' = collection
          /\ \/ Closed(w)
             \/ /\ Stays(w) /\ batch'[w] = batch[w] \ {c} /\ batch'[w] # {} /\ pc'[w] = "upsert"
                /\ left' = left /\ msg' = msg
    BY <1>8 DEF Writes
  <2>2. Matches(w) /\ stamp' = stamp /\ collection
    BY <1>1, <2>1 DEF Closed, Stays, Matches
  <2>3. \A x \in Writers \ {w} : Matches(x)'
    BY <1>2, <2>1, <2>2, OthersMatch DEF Closed
  <2>4. Matches(w)'
    <3>1. CASE Closed(w)
      BY <1>2, <2>1, <2>2, <3>1 DEF Closed, Matches
    <3>2. CASE /\ Stays(w) /\ batch'[w] = batch[w] \ {c} /\ batch'[w] # {} /\ pc'[w] = "upsert"
               /\ left' = left /\ msg' = msg
      BY <2>1, <2>2, <3>2 DEF Stays, Matches
    <3> QED
      BY <2>1, <3>1, <3>2
  <2>5. c.by \in 1..stamp
    BY <1>2, <2>1, <2>2 DEF Matches
  <2>6. PointsMatch'
    BY <1>1, <2>1, <2>2, <2>5 DEF PointsMatch
  <2> QED
    BY <2>3, <2>4, <2>6, StepsMatchPartsNext
<1>9. ASSUME NEW w \in Writers, Opens(w) PROVE StepsMatch'
  <2>1. TypeOK' /\ Matches(w) /\ stamp' = stamp + 1 /\ stamp' >= stamp
    BY <1>1, <1>2, <1>9 DEF Opens
  <2>2. \A x \in Writers \ {w} : Matches(x)'
    BY <1>9, <2>1, OthersMatch DEF Opens
  <2>3. batch[w] = {}
    <3>1. \A c \in batch[w] : c.by = 0
      BY <1>9, <2>1 DEF Opens, Matches
    <3>2. batch[w] \subseteq Points
      BY DEF TypeOK
    <3> QED
      BY <3>1, <3>2 DEF Points
  <2>4. Matches(w)'
    BY <1>2, <1>9, <2>1, <2>3 DEF Opens, Matches
  <2>5. PointsMatch'
    <3>1. \A p \in points : p.by \in 1..(stamp + 1)
      BY <1>1, <1>2 DEF PointsMatch
    <3> QED
      BY <1>1, <1>9, <2>1, <3>1 DEF Opens, PointsMatch
  <2> QED
    BY <2>2, <2>4, <2>5, StepsMatchPartsNext
<1>10. ASSUME NEW w \in Writers, Passes(w) PROVE StepsMatch'
  <2>1. TypeOK' /\ Matches(w) /\ stamp' = stamp
    BY <1>1, <1>10 DEF Passes, Stays
  <2>2. \A x \in Writers \ {w} : Matches(x)'
    BY <1>2, <1>10, <2>1, OthersMatch DEF Passes, Stays
  <2>3. Matches(w)'
    BY <1>10, <2>1 DEF Passes, Stays, Matches
  <2>4. PointsMatch'
    BY <1>1, <1>10, <2>1 DEF Passes, PointsMatch
  <2> QED
    BY <2>2, <2>3, <2>4, StepsMatchPartsNext
<1>11. ASSUME NEW w \in Writers, Walks(w) PROVE StepsMatch'
  <2>1. TypeOK' /\ Matches(w) /\ stamp' = stamp
    BY <1>1, <1>11 DEF Walks, Stays
  <2>2. \A x \in Writers \ {w} : Matches(x)'
    BY <1>2, <1>11, <2>1, OthersMatch DEF Walks, Stays
  <2>3. Matches(w)'
    BY <1>11, <2>1 DEF Walks, Stays, Matches
  <2>4. PointsMatch'
    BY <1>1, <1>11, <2>1 DEF Walks, PointsMatch
  <2> QED
    BY <2>2, <2>3, <2>4, StepsMatchPartsNext
<1> QED
  BY <1>3, <1>4, <1>5, <1>6, <1>7, <1>8, <1>9, <1>10, <1>11 DEF Effects

-----------------------------------------------------------------------------
(* Who wrote what beside whom.                                             *)

(* Excused, one step later.                                                *)
ExcusedNext(a, b) == {a, b} \in met' \/ {a, b} \cap blind' # {}

LEMMA Memory ==
  ASSUME Effects
  PROVE  met \subseteq met' /\ blind \subseteq blind'
<1>1. ASSUME NEW w \in Writers, Writes(w) PROVE met' = met /\ blind' = blind
  BY <1>1 DEF Writes, Closed, Stays
<1> QED
  BY <1>1 DEF Effects, Around, Deletes, Chunked, Ends, Moves, Opens, Passes, Walks, Closed, Stays

LEMMA ExcusedKept ==
  ASSUME Effects, NEW a, NEW b, Excused(a, b)
  PROVE  ExcusedNext(a, b)
BY Memory DEF Excused, ExcusedNext

LEMMA ExcusedSymmetric ==
  ASSUME NEW a, NEW b, Excused(a, b)
  PROVE  Excused(b, a)
<1>1. {a, b} = {b, a}
  OBVIOUS
<1> QED
  BY <1>1 DEF Excused

(* Unless a turn begins, turns go on or end.                               *)
LEMMA TurnsKept ==
  ASSUME Effects
  PROVE  \/ \E w \in Writers : Opens(w)
         \/ met' = met /\ \A x \in Writers : turn'[x] = turn[x] \/ turn'[x] = 0
<1> DEFINE Kept == met' = met /\ \A x \in Writers : turn'[x] = turn[x] \/ turn'[x] = 0
<1>1. ASSUME NEW w \in Writers, Apart(w), Closed(w) PROVE Kept
  BY <1>1 DEF Apart, Closed
<1>2. ASSUME NEW w \in Writers, Stays(w) PROVE Kept
  BY <1>2 DEF Apart, Stays
<1>3. ASSUME Around PROVE Kept
  BY <1>3 DEF Around
<1>4. Worker \in Writers
  BY DEF Writers
<1>5. Deletes \/ Chunked => Kept
  BY <1>2, <1>4 DEF Deletes, Chunked
<1>6. ASSUME NEW w \in Writers, Writes(w) PROVE Kept
  <2>1. Apart(w) /\ (Closed(w) \/ Stays(w))
    BY <1>6 DEF Writes
  <2> QED
    BY <1>1, <1>2, <2>1
<1>7. ASSUME NEW w \in Writers, Ends(w) \/ Moves(w) \/ Passes(w) \/ Walks(w) PROVE Kept
  <2>1. (Apart(w) /\ Closed(w)) \/ Stays(w)
    BY <1>7 DEF Ends, Moves, Passes, Walks
  <2> QED
    BY <1>1, <1>2, <2>1
<1> HIDE DEF Kept
<1>8. (\E w \in Writers : Opens(w)) \/ Kept
  BY <1>3, <1>5, <1>6, <1>7 DEF Effects
<1> QED
  BY <1>8 DEF Kept

(* A chunk appears only when a writer in its turn writes it.               *)
LEMMA PointsFrom ==
  ASSUME TypeOK, StepsMatch, Effects
  PROVE  \/ points' \subseteq points
         \/ \E x \in Writers : \E c \in batch[x] :
              /\ Writes(x) /\ points' = points \cup {c} /\ c.by = turn[x] /\ turn[x] # 0
<1>1. ASSUME NEW x \in Writers, Writes(x)
      PROVE  \E c \in batch[x] :
               /\ Writes(x) /\ points' = points \cup {c} /\ c.by = turn[x] /\ turn[x] # 0
  <2>1. PICK c \in batch[x] : pc[x] = "upsert" /\ points' = points \cup {c}
    BY <1>1 DEF Writes
  <2>2. c.by = turn[x]
    BY DEF StepsMatch
  <2>3. turn[x] # 0
    BY <2>1, TurnsRun
  <2> QED
    BY <1>1, <2>1, <2>2, <2>3
<1>2. CASE \E x \in Writers : Writes(x)
  BY <1>1, <1>2
<1>3. CASE ~ \E x \in Writers : Writes(x)
  <2>1. points' \subseteq points
    BY <1>3 DEF Effects, Around, Deletes, Chunked, Ends, Moves, Opens, Passes, Walks
  <2> QED
    BY <2>1
<1> QED
  BY <1>2, <1>3

(* The turn a writer begins has met all that are open.                     *)
LEMMA MetOpenKept ==
  ASSUME TypeOK, StepsMatch, MetOpen, Effects
  PROVE  MetOpen'
<1>1. CASE met' = met /\ \A x \in Writers : turn'[x] = turn[x] \/ turn'[x] = 0
  BY <1>1 DEF MetOpen
<1>2. ASSUME NEW w \in Writers, Opens(w) PROVE MetOpen'
  <2>1. /\ turn'[w] = stamp + 1 /\ \A x \in Writers \ {w} : turn'[x] = turn[x]
        /\ met' = met \cup {{stamp + 1, turn[x]} : x \in {y \in Writers \ {w} : turn[y] # 0}}
    BY <1>2 DEF Opens, Apart
  <2>2. ASSUME NEW a \in Writers, NEW b \in Writers \ {a}, turn'[a] # 0, turn'[b] # 0
        PROVE  {turn'[a], turn'[b]} \in met'
    <3>1. CASE a # w /\ b # w
      BY <2>1, <2>2, <3>1 DEF MetOpen
    <3>2. CASE a = w
      BY <2>1, <2>2, <3>2
    <3>3. CASE b = w
      <4>1. {turn'[b], turn'[a]} \in met'
        BY <2>1, <2>2, <3>3
      <4>2. {turn'[b], turn'[a]} = {turn'[a], turn'[b]}
        OBVIOUS
      <4> QED
        BY <4>1, <4>2
    <3> QED
      BY <3>1, <3>2, <3>3
  <2> QED
    BY <2>2 DEF MetOpen
<1> QED
  BY <1>1, <1>2, TurnsKept

(* Two turns that are open excuse each other.                              *)
LEMMA OpenExcused ==
  ASSUME MetOpen, NEW w \in Writers, NEW x \in Writers \ {w}, turn[w] # 0, turn[x] # 0
  PROVE  Excused(turn[w], turn[x])
BY DEF MetOpen, Excused

LEMMA FreshRunnersKept ==
  ASSUME TypeOK, StepsMatch, MetOpen, FreshRunners, Effects
  PROVE  FreshRunners'
<1> SUFFICES ASSUME NEW w \in Runners, turn'[w] # 0, NEW q \in points'
             PROVE  q.by = turn'[w] \/ ExcusedNext(q.by, turn'[w])
  BY DEF FreshRunners, Excused, ExcusedNext
<1>1. w \in Writers
  BY DEF Writers
<1>2. CASE turn'[w] = turn[w]
  <2>1. CASE q \in points
    <3>1. q.by = turn[w] \/ Excused(q.by, turn[w])
      BY <1>2, <2>1 DEF FreshRunners
    <3> QED
      BY <1>2, <3>1, ExcusedKept
  <2>2. CASE q \notin points
    <3>1. PICK x \in Writers : \E c \in batch[x] :
            points' = points \cup {c} /\ c.by = turn[x] /\ turn[x] # 0
      BY <2>2, PointsFrom
    <3>2. q.by = turn[x] /\ turn[x] # 0
      BY <2>2, <3>1
    <3>3. CASE x = w
      BY <1>2, <3>2, <3>3
    <3>4. CASE x # w
      <4>1. Excused(turn[x], turn[w])
        BY <1>1, <1>2, <3>2, <3>4, OpenExcused
      <4> QED
        BY <1>2, <3>2, <4>1, ExcusedKept
    <3> QED
      BY <3>3, <3>4
  <2> QED
    BY <2>1, <2>2
<1>3. CASE turn'[w] # turn[w]
  <2>1. PICK x \in Writers : Opens(x)
    BY <1>1, <1>3, TurnsKept
  <2>2. x = w
    BY <1>1, <1>3, <2>1 DEF Opens, Apart
  <2>3. points' = points /\ (points = {} \/ stamp + 1 \in blind') /\ turn'[w] = stamp + 1
    BY <2>1, <2>2, CodeIndexConstants DEF Opens
  <2>4. turn'[w] \in blind'
    BY <2>3
  <2> QED
    BY <2>4 DEF ExcusedNext
<1> QED
  BY <1>2, <1>3

(* What the worker of a turn stands beside: the file it has just deleted,  *)
(* and those whose chunks it holds.                                        *)
Beside(q) == \/ pc[Worker] = "chunk" /\ q.file = Head(left)
             \/ \E c \in batch[Worker] : c.file = q.file
BesideNext(q) == \/ pc'[Worker] = "chunk" /\ q.file = Head(left')
                 \/ \E c \in batch'[Worker] : c.file = q.file

LEMMA DeletedFirstParts ==
  /\ DeletedFirst <=>
       \A q \in points : Beside(q) => q.by = turn[Worker] \/ Excused(q.by, turn[Worker])
  /\ DeletedFirst' <=>
       \A q \in points' : BesideNext(q) => q.by = turn'[Worker] \/ ExcusedNext(q.by, turn'[Worker])
BY DEF DeletedFirst, Beside, BesideNext, Excused, ExcusedNext

(* It stands beside them in its turn only.                                 *)
LEMMA BesideInTurn ==
  ASSUME TypeOK, StepsMatch, NEW q, Beside(q)
  PROVE  turn[Worker] # 0
<1>1. Worker \in Writers
  BY DEF Writers
<1>2. CASE pc[Worker] = "chunk"
  BY <1>1, <1>2, TurnsRun
<1>3. CASE \E c \in batch[Worker] : c.file = q.file
  <2>1. PICK c \in batch[Worker] : c.file = q.file
    BY <1>3
  <2>2. c.by = turn[Worker] /\ batch[Worker] \subseteq Points
    BY <1>1 DEF StepsMatch, TypeOK
  <2> QED
    BY <2>2 DEF Points
<1> QED
  BY <1>2, <1>3 DEF Beside

(* A step that comes to stand beside a chunk that was there either did so  *)
(* already, or the chunk is gone.                                          *)
LEMMA BesideBefore ==
  ASSUME TypeOK, StepsMatch, Effects, NEW q \in points', q \in points, BesideNext(q)
  PROVE  Beside(q) /\ turn'[Worker] = turn[Worker]
<1>1. Worker \in Writers /\ (turn[Worker] = 0 => batch[Worker] = {})
  <2>1. Worker \in Writers /\ batch[Worker] \subseteq Points
    BY DEF Writers, TypeOK
  <2>2. \A c \in batch[Worker] : c.by = turn[Worker] /\ c.by # 0
    BY <2>1 DEF StepsMatch, Points
  <2> QED
    BY <2>1, <2>2
<1>2. ASSUME NEW w \in Writers, w # Worker, Apart(w), left' = left
      PROVE  Beside(q) /\ turn'[Worker] = turn[Worker]
  BY <1>1, <1>2 DEF Apart, Beside, BesideNext
<1>3. CASE Around
  BY <1>3 DEF Around, Beside, BesideNext
<1>4. CASE Deletes
  BY <1>4 DEF Deletes, Stays, Beside, BesideNext
<1>5. CASE Chunked
  <2>1. pc'[Worker] # "chunk" /\ turn'[Worker] = turn[Worker] /\ pc[Worker] = "chunk"
    BY <1>5 DEF Chunked, Stays
  <2>2. PICK c \in batch'[Worker] : c.file = q.file
    BY <2>1 DEF BesideNext
  <2>3. c \in batch[Worker] \/ c.file = Head(left)
    BY <1>5 DEF Chunked
  <2> QED
    BY <2>1, <2>2, <2>3 DEF Beside
<1>6. ASSUME NEW w \in Writers, Ends(w) PROVE Beside(q) /\ turn'[Worker] = turn[Worker]
  <2>1. CASE w = Worker
    BY <1>6, <2>1 DEF Ends, Closed, BesideNext
  <2>2. CASE w # Worker
    BY <1>2, <1>6, <2>2 DEF Ends, Closed
  <2> QED
    BY <2>1, <2>2
<1>7. ASSUME NEW w \in Writers, Moves(w) PROVE Beside(q) /\ turn'[Worker] = turn[Worker]
  <2>1. CASE w = Worker
    <3>1. pc'[Worker] # "chunk"
      BY <1>7, <2>1 DEF Moves, AfterEnsure
    <3> QED
      BY <1>7, <2>1, <3>1 DEF Moves, Stays, Beside, BesideNext
  <2>2. CASE w # Worker
    BY <1>2, <1>7, <2>2 DEF Moves, Stays
  <2> QED
    BY <2>1, <2>2
<1>8. ASSUME NEW w \in Writers, Writes(w) PROVE Beside(q) /\ turn'[Worker] = turn[Worker]
  <2>1. PICK c \in batch[w] :
          /\ Apart(w)
          /\ \/ Closed(w)
             \/ /\ Stays(w) /\ batch'[w] = batch[w] \ {c} /\ pc'[w] = "upsert"
                /\ left' = left
    BY <1>8 DEF Writes
  <2>2. CASE w = Worker /\ Closed(w)
    BY <2>2 DEF Closed, BesideNext
  <2>3. CASE w = Worker /\ ~Closed(w)
    BY <2>1, <2>3 DEF Stays, Beside, BesideNext
  <2>4. CASE w # Worker
    BY <1>2, <2>1, <2>4 DEF Closed
  <2> QED
    BY <2>2, <2>3, <2>4
<1>9. ASSUME NEW w \in Writers, Opens(w) PROVE Beside(q) /\ turn'[Worker] = turn[Worker]
  <2>1. CASE w = Worker
    <3>1. pc'[Worker] # "chunk" /\ batch'[Worker] = {}
      BY <1>1, <1>9, <2>1 DEF Opens
    <3> QED
      BY <3>1 DEF BesideNext
  <2>2. CASE w # Worker
    BY <1>2, <1>9, <2>2 DEF Opens
  <2> QED
    BY <2>1, <2>2
<1>10. ASSUME NEW w \in Writers, Passes(w) \/ Walks(w)
       PROVE  Beside(q) /\ turn'[Worker] = turn[Worker]
  BY <1>2, <1>10 DEF Passes, Walks, Stays
<1> QED
  BY <1>3, <1>4, <1>5, <1>6, <1>7, <1>8, <1>9, <1>10 DEF Effects

LEMMA DeletedFirstKept ==
  ASSUME TypeOK, StepsMatch, StepsMatch', TypeOK', MetOpen, DeletedFirst, Effects
  PROVE  DeletedFirst'
<1> SUFFICES ASSUME NEW q \in points', BesideNext(q)
             PROVE  q.by = turn'[Worker] \/ ExcusedNext(q.by, turn'[Worker])
  BY DeletedFirstParts
<1>1. Worker \in Writers
  BY DEF Writers
<1>2. CASE q \in points
  <2>1. Beside(q) /\ turn'[Worker] = turn[Worker]
    BY <1>2, BesideBefore
  <2>2. q.by = turn[Worker] \/ Excused(q.by, turn[Worker])
    BY <1>2, <2>1, DeletedFirstParts
  <2> QED
    BY <2>1, <2>2, ExcusedKept
<1>3. CASE q \notin points
  <2>1. PICK x \in Writers : \E c \in batch[x] :
          Writes(x) /\ points' = points \cup {c} /\ c.by = turn[x] /\ turn[x] # 0
    BY <1>3, PointsFrom
  <2>2. q.by = turn[x] /\ turn[x] # 0 /\ Writes(x)
    BY <1>3, <2>1
  <2>3. turn'[Worker] # 0
    <3>1. CASE pc'[Worker] = "chunk"
      BY <1>1, <3>1 DEF StepsMatch
    <3>2. CASE \E c \in batch'[Worker] : c.file = q.file
      <4>1. PICK c \in batch'[Worker] : c.file = q.file
        BY <3>2
      <4>2. c.by = turn'[Worker] /\ batch'[Worker] \subseteq Points
        BY <1>1 DEF StepsMatch, TypeOK
      <4> QED
        BY <4>2 DEF Points
    <3> QED
      BY <3>1, <3>2 DEF BesideNext
  <2>4. turn'[Worker] = turn[Worker]
    BY <1>1, <2>2, <2>3 DEF Writes, Apart, Closed, Stays
  <2>5. CASE x = Worker
    BY <2>2, <2>4, <2>5
  <2>6. CASE x # Worker
    <3>1. Excused(turn[x], turn[Worker])
      BY <1>1, <2>2, <2>3, <2>4, <2>6, OpenExcused
    <3> QED
      BY <2>2, <2>4, <3>1, ExcusedKept
  <2> QED
    BY <2>5, <2>6
<1> QED
  BY <1>2, <1>3

(* The chunk that is written was told apart from all that are there.       *)
LEMMA OneCopyKept ==
  ASSUME TypeOK, StepsMatch, FreshRunners, DeletedFirst, OneCopy, Effects
  PROVE  OneCopy'
<1>1. ASSUME NEW x \in Writers, NEW c \in batch[x], NEW q \in points,
             c.by = turn[x], turn[x] # 0, c.file = q.file
      PROVE  q.by = c.by \/ Excused(q.by, c.by)
  <2>1. CASE x = Worker
    <3>1. Beside(q)
      BY <1>1, <2>1 DEF Beside
    <3> QED
      BY <1>1, <2>1, <3>1, DeletedFirstParts
  <2>2. CASE x \in Runners
    BY <1>1, <2>2 DEF FreshRunners
  <2> QED
    BY <2>1, <2>2, WriterKinds
<1>2. ASSUME NEW p \in points, NEW q \in points,
             p.repo = q.repo, p.file = q.file, p.by # q.by
      PROVE  ExcusedNext(p.by, q.by)
  <2>1. Excused(p.by, q.by)
    BY <1>2 DEF OneCopy
  <2> QED
    BY <2>1, ExcusedKept
<1>3. ASSUME NEW p \in points', NEW q \in points',
             p.repo = q.repo, p.file = q.file, p.by # q.by
      PROVE  ExcusedNext(p.by, q.by)
  <2>1. CASE p \in points /\ q \in points
    BY <1>2, <1>3, <2>1
  <2>2. CASE ~(p \in points /\ q \in points)
    <3>1. PICK x \in Writers : \E c \in batch[x] :
            points' = points \cup {c} /\ c.by = turn[x] /\ turn[x] # 0
      BY <2>2, PointsFrom
    <3>2. PICK c \in batch[x] : points' = points \cup {c} /\ c.by = turn[x] /\ turn[x] # 0
      BY <3>1
    <3>3. CASE p = c /\ q \in points
      <4>1. Excused(q.by, p.by)
        BY <1>1, <1>3, <3>2, <3>3
      <4> QED
        BY <4>1, ExcusedSymmetric, ExcusedKept
    <3>4. CASE q = c /\ p \in points
      <4>1. Excused(p.by, q.by)
        BY <1>1, <1>3, <3>2, <3>4
      <4> QED
        BY <4>1, ExcusedKept
    <3>5. CASE p = c /\ q = c
      BY <1>3, <3>5
    <3> QED
      BY <2>2, <3>2, <3>3, <3>4, <3>5
  <2> QED
    BY <2>1, <2>2
<1> QED
  BY <1>3 DEF OneCopy, Excused, ExcusedNext

-----------------------------------------------------------------------------
(* Theorems.                                                               *)

LEMMA InitInvariant == Init => IInv
<1> SUFFICES ASSUME Init PROVE IInv
  OBVIOUS
<1>1. 1 \in Versions /\ <<>> \in Seq(Messages) /\ <<>> \in Seq(Files)
  BY CodeIndexConstants, EmptySeq
<1>2. TypeOK
  <2>1. disk \in [Files -> Versions] /\ unread \subseteq Files
    BY <1>1 DEF Init
  <2>2. /\ pc \in [Writers -> Steps] /\ batch \in [Writers -> SUBSET Points]
        /\ turn \in [Writers -> Nat]
    BY DEF Init, Steps
  <2>3. collection \in BOOLEAN /\ points \subseteq Points
    BY DEF Init
  <2>4. queue \in Seq(Messages) /\ msg \in Messages \cup {NoMessage} /\ left \in Seq(Files)
    BY <1>1 DEF Init
  <2>5. {sent, pulls, faults, stamp} \subseteq Nat /\ met \subseteq SUBSET Nat /\ blind \subseteq Nat
    BY DEF Init
  <2> QED
    BY <2>1, <2>2, <2>3, <2>4, <2>5 DEF TypeOK
<1>3. Worker \in Writers /\ Runners \subseteq Writers
  BY DEF Writers
<1>4. StepsMatch
  BY <1>3 DEF Init, StepsMatch
<1>5. MetOpen /\ FreshRunners /\ DeletedFirst /\ OneCopy
  BY <1>3 DEF Init, MetOpen, FreshRunners, DeletedFirst, OneCopy
<1> QED
  BY <1>2, <1>4, <1>5 DEF IInv

LEMMA NextInvariant ==
  ASSUME IInv, [Next]_vars
  PROVE  IInv'
<1>1. TypeOK /\ StepsMatch /\ MetOpen /\ FreshRunners /\ DeletedFirst /\ OneCopy
  BY DEF IInv
<1>2. Effects
  <2>1. CASE Next
    BY <1>1, <2>1, StepEffects
  <2>2. CASE UNCHANGED vars
    BY <1>1, <2>2 DEF Effects, Around, TypeOK, vars, local, store, worker, counters, turns
  <2> QED
    BY <2>1, <2>2
<1>3. TypeOK'
  <2>1. ASSUME NEW w \in Writers, Writes(w) PROVE TypeOK'
    BY <2>1 DEF Writes
  <2> QED
    BY <1>2, <2>1 DEF Effects, Around, Deletes, Chunked, Ends, Moves, Opens, Passes, Walks, Stays
<1>4. StepsMatch'
  BY <1>1, <1>2, StepsMatchKept
<1>5. MetOpen' /\ FreshRunners' /\ DeletedFirst' /\ OneCopy'
  BY <1>1, <1>2, <1>3, <1>4, MetOpenKept, FreshRunnersKept, DeletedFirstKept, OneCopyKept
<1> QED
  BY <1>3, <1>4, <1>5 DEF IInv

(* IInv holds for any number of runners, files and versions, and any queue *)
(* of messages: the chunks a file has under one label come from one        *)
(* writer, unless two were at work at the same time or a runner could not  *)
(* count, however calls fail, processes die and messages are redelivered.  *)
THEOREM Inductive == Spec => []IInv
<1> QED
  BY InitInvariant, NextInvariant, PTL DEF Spec

(* The chunks a file has under one label come from one turn of one writer, *)
(* unless two were at work at the same time or a runner could not count:   *)
(* the worker deletes what an earlier turn left before it writes, however  *)
(* that turn ended.                                                        *)
THEOREM SingleCopies == Spec => []OneCopy
<1>1. IInv => OneCopy
  BY DEF IInv
<1> QED
  BY <1>1, Inductive, PTL

=============================================================================
