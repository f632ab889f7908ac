------------------------------ MODULE CodeIndex ------------------------------
(***************************************************************************)
(* The CODE partition of a squad: the collection of chunks that agents     *)
(* search.  A runner fills it when it finds it empty; a worker takes       *)
(* messages from the queue knowledge.reindex, deletes the chunks of the    *)
(* files a message names and writes them anew.                             *)
(*                                                                         *)
(* Every call to Voyage or Qdrant is an await, and between two of them     *)
(* anybody else may write.  The worker opens the paths of a message as     *)
(* they are, relative to the directory it was started in, which is also    *)
(* the directory runners index; the label of the message only goes into    *)
(* the payload.                                                            *)
(***************************************************************************)
EXTENDS Integers, Sequences, FiniteSetsExt

CONSTANTS
    Runners,      \* processes that run _ensure_indexed
    Repos,        \* labels of repositories, normalized
    LocalRepo,    \* the label of the directory worker and runners read
    Cloned,       \* repositories whose repo_path is a directory
    Files,        \* files of the local directory
    ChunkCount,   \* how many chunks each version of a file has; 0: none, or no file
    Messages,     \* bodies of the messages that may be queued
    MaxMessages,  \* bound: messages queued, no more than the prefetch (4)
    MaxPulls,     \* bound: new versions of local files
    MaxFaults     \* bound: calls to Voyage or Qdrant and reads that fail, and crashes

Worker == "worker"
Writers == Runners \cup {Worker}
Versions == DOMAIN ChunkCount

ASSUME CodeIndexConstants ==
    /\ Worker \notin Runners /\ LocalRepo \in Repos /\ Cloned \subseteq Repos
    /\ Versions = 1..Len(ChunkCount) /\ 1 \in Versions
    /\ \A v \in Versions : ChunkCount[v] \in Nat
    /\ \A b \in Messages :
        /\ b.body \in {"reindex", "bad fields", "not json"}
        /\ b.body = "reindex" => b.repo \in Repos /\ b.files \in Seq(Files) \ {<<>>}
    /\ {MaxMessages, MaxPulls, MaxFaults} \subseteq Nat

VARIABLES
    disk,        \* the version of each file in the local directory
    collection,  \* whether the collection exists
    points,      \* chunks in it: [repo, file, ver, part, by]
    queue,       \* messages of knowledge.reindex the worker has not taken
    pc,          \* where each writer is
    msg,         \* the message the worker handles
    left,        \* files of the message still to go through
    batch,       \* chunks a writer has read and not yet written
    \* counters
    sent, pulls, faults,
    \* what the properties remember
    unread,      \* files of the local repository whose last reindex could not read them
    stamp,       \* last number given to a turn of a writer
    turn,        \* the number of the turn each writer is in, 0 when in none
    met,         \* turns that were open at the same time
    blind        \* turns of runners whose count raised

local == <<disk, unread>>
store == <<collection, points>>
worker == <<queue, msg, left>>
counters == <<sent, pulls, faults>>
turns == <<stamp, turn, met, blind>>
vars == <<local, store, worker, pc, batch, counters, turns>>

NoMessage == [body |-> "none"]

Init ==
    /\ disk = [f \in Files |-> 1] /\ unread = {}
    /\ collection = FALSE /\ points = {}
    /\ queue = <<>> /\ msg = NoMessage /\ left = <<>>
    /\ pc = [w \in Writers |-> "idle"] /\ batch = [w \in Writers |-> {}]
    /\ sent = 0 /\ pulls = 0 /\ faults = 0
    /\ stamp = 0 /\ turn = [w \in Writers |-> 0] /\ met = {} /\ blind = {}

-----------------------------------------------------------------------------
(* Around the index *)

\* Somebody pulls: a file of the local directory gets its next version.
Pull(f) ==
    /\ disk[f] + 1 \in Versions /\ pulls < MaxPulls
    /\ disk' = [disk EXCEPT ![f] = @ + 1] /\ pulls' = pulls + 1
    /\ UNCHANGED <<unread, store, worker, pc, batch, sent, faults, turns>>

Publish(b) ==
    /\ sent < MaxMessages
    /\ queue' = Append(queue, b) /\ sent' = sent + 1
    /\ UNCHANGED <<local, store, msg, left, pc, batch, pulls, faults, turns>>

-----------------------------------------------------------------------------
(* Writers *)

Goto(w, step) == pc' = [pc EXCEPT ![w] = step]

\* Turns number the passes of the writers, for the properties.
Open(w) ==
    /\ stamp' = stamp + 1
    /\ turn' = [turn EXCEPT ![w] = stamp + 1]
    /\ met' = met \cup {{stamp + 1, turn[x]} : x \in {y \in Writers \ {w} : turn[y] # 0}}
Close(w, step) ==
    /\ Goto(w, step)
    /\ turn' = [turn EXCEPT ![w] = 0]
    /\ batch' = [batch EXCEPT ![w] = {}]

\* chunk_file, and the payload of its points.  A file without a language,
\* without chunks or no longer there gives none.
Chunks(repo, f, by) ==
    {[repo |-> repo, file |-> f, ver |-> disk[f], part |-> i, by |-> by] :
        i \in 1..ChunkCount[disk[f]]}

\* chunk_file raises for some files, which are there and would give chunks.
ReadRaises(raised) ==
    /\ \A f \in raised : ChunkCount[disk[f]] > 0
    /\ raised # {} => faults < MaxFaults
    /\ faults' = IF raised = {} THEN faults ELSE faults + 1

\* The end of a turn: the message is acknowledged, the runner goes on.
Done(w) ==
    /\ Close(w, IF w = Worker THEN "idle" ELSE "indexed")
    /\ IF w = Worker THEN msg' = NoMessage /\ left' = <<>> ELSE UNCHANGED <<msg, left>>
    /\ UNCHANGED <<queue, stamp, met, blind>>

\* mutant: a message whose callback raised is dropped
Dropped(w) ==
    /\ Close(w, IF w = Worker THEN "idle" ELSE "failed")
    /\ IF w = Worker THEN msg' = NoMessage /\ left' = <<>> /\ UNCHANGED queue
       ELSE UNCHANGED worker
    /\ UNCHANGED <<stamp, met, blind>>

\* An exception: the message is queued again, behind those the worker has
\* prefetched; the run of the runner ends.
Raise(w) ==
    /\ Close(w, IF w = Worker THEN "idle" ELSE "failed")
    /\ IF w = Worker
       THEN queue' = Append(queue, msg) /\ msg' = NoMessage /\ left' = <<>>
       ELSE UNCHANGED worker
    /\ UNCHANGED <<stamp, met, blind>>

CallFails(w) ==
    /\ faults < MaxFaults /\ faults' = faults + 1
    /\ Raise(w)
    /\ UNCHANGED <<store, sent, pulls>>

\* A process that dies.  RabbitMQ puts the message it had taken back in its
\* place; the worker is started again.
Crash(w) ==
    /\ pc[w] \notin {"idle", "indexed", "failed"} /\ faults < MaxFaults
    /\ faults' = faults + 1
    /\ Close(w, IF w = Worker THEN "idle" ELSE "failed")
    /\ IF w = Worker
       THEN queue' = <<msg>> \o queue /\ msg' = NoMessage /\ left' = <<>>
       ELSE UNCHANGED worker
    /\ UNCHANGED <<local, store, sent, pulls, stamp, met, blind>>

\* ensure_collection: a check, an await, and a create that raises when the
\* collection has been created meanwhile.
AfterEnsure(w) == IF w = Worker THEN "delete" ELSE "upsert"

CheckCollection(w) ==
    /\ pc[w] = "ensure"
    /\ \/ /\ Goto(w, IF collection THEN AfterEnsure(w) ELSE "create")
          /\ UNCHANGED <<store, worker, batch, counters, turns>>
       \/ CallFails(w)
    /\ UNCHANGED local

CreateCollection(w) ==
    /\ pc[w] = "create"
    /\ IF collection
       THEN Raise(w) /\ UNCHANGED <<store, counters>>
       ELSE \/ /\ collection' = TRUE
               /\ Goto(w, AfterEnsure(w))
               /\ UNCHANGED <<points, worker, batch, counters, turns>>
            \/ CallFails(w)
    /\ UNCHANGED local

\* Six attempts on every batch; one that fails for good fails all of them.
Embed(w) ==
    /\ pc[w] = "embed"
    /\ \/ /\ Goto(w, IF w = Worker THEN "upsert" ELSE "ensure")
          /\ UNCHANGED <<store, worker, batch, counters, turns>>
       \/ CallFails(w)
    /\ UNCHANGED local

\* upsert_points: batch after batch, in a fixed order, with ids of their own.
Upsert(w) ==
    /\ pc[w] = "upsert"
    /\ \/ /\ LET c == CHOOSE c \in batch[w] : TRUE IN
              /\ points' = points \cup {c}
              /\ IF batch[w] = {c} THEN Done(w)
                 ELSE /\ batch' = [batch EXCEPT ![w] = @ \ {c}]
                      /\ UNCHANGED <<worker, pc, turns>>
          /\ UNCHANGED <<collection, counters>>
       \/ CallFails(w)
    /\ UNCHANGED local

-----------------------------------------------------------------------------
(* A runner: _ensure_indexed and index_repo *)

\* An error of the count is swallowed, and the repository is indexed.
CountChunks(w) ==
    /\ pc[w] = "idle" /\ w \in Runners
    /\ \/ /\ Goto(w, IF points = {} THEN "walk" ELSE "indexed")
          /\ IF points = {} THEN Open(w) ELSE UNCHANGED <<stamp, turn, met>>
          /\ UNCHANGED <<faults, blind>>
       \/ /\ faults < MaxFaults /\ faults' = faults + 1
          /\ Goto(w, "walk")
          /\ Open(w)
          /\ blind' = blind \cup {stamp + 1}
    /\ UNCHANGED <<local, store, worker, batch, sent, pulls>>

\* The files chunk_file raises for are left out.
WalkFiles(w) ==
    /\ pc[w] = "walk"
    /\ \E raised \in SUBSET Files :
        /\ ReadRaises(raised)
        /\ LET found == UNION {Chunks(LocalRepo, f, turn[w]) : f \in Files \ raised} IN
           IF found = {} THEN Done(w)
           ELSE /\ batch' = [batch EXCEPT ![w] = found]
                /\ Goto(w, "embed")
                /\ UNCHANGED <<worker, turns>>
    /\ UNCHANGED <<local, store, sent, pulls>>

-----------------------------------------------------------------------------
(* The worker: consume_forever, handle_reindex and reindex_files *)

\* A body that is not JSON is rejected for good, a repository that is not
\* cloned is skipped; a body that lacks a field raises in from_dict and is
\* queued again.
TakeMessage ==
    /\ pc[Worker] = "idle" /\ queue # <<>>
    /\ LET m == Head(queue) IN
       \/ /\ m.body = "reindex" => m.repo \notin Cloned
          /\ queue' = IF m.body = "bad fields" THEN Append(Tail(queue), m) ELSE Tail(queue)
          /\ UNCHANGED <<msg, left, pc, stamp, turn, met>>
       \/ /\ m.body = "reindex" /\ m.repo \in Cloned
          /\ queue' = Tail(queue) /\ msg' = m /\ left' = m.files
          /\ Goto(Worker, "ensure")
          /\ Open(Worker)
    /\ UNCHANGED <<local, store, batch, counters, blind>>

\* mutant: the old chunks stay
KeepAllOf(f) == points

\* delete_by_file: the filter names the path and not the repository.
DeleteByFile(f) == {p \in points : p.file # f}

DeleteFile ==
    /\ pc[Worker] = "delete"
    /\ \/ /\ points' = DeleteByFile(Head(left))
          /\ Goto(Worker, "chunk")
          /\ UNCHANGED <<collection, worker, batch, counters, turns>>
       \/ CallFails(Worker)
    /\ UNCHANGED local

\* The worker goes on with the next file, or with what it has read.
AfterRead(read) ==
    IF Len(left) > 1
    THEN /\ batch' = [batch EXCEPT ![Worker] = read] /\ left' = Tail(left)
         /\ Goto(Worker, "delete")
         /\ UNCHANGED <<queue, msg, turns>>
    ELSE IF read = {} THEN Done(Worker)
    ELSE /\ batch' = [batch EXCEPT ![Worker] = read] /\ left' = <<>>
         /\ Goto(Worker, "embed")
         /\ UNCHANGED <<queue, msg, turns>>

\* An exception of chunk_file is noted in the result, which nobody reads: the
\* file, whose chunks are deleted, is left out, and the message acknowledged.
ChunkFile ==
    /\ pc[Worker] = "chunk"
    /\ \E raised \in {{}, {Head(left)}} :
        /\ ReadRaises(raised)
        /\ unread' = IF msg.repo = LocalRepo THEN (unread \ {Head(left)}) \cup raised
                                             ELSE unread
        /\ AfterRead(IF raised = {}
                     THEN batch[Worker] \cup Chunks(msg.repo, Head(left), turn[Worker])
                     ELSE batch[Worker])
    /\ UNCHANGED <<disk, store, sent, pulls>>

-----------------------------------------------------------------------------
Write(w) ==
    \/ CheckCollection(w) \/ CreateCollection(w) \/ Embed(w) \/ Upsert(w)
Work == TakeMessage \/ DeleteFile \/ ChunkFile \/ Write(Worker)
Run(w) == CountChunks(w) \/ WalkFiles(w) \/ Write(w)

Next ==
    \/ \E f \in Files : Pull(f)
    \/ \E b \in Messages : Publish(b)
    \/ Work
    \/ \E w \in Runners : Run(w)
    \/ \E w \in Writers : Crash(w)

Spec == Init /\ [][Next]_vars /\ WF_vars(Work)

-----------------------------------------------------------------------------
(* Properties *)

Steps == {"idle", "indexed", "failed", "walk", "embed", "ensure", "create", "upsert",
          "delete", "chunk"}
Points == [repo : Repos, file : Files, ver : Versions, part : Nat, by : Nat \ {0}]

\* Types of the files, the collection, the queue and the writers.
TypeOK ==
    /\ disk \in [Files -> Versions] /\ unread \subseteq Files
    /\ collection \in BOOLEAN /\ points \subseteq Points
    /\ queue \in Seq(Messages) /\ msg \in Messages \cup {NoMessage} /\ left \in Seq(Files)
    /\ pc \in [Writers -> Steps] /\ batch \in [Writers -> SUBSET Points]
    /\ {sent, pulls, faults, stamp} \subseteq Nat
    /\ turn \in [Writers -> Nat] /\ met \subseteq SUBSET Nat /\ blind \subseteq Nat

\* A writer that holds chunks is in a turn, and the chunks are of that turn; it
\* embeds and writes some, and deletes, chunks or is about to while files are
\* left; what is written belongs to a collection that exists.
StepsMatch ==
    /\ \A p \in points : p.by \in 1..stamp
    /\ points # {} => collection
    /\ \A w \in Writers :
        /\ turn[w] \in 0..stamp
        /\ turn[w] = 0 <=> pc[w] \in {"idle", "indexed", "failed"}
        /\ \A c \in batch[w] : c.by = turn[w]
        /\ pc[w] \in {"embed", "upsert"} => batch[w] # {}
        /\ pc[w] \in {"upsert", "delete", "chunk"} => collection
    /\ \A w \in Runners : /\ pc[w] \notin {"delete", "chunk"}
                          /\ pc[w] \in {"ensure", "create"} => batch[w] # {}
    /\ pc[Worker] \notin {"walk", "indexed", "failed"}
    /\ pc[Worker] = "embed" => collection
    /\ pc[Worker] \in {"ensure", "create", "delete", "chunk"} => left # <<>>
    /\ pc[Worker] # "idle" => msg \in Messages /\ msg.body = "reindex"

\* Turns that may leave two copies of a file.
Excused(a, b) == {a, b} \in met \/ {a, b} \cap blind # {}

\* Turns that are open together have met.
MetOpen ==
    \A w \in Writers : \A x \in Writers \ {w} :
        turn[w] # 0 /\ turn[x] # 0 => {turn[w], turn[x]} \in met

\* What a runner finds in the collection was written while it ran, unless it
\* could not count.
FreshRunners ==
    \A w \in Runners : turn[w] # 0 =>
        \A q \in points : q.by = turn[w] \/ Excused(q.by, turn[w])

\* And so is what the worker finds of a file it has deleted.
DeletedFirst ==
    \A q \in points :
        (pc[Worker] = "chunk" /\ q.file = Head(left)) \/ (\E c \in batch[Worker] : c.file = q.file) =>
            q.by = turn[Worker] \/ Excused(q.by, turn[Worker])

\* OneCopy: the chunks a file has under one label come from one writer, unless
\* two writers were at work at the same time, or a runner could not count the
\* chunks and indexed a collection that was not empty.  A redelivered message,
\* a crash between two batches or a run that starts later leaves no second copy
\* (reindex_files deletes first, _ensure_indexed counts first).
OneCopy ==
    \A p, q \in points :
        p.repo = q.repo /\ p.file = q.file /\ p.by # q.by => Excused(p.by, q.by)

\* IInv: the invariant that shows it: one copy of every file, and what each
\* writer knows of the chunks it will stand beside.
IInv == TypeOK /\ StepsMatch /\ MetOpen /\ FreshRunners /\ DeletedFirst /\ OneCopy

\* ChunksReturn: a file that a message in the queue, or the part of the worker's
\* message it has not read yet, is about gets eventually indexed at the version
\* it has or a later one, although its chunks are deleted before
\* the new ones are embedded: a call that fails, a collision on the creation
\* of the collection or a crash puts the message back, and a message that can
\* never be handled does not stand in the way (consume_forever).  The one way
\* out is a file the last message about it could not read: reindex_files
\* swallows the exception, and its chunks are gone.
Names(m, files, f) ==
    /\ m.body = "reindex" /\ m.repo = LocalRepo /\ LocalRepo \in Cloned
    /\ \E i \in 1..Len(files) : files[i] = f
AwaitsReindex(f, v) ==
    /\ disk[f] = v
    /\ \/ Names(msg, left, f)
       \/ \E i \in 1..Len(queue) : Names(queue[i], queue[i].files, f)
IndexedAt(f, v) == \A i \in 1..ChunkCount[v] :
    \E p \in points : p.repo = LocalRepo /\ p.file = f /\ p.ver = v /\ p.part = i
ChunksReturn == \A f \in Files, v \in Versions :
    AwaitsReindex(f, v) ~>
        \/ \E u \in Versions : u >= v /\ IndexedAt(f, u)
        \/ f \in unread /\ ~AwaitsReindex(f, disk[f])
=============================================================================
