----------------------------- MODULE RagSources -----------------------------
(***************************************************************************)
(* The sources of the RAG: rows of rag_sources in Postgres and their       *)
(* chunks in Qdrant, written by ingest (services/rag_ingest.py), by        *)
(* process_merged_pr (services/feedback_extractor.py) and removed by       *)
(* delete_source, each in a transaction of its own that its router or its  *)
(* background task commits.  Postgres and Qdrant share no transaction:     *)
(* chunks are visible as soon as they are upserted, a row once committed.  *)
(*                                                                         *)
(* A call of ingest or of process_merged_pr creates at most one row; the   *)
(* row and its chunks (payload rag_source_id) are named by the call.       *)
(***************************************************************************)
EXTENDS Naturals

CONSTANTS
  Ingests,      \* calls of rag_ingest.ingest
  Feedbacks,    \* calls of process_merged_pr
  Deletes,      \* calls of delete_source
  Collections,  \* values of collection_slug
  CollOf,       \* the collection an ingest or a feedback call writes to
  Hashes,       \* source_hash of the texts they may get
  Faults,       \* TRUE: processes may die and transactions may fail
  Pending,      \* the placeholder source_hash "pending"
  None          \* the null value

Writers == Ingests \cup Feedbacks
Calls == Writers \cup Deletes
Keys == Hashes \cup {Pending}

\* the columns of a rag_sources row
Rows == [hash : Keys, status : {"indexed", "failed"}]

ASSUME SourceConstants ==
  /\ CollOf \in [Writers -> Collections]
  /\ Ingests \cap Feedbacks = {} /\ Writers \cap Deletes = {}
  /\ Faults \in BOOLEAN
  /\ Pending \notin Hashes
  /\ None \notin Rows \cup Writers

VARIABLES
  rows,      \* rag_sources, committed: the row a writer created, or None
  chunks,    \* Qdrant: writers whose chunks are retrievable
  audit,     \* rag_audit_log, committed: feedback calls with their entries
  pc,        \* the next step of a call
  hash,      \* rag_source.source_hash, in the memory of a writer
  keys,      \* index entries a writer's open transaction has inserted
  outcome,   \* what the commit will make of the writer's row
  target,    \* the row a delete found
  cleaned,   \* deletes whose Qdrant call succeeded
  end        \* how a call ended

vars == <<rows, chunks, audit, pc, hash, keys, outcome, target, cleaned, end>>

Init ==
  /\ rows     = [w \in Writers |-> None]
  /\ chunks   = {}
  /\ audit    = {}
  /\ pc       = [c \in Calls |-> "idle"]
  /\ hash     = [w \in Writers |-> Pending]
  /\ keys     = [w \in Writers |-> {}]
  /\ outcome  = [w \in Writers |-> "none"]
  /\ target   = [d \in Deletes |-> None]
  /\ cleaned  = {}
  /\ end      = [c \in Calls |-> "none"]

Goto(c, from, to) == pc[c] = from /\ pc' = [pc EXCEPT ![c] = to]
Finish(c, how) ==
  /\ pc' = [pc EXCEPT ![c] = "ended"]
  /\ end' = [end EXCEPT ![c] = how]

-----------------------------------------------------------------------------
(* The UNIQUE index on (collection_slug, source_hash).                     *)

SameCollection(v, w) == CollOf[v] = CollOf[w]

\* an insertion waits while another open transaction has inserted the key
Free(w, k) == \A v \in Writers \ {w} : SameCollection(v, w) => k \notin keys[v]

\* and fails if a committed row has it
Taken(w, k) ==
  \E v \in Writers \ {w} : SameCollection(v, w) /\ rows[v] # None /\ rows[v].hash = k

\* the transaction is rolled back and the exception leaves the call
Refuse(w) ==
  /\ Finish(w, "refused")
  /\ keys' = [keys EXCEPT ![w] = {}]
  /\ UNCHANGED <<rows, chunks, audit, hash, outcome, target, cleaned>>

Insert(w, k, from, to) ==
  /\ Goto(w, from, to)
  /\ Free(w, k) /\ ~Taken(w, k)
  /\ keys' = [keys EXCEPT ![w] = @ \cup {k}]
  /\ UNCHANGED <<rows, chunks, audit, hash, outcome, target, cleaned, end>>

-----------------------------------------------------------------------------
(* ingest.                                                                 *)

\* A request arrives, a webhook starts its background task.
Begin(c, step) ==
  /\ Goto(c, "idle", step)
  /\ UNCHANGED <<rows, chunks, audit, hash, keys, outcome, target, cleaned, end>>

\* Flush of the new row, EXTRACTING, with the placeholder hash.
InsertPending(i) == Insert(i, Pending, "insert", "extract")

\* The flush fails; the handler's own flush then raises on the dead session.
PendingTaken(i) ==
  /\ pc[i] = "insert"
  /\ Free(i, Pending) /\ Taken(i, Pending)
  /\ Refuse(i)

\* A text was extracted, and no other committed row has its hash.
Extract(i) ==
  /\ Goto(i, "extract", "claim")
  /\ \E h \in Hashes :
       /\ ~Taken(i, h)
       /\ hash' = [hash EXCEPT ![i] = h]
  /\ UNCHANGED <<rows, chunks, audit, keys, outcome, target, cleaned, end>>

\* A text was extracted that some committed row already has: drop the new row.
Deduplicate(i) ==
  /\ Goto(i, "extract", "commit")
  /\ \E h \in Hashes :
       /\ Taken(i, h)
       /\ hash' = [hash EXCEPT ![i] = h]
  /\ outcome' = [outcome EXCEPT ![i] = "dropped"]
  /\ UNCHANGED <<rows, chunks, audit, keys, target, cleaned, end>>

\* No input, unreadable file, unreachable URL, short text: FAILED, still "pending".
ExtractError(i) ==
  /\ Goto(i, "extract", "commit")
  /\ outcome' = [outcome EXCEPT ![i] = "failed"]
  /\ UNCHANGED <<rows, chunks, audit, hash, keys, target, cleaned, end>>

-----------------------------------------------------------------------------
(* process_merged_pr, up to its row.                                       *)

\* PR not readable, quality gate, L1 call failed: nothing is written.
SkipPullRequest(f) ==
  /\ pc[f] = "fetch"
  /\ Finish(f, "skipped")
  /\ UNCHANGED <<rows, chunks, audit, hash, keys, outcome, target, cleaned>>

\* The L1 output does not parse: one audit entry, no row.
ExtractionUnparsed(f) ==
  /\ pc[f] = "fetch"
  /\ audit' = audit \cup {f}
  /\ Finish(f, "skipped")
  /\ UNCHANGED <<rows, chunks, hash, keys, outcome, target, cleaned>>

\* L1 extracted chunks, another text each time it is asked.
ExtractPatterns(f) ==
  /\ Goto(f, "fetch", "claim")
  /\ \E h \in Hashes : hash' = [hash EXCEPT ![f] = h]
  /\ UNCHANGED <<rows, chunks, audit, keys, outcome, target, cleaned, end>>

\* L2 and L3 accept some chunk.
Accept(f) ==
  /\ Goto(f, "validate", "embed")
  /\ UNCHANGED <<rows, chunks, audit, hash, keys, outcome, target, cleaned, end>>

\* L2 and L3 reject every chunk: FAILED.
RejectAll(f) ==
  /\ Goto(f, "validate", "commit")
  /\ outcome' = [outcome EXCEPT ![f] = "failed"]
  /\ UNCHANGED <<rows, chunks, audit, hash, keys, target, cleaned, end>>

-----------------------------------------------------------------------------
(* Both: claim the hash, embed, upsert, commit.                            *)

\* mutant: no flush before the embedding
ClaimLater(w) ==
  /\ Goto(w, "claim", IF w \in Ingests THEN "embed" ELSE "validate")
  /\ UNCHANGED <<rows, chunks, audit, hash, keys, outcome, target, cleaned, end>>

\* The flush that writes the real hash, EMBEDDING or PENDING.
Claim(w) == Insert(w, hash[w], "claim", IF w \in Ingests THEN "embed" ELSE "validate")

\* Another call committed the same text since this one looked.
ClaimRefused(w) ==
  /\ pc[w] = "claim"
  /\ Free(w, hash[w]) /\ Taken(w, hash[w])
  /\ Refuse(w)

\* an exception after the hash is claimed: ingest stores FAILED, feedback raises
Fail(w) ==
  IF w \in Ingests
    THEN /\ pc' = [pc EXCEPT ![w] = "commit"]
         /\ outcome' = [outcome EXCEPT ![w] = "failed"]
         /\ UNCHANGED <<keys, end>>
    ELSE /\ Finish(w, "raised")
         /\ keys' = [keys EXCEPT ![w] = {}]
         /\ UNCHANGED outcome

Embed(w) ==
  /\ Goto(w, "embed", "upsert")
  /\ UNCHANGED <<rows, chunks, audit, hash, keys, outcome, target, cleaned, end>>

EmbedError(w) ==
  /\ pc[w] = "embed"
  /\ Fail(w)
  /\ UNCHANGED <<rows, chunks, audit, hash, target, cleaned>>

Upsert(w) ==
  /\ Goto(w, "upsert", "commit")
  /\ chunks' = chunks \cup {w}
  /\ outcome' = [outcome EXCEPT ![w] = "indexed"]
  /\ UNCHANGED <<rows, audit, hash, keys, target, cleaned, end>>

\* The upsert raises; Qdrant may have applied it all the same.
UpsertError(w) ==
  /\ pc[w] = "upsert"
  /\ \E applied \in BOOLEAN : chunks' = IF applied THEN chunks \cup {w} ELSE chunks
  /\ Fail(w)
  /\ UNCHANGED <<rows, audit, hash, target, cleaned>>

\* mutant: the router of an ingest forgets to commit
CommitForgotten(w) ==
  /\ pc[w] = "commit"
  /\ keys' = [keys EXCEPT ![w] = {}]
  /\ Finish(w, "committed")
  /\ UNCHANGED <<rows, chunks, audit, hash, outcome, target, cleaned>>

\* mutant: the new row of a duplicate is not deleted
CommitDuplicate(w) ==
  /\ pc[w] = "commit"
  /\ rows' = [rows EXCEPT ![w] = [hash |-> hash[w], status |-> "indexed"]]
  /\ keys' = [keys EXCEPT ![w] = {}]
  /\ Finish(w, "committed")
  /\ UNCHANGED <<chunks, audit, hash, outcome, target, cleaned>>

\* The router, or the background task, commits.
Commit(w) ==
  /\ pc[w] = "commit"
  /\ rows' = [rows EXCEPT ![w] =
                IF outcome[w] = "dropped" THEN None
                ELSE [hash |-> hash[w], status |-> outcome[w]]]
  /\ audit' = IF w \in Feedbacks THEN audit \cup {w} ELSE audit
  /\ keys' = [keys EXCEPT ![w] = {}]
  /\ Finish(w, "committed")
  /\ UNCHANGED <<chunks, hash, outcome, target, cleaned>>

-----------------------------------------------------------------------------
(* delete_source.                                                          *)

\* The router reads the row.
FindSource(d) ==
  /\ Goto(d, "find", "clean")
  /\ \E w \in Writers :
       /\ rows[w] # None
       /\ target' = [target EXCEPT ![d] = w]
  /\ UNCHANGED <<rows, chunks, audit, hash, keys, outcome, cleaned, end>>

\* No such row: 404.
SourceNotFound(d) ==
  /\ pc[d] = "find"
  /\ Finish(d, "skipped")
  /\ UNCHANGED <<rows, chunks, audit, hash, keys, outcome, target, cleaned>>

\* Qdrant deletes the chunks that carry the row's id.
DeleteChunks(d) ==
  /\ Goto(d, "clean", "remove")
  /\ chunks' = chunks \ {target[d]}
  /\ cleaned' = cleaned \cup {d}
  /\ UNCHANGED <<rows, audit, hash, keys, outcome, target, end>>

\* Any error of that call is logged and ignored.
DeleteChunksError(d) ==
  /\ Goto(d, "clean", "remove")
  /\ UNCHANGED <<rows, chunks, audit, hash, keys, outcome, target, cleaned, end>>

\* Delete the row and commit; it may be gone already.
DeleteRow(d) ==
  /\ pc[d] = "remove"
  /\ rows' = [rows EXCEPT ![target[d]] = None]
  /\ Finish(d, "committed")
  /\ UNCHANGED <<chunks, audit, hash, keys, outcome, target, cleaned>>

-----------------------------------------------------------------------------
\* mutant: the connection of a dead call keeps its transaction
AbortLeavesTransaction(c) ==
  /\ Faults
  /\ pc[c] \notin {"idle", "ended"}
  /\ Finish(c, "aborted")
  /\ UNCHANGED <<rows, chunks, audit, hash, keys, outcome, target, cleaned>>

\* The process dies or the database fails: the open transaction is gone.
Abort(c) ==
  /\ Faults
  /\ pc[c] \notin {"idle", "ended"}
  /\ Finish(c, "aborted")
  /\ keys' = IF c \in Writers THEN [keys EXCEPT ![c] = {}] ELSE keys
  /\ UNCHANGED <<rows, chunks, audit, hash, outcome, target, cleaned>>

IngestStep(i) ==
  InsertPending(i) \/ PendingTaken(i) \/ Extract(i) \/ Deduplicate(i) \/ ExtractError(i)
FeedbackStep(f) ==
  \/ SkipPullRequest(f) \/ ExtractionUnparsed(f) \/ ExtractPatterns(f)
  \/ Accept(f) \/ RejectAll(f)
WriterStep(w) ==
  \/ Claim(w) \/ ClaimRefused(w) \/ Embed(w) \/ EmbedError(w)
  \/ Upsert(w) \/ UpsertError(w) \/ Commit(w)
DeleteStep(d) ==
  FindSource(d) \/ SourceNotFound(d) \/ DeleteChunks(d) \/ DeleteChunksError(d) \/ DeleteRow(d)

Next ==
  \/ \E i \in Ingests : Begin(i, "insert") \/ IngestStep(i)
  \/ \E f \in Feedbacks : Begin(f, "fetch") \/ FeedbackStep(f)
  \/ \E w \in Writers : WriterStep(w)
  \/ \E d \in Deletes : Begin(d, "find") \/ DeleteStep(d)
  \/ \E c \in Calls : Abort(c)

Spec == Init /\ [][Next]_vars

(* A call that began is resumed until it ends: Voyage, Qdrant and Postgres *)
(* answer or raise.  Nothing makes a request arrive or a process die.      *)
Fairness ==
  /\ \A i \in Ingests : WF_vars(IngestStep(i) \/ WriterStep(i))
  /\ \A f \in Feedbacks : WF_vars(FeedbackStep(f) \/ WriterStep(f))
  /\ \A d \in Deletes : WF_vars(DeleteStep(d))
FairSpec == Spec /\ Fairness

-----------------------------------------------------------------------------
(* Type invariant.                                                         *)

\* Every variable keeps its type.
TypeOK ==
  /\ rows \in [Writers -> Rows \cup {None}]
  /\ chunks \subseteq Writers
  /\ audit \subseteq Feedbacks
  /\ pc \in [Calls -> {"idle", "insert", "extract", "fetch", "claim", "validate",
                      "embed", "upsert", "commit", "find", "clean", "remove", "ended"}]
  /\ hash \in [Writers -> Keys]
  /\ keys \in [Writers -> SUBSET Keys]
  /\ outcome \in [Writers -> {"none", "indexed", "failed", "dropped"}]
  /\ target \in [Deletes -> Writers \cup {None}]
  /\ cleaned \subseteq Deletes
  /\ end \in [Calls -> {"none", "committed", "refused", "raised", "aborted", "skipped"}]

-----------------------------------------------------------------------------
(* Safety.                                                                 *)

(* A source shown as INDEXED has its chunks in Qdrant, unless a delete of  *)
(* it removed them and has not removed the row (yet, or because it died).  *)
IndexedBacked ==
  \A w \in Writers : rows[w] # None /\ rows[w].status = "indexed" =>
    w \in chunks \/ \E d \in cleaned : target[d] = w

(* Chunks that can be retrieved have a row by which they can be removed,   *)
(* unless their call failed after the upsert, or a delete removed the row  *)
(* although its call to Qdrant failed.                                     *)
RetrievableRemovable ==
  \A w \in chunks : rows[w] = None =>
    \/ pc[w] = "commit" \/ end[w] \in {"raised", "aborted"}
    \/ \E d \in Deletes \ cleaned : target[d] = w /\ end[d] = "committed"

(* Chunks that a delete removed never come back: no upsert of that source  *)
(* is still to come, wherever its call and other deletes of it are.        *)
RemovedStaysRemoved == \A d \in cleaned : target[d] \notin chunks

(* No two calls embed the same text for the same collection at once, and   *)
(* none embeds a text that is stored already: the flush before the         *)
(* embedding makes the second one wait, and then fail.                     *)
OneWriterPerSource ==
  \A v, w \in Writers :
    v # w /\ SameCollection(v, w) /\ hash[v] = hash[w] /\ pc[w] \in {"embed", "upsert"} =>
      /\ pc[v] \notin {"validate", "embed", "upsert"}
      /\ rows[v] # None => rows[v].hash # hash[w]

-----------------------------------------------------------------------------
(* Inductive invariant.                                                    *)

\* the stages of a writer that has claimed its hash
Claimed == {"validate", "embed", "upsert"}

\* a writer holds the key of the hash its row will be committed with
HoldsClaim ==
  \A w \in Writers :
    /\ pc[w] \in {"idle", "insert"} => hash[w] = Pending
    /\ pc[w] = "extract" => hash[w] = Pending /\ Pending \in keys[w]
    /\ pc[w] \in Claimed => hash[w] \in keys[w]
    /\ pc[w] = "commit" /\ outcome[w] # "dropped" => hash[w] \in keys[w]

\* a key belongs to one open transaction, and to no other committed row
KeysExclusive ==
  \A v, w \in Writers : v # w /\ SameCollection(v, w) =>
    /\ keys[v] \cap keys[w] = {}
    /\ rows[v] # None => rows[v].hash \notin keys[w]

\* a row appears when its call ends, and what it says is what the call did
RowsLast ==
  /\ \A c \in Calls : pc[c] = "ended" <=> end[c] # "none"
  /\ \A w \in Writers :
    /\ rows[w] # None => end[w] = "committed"
    /\ w \in chunks => pc[w] \in {"commit", "ended"}
    /\ pc[w] \notin {"commit", "ended"} => outcome[w] = "none"
    /\ pc[w] = "commit" =>
         /\ outcome[w] # "none"
         /\ outcome[w] = "indexed" => w \in chunks
    /\ w \in chunks => outcome[w] # "dropped"

\* a delete has a committed row in hand
DeletesCommitted ==
  \A d \in Deletes :
    /\ pc[d] \in {"clean", "remove"} \/ d \in cleaned => target[d] # None
    /\ target[d] # None => end[target[d]] = "committed"
    /\ pc[d] \in {"idle", "find"} => target[d] = None
    /\ pc[d] \in {"idle", "find", "clean"} => d \notin cleaned

IInv ==
  /\ TypeOK /\ HoldsClaim /\ KeysExclusive /\ RowsLast /\ DeletesCommitted
  /\ IndexedBacked /\ RemovedStaysRemoved

-----------------------------------------------------------------------------
(* Liveness.                                                               *)

(* Every call that began ends, though ingests into one collection wait for *)
(* each other from their first flush to their commit.                      *)
EveryCallEnds == \A c \in Calls : pc[c] # "idle" ~> pc[c] = "ended"
=============================================================================
