--------------------------- MODULE KnowledgeProofs ---------------------------
(***************************************************************************)
(* Proofs about what is known of a client: the sources of its RAG          *)
(* (RagSources), then the onboarding analysis of one of its squads         *)
(* (OnboardingAnalysis).  The two have no name in common.  For each, the   *)
(* inductive invariant, for every number of calls, and the safety          *)
(* properties it implies.                                                  *)
(***************************************************************************)
EXTENDS RagSources, OnboardingAnalysis, TLAPS

\* The initial states satisfy the inductive invariant: nothing was stored.
LEMMA SourcesInit == Init => IInv /\ RetrievableRemovable
  BY SourceConstants DEF Init, IInv, TypeOK, HoldsClaim, KeysExclusive, RowsLast,
     DeletesCommitted, IndexedBacked, RemovedStaysRemoved, RetrievableRemovable,
     Keys, Calls, Writers, Claimed

\* A step of any call keeps the types.
LEMMA SourcesTypeStep ==
  ASSUME TypeOK, RowsLast, DeletesCommitted, Next
  PROVE  TypeOK'
<1> USE DEF TypeOK, Calls, Writers, Goto, Finish
<1>1. ASSUME NEW w \in Writers, NEW k \in Keys, NEW a, NEW b, Insert(w, k, a, b),
             b \in {"extract", "embed", "validate"}
      PROVE  TypeOK'
  <2>1. keys' \in [Writers -> SUBSET Keys]
    BY <1>1 DEF Insert
  <2> QED BY <1>1, <2>1 DEF Insert
<1>2. ASSUME NEW w \in Writers, Refuse(w) PROVE TypeOK'
  BY <1>2 DEF Refuse
<1>3. ASSUME NEW c \in Calls, NEW s \in {"insert", "fetch", "find"}, Begin(c, s)
      PROVE  TypeOK'
  BY <1>3 DEF Begin
<1>4. ASSUME NEW i \in Ingests, IngestStep(i) PROVE TypeOK'
  <2>1. CASE InsertPending(i) BY <1>1, <2>1 DEF InsertPending, Keys
  <2>2. CASE PendingTaken(i) BY <1>2, <2>2 DEF PendingTaken
  <2>3. CASE Extract(i) BY <2>3 DEF Extract, Keys
  <2>4. CASE Deduplicate(i) BY <2>4 DEF Deduplicate, Keys
  <2>5. CASE ExtractError(i) BY <2>5 DEF ExtractError
  <2> QED BY <1>4, <2>1, <2>2, <2>3, <2>4, <2>5 DEF IngestStep
<1>5. ASSUME NEW f \in Feedbacks, FeedbackStep(f) PROVE TypeOK'
  <2>1. CASE SkipPullRequest(f) BY <2>1 DEF SkipPullRequest
  <2>2. CASE ExtractionUnparsed(f) BY <2>2 DEF ExtractionUnparsed
  <2>3. CASE ExtractPatterns(f) BY <2>3 DEF ExtractPatterns, Keys
  <2>4. CASE Accept(f) BY <2>4 DEF Accept
  <2>5. CASE RejectAll(f) BY <2>5 DEF RejectAll
  <2> QED BY <1>5, <2>1, <2>2, <2>3, <2>4, <2>5 DEF FeedbackStep
<1>6. ASSUME NEW w \in Writers, WriterStep(w) PROVE TypeOK'
  <2>1. CASE Claim(w) BY <1>1, <2>1 DEF Claim
  <2>2. CASE ClaimRefused(w) BY <1>2, <2>2 DEF ClaimRefused
  <2>3. CASE Embed(w) BY <2>3 DEF Embed
  <2>4. CASE EmbedError(w) BY <2>4 DEF EmbedError, Fail
  <2>5. CASE Upsert(w) BY <2>5 DEF Upsert
  <2>6. CASE UpsertError(w) BY <2>6 DEF UpsertError, Fail
  <2>7. CASE Commit(w)
    <3>1. rows' \in [Writers -> Rows \cup {None}]
      BY <2>7 DEF Commit, Rows, RowsLast
    <3> QED BY <2>7, <3>1 DEF Commit
  <2> QED BY <1>6, <2>1, <2>2, <2>3, <2>4, <2>5, <2>6, <2>7 DEF WriterStep
<1>7. ASSUME NEW d \in Deletes, DeleteStep(d) PROVE TypeOK'
  <2>1. CASE FindSource(d) BY <2>1 DEF FindSource
  <2>2. CASE SourceNotFound(d) BY <2>2 DEF SourceNotFound
  <2>3. CASE DeleteChunks(d) BY <2>3 DEF DeleteChunks
  <2>4. CASE DeleteChunksError(d) BY <2>4 DEF DeleteChunksError
  <2>5. CASE DeleteRow(d) BY <2>5 DEF DeleteRow
  <2> QED BY <1>7, <2>1, <2>2, <2>3, <2>4, <2>5 DEF DeleteStep
<1>8. ASSUME NEW c \in Calls, Abort(c) PROVE TypeOK'
  BY <1>8 DEF Abort
<1> QED BY <1>3, <1>4, <1>5, <1>6, <1>7, <1>8 DEF Next

\* The UNIQUE index: no two open transactions hold a key, nor a committed row.
LEMMA KeysStep ==
  ASSUME TypeOK, HoldsClaim, KeysExclusive, RowsLast, Next
  PROVE  HoldsClaim' /\ KeysExclusive'
<1> USE SourceConstants DEF TypeOK, HoldsClaim, KeysExclusive, RowsLast, Calls, Writers,
                            Claimed, Goto, Finish, SameCollection
<1>1. ASSUME NEW w \in Writers, NEW k \in Keys, NEW a, NEW b, Insert(w, k, a, b)
      PROVE  KeysExclusive'
  BY <1>1 DEF Insert, Free, Taken
<1>2. ASSUME NEW w \in Writers, Refuse(w) PROVE HoldsClaim' /\ KeysExclusive'
  BY <1>2 DEF Refuse
<1>3. ASSUME NEW c \in Calls, NEW s \in {"insert", "fetch", "find"}, Begin(c, s),
             s = "insert" => c \in Ingests
      PROVE  HoldsClaim' /\ KeysExclusive'
  BY <1>3 DEF Begin
<1>4. ASSUME NEW i \in Ingests, IngestStep(i) PROVE HoldsClaim' /\ KeysExclusive'
  <2>1. CASE InsertPending(i)
    <3>1. KeysExclusive' BY <1>1, <2>1 DEF InsertPending, Keys
    <3>2. HoldsClaim' BY <2>1 DEF InsertPending, Insert
    <3> QED BY <3>1, <3>2
  <2>2. CASE PendingTaken(i) BY <1>2, <2>2 DEF PendingTaken
  <2>3. CASE Extract(i) BY <2>3 DEF Extract
  <2>4. CASE Deduplicate(i) BY <2>4 DEF Deduplicate
  <2>5. CASE ExtractError(i) BY <2>5 DEF ExtractError
  <2> QED BY <1>4, <2>1, <2>2, <2>3, <2>4, <2>5 DEF IngestStep
<1>5. ASSUME NEW f \in Feedbacks, FeedbackStep(f) PROVE HoldsClaim' /\ KeysExclusive'
  <2>1. CASE SkipPullRequest(f) BY <2>1 DEF SkipPullRequest
  <2>2. CASE ExtractionUnparsed(f) BY <2>2 DEF ExtractionUnparsed
  <2>3. CASE ExtractPatterns(f) BY <2>3 DEF ExtractPatterns
  <2>4. CASE Accept(f) BY <2>4 DEF Accept
  <2>5. CASE RejectAll(f) BY <2>5 DEF RejectAll
  <2> QED BY <1>5, <2>1, <2>2, <2>3, <2>4, <2>5 DEF FeedbackStep
<1>6. ASSUME NEW w \in Writers, WriterStep(w) PROVE HoldsClaim' /\ KeysExclusive'
  <2>1. CASE Claim(w)
    <3>1. KeysExclusive' BY <1>1, <2>1 DEF Claim
    <3>2. HoldsClaim' BY <2>1 DEF Claim, Insert
    <3> QED BY <3>1, <3>2
  <2>2. CASE ClaimRefused(w) BY <1>2, <2>2 DEF ClaimRefused
  <2>3. CASE Embed(w) BY <2>3 DEF Embed
  <2>4. CASE EmbedError(w) BY <2>4 DEF EmbedError, Fail
  <2>5. CASE Upsert(w) BY <2>5 DEF Upsert
  <2>6. CASE UpsertError(w) BY <2>6 DEF UpsertError, Fail
  <2>7. CASE Commit(w) BY <2>7 DEF Commit
  <2> QED BY <1>6, <2>1, <2>2, <2>3, <2>4, <2>5, <2>6, <2>7 DEF WriterStep
<1>7. ASSUME NEW d \in Deletes, DeleteStep(d) PROVE HoldsClaim' /\ KeysExclusive'
  <2>1. CASE FindSource(d) BY <2>1 DEF FindSource
  <2>2. CASE SourceNotFound(d) BY <2>2 DEF SourceNotFound
  <2>3. CASE DeleteChunks(d) BY <2>3 DEF DeleteChunks
  <2>4. CASE DeleteChunksError(d) BY <2>4 DEF DeleteChunksError
  <2>5. CASE DeleteRow(d) BY <2>5 DEF DeleteRow
  <2> QED BY <1>7, <2>1, <2>2, <2>3, <2>4, <2>5 DEF DeleteStep
<1>8. ASSUME NEW c \in Calls, Abort(c) PROVE HoldsClaim' /\ KeysExclusive'
  BY <1>8 DEF Abort
<1> QED BY <1>3, <1>4, <1>5, <1>6, <1>7, <1>8 DEF Next

\* Rows come last and deletes work on committed rows: the order of the two stores.
LEMMA StoresStep ==
  ASSUME IInv, Next
  PROVE  RowsLast' /\ DeletesCommitted' /\ IndexedBacked' /\ RemovedStaysRemoved'
<1> USE SourceConstants DEF IInv, TypeOK, RowsLast, DeletesCommitted, IndexedBacked,
                            RemovedStaysRemoved, Calls, Writers, Goto, Finish
<1> DEFINE Kept == RowsLast' /\ DeletesCommitted' /\ IndexedBacked' /\ RemovedStaysRemoved'
<1>1. ASSUME NEW w \in Writers, NEW k \in Keys, NEW a, NEW b, Insert(w, k, a, b),
             a \in {"insert", "claim"}, b \in {"extract", "embed", "validate"}
      PROVE  Kept
  BY <1>1 DEF Insert
<1>2. ASSUME NEW w \in Writers, pc[w] \in {"insert", "claim"}, Refuse(w) PROVE Kept
  BY <1>2 DEF Refuse
<1>3. ASSUME NEW c \in Calls, NEW s \in {"insert", "fetch", "find"}, Begin(c, s) PROVE Kept
  BY <1>3 DEF Begin
<1>4. ASSUME NEW i \in Ingests, IngestStep(i) PROVE Kept
  <2>1. CASE InsertPending(i) BY <1>1, <2>1 DEF InsertPending, Keys
  <2>2. CASE PendingTaken(i) BY <1>2, <2>2 DEF PendingTaken
  <2>3. CASE Extract(i) BY <2>3 DEF Extract
  <2>4. CASE Deduplicate(i) BY <2>4 DEF Deduplicate
  <2>5. CASE ExtractError(i) BY <2>5 DEF ExtractError
  <2> QED BY <1>4, <2>1, <2>2, <2>3, <2>4, <2>5 DEF IngestStep
<1>5. ASSUME NEW f \in Feedbacks, FeedbackStep(f) PROVE Kept
  <2>1. CASE SkipPullRequest(f) BY <2>1 DEF SkipPullRequest
  <2>2. CASE ExtractionUnparsed(f) BY <2>2 DEF ExtractionUnparsed
  <2>3. CASE ExtractPatterns(f) BY <2>3 DEF ExtractPatterns
  <2>4. CASE Accept(f) BY <2>4 DEF Accept
  <2>5. CASE RejectAll(f) BY <2>5 DEF RejectAll
  <2> QED BY <1>5, <2>1, <2>2, <2>3, <2>4, <2>5 DEF FeedbackStep
<1>6. ASSUME NEW w \in Writers, WriterStep(w) PROVE Kept
  <2>1. CASE Claim(w) BY <1>1, <2>1 DEF Claim
  <2>2. CASE ClaimRefused(w) BY <1>2, <2>2 DEF ClaimRefused
  <2>3. CASE Embed(w) BY <2>3 DEF Embed
  <2>4. CASE EmbedError(w) BY <2>4 DEF EmbedError, Fail
  <2>5. CASE Upsert(w) BY <2>5 DEF Upsert
  <2>6. CASE UpsertError(w)
    <3>1. chunks' = chunks \/ chunks' = chunks \cup {w} BY <2>6 DEF UpsertError
    <3>2. pc[w] = "upsert" /\ rows' = rows /\ target' = target /\ cleaned' = cleaned
      BY <2>6 DEF UpsertError
    <3>3. rows[w] = None /\ \A d \in Deletes : target[d] # w
      <4>1. end[w] = "none" BY <3>2
      <4>2. rows[w] = None BY <4>1
      <4>3. ASSUME NEW d \in Deletes PROVE target[d] # w BY <4>1, <4>3
      <4> QED BY <4>2, <4>3
    <3>4. CASE w \in Ingests
      <4>1. end' = end /\ pc' = [pc EXCEPT ![w] = "commit"]
            /\ outcome' = [outcome EXCEPT ![w] = "failed"]
        BY <2>6, <3>4 DEF UpsertError, Fail
      <4>2. RowsLast' BY <4>1, <3>1, <3>2
      <4>3. DeletesCommitted' BY <4>1, <3>2
      <4>4. IndexedBacked' /\ RemovedStaysRemoved' BY <3>1, <3>2, <3>3
      <4> QED BY <4>2, <4>3, <4>4
    <3>5. CASE w \notin Ingests
      <4>1. outcome' = outcome /\ pc' = [pc EXCEPT ![w] = "ended"]
            /\ end' = [end EXCEPT ![w] = "raised"]
        BY <2>6, <3>5 DEF UpsertError, Fail
      <4>2. RowsLast'
        <5> SUFFICES ASSUME NEW v \in Writers
                     PROVE  /\ rows[v] # None => end'[v] = "committed"
                            /\ v \in chunks' => pc'[v] \in {"commit", "ended"}
                            /\ pc'[v] = "commit" => /\ outcome[v] # "none"
                                                    /\ outcome[v] = "indexed" => v \in chunks'
                            /\ pc'[v] \notin {"commit", "ended"} => outcome[v] = "none"
                            /\ v \in chunks' => outcome[v] # "dropped"
          <6>1. \A c \in Calls : pc'[c] = "ended" <=> end'[c] # "none" BY <4>1
          <6> QED BY <6>1, <4>1, <3>2
        <5>1. CASE v = w BY <5>1, <4>1, <3>1, <3>2, <3>3
        <5>2. CASE v # w BY <5>2, <4>1, <3>1, <3>2
        <5> QED BY <5>1, <5>2
      <4>3. DeletesCommitted' BY <4>1, <3>2
      <4>4. IndexedBacked' /\ RemovedStaysRemoved' BY <3>1, <3>2, <3>3
      <4> QED BY <4>2, <4>3, <4>4
    <3> QED BY <3>4, <3>5
  <2>7. CASE Commit(w) BY <2>7 DEF Commit, Rows
  <2> QED BY <1>6, <2>1, <2>2, <2>3, <2>4, <2>5, <2>6, <2>7 DEF WriterStep
<1>7. ASSUME NEW d \in Deletes, DeleteStep(d) PROVE Kept
  <2>1. CASE FindSource(d) BY <2>1 DEF FindSource
  <2>2. CASE SourceNotFound(d) BY <2>2 DEF SourceNotFound
  <2>3. CASE DeleteChunks(d) BY <2>3 DEF DeleteChunks
  <2>4. CASE DeleteChunksError(d) BY <2>4 DEF DeleteChunksError
  <2>5. CASE DeleteRow(d) BY <2>5 DEF DeleteRow
  <2> QED BY <1>7, <2>1, <2>2, <2>3, <2>4, <2>5 DEF DeleteStep
<1>8. ASSUME NEW c \in Calls, Abort(c) PROVE Kept
  BY <1>8 DEF Abort
<1> QED BY <1>3, <1>4, <1>5, <1>6, <1>7, <1>8 DEF Next

\* Chunks stay removable: the order of upsert, commit, and of a delete's two steps.
LEMMA RemovableStep ==
  ASSUME IInv, RetrievableRemovable, Next
  PROVE  RetrievableRemovable'
<1> USE SourceConstants DEF IInv, TypeOK, RowsLast, DeletesCommitted, RemovedStaysRemoved,
                            RetrievableRemovable, Calls, Writers, Goto, Finish
<1>1. ASSUME NEW w \in Writers, NEW k \in Keys, NEW a, NEW b, Insert(w, k, a, b),
             a \in {"insert", "claim"}
      PROVE  RetrievableRemovable'
  BY <1>1 DEF Insert
<1>2. ASSUME NEW w \in Writers, pc[w] \in {"insert", "claim"}, Refuse(w)
      PROVE  RetrievableRemovable'
  BY <1>2 DEF Refuse
<1>3. ASSUME NEW c \in Calls, NEW s \in {"insert", "fetch", "find"}, Begin(c, s)
      PROVE  RetrievableRemovable'
  BY <1>3 DEF Begin
<1>4. ASSUME NEW i \in Ingests, IngestStep(i) PROVE RetrievableRemovable'
  <2>1. CASE InsertPending(i) BY <1>1, <2>1 DEF InsertPending, Keys
  <2>2. CASE PendingTaken(i) BY <1>2, <2>2 DEF PendingTaken
  <2>3. CASE Extract(i) BY <2>3 DEF Extract
  <2>4. CASE Deduplicate(i) BY <2>4 DEF Deduplicate
  <2>5. CASE ExtractError(i) BY <2>5 DEF ExtractError
  <2> QED BY <1>4, <2>1, <2>2, <2>3, <2>4, <2>5 DEF IngestStep
<1>5. ASSUME NEW f \in Feedbacks, FeedbackStep(f) PROVE RetrievableRemovable'
  <2>1. CASE SkipPullRequest(f) BY <2>1 DEF SkipPullRequest
  <2>2. CASE ExtractionUnparsed(f) BY <2>2 DEF ExtractionUnparsed
  <2>3. CASE ExtractPatterns(f) BY <2>3 DEF ExtractPatterns
  <2>4. CASE Accept(f) BY <2>4 DEF Accept
  <2>5. CASE RejectAll(f) BY <2>5 DEF RejectAll
  <2> QED BY <1>5, <2>1, <2>2, <2>3, <2>4, <2>5 DEF FeedbackStep
<1>6. ASSUME NEW w \in Writers, WriterStep(w) PROVE RetrievableRemovable'
  <2>1. CASE Claim(w) BY <1>1, <2>1 DEF Claim
  <2>2. CASE ClaimRefused(w) BY <1>2, <2>2 DEF ClaimRefused
  <2>3. CASE Embed(w) BY <2>3 DEF Embed
  <2>4. CASE EmbedError(w) BY <2>4 DEF EmbedError, Fail
  <2>5. CASE Upsert(w) BY <2>5 DEF Upsert
  <2>6. CASE UpsertError(w) BY <2>6 DEF UpsertError, Fail
  <2>7. CASE Commit(w)
    <3>1. [hash |-> hash[w], status |-> outcome[w]] # None \/ outcome[w] = "dropped"
      BY <2>7 DEF Commit, Rows
    <3> QED BY <2>7, <3>1 DEF Commit
  <2> QED BY <1>6, <2>1, <2>2, <2>3, <2>4, <2>5, <2>6, <2>7 DEF WriterStep
<1>7. ASSUME NEW d \in Deletes, DeleteStep(d) PROVE RetrievableRemovable'
  <2>1. CASE FindSource(d) BY <2>1 DEF FindSource
  <2>2. CASE SourceNotFound(d) BY <2>2 DEF SourceNotFound
  <2>3. CASE DeleteChunks(d) BY <2>3 DEF DeleteChunks
  <2>4. CASE DeleteChunksError(d) BY <2>4 DEF DeleteChunksError
  <2>5. CASE DeleteRow(d) BY <2>5 DEF DeleteRow
  <2> QED BY <1>7, <2>1, <2>2, <2>3, <2>4, <2>5 DEF DeleteStep
<1>8. ASSUME NEW c \in Calls, Abort(c) PROVE RetrievableRemovable'
  <2>1. pc[c] # "ended" /\ pc' = [pc EXCEPT ![c] = "ended"]
        /\ end' = [end EXCEPT ![c] = "aborted"]
        /\ rows' = rows /\ chunks' = chunks /\ target' = target /\ cleaned' = cleaned
    BY <1>8 DEF Abort
  <2>2. \A d \in Deletes : end[d] = "committed" => end'[d] = "committed"
    <3>1. end[c] # "none" => pc[c] = "ended" BY DEF RowsLast, DeletesCommitted
    <3> QED BY <2>1, <3>1
  <2> QED BY <2>1, <2>2
<1> QED BY <1>3, <1>4, <1>5, <1>6, <1>7, <1>8 DEF Next

\* The inductive invariant of RagSources holds in every reachable state.
THEOREM SourcesInductive == Spec => [](IInv /\ RetrievableRemovable)
<1>1. Init => IInv /\ RetrievableRemovable
  BY SourcesInit
<1>2. IInv /\ RetrievableRemovable /\ [Next]_vars => IInv' /\ RetrievableRemovable'
  <2> SUFFICES ASSUME IInv, RetrievableRemovable, [Next]_vars
               PROVE  IInv' /\ RetrievableRemovable'
    OBVIOUS
  <2>1. CASE Next
    <3>1. TypeOK' BY <2>1, SourcesTypeStep DEF IInv
    <3>2. HoldsClaim' /\ KeysExclusive' BY <2>1, KeysStep DEF IInv
    <3>3. RowsLast' /\ DeletesCommitted' /\ IndexedBacked' /\ RemovedStaysRemoved'
      BY <2>1, StoresStep
    <3>4. RetrievableRemovable' BY <2>1, RemovableStep
    <3> QED BY <3>1, <3>2, <3>3, <3>4 DEF IInv
  <2>2. CASE UNCHANGED vars
    BY <2>2 DEF vars, IInv, TypeOK, HoldsClaim, KeysExclusive, RowsLast, DeletesCommitted,
       IndexedBacked, RemovedStaysRemoved, RetrievableRemovable, Free, Taken
  <2> QED BY <2>1, <2>2
<1> QED BY <1>1, <1>2, PTL DEF Spec

(* A source shown as INDEXED has its chunks, unless a delete took them     *)
(* first, whatever calls interleave, fail or die.                          *)
THEOREM SourcesBacked == Spec => []IndexedBacked
<1>1. IInv => IndexedBacked BY DEF IInv
<1> QED BY <1>1, SourcesInductive, PTL

\* Retrievable chunks can be removed, but for the failures the property names.
THEOREM ChunksRemovable == Spec => []RetrievableRemovable
  BY SourcesInductive, PTL

\* Chunks that a delete removed never come back.
THEOREM RemovedForGood == Spec => []RemovedStaysRemoved
<1>1. IInv => RemovedStaysRemoved BY DEF IInv
<1> QED BY <1>1, SourcesInductive, PTL

(* The UNIQUE index, taken by the flush before the embedding, makes the    *)
(* calls that embed one text for one collection exclude each other.        *)
THEOREM WritersExclusive == Spec => []OneWriterPerSource
<1>1. IInv => OneWriterPerSource
  BY DEF IInv, HoldsClaim, KeysExclusive, OneWriterPerSource, Claimed
<1> QED BY <1>1, SourcesInductive, PTL

-----------------------------------------------------------------------------
(* The onboarding analysis of a squad.                                     *)

\* The initial states satisfy the inductive invariant: no analysis was started.
LEMMA AnalysisInit == OAInit => OAInv
  BY AnalysisConstants DEF OAInit, OAInv, OATypeOK, RowAndTask, GreenfieldStages, ClosedBehind,
     CancelHasRow, EndedClosed, FailureTold, CancelNotLost, OneRowPerKey, Tasks, Requests,
     Stopped, ProgressKeys

\* Nothing but the variables matters to the invariant.
LEMMA AnalysisStutter == OAInv /\ UNCHANGED oaVars => OAInv'
  BY DEF oaVars, row, request, OAInv, OATypeOK, RowAndTask, GreenfieldStages, ClosedBehind,
     CancelHasRow, EndedClosed, FailureTold, CancelNotLost, OneRowPerKey, Tasks, Requests

\* A request that starts an analysis, or the client's move to another workspace.
LEMMA StartKeeps ==
  ASSUME OAInv, \/ \E w \in Workspaces : MoveWorkspace(w)
               \/ \E s \in Starts : Arrive(s) \/ StartStep(s)
  PROVE  OAInv'
<1> USE AnalysisConstants
    DEF OAInv, OATypeOK, RowAndTask, GreenfieldStages, ClosedBehind, CancelHasRow, EndedClosed,
        FailureTold, CancelNotLost, OneRowPerKey, Tasks, Requests, row, request, Answer
<1>1. ASSUME NEW w \in Workspaces, MoveWorkspace(w) PROVE OAInv'
  BY <1>1 DEF MoveWorkspace
<1>2. ASSUME NEW s \in Starts, Arrive(s) PROVE OAInv'
  BY <1>2 DEF Arrive
<1>3. ASSUME NEW s \in Starts, FindActive(s) PROVE OAInv'
  BY <1>3 DEF FindActive
<1>4. ASSUME NEW s \in Starts, InsertRefused(s) PROVE OAInv'
  BY <1>4 DEF InsertRefused
<1>5. ASSUME NEW s \in Starts, InsertTask(s) PROVE OAInv'
  <2> USE <1>5 DEF InsertTask
  <2>1. OATypeOK' BY DEF ProgressKeys, CheckAfter
  <2>2. RowAndTask' /\ GreenfieldStages' /\ ClosedBehind' BY DEF Stopped
  <2>3. CancelHasRow' /\ CancelNotLost' OBVIOUS
  <2>4. EndedClosed' /\ FailureTold' OBVIOUS
  <2>5. OneRowPerKey' BY DEF KeyTaken
  <2> QED BY <2>1, <2>2, <2>3, <2>4, <2>5
<1> QED BY <1>1, <1>2, <1>3, <1>4, <1>5 DEF StartStep

\* A request that cancels, or a request that dies.
LEMMA CancelKeeps ==
  ASSUME OAInv, \/ \E c \in Cancels : ReadTask(c) \/ WriteCancelled(c)
               \/ \E r \in Requests : AbortRequest(r)
  PROVE  OAInv'
<1> USE AnalysisConstants
    DEF OAInv, OATypeOK, RowAndTask, GreenfieldStages, ClosedBehind, CancelHasRow, EndedClosed,
        FailureTold, CancelNotLost, OneRowPerKey, Tasks, Requests, row, request, Answer
<1>1. ASSUME NEW c \in Cancels, ReadLatest(c) PROVE OAInv'
  BY <1>1 DEF ReadLatest, Latest
<1>2. ASSUME NEW c \in Cancels, AlreadyFinished(c) PROVE OAInv'
  BY <1>2 DEF AlreadyFinished
<1>3. ASSUME NEW c \in Cancels, NothingToCancel(c) PROVE OAInv'
  BY <1>3 DEF NothingToCancel
<1>4. ASSUME NEW r \in Requests, AbortRequest(r) PROVE OAInv'
  BY <1>4 DEF AbortRequest
<1>5. ASSUME NEW c \in Cancels, WriteCancelled(c) PROVE OAInv'
  <2> USE <1>5 DEF WriteCancelled
  <2>1. OATypeOK' BY DEF ProgressKeys
  <2>2. RowAndTask' /\ GreenfieldStages' /\ ClosedBehind' OBVIOUS
  <2>3. CancelHasRow' /\ CancelNotLost' OBVIOUS
  <2>4. EndedClosed' /\ FailureTold' OBVIOUS
  <2>5. OneRowPerKey' OBVIOUS
  <2> QED BY <2>1, <2>2, <2>3, <2>4, <2>5
<1> QED BY <1>1, <1>2, <1>3, <1>4, <1>5 DEF ReadTask

\* A stage of a background task: it never closes the row.
LEMMA StageKeeps ==
  ASSUME OAInv, NEW s \in Starts, Stage(s)
  PROVE  OAInv'
<1> USE AnalysisConstants
    DEF OAInv, OATypeOK, RowAndTask, GreenfieldStages, ClosedBehind, CancelHasRow, EndedClosed,
        FailureTold, CancelNotLost, OneRowPerKey, Tasks, Requests, row, request, Proceed, Stopped
<1>1. CASE UpdateStep(s)
  <2> USE <1>1 DEF UpdateStep, CheckAfter
  <2>1. OATypeOK'
    <3>1. step' \in [Starts -> {"none", "failed", "cancelled"} \cup DOMAIN CheckAfter]
      OBVIOUS
    <3>2. CheckAfter[bg[s]] \in DOMAIN WorkAfter BY DEF WorkAfter
    <3> QED BY <3>1, <3>2
  <2>2. RowAndTask' /\ GreenfieldStages' /\ ClosedBehind' OBVIOUS
  <2>3. CancelHasRow' /\ CancelNotLost' OBVIOUS
  <2>4. EndedClosed' /\ FailureTold' OBVIOUS
  <2>5. OneRowPerKey' OBVIOUS
  <2> QED BY <2>1, <2>2, <2>3, <2>4, <2>5
<1>2. CASE CheckPasses(s) BY <1>2 DEF CheckPasses, WorkAfter
<1>3. CASE CheckStops(s) BY <1>3 DEF CheckStops, WorkAfter, Leave
<1>4. CASE Clone(s) BY <1>4 DEF Clone, CheckAfter
<1>5. CASE CloneFails(s) BY <1>5 DEF CloneFails
<1>6. CASE Scan(s) BY <1>6 DEF Scan, Patches
<1>7. CASE Iterate(s) BY <1>7 DEF Iterate, Patches
<1>8. CASE Patch(s) BY <1>8 DEF Patch, Patches, ProgressKeys, CheckAfter
<1>9. CASE Raise(s) BY <1>9 DEF Raise
<1> QED BY <1>1, <1>2, <1>3, <1>4, <1>5, <1>6, <1>7, <1>8, <1>9 DEF Stage

\* The end of a background task: by then the row is closed.
LEMMA EndingKeeps ==
  ASSUME OAInv, NEW s \in Starts, Ending(s) \/ Fault(s)
  PROVE  OAInv'
<1> USE AnalysisConstants
    DEF OAInv, OATypeOK, RowAndTask, GreenfieldStages, ClosedBehind, CancelHasRow, EndedClosed,
        FailureTold, CancelNotLost, OneRowPerKey, Tasks, Requests, row, request, Proceed, Stopped
<1>1. CASE ReadFailing(s) BY <1>1 DEF ReadFailing
<1>2. CASE MarkFailed(s)
  <2> USE <1>2 DEF MarkFailed
  <2>1. OATypeOK' BY DEF ProgressKeys, Leave
  <2>2. RowAndTask' /\ GreenfieldStages' /\ ClosedBehind' BY DEF Leave
  <2>3. CancelHasRow' /\ CancelNotLost' OBVIOUS
  <2>4. EndedClosed' /\ FailureTold' BY DEF Leave
  <2>5. OneRowPerKey' OBVIOUS
  <2> QED BY <2>1, <2>2, <2>3, <2>4, <2>5
<1>3. CASE Cleanup(s) BY <1>3 DEF Cleanup
<1>4. CASE StageRaises(s) BY <1>4 DEF StageRaises, CheckAfter, WorkAfter, Patches
<1>5. CASE MarkFailedRaises(s) BY <1>5 DEF MarkFailedRaises
<1>6. CASE CleanupFails(s) BY <1>6 DEF CleanupFails
<1>7. CASE Die(s) BY <1>7 DEF Die
<1> QED BY <1>1, <1>2, <1>3, <1>4, <1>5, <1>6, <1>7 DEF Ending, Fault

(* The inductive invariant holds of every behaviour, whoever starts,       *)
(* cancels, moves the client or dies.                                      *)
THEOREM AnalysisInductive == OASpec => []OAInv
<1>1. OAInv /\ [OANext]_oaVars => OAInv'
  BY StartKeeps, CancelKeeps, StageKeeps, EndingKeeps, AnalysisStutter DEF OANext
<1> QED BY AnalysisInit, <1>1, PTL DEF OASpec

(* A background task that came to its end left a closed row and no clone.  *)
THEOREM AnalysisEndsClosed == OASpec => []EndedClosed
<1>1. OAInv => EndedClosed BY DEF OAInv
<1> QED BY AnalysisInductive, <1>1, PTL

(* A FAILED analysis says so in every column.                              *)
THEOREM FailuresAreTold == OASpec => []FailureTold
<1>1. OAInv => FailureTold BY DEF OAInv
<1> QED BY AnalysisInductive, <1>1, PTL

(* A cancel that was answered is not lost.                                 *)
THEOREM CancelsAreKept == OASpec => []CancelNotLost
<1>1. OAInv => CancelNotLost BY DEF OAInv
<1> QED BY AnalysisInductive, <1>1, PTL
=============================================================================
