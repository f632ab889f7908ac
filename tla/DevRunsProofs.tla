---------------------------- MODULE DevRunsProofs ----------------------------
(***************************************************************************)
(* Theorems about DevRuns for every set of runs, branches and manifests,   *)
(* any number of turns and blocks, with and without faults.                *)
(***************************************************************************)
EXTENDS DevRuns, SequenceTheorems, TLAPS

-----------------------------------------------------------------------------
(* Branches.                                                               *)

Authors == Runs \cup {Human}

(* A branch contains itself.                                               *)
LEMMA AncestorReflexive ==
  ASSUME NEW x \in BranchStates
  PROVE  Ancestor(x, x)
<1>1. x.own \in Seq(Authors) /\ x.base \in Nat
  BY DEF BranchStates, Authors
<1>2. SubSeq(x.own, 1, Len(x.own)) = x.own
  BY <1>1, SubSeqFull
<1> QED
  BY <1>1, <1>2 DEF Ancestor

(* A prefix of a prefix is a prefix.                                       *)
LEMMA PrefixOfPrefix ==
  ASSUME NEW s \in Seq(Authors), NEW p \in 1..Len(s), NEW q \in 1..p
  PROVE  SubSeq(SubSeq(s, 1, p), 1, q) = SubSeq(s, 1, q)
<1> DEFINE t == SubSeq(s, 1, p)
<1>1. Len(s) \in Nat /\ \A i \in 1..Len(s) : s[i] \in Authors
  BY ElementOfSeq, LenProperties
<1>2. /\ t \in Seq(Authors) /\ Len(t) = p
      /\ \A i \in 1..p : t[i] = s[i]
  <2>1. 1 \in Int /\ p \in Int /\ \A i \in 1..p : s[i] \in Authors
    BY <1>1
  <2>2. /\ t \in Seq(Authors)
        /\ Len(t) = IF 1 <= p THEN p - 1 + 1 ELSE 0
        /\ \A i \in 1..(p - 1 + 1) : t[i] = s[1 + i - 1]
    BY <2>1, SubSeqProperties
  <2> QED
    BY <2>1, <2>2
<1>3. /\ SubSeq(s, 1, q) \in Seq(Authors) /\ Len(SubSeq(s, 1, q)) = q
      /\ \A i \in 1..q : SubSeq(s, 1, q)[i] = s[i]
  <2>1. 1 \in Int /\ q \in Int /\ \A i \in 1..q : s[i] \in Authors
    BY <1>1
  <2>2. /\ SubSeq(s, 1, q) \in Seq(Authors)
        /\ Len(SubSeq(s, 1, q)) = IF 1 <= q THEN q - 1 + 1 ELSE 0
        /\ \A i \in 1..(q - 1 + 1) : SubSeq(s, 1, q)[i] = s[1 + i - 1]
    BY <2>1, SubSeqProperties
  <2> QED
    BY <2>1, <2>2
<1>4. /\ SubSeq(t, 1, q) \in Seq(Authors) /\ Len(SubSeq(t, 1, q)) = q
      /\ \A i \in 1..q : SubSeq(t, 1, q)[i] = t[i]
  <2>1. 1 \in Int /\ q \in Int /\ \A i \in 1..q : t[i] \in Authors
    BY <1>1, <1>2
  <2>2. /\ SubSeq(t, 1, q) \in Seq(Authors)
        /\ Len(SubSeq(t, 1, q)) = IF 1 <= q THEN q - 1 + 1 ELSE 0
        /\ \A i \in 1..(q - 1 + 1) : SubSeq(t, 1, q)[i] = t[1 + i - 1]
    BY <2>1, SubSeqProperties
  <2> QED
    BY <2>1, <2>2
<1>5. \A i \in 1..q : SubSeq(t, 1, q)[i] = SubSeq(s, 1, q)[i]
  BY <1>1, <1>2, <1>3, <1>4
<1> QED
  BY <1>3, <1>4, <1>5, SeqEqual

(* What a branch contains, its descendants contain.                        *)
LEMMA AncestorTransitive ==
  ASSUME NEW x \in BranchStates, NEW y \in BranchStates, NEW z \in BranchStates,
         Ancestor(x, y), Ancestor(y, z)
  PROVE  Ancestor(x, z)
<1>1. /\ x.own \in Seq(Authors) /\ y.own \in Seq(Authors) /\ z.own \in Seq(Authors)
      /\ x.base \in Nat /\ y.base \in Nat /\ z.base \in Nat
  BY DEF BranchStates, Authors
<1>2. CASE x.own = <<>>
  BY <1>1, <1>2 DEF Ancestor
<1>3. CASE x.own # <<>>
  <2>1. /\ x.base = y.base /\ Len(x.own) <= Len(y.own)
        /\ SubSeq(y.own, 1, Len(x.own)) = x.own
    BY <1>3 DEF Ancestor
  <2>2. Len(x.own) \in Nat \ {0} /\ Len(y.own) \in Nat /\ Len(z.own) \in Nat
    BY <1>1, <1>3, EmptySeq
  <2>3. y.own # <<>>
    BY <2>1, <2>2
  <2>4. /\ y.base = z.base /\ Len(y.own) <= Len(z.own)
        /\ SubSeq(z.own, 1, Len(y.own)) = y.own
    BY <2>3 DEF Ancestor
  <2>5. SubSeq(SubSeq(z.own, 1, Len(y.own)), 1, Len(x.own)) = SubSeq(z.own, 1, Len(x.own))
    BY <1>1, <2>1, <2>2, <2>4, PrefixOfPrefix
  <2> QED
    BY <1>3, <2>1, <2>2, <2>4, <2>5 DEF Ancestor
<1> QED
  BY <1>2, <1>3

(* A commit keeps those before it.                                         *)
LEMMA PrefixOfAppend ==
  ASSUME NEW s \in Seq(Authors), NEW a \in Authors
  PROVE  /\ Len(Append(s, a)) = Len(s) + 1
         /\ SubSeq(Append(s, a), 1, Len(s)) = s
<1>1. Append(s, a) = s \o <<a>> /\ <<a>> \in Seq(Authors)
  BY AppendIsConcat
<1>2. CASE s = <<>>
  BY <1>2, SubSeqEmpty
<1>3. CASE s # <<>>
  <2>1. Len(s) \in Nat \ {0}
    BY <1>3, EmptySeq
  <2>2. SubSeq(s \o <<a>>, 1, Len(s)) = SubSeq(s, 1, Len(s))
    BY <1>1, <2>1, SubSeqOfConcat1
  <2> QED
    BY <1>1, <2>2, SubSeqFull
<1> QED
  BY <1>2, <1>3

(* A branch with one more commit descends from what it was.                *)
LEMMA CommitAdded ==
  ASSUME NEW x \in BranchStates, NEW a \in Authors
  PROVE  /\ Commits(x.base, Append(x.own, a)) \in BranchStates
         /\ Commits(x.base, Append(x.own, a)).own = Append(x.own, a)
         /\ Ancestor(x, Commits(x.base, Append(x.own, a)))
<1> DEFINE y == Commits(x.base, Append(x.own, a))
<1>1. x.own \in Seq(Authors) /\ x.base \in Nat
  BY DEF BranchStates, Authors
<1>2. Append(x.own, a) \in Seq(Authors)
  BY <1>1, AppendProperties
<1>3. y.base = x.base /\ y.own = Append(x.own, a) /\ y \in BranchStates
  BY <1>1, <1>2 DEF BranchStates, Authors, Commits
<1>4. Ancestor(x, y)
  BY <1>1, <1>3, PrefixOfAppend DEF Ancestor
<1> QED
  BY <1>3, <1>4

(* Only the commits of a branch are replaced.                              *)
LEMMA OwnReplaced ==
  ASSUME NEW x \in BranchStates, NEW s
  PROVE  [x EXCEPT !.own = s] = Commits(x.base, s)
BY DEF BranchStates, Commits

-----------------------------------------------------------------------------
(* What a step may change.                                                 *)

(* The clone and its branches.                                             *)
ClonesHeads(r) ==
  CheckoutNew(r) \/ CheckoutExisting(r) \/ CheckoutBusy(r) \/ Commit(r) \/ Push(r)

(* What was fetched.                                                       *)
Fetches(r) ==
  \/ CheckoutNew(r) \/ CheckoutExisting(r) \/ CheckoutBusy(r)
  \/ PushConflict(r) \/ Push(r) \/ CheckPull(r)

(* The changes of a worktree.                                              *)
Touches(r) ==
  EditFile(r) \/ CreateFile(r) \/ RunCheck(r) \/ Commit(r) \/ Cleanup(r)

(* Pull requests.                                                          *)
Pulls(r) == OpenPull(r) \/ OpenPullError(r)

(* Decisions.                                                              *)
Decides(r) ==
  \/ EditFile(r) \/ CreateFile(r) \/ ReadPull(r) \/ ReadReview(r) \/ Review(r)
  \/ MoveIssue(r)

(* Every variable has few writers.                                         *)
Framed ==
  /\ UNCHANGED <<cache, heads, upstream, registered>> \/ \E r \in Runs : ClonesHeads(r)
  /\ UNCHANGED tracking \/ \E r \in Runs : Fetches(r)
  /\ UNCHANGED <<edited, added>> \/ \E r \in Runs : Touches(r)
  /\ UNCHANGED trees \/ \E r \in Runs : CheckoutNew(r) \/ CheckoutExisting(r) \/ Cleanup(r)
  /\ UNCHANGED pulls \/ \E r \in Runs : Pulls(r)
  /\ \/ UNCHANGED remote \/ MainMoves
     \/ \E r \in Runs : Push(r)
     \/ \E b \in Branches : HumanPush(b)
  /\ UNCHANGED policy \/ \E r \in Runs : Decides(r)

LEMMA Frame == ASSUME [Next]_vars PROVE Framed
<1>1. ASSUME NEW r \in Runs, Request(r) PROVE Framed
  <2> USE DEF Framed, bare, github, dirty, policy, End
  <2>1. CASE Trigger(r) \/ TriggerInsert(r) \/ TriggerRefused(r) \/ CommandLine(r)
    BY <2>1 DEF Trigger, TriggerInsert, TriggerRefused, CommandLine
  <2>2. ASSUME NEW b \in Branches, AddressReview(r, b) PROVE Framed
    BY <2>2 DEF AddressReview
  <2> QED
    BY <1>1, <2>1, <2>2 DEF Request
<1>2. ASSUME NEW r \in Runs, FindTask(r) \/ InsertTask(r) \/ InsertRefused(r) PROVE Framed
  BY <1>2 DEF Framed, bare, github, dirty, policy, End, FindTask, InsertTask, InsertRefused
<1>3. ASSUME NEW r \in Runs, CheckoutNew(r) \/ CheckoutExisting(r) \/ CheckoutBusy(r)
      PROVE  Framed
  <2>1. ClonesHeads(r) /\ Fetches(r)
    BY <1>3 DEF ClonesHeads, Fetches
  <2>2. UNCHANGED <<edited, added, pulls, remote, policy>>
    BY <1>3 DEF CheckoutNew, CheckoutExisting, CheckoutBusy, github, dirty, policy
  <2>3. CheckoutBusy(r) => UNCHANGED trees
    BY DEF CheckoutBusy
  <2> QED
    BY <1>3, <2>1, <2>2, <2>3 DEF Framed
<1>4. ASSUME NEW r \in Runs, ModelAsks(r) \/ ModelStops(r) \/ EndTurn(r) PROVE Framed
  BY <1>4 DEF Framed, bare, github, dirty, policy, ModelAsks, ModelStops, EndTurn
<1>5. ASSUME NEW r \in Runs, EditFile(r) \/ CreateFile(r) \/ RunCheck(r) PROVE Framed
  <2>1. UNCHANGED <<bare, github>>
    BY <1>5 DEF EditFile, CreateFile, RunCheck
  <2>2. Touches(r) /\ (UNCHANGED policy \/ Decides(r))
    BY <1>5 DEF Touches, Decides, RunCheck
  <2> QED
    BY <2>1, <2>2 DEF Framed, bare, github
<1>6. ASSUME NEW r \in Runs, Commit(r) PROVE Framed
  <2>1. ClonesHeads(r) /\ Touches(r)
    BY <1>6 DEF ClonesHeads, Touches
  <2> QED
    BY <1>6, <2>1 DEF Framed, Commit, github
<1>7. ASSUME NEW r \in Runs, PushConflict(r) \/ Push(r) PROVE Framed
  <2>1. Fetches(r) /\ (Push(r) => ClonesHeads(r))
    BY <1>7 DEF Fetches, ClonesHeads
  <2>2. UNCHANGED <<edited, added, trees, pulls, policy>>
    BY <1>7 DEF PushConflict, Push, dirty, github
  <2>3. PushConflict(r) => UNCHANGED <<cache, heads, upstream, registered, remote>>
    BY DEF PushConflict, github
  <2> QED
    BY <1>7, <2>1, <2>2, <2>3 DEF Framed
<1>8. ASSUME NEW r \in Runs, CheckPull(r) \/ OpenPull(r) \/ OpenPullError(r) \/ RecordPull(r)
      PROVE  Framed
  <2>1. UNCHANGED <<cache, heads, upstream, registered, edited, added, trees, remote, policy>>
    BY <1>8 DEF CheckPull, OpenPull, OpenPullError, RecordPull, bare, dirty, github
  <2>2. UNCHANGED tracking \/ Fetches(r)
    BY <1>8 DEF OpenPull, OpenPullError, RecordPull, bare, Fetches
  <2>3. UNCHANGED pulls \/ Pulls(r)
    BY <1>8 DEF CheckPull, RecordPull, github, Pulls
  <2> QED
    BY <2>1, <2>2, <2>3 DEF Framed
<1>9. ASSUME NEW r \in Runs, ReadPull(r) \/ ReadReview(r) \/ Review(r) \/ MoveIssue(r)
      PROVE  Framed
  <2>1. UNCHANGED <<bare, dirty, github>>
    BY <1>9 DEF ReadPull, ReadReview, Review, MoveIssue, Consult, Act
  <2> QED
    BY <1>9, <2>1 DEF Framed, Decides, bare, dirty, github
<1>10. ASSUME NEW r \in Runs, SignalComplete(r) \/ Leave(r) PROVE Framed
  BY <1>10 DEF Framed, bare, github, dirty, policy, SignalComplete, Leave
<1>11. ASSUME NEW r \in Runs, Cleanup(r) PROVE Framed
  BY <1>11 DEF Framed, Cleanup, Touches, github, policy
<1>12. ASSUME NEW r \in Runs, CheckoutError(r) \/ ModelError(r) \/ Crash(r) PROVE Framed
  BY <1>12 DEF Framed, CheckoutError, ModelError, Crash, bare, github, dirty, policy
<1>13. CASE World
  <2>1. ASSUME NEW m \in Manifests, PutManifest(m) PROVE Framed
    BY <2>1 DEF Framed, PutManifest, bare, github, dirty, policy
  <2>2. ASSUME NEW b \in Branches, HumanPush(b) PROVE Framed
    BY <2>2 DEF Framed, HumanPush, bare, dirty, policy
  <2>3. CASE MainMoves
    BY <2>3 DEF Framed, MainMoves, bare, dirty, policy
  <2> QED
    BY <1>13, <2>1, <2>2, <2>3 DEF World
<1>14. CASE UNCHANGED vars
  BY <1>14 DEF Framed, vars, bare, dirty, policy, github
<1> QED
  BY <1>1, <1>2, <1>3, <1>4, <1>5, <1>6, <1>7, <1>8, <1>9, <1>10, <1>11, <1>12, <1>13, <1>14
  DEF Next, Run, Tools

(* How a run moves from step to step.                                      *)
Moved(r) ==
  /\ pc'[r] \in BeforeCheckout => pc[r] \in BeforeCheckout
  /\ pc'[r] \in InTree =>
       \/ pc[r] \in InTree \/ r \notin Workspace
       \/ CheckoutNew(r) \/ CheckoutExisting(r)
  /\ pc'[r] = "opening" => pc[r] = "opening" \/ CheckPull(r)
  /\ pc'[r] = "recording" => pc[r] = "recording" \/ OpenPull(r)
  /\ r \in Fixers =>
       \/ target'[r] = target[r] /\ (pc[r] = "idle" => pc'[r] = "idle")
       \/ \E b \in Branches : AddressReview(r, b)

LEMMA Control ==
  ASSUME TypeOK, [Next]_vars
  PROVE  \A s \in Runs : Moved(s)
<1> SUFFICES ASSUME NEW s \in Runs PROVE Moved(s)
  OBVIOUS
<1>0. DOMAIN pc = Runs /\ DOMAIN target = Fixers
  BY DEF TypeOK
<1> USE DEF Moved, BeforeCheckout, InTree, Go, End
<1>1. ASSUME NEW r \in Runs, Request(r) PROVE Moved(s)
  <2>1. CASE Trigger(r) \/ TriggerInsert(r) \/ TriggerRefused(r) \/ CommandLine(r)
    BY <1>0, <2>1 DEF Trigger, TriggerInsert, TriggerRefused, CommandLine
  <2>2. ASSUME NEW b \in Branches, AddressReview(r, b) PROVE Moved(s)
    <3>1. pc' = [pc EXCEPT ![r] = "spawned"] /\ pc[r] = "idle"
          /\ target' = [target EXCEPT ![r] = b]
      BY <2>2 DEF AddressReview
    <3> QED
      BY <1>0, <2>2, <3>1
  <2> QED
    BY <1>1, <2>1, <2>2 DEF Request
<1>2. ASSUME NEW r \in Runs, FindTask(r) \/ InsertTask(r) \/ InsertRefused(r) PROVE Moved(s)
  <2>1. Started(r) = IF r \in Workspace THEN "checkout" ELSE "model"
    BY DEF Started
  <2>2. UNCHANGED target
    BY <1>2 DEF FindTask, InsertTask, InsertRefused
  <2>3. /\ pc[r] \in {"spawned", "inserting"}
        /\ \E to \in {"inserting", "checkout", "dead", "model"} :
             /\ pc' = [pc EXCEPT ![r] = to]
             /\ to = "model" => r \notin Workspace
    BY <1>2, <2>1 DEF FindTask, InsertTask, InsertRefused
  <2> QED
    BY <1>0, <2>2, <2>3
<1>3. ASSUME NEW r \in Runs, CheckoutNew(r) \/ CheckoutExisting(r) PROVE Moved(s)
  <2>1. pc' = [pc EXCEPT ![r] = "model"] /\ pc[r] = "checkout" /\ UNCHANGED target
    BY <1>3 DEF CheckoutNew, CheckoutExisting
  <2> QED
    BY <1>0, <1>3, <2>1
<1>4. ASSUME NEW r \in Runs,
             \/ CheckoutBusy(r) \/ CheckoutError(r) \/ ModelError(r) \/ Crash(r)
             \/ Cleanup(r) \/ Leave(r)
      PROVE  Moved(s)
  <2>1. /\ \E to \in {"dead", "leaving", "ended"} : pc' = [pc EXCEPT ![r] = to]
        /\ pc[r] # "idle" /\ UNCHANGED target
    BY <1>4 DEF CheckoutBusy, CheckoutError, ModelError, Crash, Cleanup, Leave, Busily
  <2> QED
    BY <1>0, <2>1
<1>5. ASSUME NEW r \in Runs, ModelAsks(r) \/ ModelStops(r) \/ EndTurn(r) PROVE Moved(s)
  <2>1. /\ \E to \in {"tools", "closing", "model"} : pc' = [pc EXCEPT ![r] = to]
        /\ pc[r] \in InTree /\ UNCHANGED target
    BY <1>5 DEF ModelAsks, ModelStops, EndTurn
  <2> QED
    BY <1>0, <2>1
<1>6. ASSUME NEW r \in Runs,
             \/ EditFile(r) \/ CreateFile(r) \/ RunCheck(r) \/ Commit(r)
             \/ PushConflict(r) \/ Push(r) \/ SignalComplete(r)
             \/ ReadPull(r) \/ ReadReview(r) \/ Review(r) \/ MoveIssue(r)
      PROVE  Moved(s)
  <2>1. Block(r, "tools")
    BY <1>6 DEF EditFile, CreateFile, RunCheck, Commit, PushConflict, Push, SignalComplete,
                ReadPull, ReadReview, Review, MoveIssue, Consult, Act
  <2> QED
    BY <1>0, <2>1 DEF Block
<1>7. ASSUME NEW r \in Runs, CheckPull(r) PROVE Moved(s)
  BY <1>0, <1>7 DEF CheckPull, Block
<1>8. ASSUME NEW r \in Runs, OpenPull(r) PROVE Moved(s)
  BY <1>0, <1>8 DEF OpenPull
<1>9. ASSUME NEW r \in Runs, OpenPullError(r) \/ RecordPull(r) PROVE Moved(s)
  BY <1>0, <1>9 DEF OpenPullError, RecordPull
<1>10. CASE World \/ UNCHANGED vars
  <2>1. UNCHANGED <<pc, target>>
    BY <1>10 DEF World, PutManifest, HumanPush, MainMoves, vars
  <2> QED
    BY <2>1
<1> QED
  BY <1>1, <1>2, <1>3, <1>4, <1>5, <1>6, <1>7, <1>8, <1>9, <1>10 DEF Next, Run, Tools

-----------------------------------------------------------------------------
(* Types.                                                                  *)

Steps == {"idle", "posting", "dead", "ended"} \cup Busily

RunsTyped ==
  /\ pc \in [Runs -> Steps]
  /\ target \in [Fixers -> Branches \cup {None}]
  /\ outcome \in [Runs -> {"none", "refused", "busy", "error", "crashed",
                           "stopped", "exhausted", "completed"}]
  /\ turn \in [Runs -> 0..MaxTurns] /\ blocks \in [Runs -> 0..MaxBlocks]
  /\ accepted \subseteq Runs

DbTyped ==
  /\ tasks \subseteq Issues /\ prUrl \subseteq Issues
  /\ manifest \in Manifests \cup {None}

PolicyTyped ==
  /\ loaded \in [Runs -> Manifests \cup {None, "unread"}]
  /\ decided \in [Runs -> SUBSET (Manifests \cup {None})]

LedgerTyped ==
  /\ unsaved \subseteq Runs /\ exposed \subseteq Runs
  /\ pushed \subseteq Runs /\ lost \subseteq Runs

BareTyped ==
  /\ cache \in {"absent", "plain", "tracking"}
  /\ heads \in RefsType /\ tracking \in RefsType
  /\ upstream \subseteq Branches
  /\ registered \subseteq Workspace /\ trees \subseteq Workspace

GithubTyped == remote \in RefsType /\ pulls \subseteq Branches

DirtyTyped == Dirty \subseteq trees

(* The type invariant, by the parts of the state.                          *)
LEMMA TypeParts ==
  TypeOK <=> /\ RunsTyped /\ DbTyped /\ PolicyTyped /\ LedgerTyped
             /\ BareTyped /\ GithubTyped /\ DirtyTyped
BY DEF TypeOK, RunsTyped, DbTyped, PolicyTyped, LedgerTyped, BareTyped, GithubTyped,
       DirtyTyped, Steps

(* The branch of a run that started is a branch, its key is an issue.      *)
LEMMA BranchKnown ==
  ASSUME RunsTyped, GithubTyped, TargetsPulled,
         NEW r \in Workspace, pc[r] # "idle"
  PROVE  BranchOf(r) \in Branches
BY DEF RunsTyped, GithubTyped, TargetsPulled, Workspace, Runs, Branches, BranchOf

LEMMA KeyKnown ==
  ASSUME RunsTyped, GithubTyped, TargetsPulled,
         NEW r \in Runs, pc[r] # "idle"
  PROVE  Key(r) \in Issues
BY DEF RunsTyped, GithubTyped, TargetsPulled, Runs, Branches, Key, Issues

LEMMA RunsStayTyped ==
  ASSUME RunsTyped, [Next]_vars
  PROVE  RunsTyped'
<1> DEFINE Outcomes == {"none", "refused", "busy", "error", "crashed",
                        "stopped", "exhausted", "completed"}
<1>0. /\ pc \in [Runs -> Steps] /\ outcome \in [Runs -> Outcomes]
      /\ target \in [Fixers -> Branches \cup {None}]
      /\ turn \in [Runs -> 0..MaxTurns] /\ blocks \in [Runs -> 0..MaxBlocks]
      /\ accepted \subseteq Runs
  BY DEF RunsTyped
<1>a. ASSUME NEW r \in Runs, NEW to \in Steps, NEW how \in Outcomes,
             pc' = [pc EXCEPT ![r] = to],
             outcome' = [outcome EXCEPT ![r] = how] \/ UNCHANGED outcome,
             UNCHANGED <<target, turn, blocks, accepted>>
      PROVE  RunsTyped'
  BY <1>0, <1>a DEF RunsTyped
<1>1. ASSUME NEW r \in Runs, Request(r) PROVE RunsTyped'
  <2> USE DEF Go, End, loop
  <2>1. CASE Trigger(r) \/ TriggerInsert(r) \/ TriggerRefused(r) \/ CommandLine(r)
    <3>1. /\ \E to \in {"spawned", "posting", "dead"} : pc' = [pc EXCEPT ![r] = to]
          /\ outcome' = [outcome EXCEPT ![r] = "refused"] \/ UNCHANGED outcome
          /\ UNCHANGED <<target, turn, blocks, accepted>>
      BY <2>1 DEF Trigger, TriggerInsert, TriggerRefused, CommandLine
    <3>2. {"spawned", "posting", "dead"} \subseteq Steps /\ "refused" \in Outcomes
      BY DEF Steps, Busily
    <3> QED
      BY <1>a, <3>1, <3>2
  <2>2. ASSUME NEW b \in Branches, AddressReview(r, b) PROVE RunsTyped'
    <3>1. /\ pc' = [pc EXCEPT ![r] = "spawned"] /\ target' = [target EXCEPT ![r] = b]
          /\ UNCHANGED <<outcome, turn, blocks, accepted>>
      BY <2>2 DEF AddressReview
    <3>2. "spawned" \in Steps
      BY DEF Steps, Busily
    <3> QED
      BY <1>0, <3>1, <3>2 DEF RunsTyped
  <2> QED
    BY <1>1, <2>1, <2>2 DEF Request
<1>2. ASSUME NEW r \in Runs,
             \/ FindTask(r) \/ InsertTask(r) \/ InsertRefused(r)
             \/ CheckoutNew(r) \/ CheckoutExisting(r) \/ CheckoutBusy(r) \/ EndTurn(r)
             \/ OpenPull(r) \/ OpenPullError(r) \/ RecordPull(r) \/ Cleanup(r) \/ Leave(r)
             \/ CheckoutError(r) \/ ModelError(r) \/ Crash(r)
      PROVE  RunsTyped'
  <2>1. /\ \E to \in {"inserting", "checkout", "model", "dead", "closing", "recording",
                      "tools", "leaving", "ended"} : pc' = [pc EXCEPT ![r] = to]
        /\ \/ UNCHANGED outcome
           \/ \E how \in {"refused", "busy", "error", "crashed", "completed", "exhausted"} :
                outcome' = [outcome EXCEPT ![r] = how]
        /\ UNCHANGED <<target, turn, blocks, accepted>>
    <3> USE DEF Go, End, loop
    <3>1. CASE FindTask(r) \/ InsertTask(r) \/ InsertRefused(r)
      BY <3>1 DEF FindTask, InsertTask, InsertRefused, Started
    <3>2. CASE CheckoutNew(r) \/ CheckoutExisting(r) \/ CheckoutBusy(r) \/ EndTurn(r)
      BY <3>2 DEF CheckoutNew, CheckoutExisting, CheckoutBusy, EndTurn
    <3>3. CASE OpenPull(r) \/ OpenPullError(r) \/ RecordPull(r) \/ Cleanup(r) \/ Leave(r)
      BY <3>3 DEF OpenPull, OpenPullError, RecordPull, Cleanup, Leave
    <3>4. CASE CheckoutError(r) \/ ModelError(r) \/ Crash(r)
      BY <3>4 DEF CheckoutError, ModelError, Crash
    <3> QED
      BY <1>2, <3>1, <3>2, <3>3, <3>4
  <2>2. /\ {"inserting", "checkout", "model", "dead", "closing", "recording",
            "tools", "leaving", "ended"} \subseteq Steps
        /\ {"refused", "busy", "error", "crashed", "completed", "exhausted"} \subseteq Outcomes
    BY DEF Steps, Busily
  <2> QED
    BY <1>a, <2>1, <2>2
<1>3. ASSUME NEW r \in Runs, ModelAsks(r) \/ ModelStops(r) PROVE RunsTyped'
  <2>1. /\ \E to \in {"tools", "closing"} : pc' = [pc EXCEPT ![r] = to]
        /\ turn[r] < MaxTurns /\ turn' = [turn EXCEPT ![r] = @ + 1]
        /\ blocks' = [blocks EXCEPT ![r] = 0] \/ UNCHANGED blocks
        /\ outcome' = [outcome EXCEPT ![r] = "stopped"] \/ UNCHANGED outcome
        /\ UNCHANGED <<target, accepted>>
    BY <1>3 DEF ModelAsks, ModelStops, NextTurn, Go
  <2>2. turn' \in [Runs -> 0..MaxTurns] /\ blocks' \in [Runs -> 0..MaxBlocks]
    BY <1>0, <2>1, DevConstants
  <2>3. {"tools", "closing"} \subseteq Steps
    BY DEF Steps, Busily
  <2>4. pc' \in [Runs -> Steps] /\ outcome' \in [Runs -> Outcomes]
    BY <1>0, <2>1, <2>3
  <2> QED
    BY <1>0, <2>1, <2>2, <2>4 DEF RunsTyped
<1>4. ASSUME NEW r \in Runs,
             \/ EditFile(r) \/ CreateFile(r) \/ RunCheck(r) \/ Commit(r)
             \/ PushConflict(r) \/ Push(r) \/ SignalComplete(r) \/ CheckPull(r)
             \/ ReadPull(r) \/ ReadReview(r) \/ Review(r) \/ MoveIssue(r)
      PROVE  RunsTyped'
  <2>1. /\ Block(r, "tools") \/ Block(r, "opening")
        /\ accepted' \in {accepted, accepted \cup {r}}
    BY <1>4 DEF EditFile, CreateFile, RunCheck, Commit, PushConflict, Push, SignalComplete,
                CheckPull, ReadPull, ReadReview, Review, MoveIssue, Consult, Act
  <2>2. /\ \E to \in {"tools", "opening"} : pc' = [pc EXCEPT ![r] = to]
        /\ blocks[r] < MaxBlocks /\ blocks' = [blocks EXCEPT ![r] = @ + 1]
        /\ UNCHANGED <<outcome, target, turn>>
    BY <2>1 DEF Block, Go
  <2>3. {"tools", "opening"} \subseteq Steps
    BY DEF Steps, Busily
  <2>4. pc' \in [Runs -> Steps] /\ blocks' \in [Runs -> 0..MaxBlocks]
    BY <1>0, <2>2, <2>3, DevConstants
  <2> QED
    BY <1>0, <2>1, <2>2, <2>4 DEF RunsTyped
<1>5. CASE World \/ UNCHANGED vars
  <2>1. UNCHANGED <<pc, target, outcome, turn, blocks, accepted>>
    BY <1>5 DEF World, PutManifest, HumanPush, MainMoves, vars, loop
  <2> QED
    BY <2>1 DEF RunsTyped
<1> QED
  BY <1>1, <1>2, <1>3, <1>4, <1>5 DEF Next, Run, Tools

LEMMA DbStaysTyped ==
  ASSUME RunsTyped, GithubTyped, TargetsPulled, DbTyped, [Next]_vars
  PROVE  DbTyped'
<1>1. ASSUME NEW r \in Runs, Request(r) PROVE DbTyped'
  <2>1. UNCHANGED db \/ TriggerInsert(r)
    BY <1>1 DEF Request, Trigger, TriggerRefused, CommandLine, AddressReview
  <2>2. CASE TriggerInsert(r)
    <3>1. Key(r) \in Issues
      BY <2>2, KeyKnown DEF TriggerInsert, Go
    <3> QED
      BY <2>2, <3>1 DEF TriggerInsert, DbTyped
  <2> QED
    BY <2>1, <2>2 DEF db, DbTyped
<1>2. ASSUME NEW r \in Runs, Run(r) \/ CheckoutError(r) \/ ModelError(r) \/ Crash(r)
      PROVE  DbTyped'
  <2>1. UNCHANGED db \/ InsertTask(r) \/ RecordPull(r)
    BY <1>2 DEF Run, Tools, FindTask, InsertRefused, CheckoutNew, CheckoutExisting, CheckoutBusy,
                ModelAsks, ModelStops, EndTurn, EditFile, CreateFile, RunCheck, Commit,
                PushConflict, Push, CheckPull, OpenPull, OpenPullError, ReadPull, ReadReview,
                Review, MoveIssue, Consult, Act, SignalComplete, Cleanup, Leave,
                CheckoutError, ModelError, Crash
  <2>2. CASE InsertTask(r)
    <3>1. Key(r) \in Issues
      BY <2>2, KeyKnown DEF InsertTask, Go
    <3> QED
      BY <2>2, <3>1 DEF InsertTask, DbTyped
  <2>3. CASE RecordPull(r)
    <3>1. Key(r) \in Issues
      BY <2>3, KeyKnown DEF RecordPull, Go
    <3> QED
      BY <2>3, <3>1 DEF RecordPull, DbTyped
  <2> QED
    BY <2>1, <2>2, <2>3 DEF db, DbTyped
<1>3. CASE World \/ UNCHANGED vars
  BY <1>3 DEF World, PutManifest, HumanPush, MainMoves, vars, db, DbTyped
<1> QED
  BY <1>1, <1>2, <1>3 DEF Next

(* A decision follows what the enforcer has read, or reads now.            *)
LEMMA DecisionStep ==
  ASSUME PolicyTyped, DbTyped, PolicyRead, [Next]_vars
  PROVE  PolicyTyped' /\ PolicyRead'
<1>0. /\ loaded \in [Runs -> Manifests \cup {None, "unread"}]
      /\ decided \in [Runs -> SUBSET (Manifests \cup {None})]
      /\ manifest \in Manifests \cup {None}
  BY DEF PolicyTyped, DbTyped
<1>1. ASSUME NEW r \in Runs, Decides(r) PROVE PolicyTyped' /\ PolicyRead'
  <2>1. Decide(r)
    BY <1>1 DEF Decides, EditFile, CreateFile, ReadPull, ReadReview, Review, MoveIssue,
                Authorize, Consult, Act
  <2>2. /\ loaded' = [loaded EXCEPT ![r] = Policy(r)]
        /\ decided' = [decided EXCEPT ![r] = @ \cup {Policy(r)}]
    BY <2>1 DEF Decide
  <2>3. Policy(r) \in Manifests \cup {None} /\ Policy(r) # "unread"
    BY <1>0, DevConstants DEF Policy
  <2>4. PolicyTyped'
    BY <1>0, <2>2, <2>3 DEF PolicyTyped
  <2>5. decided[r] \subseteq {Policy(r)}
    BY <1>0 DEF PolicyRead, Policy
  <2>6. PolicyRead'
    <3> SUFFICES ASSUME NEW s \in Runs
                 PROVE  /\ decided'[s] \subseteq {loaded'[s]}
                        /\ loaded'[s] = "unread" => decided'[s] = {}
      BY DEF PolicyRead
    <3>1. CASE s = r
      BY <1>0, <2>2, <2>3, <2>5, <3>1
    <3>2. CASE s # r
      BY <1>0, <2>2, <3>2 DEF PolicyRead
    <3> QED
      BY <3>1, <3>2
  <2> QED
    BY <2>4, <2>6
<1>2. CASE UNCHANGED policy
  BY <1>2 DEF policy, PolicyTyped, PolicyRead
<1> QED
  BY <1>1, <1>2, Frame DEF Framed

(* A rebase moves a branch to a later main and keeps its commits.          *)
LEMMA RebasedKeeps ==
  ASSUME NEW h \in BranchStates, NEW main \in BranchStates
  PROVE  /\ Rebased(h, main) \in BranchStates
         /\ Rebased(h, main).own = h.own
BY DEF BranchStates, Rebased, Commits

(* Every kind of table entry that is not None is a branch.                 *)
LEMMA EntryTyped ==
  ASSUME NEW refs \in RefsType, NEW b \in Refs, refs[b] # None
  PROVE  refs[b] \in BranchStates
BY DEF RefsType

LEMMA NoneIsNoBranch == None \notin BranchStates
BY DevConstants

(* git_push: what it does to the branch, here and on GitHub.               *)
LEMMA PushStep ==
  ASSUME RunsTyped, GithubTyped, BareTyped, TargetsPulled, TreesThere, MainMerged,
         NEW r \in Runs, Push(r)
  PROVE  \E b \in Branches, h \in BranchStates :
           /\ b = BranchOf(r) /\ r \in Workspace /\ cache = "tracking"
           /\ pc[r] = "tools"
           /\ heads[b] # None /\ h.own = heads[b].own
           /\ heads' = [heads EXCEPT ![b] = h]
           /\ \/ /\ FastForward(remote[b], h)
                 /\ remote' = [remote EXCEPT ![b] = h]
                 /\ tracking' = remote'
                 /\ upstream' = upstream \cup {b}
              \/ remote' = remote /\ tracking' = remote /\ upstream' = upstream
           /\ UNCHANGED <<cache, registered, trees>>
<1> DEFINE b == BranchOf(r)
           h == Rebased(heads[b], remote[Main])
<1>1. pc[r] = "tools" /\ Offered(r, "git_push")
  BY DEF Push, Block, Go
<1>2. r \in Workspace
  BY <1>1 DEF Offered, DeskTools, Workspace
<1>3. b \in Branches /\ b \in Refs /\ Main \in Refs
  BY <1>1, <1>2, BranchKnown DEF Refs
<1>4. heads[b] \in BranchStates /\ heads[b] # None
  BY <1>1, <1>2, <1>3, EntryTyped DEF TreesThere, InTree, BareTyped
<1>5. remote[Main] \in BranchStates
  BY <1>3, EntryTyped DEF MainMerged, GithubTyped
<1>6. h \in BranchStates /\ h.own = heads[b].own
  BY <1>4, <1>5, RebasedKeeps
<1>7. /\ cache = "tracking"
      /\ heads' = [heads EXCEPT ![b] = h]
      /\ \/ /\ FastForward(remote[b], h)
            /\ remote' = [remote EXCEPT ![b] = h]
            /\ tracking' = [remote EXCEPT ![b] = h]
            /\ upstream' = upstream \cup {b}
         \/ tracking' = remote /\ UNCHANGED <<remote, upstream>>
      /\ UNCHANGED <<cache, registered, trees>>
  BY DEF Push
<1> QED
  BY <1>1, <1>2, <1>3, <1>4, <1>6, <1>7

(* A human's push is a commit on a branch of GitHub.                       *)
LEMMA HumanPushStep ==
  ASSUME GithubTyped, NEW b \in Branches, HumanPush(b)
  PROVE  /\ remote[b] # None
         /\ remote' \in RefsType /\ remote'[b] # None
         /\ Ancestor(remote[b], remote'[b])
         /\ \A c \in Refs : c # b => remote'[c] = remote[c]
<1>1. remote[b] # None /\ remote' = [remote EXCEPT ![b].own = Append(@, Human)]
  BY DEF HumanPush
<1>2. /\ remote \in RefsType /\ b \in Refs /\ Human \in Authors
      /\ remote[b] \in BranchStates
  BY <1>1, EntryTyped DEF GithubTyped, Refs, Authors
<1> DEFINE s == Append(remote[b].own, Human)
           y == Commits(remote[b].base, s)
<1>3. y \in BranchStates /\ Ancestor(remote[b], y)
  BY <1>2, CommitAdded
<1>4. /\ remote'[b] = [remote[b] EXCEPT !.own = s]
      /\ \A c \in Refs : c # b => remote'[c] = remote[c]
  BY <1>1, <1>2 DEF RefsType
<1>5. remote'[b] = y
  <2> HIDE DEF s
  <2> QED
    BY <1>2, <1>4, OwnReplaced
<1>6. remote' \in RefsType
  <2> HIDE DEF y
  <2> QED
    BY <1>1, <1>2, <1>3, <1>4, <1>5 DEF RefsType
<1> QED
  BY <1>1, <1>3, <1>4, <1>5, <1>6, NoneIsNoBranch

(* GitHub only ever gains: main moves ahead by merges, branches grow.      *)
LEMMA RemoteStep ==
  ASSUME RunsTyped, GithubTyped, BareTyped, TargetsPulled, TreesThere, MainMerged,
         [Next]_vars
  PROVE  /\ remote' \in RefsType /\ MainMerged'
         /\ \A c \in Refs : remote[c] # None =>
              remote'[c] # None /\ Ancestor(remote[c], remote'[c])
<1> DEFINE Grown == \A c \in Refs : remote[c] # None =>
                      remote'[c] # None /\ Ancestor(remote[c], remote'[c])
<1>0. /\ remote \in RefsType /\ Main \in Refs /\ Main \notin Branches
      /\ Branches \subseteq Refs
  BY DevConstants DEF GithubTyped, Refs
<1>1. CASE UNCHANGED remote
  BY <1>0, <1>1, AncestorReflexive, EntryTyped DEF MainMerged
<1>2. CASE MainMoves
  <2>1. remote' = [remote EXCEPT ![Main].base = @ + 1]
    BY <1>2 DEF MainMoves
  <2>2. remote[Main] \in BranchStates /\ remote[Main].own = <<>>
    BY <1>0, EntryTyped DEF MainMerged
  <2>3. /\ remote'[Main] = [remote[Main] EXCEPT !.base = @ + 1]
        /\ \A c \in Refs : c # Main => remote'[c] = remote[c]
    BY <1>0, <2>1 DEF RefsType
  <2>4. /\ remote'[Main] \in BranchStates /\ remote'[Main].own = <<>>
        /\ remote'[Main].base = remote[Main].base + 1
    BY <2>2, <2>3 DEF BranchStates
  <2>5. Ancestor(remote[Main], remote'[Main])
    BY <2>2, <2>4 DEF Ancestor, BranchStates
  <2>6. remote' \in RefsType
    BY <1>0, <2>1, <2>3, <2>4 DEF RefsType
  <2>7. Grown
    BY <1>0, <2>3, <2>4, <2>5, NoneIsNoBranch, AncestorReflexive, EntryTyped
  <2> QED
    BY <2>4, <2>6, <2>7, NoneIsNoBranch DEF MainMerged
<1>3. ASSUME NEW r \in Runs, Push(r) PROVE remote' \in RefsType /\ MainMerged' /\ Grown
  <2>1. PICK b \in Branches, h \in BranchStates :
          \/ FastForward(remote[b], h) /\ remote' = [remote EXCEPT ![b] = h]
          \/ remote' = remote
    BY <1>3, PushStep
  <2>2. CASE remote' = remote
    BY <1>1, <2>2
  <2>3. CASE FastForward(remote[b], h) /\ remote' = [remote EXCEPT ![b] = h]
    <3>1. /\ remote'[b] = h /\ b # Main
          /\ \A c \in Refs : c # b => remote'[c] = remote[c]
      BY <1>0, <2>3 DEF RefsType
    <3>2. remote' \in RefsType
      BY <1>0, <2>3 DEF RefsType
    <3>3. Grown
      BY <1>0, <2>3, <3>1, NoneIsNoBranch, AncestorReflexive, EntryTyped DEF FastForward
    <3> QED
      BY <1>0, <3>1, <3>2, <3>3 DEF MainMerged
  <2> QED
    BY <2>1, <2>2, <2>3
<1>4. ASSUME NEW b \in Branches, HumanPush(b)
      PROVE  remote' \in RefsType /\ MainMerged' /\ Grown
  <2>1. /\ remote' \in RefsType /\ remote'[b] # None /\ b # Main
        /\ Ancestor(remote[b], remote'[b])
        /\ \A c \in Refs : c # b => remote'[c] = remote[c]
    BY <1>0, <1>4, HumanPushStep
  <2>2. Grown
    BY <1>0, <2>1, AncestorReflexive, EntryTyped
  <2> QED
    BY <1>0, <2>1, <2>2 DEF MainMerged
<1> QED
  BY <1>1, <1>2, <1>3, <1>4, Frame DEF Framed

(* A fetch brings what GitHub has, before the step or after it.            *)
LEMMA FetchStep ==
  ASSUME RunsTyped, GithubTyped, BareTyped, TargetsPulled, TreesThere, MainMerged,
         [Next]_vars
  PROVE  tracking' \in {tracking, remote, remote'}
<1>1. ASSUME NEW r \in Runs, CheckoutNew(r) \/ CheckoutExisting(r) \/ CheckoutBusy(r)
      PROVE  tracking' \in {tracking, remote}
  <2>1. EnsureBare
    BY <1>1 DEF CheckoutNew, CheckoutExisting, CheckoutBusy
  <2> QED
    BY <2>1 DEF EnsureBare
<1>2. ASSUME NEW r \in Runs, PushConflict(r) \/ CheckPull(r)
      PROVE  tracking' \in {tracking, remote}
  BY <1>2 DEF PushConflict, CheckPull, Fetched
<1>3. ASSUME NEW r \in Runs, Push(r) PROVE tracking' \in {remote, remote'}
  BY <1>3 DEF Push
<1> QED
  BY <1>1, <1>2, <1>3, Frame DEF Framed, Fetches

(* What was fetched stays behind GitHub, which only gains.                 *)
LEMMA TrackingStep ==
  ASSUME RunsTyped, GithubTyped, BareTyped, TargetsPulled, TreesThere, MainMerged,
         TrackingBehind, [Next]_vars
  PROVE  tracking' \in RefsType /\ TrackingBehind'
<1>1. /\ remote' \in RefsType
      /\ \A c \in Refs : remote[c] # None =>
           remote'[c] # None /\ Ancestor(remote[c], remote'[c])
  BY RemoteStep
<1>2. tracking \in RefsType /\ remote \in RefsType
  BY DEF BareTyped, GithubTyped
<1>3. tracking' \in {tracking, remote, remote'}
  BY FetchStep
<1>4. ASSUME NEW c \in Refs, tracking'[c] # None
      PROVE  remote'[c] # None /\ Ancestor(tracking'[c], remote'[c])
  <2>1. CASE tracking' = remote'
    BY <1>1, <1>4, <2>1, AncestorReflexive, EntryTyped
  <2>2. CASE tracking' = remote
    BY <1>1, <1>4, <2>2
  <2>3. CASE tracking' = tracking
    <3>1. remote[c] # None /\ Ancestor(tracking[c], remote[c])
      BY <1>4, <2>3 DEF TrackingBehind
    <3>2. remote'[c] # None /\ Ancestor(remote[c], remote'[c])
      BY <1>1, <3>1
    <3>3. tracking[c] \in BranchStates /\ remote[c] \in BranchStates /\ remote'[c] \in BranchStates
      BY <1>1, <1>2, <1>4, <2>3, <3>1, <3>2, EntryTyped
    <3> QED
      BY <2>3, <3>1, <3>2, <3>3, AncestorTransitive
  <2> QED
    BY <1>3, <2>1, <2>2, <2>3
<1> QED
  BY <1>1, <1>2, <1>3, <1>4 DEF TrackingBehind

(* The commits of one state of a branch are the first of another's.        *)
Extends(x, y) == Len(x.own) <= Len(y.own) /\ SubSeq(y.own, 1, Len(x.own)) = x.own

LEMMA SameCommits ==
  ASSUME NEW x \in BranchStates, NEW y \in BranchStates, y.own = x.own
  PROVE  Extends(x, y)
<1>1. x.own \in Seq(Authors)
  BY DEF BranchStates, Authors
<1>2. SubSeq(x.own, 1, Len(x.own)) = x.own /\ Len(x.own) \in Nat
  BY <1>1, SubSeqFull, LenProperties
<1> QED
  BY <1>2 DEF Extends

LEMMA OneMoreCommit ==
  ASSUME NEW x \in BranchStates, NEW a \in Authors
  PROVE  Extends(x, Commits(x.base, Append(x.own, a)))
<1>1. x.own \in Seq(Authors)
  BY DEF BranchStates, Authors
<1>2. /\ Len(Append(x.own, a)) = Len(x.own) + 1 /\ Len(x.own) \in Nat
      /\ SubSeq(Append(x.own, a), 1, Len(x.own)) = x.own
  BY <1>1, PrefixOfAppend, LenProperties
<1>3. Commits(x.base, Append(x.own, a)).own = Append(x.own, a)
  BY CommitAdded
<1> QED
  BY <1>2, <1>3 DEF Extends

(* git_commit: one more commit of the run on the branch of its worktree.   *)
LEMMA CommitStep ==
  ASSUME RunsTyped, GithubTyped, BareTyped, TargetsPulled, TreesThere,
         NEW r \in Runs, Commit(r)
  PROVE  \E b \in Branches, y \in BranchStates :
           /\ b = BranchOf(r) /\ r \in Workspace /\ pc[r] = "tools"
           /\ heads[b] # None /\ heads'[b] = y
           /\ Extends(heads[b], y)
           /\ heads' \in RefsType
           /\ \A c \in Refs : c # b => heads'[c] = heads[c]
           /\ UNCHANGED <<cache, upstream, registered, trees>>
<1> DEFINE b == BranchOf(r)
           s == Append(heads[b].own, r)
           y == Commits(heads[b].base, s)
<1>1. /\ pc[r] = "tools" /\ Offered(r, "git_commit")
      /\ heads' = [heads EXCEPT ![b].own = s]
      /\ UNCHANGED <<cache, upstream, registered, trees>>
  BY DEF Commit, Block, Go
<1>2. r \in Workspace
  BY <1>1 DEF Offered, DeskTools, Workspace
<1>3. b \in Branches /\ b \in Refs /\ heads \in RefsType /\ r \in Authors
  BY <1>1, <1>2, BranchKnown DEF Refs, BareTyped, Authors
<1>4. heads[b] \in BranchStates /\ heads[b] # None
  BY <1>1, <1>2, <1>3, EntryTyped DEF TreesThere, InTree
<1>5. y \in BranchStates /\ Extends(heads[b], y)
  BY <1>3, <1>4, CommitAdded, OneMoreCommit
<1>6. /\ heads'[b] = [heads[b] EXCEPT !.own = s]
      /\ \A c \in Refs : c # b => heads'[c] = heads[c]
  <2> HIDE DEF s
  <2> QED
    BY <1>1, <1>3 DEF RefsType
<1>7. heads'[b] = y
  <2> HIDE DEF s
  <2> QED
    BY <1>4, <1>6, OwnReplaced
<1>8. heads' \in RefsType
  <2> HIDE DEF y, s
  <2> QED
    BY <1>1, <1>3, <1>5, <1>6, <1>7 DEF RefsType
<1> QED
  BY <1>1, <1>2, <1>3, <1>4, <1>5, <1>6, <1>7, <1>8

(* A clone or a fetch leaves the local branches as they were, or fills a   *)
(* new clone with what GitHub has, main among them.                        *)
LEMMA CloneStep ==
  ASSUME GithubTyped, BareTyped, NothingCloned, MainMerged, EnsureBare
  PROVE  /\ Cloned \in RefsType /\ Cloned[Main] # None
         /\ \A c \in Refs : heads[c] # None => Cloned[c] = heads[c]
         /\ \A c \in Refs : Cloned[c] \in {heads[c], remote[c]}
         /\ cache' \in {"plain", "tracking"}
BY DEF GithubTyped, BareTyped, NothingCloned, MainMerged, EnsureBare, Cloned, Refs

(* A checkout.                                                             *)
LEMMA CheckoutStep ==
  ASSUME RunsTyped, GithubTyped, BareTyped, TargetsPulled, NothingCloned, MainMerged,
         BranchesFresh,
         NEW r \in Runs, CheckoutNew(r) \/ CheckoutExisting(r)
  PROVE  \E b \in Branches :
           /\ b = BranchOf(r) /\ r \in Workspace /\ pc[r] = "checkout"
           /\ heads' \in RefsType /\ heads'[b] # None /\ heads'[Main] # None
           /\ \A c \in Refs : heads[c] # None => heads'[c] = heads[c]
           /\ \A c \in Refs : c # b => heads'[c] \in {heads[c], remote[c]}
           /\ cache' \in {"plain", "tracking"}
           /\ registered' = Pruned \cup {r} /\ trees' = trees \cup {r}
           /\ upstream' \in {upstream, upstream \cup {b}}
<1> DEFINE b == BranchOf(r)
<1>1. /\ pc[r] = "checkout" /\ r \in Workspace /\ EnsureBare
      /\ registered' = Pruned \cup {r} /\ trees' = trees \cup {r}
      /\ upstream' \in {upstream, upstream \cup {b}}
  BY DEF CheckoutNew, CheckoutExisting, Go, AddTree, Workspace, BranchOf
<1>2. b \in Branches /\ b \in Refs /\ Main \in Refs /\ b # Main
  BY <1>1, BranchKnown, DevConstants DEF Refs
<1>3. /\ Cloned \in RefsType /\ Cloned[Main] # None
      /\ \A c \in Refs : heads[c] # None => Cloned[c] = heads[c]
      /\ \A c \in Refs : Cloned[c] \in {heads[c], remote[c]}
      /\ cache' \in {"plain", "tracking"}
  BY <1>1, CloneStep
<1>4. \E x \in BranchStates :
        /\ heads' = [Cloned EXCEPT ![b] = x]
        /\ heads[b] # None => x = heads[b]
  <2>1. CASE CheckoutNew(r)
    <3>1. heads' = [Cloned EXCEPT ![r] = Cloned[Main]] /\ r \in Devs
      BY <2>1 DEF CheckoutNew
    <3>2. b = r
      BY <3>1, DevConstants DEF BranchOf
    <3>3. Cloned[Main] \in BranchStates
      BY <1>2, <1>3, EntryTyped
    <3>4. heads[b] = None
      BY <1>1, <3>1, <3>2 DEF BranchesFresh, BeforeCheckout
    <3> QED
      BY <3>1, <3>2, <3>3, <3>4
  <2>2. CASE CheckoutExisting(r)
    <3>1. heads' = [Cloned EXCEPT ![target[r]] = LocalHead(Cloned, target[r])] /\ r \in Fixers
      BY <2>2 DEF CheckoutExisting
    <3>2. b = target[r] /\ b \in pulls
      BY <1>1, <3>1 DEF BranchOf, TargetsPulled
    <3>3. remote[b] \in BranchStates
      BY <1>2, <3>2, EntryTyped DEF TargetsPulled, GithubTyped
    <3>4. LocalHead(Cloned, b) \in BranchStates
      BY <1>2, <1>3, <3>3, EntryTyped DEF LocalHead
    <3>5. heads[b] # None => LocalHead(Cloned, b) = heads[b]
      BY <1>2, <1>3 DEF LocalHead
    <3> QED
      BY <3>1, <3>2, <3>4, <3>5
  <2> QED
    BY <2>1, <2>2
<1>5. PICK x \in BranchStates : /\ heads' = [Cloned EXCEPT ![b] = x]
                                /\ heads[b] # None => x = heads[b]
  BY <1>4
<1>6. /\ heads'[b] = x /\ x # None
      /\ \A c \in Refs : c # b => heads'[c] = Cloned[c]
  BY <1>2, <1>3, <1>5, NoneIsNoBranch DEF RefsType
<1>7. heads' \in RefsType
  BY <1>2, <1>3, <1>5 DEF RefsType
<1>8. \A c \in Refs : heads[c] # None => heads'[c] = heads[c]
  BY <1>3, <1>5, <1>6
<1> QED
  BY <1>1, <1>2, <1>3, <1>6, <1>7, <1>8

(* A refused checkout: the clone is made or fetched, nothing else.         *)
LEMMA BusyStep ==
  ASSUME GithubTyped, BareTyped, NothingCloned, MainMerged,
         NEW r \in Runs, CheckoutBusy(r)
  PROVE  /\ heads' \in RefsType /\ heads'[Main] # None
         /\ \A c \in Refs : heads[c] # None => heads'[c] = heads[c]
         /\ \A c \in Refs : heads'[c] \in {heads[c], remote[c]}
         /\ cache' \in {"plain", "tracking"}
         /\ registered' = Pruned /\ UNCHANGED <<trees, upstream>>
<1>1. EnsureBare /\ heads' = Cloned /\ registered' = Pruned /\ UNCHANGED <<trees, upstream>>
  BY DEF CheckoutBusy
<1> QED
  BY <1>1, CloneStep

(* The clone keeps its branches and their commits.                         *)
LEMMA HeadsStep ==
  ASSUME RunsTyped, GithubTyped, BareTyped, TargetsPulled, TreesThere, NothingCloned,
         MainMerged, BranchesFresh, [Next]_vars
  PROVE  /\ heads' \in RefsType /\ cache' \in {"absent", "plain", "tracking"}
         /\ upstream' \subseteq Branches /\ registered' \subseteq Workspace
         /\ NothingCloned'
         /\ \A c \in Refs : heads[c] # None =>
              heads'[c] # None /\ Extends(heads[c], heads'[c])
<1> DEFINE G == /\ heads' \in RefsType /\ cache' \in {"absent", "plain", "tracking"}
                /\ upstream' \subseteq Branches /\ registered' \subseteq Workspace
                /\ NothingCloned'
                /\ \A c \in Refs : heads[c] # None =>
                     heads'[c] # None /\ Extends(heads[c], heads'[c])
<1>0. /\ heads \in RefsType /\ cache \in {"absent", "plain", "tracking"}
      /\ upstream \subseteq Branches /\ registered \subseteq Workspace
      /\ Main \in Refs /\ Main \notin Branches
  BY DevConstants DEF BareTyped, Refs
<1>a. \A c \in Refs : heads[c] # None => Extends(heads[c], heads[c])
  BY <1>0, EntryTyped, SameCommits
<1>1. ASSUME NEW r \in Runs, CheckoutNew(r) \/ CheckoutExisting(r) PROVE G
  <2>1. PICK b \in Branches :
           /\ r \in Workspace
           /\ heads' \in RefsType /\ heads'[Main] # None
           /\ \A c \in Refs : heads[c] # None => heads'[c] = heads[c]
           /\ cache' \in {"plain", "tracking"}
           /\ registered' = Pruned \cup {r}
           /\ upstream' \in {upstream, upstream \cup {b}}
    BY <1>1, CheckoutStep
  <2> QED
    BY <1>0, <1>a, <2>1 DEF Pruned, NothingCloned
<1>2. ASSUME NEW r \in Runs, CheckoutBusy(r) PROVE G
  BY <1>0, <1>a, <1>2, BusyStep DEF Pruned, NothingCloned
<1>3. ASSUME NEW r \in Runs, Commit(r) PROVE G
  <2>1. PICK b \in Branches, y \in BranchStates :
           /\ heads[b] # None /\ heads'[b] = y
           /\ Extends(heads[b], y)
           /\ heads' \in RefsType
           /\ \A c \in Refs : c # b => heads'[c] = heads[c]
           /\ UNCHANGED <<cache, upstream, registered, trees>>
    BY <1>3, CommitStep
  <2>2. b \in Refs /\ heads'[b] # None
    BY <2>1, NoneIsNoBranch DEF Refs
  <2>3. \A c \in Refs : heads[c] # None =>
          heads'[c] # None /\ Extends(heads[c], heads'[c])
    BY <1>a, <2>1, <2>2
  <2>4. NothingCloned'
    BY <1>0, <2>1, <2>2 DEF NothingCloned
  <2> QED
    BY <1>0, <2>1, <2>3, <2>4
<1>4. ASSUME NEW r \in Runs, Push(r) PROVE G
  <2>1. PICK b \in Branches, h \in BranchStates :
           /\ cache = "tracking"
           /\ heads[b] # None /\ h.own = heads[b].own
           /\ heads' = [heads EXCEPT ![b] = h]
           /\ upstream' \in {upstream, upstream \cup {b}}
           /\ UNCHANGED <<cache, registered, trees>>
    BY <1>4, PushStep
  <2>2. b \in Refs /\ b # Main
    BY <1>0, <2>1 DEF Refs
  <2>3. heads'[b] = h /\ \A c \in Refs : c # b => heads'[c] = heads[c]
    BY <1>0, <2>1, <2>2 DEF RefsType
  <2>4. heads' \in RefsType
    BY <1>0, <2>1 DEF RefsType
  <2>5. Extends(heads[b], h)
    BY <1>0, <2>1, <2>2, EntryTyped, SameCommits
  <2>6. \A c \in Refs : heads[c] # None =>
          heads'[c] # None /\ Extends(heads[c], heads'[c])
    BY <1>a, <2>1, <2>3, <2>5, NoneIsNoBranch
  <2>7. NothingCloned'
    BY <1>0, <2>1, <2>2, <2>3 DEF NothingCloned
  <2> QED
    BY <1>0, <2>1, <2>4, <2>6, <2>7
<1>5. CASE UNCHANGED <<cache, heads, upstream, registered>>
  BY <1>0, <1>a, <1>5 DEF NothingCloned
<1> QED
  BY <1>1, <1>2, <1>3, <1>4, <1>5, Frame DEF Framed, ClonesHeads

-----------------------------------------------------------------------------
(* What the steps rely on.                                                 *)

(* A run that started stays on its branch.                                 *)
LEMMA BranchFixed ==
  ASSUME TypeOK, [Next]_vars, NEW r \in Workspace, pc[r] # "idle"
  PROVE  BranchOf(r)' = BranchOf(r)
<1>1. CASE r \in Fixers
  <2>1. Moved(r)
    BY Control DEF Workspace, Runs
  <2>2. \A b \in Branches : ~AddressReview(r, b)
    BY DEF AddressReview, Go
  <2> QED
    BY <1>1, <2>1, <2>2 DEF Moved, BranchOf
<1>2. CASE r \notin Fixers
  BY <1>2 DEF BranchOf
<1> QED
  BY <1>1, <1>2

(* Two runs share a branch only when a fixer works on a pull request.      *)
LEMMA BranchesApart ==
  ASSUME TargetsPulled, NEW r \in Workspace, pc[r] # "idle",
         NEW d \in Devs, d # r, d \notin pulls
  PROVE  BranchOf(r) # d
BY DEF TargetsPulled, BranchOf, Workspace

(* The runs that open a pull request are those of Devs.                    *)
LEMMA PullsStep ==
  ASSUME GithubTyped, OpensSettled, [Next]_vars
  PROVE  /\ pulls \subseteq pulls' /\ pulls' \subseteq Branches
         /\ \A b \in pulls' \ pulls :
              b \in Devs /\ pc[b] = "opening" /\ remote[b] # None
<1>1. ASSUME NEW r \in Runs, Pulls(r)
      PROVE  /\ pulls \subseteq pulls' /\ pulls' \subseteq Branches
             /\ \A b \in pulls' \ pulls :
                  b \in Devs /\ pc[b] = "opening" /\ remote[b] # None
  <2>1. pc[r] = "opening" /\ pulls' \in {pulls, pulls \cup {BranchOf(r)}}
    BY <1>1 DEF Pulls, OpenPull, OpenPullError, Go
  <2>2. r \in Devs /\ remote[r] # None
    BY <2>1 DEF OpensSettled
  <2>3. BranchOf(r) = r
    BY <2>2, DevConstants DEF BranchOf
  <2> QED
    BY <2>1, <2>2, <2>3 DEF GithubTyped, Branches
<1>2. CASE UNCHANGED pulls
  BY <1>2 DEF GithubTyped
<1> QED
  BY <1>1, <1>2, Frame DEF Framed

LEMMA TargetsStep ==
  ASSUME TypeOK, TargetsPulled, TreesThere, MainMerged, OpensSettled, [Next]_vars
  PROVE  TargetsPulled'
<1>0. RunsTyped /\ GithubTyped /\ BareTyped
  BY TypeParts
<1>1. /\ pulls \subseteq pulls' /\ pulls' \subseteq Branches
      /\ \A b \in pulls' \ pulls : remote[b] # None
  BY <1>0, PullsStep
<1>2. \A c \in Refs : remote[c] # None => remote'[c] # None
  BY <1>0, RemoteStep
<1>3. \A b \in pulls' : remote'[b] # None
  BY <1>1, <1>2 DEF TargetsPulled, Refs
<1>4. ASSUME NEW r \in Fixers
      PROVE  /\ pc'[r] # "idle" => target'[r] # None
             /\ target'[r] # None => target'[r] \in pulls'
  <2>1. CASE target'[r] = target[r] /\ (pc[r] = "idle" => pc'[r] = "idle")
    BY <1>1, <2>1 DEF TargetsPulled
  <2>2. ASSUME NEW b \in Branches, AddressReview(r, b)
        PROVE  target'[r] # None /\ target'[r] \in pulls'
    <3>1. b \in pulls /\ target' = [target EXCEPT ![r] = b]
      BY <2>2 DEF AddressReview
    <3>2. target'[r] = b
      BY <1>0, <3>1 DEF RunsTyped
    <3> QED
      BY <1>1, <3>1, <3>2, DevConstants
  <2>3. Moved(r)
    BY Control DEF Runs
  <2> QED
    BY <2>1, <2>2, <2>3 DEF Moved
<1> QED
  BY <1>3, <1>4 DEF TargetsPulled

LEMMA FreshStep ==
  ASSUME TypeOK, TargetsPulled, TreesThere, MainMerged, OpensSettled, NothingCloned,
         BranchesFresh, [Next]_vars
  PROVE  BranchesFresh'
<1>0. RunsTyped /\ GithubTyped /\ BareTyped
  BY TypeParts
<1> SUFFICES ASSUME NEW d \in Devs, pc'[d] \in BeforeCheckout
             PROVE  heads'[d] = None /\ remote'[d] = None /\ d \notin pulls'
  BY DEF BranchesFresh
<1>1. pc[d] \in BeforeCheckout /\ d \in Runs /\ d \in Workspace /\ d \in Refs
  BY Control DEF Moved, Runs, Workspace, Refs, Branches
<1>2. heads[d] = None /\ remote[d] = None /\ d \notin pulls
  BY <1>1 DEF BranchesFresh
<1>3. d \notin pulls'
  BY <1>0, <1>1, <1>2, PullsStep DEF BeforeCheckout
<1>4. ASSUME NEW r \in Runs, CheckoutNew(r) \/ CheckoutExisting(r) PROVE heads'[d] = None
  <2>1. PICK b \in Branches :
           /\ b = BranchOf(r) /\ r \in Workspace /\ pc[r] = "checkout"
           /\ \A c \in Refs : c # b => heads'[c] \in {heads[c], remote[c]}
    BY <1>0, <1>4, CheckoutStep
  <2>2. pc'[r] = "model"
    BY <1>0, <1>4 DEF CheckoutNew, CheckoutExisting, Go, RunsTyped
  <2>3. r # d
    BY <2>2 DEF BeforeCheckout
  <2>4. b # d
    BY <1>2, <2>1, <2>3, BranchesApart
  <2> QED
    BY <1>1, <1>2, <2>1, <2>4
<1>5. ASSUME NEW r \in Runs, CheckoutBusy(r) PROVE heads'[d] = None
  BY <1>0, <1>1, <1>2, <1>5, BusyStep
<1>6. ASSUME NEW r \in Runs, Commit(r) PROVE heads'[d] = None
  <2>1. PICK b \in Branches, y \in BranchStates :
           /\ b = BranchOf(r) /\ r \in Workspace /\ pc[r] = "tools"
           /\ \A c \in Refs : c # b => heads'[c] = heads[c]
    BY <1>0, <1>6, CommitStep
  <2>2. b # d
    BY <1>1, <1>2, <2>1, BranchesApart DEF BeforeCheckout
  <2> QED
    BY <1>1, <1>2, <2>1, <2>2
<1>7. ASSUME NEW r \in Runs, Push(r) PROVE heads'[d] = None /\ remote'[d] = None
  <2>1. PICK b \in Branches, h \in BranchStates :
           /\ b = BranchOf(r) /\ r \in Workspace /\ pc[r] = "tools"
           /\ heads' = [heads EXCEPT ![b] = h]
           /\ remote' = [remote EXCEPT ![b] = h] \/ remote' = remote
    BY <1>0, <1>7, PushStep
  <2>2. b # d
    BY <1>1, <1>2, <2>1, BranchesApart DEF BeforeCheckout
  <2> QED
    BY <1>0, <1>1, <1>2, <2>1, <2>2 DEF BareTyped, GithubTyped, RefsType
<1>8. heads'[d] = None
  BY <1>2, <1>4, <1>5, <1>6, <1>7, Frame DEF Framed, ClonesHeads
<1>9. ASSUME NEW b \in Branches, HumanPush(b) PROVE remote'[d] = None
  BY <1>0, <1>1, <1>2, <1>9, HumanPushStep
<1>10. ASSUME MainMoves PROVE remote'[d] = None
  <2>1. remote' = [remote EXCEPT ![Main].base = @ + 1] /\ d # Main
    BY <1>10, DevConstants DEF MainMoves, Branches
  <2> QED
    BY <1>0, <1>1, <1>2, <2>1 DEF GithubTyped, RefsType
<1>11. remote'[d] = None
  BY <1>2, <1>7, <1>9, <1>10, Frame DEF Framed
<1> QED
  BY <1>3, <1>8, <1>11

LEMMA TreesStep ==
  ASSUME TypeOK, TargetsPulled, TreesThere, MainMerged, NothingCloned, BranchesFresh,
         [Next]_vars
  PROVE  TreesThere' /\ trees' \subseteq Workspace
<1>0. RunsTyped /\ GithubTyped /\ BareTyped
  BY TypeParts
<1>1. /\ trees' \subseteq Workspace
      /\ \A r \in Workspace :
           pc'[r] \in InTree /\ r \in trees => r \in trees'
  <2>1. ASSUME NEW s \in Runs, CheckoutNew(s) \/ CheckoutExisting(s)
        PROVE  trees' = trees \cup {s} /\ s \in Workspace
    BY <2>1 DEF CheckoutNew, CheckoutExisting, AddTree, Workspace
  <2>2. ASSUME NEW s \in Runs, Cleanup(s)
        PROVE  trees' = trees \ {s} /\ pc'[s] \notin InTree
    BY <1>0, <2>2 DEF Cleanup, Go, RunsTyped, InTree
  <2> QED
    BY <1>0, <2>1, <2>2, Frame DEF Framed, BareTyped
<1>2. ASSUME NEW r \in Workspace, pc'[r] \in InTree
      PROVE  r \in trees' /\ heads'[BranchOf(r)'] # None
  <2>1. \/ pc[r] \in InTree \/ CheckoutNew(r) \/ CheckoutExisting(r)
    BY <1>2, Control DEF Moved, Workspace, Runs
  <2>2. CASE CheckoutNew(r) \/ CheckoutExisting(r)
    <3>1. PICK b \in Branches :
             /\ b = BranchOf(r) /\ pc[r] = "checkout"
             /\ heads'[b] # None /\ trees' = trees \cup {r}
      BY <1>0, <2>2, CheckoutStep DEF Workspace, Runs
    <3> QED
      BY <3>1, BranchFixed
  <2>3. CASE pc[r] \in InTree
    <3>1. r \in trees /\ heads[BranchOf(r)] # None /\ pc[r] # "idle"
      BY <2>3 DEF TreesThere, InTree
    <3>2. BranchOf(r) \in Refs
      BY <1>0, <3>1, BranchKnown DEF Refs
    <3>3. heads'[BranchOf(r)] # None
      BY <1>0, <3>1, <3>2, HeadsStep
    <3> QED
      BY <1>1, <1>2, <3>1, <3>3, BranchFixed
  <2> QED
    BY <2>1, <2>2, <2>3
<1> QED
  BY <1>1, <1>2 DEF TreesThere

(* Only tools change a worktree, and cleanup removes it with its changes.  *)
LEMMA DirtyStep ==
  ASSUME TypeOK, TreesThere, [Next]_vars
  PROVE  DirtyTyped'
<1>0. edited \subseteq trees /\ added \subseteq trees
  BY DEF TypeOK, Dirty
<1>1. ASSUME NEW r \in Runs, EditFile(r) \/ CreateFile(r) \/ RunCheck(r)
      PROVE  edited' \subseteq trees' /\ added' \subseteq trees'
  <2>1. /\ pc[r] = "tools" /\ trees' = trees
        /\ edited' \in {edited, edited \cup {r}} /\ added' \in {added, added \cup {r}}
    BY <1>1 DEF EditFile, CreateFile, RunCheck, Block, Go, bare, Touched
  <2>2. r \in Workspace
    BY <1>1 DEF EditFile, CreateFile, RunCheck, Offered, DeskTools, Workspace
  <2>3. r \in trees
    BY <2>1, <2>2 DEF TreesThere, InTree
  <2> QED
    BY <1>0, <2>1, <2>3
<1>2. ASSUME NEW r \in Runs, Commit(r) \/ Cleanup(r)
      PROVE  edited' \subseteq trees' /\ added' \subseteq trees'
  BY <1>0, <1>2 DEF Commit, Cleanup
<1>3. CASE UNCHANGED <<edited, added>>
  <2>1. ASSUME NEW s \in Runs, CheckoutNew(s) \/ CheckoutExisting(s) PROVE trees \subseteq trees'
    BY <2>1 DEF CheckoutNew, CheckoutExisting, AddTree
  <2>2. trees \subseteq trees' \/ \E s \in Runs : Cleanup(s)
    BY <2>1, Frame DEF Framed
  <2>3. CASE trees \subseteq trees'
    BY <1>0, <1>3, <2>3 DEF DirtyTyped, Dirty
  <2> QED
    BY <1>2, <2>2, <2>3 DEF DirtyTyped, Dirty
<1> QED
  BY <1>1, <1>2, <1>3, Frame DEF Framed, Touches, DirtyTyped, Dirty

(* The end of a run is final: a process that is dead or was refused does   *)
(* nothing more.                                                           *)
OwnStep(r) ==
  /\ pc[r] # "dead"
  /\ \A s \in Runs \ {r} : pc'[s] = pc[s] /\ outcome'[s] = outcome[s]

LEMMA OwnSteps ==
  ASSUME TypeOK, NEW r \in Runs
  PROVE  Request(r) \/ Run(r) \/ CheckoutError(r) \/ ModelError(r) \/ Crash(r) => OwnStep(r)
<1>0. DOMAIN pc = Runs /\ DOMAIN outcome = Runs
  BY DEF TypeOK
<1>a. ASSUME NEW from, NEW to, from # "dead", Go(r, from, to), UNCHANGED outcome
      PROVE  OwnStep(r)
  BY <1>0, <1>a DEF Go, OwnStep
<1>b. ASSUME NEW from, NEW how, from # "dead", End(r, from, how) PROVE OwnStep(r)
  BY <1>0, <1>b DEF Go, End, OwnStep
<1>c. ASSUME NEW to, Block(r, to) PROVE OwnStep(r)
  BY <1>a, <1>c DEF Block
<1>1. ASSUME Request(r) PROVE OwnStep(r)
  <2>1. CASE Trigger(r)
    BY <1>a, <2>1 DEF Trigger
  <2>2. CASE CommandLine(r) \/ TriggerInsert(r)
    BY <1>a, <2>2 DEF CommandLine, TriggerInsert
  <2>3. CASE TriggerRefused(r)
    BY <1>b, <2>3 DEF TriggerRefused
  <2>4. CASE \E b \in Branches : AddressReview(r, b)
    BY <1>a, <2>4 DEF AddressReview
  <2> QED
    BY <1>1, <2>1, <2>2, <2>3, <2>4 DEF Request
<1>2. ASSUME FindTask(r) \/ InsertTask(r) PROVE OwnStep(r)
  BY <1>a, <1>2 DEF FindTask, InsertTask
<1>3. ASSUME CheckoutNew(r) \/ CheckoutExisting(r) PROVE OwnStep(r)
  BY <1>a, <1>3 DEF CheckoutNew, CheckoutExisting
<1>4. ASSUME \/ InsertRefused(r) \/ CheckoutBusy(r)
             \/ CheckoutError(r) \/ ModelError(r) \/ Crash(r)
      PROVE  OwnStep(r)
  BY <1>b, <1>4 DEF InsertRefused, CheckoutBusy, CheckoutError, ModelError, Crash, Busily
<1>5. ASSUME ModelAsks(r) \/ Cleanup(r) \/ Leave(r) PROVE OwnStep(r)
  BY <1>a, <1>5 DEF ModelAsks, Cleanup, Leave
<1>6. ASSUME ModelStops(r) \/ EndTurn(r) PROVE OwnStep(r)
  BY <1>0, <1>6 DEF ModelStops, EndTurn, Go, OwnStep
<1>7. ASSUME Tools(r) PROVE OwnStep(r)
  <2>1. ASSUME \/ EditFile(r) \/ CreateFile(r) \/ RunCheck(r) \/ Commit(r) \/ PushConflict(r)
               \/ SignalComplete(r)
        PROVE  OwnStep(r)
    BY <1>c, <2>1 DEF EditFile, CreateFile, RunCheck, Commit, PushConflict, SignalComplete
  <2>2. ASSUME Push(r) \/ CheckPull(r) PROVE OwnStep(r)
    BY <1>c, <2>2 DEF Push, CheckPull
  <2>3. ASSUME ReadPull(r) \/ ReadReview(r) \/ Review(r) \/ MoveIssue(r) PROVE OwnStep(r)
    BY <1>c, <2>3 DEF ReadPull, ReadReview, Consult, Review, MoveIssue, Act
  <2>4. ASSUME OpenPull(r) \/ OpenPullError(r) \/ RecordPull(r) PROVE OwnStep(r)
    BY <1>a, <2>4 DEF OpenPull, OpenPullError, RecordPull
  <2> QED
    BY <1>7, <2>1, <2>2, <2>3, <2>4 DEF Tools
<1> QED
  BY <1>1, <1>2, <1>3, <1>4, <1>5, <1>6, <1>7 DEF Run

LEMMA DeadStays ==
  ASSUME TypeOK, [Next]_vars, NEW s \in Runs, pc[s] = "dead"
  PROVE  pc'[s] = "dead" /\ outcome'[s] = outcome[s]
<1>1. CASE World \/ UNCHANGED vars
  BY <1>1 DEF World, PutManifest, HumanPush, MainMoves, vars
<1>2. ASSUME NEW r \in Runs, OwnStep(r) PROVE pc'[s] = "dead" /\ outcome'[s] = outcome[s]
  BY <1>2 DEF OwnStep
<1> QED
  BY <1>1, <1>2, OwnSteps DEF Next

(* What is flushed and not committed is a model call or a decision.        *)
LedgerMoved ==
  /\ unsaved' \subseteq Runs /\ exposed' = {}
  /\ pushed' \subseteq unsaved' /\ lost' \subseteq Runs
  /\ \A r \in lost' : r \in lost \/ (pc'[r] = "dead" /\ outcome'[r] \in {"crashed", "error"})
  /\ \A r \in unsaved' \ unsaved : pc'[r] # "opening"
  /\ \A r \in Runs : CheckPull(r) => r \notin unsaved'

LEMMA LedgerStep ==
  ASSUME TypeOK, OpensSettled, EffectsAudited, [Next]_vars
  PROVE  LedgerMoved
<1>0. /\ unsaved \subseteq Runs /\ lost \subseteq Runs /\ exposed = {} /\ pushed \subseteq unsaved
      /\ DOMAIN pc = Runs /\ DOMAIN outcome = Runs
  BY DEF TypeOK, EffectsAudited
<1>a. ASSUME NEW r \in Runs, CheckPull(r) PROVE r \notin unsaved'
  BY <1>a DEF CheckPull, SettleBeforeCall, Settle
<1>b. ASSUME unsaved' \subseteq unsaved, exposed' = {}, pushed' \subseteq unsaved', lost' = lost
      PROVE  LedgerMoved
  BY <1>0, <1>a, <1>b DEF LedgerMoved
<1>c. ASSUME NEW r \in Runs, unsaved' = unsaved \cup {r}, exposed' = {},
             UNCHANGED record, NEW to, pc' = [pc EXCEPT ![r] = to], to # "opening"
      PROVE  LedgerMoved
  BY <1>0, <1>a, <1>c DEF LedgerMoved, record
<1>1. ASSUME NEW r \in Runs, Request(r) PROVE LedgerMoved
  <2>1. UNCHANGED ledger
    BY <1>1 DEF Request, Trigger, TriggerInsert, TriggerRefused, CommandLine, AddressReview
  <2> QED
    BY <1>0, <1>b, <2>1 DEF ledger, record
<1>2. ASSUME NEW r \in Runs,
             \/ FindTask(r) \/ InsertTask(r) \/ InsertRefused(r)
             \/ CheckoutNew(r) \/ CheckoutExisting(r) \/ CheckoutBusy(r) \/ EndTurn(r)
             \/ RunCheck(r) \/ Commit(r) \/ PushConflict(r)
             \/ SignalComplete(r) \/ Cleanup(r) \/ CheckoutError(r)
      PROVE  LedgerMoved
  <2>1. UNCHANGED ledger
    BY <1>2 DEF FindTask, InsertTask, InsertRefused, CheckoutNew, CheckoutExisting,
                CheckoutBusy, EndTurn, RunCheck, Commit, PushConflict,
                SignalComplete, Cleanup, CheckoutError
  <2> QED
    BY <1>0, <1>b, <2>1 DEF ledger, record
<1>3. ASSUME NEW r \in Runs,
             \/ CheckPull(r) \/ RecordPull(r) \/ Leave(r) \/ ReadPull(r) \/ ReadReview(r)
      PROVE  LedgerMoved
  <2>1. /\ exposed' = exposed
        /\ Settle(r) \/ UNCHANGED <<unsaved, record>>
    BY <1>3 DEF CheckPull, SettleBeforeCall, RecordPull, Leave, ReadPull, ReadReview, Consult
  <2> QED
    BY <1>0, <1>b, <2>1 DEF Settle, record
<1>4. ASSUME NEW r \in Runs, ModelAsks(r) \/ ModelStops(r) PROVE LedgerMoved
  <2>1. /\ unsaved' = unsaved \cup {r} /\ exposed' = exposed /\ UNCHANGED record
        /\ pc' = [pc EXCEPT ![r] = "tools"] \/ pc' = [pc EXCEPT ![r] = "closing"]
    BY <1>4 DEF ModelAsks, ModelStops, Flush, Go
  <2> QED
    BY <1>0, <1>c, <2>1
<1>5. ASSUME NEW r \in Runs, EditFile(r) \/ CreateFile(r) PROVE LedgerMoved
  <2>1. /\ unsaved' = unsaved \cup {r} /\ exposed' = exposed /\ UNCHANGED record
        /\ pc' = [pc EXCEPT ![r] = "tools"]
    BY <1>5 DEF EditFile, CreateFile, Authorize, Flush, Block, Go
  <2> QED
    BY <1>0, <1>c, <2>1
<1>6. ASSUME NEW r \in Runs, OpenPull(r) \/ OpenPullError(r) PROVE LedgerMoved
  <2>1. /\ pc[r] = "opening" /\ unsaved' = unsaved /\ UNCHANGED record
        /\ exposed' \in {exposed, exposed \cup ({r} \cap unsaved)}
    BY <1>6 DEF OpenPull, OpenPullError, Expose, Go
  <2>2. r \notin unsaved
    BY <2>1 DEF OpensSettled
  <2> QED
    BY <1>0, <1>b, <2>1, <2>2 DEF record
<1>7. ASSUME NEW r \in Runs, Review(r) \/ MoveIssue(r) PROVE LedgerMoved
  <2>1. PICK resource \in {"repo", "project"} : Act(r, resource)
    BY <1>7 DEF Review, MoveIssue
  <2>2. pc' = [pc EXCEPT ![r] = "tools"]
    BY <2>1 DEF Act, Block, Go
  <2>3. CASE Allowed(r, resource)
    <3>1. Settle(r) /\ exposed' \in {exposed, exposed \cup ({r} \cap unsaved')}
      BY <2>1, <2>3 DEF Act, SettleBeforeCall, Written
    <3> QED
      BY <1>0, <1>b, <3>1 DEF Settle
  <2>4. CASE ~Allowed(r, resource)
    <3>1. unsaved' = unsaved \cup {r} /\ exposed' = exposed /\ UNCHANGED record
      BY <2>1, <2>4 DEF Act, Flush
    <3> QED
      BY <1>0, <1>c, <2>2, <3>1
  <2> QED
    BY <2>3, <2>4
<1>8. CASE World \/ UNCHANGED vars
  <2>1. UNCHANGED ledger
    BY <1>8 DEF World, PutManifest, HumanPush, MainMoves, vars
  <2> QED
    BY <1>0, <1>b, <2>1 DEF ledger, record
<1>9. ASSUME NEW r \in Runs, Push(r) PROVE LedgerMoved
  <2>1. /\ unsaved' = unsaved /\ exposed' = exposed /\ lost' = lost
        /\ pushed' \in {pushed, pushed \cup ({r} \cap unsaved)}
    BY <1>9 DEF Push
  <2> QED
    BY <1>0, <1>b, <2>1
<1>10. ASSUME NEW r \in Runs, ModelError(r) \/ Crash(r) PROVE LedgerMoved
  <2>1. /\ exposed' = exposed /\ RollBack(r)
        /\ pc' = [pc EXCEPT ![r] = "dead"]
        /\ outcome' \in {[outcome EXCEPT ![r] = "error"], [outcome EXCEPT ![r] = "crashed"]}
    BY <1>10 DEF ModelError, Crash, End, Go
  <2>2. pc'[r] = "dead" /\ outcome'[r] \in {"crashed", "error"}
    BY <1>0, <2>1
  <2>3. lost' \subseteq lost \cup {r} /\ unsaved' \subseteq unsaved /\ pushed' \subseteq unsaved'
    BY <1>0, <2>1 DEF RollBack
  <2> QED
    BY <1>0, <1>a, <2>1, <2>2, <2>3 DEF LedgerMoved
<1> QED
  BY <1>1, <1>2, <1>3, <1>4, <1>5, <1>6, <1>7, <1>8, <1>9, <1>10 DEF Next, Run, Tools

LEMMA OpensStep ==
  ASSUME TypeOK, OpensSettled, EffectsAudited, TargetsPulled, TreesThere, MainMerged,
         [Next]_vars
  PROVE  OpensSettled'
<1>0. RunsTyped /\ GithubTyped /\ BareTyped
  BY TypeParts
<1>1. \A c \in Refs : remote[c] # None => remote'[c] # None
  BY <1>0, RemoteStep
<1> SUFFICES ASSUME NEW r \in Runs, pc'[r] \in {"opening", "recording"}
             PROVE  /\ r \in Devs /\ remote'[r] # None
                    /\ pc'[r] = "opening" => r \notin unsaved'
  BY DEF OpensSettled
<1>2. CASE CheckPull(r)
  <2>1. Offered(r, "github_create_pr") /\ remote[BranchOf(r)] # None
    BY <1>2 DEF CheckPull
  <2>2. r \in Devs /\ BranchOf(r) = r
    BY <2>1, DevConstants DEF Offered, FixerTools, DeskTools, BranchOf
  <2> QED
    BY <1>1, <1>2, <2>1, <2>2, LedgerStep DEF LedgerMoved, Refs, Branches
<1>3. CASE pc[r] \in {"opening", "recording"} /\ (pc'[r] = "opening" => pc[r] = "opening")
  <2>1. r \in Devs /\ remote[r] # None /\ (pc[r] = "opening" => r \notin unsaved)
    BY <1>3 DEF OpensSettled
  <2> QED
    BY <1>1, <1>3, <2>1, LedgerStep DEF LedgerMoved, Refs, Branches
<1>4. \/ CheckPull(r)
      \/ pc[r] \in {"opening", "recording"} /\ (pc'[r] = "opening" => pc[r] = "opening")
  BY Control DEF Moved, OpenPull, Go
<1> QED
  BY <1>2, <1>3, <1>4

-----------------------------------------------------------------------------
(* The inductive invariant.                                                *)

LEMMA OnePolicy ==
  ASSUME PolicyRead
  PROVE  OnePolicyPerRun
BY DEF PolicyRead, OnePolicyPerRun

LEMMA InitInvariant == Init => IInv
<1> SUFFICES ASSUME Init PROVE IInv
  OBVIOUS
<1>1. <<>> \in Seq(Authors) /\ <<Human>> \in Seq(Authors)
  BY EmptySeq DEF Authors
<1>2. Commits(0, <<>>) \in BranchStates /\ Commits(0, <<Human>>) \in BranchStates
  BY <1>1 DEF Commits, BranchStates, Authors
<1>3. remote \in RefsType /\ tracking \in RefsType
  BY <1>2 DEF Init, RefsType
<1>4. heads \in RefsType
  <2>1. [b \in Refs |-> None] \in RefsType
    BY DEF RefsType
  <2>2. [b \in Refs |-> IF b = Main THEN remote[b] ELSE None] \in RefsType
    BY <1>3 DEF RefsType
  <2> QED
    BY <1>3, <2>1, <2>2 DEF Init
<1>5. remote[Main] = Commits(0, <<>>) /\ Main \in Refs
  BY DEF Init, Refs
<1>6. RunsTyped
  BY DevConstants DEF Init, RunsTyped, Steps, Busily
<1>7. DbTyped /\ PolicyTyped /\ LedgerTyped /\ GithubTyped /\ DirtyTyped
  BY <1>3 DEF Init, DbTyped, PolicyTyped, LedgerTyped, GithubTyped, DirtyTyped, Dirty, Branches
<1>8. BareTyped
  BY <1>3, <1>4 DEF Init, BareTyped
<1>9. EffectsAudited /\ PolicyRead /\ OpensSettled /\ TrackingBehind /\ TreesThere
  BY DEF Init, EffectsAudited, PolicyRead, OpensSettled, TrackingBehind, TreesThere, InTree,
         Workspace, Runs, Refs
<1>10. TargetsPulled
  <2>1. \A b \in OpenPulls : b \in Refs /\ b # Main
    BY DevConstants DEF Refs, Branches
  <2>2. \A b \in OpenPulls : remote[b] = Commits(0, <<Human>>)
    BY <2>1 DEF Init
  <2>3. \A b \in pulls : remote[b] # None
    BY <1>2, <2>2, NoneIsNoBranch DEF Init
  <2>4. \A r \in Fixers : pc[r] = "idle" /\ target[r] = None
    BY DEF Init, Runs
  <2> QED
    BY <2>3, <2>4 DEF TargetsPulled
<1>11. MainMerged
  BY <1>2, <1>5, NoneIsNoBranch DEF MainMerged, Commits
<1>12. NothingCloned
  BY <1>2, <1>5, NoneIsNoBranch DEF Init, NothingCloned
<1>13. BranchesFresh
  <2>1. ASSUME NEW d \in Devs PROVE heads[d] = None /\ remote[d] = None /\ d \notin pulls
    <3>1. d \in Refs /\ d # Main /\ d \notin OpenPulls
      BY DevConstants DEF Refs, Branches
    <3>2. remote[d] = None
      BY <3>1 DEF Init
    <3> QED
      BY <3>1, <3>2 DEF Init
  <2> QED
    BY <2>1 DEF BranchesFresh
<1>14. TypeOK
  BY <1>6, <1>7, <1>8, TypeParts
<1> QED
  BY <1>9, <1>10, <1>11, <1>12, <1>13, <1>14, OnePolicy DEF IInv

LEMMA NextInvariant == IInv /\ [Next]_vars => IInv'
<1> SUFFICES ASSUME IInv, [Next]_vars PROVE IInv'
  OBVIOUS
<1>1. /\ TypeOK /\ EffectsAudited /\ TargetsPulled /\ MainMerged /\ NothingCloned
      /\ BranchesFresh /\ TreesThere /\ OpensSettled /\ TrackingBehind /\ PolicyRead
  BY DEF IInv
<1>2. /\ RunsTyped /\ DbTyped /\ PolicyTyped /\ LedgerTyped /\ BareTyped /\ GithubTyped
  BY <1>1, TypeParts
<1>3. RunsTyped'
  BY <1>2, RunsStayTyped
<1>4. DbTyped'
  BY <1>1, <1>2, DbStaysTyped
<1>5. PolicyTyped' /\ PolicyRead'
  BY <1>1, <1>2, DecisionStep
<1>6. LedgerTyped' /\ EffectsAudited'
  <2>1. LedgerMoved
    BY <1>1, LedgerStep
  <2>2. \A r \in lost : pc'[r] = "dead" /\ outcome'[r] \in {"crashed", "error"}
    BY <1>1, <1>2, DeadStays DEF LedgerTyped, EffectsAudited
  <2> QED
    BY <2>1, <2>2 DEF LedgerMoved, LedgerTyped, EffectsAudited
<1>7. remote' \in RefsType /\ MainMerged'
  BY <1>1, <1>2, RemoteStep
<1>8. GithubTyped'
  BY <1>1, <1>2, <1>7, PullsStep DEF GithubTyped
<1>9. TreesThere' /\ trees' \subseteq Workspace
  BY <1>1, TreesStep
<1>10. tracking' \in RefsType /\ TrackingBehind'
  BY <1>1, <1>2, TrackingStep
<1>11. /\ heads' \in RefsType /\ cache' \in {"absent", "plain", "tracking"}
       /\ upstream' \subseteq Branches /\ registered' \subseteq Workspace /\ NothingCloned'
  BY <1>1, <1>2, HeadsStep
<1>12. BareTyped'
  BY <1>9, <1>10, <1>11 DEF BareTyped
<1>13. DirtyTyped'
  BY <1>1, DirtyStep
<1>14. TypeOK'
  BY <1>3, <1>4, <1>5, <1>6, <1>8, <1>12, <1>13
  DEF TypeOK, RunsTyped, DbTyped, PolicyTyped, LedgerTyped, BareTyped, GithubTyped, DirtyTyped,
      Dirty, Steps
<1>15. TargetsPulled'
  BY <1>1, TargetsStep
<1>16. BranchesFresh'
  BY <1>1, FreshStep
<1>17. OpensSettled'
  BY <1>1, OpensStep
<1>18. OnePolicyPerRun'
  BY <1>5 DEF PolicyRead, OnePolicyPerRun
<1> QED
  BY <1>5, <1>6, <1>7, <1>9, <1>10, <1>11, <1>14, <1>15, <1>16, <1>17, <1>18 DEF IInv

(* Every reachable state satisfies the inductive invariant, for any set of *)
(* runs, branches and manifests.                                           *)
THEOREM Inductive == Spec => []IInv
<1>1. QED
  BY InitInvariant, NextInvariant, PTL DEF Spec

(* Every reachable state is well typed.                                    *)
THEOREM TypeCorrect == Spec => []TypeOK
<1>1. IInv => TypeOK
  BY DEF IInv
<1>2. QED
  BY <1>1, Inductive, PTL

(* Before a run asks GitHub or Jira for something, the rows of what led to *)
(* it, earlier pushes included, are committed; and the rows of a push are  *)
(* lost by no run but one whose process died or whose model call raised.   *)
THEOREM EffectsCommitted == Spec => []EffectsAudited
<1>1. IInv => EffectsAudited
  BY DEF IInv
<1>2. QED
  BY <1>1, Inductive, PTL

(* The decisions of one run follow one manifest.                           *)
THEOREM PolicyFixed == Spec => []OnePolicyPerRun
<1>1. IInv => OnePolicyPerRun
  BY DEF IInv
<1>2. QED
  BY <1>1, Inductive, PTL

-----------------------------------------------------------------------------
(* What a step may never do.                                               *)

(* No step of a run, a human or a merge removes a commit from GitHub.      *)
THEOREM RemoteGrows == Spec => RemoteKept
<1>1. IInv /\ [Next]_vars =>
        [\A b \in Refs : remote[b] # None => Ancestor(remote[b], remote'[b])]_vars
  <2> SUFFICES ASSUME IInv, [Next]_vars
               PROVE  \A b \in Refs : remote[b] # None => Ancestor(remote[b], remote'[b])
    OBVIOUS
  <2>1. /\ RunsTyped /\ GithubTyped /\ BareTyped
        /\ TargetsPulled /\ TreesThere /\ MainMerged
    BY TypeParts DEF IInv
  <2> QED
    BY <2>1, RemoteStep
<1>2. QED
  BY <1>1, Inductive, PTL DEF Spec, RemoteKept

(* No step removes a commit from a local branch.                           *)
THEOREM HeadsGrow == Spec => CommitsKept
<1> DEFINE Kept == \A b \in Branches : heads[b] # None =>
                     /\ heads'[b] # None
                     /\ Len(heads[b].own) <= Len(heads'[b].own)
                     /\ SubSeq(heads'[b].own, 1, Len(heads[b].own)) = heads[b].own
<1>1. IInv /\ [Next]_vars => [Kept]_vars
  <2> SUFFICES ASSUME IInv, [Next]_vars
               PROVE  Kept
    OBVIOUS
  <2>1. /\ RunsTyped /\ GithubTyped /\ BareTyped
        /\ TargetsPulled /\ TreesThere /\ NothingCloned /\ MainMerged /\ BranchesFresh
    BY TypeParts DEF IInv
  <2>2. \A c \in Refs : heads[c] # None => heads'[c] # None /\ Extends(heads[c], heads'[c])
    BY <2>1, HeadsStep
  <2> QED
    BY <2>2 DEF Extends, Refs
<1>2. QED
  BY <1>1, Inductive, PTL DEF Spec, CommitsKept

(* Only signal_complete accepts a run, only a refused checkout calls it    *)
(* busy.                                                                   *)
Concluded ==
  /\ UNCHANGED accepted \/ \E r \in Runs : SignalComplete(r)
  /\ \A r \in Runs : outcome[r] # "busy" /\ outcome'[r] = "busy" => CheckoutBusy(r)

LEMMA Conclusion ==
  ASSUME TypeOK, [Next]_vars
  PROVE  Concluded
<1>0. DOMAIN outcome = Runs
  BY DEF TypeOK
<1>a. ASSUME NEW r \in Runs, UNCHANGED accepted, NEW how,
             outcome' = [outcome EXCEPT ![r] = how], how # "busy"
      PROVE  Concluded
  BY <1>0, <1>a DEF Concluded
<1>b. ASSUME UNCHANGED <<accepted, outcome>> PROVE Concluded
  BY <1>b DEF Concluded
<1>1. ASSUME NEW r \in Runs, Request(r) PROVE Concluded
  <2>1. /\ UNCHANGED accepted
        /\ UNCHANGED outcome \/ outcome' = [outcome EXCEPT ![r] = "refused"]
    BY <1>1 DEF Request, Trigger, TriggerInsert, TriggerRefused, CommandLine, AddressReview,
                End, loop
  <2> QED
    BY <1>a, <1>b, <2>1
<1>2. ASSUME NEW r \in Runs,
             \/ FindTask(r) \/ InsertTask(r) \/ InsertRefused(r)
             \/ CheckoutNew(r) \/ CheckoutExisting(r)
             \/ CheckoutError(r) \/ ModelError(r) \/ Crash(r) \/ Cleanup(r) \/ Leave(r)
             \/ OpenPull(r) \/ OpenPullError(r) \/ RecordPull(r)
      PROVE  Concluded
  <2>1. /\ UNCHANGED accepted
        /\ \/ UNCHANGED outcome
           \/ outcome' = [outcome EXCEPT ![r] = "refused"]
           \/ outcome' = [outcome EXCEPT ![r] = "error"]
           \/ outcome' = [outcome EXCEPT ![r] = "crashed"]
    BY <1>2 DEF FindTask, InsertTask, InsertRefused, CheckoutNew, CheckoutExisting,
                CheckoutError, ModelError, Crash, Cleanup, Leave, OpenPull, OpenPullError,
                RecordPull, End, loop
  <2> QED
    BY <1>a, <1>b, <2>1
<1>3. ASSUME NEW r \in Runs, CheckoutBusy(r) PROVE Concluded
  <2>1. UNCHANGED accepted /\ outcome' = [outcome EXCEPT ![r] = "busy"]
    BY <1>3 DEF CheckoutBusy, End, loop
  <2> QED
    BY <1>0, <1>3, <2>1 DEF Concluded
<1>4. ASSUME NEW r \in Runs, ModelAsks(r) \/ ModelStops(r) \/ EndTurn(r) PROVE Concluded
  <2>1. /\ UNCHANGED accepted
        /\ \/ UNCHANGED outcome
           \/ outcome' = [outcome EXCEPT ![r] = "stopped"]
           \/ outcome' = [outcome EXCEPT ![r] = "completed"]
           \/ outcome' = [outcome EXCEPT ![r] = "exhausted"]
    BY <1>4 DEF ModelAsks, ModelStops, EndTurn, loop
  <2> QED
    BY <1>a, <1>b, <2>1
<1>5. ASSUME NEW r \in Runs,
             \/ EditFile(r) \/ CreateFile(r) \/ RunCheck(r) \/ Commit(r)
             \/ PushConflict(r) \/ Push(r) \/ CheckPull(r)
             \/ ReadPull(r) \/ ReadReview(r) \/ Review(r) \/ MoveIssue(r)
      PROVE  Concluded
  <2>1. UNCHANGED <<accepted, outcome>>
    BY <1>5 DEF EditFile, CreateFile, RunCheck, Commit, PushConflict, Push, CheckPull,
                ReadPull, ReadReview, Review, MoveIssue, Consult, Act, Block
  <2> QED
    BY <1>b, <2>1
<1>6. ASSUME NEW r \in Runs, SignalComplete(r) PROVE Concluded
  BY <1>6 DEF SignalComplete, Block, Concluded
<1>7. CASE World \/ UNCHANGED vars
  <2>1. UNCHANGED <<accepted, outcome>>
    BY <1>7 DEF World, PutManifest, HumanPush, MainMoves, vars, loop
  <2> QED
    BY <1>b, <2>1
<1> QED
  BY <1>1, <1>2, <1>3, <1>4, <1>5, <1>6, <1>7 DEF Next, Run, Tools

(* What is accepted as complete is on GitHub, whole.                       *)
THEOREM AcceptedIsDelivered == Spec => AcceptedDelivered
<1> DEFINE Delivered == \A r \in (accepted' \ accepted) \cap Workspace :
                          /\ r \notin Dirty
                          /\ remote[BranchOf(r)] # None
                          /\ Ancestor(heads[BranchOf(r)], remote[BranchOf(r)])
<1>1. IInv /\ [Next]_vars => [Delivered]_vars
  <2> SUFFICES ASSUME IInv, [Next]_vars, NEW r \in (accepted' \ accepted) \cap Workspace
               PROVE  /\ r \notin Dirty
                      /\ remote[BranchOf(r)] # None
                      /\ Ancestor(heads[BranchOf(r)], remote[BranchOf(r)])
    OBVIOUS
  <2> DEFINE b == BranchOf(r)
  <2>0. /\ TypeOK /\ RunsTyped /\ GithubTyped /\ BareTyped
        /\ TargetsPulled /\ TreesThere /\ TrackingBehind
    BY TypeParts DEF IInv
  <2>1. SignalComplete(r)
    <3>1. PICK s \in Runs : SignalComplete(s)
      BY <2>0, Conclusion DEF Concluded
    <3>2. accepted' = accepted \cup {s}
      BY <3>1 DEF SignalComplete
    <3> QED
      BY <3>1, <3>2
  <2>2. pc[r] = "tools" /\ r \notin Dirty /\ tracking[b] # None /\ Ancestor(heads[b], tracking[b])
    BY <2>1 DEF SignalComplete, Pushed, Block, Go
  <2>3. b \in Refs
    BY <2>0, <2>2, BranchKnown DEF Refs
  <2>4. heads[b] # None
    BY <2>0, <2>2 DEF TreesThere, InTree
  <2>5. remote[b] # None /\ Ancestor(tracking[b], remote[b])
    BY <2>0, <2>2, <2>3 DEF TrackingBehind
  <2>6. heads[b] \in BranchStates /\ tracking[b] \in BranchStates /\ remote[b] \in BranchStates
    BY <2>0, <2>2, <2>3, <2>4, <2>5, EntryTyped DEF BareTyped, GithubTyped
  <2> QED
    BY <2>2, <2>5, <2>6, AncestorTransitive
<1>2. QED
  BY <1>1, Inductive, PTL DEF Spec, AcceptedDelivered

(* A fixer is turned away only by a worktree that stands.                  *)
THEOREM OnlyTreesBlock == Spec => EndedRunsBlockNobody
<1> DEFINE Blocked == \A r \in Fixers : outcome[r] # "busy" /\ outcome'[r] = "busy" =>
                        \E s \in trees : BranchOf(s) = target[r]
<1>1. IInv /\ [Next]_vars => [Blocked]_vars
  <2> SUFFICES ASSUME IInv, [Next]_vars, NEW r \in Fixers,
                      outcome[r] # "busy", outcome'[r] = "busy"
               PROVE  \E s \in trees : BranchOf(s) = target[r]
    OBVIOUS
  <2>1. CheckoutBusy(r)
    BY Conclusion DEF IInv, Concluded, Runs
  <2> QED
    BY <2>1 DEF CheckoutBusy, Busy, Pruned
<1>2. QED
  BY <1>1, Inductive, PTL DEF Spec, EndedRunsBlockNobody

=============================================================================
