-------------------------- MODULE SecretFilesProofs --------------------------
(***************************************************************************)
(* Theorems about SecretFiles for any number of coroutines, requests and   *)
(* crashes, any kinds and any names of credentials.                        *)
(***************************************************************************)
EXTENDS SecretFiles, SequenceTheorems, WellFoundedInduction, TLAPS

-----------------------------------------------------------------------------
(* Numbers and sequences.                                                  *)

(* Every set of natural numbers that is not empty has a least element.     *)
LEMMA LeastNatural ==
  ASSUME NEW T, T \subseteq Nat, T # {}
  PROVE  \E x \in T : \A y \in T : x <= y
<1> DEFINE R == OpToRel(<, Nat)
<1>1. \A x, y \in Nat : y < x => <<y, x>> \in R
  BY DEF OpToRel
<1>2. IsWellFoundedOn(R, Nat)
  BY NatLessThanWellFounded
<1> HIDE DEF R
<1>3. PICK x \in T : \A y \in T : ~(<<y, x>> \in R)
  BY <1>2, WFMin
<1>4. \A y \in T : ~(y < x)
  BY <1>1, <1>3
<1> QED
  BY <1>4

(* Among credentials with bounded ids one is the newest.                   *)
LEMMA NewestExists ==
  ASSUME NEW rows, rows # {}, NEW bound \in Nat,
         \A r \in rows : r.id \in Nat /\ r.id <= bound
  PROVE  \E r \in rows : \A q \in rows : q.id <= r.id
<1> DEFINE Age(r) == bound - r.id
           T == {Age(r) : r \in rows}
<1>1. T \subseteq Nat /\ T # {}
  OBVIOUS
<1>2. PICK x \in T : \A y \in T : x <= y
  <2> HIDE DEF T
  <2> QED
    BY <1>1, LeastNatural
<1>3. PICK r \in rows : x = Age(r)
  BY <1>2
<1>4. \A q \in rows : Age(r) <= Age(q)
  BY <1>2, <1>3
<1> QED
  BY <1>3, <1>4

In(q, k) == \E i \in DOMAIN q : q[i] = k
Once(q) == \A i, j \in DOMAIN q : q[i] = q[j] => i = j

(* The first of a sequence, and the others.                                *)
LEMMA HeadAndTail ==
  ASSUME NEW q \in Seq(Kinds), q # <<>>, Once(q)
  PROVE  /\ Head(q) \in Kinds /\ Tail(q) \in Seq(Kinds) /\ Once(Tail(q))
         /\ In(q, Head(q)) /\ ~In(Tail(q), Head(q))
         /\ \A k : In(q, k) <=> k = Head(q) \/ In(Tail(q), k)
         /\ Len(q) = 1 <=> Tail(q) = <<>>
<1>1. /\ Len(q) \in Nat /\ DOMAIN q = 1..Len(q) /\ Len(q) # 0
      /\ \A i \in 1..Len(q) : q[i] \in Kinds
  BY EmptySeq, LenProperties, ElementOfSeq
<1>2. /\ Head(q) = q[1] /\ Tail(q) \in Seq(Kinds)
      /\ Len(Tail(q)) = Len(q) - 1
      /\ \A i \in 1..Len(Tail(q)) : Tail(q)[i] = q[i + 1]
  BY HeadTailProperties
<1>3. DOMAIN Tail(q) = 1..(Len(q) - 1)
  BY <1>2, LenProperties
<1>4. \A i \in 1..(Len(q) - 1) : Tail(q)[i] = q[i + 1] /\ i + 1 \in 1..Len(q)
  BY <1>1, <1>2
<1>5. Head(q) \in Kinds /\ In(q, Head(q))
  BY <1>1, <1>2 DEF In
<1>6. Once(Tail(q))
  BY <1>1, <1>3, <1>4 DEF Once
<1>7. ~In(Tail(q), Head(q))
  BY <1>1, <1>2, <1>3, <1>4 DEF In, Once
<1>8. ASSUME NEW k PROVE In(q, k) <=> k = Head(q) \/ In(Tail(q), k)
  <2>1. ASSUME In(Tail(q), k) PROVE In(q, k)
    BY <1>1, <1>3, <1>4, <2>1 DEF In
  <2>2. ASSUME In(q, k), k # Head(q) PROVE In(Tail(q), k)
    <3>1. PICK i \in 1..Len(q) : q[i] = k
      BY <1>1, <2>2 DEF In
    <3>2. i # 1
      BY <1>2, <2>2, <3>1
    <3>3. i - 1 \in 1..(Len(q) - 1) /\ (i - 1) + 1 = i
      BY <1>1, <3>2
    <3> QED
      BY <1>3, <1>4, <3>1, <3>3 DEF In
  <2> QED
    BY <1>5, <2>1, <2>2
<1>9. Len(q) = 1 <=> Tail(q) = <<>>
  <2> DEFINE p == Tail(q)
  <2>1. p \in Seq(Kinds) /\ Len(p) = Len(q) - 1
    BY <1>2
  <2> HIDE DEF p
  <2>2. Len(<<>>) = 0 /\ (p # <<>> => Len(p) \in Nat \ {0})
    BY <2>1, EmptySeq
  <2>3. Len(q) = 1 <=> p = <<>>
    BY <1>1, <2>1, <2>2
  <2> QED
    BY <2>3 DEF p
<1> QED
  BY <1>2, <1>5, <1>6, <1>7, <1>8, <1>9

LEMMA OneAsked ==
  ASSUME NEW k \in Kinds
  PROVE  /\ <<k>> \in Seq(Kinds) /\ <<k>> # <<>> /\ Once(<<k>>)
         /\ \A j : In(<<k>>, j) <=> j = k
BY DEF In, Once

LEMMA NoneAsked == <<>> \in Seq(Kinds) /\ Once(<<>>) /\ \A k : ~In(<<>>, k)
BY DEF In, Once

-----------------------------------------------------------------------------
(* Steps.                                                                  *)

(* The state of the coroutines is well typed.                              *)
LocalsTyped ==
  /\ pc \in [Slots -> Steps] /\ call \in [Slots -> Requests]
  /\ row \in [Slots -> [id : Nat, kind : Kinds \cup {None}]]
  /\ todo \in [Slots -> Seq(Kinds)]
  /\ cached \in [Slots -> [Kinds -> Nat]] /\ fresh \in [Slots -> [Kinds -> Nat]]
  /\ pend \in [Slots -> SUBSET Kinds] /\ token \in [Slots -> Nat]
  /\ stale \in [Slots -> SUBSET Kinds]
  /\ lock \in Slots \cup {None}
  /\ \A s \in Slots : pend[s] # {} => lock = s

StoresTyped ==
  /\ secrets \subseteq [id : Nat, kind : Kinds, name : Names, val : Nat]
  /\ files \subseteq [id : Nat, kind : Kinds, val : Nat]
  /\ pointer \in [Kinds -> Nat] /\ stamp \in Nat
  /\ cause \in [Kinds -> SUBSET Causes]

SiteTyped == site \in BOOLEAN /\ sited \in [Slots -> BOOLEAN]

LEMMA TypeParts == TypeOK <=> LocalsTyped /\ StoresTyped /\ SiteTyped
BY DEF TypeOK, LocalsTyped, StoresTyped, SiteTyped

(* The site and the e-mail are set and unset by the administration alone.  *)
LEMMA SiteStep ==
  ASSUME SiteTyped, NEW s \in Slots, Serve(s)
  PROVE  SiteTyped'
<1>1. site' = site
  BY DEF Serve, Begin, CheckCreate, InsertCredential, CheckRow, RotateCredential,
         DeleteCredential, Refresh, ReadToken, Upload, Flush, Purge, Commit, Crash, db
<1>2. sited' \in {sited, [sited EXCEPT ![s] = site], [sited EXCEPT ![s] = FALSE]}
  <2>1. CASE Begin(s)
    BY <2>1 DEF Begin
  <2>2. CASE InsertCredential(s) \/ DeleteCredential(s)
    BY <2>2 DEF InsertCredential, DeleteCredential, AfterWrite
  <2>3. CASE RotateCredential(s)
    BY <2>3 DEF RotateCredential, AfterWrite, Leave
  <2>4. CASE CheckCreate(s) \/ CheckRow(s) \/ Refresh(s)
    BY <2>4 DEF CheckCreate, CheckRow, Refresh, Leave, task
  <2>5. CASE ReadToken(s) \/ Upload(s) \/ Flush(s) \/ Purge(s)
    BY <2>5 DEF ReadToken, Upload, Flush, Purge
  <2>6. CASE Commit(s) \/ Crash(s)
    BY <2>6 DEF Commit, Crash, Leave
  <2> QED
    BY <2>1, <2>2, <2>3, <2>4, <2>5, <2>6 DEF Serve
<1> QED
  BY <1>1, <1>2 DEF SiteTyped

LEMMA Blank ==
  /\ Idle \in Requests /\ NoRow \in [id : Nat, kind : Kinds \cup {None}]
  /\ NoFiles \in [Kinds -> Nat]
BY DEF Idle, NoRow, NoFiles, Requests

(* What a step leaves alone in the other coroutines.                       *)
Apart(s) ==
  \A t \in Slots \ {s} :
    /\ pc'[t] = pc[t] /\ call'[t] = call[t] /\ row'[t] = row[t] /\ cached'[t] = cached[t]
    /\ todo'[t] = todo[t] /\ token'[t] = token[t] /\ fresh'[t] = fresh[t] /\ pend'[t] = pend[t]

(* The session closes.                                                     *)
Left(s) ==
  /\ pc'[s] = "free" /\ call'[s] = Idle /\ row'[s] = NoRow /\ cached'[s] = NoFiles
  /\ todo'[s] = <<>> /\ token'[s] = 0 /\ fresh'[s] = NoFiles /\ pend'[s] = {}
  /\ stale'[s] = {}
  /\ \A t \in Slots \ {s} : stale'[t] = stale[t]

LEMMA LeaveStep ==
  ASSUME LocalsTyped, NEW s \in Slots, Leave(s)
  PROVE  LocalsTyped' /\ Apart(s) /\ Left(s)
<1>1. /\ pc' = [pc EXCEPT ![s] = "free"]
      /\ call' = [call EXCEPT ![s] = Idle] /\ row' = [row EXCEPT ![s] = NoRow]
      /\ cached' = [cached EXCEPT ![s] = NoFiles] /\ todo' = [todo EXCEPT ![s] = <<>>]
      /\ token' = [token EXCEPT ![s] = 0] /\ fresh' = [fresh EXCEPT ![s] = NoFiles]
      /\ pend' = [pend EXCEPT ![s] = {}] /\ stale' = [stale EXCEPT ![s] = {}]
      /\ lock' = IF lock = s THEN None ELSE lock
  BY DEF Leave
<1>2. Apart(s) /\ Left(s)
  BY <1>1 DEF LocalsTyped, Apart, Left
<1>3. /\ pc' \in [Slots -> Steps] /\ call' \in [Slots -> Requests]
      /\ row' \in [Slots -> [id : Nat, kind : Kinds \cup {None}]]
      /\ cached' \in [Slots -> [Kinds -> Nat]] /\ fresh' \in [Slots -> [Kinds -> Nat]]
  BY <1>1, Blank DEF LocalsTyped, Steps
<1>4. /\ todo' \in [Slots -> Seq(Kinds)] /\ token' \in [Slots -> Nat]
      /\ pend' \in [Slots -> SUBSET Kinds] /\ stale' \in [Slots -> SUBSET Kinds]
  BY <1>1, NoneAsked DEF LocalsTyped
<1>5. /\ lock' \in Slots \cup {None}
      /\ \A t \in Slots : pend'[t] # {} => lock' = t
  BY <1>1 DEF LocalsTyped
<1> QED
  BY <1>2, <1>3, <1>4, <1>5 DEF LocalsTyped

LEMMA GotoStep ==
  ASSUME LocalsTyped, NEW s \in Slots, NEW step \in Steps, Goto(s, step)
  PROVE  /\ pc' \in [Slots -> Steps] /\ pc'[s] = step
         /\ \A t \in Slots \ {s} : pc'[t] = pc[t]
BY DEF LocalsTyped, Goto

(* A write of a credential of kind k by s: the coroutines that have read   *)
(* the token and not committed its file hold an old value.                 *)
WrittenBy(s, k) ==
  \A t \in Slots \ {s} :
    /\ stale[t] \subseteq stale'[t] /\ stale'[t] \subseteq stale[t] \cup {k}
    /\ (pc[t] \in {"upload", "flush", "purge"} /\ k = Current(t)) \/ k \in pend[t] =>
         k \in stale'[t]

LEMMA WriteStep ==
  ASSUME LocalsTyped, StoresTyped, StepsMatch, NEW s \in Slots, pc[s] = "write",
         NEW id \in Nat, NEW k \in Kinds, NEW next \in {"refresh", "token"},
         AfterWrite(s, id, k, next), UNCHANGED <<token, fresh, pend, lock>>
  PROVE  /\ LocalsTyped' /\ Apart(s) /\ WrittenBy(s, k)
         /\ fresh'[s] = fresh[s] /\ pend'[s] = {}
         /\ \/ /\ pc'[s] = "free" /\ row'[s] = NoRow /\ todo'[s] = <<>>
               /\ cached'[s] = NoFiles /\ call'[s] = Idle
               /\ cause' = [cause EXCEPT ![k] = @ \cup {"admin"}]
            \/ /\ pc'[s] = next /\ row'[s] = [id |-> id, kind |-> k] /\ todo'[s] = <<k>>
               /\ cached'[s] = cached[s] /\ call'[s] = call[s]
               /\ cause' = cause
<1>1. todo[s] = <<>> /\ pend[s] = {} /\ "free" \in Steps /\ next \in Steps
  BY DEF StepsMatch, AtStep, Steps
<1>2. /\ Written(s, k) \in [Slots -> SUBSET Kinds]
      /\ \A t \in Slots \ {s} :
           /\ stale[t] \subseteq Written(s, k)[t] /\ Written(s, k)[t] \subseteq stale[t] \cup {k}
           /\ (pc[t] \in {"upload", "flush", "purge"} /\ k = Current(t)) \/ k \in pend[t] =>
                k \in Written(s, k)[t]
  BY DEF LocalsTyped, Written
<1>3. CASE call[s].panel = "admin"
  <2>1. /\ cause' = [cause EXCEPT ![k] = @ \cup {"admin"}]
        /\ stale' = [Written(s, k) EXCEPT ![s] = {}]
        /\ pc' = [pc EXCEPT ![s] = "free"]
        /\ call' = [call EXCEPT ![s] = Idle] /\ row' = [row EXCEPT ![s] = NoRow]
        /\ cached' = [cached EXCEPT ![s] = NoFiles]
        /\ UNCHANGED todo
    BY <1>3 DEF AfterWrite
  <2>2. stale' \in [Slots -> SUBSET Kinds] /\ \A t \in Slots \ {s} : stale'[t] = Written(s, k)[t]
    BY <1>2, <2>1
  <2>3. Apart(s)
    BY <2>1 DEF LocalsTyped, Apart
  <2>4. LocalsTyped'
    BY <1>1, <2>1, <2>2, Blank DEF LocalsTyped
  <2>5. WrittenBy(s, k)
    BY <1>2, <2>2 DEF WrittenBy
  <2> QED
    BY <1>1, <2>1, <2>3, <2>4, <2>5 DEF LocalsTyped
<1>4. CASE call[s].panel # "admin"
  <2>1. /\ pc' = [pc EXCEPT ![s] = next]
        /\ row' = [row EXCEPT ![s] = [id |-> id, kind |-> k]]
        /\ todo' = [todo EXCEPT ![s] = <<k>>]
        /\ stale' = Written(s, k)
        /\ UNCHANGED <<call, cached, cause>>
    BY <1>4 DEF AfterWrite, Goto
  <2>2. Apart(s)
    BY <2>1 DEF LocalsTyped, Apart
  <2>3. LocalsTyped'
    BY <1>1, <1>2, <2>1, OneAsked DEF LocalsTyped
  <2>4. WrittenBy(s, k)
    BY <1>2, <2>1 DEF WrittenBy
  <2> QED
    BY <1>1, <2>1, <2>2, <2>3, <2>4 DEF LocalsTyped
<1> QED
  BY <1>3, <1>4

(* One kind is done.                                                       *)
LEMMA NextStep ==
  ASSUME LocalsTyped, StepsMatch, NEW s \in Slots, todo[s] # <<>>, NextKind(s)
  PROVE  /\ pc' \in [Slots -> Steps] /\ todo' \in [Slots -> Seq(Kinds)]
         /\ todo'[s] = Tail(todo[s])
         /\ pc'[s] = IF todo'[s] = <<>> THEN "commit" ELSE "token"
         /\ \A t \in Slots \ {s} : pc'[t] = pc[t] /\ todo'[t] = todo[t]
<1>1. /\ todo' = [todo EXCEPT ![s] = Tail(todo[s])]
      /\ pc' = [pc EXCEPT ![s] = IF Len(todo[s]) = 1 THEN "commit" ELSE "token"]
  BY DEF NextKind, Goto
<1>2. todo[s] \in Seq(Kinds) /\ Once(todo[s])
  BY DEF LocalsTyped, StepsMatch, AtStep, Once
<1> DEFINE p == Tail(todo[s])
<1>3. p \in Seq(Kinds) /\ (Len(todo[s]) = 1 <=> p = <<>>)
  BY <1>2, HeadAndTail
<1> HIDE DEF p
<1>4. /\ todo' = [todo EXCEPT ![s] = p]
      /\ pc' = [pc EXCEPT ![s] = IF p = <<>> THEN "commit" ELSE "token"]
  BY <1>1, <1>3 DEF p
<1>5. "commit" \in Steps /\ "token" \in Steps
  BY DEF Steps
<1>6. todo'[s] = p
  BY <1>4 DEF LocalsTyped
<1> QED
  BY <1>3, <1>4, <1>5, <1>6 DEF LocalsTyped, p

(* The kind that is being synchronized is one of the kinds.                *)
LEMMA CurrentKnown ==
  ASSUME LocalsTyped, StepsMatch, NEW s \in Slots, todo[s] # <<>>
  PROVE  /\ Current(s) = Head(todo[s]) /\ Current(s) \in Kinds /\ Asked(s, Current(s))
<1>1. todo[s] \in Seq(Kinds) /\ Once(todo[s])
  BY DEF LocalsTyped, StepsMatch, AtStep, Once
<1> QED
  BY <1>1, HeadAndTail DEF Current, Asked, In

(* A request begins.                                                       *)
Begins(s) ==
  /\ pc[s] = "free" /\ LocalsTyped' /\ Apart(s)
  /\ cached'[s] = pointer /\ row'[s] = row[s] /\ fresh'[s] = fresh[s]
  /\ pend'[s] = pend[s] /\ token'[s] = token[s]
  /\ \/ call'[s].op = "sync" /\ pc'[s] = "token" /\ todo'[s] = KindOrder
     \/ /\ call'[s].op \in {"create", "rotate", "delete"}
        /\ pc'[s] = "check" /\ todo'[s] = <<>>
  /\ UNCHANGED <<secrets, pointer, files, stamp, stale, cause, torn>>

LEMMA BeginStep ==
  ASSUME LocalsTyped, StoresTyped, NEW s \in Slots, Begin(s)
  PROVE  Begins(s)
<1>1. PICK c \in Calls :
        /\ call' = [call EXCEPT ![s] = c]
        /\ pc' = [pc EXCEPT ![s] = IF c.op = "sync" THEN "token" ELSE "check"]
        /\ todo' = [todo EXCEPT ![s] = IF c.op = "sync" THEN KindOrder ELSE <<>>]
  BY DEF Begin
<1>2. /\ pc[s] = "free" /\ cached' = [cached EXCEPT ![s] = pointer]
      /\ UNCHANGED <<row, token, fresh, pend, lock, stale>>
      /\ UNCHANGED <<secrets, pointer, files, stamp, cause, torn>>
  BY DEF Begin, seen, db
<1>3. c \in Requests /\ c.op \in {"sync", "create", "rotate", "delete"}
  BY <1>1 DEF Calls, Requests, StoresTyped
<1>4. KindOrder \in Seq(Kinds) /\ <<>> \in Seq(Kinds) /\ "token" \in Steps /\ "check" \in Steps
  BY SecretFilesConstants, NoneAsked DEF Steps
<1>5. Apart(s)
  BY <1>1, <1>2 DEF LocalsTyped, Apart
<1>6. /\ call' \in [Slots -> Requests] /\ pc' \in [Slots -> Steps]
      /\ todo' \in [Slots -> Seq(Kinds)] /\ cached' \in [Slots -> [Kinds -> Nat]]
  BY <1>1, <1>2, <1>3, <1>4 DEF LocalsTyped, StoresTyped
<1>7. LocalsTyped'
  BY <1>2, <1>6 DEF LocalsTyped
<1> QED
  BY <1>1, <1>2, <1>3, <1>5, <1>7 DEF LocalsTyped, Begins

(* An upload: the new file, or a failure that is a cause.                  *)
Uploads(s, k) ==
  /\ k \in Kinds /\ pc[s] = "upload" /\ todo[s] # <<>>
  /\ LocalsTyped' /\ Apart(s) /\ pend'[s] = pend[s]
  /\ row'[s] = row[s] /\ cached'[s] = cached[s] /\ call'[s] = call[s]
  /\ UNCHANGED <<secrets, pointer, stale, torn>>
  /\ \/ /\ files' = files \cup {[id |-> stamp + 1, kind |-> k, val |-> token[s]]}
        /\ stamp' = stamp + 1
        /\ fresh'[s] = [fresh[s] EXCEPT ![k] = stamp + 1]
        /\ pc'[s] = "flush" /\ todo'[s] = todo[s] /\ cause' = cause
     \/ /\ UNCHANGED <<files, stamp>> /\ fresh'[s] = fresh[s]
        /\ todo'[s] = Tail(todo[s])
        /\ pc'[s] = IF todo'[s] = <<>> THEN "commit" ELSE "token"
        /\ cause' = [cause EXCEPT ![k] = @ \cup {"upload"}]

LEMMA UploadStep ==
  ASSUME LocalsTyped, StoresTyped, StepsMatch, NEW s \in Slots, Upload(s)
  PROVE  Uploads(s, Current(s))
<1> DEFINE k == Current(s)
<1>1. /\ pc[s] = "upload"
      /\ UNCHANGED <<secrets, pointer, call, row, cached, token, pend, lock, stale, torn>>
  BY DEF Upload, db
<1>2. todo[s] # <<>> /\ k \in Kinds
  BY <1>1, CurrentKnown DEF StepsMatch, AtStep
<1>3. CASE /\ files' = files \cup {[id |-> stamp + 1, kind |-> k, val |-> token[s]]}
           /\ fresh' = [fresh EXCEPT ![s][k] = stamp + 1]
           /\ stamp' = stamp + 1
           /\ Goto(s, "flush")
           /\ UNCHANGED <<todo, cause>>
  <2> DEFINE new == [fresh[s] EXCEPT ![k] = stamp + 1]
  <2>1. new \in [Kinds -> Nat]
    <3>1. fresh[s] \in [Kinds -> Nat] /\ stamp + 1 \in Nat
      BY DEF LocalsTyped, StoresTyped
    <3> QED
      BY <3>1
  <2>2. fresh' = [fresh EXCEPT ![s] = new]
    BY <1>3 DEF LocalsTyped
  <2> HIDE DEF new
  <2>3. /\ fresh' \in [Slots -> [Kinds -> Nat]] /\ fresh'[s] = new
        /\ \A t \in Slots \ {s} : fresh'[t] = fresh[t]
    BY <2>1, <2>2 DEF LocalsTyped
  <2>4. /\ pc' \in [Slots -> Steps] /\ pc'[s] = "flush"
        /\ \A t \in Slots \ {s} : pc'[t] = pc[t]
    BY <1>3, GotoStep DEF Steps
  <2>5. LocalsTyped' /\ Apart(s)
    BY <1>1, <1>3, <2>3, <2>4 DEF LocalsTyped, Apart
  <2> QED
    BY <1>1, <1>2, <1>3, <2>3, <2>4, <2>5 DEF new, Uploads
<1>4. CASE /\ NextKind(s)
           /\ cause' = [cause EXCEPT ![k] = @ \cup {"upload"}]
           /\ UNCHANGED <<files, fresh, stamp>>
  <2>1. /\ pc' \in [Slots -> Steps] /\ todo' \in [Slots -> Seq(Kinds)]
        /\ todo'[s] = Tail(todo[s])
        /\ pc'[s] = IF todo'[s] = <<>> THEN "commit" ELSE "token"
        /\ \A t \in Slots \ {s} : pc'[t] = pc[t] /\ todo'[t] = todo[t]
    BY <1>2, <1>4, NextStep
  <2>2. LocalsTyped' /\ Apart(s)
    BY <1>1, <1>4, <2>1 DEF LocalsTyped, Apart
  <2> QED
    BY <1>1, <1>2, <1>4, <2>1, <2>2 DEF Uploads
<1> QED
  BY <1>3, <1>4 DEF Upload

(* A token is read: the newest credential's, or there is none.             *)
Reads(s, k) ==
  /\ k \in Kinds /\ pc[s] = "token" /\ todo[s] # <<>>
  /\ LocalsTyped' /\ Apart(s) /\ pend'[s] = pend[s]
  /\ row'[s] = row[s] /\ cached'[s] = cached[s] /\ call'[s] = call[s]
  /\ fresh'[s] = fresh[s]
  /\ UNCHANGED <<secrets, pointer, files, stamp, torn>>
  /\ \/ /\ todo'[s] = Tail(todo[s])
        /\ pc'[s] = IF todo'[s] = <<>> THEN "commit" ELSE "token"
        /\ \E why \in {"site", "removed"} : cause' = [cause EXCEPT ![k] = @ \cup {why}]
        /\ stale' = stale
     \/ /\ pc'[s] = "upload" /\ todo'[s] = todo[s] /\ Newest(k, token'[s])
        /\ stale' = [stale EXCEPT ![s] = @ \ {k}] /\ cause' = cause

LEMMA ReadStep ==
  ASSUME LocalsTyped, StoresTyped, StepsMatch, IdsOwned, NEW s \in Slots, ReadToken(s)
  PROVE  Reads(s, Current(s))
<1> DEFINE k == Current(s)
<1>1. /\ pc[s] = "token"
      /\ UNCHANGED <<secrets, pointer, files, call, row, cached, fresh, pend, lock, stamp, torn>>
  BY DEF ReadToken, db, counts
<1>2. todo[s] # <<>> /\ k \in Kinds
  BY <1>1, CurrentKnown DEF StepsMatch, AtStep
<1>3. CASE (k \in SiteKinds /\ ~sited[s]) \/ RowsOf(k) = {}
  <2>1. /\ NextKind(s)
        /\ \E why \in {"site", "removed"} : cause' = [cause EXCEPT ![k] = @ \cup {why}]
        /\ UNCHANGED <<token, stale>>
    BY <1>3 DEF ReadToken
  <2>2. /\ pc' \in [Slots -> Steps] /\ todo' \in [Slots -> Seq(Kinds)]
        /\ todo'[s] = Tail(todo[s])
        /\ pc'[s] = IF todo'[s] = <<>> THEN "commit" ELSE "token"
        /\ \A t \in Slots \ {s} : pc'[t] = pc[t] /\ todo'[t] = todo[t]
    BY <1>2, <2>1, NextStep
  <2>3. LocalsTyped' /\ Apart(s)
    BY <1>1, <2>1, <2>2 DEF LocalsTyped, Apart
  <2> QED
    BY <1>1, <1>2, <2>1, <2>2, <2>3 DEF Reads
<1>4. CASE ~(k \in SiteKinds /\ ~sited[s]) /\ RowsOf(k) # {}
  <2> DEFINE v == DecryptCredentialFor(RowsOf(k)).val
  <2>1. /\ Goto(s, "upload")
        /\ token' = [token EXCEPT ![s] = v]
        /\ stale' = [stale EXCEPT ![s] = @ \ {k}]
        /\ UNCHANGED <<todo, cause>>
    BY <1>4 DEF ReadToken
  <2>2. Newest(k, v) /\ v \in Nat
    <3>1. \A r \in RowsOf(k) : r.id \in Nat /\ r.id <= stamp /\ r.val \in Nat
      BY DEF RowsOf, IdsOwned, StoresTyped
    <3>2. \E r \in RowsOf(k) : \A q \in RowsOf(k) : q.id <= r.id
      BY <1>4, <3>1, NewestExists DEF StoresTyped
    <3>3. /\ DecryptCredentialFor(RowsOf(k)) \in RowsOf(k)
          /\ \A q \in RowsOf(k) : q.id <= DecryptCredentialFor(RowsOf(k)).id
      BY <3>2 DEF DecryptCredentialFor
    <3> QED
      BY <3>1, <3>3 DEF Newest
  <2> HIDE DEF v
  <2>3. /\ pc' \in [Slots -> Steps] /\ pc'[s] = "upload"
        /\ \A t \in Slots \ {s} : pc'[t] = pc[t]
    BY <2>1, GotoStep DEF Steps
  <2>4. LocalsTyped' /\ Apart(s) /\ token'[s] = v
    BY <1>1, <2>1, <2>2, <2>3 DEF LocalsTyped, Apart
  <2> QED
    BY <1>1, <1>2, <2>1, <2>2, <2>3, <2>4 DEF Reads
<1> QED
  BY <1>3, <1>4

(* A file id is flushed: the transaction holds the client row.             *)
Flushes(s, k) ==
  /\ k \in Kinds /\ pc[s] = "flush" /\ todo[s] # <<>>
  /\ LocalsTyped' /\ Apart(s) /\ pend'[s] = pend[s] \cup {k} /\ pc'[s] = "purge"
  /\ row'[s] = row[s] /\ cached'[s] = cached[s] /\ call'[s] = call[s]
  /\ fresh'[s] = fresh[s] /\ todo'[s] = todo[s]
  /\ UNCHANGED <<secrets, pointer, files, stamp, stale, cause, torn>>

LEMMA FlushStep ==
  ASSUME LocalsTyped, StepsMatch, NEW s \in Slots, Flush(s)
  PROVE  Flushes(s, Current(s))
<1> DEFINE k == Current(s)
<1>1. /\ pc[s] = "flush" /\ lock \in {None, s} /\ lock' = s
      /\ pend' = [pend EXCEPT ![s] = @ \cup {k}]
      /\ UNCHANGED <<secrets, pointer, files, call, row, cached, todo, token, fresh, stamp,
                     stale, cause, torn>>
  BY DEF Flush, db, seen, counts
<1>2. todo[s] # <<>> /\ k \in Kinds
  BY <1>1, CurrentKnown DEF StepsMatch, AtStep
<1> HIDE DEF k
<1>3. /\ pc' \in [Slots -> Steps] /\ pc'[s] = "purge"
      /\ \A t \in Slots \ {s} : pc'[t] = pc[t]
  BY GotoStep DEF Flush, Steps
<1>4. /\ pend' \in [Slots -> SUBSET Kinds] /\ pend'[s] = pend[s] \cup {k}
      /\ \A t \in Slots \ {s} : pend'[t] = pend[t]
  BY <1>1, <1>2 DEF LocalsTyped
<1>5. \A t \in Slots : pend'[t] # {} => lock' = t
  BY <1>1, <1>4, SecretFilesConstants DEF LocalsTyped
<1>6. LocalsTyped' /\ Apart(s)
  BY <1>1, <1>3, <1>4, <1>5 DEF LocalsTyped, Apart
<1>7. Flushes(s, k)
  BY <1>1, <1>2, <1>3, <1>4, <1>6 DEF Flushes
<1> QED
  BY <1>7 DEF k

(* The replaced file is deleted, or stays when the deletion fails.         *)
Purges(s, k) ==
  /\ k \in Kinds /\ pc[s] = "purge" /\ todo[s] # <<>>
  /\ LocalsTyped' /\ Apart(s) /\ pend'[s] = pend[s]
  /\ row'[s] = row[s] /\ cached'[s] = cached[s] /\ call'[s] = call[s]
  /\ fresh'[s] = fresh[s] /\ todo'[s] = Tail(todo[s])
  /\ pc'[s] = IF todo'[s] = <<>> THEN "commit" ELSE "token"
  /\ files' \subseteq files
  /\ \A f \in files : f.id # cached[s][k] => f \in files'
  /\ UNCHANGED <<secrets, pointer, stamp, stale, cause, torn>>

LEMMA PurgeStep ==
  ASSUME LocalsTyped, StepsMatch, NEW s \in Slots, Purge(s)
  PROVE  Purges(s, Current(s))
<1> DEFINE k == Current(s)
<1>1. /\ pc[s] = "purge" /\ NextKind(s)
      /\ UNCHANGED <<secrets, pointer, call, row, cached, token, fresh, pend, lock, stamp,
                     stale, cause, torn>>
  BY DEF Purge, db, seen, counts
<1>2. /\ files' \subseteq files
      /\ \A f \in files : f.id # cached[s][k] => f \in files'
  BY DEF Purge
<1>3. todo[s] # <<>> /\ k \in Kinds
  BY <1>1, CurrentKnown DEF StepsMatch, AtStep
<1> HIDE DEF k
<1>4. /\ pc' \in [Slots -> Steps] /\ todo' \in [Slots -> Seq(Kinds)]
      /\ todo'[s] = Tail(todo[s])
      /\ pc'[s] = IF todo'[s] = <<>> THEN "commit" ELSE "token"
      /\ \A t \in Slots \ {s} : pc'[t] = pc[t] /\ todo'[t] = todo[t]
  BY <1>1, <1>3, NextStep
<1>5. LocalsTyped' /\ Apart(s)
  BY <1>1, <1>4 DEF LocalsTyped, Apart
<1>6. Purges(s, k)
  BY <1>1, <1>2, <1>3, <1>4, <1>5 DEF Purges
<1> QED
  BY <1>6 DEF k

(* The caller commits: the client row names the new files.                 *)
Commits(s) ==
  /\ pc[s] = "commit" /\ LocalsTyped' /\ Apart(s) /\ Left(s)
  /\ pointer' = [k \in Kinds |-> IF k \in pend[s] THEN fresh[s][k] ELSE pointer[k]]
  /\ cause' = [k \in Kinds |->
                 IF k \notin pend[s] THEN cause[k]
                 ELSE IF k \in stale[s] THEN cause[k] \cup {"race"} ELSE {}]
  /\ UNCHANGED <<secrets, files, stamp, torn>>

LEMMA CommitStep ==
  ASSUME LocalsTyped, NEW s \in Slots, Commit(s)
  PROVE  Commits(s)
<1>1. Leave(s)
  BY DEF Commit
<1>2. LocalsTyped' /\ Apart(s) /\ Left(s)
  BY <1>1, LeaveStep
<1> QED
  BY <1>2 DEF Commit, Commits, counts

(* A request dies.                                                         *)
Crashes(s) ==
  /\ LocalsTyped' /\ Apart(s) /\ Left(s)
  /\ torn' = torn \cup {cached[s][k] : k \in pend[s]}
  /\ cause' = [k \in Kinds |-> IF k \in pend[s] \/ Asked(s, k)
                               THEN cause[k] \cup {"crash"} ELSE cause[k]]
  /\ UNCHANGED <<secrets, pointer, files, stamp>>

LEMMA CrashStep ==
  ASSUME LocalsTyped, NEW s \in Slots, Crash(s)
  PROVE  Crashes(s)
<1>1. Leave(s)
  BY DEF Crash
<1>2. LocalsTyped' /\ Apart(s) /\ Left(s)
  BY <1>1, LeaveStep
<1> QED
  BY <1>2 DEF Crash, Crashes, db

(* A request ends before it has anything to synchronize, or because the    *)
(* row it would read again is gone.                                        *)
Ends(s) ==
  /\ \/ pc[s] \in {"check", "write"}
     \/ pc[s] = "refresh" /\ ~Exists(row[s].id)
  /\ LocalsTyped' /\ Apart(s) /\ Left(s)
  /\ UNCHANGED <<secrets, pointer, files, stamp, cause, torn>>

(* A request goes on, and nothing but its place and its row changes.       *)
Moves(s) ==
  /\ \/ pc[s] = "check" /\ pc'[s] = "write" /\ call[s].op = "create" /\ row'[s] = row[s]
     \/ /\ pc[s] = "check" /\ pc'[s] = "write" /\ call[s].op \in {"rotate", "delete"}
        /\ \E r \in secrets : row'[s] = [id |-> r.id, kind |-> r.kind]
     \/ pc[s] = "refresh" /\ pc'[s] = "token" /\ row'[s] = row[s] /\ Exists(row[s].id)
  /\ LocalsTyped' /\ Apart(s) /\ pend'[s] = pend[s] /\ cached'[s] = cached[s]
  /\ call'[s] = call[s] /\ fresh'[s] = fresh[s] /\ todo'[s] = todo[s]
  /\ UNCHANGED <<secrets, pointer, files, stamp, stale, cause, torn>>

LEMMA CheckCreateStep ==
  ASSUME LocalsTyped, NEW s \in Slots, CheckCreate(s)
  PROVE  Ends(s) \/ Moves(s)
<1>1. /\ pc[s] = "check" /\ call[s].op = "create"
      /\ UNCHANGED <<secrets, pointer, files, stamp, cause, torn>>
  BY DEF CheckCreate, db, counts
<1>2. CASE Leave(s)
  BY <1>1, <1>2, LeaveStep DEF Ends
<1>3. CASE Goto(s, "write") /\ UNCHANGED <<task, lock, stale>>
  <2>1. UNCHANGED <<call, row, cached, todo, token, fresh, pend, lock, stale>>
    BY <1>3 DEF task
  <2>2. /\ pc' \in [Slots -> Steps] /\ pc'[s] = "write"
        /\ \A t \in Slots \ {s} : pc'[t] = pc[t]
    BY <1>3, GotoStep DEF Steps
  <2>3. LocalsTyped' /\ Apart(s)
    BY <2>1, <2>2 DEF LocalsTyped, Apart
  <2> QED
    BY <1>1, <2>1, <2>2, <2>3 DEF Moves
<1> QED
  BY <1>2, <1>3 DEF CheckCreate

LEMMA RefreshStep ==
  ASSUME LocalsTyped, NEW s \in Slots, Refresh(s)
  PROVE  Ends(s) \/ Moves(s)
<1>1. /\ pc[s] = "refresh"
      /\ UNCHANGED <<secrets, pointer, files, stamp, cause, torn>>
  BY DEF Refresh, db, counts
<1>2. CASE ~Exists(row[s].id) /\ Leave(s)
  BY <1>1, <1>2, LeaveStep DEF Ends
<1>3. CASE Exists(row[s].id) /\ Goto(s, "token") /\ UNCHANGED <<task, lock, stale>>
  <2>1. UNCHANGED <<call, row, cached, todo, token, fresh, pend, lock, stale>>
    BY <1>3 DEF task
  <2>2. /\ pc' \in [Slots -> Steps] /\ pc'[s] = "token"
        /\ \A t \in Slots \ {s} : pc'[t] = pc[t]
    BY <1>3, GotoStep DEF Steps
  <2>3. LocalsTyped' /\ Apart(s)
    BY <2>1, <2>2 DEF LocalsTyped, Apart
  <2> QED
    BY <1>1, <1>3, <2>1, <2>2, <2>3 DEF Moves
<1> QED
  BY <1>2, <1>3 DEF Refresh

LEMMA CheckRowStep ==
  ASSUME LocalsTyped, StoresTyped, NEW s \in Slots, CheckRow(s)
  PROVE  Ends(s) \/ Moves(s)
<1>1. /\ pc[s] = "check" /\ call[s].op \in {"rotate", "delete"}
      /\ UNCHANGED <<secrets, pointer, files, stamp, cause, torn>>
  BY DEF CheckRow, db, counts
<1>2. CASE ~Exists(call[s].id)
  BY <1>1, <1>2, LeaveStep DEF Ends, CheckRow
<1>3. CASE Exists(call[s].id)
  <2> DEFINE new == [id |-> call[s].id, kind |-> KindOf(call[s].id)]
  <2>1. /\ Goto(s, "write") /\ row' = [row EXCEPT ![s] = new]
        /\ UNCHANGED <<call, cached, todo, token, fresh, pend, lock, stale>>
    BY <1>3 DEF CheckRow
  <2>2. PICK r \in secrets : new = [id |-> r.id, kind |-> r.kind]
    BY <1>3 DEF Exists, KindOf
  <2>3. new \in [id : Nat, kind : Kinds \cup {None}]
    BY <2>2 DEF StoresTyped
  <2> HIDE DEF new
  <2>4. /\ pc' \in [Slots -> Steps] /\ pc'[s] = "write"
        /\ \A t \in Slots \ {s} : pc'[t] = pc[t]
    BY <2>1, GotoStep DEF Steps
  <2>5. /\ row' \in [Slots -> [id : Nat, kind : Kinds \cup {None}]] /\ row'[s] = new
        /\ \A t \in Slots \ {s} : row'[t] = row[t]
    BY <2>1, <2>3 DEF LocalsTyped
  <2>6. LocalsTyped' /\ Apart(s)
    BY <2>1, <2>4, <2>5 DEF LocalsTyped, Apart
  <2> QED
    BY <1>1, <2>1, <2>2, <2>4, <2>5, <2>6 DEF Moves
<1> QED
  BY <1>2, <1>3

(* A credential of kind k is created, rotated or deleted: rows of other    *)
(* kinds stay, ids keep their kind, and the request goes on or, when it is *)
(* of the administration panel, ends.                                      *)
RowsWritten(s, id, k) ==
  /\ UNCHANGED <<pointer, files, torn>> /\ stamp' \in Nat /\ stamp <= stamp' /\ id <= stamp'
  /\ secrets' \subseteq [id : Nat, kind : Kinds, name : Names, val : Nat]
  /\ \A r \in secrets' : r.id \in 1..stamp' /\ \A q \in secrets' : q.id = r.id => q = r
  /\ \A r \in secrets' : r.kind # k => r \in secrets
  /\ \A r \in secrets : r.kind # k => r \in secrets'
  /\ \A r \in secrets' : r.id > stamp \/ \E q \in secrets : q.id = r.id /\ q.kind = r.kind
  /\ \A r \in secrets' : r.id = id => r.kind = k

Writes(s, id, k) ==
  /\ pc[s] = "write" /\ id \in Nat /\ k \in Kinds
  /\ LocalsTyped' /\ StoresTyped' /\ Apart(s) /\ WrittenBy(s, k) /\ RowsWritten(s, id, k)
  /\ fresh'[s] = fresh[s] /\ pend'[s] = {}
  /\ \/ /\ pc'[s] = "free" /\ row'[s] = NoRow /\ todo'[s] = <<>>
        /\ cached'[s] = NoFiles /\ call'[s] = Idle
        /\ cause' = [cause EXCEPT ![k] = @ \cup {"admin"}]
     \/ /\ (pc'[s] = "refresh" /\ \E r \in secrets' : r.id = id) \/ pc'[s] = "token"
        /\ row'[s] = [id |-> id, kind |-> k] /\ todo'[s] = <<k>>
        /\ cached'[s] = cached[s] /\ call'[s] = call[s]
        /\ cause' = cause

LEMMA WritesStep ==
  ASSUME LocalsTyped, StoresTyped, StepsMatch, NEW s \in Slots, pc[s] = "write",
         NEW id \in Nat, NEW k \in Kinds, NEW next \in {"refresh", "token"},
         AfterWrite(s, id, k, next), UNCHANGED <<token, fresh, pend, lock>>,
         RowsWritten(s, id, k), next = "refresh" => \E r \in secrets' : r.id = id
  PROVE  Writes(s, id, k)
<1>1. /\ LocalsTyped' /\ Apart(s) /\ WrittenBy(s, k)
      /\ fresh'[s] = fresh[s] /\ pend'[s] = {}
      /\ \/ /\ pc'[s] = "free" /\ row'[s] = NoRow /\ todo'[s] = <<>>
            /\ cached'[s] = NoFiles /\ call'[s] = Idle
            /\ cause' = [cause EXCEPT ![k] = @ \cup {"admin"}]
         \/ /\ pc'[s] = next /\ row'[s] = [id |-> id, kind |-> k] /\ todo'[s] = <<k>>
            /\ cached'[s] = cached[s] /\ call'[s] = call[s]
            /\ cause' = cause
  BY WriteStep
<1>2. cause' \in [Kinds -> SUBSET Causes]
  BY <1>1 DEF StoresTyped, Causes
<1>3. StoresTyped'
  BY <1>2 DEF StoresTyped, RowsWritten
<1> QED
  BY <1>1, <1>3 DEF Writes

LEMMA InsertStep ==
  ASSUME LocalsTyped, StoresTyped, StepsMatch, IdsOwned, NEW s \in Slots, InsertCredential(s)
  PROVE  \E id, k : Writes(s, id, k)
<1> DEFINE new == [id |-> stamp + 1, kind |-> call[s].kind,
                   name |-> call[s].name, val |-> stamp + 1]
<1>1. /\ pc[s] = "write" /\ call[s].op = "create"
      /\ secrets' = secrets \cup {new} /\ stamp' = stamp + 1
      /\ AfterWrite(s, stamp + 1, call[s].kind, "refresh")
      /\ UNCHANGED <<pointer, files, token, fresh, pend, lock, torn>>
  BY DEF InsertCredential
<1>2. call[s].kind \in Kinds /\ call[s].name \in Names
  <2>1. call[s] \in Requests /\ call[s].op = "create"
    BY <1>1 DEF LocalsTyped
  <2>2. call[s] \in [op : {"create"}, panel : Panels, kind : Kinds, name : Names]
    BY <2>1 DEF Requests, Idle
  <2> QED
    BY <2>2
<1>3. /\ new.id = stamp + 1 /\ new.kind = call[s].kind
      /\ new.name = call[s].name /\ new.val = stamp + 1
  OBVIOUS
<1> HIDE DEF new
<1>4. stamp \in Nat /\ \A r \in secrets : r.id \in 1..stamp /\ \A q \in secrets : q.id = r.id => q = r
  BY DEF IdsOwned, StoresTyped
<1>5. RowsWritten(s, stamp + 1, call[s].kind)
  <2> DEFINE k == call[s].kind
  <2>1. k \in Kinds /\ new.kind = k
    BY <1>2, <1>3
  <2> HIDE DEF k
  <2>2. new \in [id : Nat, kind : Kinds, name : Names, val : Nat]
    BY <1>2, <1>4 DEF new
  <2>3. /\ stamp' \in Nat /\ stamp <= stamp' /\ stamp + 1 <= stamp'
        /\ secrets' \subseteq [id : Nat, kind : Kinds, name : Names, val : Nat]
    BY <1>1, <1>4, <2>2 DEF StoresTyped
  <2>4. \A r \in secrets' : r.id \in 1..stamp' /\ \A q \in secrets' : q.id = r.id => q = r
    BY <1>1, <1>3, <1>4
  <2>5. /\ \A r \in secrets' : r.kind # k => r \in secrets
        /\ \A r \in secrets : r.kind # k => r \in secrets'
        /\ \A r \in secrets' : r.id > stamp \/ \E q \in secrets : q.id = r.id /\ q.kind = r.kind
        /\ \A r \in secrets' : r.id = stamp + 1 => r.kind = k
    BY <1>1, <1>3, <1>4, <2>1
  <2>6. RowsWritten(s, stamp + 1, k)
    BY <1>1, <2>3, <2>4, <2>5 DEF RowsWritten
  <2> QED
    BY <2>6 DEF k
<1>6. \E r \in secrets' : r.id = stamp + 1
  BY <1>1, <1>3
<1> QED
  BY <1>1, <1>2, <1>4, <1>5, <1>6, WritesStep

LEMMA RotateStep ==
  ASSUME LocalsTyped, StoresTyped, StepsMatch, IdsOwned, NEW s \in Slots, RotateCredential(s)
  PROVE  Ends(s) \/ \E id, k : Writes(s, id, k)
<1> DEFINE Rotated(r) == IF r.id = row[s].id THEN [r EXCEPT !.val = stamp + 1] ELSE r
<1>1. /\ pc[s] = "write" /\ call[s].op = "rotate"
      /\ UNCHANGED <<pointer, files, torn>>
  BY DEF RotateCredential
<1>2. CASE ~Exists(row[s].id)
  BY <1>1, <1>2, LeaveStep DEF RotateCredential, Ends
<1>3. CASE Exists(row[s].id)
  <2>1. /\ secrets' = {Rotated(r) : r \in secrets} /\ stamp' = stamp + 1
        /\ AfterWrite(s, row[s].id, row[s].kind, "refresh")
        /\ UNCHANGED <<token, fresh, pend, lock>>
    BY <1>3 DEF RotateCredential
  <2>2. /\ row[s].kind \in Kinds /\ row[s].id \in Nat /\ row[s].id <= stamp /\ stamp \in Nat
        /\ \A r \in secrets : r.id = row[s].id => r.kind = row[s].kind
    BY <1>1 DEF StepsMatch, AtStep, IdsOwned, LocalsTyped, StoresTyped
  <2>3. \A r \in secrets : r.id \in 1..stamp /\ \A q \in secrets : q.id = r.id => q = r
    BY DEF IdsOwned
  <2>4. \A r \in secrets :
          /\ Rotated(r) \in [id : Nat, kind : Kinds, name : Names, val : Nat]
          /\ Rotated(r).id = r.id /\ Rotated(r).kind = r.kind
          /\ r.id # row[s].id => Rotated(r) = r
    BY <2>2 DEF StoresTyped
  <2> HIDE DEF Rotated
  <2>5. /\ secrets' \subseteq [id : Nat, kind : Kinds, name : Names, val : Nat]
        /\ \A r \in secrets' : r.id \in 1..stamp /\ \A q \in secrets' : q.id = r.id => q = r
        /\ \A r \in secrets' : \E q \in secrets : q.id = r.id /\ q.kind = r.kind
    BY <2>1, <2>3, <2>4
  <2>6. /\ \A r \in secrets' : r.kind # row[s].kind => r \in secrets
        /\ \A r \in secrets : r.kind # row[s].kind => r \in secrets'
        /\ \A r \in secrets' : r.id = row[s].id => r.kind = row[s].kind
    BY <2>1, <2>2, <2>4
  <2>7. RowsWritten(s, row[s].id, row[s].kind)
    BY <1>1, <2>1, <2>2, <2>5, <2>6 DEF RowsWritten
  <2>8. \E r \in secrets' : r.id = row[s].id
    BY <1>3, <2>1, <2>4 DEF Exists
  <2> QED
    BY <1>1, <2>1, <2>2, <2>7, <2>8, WritesStep
<1> QED
  BY <1>2, <1>3

LEMMA DeleteStep ==
  ASSUME LocalsTyped, StoresTyped, StepsMatch, IdsOwned, NEW s \in Slots, DeleteCredential(s)
  PROVE  \E id, k : Writes(s, id, k)
<1>1. /\ pc[s] = "write" /\ call[s].op = "delete"
      /\ secrets' = {r \in secrets : r.id # row[s].id}
      /\ AfterWrite(s, row[s].id, row[s].kind, "token")
      /\ UNCHANGED <<pointer, files, token, fresh, pend, lock, stamp, torn>>
  BY DEF DeleteCredential, counts
<1>2. /\ row[s].kind \in Kinds /\ row[s].id \in Nat /\ row[s].id <= stamp /\ stamp \in Nat
      /\ \A r \in secrets : r.id = row[s].id => r.kind = row[s].kind
      /\ \A r \in secrets : r.id \in 1..stamp /\ \A q \in secrets : q.id = r.id => q = r
  BY <1>1 DEF StepsMatch, AtStep, IdsOwned, LocalsTyped, StoresTyped
<1>3. RowsWritten(s, row[s].id, row[s].kind)
  BY <1>1, <1>2 DEF RowsWritten, StoresTyped
<1> QED
  BY <1>1, <1>2, <1>3, WritesStep

(* Every step has one of these effects.                                    *)
Effects(s) ==
  \/ Begins(s) \/ Ends(s) \/ Moves(s) \/ \E id, k : Writes(s, id, k)
  \/ Reads(s, Current(s)) \/ Uploads(s, Current(s)) \/ Flushes(s, Current(s))
  \/ Purges(s, Current(s)) \/ Commits(s) \/ Crashes(s)

LEMMA StepEffects ==
  ASSUME IInv, NEW s \in Slots, Serve(s)
  PROVE  Effects(s)
<1>1. LocalsTyped /\ StoresTyped /\ StepsMatch /\ IdsOwned
  BY TypeParts DEF IInv
<1> QED
  BY <1>1, BeginStep, CheckCreateStep, InsertStep, CheckRowStep, RotateStep, DeleteStep,
     RefreshStep, ReadStep, UploadStep, FlushStep, PurgeStep, CommitStep, CrashStep
     DEF Serve, Effects

-----------------------------------------------------------------------------
(* What every step preserves.                                              *)

LEMMA Parts ==
  ASSUME IInv
  PROVE  /\ LocalsTyped /\ StoresTyped /\ PointerLive /\ IdsOwned /\ FreshKept
         /\ StepsMatch /\ TokenFresh /\ Owed
BY TypeParts DEF IInv

(* What is asked of a coroutine changes only by its own steps.             *)
LEMMA OthersAsked ==
  ASSUME NEW s \in Slots, NEW t \in Slots \ {s}, Apart(s)
  PROVE  Current(t)' = Current(t) /\ \A k : Asked(t, k)' <=> Asked(t, k)
BY DEF Apart, Current, Asked

LEMMA SameAsked ==
  ASSUME NEW s \in Slots, todo'[s] = todo[s]
  PROVE  Current(s)' = Current(s) /\ \A k : Asked(s, k)' <=> Asked(s, k)
BY DEF Current, Asked

LEMMA NothingAsked ==
  ASSUME NEW s \in Slots
  PROVE  /\ todo[s] = <<>> => \A k : ~Asked(s, k)
         /\ todo'[s] = <<>> => \A k : ~Asked(s, k)'
BY NoneAsked DEF Asked, In

LEMMA NowAsked ==
  ASSUME NEW s \in Slots, NEW k \in Kinds, todo'[s] = <<k>>
  PROVE  todo'[s] # <<>> /\ Current(s)' = k /\ \A j : Asked(s, j)' <=> j = k
<1>1. <<k>> # <<>> /\ Head(<<k>>) = k /\ \A j : In(<<k>>, j) <=> j = k
  BY OneAsked
<1>2. \A j : Asked(s, j)' <=> In(todo'[s], j)
  BY DEF Asked, In
<1>3. Current(s)' = IF todo'[s] = <<>> THEN None ELSE Head(todo'[s])
  BY DEF Current
<1> QED
  BY <1>1, <1>2, <1>3

LEMMA RestAsked ==
  ASSUME LocalsTyped, StepsMatch, NEW s \in Slots, todo[s] # <<>>, todo'[s] = Tail(todo[s])
  PROVE  /\ todo'[s] \in Seq(Kinds) /\ Once(todo'[s])
         /\ \A k : Asked(s, k)' <=> Asked(s, k) /\ k # Current(s)
<1>1. todo[s] \in Seq(Kinds) /\ Once(todo[s])
  BY DEF LocalsTyped, StepsMatch, AtStep, Once
<1>2. Current(s) = Head(todo[s])
  BY DEF Current
<1>3. /\ \A k : Asked(s, k) <=> In(todo[s], k)
      /\ \A k : Asked(s, k)' <=> In(Tail(todo[s]), k)
  BY DEF Asked, In
<1> QED
  BY <1>1, <1>2, <1>3, HeadAndTail

(* The coroutine that ends has nothing left.                               *)
LEMMA LeftStep ==
  ASSUME NEW s \in Slots, Left(s)
  PROVE  AtStep(s)' /\ Current(s)' = None /\ \A k : ~Asked(s, k)'
BY NothingAsked, NoneAsked DEF Left, AtStep, Current, Once

LEMMA StepsMatchKept ==
  ASSUME IInv, NEW s \in Slots, Effects(s)
  PROVE  StepsMatch'
<1>1. LocalsTyped /\ StoresTyped /\ StepsMatch /\ AtStep(s)
  BY Parts DEF StepsMatch
<1>2. Apart(s)
  BY DEF Effects, Begins, Ends, Moves, Writes, Reads, Uploads, Flushes, Purges, Commits, Crashes
<1>3. ASSUME NEW t \in Slots \ {s} PROVE AtStep(t)'
  BY <1>1, <1>2, <1>3, OthersAsked DEF StepsMatch, AtStep, Apart
<1>4. CASE Left(s)
  BY <1>3, <1>4, LeftStep DEF StepsMatch
<1>5. CASE Begins(s)
  <2>1. Once(KindOrder) /\ KindOrder # <<>>
    BY SecretFilesConstants, LenProperties DEF Once
  <2>2. pend'[s] = {} /\ Once(todo'[s])
    BY <1>1, <1>5, <2>1, NoneAsked DEF Begins, AtStep
  <2>3. AtStep(s)'
    BY <1>5, <2>1, <2>2 DEF Begins, AtStep, Once
  <2> QED
    BY <1>3, <2>3 DEF StepsMatch
<1>6. CASE Moves(s)
  <2>1. Current(s)' = Current(s) /\ \A k : Asked(s, k)' <=> Asked(s, k)
    BY <1>6, SameAsked DEF Moves
  <2>2. AtStep(s)'
    <3>1. CASE pc[s] = "check"
      <4>1. \/ call[s].op = "create" /\ row'[s] = row[s]
            \/ /\ call[s].op \in {"rotate", "delete"}
               /\ \E r \in secrets : row'[s] = [id |-> r.id, kind |-> r.kind]
        BY <1>6, <3>1 DEF Moves
      <4>2. call[s].op \in {"rotate", "delete"} => row'[s].kind \in Kinds
        <5>1. \A r \in secrets : r.kind \in Kinds
          BY <1>1 DEF StoresTyped
        <5>2. \A r : [id |-> r.id, kind |-> r.kind].kind = r.kind
          OBVIOUS
        <5> QED
          BY <4>1, <5>1, <5>2
      <4>3. /\ todo'[s] = <<>> /\ pend'[s] = {} /\ pc'[s] = "write" /\ call'[s] = call[s]
            /\ call[s].op \in {"create", "rotate", "delete"}
        BY <1>1, <1>6, <3>1, <4>1 DEF Moves, AtStep
      <4> QED
        <5>1. Once(todo'[s])
          BY <4>3, NoneAsked
        <5> QED
          BY <4>2, <4>3, <5>1 DEF AtStep, Once
    <3>2. CASE pc[s] = "refresh"
      BY <1>1, <1>6, <2>1, <3>2 DEF Moves, AtStep
    <3> QED
      BY <1>6, <3>1, <3>2 DEF Moves
  <2> QED
    BY <1>3, <2>2 DEF StepsMatch
<1>7. CASE \E id, k : Writes(s, id, k)
  <2>1. PICK id, k : Writes(s, id, k)
    BY <1>7
  <2>2. CASE todo'[s] = <<>>
    BY <1>3, <2>1, <2>2, NothingAsked, NoneAsked DEF Writes, StepsMatch, AtStep, Once
  <2>3. CASE todo'[s] = <<k>>
    <3>1. k \in Kinds /\ pend'[s] = {} /\ pc'[s] \in {"refresh", "token"} /\ row'[s].kind = k
      BY <2>1, <2>3, OneAsked DEF Writes
    <3>2. todo'[s] # <<>> /\ Once(todo'[s])
      BY <2>3, <3>1, OneAsked
    <3>3. AtStep(s)'
      BY <2>3, <3>1, <3>2 DEF AtStep, Once
    <3> QED
      BY <1>3, <3>3 DEF StepsMatch
  <2> QED
    BY <2>1, <2>2, <2>3 DEF Writes
<1>8. CASE /\ Reads(s, Current(s)) \/ Uploads(s, Current(s)) \/ Purges(s, Current(s))
           /\ todo[s] # <<>> /\ todo'[s] = Tail(todo[s]) /\ fresh'[s] = fresh[s]
           /\ pc'[s] = IF todo'[s] = <<>> THEN "commit" ELSE "token"
  <2>1. /\ Once(todo'[s]) /\ pend'[s] = pend[s]
        /\ \A k : Asked(s, k)' <=> Asked(s, k) /\ k # Current(s)
    BY <1>1, <1>8, RestAsked DEF Reads, Uploads, Purges
  <2>2. AtStep(s)'
    BY <1>1, <1>8, <2>1 DEF AtStep, Once
  <2> QED
    BY <1>3, <2>2 DEF StepsMatch
<1>9. CASE /\ Reads(s, Current(s)) \/ Uploads(s, Current(s)) \/ Flushes(s, Current(s))
           /\ todo'[s] = todo[s] /\ pc'[s] \in {"upload", "flush", "purge"}
  <2>1. Current(s)' = Current(s) /\ \A k : Asked(s, k)' <=> Asked(s, k)
    BY <1>9, SameAsked
  <2>2. todo[s] # <<>>
    BY <1>9 DEF Reads, Uploads, Flushes
  <2>3. CASE Reads(s, Current(s)) /\ pc'[s] = "upload"
    BY <1>1, <1>3, <1>9, <2>1, <2>2, <2>3 DEF Reads, AtStep, StepsMatch
  <2>4. CASE Uploads(s, Current(s)) /\ pc'[s] = "flush"
    <3>1. /\ \A k \in Kinds \ {Current(s)} : fresh'[s][k] = fresh[s][k]
          /\ fresh'[s][Current(s)] = stamp + 1 /\ stamp + 1 # 0
      <4>1. fresh[s] \in [Kinds -> Nat] /\ Current(s) \in Kinds /\ stamp \in Nat
        BY <1>1, <2>4 DEF Uploads, LocalsTyped, StoresTyped
      <4>2. fresh'[s] = [fresh[s] EXCEPT ![Current(s)] = stamp + 1]
        BY <2>4 DEF Uploads
      <4> QED
        BY <4>1, <4>2
    <3>2. pend'[s] = pend[s] /\ pend[s] \subseteq Kinds
      BY <1>1, <2>4 DEF Uploads, LocalsTyped
    <3> QED
      BY <1>1, <1>3, <1>9, <2>1, <2>2, <2>4, <3>1, <3>2 DEF Uploads, AtStep, StepsMatch
  <2>5. CASE Flushes(s, Current(s))
    BY <1>1, <1>3, <1>9, <2>1, <2>2, <2>5 DEF Flushes, AtStep, StepsMatch
  <2> QED
    BY <1>9, <2>3, <2>4, <2>5 DEF Reads, Uploads
<1> QED
  BY <1>4, <1>5, <1>6, <1>7, <1>8, <1>9
     DEF Effects, Ends, Reads, Uploads, Flushes, Purges, Commits, Crashes

LEMMA TypeKept ==
  ASSUME IInv, NEW s \in Slots, Effects(s)
  PROVE  LocalsTyped' /\ StoresTyped'
<1>1. LocalsTyped /\ StoresTyped
  BY Parts
<1>2. LocalsTyped' /\ Apart(s)
  BY DEF Effects, Begins, Ends, Moves, Writes, Reads, Uploads, Flushes, Purges, Commits, Crashes
<1>3. StoresTyped'
  <2>1. CASE Begins(s) \/ Ends(s) \/ Moves(s) \/ Flushes(s, Current(s)) \/ Purges(s, Current(s))
    BY <1>1, <2>1 DEF Begins, Ends, Moves, Flushes, Purges, StoresTyped
  <2>2. CASE \E id, k : Writes(s, id, k)
    BY <2>2 DEF Writes
  <2>3. CASE Reads(s, Current(s))
    BY <1>1, <2>3 DEF Reads, StoresTyped, Causes
  <2>4. CASE Uploads(s, Current(s))
    <3>1. [id |-> stamp + 1, kind |-> Current(s), val |-> token[s]] \in [id : Nat, kind : Kinds, val : Nat]
      BY <1>1, <2>4 DEF Uploads, StoresTyped, LocalsTyped
    <3>2. /\ files' \subseteq [id : Nat, kind : Kinds, val : Nat]
          /\ stamp' \in Nat /\ UNCHANGED <<secrets, pointer>>
      BY <1>1, <2>4, <3>1 DEF Uploads, StoresTyped
    <3>3. cause' \in [Kinds -> SUBSET Causes]
      BY <1>1, <2>4 DEF Uploads, StoresTyped, Causes
    <3> QED
      BY <1>1, <3>2, <3>3 DEF StoresTyped
  <2>5. CASE Commits(s)
    <3>1. \A k \in Kinds : fresh[s][k] \in Nat /\ pointer[k] \in Nat /\ cause[k] \subseteq Causes
      BY <1>1 DEF LocalsTyped, StoresTyped
    <3>2. pointer' \in [Kinds -> Nat] /\ cause' \in [Kinds -> SUBSET Causes]
      BY <2>5, <3>1 DEF Commits, Causes
    <3> QED
      BY <1>1, <2>5, <3>2 DEF Commits, StoresTyped
  <2>6. CASE Crashes(s)
    <3>1. cause' \in [Kinds -> SUBSET Causes]
      BY <1>1, <2>6 DEF Crashes, StoresTyped, Causes
    <3> QED
      BY <1>1, <2>6, <3>1 DEF Crashes, StoresTyped
  <2> QED
    BY <2>1, <2>2, <2>3, <2>4, <2>5, <2>6 DEF Effects
<1> QED
  BY <1>2, <1>3

(* Where the file ids a step stores come from.                             *)
LEMMA IdsFrom ==
  ASSUME IInv, NEW s \in Slots, Effects(s)
  PROVE  /\ stamp' \in Nat /\ stamp <= stamp'
         /\ \A j \in Kinds :
              \/ pointer'[j] = pointer[j]
              \/ Commits(s) /\ j \in pend[s] /\ pointer'[j] = fresh[s][j]
         /\ \A t \in Slots, j \in Kinds :
              /\ cached'[t][j] \in {cached[t][j], 0, pointer[j]}
              /\ \/ fresh'[t][j] \in {fresh[t][j], 0}
                 \/ /\ t = s /\ j = Current(s) /\ fresh'[t][j] = stamp + 1 /\ stamp' = stamp + 1
                    /\ \E f \in files' : f.id = stamp + 1
         /\ \A f \in files' :
              \/ f \in files
              \/ f.id = stamp + 1 /\ f.kind = Current(s) /\ stamp' = stamp + 1
<1>1. LocalsTyped /\ StoresTyped
  BY Parts
<1>2. Apart(s)
  BY DEF Effects, Begins, Ends, Moves, Writes, Reads, Uploads, Flushes, Purges, Commits, Crashes
<1>3. stamp' \in Nat /\ stamp <= stamp'
  <2>1. stamp' = stamp \/ stamp' = stamp + 1 \/ (stamp' \in Nat /\ stamp <= stamp')
    BY DEF Effects, Begins, Ends, Moves, Writes, Reads, Uploads, Flushes, Purges, Commits,
           Crashes, RowsWritten
  <2> QED
    BY <1>1, <2>1 DEF StoresTyped
<1>4. ASSUME NEW j \in Kinds
      PROVE  \/ pointer'[j] = pointer[j]
             \/ Commits(s) /\ j \in pend[s] /\ pointer'[j] = fresh[s][j]
  BY DEF Effects, Begins, Ends, Moves, Writes, Reads, Uploads, Flushes, Purges, Commits,
         Crashes, RowsWritten
<1>5. ASSUME NEW t \in Slots, NEW j \in Kinds
      PROVE  cached'[t][j] \in {cached[t][j], 0, pointer[j]}
  <2>1. CASE t # s
    BY <1>2, <2>1 DEF Apart
  <2>2. cached'[s] \in {cached[s], NoFiles, pointer}
    BY DEF Effects, Begins, Ends, Moves, Writes, Reads, Uploads, Flushes, Purges, Commits,
           Crashes, Left
  <2> QED
    BY <2>1, <2>2 DEF NoFiles
<1>6. ASSUME NEW t \in Slots, NEW j \in Kinds
      PROVE  \/ fresh'[t][j] \in {fresh[t][j], 0}
             \/ /\ t = s /\ j = Current(s) /\ fresh'[t][j] = stamp + 1 /\ stamp' = stamp + 1
                /\ \E f \in files' : f.id = stamp + 1
  <2>1. CASE t # s
    BY <1>2, <2>1 DEF Apart
  <2>2. CASE fresh'[s] \in {fresh[s], NoFiles}
    BY <2>1, <2>2 DEF NoFiles
  <2>3. CASE Uploads(s, Current(s)) /\ ~(fresh'[s] \in {fresh[s], NoFiles})
    <3>1. /\ fresh[s] \in [Kinds -> Nat] /\ fresh'[s] = [fresh[s] EXCEPT ![Current(s)] = stamp + 1]
          /\ [id |-> stamp + 1, kind |-> Current(s), val |-> token[s]] \in files'
          /\ stamp' = stamp + 1
      BY <1>1, <2>3 DEF Uploads, LocalsTyped
    <3> QED
      BY <2>1, <3>1
  <2> QED
    BY <2>2, <2>3 DEF Effects, Begins, Ends, Moves, Writes, Reads, Flushes, Purges, Commits,
           Crashes, Left
<1>7. ASSUME NEW f \in files'
      PROVE  \/ f \in files
             \/ f.id = stamp + 1 /\ f.kind = Current(s) /\ stamp' = stamp + 1
  <2>1. CASE Uploads(s, Current(s))
    BY <2>1 DEF Uploads
  <2>2. CASE files' \subseteq files
    BY <2>2
  <2> QED
    BY <2>1, <2>2 DEF Effects, Begins, Ends, Moves, Writes, Reads, Flushes, Purges, Commits,
           Crashes, RowsWritten
<1> QED
  BY <1>3, <1>4, <1>5, <1>6, <1>7

LEMMA IdsOwnedKept ==
  ASSUME IInv, NEW s \in Slots, Effects(s)
  PROVE  IdsOwned'
<1>1. LocalsTyped /\ StoresTyped /\ IdsOwned
  BY Parts
<1>2. Apart(s)
  BY DEF Effects, Begins, Ends, Moves, Writes, Reads, Uploads, Flushes, Purges, Commits, Crashes
<1>3. /\ \A r \in secrets : r.id \in 1..stamp /\ \A q \in secrets : q.id = r.id => q = r
      /\ \A f \in files : f.id \in 1..stamp
      /\ \A t \in Slots : /\ row[t].id \in Nat /\ row[t].id <= stamp
                          /\ \A r \in secrets : r.id = row[t].id => r.kind = row[t].kind
  BY <1>1 DEF IdsOwned, LocalsTyped
<1>4. \A j \in Kinds : /\ pointer[j] \in Nat /\ pointer[j] <= stamp
                       /\ \A t \in Slots : /\ cached[t][j] \in Nat /\ cached[t][j] <= stamp
                                           /\ fresh[t][j] \in Nat /\ fresh[t][j] <= stamp
  BY <1>1 DEF IdsOwned, LocalsTyped, StoresTyped
<1>5. stamp \in Nat /\ stamp' \in Nat /\ stamp <= stamp'
  BY <1>1, IdsFrom DEF StoresTyped
<1>6. \A r \in secrets' : r.id \in 1..stamp' /\ \A q \in secrets' : q.id = r.id => q = r
  <2>1. CASE \E id, k : Writes(s, id, k)
    BY <2>1 DEF Writes, RowsWritten
  <2>2. CASE UNCHANGED secrets
    BY <1>3, <1>5, <2>2
  <2> QED
    BY <2>1, <2>2 DEF Effects, Begins, Ends, Moves, Reads, Uploads, Flushes, Purges, Commits, Crashes
<1>7. \A f \in files' : f.id \in 1..stamp'
  BY <1>3, <1>5, IdsFrom
<1>8. ASSUME NEW t \in Slots
      PROVE  row'[t].id <= stamp' /\ \A r \in secrets' : r.id = row'[t].id => r.kind = row'[t].kind
  <2>1. NoRow.id = 0 /\ \A r \in secrets' : r.id # 0
    BY <1>5, <1>6 DEF NoRow
  <2>2. CASE \E id, k : Writes(s, id, k)
    <3>1. PICK id, k : Writes(s, id, k)
      BY <2>2
    <3>2. RowsWritten(s, id, k)
      BY <3>1 DEF Writes
    <3>3. CASE t # s
      <4>1. row'[t] = row[t]
        BY <1>2, <3>3 DEF Apart
      <4> QED
        BY <1>3, <1>5, <3>2, <4>1 DEF RowsWritten
    <3>4. CASE t = s
      <4>1. row'[s] = NoRow \/ row'[s] = [id |-> id, kind |-> k]
        BY <3>1 DEF Writes
      <4> QED
        BY <1>5, <2>1, <3>2, <3>4, <4>1 DEF RowsWritten
    <3> QED
      BY <3>3, <3>4
  <2>3. CASE UNCHANGED secrets /\ (row'[t] = row[t] \/ row'[t] = NoRow)
    BY <1>3, <1>5, <2>1, <2>3
  <2>4. CASE UNCHANGED secrets /\ \E r \in secrets : row'[t] = [id |-> r.id, kind |-> r.kind]
    BY <1>3, <1>5, <2>4
  <2> QED
    BY <1>2, <2>2, <2>3, <2>4
       DEF Apart, Effects, Begins, Ends, Moves, Reads, Uploads, Flushes, Purges, Commits, Crashes, Left
<1>9. ASSUME NEW j \in Kinds
      PROVE  /\ pointer'[j] <= stamp'
             /\ \A t \in Slots : cached'[t][j] <= stamp' /\ fresh'[t][j] <= stamp'
  BY <1>4, <1>5, IdsFrom
<1>10. ASSUME NEW f \in files', NEW j \in Kinds,
              f.id = pointer'[j] \/ \E t \in Slots : f.id \in {cached'[t][j], fresh'[t][j]}
       PROVE  f.kind = j
  <2>1. CASE f \in files
    <3>1. f.id \in 1..stamp
      BY <1>3, <2>1
    <3>2. f.id = pointer[j] \/ \E t \in Slots : f.id \in {cached[t][j], fresh[t][j]}
      BY <1>4, <1>5, <1>10, <3>1, IdsFrom
    <3> QED
      BY <1>1, <2>1, <3>2 DEF IdsOwned
  <2>2. CASE f.id = stamp + 1 /\ f.kind = Current(s)
    BY <1>4, <1>5, <1>10, <2>2, IdsFrom
  <2> QED
    BY <2>1, <2>2, IdsFrom
<1> QED
  BY <1>6, <1>7, <1>8, <1>9, <1>10 DEF IdsOwned

(* Files that have just been uploaded are not deleted.                     *)
LEMMA FreshStays ==
  ASSUME IInv, NEW s \in Slots, Effects(s)
  PROVE  FreshKept'
<1>1. LocalsTyped /\ StoresTyped /\ IdsOwned /\ FreshKept
  BY Parts
<1>2. Apart(s)
  BY DEF Effects, Begins, Ends, Moves, Writes, Reads, Uploads, Flushes, Purges, Commits, Crashes
<1>3. stamp \in Nat /\ \A j \in Kinds : /\ pointer[j] \in Nat /\ pointer[j] <= stamp
                       /\ \A t \in Slots : /\ cached[t][j] \in Nat /\ cached[t][j] <= stamp
                                           /\ fresh[t][j] \in Nat /\ fresh[t][j] <= stamp
  BY <1>1 DEF IdsOwned, LocalsTyped, StoresTyped
<1> SUFFICES ASSUME NEW t \in Slots, NEW k \in Kinds, fresh'[t][k] # 0
             PROVE  /\ \E f \in files' : f.id = fresh'[t][k]
                    /\ \A j \in Kinds : pointer'[j] # fresh'[t][k]
                    /\ \A u \in Slots, j \in Kinds :
                        /\ cached'[u][j] # fresh'[t][k]
                        /\ fresh'[u][j] = fresh'[t][k] => u = t /\ j = k
  BY DEF FreshKept
<1>4. CASE fresh'[t][k] = fresh[t][k]
  <2>1. /\ \E f \in files : f.id = fresh[t][k]
        /\ \A j \in Kinds : pointer[j] # fresh[t][k]
        /\ \A u \in Slots, j \in Kinds :
            /\ cached[u][j] # fresh[t][k]
            /\ fresh[u][j] = fresh[t][k] => u = t /\ j = k
    BY <1>1, <1>4 DEF FreshKept
  <2>2. \E f \in files' : f.id = fresh[t][k]
    <3>1. CASE Purges(s, Current(s))
      BY <2>1, <3>1 DEF Purges
    <3>2. CASE files \subseteq files'
      BY <2>1, <3>2
    <3> QED
      BY <3>1, <3>2 DEF Effects, Begins, Ends, Moves, Writes, Reads, Uploads, Flushes, Commits,
             Crashes, RowsWritten
  <2>3. \A j \in Kinds : pointer'[j] # fresh[t][k]
    <3>1. ASSUME NEW j \in Kinds, Commits(s), j \in pend[s], pointer'[j] = fresh[s][j],
                 fresh[s][j] = fresh[t][k]
          PROVE  FALSE
      <4>1. s = t
        BY <2>1, <3>1
      <4>2. fresh'[s][k] = 0
        BY <3>1 DEF Commits, Left, NoFiles
      <4> QED
        BY <1>4, <3>1, <4>1, <4>2
    <3> QED
      BY <2>1, <3>1, IdsFrom
  <2>4. ASSUME NEW u \in Slots, NEW j \in Kinds
        PROVE  /\ cached'[u][j] # fresh[t][k]
               /\ fresh'[u][j] = fresh[t][k] => u = t /\ j = k
    BY <1>3, <1>4, <2>1, IdsFrom
  <2> QED
    BY <1>4, <2>2, <2>3, <2>4
<1>5. CASE fresh'[t][k] = stamp + 1 /\ t = s /\ k = Current(s) /\ stamp' = stamp + 1
           /\ \E f \in files' : f.id = stamp + 1
  <2>1. \A j \in Kinds : pointer'[j] # stamp + 1
    BY <1>3, IdsFrom
  <2>2. ASSUME NEW u \in Slots, NEW j \in Kinds
        PROVE  /\ cached'[u][j] # stamp + 1
               /\ fresh'[u][j] = stamp + 1 => u = t /\ j = k
    BY <1>3, <1>5, IdsFrom
  <2> QED
    BY <1>5, <2>1, <2>2
<1> QED
  BY <1>4, <1>5, IdsFrom

(* The file of kind k in use: where it was, it is, or its absence has a    *)
(* reason.                                                                 *)
LEMMA PointerLiveKept ==
  ASSUME IInv, NEW s \in Slots, Effects(s)
  PROVE  PointerLive'
<1>1. LocalsTyped /\ StoresTyped /\ IdsOwned /\ FreshKept /\ StepsMatch /\ PointerLive
  BY Parts
<1>2. Apart(s)
  BY DEF Effects, Begins, Ends, Moves, Writes, Reads, Uploads, Flushes, Purges, Commits, Crashes
<1>3. /\ AtStep(s)
      /\ \A t \in Slots \ {s} : pend'[t] = pend[t] /\ cached'[t] = cached[t]
  BY <1>1, <1>2 DEF StepsMatch, Apart
<1> SUFFICES ASSUME NEW k \in Kinds
             PROVE  \/ \E f \in files' : f.id = pointer'[k] /\ f.kind = k
                    \/ pointer'[k] = 0
                    \/ pointer'[k] \in torn'
                    \/ \E t \in Slots : k \in pend'[t] /\ cached'[t][k] = pointer'[k]
  BY DEF PointerLive
<1>4. \/ \E f \in files : f.id = pointer[k] /\ f.kind = k
      \/ pointer[k] = 0
      \/ pointer[k] \in torn
      \/ \E t \in Slots : k \in pend[t] /\ cached[t][k] = pointer[k]
  BY <1>1 DEF PointerLive
<1>5. CASE /\ files \subseteq files' /\ pointer' = pointer /\ torn' = torn
           /\ pend[s] \subseteq pend'[s] /\ (pend[s] # {} => cached'[s] = cached[s])
  BY <1>3, <1>4, <1>5
<1>6. CASE Purges(s, Current(s))
  <2>1. /\ Current(s) \in pend[s] /\ pend'[s] = pend[s] /\ cached'[s] = cached[s]
        /\ pointer' = pointer /\ torn' = torn
    BY <1>3, <1>6 DEF Purges, AtStep
  <2>2. ASSUME NEW f \in files, f.id = pointer[k], f.kind = k, f \notin files'
        PROVE  k \in pend'[s] /\ cached'[s][k] = pointer'[k]
    <3>1. f.id = cached[s][Current(s)] /\ Current(s) \in Kinds
      BY <1>6, <2>2 DEF Purges
    <3>2. k = Current(s)
      BY <1>1, <2>2, <3>1 DEF IdsOwned
    <3> QED
      BY <2>1, <2>2, <3>1, <3>2
  <2> QED
    BY <1>3, <1>4, <2>1, <2>2
<1>7. CASE Commits(s)
  <2>1. CASE k \in pend[s]
    <3>1. pointer'[k] = fresh[s][k] /\ files' = files
      BY <1>7, <2>1 DEF Commits
    <3>2. fresh[s][k] # 0
      BY <1>3, <2>1 DEF AtStep
    <3>3. PICK f \in files : f.id = fresh[s][k]
      BY <1>1, <3>2 DEF FreshKept
    <3>4. f.kind = k
      BY <1>1, <3>3 DEF IdsOwned
    <3> QED
      BY <3>1, <3>3, <3>4
  <2>2. CASE k \notin pend[s]
    <3>1. pointer'[k] = pointer[k] /\ files' = files /\ torn' = torn
      BY <1>7, <2>2 DEF Commits
    <3> QED
      BY <1>3, <1>4, <2>2, <3>1
  <2> QED
    BY <2>1, <2>2
<1>8. CASE Crashes(s)
  <2>1. /\ files' = files /\ pointer' = pointer /\ torn \subseteq torn'
        /\ k \in pend[s] => cached[s][k] \in torn'
    BY <1>8 DEF Crashes
  <2> QED
    BY <1>3, <1>4, <2>1
<1> QED
  <2>1. CASE Begins(s) \/ Ends(s) \/ Moves(s) \/ \E id, j : Writes(s, id, j)
    <3>1. pend[s] = {}
      BY <1>3, <2>1 DEF Begins, Ends, Moves, Writes, AtStep
    <3>2. files' = files /\ pointer' = pointer /\ torn' = torn
      BY <2>1 DEF Begins, Ends, Moves, Writes, RowsWritten
    <3> QED
      BY <1>5, <3>1, <3>2
  <2>2. CASE Reads(s, Current(s)) \/ Uploads(s, Current(s)) \/ Flushes(s, Current(s))
    BY <1>5, <2>2 DEF Reads, Uploads, Flushes
  <2> QED
    BY <1>6, <1>7, <1>8, <2>1, <2>2 DEF Effects

(* The newest credential of a kind changes only with a write of that kind. *)
LEMMA NewestSame ==
  ASSUME NEW s \in Slots, Effects(s), NEW k
  PROVE  \/ \A v : Newest(k, v)' <=> Newest(k, v)
         \/ \E id : Writes(s, id, k)
<1>1. CASE \E id : Writes(s, id, k)
  BY <1>1
<1>2. CASE RowsOf(k)' = RowsOf(k)
  BY <1>2 DEF Newest
<1>3. CASE UNCHANGED secrets
  BY <1>2, <1>3 DEF RowsOf
<1>4. CASE \E id, j : Writes(s, id, j) /\ j # k
  <2>1. PICK id, j : Writes(s, id, j) /\ j # k
    BY <1>4
  <2>2. RowsOf(k)' = RowsOf(k)
    BY <2>1 DEF Writes, RowsWritten, RowsOf
  <2> QED
    BY <1>2, <2>2
<1> QED
  BY <1>1, <1>3, <1>4
     DEF Effects, Begins, Ends, Moves, Reads, Uploads, Flushes, Purges, Commits, Crashes

(* What coroutine t must know of kind k: the token it is about to upload,  *)
(* and the file it has uploaded, are the newest.                           *)
UpToDate(t, k) ==
  /\ pc[t] = "upload" /\ k = Current(t) => Newest(k, token[t])
  /\ (pc[t] \in {"flush", "purge"} /\ k = Current(t)) \/ k \in pend[t] =>
      \E f \in files : f.id = fresh[t][k] /\ Newest(k, f.val)

LEMMA TokenFreshKept ==
  ASSUME IInv, NEW s \in Slots, Effects(s)
  PROVE  TokenFresh'
<1>1. LocalsTyped /\ StoresTyped /\ IdsOwned /\ FreshKept /\ StepsMatch /\ TokenFresh
  BY Parts
<1>2. Apart(s)
  BY DEF Effects, Begins, Ends, Moves, Writes, Reads, Uploads, Flushes, Purges, Commits, Crashes
<1>3. AtStep(s)
  BY <1>1 DEF StepsMatch
<1>4. \A t \in Slots, k \in Kinds : k \notin stale[t] => UpToDate(t, k)
  BY <1>1 DEF TokenFresh, UpToDate
<1>5. ASSUME NEW t \in Slots \ {s}, NEW k \in Kinds, k \notin stale'[t] PROVE UpToDate(t, k)'
  <2>1. /\ pc'[t] = pc[t] /\ token'[t] = token[t] /\ fresh'[t] = fresh[t] /\ pend'[t] = pend[t]
        /\ Current(t)' = Current(t)
    BY <1>2, OthersAsked DEF Apart
  <2>2. CASE \E id : Writes(s, id, k)
    <3>1. WrittenBy(s, k)
      BY <2>2 DEF Writes
    <3>2. ~(pc[t] \in {"upload", "flush", "purge"} /\ k = Current(t)) /\ k \notin pend[t]
      BY <1>5, <3>1 DEF WrittenBy
    <3> QED
      BY <2>1, <3>2 DEF UpToDate
  <2>3. CASE \A v : Newest(k, v)' <=> Newest(k, v)
    <3>1. k \notin stale[t]
      BY <1>1, <1>5 DEF Effects, Begins, Ends, Moves, Writes, Reads, Uploads, Flushes, Purges,
         Commits, Crashes, Left, WrittenBy, LocalsTyped
    <3>2. UpToDate(t, k)
      BY <1>4, <3>1
    <3>3. ASSUME NEW f \in files, f.id = fresh[t][k], fresh[t][k] # 0 PROVE f \in files'
      <4>1. CASE Purges(s, Current(s))
        <5>1. f.id # cached[s][Current(s)]
          BY <1>1, <3>3, <4>1 DEF FreshKept, Purges
        <5> QED
          BY <4>1, <5>1 DEF Purges
      <4> QED
        BY <4>1 DEF Effects, Begins, Ends, Moves, Writes, Reads, Uploads, Flushes,
           Commits, Crashes, RowsWritten
    <3>4. (pc[t] \in {"flush", "purge"} /\ k = Current(t)) \/ k \in pend[t] => fresh[t][k] # 0
      BY <1>1 DEF StepsMatch, AtStep
    <3>5. /\ pc'[t] = "upload" /\ k = Current(t)' => Newest(k, token[t])'
          /\ (pc'[t] \in {"flush", "purge"} /\ k = Current(t)') \/ k \in pend'[t] =>
              \E f \in files' : f.id = fresh'[t][k] /\ Newest(k, f.val)'
      BY <2>1, <2>3, <3>2, <3>3, <3>4 DEF UpToDate
    <3> QED
      BY <3>5 DEF UpToDate
  <2> QED
    BY <2>2, <2>3, NewestSame
<1>6. ASSUME NEW k \in Kinds, k \notin stale'[s] PROVE UpToDate(s, k)'
  <2>1. CASE ~(pc'[s] \in {"upload", "flush", "purge"}) /\ pend'[s] = {}
    BY <2>1 DEF UpToDate
  <2>2. ASSUME Reads(s, Current(s)) \/ Uploads(s, Current(s)) \/ Flushes(s, Current(s))
                 \/ Purges(s, Current(s))
        PROVE  UpToDate(s, k)'
    <3>1. \A v : Newest(k, v)' <=> Newest(k, v)
      BY <2>2 DEF Reads, Uploads, Flushes, Purges, Newest, RowsOf
    <3>2. k \in pend[s] \/ (pc[s] \in {"upload", "flush", "purge"} /\ k = Current(s))
            => k \notin stale[s]
      BY <1>1, <1>3, <1>6, <2>2, CurrentKnown
         DEF Reads, Uploads, Flushes, Purges, AtStep, LocalsTyped
    <3>3. UpToDate(s, k)
      BY <1>4, <3>2 DEF UpToDate
    <3>4. ASSUME NEW f \in files, f.id = fresh[s][k], fresh[s][k] # 0 PROVE f \in files'
      <4>1. CASE Purges(s, Current(s))
        <5>1. f.id # cached[s][Current(s)]
          BY <1>1, <3>4, <4>1 DEF FreshKept, Purges
        <5> QED
          BY <4>1, <5>1 DEF Purges
      <4> QED
        BY <2>2, <4>1 DEF Reads, Uploads, Flushes
    <3>5. k \in pend[s] => fresh[s][k] # 0
      BY <1>3 DEF AtStep
    <3>6. ASSUME k \in pend[s], fresh'[s][k] = fresh[s][k]
          PROVE  \E f \in files' : f.id = fresh'[s][k] /\ Newest(k, f.val)'
      BY <3>1, <3>3, <3>4, <3>5, <3>6 DEF UpToDate
    <3>7. CASE Reads(s, Current(s))
      <4>1. pend'[s] = pend[s] /\ fresh'[s] = fresh[s]
        BY <3>7 DEF Reads
      <4>2. pc'[s] = "upload" /\ k = Current(s)' => Newest(k, token[s])'
        <5>1. ASSUME pc'[s] = "upload", k = Current(s)' PROVE Newest(k, token[s])'
          <6>1. Current(s)' = Current(s) /\ \E v : v = token'[s] /\ Newest(k, v)
            BY <3>7, <5>1, SameAsked DEF Reads
          <6> QED
            BY <3>1, <6>1
        <5> QED
          BY <5>1
      <4>3. pc'[s] \notin {"flush", "purge"}
        BY <3>7 DEF Reads
      <4> QED
        BY <3>6, <4>1, <4>2, <4>3 DEF UpToDate
    <3>8. CASE Uploads(s, Current(s))
      <4>1. CASE pc'[s] = "flush"
        <5>1. /\ [id |-> stamp + 1, kind |-> Current(s), val |-> token[s]] \in files'
              /\ fresh'[s] = [fresh[s] EXCEPT ![Current(s)] = stamp + 1]
              /\ pend'[s] = pend[s] /\ Current(s)' = Current(s)
          BY <3>8, <4>1, SameAsked DEF Uploads
        <5>2. /\ fresh'[s][Current(s)] = stamp + 1
              /\ k # Current(s) => fresh'[s][k] = fresh[s][k]
          BY <1>1, <3>8, <5>1 DEF LocalsTyped, Uploads
        <5>3. Current(s) \notin pend[s]
          BY <1>1, <1>3, <3>8, CurrentKnown DEF AtStep, Uploads
        <5>4. \A v : k = Current(s) /\ v = token[s] => Newest(k, v)'
          BY <3>1, <3>3, <3>8 DEF UpToDate, Uploads
        <5>5. k = Current(s) => \E f \in files' : f.id = fresh'[s][k] /\ Newest(k, f.val)'
          BY <5>1, <5>2, <5>4, <3>1
        <5>6. k \in pend[s] => \E f \in files' : f.id = fresh'[s][k] /\ Newest(k, f.val)'
          BY <3>6, <5>2, <5>3
        <5> QED
          BY <4>1, <5>1, <5>5, <5>6 DEF UpToDate
      <4>2. CASE pc'[s] \in {"token", "commit"} /\ fresh'[s] = fresh[s]
        BY <3>6, <3>8, <4>2 DEF Uploads, UpToDate
      <4> QED
        BY <3>8, <4>1, <4>2 DEF Uploads
    <3>9. CASE Flushes(s, Current(s))
      <4>1. /\ pc'[s] = "purge" /\ pend'[s] = pend[s] \cup {Current(s)}
            /\ fresh'[s] = fresh[s] /\ files' = files /\ pc[s] = "flush"
            /\ Current(s)' = Current(s)
        BY <3>9, SameAsked DEF Flushes
      <4>2. k \in pend[s] \/ k = Current(s) =>
              \E f \in files' : f.id = fresh'[s][k] /\ Newest(k, f.val)'
        BY <3>1, <3>3, <4>1 DEF UpToDate
      <4> QED
        BY <4>1, <4>2 DEF UpToDate
    <3>10. CASE Purges(s, Current(s))
      <4>1. pc'[s] \in {"token", "commit"} /\ pend'[s] = pend[s] /\ fresh'[s] = fresh[s]
        BY <3>10 DEF Purges
      <4> QED
        BY <3>6, <4>1 DEF UpToDate
    <3> QED
      BY <2>2, <3>7, <3>8, <3>9, <3>10
  <2>3. CASE Begins(s) \/ Moves(s)
    <3>1. pend'[s] = {} /\ pc'[s] \in {"check", "write", "token"}
      BY <1>3, <2>3 DEF Begins, Moves, AtStep
    <3> QED
      BY <2>1, <3>1
  <2>4. CASE Ends(s) \/ Commits(s) \/ Crashes(s) \/ \E id, j : Writes(s, id, j)
    BY <2>1, <2>4 DEF Ends, Commits, Crashes, Writes, Left
  <2> QED
    BY <2>2, <2>3, <2>4 DEF Effects
<1> QED
  BY <1>5, <1>6 DEF TokenFresh, UpToDate

(* A file in use that is not the newest credential's has a cause, or       *)
(* somebody who will see to it.                                            *)
LEMMA OwedKept ==
  ASSUME IInv, NEW s \in Slots, Effects(s)
  PROVE  Owed'
<1>1. /\ LocalsTyped /\ StoresTyped /\ IdsOwned /\ FreshKept /\ StepsMatch
      /\ TokenFresh /\ Owed
  BY Parts
<1>2. Apart(s)
  BY DEF Effects, Begins, Ends, Moves, Writes, Reads, Uploads, Flushes, Purges, Commits, Crashes
<1>3. AtStep(s)
  BY <1>1 DEF StepsMatch
<1> SUFFICES ASSUME NEW k \in Kinds, cause'[k] = {}
             PROVE  Carries(k)' \/ \E t \in Slots : Owes(t, k)'
  BY DEF Owed
<1>4. cause[k] = {} => Carries(k) \/ \E t \in Slots : Owes(t, k)
  BY <1>1 DEF Owed
(* The others owe what they owed.                                          *)
<1>5. ASSUME NEW t \in Slots \ {s}, Owes(t, k), \A id : ~Writes(s, id, k)
      PROVE  Owes(t, k)'
  <2>1. /\ pc'[t] = pc[t] /\ row'[t] = row[t] /\ pend'[t] = pend[t]
        /\ Asked(t, k)' <=> Asked(t, k)
    BY <1>2, OthersAsked DEF Apart
  <2>2. CASE pc[t] = "refresh" /\ Exists(row[t].id)
    <3>1. PICK r \in secrets : r.id = row[t].id
      BY <2>2 DEF Exists
    <3>2. r.kind = row[t].kind /\ row[t].kind \in Kinds
      BY <1>1, <2>2, <3>1 DEF IdsOwned, StepsMatch, AtStep
    <3>3. todo[t] = <<row[t].kind>> /\ pend[t] = {}
      BY <1>1, <2>2 DEF StepsMatch, AtStep
    <3>4. Asked(t, k)
      BY <1>5, <3>3 DEF Owes
    <3>5. k = row[t].kind
      BY <3>2, <3>3, <3>4, OneAsked DEF Asked, In
    <3>6. r \in secrets'
      BY <1>5, <3>2, <3>5 DEF Effects, Begins, Ends, Moves, Writes, Reads, Uploads,
         Flushes, Purges, Commits, Crashes, RowsWritten
    <3> QED
      BY <2>1, <3>1, <3>4, <3>6 DEF Owes, Exists
  <2>3. CASE pc[t] # "refresh" \/ k \in pend[t]
    BY <1>5, <2>1, <2>3 DEF Owes
  <2> QED
    BY <1>5, <2>2, <2>3 DEF Owes
(* A file that carried the newest credential still does.                   *)
<1>6. ASSUME Carries(k), \A v : Newest(k, v)' <=> Newest(k, v), pointer'[k] = pointer[k],
             \A f \in files : f.id = pointer[k] => f \in files'
      PROVE  Carries(k)'
  BY <1>6 DEF Carries
<1>7. CASE \E id, j : Writes(s, id, j)
  <2>1. PICK id, j : Writes(s, id, j)
    BY <1>7
  <2>2. CASE j = k
    <3>1. cause[k] \cup {"admin"} # {} /\ cause \in [Kinds -> SUBSET Causes]
      BY <1>1 DEF StoresTyped
    <3>2. cause' # [cause EXCEPT ![k] = @ \cup {"admin"}]
      BY <3>1
    <3>3. /\ todo'[s] = <<k>> /\ row'[s] = [id |-> id, kind |-> k]
          /\ (pc'[s] = "refresh" /\ \E r \in secrets' : r.id = id) \/ pc'[s] = "token"
      BY <2>1, <2>2, <3>2 DEF Writes
    <3>4. Asked(s, k)' /\ row'[s].id = id
      BY <3>3, NowAsked
    <3>5. (pc[s] = "refresh" => Exists(row[s].id))'
      BY <3>3, <3>4 DEF Exists
    <3> QED
      BY <3>4, <3>5 DEF Owes
  <2>3. CASE j # k
    <3>1. \A i : ~Writes(s, i, k)
      <4>1. ASSUME NEW i, Writes(s, i, k) PROVE FALSE
        <5>1. CASE todo'[s] = <<>>
          <6>1. cause' = [cause EXCEPT ![k] = @ \cup {"admin"}]
            BY <4>1, <5>1, OneAsked DEF Writes
          <6> QED
            BY <1>1, <6>1 DEF StoresTyped
        <5>2. CASE todo'[s] = <<k>>
          <6>1. todo'[s] = <<j>>
            BY <2>1, <4>1, <5>2, OneAsked DEF Writes
          <6> QED
            BY <2>1, <2>3, <4>1, <5>2, <6>1, NowAsked DEF Writes
        <5> QED
          BY <4>1, <5>1, <5>2 DEF Writes
      <4> QED
        BY <4>1
    <3>2. \A v : Newest(k, v)' <=> Newest(k, v)
      BY <3>1, NewestSame
    <3>3. ~Owes(s, k)
      BY <1>3, <2>1, NothingAsked DEF Writes, AtStep, Owes
    <3>4. cause[k] = {} /\ pointer' = pointer /\ files' = files
      BY <1>1, <2>1, <2>3 DEF Writes, RowsWritten, StoresTyped
    <3> QED
      BY <1>4, <1>5, <1>6, <3>1, <3>2, <3>3, <3>4
  <2> QED
    BY <2>2, <2>3
<1>8. CASE ~\E id, j : Writes(s, id, j)
  <2>1. /\ \A v : Newest(k, v)' <=> Newest(k, v)
        /\ \A t \in Slots \ {s} : Owes(t, k) => Owes(t, k)'
    BY <1>5, <1>8, NewestSame
  <2>2. CASE Begins(s) \/ Ends(s) \/ Moves(s)
    <3>1. cause' = cause /\ pointer' = pointer /\ files' = files
      BY <2>2 DEF Begins, Ends, Moves
    <3>2. Owes(s, k) => Owes(s, k)'
      <4>1. CASE pc[s] # "refresh"
        BY <1>3, <2>2, <4>1, NothingAsked DEF Begins, Ends, Moves, AtStep, Owes
      <4>2. CASE pc[s] = "refresh" /\ Ends(s)
        BY <1>3, <4>2 DEF Ends, AtStep, Owes
      <4>3. CASE pc[s] = "refresh" /\ Moves(s)
        BY <4>3, SameAsked DEF Moves, Owes
      <4> QED
        BY <2>2, <4>1, <4>2, <4>3 DEF Begins
    <3> QED
      BY <1>4, <1>6, <2>1, <3>1, <3>2
  <2>3. CASE Reads(s, Current(s)) \/ Uploads(s, Current(s))
    <3>1. pointer' = pointer /\ files \subseteq files' /\ pend'[s] = pend[s] /\ Current(s) \in Kinds
      BY <2>3 DEF Reads, Uploads
    <3>2. pc[s] \in {"token", "upload"} /\ todo[s] # <<>> /\ pc'[s] # "refresh"
      BY <2>3 DEF Reads, Uploads
    <3>3. CASE todo'[s] = todo[s] /\ cause' = cause
      <4>1. Owes(s, k) => Owes(s, k)'
        BY <3>1, <3>2, <3>3, SameAsked DEF Owes
      <4> QED
        BY <1>4, <1>6, <2>1, <3>1, <3>3, <4>1
    <3>4. CASE /\ todo'[s] = Tail(todo[s])
               /\ \E c : cause' = [cause EXCEPT ![Current(s)] = @ \cup {c}]
      <4>1. PICK c : cause' = [cause EXCEPT ![Current(s)] = @ \cup {c}]
        BY <3>4
      <4>2. k # Current(s) /\ cause[k] = {}
        BY <1>1, <3>1, <4>1 DEF StoresTyped
      <4>3. Owes(s, k) => Owes(s, k)'
        BY <1>1, <3>1, <3>2, <3>4, <4>2, RestAsked DEF Owes
      <4> QED
        BY <1>4, <1>6, <2>1, <3>1, <4>2, <4>3
    <3> QED
      BY <2>3, <3>3, <3>4 DEF Reads, Uploads
  <2>4. CASE Flushes(s, Current(s))
    <3>1. /\ pointer' = pointer /\ files' = files /\ pend[s] \subseteq pend'[s] /\ cause' = cause
          /\ pc'[s] = "purge" /\ todo'[s] = todo[s]
      BY <2>4 DEF Flushes
    <3>2. Owes(s, k) => Owes(s, k)'
      BY <3>1, SameAsked DEF Owes
    <3> QED
      BY <1>4, <1>6, <2>1, <3>1, <3>2
  <2>5. CASE Purges(s, Current(s))
    <3>1. /\ pointer' = pointer /\ pend'[s] = pend[s] /\ cause' = cause
          /\ pc[s] = "purge" /\ pc'[s] # "refresh" /\ todo[s] # <<>>
          /\ Current(s) \in pend[s] /\ Current(s) \in Kinds
      BY <1>3, <2>5 DEF Purges, AtStep
    <3>2. CASE k = Current(s)
      BY <3>1, <3>2 DEF Owes
    <3>3. CASE k # Current(s)
      <4>1. \A f \in files : f.id = pointer[k] => f \in files'
        BY <1>1, <2>5, <3>1, <3>3 DEF Purges, IdsOwned
      <4>2. Owes(s, k) => Owes(s, k)'
        BY <1>1, <2>5, <3>1, <3>3, RestAsked DEF Owes, Purges
      <4> QED
        BY <1>4, <1>6, <2>1, <3>1, <4>1, <4>2
    <3> QED
      BY <3>2, <3>3
  <2>6. CASE Commits(s)
    <3>1. CASE k \in pend[s]
      <4>1. k \notin stale[s] /\ pointer'[k] = fresh[s][k] /\ files' = files
        BY <2>6, <3>1 DEF Commits
      <4>2. \E f \in files : f.id = fresh[s][k] /\ Newest(k, f.val)
        BY <1>1, <3>1, <4>1 DEF TokenFresh
      <4> QED
        BY <2>1, <4>1, <4>2 DEF Carries
    <3>2. CASE k \notin pend[s]
      <4>1. pointer'[k] = pointer[k] /\ cause[k] = {} /\ files' = files
        BY <2>6, <3>2 DEF Commits
      <4>2. ~Owes(s, k)
        BY <1>3, <2>6, <3>2, NothingAsked DEF Commits, AtStep, Owes
      <4> QED
        BY <1>4, <1>6, <2>1, <4>1, <4>2
    <3> QED
      BY <3>1, <3>2
  <2>7. CASE Crashes(s)
    <3>1. k \notin pend[s] /\ ~Asked(s, k) /\ cause[k] = {}
      BY <2>7 DEF Crashes
    <3>2. ~Owes(s, k) /\ pointer' = pointer /\ files' = files
      BY <2>7, <3>1 DEF Crashes, Owes
    <3> QED
      BY <1>4, <1>6, <2>1, <3>1, <3>2
  <2> QED
    BY <1>8, <2>2, <2>3, <2>4, <2>5, <2>6, <2>7 DEF Effects
<1> QED
  BY <1>7, <1>8

-----------------------------------------------------------------------------
(* The beginning.                                                          *)

Place(k) == CHOOSE i \in 1..Len(KindOrder) : KindOrder[i] = k
FirstName == CHOOSE n \in Names : TRUE

LEMMA Places ==
  /\ Len(KindOrder) \in Nat /\ FirstName \in Names
  /\ \A k \in Kinds : Place(k) \in 1..Len(KindOrder) /\ KindOrder[Place(k)] = k
  /\ \A i \in 1..Len(KindOrder) : KindOrder[i] \in Kinds /\ Place(KindOrder[i]) = i
<1>1. Len(KindOrder) \in Nat
  BY SecretFilesConstants, LenProperties
<1>2. FirstName \in Names
  BY SecretFilesConstants DEF FirstName
<1>3. ASSUME NEW k \in Kinds PROVE Place(k) \in 1..Len(KindOrder) /\ KindOrder[Place(k)] = k
  BY DEF Kinds, Place
<1>4. \A i \in 1..Len(KindOrder) : KindOrder[i] \in Kinds
  BY DEF Kinds
<1>5. \A i \in 1..Len(KindOrder) : Place(KindOrder[i]) = i
  BY <1>3, <1>4, SecretFilesConstants
<1> QED
  BY <1>1, <1>2, <1>3, <1>4, <1>5

LEMMA InitInvariant == Init => IInv
<1> SUFFICES ASSUME Init PROVE IInv
  OBVIOUS
<1>1. /\ secrets = {[id |-> i, kind |-> KindOrder[i], name |-> FirstName, val |-> 0] :
                    i \in 1..Len(KindOrder)}
      /\ files = {[id |-> i, kind |-> KindOrder[i], val |-> 0] : i \in Synced}
      /\ pointer = [k \in Kinds |-> IF site \/ k \notin SiteKinds THEN Place(k) ELSE 0]
      /\ stamp = Len(KindOrder) /\ site \in BOOLEAN
  BY DEF Init, Place, FirstName
<1>2. /\ pc = [s \in Slots |-> "free"]
      /\ call = [s \in Slots |-> Idle] /\ row = [s \in Slots |-> NoRow]
      /\ cached = [s \in Slots |-> NoFiles] /\ todo = [s \in Slots |-> <<>>]
      /\ token = [s \in Slots |-> 0] /\ fresh = [s \in Slots |-> NoFiles]
      /\ pend = [s \in Slots |-> {}] /\ lock = None
      /\ stale = [s \in Slots |-> {}] /\ torn = {} /\ sited = [s \in Slots |-> FALSE]
      /\ cause = [k \in Kinds |-> IF site \/ k \notin SiteKinds THEN {} ELSE {"site"}]
  BY DEF Init
<1>3. \A k \in Kinds :
        /\ Place(k) \in 1..stamp /\ KindOrder[Place(k)] = k
        /\ (site \/ k \notin SiteKinds) => Place(k) \in Synced /\ pointer[k] = Place(k)
        /\ ~(site \/ k \notin SiteKinds) => pointer[k] = 0
  BY <1>1, Places DEF Synced
<1>4. stamp \in Nat /\ \A i \in 1..stamp : KindOrder[i] \in Kinds /\ Place(KindOrder[i]) = i
  BY <1>1, Places
<1>5. LocalsTyped
  BY <1>2, Blank, NoneAsked DEF LocalsTyped, Steps
<1>6. StoresTyped
  <2>1. secrets \subseteq [id : Nat, kind : Kinds, name : Names, val : Nat]
    BY <1>1, Places
  <2>2. files \subseteq [id : Nat, kind : Kinds, val : Nat]
    BY <1>1, Places DEF Synced
  <2>3. pointer \in [Kinds -> Nat]
    BY <1>1, Places
  <2>4. cause \in [Kinds -> SUBSET Causes]
    BY <1>2 DEF Causes
  <2> QED
    BY <1>4, <2>1, <2>2, <2>3, <2>4 DEF StoresTyped
<1>7. /\ \A r \in secrets : r.id \in 1..stamp /\ r.kind = KindOrder[r.id] /\ r.val = 0
      /\ \A r, q \in secrets : r.id = q.id => r = q
      /\ \A f \in files : f.id \in 1..stamp /\ f.kind = KindOrder[f.id] /\ f.val = 0
      /\ \A i \in 1..stamp : \E r \in secrets : r.id = i
      /\ \A i \in Synced : \E f \in files : f.id = i
  <2> DEFINE R(i) == [id |-> i, kind |-> KindOrder[i], name |-> FirstName, val |-> 0]
             F(i) == [id |-> i, kind |-> KindOrder[i], val |-> 0]
  <2>1. /\ \A i : R(i).id = i /\ R(i).kind = KindOrder[i] /\ R(i).val = 0
        /\ \A i : F(i).id = i /\ F(i).kind = KindOrder[i] /\ F(i).val = 0
    OBVIOUS
  <2>2. /\ secrets = {R(i) : i \in 1..stamp} /\ files = {F(i) : i \in Synced}
        /\ Synced \subseteq 1..stamp
    BY <1>1 DEF Synced
  <2> HIDE DEF R, F
  <2> QED
    BY <2>1, <2>2
<1>8. PointerLive
  BY <1>3, <1>7 DEF PointerLive
<1>9. IdsOwned
  <2>1. \A t \in Slots : row[t].id = 0 /\ \A k \in Kinds : cached[t][k] = 0 /\ fresh[t][k] = 0
    BY <1>2 DEF NoRow, NoFiles
  <2>2. \A f \in files, k \in Kinds : f.id = pointer[k] => f.kind = k
    BY <1>3, <1>7
  <2>3. \A f \in files : f.id # 0
    BY <1>4, <1>7
  <2> QED
    BY <1>3, <1>4, <1>7, <2>1, <2>2, <2>3 DEF IdsOwned
<1>10. FreshKept
  BY <1>2 DEF FreshKept, NoFiles
<1>11. StepsMatch
  BY <1>2, NoneAsked DEF StepsMatch, AtStep, Once
<1>12. TokenFresh
  BY <1>2 DEF TokenFresh
<1>13. ASSUME NEW k \in Kinds, cause[k] = {} PROVE Carries(k)
  <2>0. site \/ k \notin SiteKinds
    BY <1>2, <1>13
  <2>1. PICK r \in secrets : r.id = Place(k)
    BY <1>3, <1>7
  <2>2. r.kind = k /\ r.val = 0
    BY <1>3, <1>7, <2>1
  <2>3. ASSUME NEW q \in secrets, q.kind = k PROVE q.id = r.id
    BY <1>4, <1>7, <2>1, <2>3
  <2>4. Newest(k, 0)
    BY <1>7, <1>4, <2>2, <2>3 DEF Newest, RowsOf
  <2> QED
    BY <1>3, <1>7, <2>0, <2>4 DEF Carries
<1>14. Owed
  BY <1>13 DEF Owed
<1>15. SiteTyped
  BY <1>1, <1>2 DEF SiteTyped
<1> QED
  BY <1>5, <1>6, <1>8, <1>9, <1>10, <1>11, <1>12, <1>14, <1>15, TypeParts DEF IInv

LEMMA NextInvariant == IInv /\ [Next]_vars => IInv'
<1> SUFFICES ASSUME IInv, [Next]_vars PROVE IInv'
  OBVIOUS
<1>1. CASE UNCHANGED vars \/ UpdateClient
  <2>1. UNCHANGED <<secrets, pointer, files, pc, call, row, cached, todo, token, fresh, pend,
                    lock, stamp, stale, cause, torn>>
    BY <1>1 DEF UpdateClient, vars, db, task, seen, counts
  <2>2. SiteTyped'
    BY <1>1, TypeParts DEF UpdateClient, vars, db, task, IInv, SiteTyped
  <2>3. LocalsTyped' /\ StoresTyped'
    BY <2>1, TypeParts DEF IInv, LocalsTyped, StoresTyped
  <2>4. PointerLive' /\ IdsOwned' /\ FreshKept'
    BY <2>1 DEF IInv, PointerLive, IdsOwned, FreshKept
  <2>5. StepsMatch'
    BY <2>1 DEF IInv, StepsMatch, AtStep, Current, Asked
  <2>6. TokenFresh' /\ Owed'
    BY <2>1 DEF IInv, TokenFresh, Owed, Owes, Carries, Newest, RowsOf, Exists, Current, Asked
  <2>7. TypeOK'
    BY <2>2, <2>3, TypeParts, PTL
  <2> QED
    BY <2>4, <2>5, <2>6, <2>7 DEF IInv
<1>2. ASSUME NEW s \in Slots, Serve(s) PROVE IInv'
  <2>1. Effects(s)
    BY <1>2, StepEffects
  <2>2. LocalsTyped' /\ StoresTyped' /\ SiteTyped'
    BY <1>2, <2>1, TypeKept, SiteStep, TypeParts DEF IInv
  <2>3. TypeOK'
    BY <2>2, TypeParts, PTL
  <2> QED
    BY <2>1, <2>3, PointerLiveKept, IdsOwnedKept, FreshStays, StepsMatchKept, TokenFreshKept,
       OwedKept DEF IInv
<1> QED
  BY <1>1, <1>2 DEF Next

(* When no request is about a kind, nobody owes it.                        *)
LEMMA QuietMeansCarried == IInv => FileCarriesNewest
<1> SUFFICES ASSUME IInv, NEW k \in Kinds, Quiet(k), cause[k] = {}
             PROVE  \E r \in RowsOf(k), f \in files :
                      /\ \A q \in RowsOf(k) : q.id <= r.id
                      /\ f.id = pointer[k] /\ f.val = r.val
  BY DEF FileCarriesNewest
<1>1. \A s \in Slots : ~Owes(s, k)
  BY DEF Quiet, Owes
<1>2. Carries(k)
  BY <1>1 DEF IInv, Owed
<1> QED
  BY <1>2 DEF Carries, Newest

-----------------------------------------------------------------------------
(* Theorems.                                                               *)

(* Inductive: the invariant of the two stores holds in every reachable     *)
(* state, for any number of coroutines, requests and crashes.              *)
THEOREM Inductive == Spec => []IInv
BY InitInvariant, NextInvariant, PTL DEF Spec

(* FileAlive: the file a session would be given exists, except while the   *)
(* request that replaces it is between its DELETE and its commit, or after *)
(* a request that died there.                                              *)
THEOREM FileAlive == Spec => []PointerLive
<1>1. IInv => PointerLive
  BY DEF IInv
<1> QED
  BY <1>1, Inductive, PTL

(* NewestCarried: once no request is about a kind, the file in use carries *)
(* the newest credential of the kind, or one of the six named causes       *)
(* explains why it does not.                                               *)
THEOREM NewestCarried == Spec => []FileCarriesNewest
BY QuietMeansCarried, Inductive, PTL

=============================================================================
