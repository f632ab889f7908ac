--------------------------- MODULE SquadPanelProofs ---------------------------
(***************************************************************************)
(* Theorems about SquadPanel for any number of coroutines and requests,    *)
(* any catalog, any setups and any cap of the timeline.                    *)
(***************************************************************************)
EXTENDS SquadPanel, SequenceTheorems, TLAPS

-----------------------------------------------------------------------------
(* The parts of the state.                                                 *)

LocalsTyped ==
  /\ pc \in [Slots -> Steps] /\ call \in [Slots -> Requests]
  /\ read \in [Slots -> [ver : Nat, status : Statuses, peers : SUBSET Nat, events : Seq(Nat)]]
  /\ todo \in [Slots -> Seq(Skills)]
  /\ held \in [Slots -> SUBSET Keys] /\ made \in [Slots -> SUBSET Rows]

StoresTyped ==
  /\ manifests \subseteq Nat /\ current \in Nat /\ stamp \in Nat /\ served \in Nat
  /\ agents \subseteq Rows /\ templates \subseteq [slug : Slugs, ver : Nat]
  /\ events \in Seq(Nat) /\ Len(events) <= EventCap

LEMMA TypeParts == TypeOK <=> LocalsTyped /\ StoresTyped
BY DEF TypeOK, LocalsTyped, StoresTyped

LEMMA Parts ==
  ASSUME IInv
  PROVE  /\ LocalsTyped /\ StoresTyped /\ IdsOnce /\ KeysOnce /\ VersionsDense /\ StepsMatch
         /\ PendingSetups /\ SetupAllOrNothing
BY TypeParts DEF IInv

LEMMA Blank ==
  /\ Idle \in Requests /\ Idle.op = "none" /\ <<>> \in Seq(Skills) /\ <<>> \in Seq(Nat)
  /\ Nothing \in [ver : Nat, status : Statuses, peers : SUBSET Nat, events : Seq(Nat)]
  /\ Len(Nothing.events) = 0
<1>1. <<>> \in Seq(Nat) /\ Len(<<>>) = 0 /\ <<>> \in Seq(Skills)
  BY EmptySeq
<1>2. Idle \in Requests /\ Idle.op = "none"
  BY DEF Idle, Requests
<1> QED
  BY <1>1, <1>2 DEF Nothing, Statuses

(* What a request may have read, one field of it at a time.                *)
Values == [ver : Nat, status : Statuses, peers : SUBSET Nat, events : Seq(Nat)]

LEMMA OneField ==
  /\ \A v \in Nat :
       LET x == [Nothing EXCEPT !.ver = v]
       IN  x \in Values /\ x.ver = v /\ Len(x.events) <= EventCap
  /\ \A status \in Statuses :
       LET x == [Nothing EXCEPT !.status = status]
       IN  x \in Values /\ Len(x.events) <= EventCap
  /\ \A peers \in SUBSET Nat :
       LET x == [Nothing EXCEPT !.peers = peers]
       IN  x \in Values /\ x.peers = peers /\ Len(x.events) <= EventCap
<1>1. Nothing \in Values /\ Nothing.events = <<>> /\ Len(<<>>) <= EventCap
  BY Blank, EmptySeq, SquadPanelConstants DEF Values, Nothing
<1>2. ASSUME NEW v \in Nat
      PROVE  /\ [Nothing EXCEPT !.ver = v] \in Values /\ [Nothing EXCEPT !.ver = v].ver = v
             /\ Len([Nothing EXCEPT !.ver = v].events) <= EventCap
  BY <1>1 DEF Values
<1>3. ASSUME NEW status \in Statuses
      PROVE  /\ [Nothing EXCEPT !.status = status] \in Values
             /\ Len([Nothing EXCEPT !.status = status].events) <= EventCap
  BY <1>1 DEF Values
<1>4. ASSUME NEW peers \in SUBSET Nat
      PROVE  /\ [Nothing EXCEPT !.peers = peers] \in Values
             /\ [Nothing EXCEPT !.peers = peers].peers = peers
             /\ Len([Nothing EXCEPT !.peers = peers].events) <= EventCap
  BY <1>1 DEF Values
<1> QED
  BY <1>2, <1>3, <1>4

(* A row is found by its id.                                               *)
LEMMA RowFound ==
  ASSUME IdsOnce
  PROVE  /\ \A id \in Ids : Row(id) \in agents /\ Row(id).id = id
         /\ \A g \in agents : g.id \in Ids /\ Row(g.id) = g
<1>1. ASSUME NEW id \in Ids PROVE Row(id) \in agents /\ Row(id).id = id
  BY DEF Ids, Row
<1>2. ASSUME NEW g \in agents PROVE g.id \in Ids /\ Row(g.id) = g
  BY <1>1 DEF IdsOnce, Ids
<1> QED
  BY <1>1, <1>2

(* The versions of a slug: the first, and those that have a template.      *)
LEMMA VersionsKnown ==
  ASSUME NEW slug
  PROVE  /\ 1 \in VersionsOf(slug)
         /\ \A v : v \in VersionsOf(slug) <=> v = 1 \/ \E t \in templates : t.slug = slug /\ t.ver = v
BY DEF VersionsOf

-----------------------------------------------------------------------------
(* Steps.                                                                  *)

Step(s) ==
  \/ Begin(s) \/ Fail(s)
  \/ ReadManifest(s) \/ ReadPrompt(s) \/ Insert(s) \/ CommitManifest(s) \/ CommitPrompt(s)
  \/ AddAgent(s) \/ ReadPatch(s) \/ WritePatch(s) \/ ReadDisable(s) \/ WriteDisable(s)
  \/ Materialize(s) \/ FromCatalog(s) \/ DeadlockAborted(s) \/ CommitSetup(s)
  \/ ReadEvents(s) \/ RecordEvent(s)

(* What a step leaves alone in the other coroutines.                       *)
Apart(s) ==
  \A t \in Slots \ {s} :
    /\ pc'[t] = pc[t] /\ call'[t] = call[t] /\ read'[t] = read[t]
    /\ todo'[t] = todo[t] /\ held'[t] = held[t] /\ made'[t] = made[t]

(* The session closes.                                                     *)
Left(s) ==
  /\ pc'[s] = "free" /\ call'[s] = Idle /\ read'[s] = Nothing
  /\ todo'[s] = <<>> /\ held'[s] = {} /\ made'[s] = {}

LEMMA LeaveStep ==
  ASSUME LocalsTyped, NEW s \in Slots, Leave(s)
  PROVE  LocalsTyped' /\ Apart(s) /\ Left(s)
<1>1. /\ pc' = [pc EXCEPT ![s] = "free"] /\ call' = [call EXCEPT ![s] = Idle]
      /\ read' = [read EXCEPT ![s] = Nothing] /\ todo' = [todo EXCEPT ![s] = <<>>]
      /\ held' = [held EXCEPT ![s] = {}] /\ made' = [made EXCEPT ![s] = {}]
  BY DEF Leave
<1>2. Apart(s) /\ Left(s)
  BY <1>1 DEF LocalsTyped, Apart, Left
<1>3. /\ pc' \in [Slots -> Steps] /\ call' \in [Slots -> Requests]
      /\ todo' \in [Slots -> Seq(Skills)]
  BY <1>1, Blank DEF LocalsTyped, Steps
<1>4. read' \in [Slots -> [ver : Nat, status : Statuses, peers : SUBSET Nat, events : Seq(Nat)]]
  BY <1>1, Blank DEF LocalsTyped
<1>5. held' \in [Slots -> SUBSET Keys] /\ made' \in [Slots -> SUBSET Rows]
  BY <1>1 DEF LocalsTyped
<1> QED
  BY <1>2, <1>3, <1>4, <1>5 DEF LocalsTyped

Same == UNCHANGED <<manifests, current, agents, templates, events>>

(* A request ends with nothing written.                                    *)
Ends(s) ==
  /\ pc[s] # "free" /\ LocalsTyped' /\ Apart(s) /\ Left(s)
  /\ Same /\ UNCHANGED <<stamp, served>>

LEMMA EndStep ==
  ASSUME LocalsTyped, NEW s \in Slots, pc[s] # "free", Leave(s),
         UNCHANGED <<squad, events, stamp, served>>
  PROVE  Ends(s)
BY LeaveStep DEF Ends, Same, squad

(* A request begins.                                                       *)
Begins(s) ==
  /\ pc[s] = "free" /\ LocalsTyped' /\ Apart(s)
  /\ read'[s] = read[s] /\ held'[s] = held[s] /\ made'[s] = made[s]
  /\ call'[s] \in Calls
  /\ \/ call'[s].op \in {"finalize", "skill"} /\ pc'[s] = "skill" /\ todo'[s] = call'[s].skills
     \/ call'[s].op \notin {"finalize", "skill"} /\ pc'[s] = "read" /\ todo'[s] = todo[s]
  /\ Same /\ stamp' = stamp /\ served' = served + 1

(* What a request may be.                                                  *)
LEMMA CallKnown ==
  ASSUME StoresTyped, IdsOnce, VersionsDense, NEW c \in Calls
  PROVE  /\ c \in Requests
         /\ c.op \in {"manifest", "event", "add", "patch", "disable", "prompt", "finalize", "skill"}
         /\ c.op = "add" => c.tpl.ver \in VersionsOf(c.tpl.slug)
         /\ c.op \in {"patch", "disable", "prompt"} => c.id \in Ids
         /\ c.op \in {"finalize", "skill"} => c.skills \in Seq(Skills) /\ c.skills # <<>>
         /\ c.op = "finalize" => c.skills \in Setups
<1>1. Ids \subseteq Nat
  BY DEF Ids, StoresTyped, Rows
<1>2. CASE c \in {[op |-> "manifest"], [op |-> "event"]}
  BY <1>2 DEF Requests
<1>3. CASE c \in [op : {"add"}, tpl : {[slug |-> g, ver |-> 1] : g \in Catalog} \cup templates]
  <2>1. c.tpl \in [slug : Slugs, ver : Nat] /\ c.op = "add"
    BY <1>3, SquadPanelConstants DEF StoresTyped
  <2>2. c \in Requests
    <3>1. c \in [op : {"add"}, tpl : [slug : Slugs, ver : Nat]]
      BY <1>3, <2>1
    <3> QED
      BY <3>1 DEF Requests
  <2>3. c.tpl.ver \in VersionsOf(c.tpl.slug)
    <3>1. CASE c.tpl \in templates
      BY <3>1, VersionsKnown
    <3>2. CASE c.tpl \in {[slug |-> g, ver |-> 1] : g \in Catalog}
      BY <3>2, VersionsKnown
    <3> QED
      BY <1>3, <3>1, <3>2
  <2> QED
    BY <2>1, <2>2, <2>3
<1>4. CASE c \in [op : {"patch"}, id : Ids, status : {"idle", "disabled"}]
  BY <1>1, <1>4 DEF Requests, Statuses
<1>5. CASE c \in [op : {"disable", "prompt"}, id : Ids]
  BY <1>1, <1>5 DEF Requests
<1>6. CASE c \in [op : {"finalize"}, n : {served}, skills : Setups]
  <2>1. c \in Finalizes /\ c.skills \in Setups /\ c.op = "finalize"
    BY <1>6 DEF Finalizes, StoresTyped
  <2>2. c.skills \in Seq(Skills) /\ c.skills # <<>>
    BY <2>1, SquadPanelConstants
  <2> QED
    BY <2>1, <2>2 DEF Requests
<1>7. CASE c \in [op : {"skill"}, skills : {<<u[1]>> : u \in {v \in Setups : v[1].draft}}]
  <2>1. PICK u \in Setups : c.skills = <<u[1]>>
    BY <1>7
  <2>2. u \in Seq(Skills) /\ u # <<>>
    BY SquadPanelConstants
  <2>3. u[1] \in Skills
    BY <2>2, EmptySeq, LenProperties, ElementOfSeq
  <2>4. c.skills \in Seq(Skills) /\ c.skills # <<>> /\ c.op = "skill"
    BY <1>7, <2>1, <2>3
  <2>5. c \in [op : {"skill"}, skills : Seq(Skills)]
    BY <1>7, <2>4
  <2> QED
    BY <2>4, <2>5 DEF Requests
<1> QED
  BY <1>2, <1>3, <1>4, <1>5, <1>6, <1>7 DEF Calls

LEMMA BeginStep ==
  ASSUME LocalsTyped, StoresTyped, IdsOnce, VersionsDense, NEW s \in Slots, Begin(s)
  PROVE  Begins(s)
<1>1. PICK c \in Calls :
        /\ call' = [call EXCEPT ![s] = c]
        /\ IF c.op \in {"finalize", "skill"}
           THEN /\ pc' = [pc EXCEPT ![s] = "skill"]
                /\ todo' = [todo EXCEPT ![s] = c.skills]
           ELSE /\ pc' = [pc EXCEPT ![s] = "read"]
                /\ UNCHANGED todo
  BY DEF Begin
<1>2. /\ pc[s] = "free" /\ UNCHANGED <<read, held, made, stamp>> /\ Same /\ served' = served + 1
  BY DEF Begin, squad, Same
<1>3. c \in Requests /\ (c.op \in {"finalize", "skill"} => c.skills \in Seq(Skills))
  BY CallKnown
<1>4. /\ call' \in [Slots -> Requests] /\ call'[s] = c
      /\ \A t \in Slots \ {s} : call'[t] = call[t]
  BY <1>1, <1>3 DEF LocalsTyped
<1>5. CASE c.op \in {"finalize", "skill"}
  <2>1. /\ pc' \in [Slots -> Steps] /\ pc'[s] = "skill"
        /\ todo' \in [Slots -> Seq(Skills)] /\ todo'[s] = c.skills
        /\ \A t \in Slots \ {s} : pc'[t] = pc[t] /\ todo'[t] = todo[t]
    BY <1>1, <1>3, <1>5 DEF LocalsTyped, Steps
  <2> QED
    BY <1>2, <1>4, <1>5, <2>1 DEF Begins, LocalsTyped, Apart
<1>6. CASE c.op \notin {"finalize", "skill"}
  <2>1. /\ pc' \in [Slots -> Steps] /\ pc'[s] = "read" /\ todo' = todo
        /\ \A t \in Slots \ {s} : pc'[t] = pc[t]
    BY <1>1, <1>6 DEF LocalsTyped, Steps
  <2> QED
    BY <1>2, <1>4, <1>6, <2>1 DEF Begins, LocalsTyped, Apart
<1> QED
  BY <1>5, <1>6

(* A request has read what it needs.                                       *)
Reading(s, next) ==
  /\ pc[s] = "read" /\ pc'[s] = next /\ LocalsTyped' /\ Apart(s)
  /\ call'[s] = call[s] /\ todo'[s] = todo[s] /\ held'[s] = held[s] /\ made'[s] = made[s]
  /\ Len(read'[s].events) <= EventCap
  /\ Same /\ UNCHANGED <<stamp, served>>

LEMMA ReadingStep ==
  ASSUME LocalsTyped, NEW s \in Slots, pc[s] = "read", NEW next \in Steps,
         NEW values \in [ver : Nat, status : Statuses, peers : SUBSET Nat, events : Seq(Nat)],
         Len(values.events) <= EventCap, Reads(s, values, next)
  PROVE  Reading(s, next) /\ read'[s] = values
<1>1. /\ read' = [read EXCEPT ![s] = values] /\ pc' = [pc EXCEPT ![s] = next]
      /\ Same /\ UNCHANGED <<call, todo, held, made, stamp, served>>
  BY DEF Reads, squad, work, Same
<1>2. read' \in [Slots -> [ver : Nat, status : Statuses, peers : SUBSET Nat, events : Seq(Nat)]]
  BY <1>1 DEF LocalsTyped
<1>3. read'[s] = values /\ \A t \in Slots \ {s} : read'[t] = read[t]
  BY <1>1 DEF LocalsTyped
<1>4. /\ pc' \in [Slots -> Steps] /\ pc'[s] = next
      /\ \A t \in Slots \ {s} : pc'[t] = pc[t]
  BY <1>1 DEF LocalsTyped
<1>5. LocalsTyped' /\ Apart(s)
  BY <1>1, <1>2, <1>3, <1>4 DEF LocalsTyped, Apart
<1> QED
  BY <1>1, <1>3, <1>4, <1>5 DEF Reading

(* What a request reads, per operation.                                    *)
Learns(s) ==
  \/ /\ call[s].op = "manifest" /\ Reading(s, "insert") /\ read'[s].ver - 1 \in manifests
  \/ /\ call[s].op = "prompt" /\ Reading(s, "insert")
     /\ read'[s].ver - 1 \in VersionsOf(Row(call[s].id).slug)
  \/ call[s].op \in {"patch", "event"} /\ Reading(s, "write")
  \/ /\ call[s].op = "disable" /\ Reading(s, "write")
     /\ TierOf[Row(call[s].id).slug] \in _REQUIRED_TIERS => read'[s].peers # {}
     /\ \A p \in read'[s].peers : /\ p \in Ids \ {call[s].id}
                                  /\ TierOf[Row(p).slug] = TierOf[Row(call[s].id).slug]

LEMMA ReadManifestStep ==
  ASSUME LocalsTyped, StoresTyped, VersionsDense, NEW s \in Slots, ReadManifest(s)
  PROVE  Learns(s)
<1>1. manifests = 1..current /\ current \in Nat /\ current # 0
  BY DEF VersionsDense, StoresTyped
<1>2. Max(manifests) = current
  <2>1. current \in manifests /\ \A y \in manifests : current >= y
    BY <1>1
  <2>2. \A x \in manifests : (\A y \in manifests : x >= y) => x = current
    BY <1>1, <2>1
  <2> QED
    BY <2>1, <2>2 DEF Max
<1> DEFINE values == [Nothing EXCEPT !.ver = Max(manifests) + 1]
<1>3. /\ values \in [ver : Nat, status : Statuses, peers : SUBSET Nat, events : Seq(Nat)]
      /\ values.ver = current + 1 /\ Len(values.events) <= EventCap
  <2>1. Max(manifests) + 1 \in Nat /\ Max(manifests) + 1 = current + 1
    BY <1>1, <1>2
  <2> QED
    BY <2>1, OneField DEF Values
<1>4. call[s].op = "manifest" /\ pc[s] = "read" /\ Reads(s, values, "insert")
  BY DEF ReadManifest, Doing
<1> HIDE DEF values
<1>5. Reading(s, "insert") /\ read'[s] = values
  BY <1>3, <1>4, ReadingStep DEF Steps
<1> QED
  BY <1>1, <1>3, <1>4, <1>5 DEF Learns

LEMMA ReadPromptStep ==
  ASSUME LocalsTyped, StoresTyped, IdsOnce, VersionsDense, StepsMatch,
         NEW s \in Slots, ReadPrompt(s)
  PROVE  Learns(s)
<1> DEFINE g == Row(call[s].id)
           known == {g.ver} \cup {t.ver : t \in {u \in templates : u.slug = g.slug}}
           values == [Nothing EXCEPT !.ver = Max(known) + 1]
<1>1. call[s].op = "prompt" /\ pc[s] = "read" /\ Reads(s, values, "insert")
  BY DEF ReadPrompt, Doing
<1>2. g \in agents /\ g.slug \in Slugs /\ g.ver \in VersionsOf(g.slug)
  BY <1>1, RowFound DEF StepsMatch, AtStep, StoresTyped, Rows, VersionsDense
<1>3. PICK m \in VersionsOf(g.slug) : VersionsOf(g.slug) = 1..m
  BY <1>2 DEF VersionsDense
<1>4. m \in Nat
  BY <1>3, VersionsKnown DEF StoresTyped
<1>5. Max(known) = m
  <2>1. known \subseteq 1..m
    BY <1>2, <1>3 DEF VersionsOf
  <2>2. m \in known
    BY <1>2, <1>3, <1>4 DEF VersionsOf
  <2> HIDE DEF known
  <2>3. \A y \in known : m >= y
    BY <1>4, <2>1
  <2>4. \A x \in known : (\A y \in known : x >= y) => x = m
    BY <1>4, <2>1, <2>2
  <2> QED
    BY <2>2, <2>3, <2>4 DEF Max
<1> HIDE DEF known
<1>6. /\ values \in [ver : Nat, status : Statuses, peers : SUBSET Nat, events : Seq(Nat)]
      /\ values.ver = m + 1 /\ Len(values.events) <= EventCap
  <2>1. Max(known) + 1 \in Nat /\ Max(known) + 1 = m + 1
    BY <1>4, <1>5
  <2> QED
    BY <2>1, OneField DEF Values
<1> HIDE DEF values
<1>7. Reading(s, "insert") /\ read'[s] = values
  BY <1>1, <1>6, ReadingStep DEF Steps
<1>8. read'[s].ver - 1 = m
  BY <1>4, <1>6, <1>7
<1> QED
  BY <1>1, <1>3, <1>7, <1>8 DEF Learns

LEMMA ReadPatchStep ==
  ASSUME LocalsTyped, StoresTyped, IdsOnce, StepsMatch, NEW s \in Slots, ReadPatch(s)
  PROVE  Learns(s)
<1> DEFINE status == Row(call[s].id).status
           values == [Nothing EXCEPT !.status = status]
<1>1. call[s].op = "patch" /\ pc[s] = "read" /\ Reads(s, values, "write")
  BY DEF ReadPatch, Doing
<1>2. status \in Statuses
  BY <1>1, RowFound DEF StepsMatch, AtStep, StoresTyped, Rows
<1> HIDE DEF status
<1>3. /\ values \in [ver : Nat, status : Statuses, peers : SUBSET Nat, events : Seq(Nat)]
      /\ Len(values.events) <= EventCap
  BY <1>2, OneField DEF Values
<1> HIDE DEF values
<1>4. Reading(s, "write")
  BY <1>1, <1>3, ReadingStep DEF Steps
<1> QED
  BY <1>1, <1>4 DEF Learns

LEMMA ReadDisableStep ==
  ASSUME LocalsTyped, StoresTyped, IdsOnce, StepsMatch, NEW s \in Slots, ReadDisable(s)
  PROVE  Learns(s)
<1> DEFINE id == call[s].id
           peers == CountActivePeers(id)
           values == [Nothing EXCEPT !.peers = peers]
<1>1. /\ call[s].op = "disable" /\ pc[s] = "read" /\ Reads(s, values, "write")
      /\ TierOf[Row(id).slug] \in _REQUIRED_TIERS => peers # {}
  BY DEF ReadDisable, Doing
<1>2. ASSUME NEW p \in peers
      PROVE  p \in Ids \ {id} /\ TierOf[Row(p).slug] = TierOf[Row(id).slug] /\ p \in Nat
  <2>1. PICK g \in agents : g.id = p /\ TierOf[g.slug] = TierOf[Row(id).slug] /\ p # id
    BY DEF CountActivePeers, ActiveOf
  <2>2. p \in Ids /\ Row(p) = g
    BY <2>1, RowFound
  <2> QED
    BY <2>1, <2>2 DEF StoresTyped, Rows
<1> HIDE DEF peers
<1>3. /\ values \in [ver : Nat, status : Statuses, peers : SUBSET Nat, events : Seq(Nat)]
      /\ Len(values.events) <= EventCap /\ values.peers = peers
  <2>1. peers \in SUBSET Nat
    BY <1>2
  <2> QED
    BY <2>1, OneField DEF Values
<1> HIDE DEF values
<1>4. Reading(s, "write") /\ read'[s] = values
  BY <1>1, <1>3, ReadingStep DEF Steps
<1> QED
  BY <1>1, <1>2, <1>3, <1>4 DEF Learns

LEMMA ReadEventsStep ==
  ASSUME LocalsTyped, StoresTyped, NEW s \in Slots, ReadEvents(s)
  PROVE  Learns(s)
<1> DEFINE values == [Nothing EXCEPT !.events = events]
<1>1. call[s].op = "event" /\ pc[s] = "read" /\ Reads(s, values, "write")
  BY DEF ReadEvents, Doing
<1>2. /\ values \in [ver : Nat, status : Statuses, peers : SUBSET Nat, events : Seq(Nat)]
      /\ Len(values.events) <= EventCap
  BY Blank DEF Nothing, StoresTyped
<1> HIDE DEF values
<1>3. Reading(s, "write")
  BY <1>1, <1>2, ReadingStep DEF Steps
<1> QED
  BY <1>1, <1>3 DEF Learns

(* A row with a unique key is inserted.                                    *)
Inserts(s) ==
  /\ pc[s] = "insert" /\ pc'[s] = "commit" /\ LocalsTyped' /\ Apart(s)
  /\ call'[s] = call[s] /\ read'[s] = read[s] /\ todo'[s] = todo[s] /\ made'[s] = made[s]
  /\ held'[s] = held[s] \cup {NextKey(s)} /\ NextKey(s) \notin Committed
  /\ \A t \in Slots \ {s} : NextKey(s) \notin held[t]
  /\ Same /\ UNCHANGED <<stamp, served>>

(* The key a request inserts.                                              *)
LEMMA KeyTyped ==
  ASSUME LocalsTyped, StoresTyped, IdsOnce, StepsMatch, NEW s \in Slots
  PROVE  /\ pc[s] = "insert" => NextKey(s) \in Keys
         /\ pc[s] = "skill" => /\ NextKey(s) = TemplateKey(Head(todo[s]).slug, 1)
                               /\ Head(todo[s]) \in Skills /\ NextKey(s) \in Keys
<1>1. read[s].ver \in Nat
  BY DEF LocalsTyped
<1>2. CASE pc[s] = "insert" /\ call[s].op = "manifest"
  BY <1>1, <1>2 DEF NextKey, ManifestKey, Keys
<1>3. CASE pc[s] = "insert" /\ call[s].op = "prompt"
  <2>1. Row(call[s].id).slug \in Slugs
    BY <1>3, RowFound DEF StepsMatch, AtStep, StoresTyped, Rows
  <2> QED
    BY <1>1, <1>3, <2>1 DEF NextKey, TemplateKey, Keys
<1>4. CASE pc[s] = "skill"
  <2>1. call[s].op \in {"finalize", "skill"} /\ todo[s] # <<>> /\ todo[s] \in Seq(Skills)
    BY <1>4 DEF StepsMatch, AtStep, LocalsTyped
  <2>2. Head(todo[s]) \in Skills
    BY <2>1, HeadTailProperties
  <2> QED
    BY <2>1, <2>2, <1>4 DEF NextKey, TemplateKey, Keys, Skills
<1> QED
  BY <1>2, <1>3, <1>4 DEF StepsMatch, AtStep

LEMMA InsertStep ==
  ASSUME LocalsTyped, StoresTyped, IdsOnce, StepsMatch, NEW s \in Slots, Insert(s)
  PROVE  Inserts(s) \/ Ends(s)
<1>1. pc[s] = "insert" /\ ~Waits(s, NextKey(s)) /\ UNCHANGED <<squad, events, stamp, served>>
  BY DEF Insert
<1>2. CASE KeyFree(NextKey(s), s)
  <2> DEFINE key == NextKey(s)
  <2>1. /\ held' = [held EXCEPT ![s] = @ \cup {key}]
        /\ pc' = [pc EXCEPT ![s] = "commit"] /\ UNCHANGED <<call, read, todo, made>>
    BY <1>2 DEF Insert
  <2>2. key \in Keys
    BY <1>1, KeyTyped
  <2>3. /\ key \notin Committed /\ \A t \in Slots \ {s} : key \notin held[t]
    BY <1>1, <1>2 DEF Waits, KeyFree
  <2> HIDE DEF key
  <2>4. /\ held' \in [Slots -> SUBSET Keys] /\ held'[s] = held[s] \cup {key}
        /\ \A t \in Slots \ {s} : held'[t] = held[t]
    BY <2>1, <2>2 DEF LocalsTyped
  <2>5. /\ pc' \in [Slots -> Steps] /\ pc'[s] = "commit"
        /\ \A t \in Slots \ {s} : pc'[t] = pc[t]
    BY <2>1 DEF LocalsTyped, Steps
  <2>6. LocalsTyped' /\ Apart(s)
    BY <2>1, <2>4, <2>5 DEF LocalsTyped, Apart
  <2> QED
    BY <1>1, <2>1, <2>3, <2>4, <2>5, <2>6 DEF Inserts, key, Same, squad
<1>3. CASE ~KeyFree(NextKey(s), s)
  BY <1>1, <1>3, EndStep DEF Insert
<1> QED
  BY <1>2, <1>3
(* A skill of a setup is through: its key is held, its agent made.         *)
Builds(s) ==
  /\ pc[s] = "skill" /\ LocalsTyped' /\ Apart(s)
  /\ call'[s] = call[s] /\ read'[s] = read[s] /\ todo'[s] = Tail(todo[s])
  /\ pc'[s] = IF Len(todo[s]) = 1 THEN "commit" ELSE "skill"
  /\ \/ /\ Head(todo[s]).draft
        /\ held'[s] = held[s] \cup {TemplateKey(Head(todo[s]).slug, 1)}
        /\ TemplateKey(Head(todo[s]).slug, 1) \notin Committed
        /\ \A t \in Slots \ {s} : TemplateKey(Head(todo[s]).slug, 1) \notin held[t]
     \/ ~Head(todo[s]).draft /\ held'[s] = held[s]
  /\ \/ /\ call[s].op = "finalize" /\ stamp' = stamp + 1
        /\ made'[s] = made[s] \cup {Agent(stamp + 1, Head(todo[s]).slug, 1, call[s])}
     \/ call[s].op # "finalize" /\ made'[s] = made[s] /\ stamp' = stamp
  /\ Same /\ served' = served

LEMMA FinalizeTyped ==
  ASSUME LocalsTyped, NEW s \in Slots, call[s].op = "finalize"
  PROVE  call[s] \in Finalizes /\ call[s].skills \in Seq(Skills) /\ call[s].skills # <<>>
<1>1. call[s] \in Requests
  BY DEF LocalsTyped
<1>2. call[s] \in Finalizes
  BY <1>1 DEF Requests, Idle
<1>3. call[s].skills \in Setups
  BY <1>2 DEF Finalizes
<1> QED
  BY <1>2, <1>3, SquadPanelConstants

LEMMA AgentTyped ==
  ASSUME NEW id \in Nat, NEW slug \in Slugs, NEW ver \in Nat, NEW by \in Finalizes \cup {None}
  PROVE  /\ Agent(id, slug, ver, by) \in Rows
         /\ Agent(id, slug, ver, by).id = id /\ Agent(id, slug, ver, by).slug = slug
         /\ Agent(id, slug, ver, by).ver = ver /\ Agent(id, slug, ver, by).by = by
BY DEF Agent, Rows, Statuses

(* What is common to a skill of the catalog and one of a draft.            *)
LEMMA SkillDoneStep ==
  ASSUME LocalsTyped, StoresTyped, NEW s \in Slots,
         todo[s] # <<>>, Head(todo[s]) \in Skills, SkillDone(s, Head(todo[s]).slug)
  PROVE  /\ pc' \in [Slots -> Steps] /\ todo' \in [Slots -> Seq(Skills)]
         /\ made' \in [Slots -> SUBSET Rows]
         /\ todo'[s] = Tail(todo[s])
         /\ pc'[s] = IF Len(todo[s]) = 1 THEN "commit" ELSE "skill"
         /\ \A t \in Slots \ {s} : pc'[t] = pc[t] /\ todo'[t] = todo[t] /\ made'[t] = made[t]
         /\ \/ /\ call[s].op = "finalize" /\ stamp' = stamp + 1
               /\ made'[s] = made[s] \cup {Agent(stamp + 1, Head(todo[s]).slug, 1, call[s])}
            \/ call[s].op # "finalize" /\ made'[s] = made[s] /\ stamp' = stamp
<1> DEFINE slug == Head(todo[s]).slug
           next == IF Len(todo[s]) = 1 THEN "commit" ELSE "skill"
           row == Agent(stamp + 1, slug, 1, call[s])
<1>1. /\ todo' = [todo EXCEPT ![s] = Tail(@)] /\ pc' = [pc EXCEPT ![s] = next]
      /\ \/ call[s].op = "finalize" /\ made' = [made EXCEPT ![s] = @ \cup {row}] /\ stamp' = stamp + 1
         \/ call[s].op # "finalize" /\ UNCHANGED <<made, stamp>>
  BY DEF SkillDone
<1>2. next \in Steps
  BY DEF Steps
<1>3. Tail(todo[s]) \in Seq(Skills)
  BY HeadTailProperties DEF LocalsTyped
<1>4. call[s].op = "finalize" => row \in Rows
  <2>1. stamp + 1 \in Nat /\ slug \in Slugs /\ 1 \in Nat
    BY DEF StoresTyped, Skills
  <2> QED
    BY <2>1, FinalizeTyped, AgentTyped
<1> HIDE DEF slug, next, row
<1>5. /\ todo' \in [Slots -> Seq(Skills)] /\ todo'[s] = Tail(todo[s])
      /\ \A t \in Slots \ {s} : todo'[t] = todo[t]
  BY <1>1, <1>3 DEF LocalsTyped
<1>6. /\ pc' \in [Slots -> Steps] /\ pc'[s] = next /\ \A t \in Slots \ {s} : pc'[t] = pc[t]
  BY <1>1, <1>2 DEF LocalsTyped
<1>7. /\ made' \in [Slots -> SUBSET Rows] /\ \A t \in Slots \ {s} : made'[t] = made[t]
      /\ \/ call[s].op = "finalize" /\ stamp' = stamp + 1 /\ made'[s] = made[s] \cup {row}
         \/ call[s].op # "finalize" /\ made'[s] = made[s] /\ stamp' = stamp
  BY <1>1, <1>4 DEF LocalsTyped
<1> QED
  BY <1>5, <1>6, <1>7 DEF slug, next, row

LEMMA MaterializeStep ==
  ASSUME LocalsTyped, StoresTyped, IdsOnce, StepsMatch, NEW s \in Slots, Materialize(s)
  PROVE  Builds(s) \/ Ends(s)
<1> DEFINE key == TemplateKey(Head(todo[s]).slug, 1)
<1>1. /\ pc[s] = "skill" /\ Head(todo[s]).draft /\ ~Waits(s, key) /\ NextKey(s) = key
      /\ UNCHANGED <<squad, events, served>> /\ key \in Keys
      /\ todo[s] # <<>> /\ Head(todo[s]) \in Skills
  BY KeyTyped DEF Materialize, StepsMatch, AtStep
<1>2. CASE KeyFree(key, s)
  <2>1. /\ held' = [held EXCEPT ![s] = @ \cup {key}]
        /\ SkillDone(s, Head(todo[s]).slug) /\ UNCHANGED <<call, read>>
    BY <1>1, <1>2 DEF Materialize
  <2>2. key \notin Committed /\ \A t \in Slots \ {s} : key \notin held[t]
    BY <1>1, <1>2 DEF Waits, KeyFree
  <2> HIDE DEF key
  <2>3. /\ held' \in [Slots -> SUBSET Keys] /\ held'[s] = held[s] \cup {key}
        /\ \A t \in Slots \ {s} : held'[t] = held[t]
    BY <1>1, <2>1 DEF LocalsTyped
  <2>4. LocalsTyped' /\ Apart(s)
    BY <1>1, <2>1, <2>3, SkillDoneStep DEF LocalsTyped, Apart
  <2> QED
    BY <1>1, <2>1, <2>2, <2>3, <2>4, SkillDoneStep DEF Builds, key, Same, squad
<1>3. CASE ~KeyFree(key, s)
  BY <1>1, <1>3, EndStep DEF Materialize
<1> QED
  BY <1>2, <1>3

LEMMA FromCatalogStep ==
  ASSUME LocalsTyped, StoresTyped, IdsOnce, StepsMatch, NEW s \in Slots, FromCatalog(s)
  PROVE  Builds(s) \/ Ends(s)
<1>1. /\ pc[s] = "skill" /\ ~Head(todo[s]).draft /\ UNCHANGED <<squad, events, served>>
      /\ todo[s] # <<>> /\ Head(todo[s]) \in Skills
  BY KeyTyped DEF FromCatalog, StepsMatch, AtStep
<1>2. CASE Head(todo[s]).slug \in Catalog
  <2>1. SkillDone(s, Head(todo[s]).slug) /\ UNCHANGED <<call, read, held>>
    BY <1>2 DEF FromCatalog
  <2>2. LocalsTyped' /\ Apart(s)
    BY <1>1, <2>1, SkillDoneStep DEF LocalsTyped, Apart
  <2> QED
    BY <1>1, <2>1, <2>2, SkillDoneStep DEF Builds, Same, squad
<1>3. CASE Head(todo[s]).slug \notin Catalog
  BY <1>1, <1>3, EndStep DEF FromCatalog
<1> QED
  BY <1>2, <1>3

(* A request commits what it had to write.                                 *)
Closes(s) == LocalsTyped' /\ Apart(s) /\ Left(s)

ManifestCommitted(s) ==
  /\ Closes(s) /\ Doing(s, "manifest", "commit")
  /\ manifests' = manifests \cup {read[s].ver} /\ current' = read[s].ver
  /\ UNCHANGED <<agents, templates, events, stamp, served>>

PromptCommitted(s) ==
  /\ Closes(s) /\ Doing(s, "prompt", "commit")
  /\ templates' = templates \cup {[slug |-> Row(call[s].id).slug, ver |-> read[s].ver]}
  /\ agents' = (agents \ {Row(call[s].id)}) \cup {[Row(call[s].id) EXCEPT !.ver = read[s].ver]}
  /\ UNCHANGED <<manifests, current, events, stamp, served>>

AgentAdded(s) ==
  /\ Closes(s) /\ Doing(s, "add", "read")
  /\ agents' = agents \cup {Agent(stamp + 1, call[s].tpl.slug, call[s].tpl.ver, None)}
  /\ stamp' = stamp + 1
  /\ UNCHANGED <<manifests, current, templates, events, served>>

StatusWritten(s) ==
  /\ Closes(s) /\ pc[s] = "write"
  /\ \/ /\ call[s].op = "patch"
        /\ agents' = agents \/ agents' = WithStatus(call[s].id, call[s].status)
     \/ call[s].op = "disable" /\ agents' = WithStatus(call[s].id, "disabled")
  /\ UNCHANGED <<manifests, current, templates, events, stamp, served>>

SetupCommitted(s) ==
  /\ Closes(s) /\ pc[s] = "commit" /\ call[s].op \in {"finalize", "skill"}
  /\ templates' = templates \cup {[slug |-> k.slug, ver |-> k.ver] : k \in held[s]}
  /\ agents' = agents \cup made[s]
  /\ UNCHANGED <<manifests, current, events, stamp, served>>

EventRecorded(s) ==
  /\ Closes(s) /\ Doing(s, "event", "write")
  /\ events' = KeepLast(Append(read[s].events, stamp + 1)) /\ stamp' = stamp + 1
  /\ UNCHANGED <<manifests, current, agents, templates, served>>

Commits(s) ==
  \/ ManifestCommitted(s) \/ PromptCommitted(s) \/ AgentAdded(s)
  \/ StatusWritten(s) \/ SetupCommitted(s) \/ EventRecorded(s)

LEMMA CommitStep ==
  ASSUME LocalsTyped, NEW s \in Slots,
         \/ CommitManifest(s) \/ CommitPrompt(s) \/ AddAgent(s) \/ WritePatch(s)
         \/ WriteDisable(s) \/ CommitSetup(s) \/ RecordEvent(s)
  PROVE  Commits(s)
<1>1. Leave(s) => Closes(s)
  BY LeaveStep DEF Closes
<1>2. CASE CommitManifest(s)
  BY <1>1, <1>2 DEF CommitManifest, ManifestCommitted, Commits
<1>3. CASE CommitPrompt(s)
  BY <1>1, <1>3 DEF CommitPrompt, PromptCommitted, Commits
<1>4. CASE AddAgent(s)
  BY <1>1, <1>4 DEF AddAgent, AgentAdded, Commits
<1>5. CASE WritePatch(s)
  BY <1>1, <1>5 DEF WritePatch, StatusWritten, Commits, Doing
<1>6. CASE WriteDisable(s)
  BY <1>1, <1>6 DEF WriteDisable, StatusWritten, Commits, Doing
<1>7. CASE CommitSetup(s)
  BY <1>1, <1>7 DEF CommitSetup, SetupCommitted, Commits
<1>8. CASE RecordEvent(s)
  BY <1>1, <1>8 DEF RecordEvent, EventRecorded, Commits, squad
<1> QED
  BY <1>2, <1>3, <1>4, <1>5, <1>6, <1>7, <1>8

(* Every step does one of these.                                           *)
Effects(s) == Begins(s) \/ Ends(s) \/ Learns(s) \/ Inserts(s) \/ Builds(s) \/ Commits(s)

LEMMA StepEffects ==
  ASSUME LocalsTyped, StoresTyped, IdsOnce, VersionsDense, StepsMatch, NEW s \in Slots, Step(s)
  PROVE  Effects(s)
<1>1. CASE Begin(s)
  BY <1>1, BeginStep DEF Effects
<1>2. CASE Fail(s)
  BY <1>2, EndStep DEF Fail, Effects
<1>3. CASE ReadManifest(s) \/ ReadPrompt(s) \/ ReadPatch(s) \/ ReadDisable(s) \/ ReadEvents(s)
  BY <1>3, ReadManifestStep, ReadPromptStep, ReadPatchStep, ReadDisableStep, ReadEventsStep
     DEF Effects
<1>4. CASE Insert(s)
  BY <1>4, InsertStep DEF Effects
<1>5. CASE Materialize(s) \/ FromCatalog(s)
  BY <1>5, MaterializeStep, FromCatalogStep DEF Effects
<1>6. CASE DeadlockAborted(s)
  BY <1>6, EndStep DEF DeadlockAborted, Effects
<1>7. CASE \/ CommitManifest(s) \/ CommitPrompt(s) \/ AddAgent(s) \/ WritePatch(s)
           \/ WriteDisable(s) \/ CommitSetup(s) \/ RecordEvent(s)
  BY <1>7, CommitStep DEF Effects
<1> QED
  BY <1>1, <1>2, <1>3, <1>4, <1>5, <1>6, <1>7 DEF Step
-----------------------------------------------------------------------------
(* Rows and their ids.                                                     *)

(* The same agents, each with its id, its slug and its setup.              *)
Rewrites(rows) ==
  /\ rows \subseteq Rows
  /\ \A h \in rows : \E g \in agents : h.id = g.id /\ h.slug = g.slug /\ h.by = g.by
  /\ \A g \in agents : \E h \in rows : h.id = g.id /\ h.slug = g.slug /\ h.by = g.by
  /\ \A h \in rows : \A k \in rows : h.id = k.id => h = k

LEMMA StatusRewrites ==
  ASSUME StoresTyped, IdsOnce, NEW id, NEW status \in Statuses
  PROVE  /\ Rewrites(WithStatus(id, status))
         /\ \A h \in WithStatus(id, status) : \E g \in agents : h.slug = g.slug /\ h.ver = g.ver
         /\ \A h \in WithStatus(id, status) : \A g \in agents : h.id = g.id => h.ver = g.ver
         /\ \A h \in WithStatus(id, status) : \E g \in agents :
              h.id = g.id /\ h.slug = g.slug /\ (g.id # id => h = g)
<1> DEFINE New(g) == IF g.id = id THEN [g EXCEPT !.status = status] ELSE g
<1>1. ASSUME NEW g \in agents
      PROVE  /\ New(g) \in Rows /\ New(g).id = g.id /\ New(g).slug = g.slug
             /\ New(g).by = g.by /\ New(g).ver = g.ver /\ (g.id # id => New(g) = g)
  <2>1. g \in Rows
    BY DEF StoresTyped
  <2> QED
    BY <2>1 DEF Rows
<1>2. WithStatus(id, status) = {New(g) : g \in agents}
  BY DEF WithStatus
<1> HIDE DEF New
<1>3. \A g \in agents : \A h \in agents : g.id = h.id => g = h
  BY DEF IdsOnce
<1>4. Rewrites(WithStatus(id, status))
  BY <1>1, <1>2, <1>3 DEF Rewrites
<1> QED
  BY <1>1, <1>2, <1>3, <1>4

LEMMA PromptRewrites ==
  ASSUME StoresTyped, IdsOnce, NEW id \in Ids, NEW v \in Nat
  PROVE  LET rows == (agents \ {Row(id)}) \cup {[Row(id) EXCEPT !.ver = v]} IN
         /\ Rewrites(rows)
         /\ \A h \in rows : \/ h \in agents /\ h.id # id
                            \/ h.id = id /\ h.slug = Row(id).slug /\ h.ver = v
                               /\ h.status = Row(id).status
<1> DEFINE r == Row(id)
           new == [r EXCEPT !.ver = v]
<1>1. r \in agents /\ r.id = id /\ \A g \in agents : g.id = id => g = r
  BY RowFound DEF IdsOnce
<1>2. r \in Rows
  BY <1>1 DEF StoresTyped
<1>3. /\ new \in Rows /\ new.id = id /\ new.slug = r.slug /\ new.by = r.by /\ new.ver = v
      /\ new.status = r.status
  BY <1>1, <1>2 DEF Rows
<1>4. agents \subseteq Rows /\ \A g \in agents : \A h \in agents : g.id = h.id => g = h
  BY DEF StoresTyped, IdsOnce
<1> HIDE DEF new, r
<1> DEFINE rows == (agents \ {r}) \cup {new}
<1>5. Rewrites(rows)
  BY <1>1, <1>3, <1>4 DEF Rewrites
<1>6. \A h \in rows : \/ h \in agents /\ h.id # id
                      \/ h.id = id /\ h.slug = r.slug /\ h.ver = v /\ h.status = r.status
  BY <1>1, <1>3, <1>4
<1> QED
  BY <1>5, <1>6 DEF new, r

LEMMA SameRewrites ==
  ASSUME StoresTyped, IdsOnce
  PROVE  Rewrites(agents)
BY DEF StoresTyped, IdsOnce, Rewrites

(* What a request is, by its operation.                                    *)
LEMMA RequestParts ==
  ASSUME LocalsTyped, NEW s \in Slots
  PROVE  /\ call[s].op = "add" => call[s].tpl \in [slug : Slugs, ver : Nat]
         /\ call[s].op = "patch" => call[s].status \in Statuses
<1>1. call[s] \in Requests
  BY DEF LocalsTyped
<1> QED
  BY <1>1 DEF Requests, Finalizes, Idle

(* What a step does to the agents.                                         *)
LEMMA AgentsStep ==
  ASSUME LocalsTyped, StoresTyped, IdsOnce, StepsMatch, NEW s \in Slots, Effects(s)
  PROVE  \/ Rewrites(agents')
         \/ AgentAdded(s)
         \/ SetupCommitted(s)
<1>1. CASE Begins(s) \/ Ends(s) \/ Learns(s) \/ Inserts(s) \/ Builds(s)
  <2>1. agents' = agents
    BY <1>1 DEF Begins, Ends, Learns, Reading, Inserts, Builds, Same
  <2> QED
    BY <2>1, SameRewrites
<1>2. CASE ManifestCommitted(s) \/ EventRecorded(s)
  BY <1>2, SameRewrites DEF ManifestCommitted, EventRecorded
<1>3. CASE PromptCommitted(s)
  <2>1. call[s].id \in Ids /\ read[s].ver \in Nat
    BY <1>3 DEF StepsMatch, AtStep, PromptCommitted, Doing, LocalsTyped
  <2> QED
    BY <1>3, <2>1, PromptRewrites DEF PromptCommitted
<1>4. CASE StatusWritten(s)
  <2>1. "disabled" \in Statuses
    BY DEF Statuses
  <2> QED
    BY <1>4, <2>1, RequestParts, StatusRewrites, SameRewrites DEF StatusWritten
<1> QED
  BY <1>1, <1>2, <1>3, <1>4 DEF Effects, Commits

(* The agents stay, each with its id, its slug and its setup.              *)
Persist == \A g \in agents : \E h \in agents' : h.id = g.id /\ h.slug = g.slug /\ h.by = g.by

LEMMA AgentsPersist ==
  ASSUME LocalsTyped, StoresTyped, IdsOnce, StepsMatch, NEW s \in Slots, Effects(s)
  PROVE  Persist
<1>1. CASE Rewrites(agents')
  BY <1>1 DEF Rewrites, Persist
<1>2. CASE agents \subseteq agents'
  BY <1>2 DEF Persist
<1> QED
  BY <1>1, <1>2, AgentsStep DEF AgentAdded, SetupCommitted

-----------------------------------------------------------------------------
(* The types.                                                              *)

LEMMA TimelineKept ==
  ASSUME NEW list \in Seq(Nat), NEW e \in Nat, Len(list) <= EventCap
  PROVE  LET new == KeepLast(Append(list, e)) IN
         /\ new \in Seq(Nat) /\ Len(new) <= EventCap
         /\ Len(list) < EventCap => Len(new) = Len(list) + 1 /\ \A i \in 1..Len(list) : new[i] = list[i]
         /\ Len(list) = EventCap => Len(new) = Len(list) /\ \A i \in 2..Len(list) : new[i - 1] = list[i]
<1> DEFINE long == Append(list, e)
           n == Len(list)
           from == IF Len(long) > EventCap THEN Len(long) - EventCap + 1 ELSE 1
           new == SubSeq(long, from, Len(long))
<1>1. /\ long \in Seq(Nat) /\ Len(long) = n + 1 /\ n \in Nat /\ EventCap \in Nat /\ EventCap # 0
      /\ \A i \in 1..n : long[i] = list[i]
  BY AppendProperties, LenProperties, SquadPanelConstants
<1> HIDE DEF long
<1>2. from = (IF n = EventCap THEN 2 ELSE 1) /\ from \in Nat
  BY <1>1
<1>3. \A i \in from..Len(long) : long[i] \in Nat
  BY <1>1, <1>2, ElementOfSeq
<1>4. /\ new \in Seq(Nat)
      /\ Len(new) = IF from <= Len(long) THEN Len(long) - from + 1 ELSE 0
      /\ \A i \in 1..(Len(long) - from + 1) : new[i] = long[from + i - 1]
  <2>1. from \in Int /\ Len(long) \in Int
    BY <1>1, <1>2
  <2>2. \A i \in from..Len(long) : long[i] \in Nat
    BY <1>3
  <2> HIDE DEF from, n
  <2> QED
    BY <1>1, <2>1, <2>2, SubSeqProperties
<1> HIDE DEF from, new
<1>5. new = KeepLast(Append(list, e))
  BY DEF KeepLast, new, from, long
<1>6. CASE n = EventCap
  <2>1. from = 2 /\ Len(new) = n
    BY <1>1, <1>2, <1>4, <1>6
  <2>2. ASSUME NEW i \in 2..n PROVE new[i - 1] = list[i]
    <3>1. i - 1 \in 1..(Len(long) - from + 1) /\ from + (i - 1) - 1 = i
      BY <1>1, <2>1
    <3>2. new[i - 1] = long[from + (i - 1) - 1]
      BY <1>4, <3>1
    <3> QED
      BY <1>1, <3>1, <3>2
  <2> QED
    BY <1>1, <1>4, <1>6, <1>5, <2>1, <2>2
<1>7. CASE n < EventCap
  <2>1. from = 1 /\ Len(new) = n + 1
    BY <1>1, <1>2, <1>4, <1>7
  <2>2. ASSUME NEW i \in 1..n PROVE new[i] = list[i]
    <3>1. i \in 1..(Len(long) - from + 1) /\ from + i - 1 = i
      BY <1>1, <2>1
    <3>2. new[i] = long[from + i - 1]
      BY <1>4, <3>1
    <3> QED
      BY <1>1, <3>1, <3>2
  <2>3. Len(new) <= EventCap
    BY <1>1, <1>7, <2>1
  <2> QED
    BY <1>1, <1>4, <1>7, <1>5, <2>1, <2>2, <2>3
<1> QED
  BY <1>1, <1>6, <1>7

LEMMA NextTypes ==
  ASSUME LocalsTyped, StoresTyped, IdsOnce, StepsMatch, NEW s \in Slots, Effects(s)
  PROVE  LocalsTyped' /\ StoresTyped'
<1>1. LocalsTyped'
  BY DEF Effects, Begins, Ends, Learns, Reading, Inserts, Builds, Commits, ManifestCommitted,
         PromptCommitted, AgentAdded, StatusWritten, SetupCommitted, EventRecorded, Closes
<1>2. read[s].ver \in Nat /\ read[s].events \in Seq(Nat) /\ Len(read[s].events) <= EventCap
  BY DEF LocalsTyped, StepsMatch, AtStep
<1>3. CASE Begins(s) \/ Ends(s) \/ Learns(s) \/ Inserts(s) \/ Builds(s)
  <2>1. Same /\ stamp' \in Nat /\ served' \in Nat
    BY <1>3 DEF Begins, Ends, Learns, Reading, Inserts, Builds, StoresTyped
  <2> QED
    BY <1>1, <2>1 DEF Same, StoresTyped
<1>4. CASE ManifestCommitted(s)
  BY <1>1, <1>2, <1>4 DEF ManifestCommitted, StoresTyped
<1>5. CASE PromptCommitted(s)
  <2>1. call[s].id \in Ids
    BY <1>5 DEF StepsMatch, AtStep, PromptCommitted, Doing
  <2>2. agents' \subseteq Rows
    BY <1>2, <1>5, <2>1, PromptRewrites DEF PromptCommitted, Rewrites
  <2>3. templates' \subseteq [slug : Slugs, ver : Nat]
    BY <1>2, <1>5, <2>1, RowFound DEF PromptCommitted, StoresTyped, Rows
  <2> QED
    BY <1>1, <1>5, <2>2, <2>3 DEF PromptCommitted, StoresTyped
<1>6. CASE AgentAdded(s)
  <2>1. agents' \subseteq Rows
    <3>1. call[s].tpl.slug \in Slugs /\ call[s].tpl.ver \in Nat /\ stamp + 1 \in Nat
      BY <1>6, RequestParts DEF AgentAdded, Doing, StoresTyped
    <3>2. Agent(stamp + 1, call[s].tpl.slug, call[s].tpl.ver, None) \in Rows
      BY <3>1, AgentTyped
    <3> QED
      BY <1>6, <3>2 DEF AgentAdded, StoresTyped
  <2> QED
    BY <1>1, <1>6, <2>1 DEF AgentAdded, StoresTyped
<1>7. CASE StatusWritten(s)
  <2>1. agents' \subseteq Rows
    <3>1. "disabled" \in Statuses
      BY DEF Statuses
    <3> QED
      BY <1>7, <3>1, RequestParts, StatusRewrites, SameRewrites DEF StatusWritten, Rewrites
  <2> QED
    BY <1>1, <1>7, <2>1 DEF StatusWritten, StoresTyped
<1>8. CASE SetupCommitted(s)
  <2>1. agents' \subseteq Rows
    BY <1>8 DEF SetupCommitted, StoresTyped, LocalsTyped
  <2>2. ASSUME NEW k \in held[s] PROVE [slug |-> k.slug, ver |-> k.ver] \in [slug : Slugs, ver : Nat]
    <3>1. k.slug \in Slugs /\ k = TemplateKey(k.slug, 1)
      BY <1>8 DEF SetupCommitted, StepsMatch, AtStep
    <3>2. k.ver = 1
      BY <3>1 DEF TemplateKey
    <3> QED
      BY <3>1, <3>2
  <2> QED
    BY <1>1, <1>8, <2>1, <2>2 DEF SetupCommitted, StoresTyped
<1>9. CASE EventRecorded(s)
  <2>1. stamp + 1 \in Nat
    BY DEF StoresTyped
  <2>2. events' \in Seq(Nat) /\ Len(events') <= EventCap
    BY <1>2, <1>9, <2>1, TimelineKept DEF EventRecorded
  <2> QED
    BY <1>1, <1>9, <2>1, <2>2 DEF EventRecorded, StoresTyped
<1> QED
  BY <1>3, <1>4, <1>5, <1>6, <1>7, <1>8, <1>9 DEF Effects, Commits
-----------------------------------------------------------------------------
(* An id is given once.                                                    *)

LEMMA SameIds ==
  ASSUME Rewrites(agents')
  PROVE  Ids' = Ids
BY DEF Rewrites, Ids

LEMMA NextIds ==
  ASSUME LocalsTyped, StoresTyped, IdsOnce, StepsMatch, NEW s \in Slots, Effects(s)
  PROVE  IdsOnce'
<1>1. stamp \in Nat /\ \A g \in agents : g.id <= stamp /\ g.id \in Nat /\ g.id \in Ids
  BY DEF StoresTyped, IdsOnce, Rows, Ids
<1>2. \A t \in Slots : \A g \in made[t] :
        /\ g.id <= stamp /\ g.id \notin Ids /\ g.id \in Nat
        /\ \A u \in Slots : \A h \in made[u] : g.id = h.id => u = t /\ g = h
  BY DEF LocalsTyped, IdsOnce, Rows
<1>3. \A g \in agents : \A h \in agents : g.id = h.id => g = h
  BY DEF IdsOnce
<1>4. stamp' \in {stamp, stamp + 1} /\ \A t \in Slots \ {s} : made'[t] = made[t]
  BY DEF Effects, Begins, Ends, Learns, Reading, Inserts, Builds, Commits, ManifestCommitted,
         PromptCommitted, AgentAdded, StatusWritten, SetupCommitted, EventRecorded, Closes, Apart
<1>5. ASSUME Rewrites(agents'), made'[s] = made[s] \/ made'[s] = {}
      PROVE  IdsOnce'
  <2>1. Ids' = Ids
    BY <1>5, SameIds
  <2>2. \A g \in agents' : \E h \in agents : g.id = h.id
    BY <1>5 DEF Rewrites
  <2>3. \A g \in agents' : g.id <= stamp' /\ \A h \in agents' : g.id = h.id => g = h
    BY <1>1, <1>4, <1>5, <2>2 DEF Rewrites
  <2>4. \A t \in Slots : made'[t] \subseteq made[t]
    BY <1>4, <1>5
  <2>5. \A t \in Slots : \A g \in made'[t] :
          /\ g.id <= stamp' /\ g.id \notin Ids'
          /\ \A u \in Slots : \A h \in made'[u] : g.id = h.id => u = t /\ g = h
    BY <1>1, <1>2, <1>4, <2>1, <2>4
  <2> QED
    BY <2>3, <2>5 DEF IdsOnce
<1>6. ASSUME Builds(s), call[s].op = "finalize" PROVE IdsOnce'
  <2> DEFINE new == Agent(stamp + 1, Head(todo[s]).slug, 1, call[s])
  <2>1. /\ agents' = agents /\ Ids' = Ids /\ stamp' = stamp + 1
        /\ made'[s] = made[s] \cup {new} /\ new.id = stamp + 1
    BY <1>6 DEF Builds, Same, Ids, Agent
  <2> HIDE DEF new
  <2>2. stamp + 1 \notin Ids
    BY <1>1 DEF Ids
  <2>3. \A t \in Slots : \A g \in made'[t] : (g = new /\ t = s) \/ g \in made[t]
    BY <1>4, <2>1
  <2>4. \A t \in Slots : \A g \in made[t] : g.id # new.id
    BY <1>1, <1>2, <2>1
  <2>5. \A g \in agents' : g.id <= stamp' /\ \A h \in agents' : g.id = h.id => g = h
    BY <1>1, <1>3, <2>1
  <2>6. \A t \in Slots : \A g \in made'[t] : g.id <= stamp' /\ g.id \notin Ids'
    BY <1>1, <1>2, <2>1, <2>2, <2>3
  <2>7. \A t \in Slots : \A g \in made'[t] :
          \A u \in Slots : \A h \in made'[u] : g.id = h.id => u = t /\ g = h
    BY <1>2, <2>3, <2>4
  <2> QED
    BY <2>5, <2>6, <2>7 DEF IdsOnce
<1>7. ASSUME AgentAdded(s) PROVE IdsOnce'
  <2> DEFINE new == Agent(stamp + 1, call[s].tpl.slug, call[s].tpl.ver, None)
  <2>1. /\ agents' = agents \cup {new} /\ stamp' = stamp + 1 /\ new.id = stamp + 1
        /\ made'[s] = {}
    BY <1>7 DEF AgentAdded, Agent, Closes, Left
  <2> HIDE DEF new
  <2>2. Ids' = Ids \cup {stamp + 1}
    BY <2>1 DEF Ids
  <2>3. \A g \in agents' : g.id <= stamp' /\ \A h \in agents' : g.id = h.id => g = h
    BY <1>1, <1>3, <2>1
  <2>4. \A t \in Slots : made'[t] \subseteq made[t]
    BY <1>4, <2>1
  <2>5. \A t \in Slots : \A g \in made'[t] :
          /\ g.id <= stamp' /\ g.id \notin Ids'
          /\ \A u \in Slots : \A h \in made'[u] : g.id = h.id => u = t /\ g = h
    BY <1>1, <1>2, <2>1, <2>2, <2>4
  <2> QED
    BY <2>3, <2>5 DEF IdsOnce
<1>8. ASSUME SetupCommitted(s) PROVE IdsOnce'
  <2>1. agents' = agents \cup made[s] /\ stamp' = stamp /\ made'[s] = {}
    BY <1>8 DEF SetupCommitted, Closes, Left
  <2>2. Ids' = Ids \cup {g.id : g \in made[s]}
    BY <2>1 DEF Ids
  <2>3. \A g \in agents' : g.id <= stamp' /\ \A h \in agents' : g.id = h.id => g = h
    BY <1>1, <1>2, <1>3, <2>1
  <2>4. \A t \in Slots : \A g \in made'[t] : t # s /\ g \in made[t]
    BY <1>4, <2>1
  <2>5. \A t \in Slots : \A g \in made'[t] :
          /\ g.id <= stamp' /\ g.id \notin Ids'
          /\ \A u \in Slots : \A h \in made'[u] : g.id = h.id => u = t /\ g = h
    BY <1>2, <2>1, <2>2, <2>4
  <2> QED
    BY <2>3, <2>5 DEF IdsOnce
<1>9. CASE Rewrites(agents') /\ ~Builds(s)
  <2>1. made'[s] = made[s] \/ made'[s] = {}
    BY <1>9 DEF Effects, Begins, Ends, Learns, Reading, Inserts, Commits, ManifestCommitted,
         PromptCommitted, AgentAdded, StatusWritten, SetupCommitted, EventRecorded, Closes, Left
  <2> QED
    BY <1>5, <1>9, <2>1
<1>10. CASE Builds(s) /\ call[s].op # "finalize"
  <2>1. agents' = agents /\ made'[s] = made[s]
    BY <1>10 DEF Builds, Same
  <2> QED
    BY <1>5, <2>1, SameRewrites
<1> QED
  BY <1>6, <1>7, <1>8, <1>9, <1>10, AgentsStep

-----------------------------------------------------------------------------
(* A unique key is committed, or held by one open transaction.             *)

LEMMA NextKeys ==
  ASSUME LocalsTyped, StoresTyped, StepsMatch, KeysOnce, NEW s \in Slots, Effects(s)
  PROVE  KeysOnce'
<1>1. \A t \in Slots \ {s} : held'[t] = held[t]
  BY DEF Effects, Begins, Ends, Learns, Reading, Inserts, Builds, Commits, ManifestCommitted,
         PromptCommitted, AgentAdded, StatusWritten, SetupCommitted, EventRecorded, Closes, Apart
<1>2. \A t \in Slots : /\ held[t] \cap Committed = {}
                       /\ \A u \in Slots \ {t} : held[t] \cap held[u] = {}
  BY DEF KeysOnce
<1>3. ASSUME Committed' = Committed, held'[s] \subseteq held[s] PROVE KeysOnce'
  BY <1>1, <1>2, <1>3 DEF KeysOnce
<1>4. ASSUME Committed' = Committed, NEW key, key \notin Committed,
             \A t \in Slots \ {s} : key \notin held[t], held'[s] = held[s] \cup {key}
      PROVE  KeysOnce'
  BY <1>1, <1>2, <1>4 DEF KeysOnce
<1>5. ASSUME Committed' \subseteq Committed \cup held[s], held'[s] = {} PROVE KeysOnce'
  BY <1>1, <1>2, <1>5 DEF KeysOnce
<1>6. CASE Begins(s) \/ Ends(s) \/ Learns(s) \/ Inserts(s) \/ Builds(s)
  <2>1. Committed' = Committed
    BY <1>6 DEF Begins, Ends, Learns, Reading, Inserts, Builds, Same, Committed
  <2>2. CASE Begins(s) \/ Ends(s) \/ Learns(s)
    BY <1>3, <2>1, <2>2 DEF Begins, Ends, Left, Learns, Reading
  <2>3. CASE Inserts(s)
    BY <1>4, <2>1, <2>3 DEF Inserts
  <2>4. CASE Builds(s)
    BY <1>3, <1>4, <2>1, <2>4 DEF Builds
  <2> QED
    BY <1>6, <2>2, <2>3, <2>4
<1>7. CASE Commits(s)
  <2>1. held'[s] = {}
    BY <1>7 DEF Commits, ManifestCommitted, PromptCommitted, AgentAdded, StatusWritten,
                SetupCommitted, EventRecorded, Closes, Left
  <2>2. CASE ManifestCommitted(s)
    <3>1. held[s] = {ManifestKey(read[s].ver)}
      BY <2>2 DEF ManifestCommitted, Doing, StepsMatch, AtStep
    <3>2. manifests' = manifests \cup {read[s].ver} /\ templates' = templates
      BY <2>2 DEF ManifestCommitted
    <3>3. Committed' \subseteq Committed \cup held[s]
      BY <3>1, <3>2 DEF Committed
    <3> QED
      BY <1>5, <2>1, <3>3
  <2>3. CASE PromptCommitted(s)
    <3> DEFINE slug == Row(call[s].id).slug
    <3>1. held[s] = {TemplateKey(slug, read[s].ver)}
      BY <2>3 DEF PromptCommitted, Doing, StepsMatch, AtStep
    <3>2. /\ manifests' = manifests
          /\ templates' = templates \cup {[slug |-> slug, ver |-> read[s].ver]}
      BY <2>3 DEF PromptCommitted
    <3> HIDE DEF slug
    <3>3. Committed' \subseteq Committed \cup held[s]
      BY <3>1, <3>2 DEF Committed
    <3> QED
      BY <1>5, <2>1, <3>3
  <2>4. CASE SetupCommitted(s)
    <3>1. /\ manifests' = manifests
          /\ templates' = templates \cup {[slug |-> k.slug, ver |-> k.ver] : k \in held[s]}
      BY <2>4 DEF SetupCommitted
    <3>2. \A k \in held[s] : k = TemplateKey(k.slug, k.ver)
      <4>1. \A k \in held[s] : k = TemplateKey(k.slug, 1)
        BY <2>4 DEF SetupCommitted, StepsMatch, AtStep
      <4> QED
        BY <4>1 DEF TemplateKey
    <3>3. Committed' \subseteq Committed \cup held[s]
      <4>1. ASSUME NEW t \in templates' PROVE TemplateKey(t.slug, t.ver) \in Committed \cup held[s]
        <5>1. CASE t \in templates
          BY <5>1 DEF Committed
        <5>2. CASE t \notin templates
          <6>1. PICK k \in held[s] : t = [slug |-> k.slug, ver |-> k.ver]
            BY <3>1, <4>1, <5>2
          <6> QED
            BY <3>2, <6>1
        <5> QED
          BY <5>1, <5>2
      <4>2. \A v \in manifests' : ManifestKey(v) \in Committed
        BY <3>1 DEF Committed
      <4> QED
        BY <4>1, <4>2 DEF Committed
    <3> QED
      BY <1>5, <2>1, <3>3
  <2>5. CASE AgentAdded(s) \/ StatusWritten(s) \/ EventRecorded(s)
    <3>1. Committed' = Committed
      BY <2>5 DEF AgentAdded, StatusWritten, EventRecorded, Committed
    <3> QED
      BY <1>3, <2>1, <3>1
  <2> QED
    BY <1>7, <2>2, <2>3, <2>4, <2>5 DEF Commits
<1> QED
  BY <1>6, <1>7 DEF Effects
-----------------------------------------------------------------------------
(* Versions grow by one.                                                   *)

(* A version that follows one of the squad and has no row is the next.     *)
LEMMA NextManifest ==
  ASSUME LocalsTyped, StoresTyped, StepsMatch, KeysOnce, VersionsDense,
         NEW s \in Slots, ManifestCommitted(s)
  PROVE  read[s].ver = current + 1 /\ manifests = 1..current /\ current \in Nat
<1>1. read[s].ver \in Nat /\ read[s].ver - 1 \in manifests /\ held[s] = {ManifestKey(read[s].ver)}
  BY DEF ManifestCommitted, Doing, StepsMatch, AtStep, LocalsTyped
<1>2. manifests = 1..current /\ current \in Nat
  BY DEF VersionsDense, StoresTyped
<1>3. read[s].ver \notin manifests
  <2>1. ManifestKey(read[s].ver) \notin Committed
    BY <1>1 DEF KeysOnce
  <2> QED
    BY <2>1 DEF Committed
<1> QED
  BY <1>1, <1>2, <1>3

LEMMA NextPrompt ==
  ASSUME LocalsTyped, StoresTyped, IdsOnce, StepsMatch, KeysOnce, VersionsDense,
         NEW s \in Slots, PromptCommitted(s)
  PROVE  LET slug == Row(call[s].id).slug IN
         \E m \in Nat : read[s].ver = m + 1 /\ VersionsOf(slug) = 1..m /\ m # 0
<1> DEFINE slug == Row(call[s].id).slug
<1>1. /\ read[s].ver \in Nat /\ read[s].ver - 1 \in VersionsOf(slug)
      /\ held[s] = {TemplateKey(slug, read[s].ver)} /\ call[s].id \in Ids
  BY DEF PromptCommitted, Doing, StepsMatch, AtStep, LocalsTyped
<1>2. slug \in Slugs
  BY <1>1, RowFound DEF StoresTyped, Rows
<1>3. PICK m \in VersionsOf(slug) : VersionsOf(slug) = 1..m
  BY <1>2 DEF VersionsDense
<1>4. m \in Nat /\ 1 \in VersionsOf(slug)
  BY <1>3, VersionsKnown DEF StoresTyped
<1>5. read[s].ver \notin VersionsOf(slug)
  <2>1. TemplateKey(slug, read[s].ver) \notin Committed
    BY <1>1 DEF KeysOnce
  <2>2. ~\E t \in templates : t.slug = slug /\ t.ver = read[s].ver
    BY <2>1 DEF Committed
  <2>3. read[s].ver # 1
    BY <1>1, <1>3, <1>4
  <2> QED
    BY <2>2, <2>3, VersionsKnown
<1> HIDE DEF slug
<1>6. m # 0 /\ read[s].ver = m + 1
  BY <1>1, <1>3, <1>4, <1>5
<1> QED
  BY <1>3, <1>4, <1>6 DEF slug

LEMMA NextVersions ==
  ASSUME LocalsTyped, StoresTyped, IdsOnce, StepsMatch, KeysOnce, VersionsDense,
         NEW s \in Slots, Effects(s)
  PROVE  VersionsDense'
<1>1. /\ manifests = 1..current /\ current # 0 /\ current \in Nat
      /\ \A slug \in Slugs : \E m \in VersionsOf(slug) : VersionsOf(slug) = 1..m
      /\ \A g \in agents : g.ver \in VersionsOf(g.slug)
  BY DEF VersionsDense, StoresTyped
<1>2. ASSUME UNCHANGED <<manifests, current>>,
             \A slug : VersionsOf(slug)' = VersionsOf(slug),
             \A h \in agents' : h.ver \in VersionsOf(h.slug)
      PROVE  VersionsDense'
  <2>1. \A slug \in Slugs : \E m \in VersionsOf(slug)' : VersionsOf(slug)' = 1..m
    BY <1>1, <1>2
  <2>2. \A h \in agents' : h.ver \in VersionsOf(h.slug)'
    BY <1>2
  <2> QED
    BY <1>1, <1>2, <2>1, <2>2 DEF VersionsDense
<1>3. templates' = templates => \A slug : VersionsOf(slug)' = VersionsOf(slug)
  BY DEF VersionsOf
<1>4. CASE Begins(s) \/ Ends(s) \/ Learns(s) \/ Inserts(s) \/ Builds(s) \/ EventRecorded(s)
  <2>1. UNCHANGED <<manifests, current, templates, agents>>
    BY <1>4 DEF Begins, Ends, Learns, Reading, Inserts, Builds, EventRecorded, Same
  <2> QED
    BY <1>1, <1>2, <1>3, <2>1
<1>5. CASE AgentAdded(s)
  <2>1. call[s].tpl.ver \in VersionsOf(call[s].tpl.slug)
    BY <1>5 DEF AgentAdded, Doing, StepsMatch, AtStep
  <2> DEFINE new == Agent(stamp + 1, call[s].tpl.slug, call[s].tpl.ver, None)
  <2>2. new.slug = call[s].tpl.slug /\ new.ver = call[s].tpl.ver
    BY DEF Agent
  <2>3. agents' = agents \cup {new}
    BY <1>5 DEF AgentAdded
  <2> HIDE DEF new
  <2>4. \A h \in agents' : h \in agents \/ (h.slug = call[s].tpl.slug /\ h.ver = call[s].tpl.ver)
    BY <2>2, <2>3
  <2>5. UNCHANGED <<manifests, current, templates>>
    BY <1>5 DEF AgentAdded
  <2> QED
    BY <1>1, <1>2, <1>3, <2>1, <2>4, <2>5
<1>6. CASE StatusWritten(s)
  <2>1. \A h \in agents' : \E g \in agents : h.slug = g.slug /\ h.ver = g.ver
    <3>1. "disabled" \in Statuses
      BY DEF Statuses
    <3>2. CASE agents' = agents
      BY <3>2
    <3>3. CASE \E status \in Statuses : agents' = WithStatus(call[s].id, status)
      BY <3>3, StatusRewrites
    <3> QED
      BY <1>6, <3>1, <3>2, <3>3, RequestParts DEF StatusWritten
  <2>2. UNCHANGED <<manifests, current, templates>>
    BY <1>6 DEF StatusWritten
  <2> QED
    BY <1>1, <1>2, <1>3, <2>1, <2>2
<1>7. CASE SetupCommitted(s)
  <2>1. \A k \in held[s] : k.ver = 1
    <3>1. \A k \in held[s] : k = TemplateKey(k.slug, 1)
      BY <1>7 DEF SetupCommitted, StepsMatch, AtStep
    <3> QED
      BY <3>1 DEF TemplateKey
  <2>2. ASSUME NEW slug PROVE VersionsOf(slug)' = VersionsOf(slug)
    <3>1. templates' = templates \cup {[slug |-> k.slug, ver |-> k.ver] : k \in held[s]}
      BY <1>7 DEF SetupCommitted
    <3>2. \A t \in templates' : t \in templates \/ t.ver = 1
      BY <2>1, <3>1
    <3>3. templates \subseteq templates'
      BY <3>1
    <3> QED
      BY <3>2, <3>3 DEF VersionsOf
  <2>3. \A h \in agents' : h.ver \in VersionsOf(h.slug)
    <3>1. \A g \in made[s] : g.ver = 1
      BY DEF StepsMatch, AtStep
    <3> QED
      BY <1>1, <1>7, <3>1, VersionsKnown DEF SetupCommitted
  <2>4. UNCHANGED <<manifests, current>>
    BY <1>7 DEF SetupCommitted
  <2> QED
    BY <1>2, <2>2, <2>3, <2>4
<1>8. CASE ManifestCommitted(s)
  <2>1. /\ manifests' = manifests \cup {current + 1} /\ current' = current + 1
        /\ UNCHANGED <<agents, templates>>
    BY <1>8, NextManifest DEF ManifestCommitted
  <2>2. manifests' = 1..current' /\ current' # 0
    BY <1>1, <2>1
  <2>3. \A slug : VersionsOf(slug)' = VersionsOf(slug)
    BY <1>3, <2>1
  <2> QED
    BY <1>1, <2>1, <2>2, <2>3 DEF VersionsDense
<1>9. CASE PromptCommitted(s)
  <2>1. call[s].id \in Ids /\ read[s].ver \in Nat
    BY <1>9 DEF StepsMatch, AtStep, PromptCommitted, Doing, LocalsTyped
  <2>2. PICK slug, v : slug = Row(call[s].id).slug /\ v = read[s].ver
    OBVIOUS
  <2>3. PICK m \in Nat : v = m + 1 /\ VersionsOf(slug) = 1..m /\ m # 0
    BY <1>9, <2>2, NextPrompt
  <2>4. /\ templates' = templates \cup {[slug |-> slug, ver |-> v]}
        /\ UNCHANGED <<manifests, current>>
    BY <1>9, <2>2 DEF PromptCommitted
  <2>5. \A h \in agents' : h \in agents \/ (h.slug = slug /\ h.ver = v)
    <3>1. agents' = (agents \ {Row(call[s].id)})
                      \cup {[Row(call[s].id) EXCEPT !.ver = read[s].ver]}
      BY <1>9 DEF PromptCommitted
    <3>2. \A h \in agents' :
            h \in agents \/ (h.slug = Row(call[s].id).slug /\ h.ver = read[s].ver)
      BY <2>1, <3>1, PromptRewrites
    <3> QED
      BY <2>2, <3>2
  <2>6. VersionsOf(slug)' = VersionsOf(slug) \cup {v}
    <3>1. PICK new : new = [slug |-> slug, ver |-> v]
      OBVIOUS
    <3>2. new.slug = slug /\ new.ver = v /\ templates' = templates \cup {new}
      BY <2>4, <3>1
    <3>3. \A n : n \in VersionsOf(slug)' <=> n \in VersionsOf(slug) \/ n = v
      BY <3>2 DEF VersionsOf
    <3> QED
      BY <3>3
  <2>7. ASSUME NEW other, other # slug PROVE VersionsOf(other)' = VersionsOf(other)
    <3>1. {t \in templates' : t.slug = other} = {t \in templates : t.slug = other}
      BY <2>4, <2>7
    <3> QED
      BY <3>1 DEF VersionsOf
  <2>8. VersionsOf(slug)' = 1..v /\ v \in VersionsOf(slug)'
    BY <2>3, <2>6
  <2>9. \A g \in Slugs : \E n \in VersionsOf(g)' : VersionsOf(g)' = 1..n
    BY <1>1, <2>7, <2>8
  <2>10. \A h \in agents' : h.ver \in VersionsOf(h.slug)'
    BY <1>1, <2>5, <2>6, <2>7, <2>8
  <2> QED
    BY <1>1, <2>4, <2>9, <2>10 DEF VersionsDense
<1> QED
  BY <1>4, <1>5, <1>6, <1>7, <1>8, <1>9 DEF Effects, Commits
-----------------------------------------------------------------------------
(* What a request holds at each of its steps.                              *)

(* The stores only grow: what a request has read of them is still there.   *)
LEMMA StoresGrow ==
  ASSUME LocalsTyped, StoresTyped, IdsOnce, StepsMatch, NEW s \in Slots, Effects(s)
  PROVE  /\ manifests \subseteq manifests' /\ \A slug : VersionsOf(slug) \subseteq VersionsOf(slug)'
         /\ \A id \in Ids : id \in Ids' /\ Row(id)'.slug = Row(id).slug
<1>1. manifests \subseteq manifests' /\ templates \subseteq templates'
  BY DEF Effects, Begins, Ends, Learns, Reading, Inserts, Builds, Commits, ManifestCommitted,
         PromptCommitted, AgentAdded, StatusWritten, SetupCommitted, EventRecorded, Same
<1>2. \A slug : VersionsOf(slug) \subseteq VersionsOf(slug)'
  BY <1>1 DEF VersionsOf
<1>3. IdsOnce'
  BY NextIds
<1>4. ASSUME NEW id \in Ids PROVE id \in Ids' /\ Row(id)'.slug = Row(id).slug
  <2>1. Row(id) \in agents /\ Row(id).id = id
    BY RowFound
  <2>2. PICK h \in agents' : h.id = id /\ h.slug = Row(id).slug
    BY <2>1, AgentsPersist DEF Persist
  <2>3. \A g \in agents' : g.id \in Ids' /\ Row(g.id)' = g
    <3>1. \A g \in agents' : \A k \in agents' : g.id = k.id => g = k
      BY <1>3 DEF IdsOnce
    <3>2. ASSUME NEW g \in agents' PROVE g = CHOOSE k \in agents' : k.id = g.id
      BY <3>1
    <3> QED
      BY <3>2 DEF Ids, Row
  <2> QED
    BY <2>2, <2>3
<1> QED
  BY <1>1, <1>2, <1>4

(* A request that does not move keeps what it holds.                       *)
LEMMA KeptMatches ==
  ASSUME NEW t \in Slots, AtStep(t),
         pc'[t] = pc[t], call'[t] = call[t], read'[t] = read[t],
         todo'[t] = todo[t], held'[t] = held[t], made'[t] = made[t],
         manifests \subseteq manifests', \A slug : VersionsOf(slug) \subseteq VersionsOf(slug)',
         \A id \in Ids : id \in Ids' /\ Row(id)'.slug = Row(id).slug
  PROVE  AtStep(t)'
<1>1. /\ pc'[t] = pc[t] /\ call'[t] = call[t] /\ read'[t] = read[t]
      /\ todo'[t] = todo[t] /\ held'[t] = held[t] /\ made'[t] = made[t]
  OBVIOUS
<1>2. AtStep(t)
  OBVIOUS
<1>3. /\ manifests \subseteq manifests' /\ \A slug : VersionsOf(slug) \subseteq VersionsOf(slug)'
      /\ \A id \in Ids : id \in Ids' /\ Row(id)'.slug = Row(id).slug
  OBVIOUS
<1> DEFINE id == call[t].id
           slug == Row(call[t].id).slug
<1>4. call[t].op \in {"patch", "disable", "prompt"} =>
        id \in Ids /\ call'[t].id \in Ids' /\ Row(call[t].id)'.slug = slug
  <2>1. call[t].op \in {"patch", "disable", "prompt"} => id \in Ids
    BY <1>2 DEF AtStep
  <2>2. PICK i : i = call[t].id /\ i = call'[t].id
    BY <1>1
  <2>3. Row(call[t].id)' = Row(i)'
    BY <2>2
  <2> QED
    BY <1>3, <2>1, <2>2, <2>3
<1>5. /\ pc'[t] = "free" => call'[t] = Idle
      /\ pc'[t] = "read" =>
          call'[t].op \in {"manifest", "event", "add", "patch", "disable", "prompt"}
      /\ pc'[t] = "insert" => call'[t].op \in {"manifest", "prompt"}
      /\ pc'[t] = "write" => call'[t].op \in {"patch", "disable", "event"}
      /\ pc'[t] = "skill" => call'[t].op \in {"finalize", "skill"} /\ todo'[t] # <<>>
      /\ pc'[t] = "commit" => \/ call'[t].op \in {"manifest", "prompt"}
                              \/ call'[t].op \in {"finalize", "skill"} /\ todo'[t] = <<>>
      /\ pc'[t] \notin {"skill", "commit"} => held'[t] = {}
      /\ call'[t].op \in {"finalize", "skill"} =>
          \A k \in held'[t] : k.slug \in Slugs /\ k = TemplateKey(k.slug, 1)
      /\ \A g \in made'[t] : call'[t].op = "finalize" /\ g.by = call'[t] /\ g.ver = 1
      /\ Len(read'[t].events) <= EventCap
  BY <1>1, <1>2 DEF AtStep
<1>6. call'[t].op \in {"patch", "disable", "prompt"} => call'[t].id \in Ids'
  BY <1>1, <1>4
<1>7. call'[t].op = "add" => call'[t].tpl.ver \in VersionsOf(call[t].tpl.slug)'
  <2>1. PICK c : c = call[t].tpl.slug /\ c = call'[t].tpl.slug
    BY <1>1
  <2>2. call[t].op = "add" => call[t].tpl.ver \in VersionsOf(c)
    BY <1>2, <2>1 DEF AtStep
  <2>3. VersionsOf(c) \subseteq VersionsOf(c)'
    BY <1>3
  <2>4. VersionsOf(call[t].tpl.slug)' = VersionsOf(c)'
    BY <2>1
  <2> QED
    BY <1>1, <2>2, <2>3, <2>4
<1>8. call'[t].op = "manifest" /\ pc'[t] \in {"insert", "commit"} =>
        /\ read'[t].ver - 1 \in manifests'
        /\ pc'[t] = "commit" => held'[t] = {ManifestKey(read'[t].ver)}
  BY <1>1, <1>2, <1>3 DEF AtStep
<1>9. call'[t].op = "prompt" /\ pc'[t] \in {"insert", "commit"} =>
        /\ read'[t].ver - 1 \in VersionsOf(Row(call[t].id).slug)'
        /\ pc'[t] = "commit" => held'[t] = {TemplateKey(Row(call[t].id)'.slug, read'[t].ver)}
  <2>1. PICK g : g = slug
    OBVIOUS
  <2>2. call[t].op = "prompt" => g = Row(call[t].id)'.slug
    BY <1>4, <2>1
  <2>3. call[t].op = "prompt" => VersionsOf(Row(call[t].id).slug)' = VersionsOf(g)'
    BY <2>2
  <2>4. call[t].op = "prompt" /\ pc[t] \in {"insert", "commit"} =>
          /\ read[t].ver - 1 \in VersionsOf(g)
          /\ pc[t] = "commit" => held[t] = {TemplateKey(g, read[t].ver)}
    BY <1>2, <2>1 DEF AtStep
  <2>5. VersionsOf(g) \subseteq VersionsOf(g)'
    BY <1>3
  <2> QED
    BY <1>1, <2>2, <2>3, <2>4, <2>5
<1>10. call'[t].op = "disable" /\ pc'[t] = "write" =>
         /\ TierOf[Row(call[t].id)'.slug] \in _REQUIRED_TIERS => read'[t].peers # {}
         /\ \A p \in read'[t].peers : /\ p \in Ids' \ {call'[t].id}
                                      /\ TierOf[Row(p)'.slug] = TierOf[Row(call[t].id)'.slug]
  <2>1. call[t].op = "disable" /\ pc[t] = "write" =>
         /\ TierOf[slug] \in _REQUIRED_TIERS => read[t].peers # {}
         /\ \A p \in read[t].peers : /\ p \in Ids \ {id}
                                     /\ TierOf[Row(p).slug] = TierOf[slug]
    BY <1>2 DEF AtStep
  <2>2. \A p \in Ids : p \in Ids' /\ TierOf[Row(p)'.slug] = TierOf[Row(p).slug]
    BY <1>3
  <2> QED
    BY <1>1, <1>4, <2>1, <2>2
<1> QED
  BY <1>5, <1>6, <1>7, <1>8, <1>9, <1>10 DEF AtStep
(* The others are not disturbed.                                           *)
LEMMA OthersMatch ==
  ASSUME LocalsTyped, StoresTyped, IdsOnce, StepsMatch, NEW s \in Slots, Effects(s),
         NEW t \in Slots \ {s}
  PROVE  AtStep(t)'
<1>1. /\ pc'[t] = pc[t] /\ call'[t] = call[t] /\ read'[t] = read[t]
      /\ todo'[t] = todo[t] /\ held'[t] = held[t] /\ made'[t] = made[t]
  BY DEF Effects, Begins, Ends, Learns, Reading, Inserts, Builds, Commits, ManifestCommitted,
         PromptCommitted, AgentAdded, StatusWritten, SetupCommitted, EventRecorded, Closes, Apart
<1>2. AtStep(t)
  BY DEF StepsMatch
<1> QED
  BY <1>1, <1>2, StoresGrow, KeptMatches

(* With the stores as they were, what is known of them is what was.        *)
LEMMA SameStores ==
  ASSUME Same
  PROVE  /\ Ids' = Ids /\ \A id : Row(id)' = Row(id)
         /\ \A slug : VersionsOf(slug)' = VersionsOf(slug)
BY DEF Same, Ids, Row, VersionsOf

LEMMA LeftMatches ==
  ASSUME NEW s \in Slots, Left(s)
  PROVE  AtStep(s)'
<1>1. /\ pc'[s] = "free" /\ call'[s] = Idle /\ read'[s] = Nothing
      /\ todo'[s] = <<>> /\ held'[s] = {} /\ made'[s] = {}
  BY DEF Left
<1>2. call'[s].op = "none" /\ Len(read'[s].events) <= EventCap
  <2>1. Len(Nothing.events) = 0
    BY Blank
  <2> QED
    BY <1>1, <2>1, Blank, SquadPanelConstants
<1> QED
  BY <1>1, <1>2 DEF AtStep

LEMMA BeginMatches ==
  ASSUME LocalsTyped, StoresTyped, IdsOnce, VersionsDense, StepsMatch, NEW s \in Slots, Begins(s)
  PROVE  AtStep(s)'
<1>1. pc[s] = "free" /\ call[s] = Idle /\ AtStep(s) /\ call[s].op = "none"
  BY Blank DEF Begins, StepsMatch, AtStep
<1>2. held'[s] = {} /\ made'[s] = {} /\ Len(read'[s].events) <= EventCap
  BY <1>1 DEF Begins, AtStep
<1>3. /\ call'[s].op \in {"manifest", "event", "add", "patch", "disable", "prompt",
                          "finalize", "skill"}
      /\ call'[s].op = "add" => call'[s].tpl.ver \in VersionsOf(call'[s].tpl.slug)
      /\ call'[s].op \in {"patch", "disable", "prompt"} => call'[s].id \in Ids
      /\ call'[s].op \in {"finalize", "skill"} => call'[s].skills # <<>>
  <2>1. PICK c \in Calls : c = call'[s]
    BY DEF Begins
  <2> QED
    BY <2>1, CallKnown
<1>4. \/ call'[s].op \in {"finalize", "skill"} /\ pc'[s] = "skill" /\ todo'[s] = call'[s].skills
      \/ call'[s].op \notin {"finalize", "skill"} /\ pc'[s] = "read"
  BY DEF Begins
<1>5. Ids' = Ids
  BY SameStores DEF Begins
<1>6. call'[s].op = "add" => call'[s].tpl.ver \in VersionsOf(call[s].tpl.slug)'
  <2>1. PICK c : c = call'[s].tpl.slug
    OBVIOUS
  <2>2. VersionsOf(call[s].tpl.slug)' = VersionsOf(c)'
    BY <2>1
  <2>3. VersionsOf(c)' = VersionsOf(c)
    BY SameStores DEF Begins
  <2> QED
    BY <1>3, <2>1, <2>2, <2>3
<1> QED
  BY <1>2, <1>3, <1>4, <1>5, <1>6 DEF AtStep

LEMMA LearnMatches ==
  ASSUME LocalsTyped, StoresTyped, IdsOnce, StepsMatch, NEW s \in Slots, Learns(s)
  PROVE  AtStep(s)'
<1>1. /\ pc[s] = "read" /\ AtStep(s) /\ Same /\ pc'[s] \in {"insert", "write"}
      /\ call'[s] = call[s] /\ held'[s] = held[s] /\ made'[s] = made[s]
      /\ Len(read'[s].events) <= EventCap
      /\ call[s].op \in {"manifest", "prompt"} => pc'[s] = "insert"
      /\ call[s].op \in {"patch", "disable", "event"} => pc'[s] = "write"
      /\ call[s].op \in {"manifest", "prompt", "patch", "disable", "event"}
  BY DEF Learns, Reading, StepsMatch
<1>2. held'[s] = {} /\ made'[s] = {}
  BY <1>1 DEF AtStep
<1>3. call[s].op \in {"patch", "disable", "prompt"} => call[s].id \in Ids /\ Ids' = Ids
  BY <1>1, SameStores DEF AtStep
<1>4. call[s].op = "manifest" => read'[s].ver - 1 \in manifests /\ manifests' = manifests
  BY <1>1 DEF Learns, Same
<1>5. Row(call[s].id)' = Row(call[s].id)
  <2>1. PICK i : i = call[s].id /\ i = call'[s].id
    BY <1>1
  <2>2. Row(call[s].id)' = Row(i)'
    BY <2>1
  <2> QED
    BY <1>1, <2>1, <2>2, SameStores
<1>6. call[s].op = "prompt" => read'[s].ver - 1 \in VersionsOf(Row(call[s].id).slug)'
  <2>1. PICK g : g = Row(call[s].id).slug /\ g = Row(call[s].id)'.slug
    BY <1>5
  <2>2. VersionsOf(Row(call[s].id).slug)' = VersionsOf(g)'
    BY <2>1
  <2>3. call[s].op = "prompt" => read'[s].ver - 1 \in VersionsOf(g)
    BY <2>1 DEF Learns
  <2> QED
    BY <1>1, <2>2, <2>3, SameStores
<1>7. call[s].op = "disable" =>
        /\ TierOf[Row(call[s].id)'.slug] \in _REQUIRED_TIERS => read'[s].peers # {}
        /\ \A p \in read'[s].peers : /\ p \in Ids' \ {call'[s].id}
                                     /\ TierOf[Row(p)'.slug] = TierOf[Row(call[s].id)'.slug]
  <2>1. call[s].op = "disable" =>
        /\ TierOf[Row(call[s].id).slug] \in _REQUIRED_TIERS => read'[s].peers # {}
        /\ \A p \in read'[s].peers : /\ p \in Ids \ {call[s].id}
                                     /\ TierOf[Row(p).slug] = TierOf[Row(call[s].id).slug]
    BY DEF Learns
  <2>2. Ids' = Ids /\ \A p : Row(p)' = Row(p)
    BY <1>1, SameStores
  <2> QED
    BY <1>1, <1>5, <2>1, <2>2
<1> QED
  BY <1>1, <1>2, <1>3, <1>4, <1>6, <1>7 DEF AtStep

LEMMA InsertMatches ==
  ASSUME LocalsTyped, StoresTyped, IdsOnce, StepsMatch, NEW s \in Slots, Inserts(s)
  PROVE  AtStep(s)'
<1>1. /\ pc[s] = "insert" /\ AtStep(s) /\ Same /\ pc'[s] = "commit"
      /\ call'[s] = call[s] /\ read'[s] = read[s] /\ made'[s] = made[s]
      /\ held'[s] = held[s] \cup {NextKey(s)}
  BY DEF Inserts, StepsMatch
<1>2. call[s].op \in {"manifest", "prompt"} /\ held'[s] = {NextKey(s)}
  BY <1>1 DEF AtStep
<1>3. made'[s] = {} /\ Len(read'[s].events) <= EventCap
  BY <1>1, <1>2 DEF AtStep
<1>4. call[s].op = "prompt" => call[s].id \in Ids /\ Ids' = Ids
  BY <1>1, SameStores DEF AtStep
<1>5. call[s].op = "manifest" => /\ read[s].ver - 1 \in manifests /\ manifests' = manifests
                                 /\ held'[s] = {ManifestKey(read[s].ver)}
  BY <1>1, <1>2 DEF AtStep, Same, NextKey
<1>6. call[s].op = "prompt" =>
        /\ read'[s].ver - 1 \in VersionsOf(Row(call[s].id).slug)'
        /\ held'[s] = {TemplateKey(Row(call[s].id)'.slug, read'[s].ver)}
  <2>1. PICK i : i = call[s].id /\ i = call'[s].id
    BY <1>1
  <2>2. PICK g : g = Row(i).slug /\ g = Row(i)'.slug
    BY <1>1, SameStores
  <2>3. Row(call[s].id)' = Row(i)' /\ VersionsOf(Row(call[s].id).slug)' = VersionsOf(g)'
    BY <2>1, <2>2
  <2>4. call[s].op = "prompt" => read[s].ver - 1 \in VersionsOf(g)
    BY <1>1, <2>1, <2>2 DEF AtStep
  <2>5. call[s].op = "prompt" => NextKey(s) = TemplateKey(g, read[s].ver)
    BY <2>1, <2>2 DEF NextKey
  <2>6. VersionsOf(g)' = VersionsOf(g)
    BY <1>1, SameStores
  <2> QED
    BY <1>1, <1>2, <2>2, <2>3, <2>4, <2>5, <2>6
<1> QED
  BY <1>1, <1>2, <1>3, <1>4, <1>5, <1>6 DEF AtStep

(* The last of the skills leaves nothing to do.                            *)
LEMMA TailEmpty ==
  ASSUME NEW list \in Seq(Skills), list # <<>>
  PROVE  (Tail(list) = <<>>) <=> (Len(list) = 1)
<1>1. Tail(list) \in Seq(Skills) /\ Len(Tail(list)) = Len(list) - 1 /\ Len(list) \in Nat
  BY HeadTailProperties, LenProperties
<1>2. (Tail(list) = <<>>) <=> (Len(Tail(list)) = 0)
  BY <1>1, EmptySeq
<1> QED
  BY <1>1, <1>2

LEMMA BuildMatches ==
  ASSUME LocalsTyped, StoresTyped, IdsOnce, StepsMatch, NEW s \in Slots, Builds(s)
  PROVE  AtStep(s)'
<1>1. /\ pc[s] = "skill" /\ AtStep(s) /\ call'[s] = call[s] /\ read'[s] = read[s]
      /\ todo'[s] = Tail(todo[s])
      /\ pc'[s] = IF Len(todo[s]) = 1 THEN "commit" ELSE "skill"
  BY DEF Builds, StepsMatch
<1>2. call[s].op \in {"finalize", "skill"} /\ todo[s] # <<>> /\ Len(read'[s].events) <= EventCap
  BY <1>1 DEF AtStep
<1>3. todo[s] \in Seq(Skills) /\ Head(todo[s]) \in Skills
  BY <1>2, HeadTailProperties DEF LocalsTyped
<1>4. pc'[s] = "commit" => todo'[s] = <<>>
  BY <1>1, <1>2, <1>3, TailEmpty
<1>5. pc'[s] = "skill" => todo'[s] # <<>>
  BY <1>1, <1>2, <1>3, TailEmpty
<1>6. \A k \in held'[s] : k.slug \in Slugs /\ k = TemplateKey(k.slug, 1)
  <2>1. \A k \in held[s] : k.slug \in Slugs /\ k = TemplateKey(k.slug, 1)
    BY <1>1, <1>2 DEF AtStep
  <2>2. PICK k : k = TemplateKey(Head(todo[s]).slug, 1)
    OBVIOUS
  <2>3. k.slug \in Slugs /\ k = TemplateKey(k.slug, 1)
    BY <1>3, <2>2 DEF TemplateKey, Skills
  <2>4. held'[s] \subseteq held[s] \cup {k}
    BY <2>2 DEF Builds
  <2> QED
    BY <2>1, <2>3, <2>4
<1>7. \A g \in made'[s] : call'[s].op = "finalize" /\ g.by = call'[s] /\ g.ver = 1
  <2>1. \A g \in made[s] : call[s].op = "finalize" /\ g.by = call[s] /\ g.ver = 1
    BY <1>1 DEF AtStep
  <2>2. PICK g : g = Agent(stamp + 1, Head(todo[s]).slug, 1, call[s])
    OBVIOUS
  <2>3. g.by = call[s] /\ g.ver = 1
    BY <2>2 DEF Agent
  <2>4. made'[s] = made[s] \/ (made'[s] = made[s] \cup {g} /\ call[s].op = "finalize")
    BY <2>2 DEF Builds
  <2> QED
    BY <1>1, <2>1, <2>3, <2>4
<1>8. pc'[s] \in {"skill", "commit"}
  BY <1>1
<1> QED
  BY <1>1, <1>2, <1>4, <1>5, <1>6, <1>7, <1>8 DEF AtStep

LEMMA NextSteps ==
  ASSUME LocalsTyped, StoresTyped, IdsOnce, VersionsDense, StepsMatch, NEW s \in Slots, Effects(s)
  PROVE  StepsMatch'
<1>1. AtStep(s)'
  <2>1. CASE Ends(s) \/ Commits(s)
    BY <2>1, LeftMatches DEF Ends, Commits, ManifestCommitted, PromptCommitted, AgentAdded,
       StatusWritten, SetupCommitted, EventRecorded, Closes
  <2> QED
    BY <2>1, BeginMatches, LearnMatches, InsertMatches, BuildMatches DEF Effects
<1>2. \A t \in Slots \ {s} : AtStep(t)'
  BY OthersMatch
<1> QED
  BY <1>1, <1>2 DEF StepsMatch
-----------------------------------------------------------------------------
(* A setup is committed complete.                                          *)

(* The transaction is through with the first n skills of its setup.        *)
Through(s, n) ==
  /\ todo[s] = SubSeq(call[s].skills, n + 1, Len(call[s].skills))
  /\ \A i \in 1..n :
       /\ \E h \in made[s] : h.by = call[s] /\ h.slug = call[s].skills[i].slug
       /\ call[s].skills[i].draft => TemplateKey(call[s].skills[i].slug, 1) \in held[s]

LEMMA PendingThrough ==
  PendingSetups <=>
    \A s \in Slots : call[s].op = "finalize" => \E n \in 0..Len(call[s].skills) : Through(s, n)
BY DEF PendingSetups, Through

LEMMA BuildThrough ==
  ASSUME LocalsTyped, StepsMatch, NEW s \in Slots, call[s].op = "finalize", Builds(s),
         NEW n \in 0..Len(call[s].skills), Through(s, n)
  PROVE  n + 1 \in 0..Len(call[s].skills) /\ Through(s, n + 1)'
<1> DEFINE skills == call[s].skills
<1>1. skills \in Seq(Skills) /\ Len(skills) \in Nat /\ n \in Nat
  BY FinalizeTyped, LenProperties
<1>2. todo[s] = SubSeq(skills, n + 1, Len(skills)) /\ todo[s] # <<>>
  BY DEF Builds, StepsMatch, AtStep, Through
<1>3. n < Len(skills)
  <2>1. CASE n = Len(skills)
    <3>1. n + 1 \in Int /\ Len(skills) \in Int /\ Len(skills) < n + 1
      BY <1>1, <2>1
    <3> HIDE DEF skills
    <3>2. SubSeq(skills, n + 1, Len(skills)) = <<>>
      BY <3>1, SubSeqEmpty
    <3> QED
      BY <1>2, <3>2
  <2> QED
    BY <1>1, <2>1
<1>4. n + 1 \in 1..Len(skills) /\ Len(skills) \in (n + 1)..Len(skills)
  BY <1>1, <1>3
<1>5. /\ Head(todo[s]) = skills[n + 1]
      /\ Tail(todo[s]) = SubSeq(skills, (n + 1) + 1, Len(skills))
  <2> HIDE DEF skills
  <2>1. /\ Head(SubSeq(skills, n + 1, Len(skills))) = skills[n + 1]
        /\ Tail(SubSeq(skills, n + 1, Len(skills))) = SubSeq(skills, (n + 1) + 1, Len(skills))
    BY <1>1, <1>4, HeadTailOfSubSeq
  <2> QED
    BY <1>2, <2>1
<1>6. call'[s] = call[s] /\ todo'[s] = Tail(todo[s])
      /\ made[s] \subseteq made'[s] /\ held[s] \subseteq held'[s]
  BY DEF Builds
<1>7. /\ \E h \in made'[s] : h.by = call[s] /\ h.slug = skills[n + 1].slug
      /\ skills[n + 1].draft => TemplateKey(skills[n + 1].slug, 1) \in held'[s]
  <2>1. PICK h : h = Agent(stamp + 1, skills[n + 1].slug, 1, call[s])
    OBVIOUS
  <2>2. h.by = call[s] /\ h.slug = skills[n + 1].slug
    BY <2>1 DEF Agent
  <2>3. h \in made'[s]
    BY <1>5, <2>1 DEF Builds
  <2> QED
    BY <1>5, <2>2, <2>3 DEF Builds
<1>8. ASSUME NEW i \in 1..(n + 1)
      PROVE  /\ \E h \in made'[s] : h.by = call[s] /\ h.slug = skills[i].slug
             /\ skills[i].draft => TemplateKey(skills[i].slug, 1) \in held'[s]
  <2>1. CASE i = n + 1
    BY <1>7, <2>1
  <2>2. CASE i \in 1..n
    BY <1>6, <2>2 DEF Through
  <2> QED
    BY <1>1, <2>1, <2>2
<1> QED
  BY <1>1, <1>3, <1>5, <1>6, <1>8 DEF Through

LEMMA NextPending ==
  ASSUME LocalsTyped, StoresTyped, IdsOnce, VersionsDense, StepsMatch, PendingSetups,
         NEW s \in Slots, Effects(s)
  PROVE  PendingSetups'
<1>1. ASSUME NEW t \in Slots \ {s}, call'[t].op = "finalize"
      PROVE  \E n \in 0..Len(call'[t].skills) : Through(t, n)'
  <2>1. call'[t] = call[t] /\ todo'[t] = todo[t] /\ held'[t] = held[t] /\ made'[t] = made[t]
    BY DEF Effects, Begins, Ends, Learns, Reading, Inserts, Builds, Commits, ManifestCommitted,
         PromptCommitted, AgentAdded, StatusWritten, SetupCommitted, EventRecorded, Closes, Apart
  <2>2. PICK n \in 0..Len(call[t].skills) : Through(t, n)
    BY <1>1, <2>1, PendingThrough
  <2>3. Through(t, n)'
    BY <2>1, <2>2 DEF Through
  <2> QED
    BY <2>1, <2>3
<1>2. ASSUME call'[s].op = "finalize"
      PROVE  \E n \in 0..Len(call'[s].skills) : Through(s, n)'
  <2>1. CASE Begins(s)
    <3>1. PICK c \in Calls : c = call'[s]
      BY <2>1 DEF Begins
    <3>2. c.skills \in Seq(Skills) /\ todo'[s] = c.skills
      BY <1>2, <2>1, <3>1, CallKnown DEF Begins
    <3>3. SubSeq(c.skills, 0 + 1, Len(c.skills)) = c.skills
      BY <3>2, SubSeqFull
    <3>4. Through(s, 0)'
      BY <3>1, <3>2, <3>3 DEF Through
    <3>5. 0 \in 0..Len(call'[s].skills)
      BY <3>1, <3>2, LenProperties
    <3> QED
      BY <3>4, <3>5
  <2>2. CASE Ends(s) \/ Commits(s)
    <3>1. call'[s] = Idle
      BY <2>2 DEF Ends, Commits, ManifestCommitted, PromptCommitted, AgentAdded,
         StatusWritten, SetupCommitted, EventRecorded, Closes, Left
    <3> QED
      BY <1>2, <3>1, Blank
  <2>3. CASE Learns(s) \/ Inserts(s)
    <3>1. call'[s] = call[s] /\ pc[s] \in {"read", "insert"}
      BY <2>3 DEF Learns, Reading, Inserts
    <3> QED
      BY <1>2, <3>1 DEF StepsMatch, AtStep
  <2>4. CASE Builds(s)
    <3>1. call'[s] = call[s]
      BY <2>4 DEF Builds
    <3>2. PICK n \in 0..Len(call[s].skills) : Through(s, n)
      BY <1>2, <3>1, PendingThrough
    <3>3. n + 1 \in 0..Len(call[s].skills) /\ Through(s, n + 1)'
      BY <1>2, <2>4, <3>1, <3>2, BuildThrough
    <3> QED
      BY <3>1, <3>3
  <2> QED
    BY <2>1, <2>2, <2>3, <2>4 DEF Effects
<1>3. \A t \in Slots :
        call'[t].op = "finalize" => \E n \in 0..Len(call'[t].skills) : Through(t, n)'
  BY <1>1, <1>2
<1> QED
  BY <1>3 DEF PendingSetups, Through

LEMMA NextSetups ==
  ASSUME LocalsTyped, StoresTyped, IdsOnce, StepsMatch, PendingSetups, SetupAllOrNothing,
         NEW s \in Slots, Effects(s)
  PROVE  SetupAllOrNothing'
<1>1. templates \subseteq templates'
  BY DEF Effects, Begins, Ends, Learns, Reading, Inserts, Builds, Commits, ManifestCommitted,
         PromptCommitted, AgentAdded, StatusWritten, SetupCommitted, EventRecorded, Same
<1>2. ASSUME NEW g \in agents, g.by # None, NEW i \in 1..Len(g.by.skills)
      PROVE  /\ \E h \in agents' : h.by = g.by /\ h.slug = g.by.skills[i].slug
             /\ g.by.skills[i].draft => [slug |-> g.by.skills[i].slug, ver |-> 1] \in templates'
  <2>1. PICK h \in agents : h.by = g.by /\ h.slug = g.by.skills[i].slug
    BY <1>2 DEF SetupAllOrNothing
  <2>2. \E k \in agents' : k.by = h.by /\ k.slug = h.slug
    BY AgentsPersist DEF Persist
  <2>3. g.by.skills[i].draft => [slug |-> g.by.skills[i].slug, ver |-> 1] \in templates
    BY <1>2 DEF SetupAllOrNothing
  <2> QED
    BY <1>1, <2>1, <2>2, <2>3
<1>3. ASSUME SetupCommitted(s), NEW g \in made[s], NEW i \in 1..Len(g.by.skills)
      PROVE  /\ \E h \in agents' : h.by = g.by /\ h.slug = g.by.skills[i].slug
             /\ g.by.skills[i].draft => [slug |-> g.by.skills[i].slug, ver |-> 1] \in templates'
  <2>1. g.by = call[s] /\ call[s].op = "finalize" /\ todo[s] = <<>>
    BY <1>3 DEF SetupCommitted, StepsMatch, AtStep
  <2> DEFINE skills == call[s].skills
  <2>2. skills \in Seq(Skills) /\ Len(skills) \in Nat
    BY <2>1, FinalizeTyped, LenProperties
  <2>3. PICK n \in 0..Len(skills) : Through(s, n)
    BY <2>1, PendingThrough
  <2>4. n = Len(skills)
    <3>1. SUFFICES ASSUME n < Len(skills) PROVE FALSE
      BY <2>2
    <3>2. SubSeq(skills, n + 1, Len(skills)) = <<>>
      BY <2>1, <2>3 DEF Through
    <3>3. n + 1 \in Int /\ Len(skills) \in Int /\ n + 1 <= Len(skills)
          /\ \A j \in (n + 1)..Len(skills) : skills[j] \in Skills
      BY <2>2, <3>1, ElementOfSeq
    <3> HIDE DEF skills
    <3>4. Len(SubSeq(skills, n + 1, Len(skills))) = Len(skills) - (n + 1) + 1
      BY <3>3, SubSeqProperties
    <3>5. <<>> \in Seq(Skills) /\ Len(<<>>) = 0
      BY EmptySeq
    <3>6. Len(skills) - (n + 1) + 1 = 0
      BY <3>2, <3>4, <3>5
    <3> QED
      BY <2>2, <3>1, <3>6
  <2>5. /\ \E h \in made[s] : h.by = call[s] /\ h.slug = skills[i].slug
        /\ skills[i].draft => TemplateKey(skills[i].slug, 1) \in held[s]
    BY <2>1, <2>3, <2>4 DEF Through
  <2>6. made[s] \subseteq agents'
    BY <1>3 DEF SetupCommitted
  <2>7. skills[i].draft => [slug |-> skills[i].slug, ver |-> 1] \in templates'
    <3>1. SUFFICES ASSUME skills[i].draft PROVE [slug |-> skills[i].slug, ver |-> 1] \in templates'
      OBVIOUS
    <3>2. PICK k : k = TemplateKey(skills[i].slug, 1)
      OBVIOUS
    <3>3. k \in held[s] /\ k.slug = skills[i].slug /\ k.ver = 1
      BY <2>5, <3>1, <3>2 DEF TemplateKey
    <3>4. [slug |-> k.slug, ver |-> k.ver] \in templates'
      BY <1>3, <3>3 DEF SetupCommitted
    <3> QED
      BY <3>3, <3>4
  <2> QED
    BY <2>1, <2>5, <2>6, <2>7
<1>4. ASSUME NEW g \in agents', g.by # None
      PROVE  \/ \E h \in agents : h.by = g.by
             \/ SetupCommitted(s) /\ g \in made[s]
  <2>1. CASE Rewrites(agents')
    BY <2>1 DEF Rewrites
  <2>2. CASE AgentAdded(s)
    <3>1. PICK k : k = Agent(stamp + 1, call[s].tpl.slug, call[s].tpl.ver, None)
      OBVIOUS
    <3>2. agents' = agents \cup {k}
      BY <2>2, <3>1 DEF AgentAdded
    <3>3. k.by = None
      BY <3>1 DEF Agent
    <3> QED
      BY <1>4, <3>2, <3>3
  <2>3. CASE SetupCommitted(s)
    BY <2>3 DEF SetupCommitted
  <2> QED
    BY <2>1, <2>2, <2>3, AgentsStep
<1>5. ASSUME NEW g \in agents', g.by # None, NEW i \in 1..Len(g.by.skills)
      PROVE  /\ \E h \in agents' : h.by = g.by /\ h.slug = g.by.skills[i].slug
             /\ g.by.skills[i].draft => [slug |-> g.by.skills[i].slug, ver |-> 1] \in templates'
  <2>1. CASE SetupCommitted(s) /\ g \in made[s]
    BY <1>3, <2>1
  <2>2. CASE \E h \in agents : h.by = g.by
    BY <1>2, <1>5, <2>2
  <2> QED
    BY <1>4, <1>5, <2>1, <2>2
<1> QED
  BY <1>5 DEF SetupAllOrNothing
-----------------------------------------------------------------------------
(* The invariant is inductive.                                             *)

LEMMA InitInvariant ==
  ASSUME Init
  PROVE  IInv
<1>1. /\ manifests = {1} /\ current = 1 /\ templates = {} /\ events = <<>>
      /\ agents = {Agent(i, InitSlugs[i], 1, None) : i \in 1..Len(InitSlugs)}
      /\ stamp = Len(InitSlugs) /\ served = 0
      /\ pc = [s \in Slots |-> "free"] /\ call = [s \in Slots |-> Idle]
      /\ read = [s \in Slots |-> Nothing] /\ todo = [s \in Slots |-> <<>>]
      /\ held = [s \in Slots |-> {}] /\ made = [s \in Slots |-> {}]
  BY DEF Init
<1>2. LocalsTyped
  <2>1. call \in [Slots -> Requests] /\ todo \in [Slots -> Seq(Skills)]
    BY <1>1, Blank
  <2>2. read \in [Slots -> [ver : Nat, status : Statuses, peers : SUBSET Nat, events : Seq(Nat)]]
    BY <1>1, Blank
  <2>3. /\ pc \in [Slots -> Steps] /\ held \in [Slots -> SUBSET Keys]
        /\ made \in [Slots -> SUBSET Rows]
    BY <1>1 DEF Steps
  <2> QED
    BY <2>1, <2>2, <2>3 DEF LocalsTyped
<1>3. \A i \in 1..Len(InitSlugs) : i \in Nat /\ InitSlugs[i] \in Slugs
  BY SquadPanelConstants, ElementOfSeq
<1>4. Len(InitSlugs) \in Nat
  BY SquadPanelConstants, LenProperties
<1>5. \A g \in agents : /\ g \in Rows /\ g.id \in 1..Len(InitSlugs) /\ g.ver = 1 /\ g.by = None
                        /\ g = Agent(g.id, InitSlugs[g.id], 1, None)
  <2>1. SUFFICES ASSUME NEW i \in 1..Len(InitSlugs), NEW g, g = Agent(i, InitSlugs[i], 1, None)
                 PROVE  /\ g \in Rows /\ g.id = i /\ g.ver = 1 /\ g.by = None
    BY <1>1
  <2> QED
    BY <1>3, <2>1, AgentTyped
<1>6. StoresTyped
  <2>1. events \in Seq(Nat) /\ Len(events) <= EventCap
    BY <1>1, EmptySeq, SquadPanelConstants
  <2>2. agents \subseteq Rows
    BY <1>5
  <2> QED
    BY <1>1, <1>4, <2>1, <2>2 DEF StoresTyped
<1>7. IdsOnce
  <2>1. \A g \in agents : g.id <= stamp /\ \A h \in agents : g.id = h.id => g = h
    BY <1>1, <1>4, <1>5
  <2> QED
    BY <1>1, <2>1 DEF IdsOnce
<1>8. KeysOnce
  BY <1>1 DEF KeysOnce
<1>9. VersionsDense
  <2>1. \A slug : VersionsOf(slug) = {1}
    BY <1>1 DEF VersionsOf
  <2>2. {1} = 1..1
    OBVIOUS
  <2>3. manifests = 1..current /\ current # 0
    BY <1>1, <2>2
  <2>4. \A slug \in Slugs : \E m \in VersionsOf(slug) : VersionsOf(slug) = 1..m
    BY <2>1, <2>2
  <2>5. \A g \in agents : g.ver \in VersionsOf(g.slug)
    BY <1>5, <2>1
  <2> QED
    BY <2>3, <2>4, <2>5 DEF VersionsDense
<1>10. StepsMatch
  <2>1. Len(Nothing.events) <= EventCap
    BY Blank, SquadPanelConstants
  <2> QED
    BY <1>1, <2>1, Blank DEF StepsMatch, AtStep
<1>11. PendingSetups /\ SetupAllOrNothing
  BY <1>1, <1>5, Blank DEF PendingSetups, SetupAllOrNothing
<1> QED
  BY <1>2, <1>6, <1>7, <1>8, <1>9, <1>10, <1>11, TypeParts DEF IInv

(* A step of the program, or none.                                         *)
LEMMA StepOrStutter ==
  ASSUME IInv, [Next]_vars
  PROVE  (\E s \in Slots : Effects(s)) \/ UNCHANGED vars
<1>1. CASE Next
  <2>1. PICK s \in Slots : Step(s)
    BY <1>1 DEF Next, Step
  <2> QED
    BY <2>1, Parts, StepEffects
<1> QED
  BY <1>1

LEMMA NextInvariant ==
  ASSUME IInv, [Next]_vars
  PROVE  IInv'
<1>1. ASSUME NEW s \in Slots, Effects(s) PROVE IInv'
  <2>1. LocalsTyped' /\ StoresTyped'
    BY <1>1, Parts, NextTypes
  <2>2. TypeOK'
    BY <2>1 DEF TypeOK, LocalsTyped, StoresTyped
  <2>3. IdsOnce' /\ KeysOnce' /\ VersionsDense'
    BY <1>1, Parts, NextIds, NextKeys, NextVersions
  <2>4. StepsMatch' /\ PendingSetups' /\ SetupAllOrNothing'
    BY <1>1, Parts, NextSteps, NextPending, NextSetups
  <2> QED
    BY <2>2, <2>3, <2>4 DEF IInv
<1>2. CASE UNCHANGED vars
  <2>1. /\ UNCHANGED <<manifests, current, agents, templates, events, pc, call, read>>
        /\ UNCHANGED <<todo, held, made, stamp, served>>
    BY <1>2 DEF vars, squad, work
  <2>2. TypeOK' /\ IdsOnce' /\ KeysOnce'
    BY <2>1 DEF IInv, TypeOK, IdsOnce, KeysOnce, Ids, Committed
  <2>3. \A slug : VersionsOf(slug)' = VersionsOf(slug)
    BY <2>1 DEF VersionsOf
  <2>4. VersionsDense'
    BY <2>1, <2>3 DEF IInv, VersionsDense
  <2>5. PendingSetups' /\ SetupAllOrNothing'
    BY <2>1 DEF IInv, PendingSetups, SetupAllOrNothing
  <2>6. StepsMatch'
    <3>1. Ids' = Ids /\ \A id : Row(id)' = Row(id)
      BY <2>1, SameStores DEF Same
    <3>2. ASSUME NEW s \in Slots PROVE AtStep(s)'
      <4>1. AtStep(s)
        BY DEF IInv, StepsMatch
      <4>2. \A id \in Ids : id \in Ids' /\ Row(id)'.slug = Row(id).slug
        BY <3>1
      <4> QED
        BY <2>1, <2>3, <4>1, <4>2, KeptMatches
    <3> QED
      BY <3>2 DEF StepsMatch
  <2> QED
    BY <2>2, <2>4, <2>5, <2>6 DEF IInv
<1> QED
  BY <1>1, <1>2, StepOrStutter

(* Inductive: whatever the panel is asked, in whatever interleaving, its   *)
(* requests keep to their types, ids and unique keys are given once,       *)
(* versions have no gaps, and what a request has read still bounds what it *)
(* will write.                                                             *)
THEOREM Inductive == Spec => []IInv
<1>1. Init => IInv
  BY InitInvariant
<1>2. IInv /\ [Next]_vars => IInv'
  BY NextInvariant
<1> QED
  BY <1>1, <1>2, PTL DEF Spec

(* SetupsWhole: an agent of a setup never stands without the agents of its *)
(* other skills and the templates of its drafts.                           *)
THEOREM SetupsWhole == Spec => []SetupAllOrNothing
<1>1. IInv => SetupAllOrNothing
  BY DEF IInv
<1> QED
  BY <1>1, Inductive, PTL

-----------------------------------------------------------------------------
(* What a step may never do.                                               *)

(* Except for a new prompt, no agent changes its version.                  *)
LEMMA VersionsStay ==
  ASSUME LocalsTyped, StoresTyped, IdsOnce, StepsMatch, NEW s \in Slots, Effects(s),
         ~PromptCommitted(s)
  PROVE  \A g \in agents : \A h \in agents' : g.id = h.id => h.ver = g.ver
<1>1. \A g \in agents : \A h \in agents : g.id = h.id => g = h
  BY DEF IdsOnce
<1>2. CASE agents' = agents
  BY <1>1, <1>2
<1>3. CASE StatusWritten(s)
  <2>1. "disabled" \in Statuses
    BY DEF Statuses
  <2>2. CASE \E status \in Statuses : agents' = WithStatus(call[s].id, status)
    BY <2>2, StatusRewrites
  <2> QED
    BY <1>2, <1>3, <2>1, <2>2, RequestParts DEF StatusWritten
<1>4. CASE AgentAdded(s)
  <2>1. PICK k : k = Agent(stamp + 1, call[s].tpl.slug, call[s].tpl.ver, None)
    OBVIOUS
  <2>2. agents' = agents \cup {k}
    BY <1>4, <2>1 DEF AgentAdded
  <2>3. k.id = stamp + 1
    BY <2>1 DEF Agent
  <2>4. \A g \in agents : g.id # stamp + 1
    BY DEF IdsOnce, StoresTyped, Rows
  <2> QED
    BY <1>1, <2>2, <2>3, <2>4
<1>5. CASE SetupCommitted(s)
  <2>1. \A g \in agents : \A h \in made[s] : g.id # h.id
    BY DEF IdsOnce, Ids
  <2> QED
    BY <1>1, <1>5, <2>1 DEF SetupCommitted
<1>6. agents' = agents \/ StatusWritten(s) \/ AgentAdded(s) \/ SetupCommitted(s)
  BY DEF Effects, Begins, Ends, Learns, Reading, Inserts, Builds, Commits, ManifestCommitted,
         EventRecorded, Same
<1> QED
  BY <1>2, <1>3, <1>4, <1>5, <1>6

LEMMA ForwardStep ==
  ASSUME IInv, NEW s \in Slots, Effects(s)
  PROVE  /\ current' # current => \A v \in manifests : current' > v
         /\ \A g \in agents, h \in agents' : g.id = h.id /\ g.ver # h.ver =>
              /\ h.ver > g.ver
              /\ \A t \in templates : t.slug = g.slug => h.ver > t.ver
<1>1. current' # current => \A v \in manifests : current' > v
  <2>1. CASE ManifestCommitted(s)
    <3>1. current' = current + 1 /\ manifests = 1..current /\ current \in Nat
      BY <2>1, Parts, NextManifest DEF ManifestCommitted
    <3> QED
      BY <3>1
  <2>2. ManifestCommitted(s) \/ current' = current
    BY DEF Effects, Begins, Ends, Learns, Reading, Inserts, Builds, Commits, PromptCommitted,
       AgentAdded, StatusWritten, SetupCommitted, EventRecorded, Same
  <2> QED
    BY <2>1, <2>2
<1>2. ASSUME NEW g \in agents, NEW h \in agents', g.id = h.id, g.ver # h.ver
      PROVE  h.ver > g.ver /\ \A t \in templates : t.slug = g.slug => h.ver > t.ver
  <2>1. PromptCommitted(s)
    BY <1>2, Parts, VersionsStay
  <2>2. call[s].id \in Ids /\ read[s].ver \in Nat
    BY <2>1, Parts DEF StepsMatch, AtStep, PromptCommitted, Doing, LocalsTyped
  <2>3. agents' = (agents \ {Row(call[s].id)}) \cup {[Row(call[s].id) EXCEPT !.ver = read[s].ver]}
    BY <2>1 DEF PromptCommitted
  <2>4. h \in agents \/ (h.id = call[s].id /\ h.ver = read[s].ver)
    BY <2>2, <2>3, Parts, PromptRewrites
  <2>5. h \notin agents
    BY <1>2, Parts DEF IdsOnce
  <2>6. g = Row(call[s].id) /\ h.ver = read[s].ver
    BY <1>2, <2>4, <2>5, Parts, RowFound
  <2>7. PICK m \in Nat : h.ver = m + 1 /\ VersionsOf(g.slug) = 1..m
    BY <2>1, <2>6, Parts, NextPrompt
  <2>8. g.ver \in VersionsOf(g.slug)
    BY Parts DEF VersionsDense
  <2>9. \A t \in templates : t.slug = g.slug => t.ver \in VersionsOf(g.slug)
    BY VersionsKnown
  <2> QED
    BY <2>7, <2>8, <2>9
<1> QED
  BY <1>1, <1>2

(* VersionsForward: the squad only moves to a manifest newer than every    *)
(* other, and an agent to a prompt newer than every template of its slug.  *)
THEOREM VersionsForward == Spec => VersionsMoveForward
<1> DEFINE Forward ==
      /\ current' # current => \A v \in manifests : current' > v
      /\ \A g \in agents, h \in agents' : g.id = h.id /\ g.ver # h.ver =>
           /\ h.ver > g.ver
           /\ \A t \in templates : t.slug = g.slug => h.ver > t.ver
<1>1. IInv /\ [Next]_vars => [Forward]_vars
  BY StepOrStutter, ForwardStep
<1>2. Spec => []IInv /\ [][Next]_vars
  BY Inductive, PTL DEF Spec
<1> QED
  BY <1>1, <1>2, PTL DEF VersionsMoveForward

(* Except when a status is written, every agent keeps its status.          *)
LEMMA StatusStays ==
  ASSUME LocalsTyped, StoresTyped, IdsOnce, StepsMatch, NEW s \in Slots, Effects(s),
         ~StatusWritten(s), NEW g \in agents
  PROVE  \E h \in agents' : h.slug = g.slug /\ h.status = g.status
<1>1. CASE PromptCommitted(s)
  <2>1. call[s].id \in Ids
    BY <1>1 DEF StepsMatch, AtStep, PromptCommitted, Doing
  <2>2. PICK r : r = Row(call[s].id)
    OBVIOUS
  <2>3. agents' = (agents \ {r}) \cup {[r EXCEPT !.ver = read[s].ver]}
    BY <1>1, <2>2 DEF PromptCommitted
  <2>4. r \in Rows
    BY <2>1, <2>2, RowFound DEF StoresTyped
  <2>5. PICK new : new = [r EXCEPT !.ver = read[s].ver]
    OBVIOUS
  <2>6. new.slug = r.slug /\ new.status = r.status
    BY <2>4, <2>5 DEF Rows
  <2> QED
    BY <2>3, <2>5, <2>6
<1>2. CASE ~PromptCommitted(s)
  <2>1. agents \subseteq agents'
    BY <1>2 DEF Effects, Begins, Ends, Learns, Reading, Inserts, Builds, Commits,
       ManifestCommitted, AgentAdded, SetupCommitted, EventRecorded, Same
  <2> QED
    BY <2>1
<1> QED
  BY <1>1, <1>2

LEMMA LastStep ==
  ASSUME IInv, NEW s \in Slots, Effects(s), NEW tier \in _REQUIRED_TIERS,
         ActiveOf(tier) # {}, ActiveOf(tier)' = {}
  PROVE  /\ pc[s] = "write" /\ pc'[s] = "free"
         /\ \/ call[s].op = "patch"
            \/ /\ call[s].op = "disable"
               /\ \E g \in agents : /\ g.id \in read[s].peers /\ g.id # call[s].id
                                    /\ g.status = "disabled"
<1>1. PICK a \in agents : a.status # "disabled" /\ TierOf[a.slug] = tier
  BY DEF ActiveOf
<1>2. \A h \in agents' : TierOf[h.slug] = tier => h.status = "disabled"
  BY DEF ActiveOf
<1>3. StatusWritten(s)
  BY <1>1, <1>2, Parts, StatusStays
<1>4. pc[s] = "write" /\ pc'[s] = "free" /\ call[s].op \in {"patch", "disable"}
  BY <1>3 DEF StatusWritten, Closes, Left
<1>5. ASSUME call[s].op = "disable"
      PROVE  \E g \in agents : /\ g.id \in read[s].peers /\ g.id # call[s].id
                               /\ g.status = "disabled"
  <2> DEFINE id == call[s].id
  <2>1. agents' = WithStatus(id, "disabled")
    BY <1>3, <1>5 DEF StatusWritten
  <2>2. \A g \in agents : g.id # id => g \in agents'
    BY <2>1 DEF WithStatus
  <2>3. a.id = id /\ a = Row(id)
    BY <1>1, <1>2, <2>2, Parts, RowFound
  <2>4. /\ TierOf[Row(id).slug] \in _REQUIRED_TIERS => read[s].peers # {}
        /\ \A p \in read[s].peers : /\ p \in Ids \ {id}
                                    /\ TierOf[Row(p).slug] = TierOf[Row(id).slug]
    BY <1>4, <1>5, Parts DEF StepsMatch, AtStep
  <2>5. PICK p \in read[s].peers : p \in Ids \ {id} /\ TierOf[Row(p).slug] = tier
    BY <1>1, <2>3, <2>4
  <2>6. Row(p) \in agents /\ Row(p).id = p
    BY <2>5, Parts, RowFound
  <2> QED
    BY <1>2, <2>2, <2>5, <2>6
<1> QED
  BY <1>4, <1>5

(* LastOfTier: a squad loses its last active architect or dev only by a    *)
(* PATCH, or by a DELETE that had counted a peer which was disabled since. *)
THEOREM LastOfTier == Spec => LastOfTierOnlyByRace
<1> DEFINE Race ==
      \A tier \in _REQUIRED_TIERS : ActiveOf(tier) # {} /\ ActiveOf(tier)' = {} =>
        \E s \in Slots : pc[s] = "write" /\ pc'[s] = "free" /\
            \/ call[s].op = "patch"
            \/ /\ call[s].op = "disable"
               /\ \E g \in agents : /\ g.id \in read[s].peers /\ g.id # call[s].id
                                    /\ g.status = "disabled"
<1>1. IInv /\ [Next]_vars => [Race]_vars
  BY StepOrStutter, LastStep
<1>2. Spec => []IInv /\ [][Next]_vars
  BY Inductive, PTL DEF Spec
<1> QED
  BY <1>1, <1>2, PTL DEF LastOfTierOnlyByRace

LEMMA TimelineStep ==
  ASSUME IInv, NEW s \in Slots, Effects(s), NEW i \in 1..Len(events),
         events[i] \notin {events'[j] : j \in 1..Len(events')}
  PROVE  /\ Doing(s, "event", "write")
         /\ LET list == read[s].events IN
            \/ events[i] \notin {list[j] : j \in 1..Len(list)}
            \/ Len(list) = EventCap /\ list[1] = events[i]
<1>1. EventRecorded(s)
  <2>1. EventRecorded(s) \/ events' = events
    BY DEF Effects, Begins, Ends, Learns, Reading, Inserts, Builds, Commits, ManifestCommitted,
       PromptCommitted, AgentAdded, StatusWritten, SetupCommitted, Same
  <2> QED
    BY <2>1
<1> DEFINE list == read[s].events
<1>2. /\ Doing(s, "event", "write") /\ events' = KeepLast(Append(list, stamp + 1))
  BY <1>1 DEF EventRecorded
<1>3. list \in Seq(Nat) /\ Len(list) <= EventCap /\ Len(list) \in Nat /\ stamp + 1 \in Nat
      /\ EventCap \in Nat
  BY Parts, LenProperties, SquadPanelConstants DEF LocalsTyped, StoresTyped, StepsMatch, AtStep
<1> HIDE DEF list
<1>4. /\ Len(list) < EventCap =>
           Len(events') = Len(list) + 1 /\ \A j \in 1..Len(list) : events'[j] = list[j]
      /\ Len(list) = EventCap =>
           Len(events') = Len(list) /\ \A j \in 2..Len(list) : events'[j - 1] = list[j]
  BY <1>2, <1>3, TimelineKept
<1>5. ASSUME NEW j \in 1..Len(list), list[j] = events[i]
      PROVE  Len(list) = EventCap /\ list[1] = events[i]
  <2>1. Len(list) = EventCap
    BY <1>3, <1>4, <1>5
  <2>2. j = 1
    <3>1. SUFFICES ASSUME j \in 2..Len(list) PROVE FALSE
      BY <1>3
    <3>2. events'[j - 1] = events[i] /\ j - 1 \in 1..Len(events')
      BY <1>3, <1>4, <1>5, <2>1, <3>1
    <3> QED
      BY <3>2
  <2> QED
    BY <1>5, <2>1, <2>2
<1> QED
  BY <1>2, <1>5 DEF list

(* TimelineKeeps: a recorded event is dropped only for EventCap newer      *)
(* ones, or by a webhook that had read the list before the event was in it.*)
THEOREM TimelineKeeps == Spec => RecordedEventsKept
<1> DEFINE Kept ==
      \A i \in 1..Len(events) : events[i] \notin {events'[j] : j \in 1..Len(events')} =>
        \E s \in Slots : /\ Doing(s, "event", "write")
                         /\ LET list == read[s].events IN
                            \/ events[i] \notin {list[j] : j \in 1..Len(list)}
                            \/ Len(list) = EventCap /\ list[1] = events[i]
<1>1. IInv /\ [Next]_vars => [Kept]_vars
  BY StepOrStutter, TimelineStep
<1>2. Spec => []IInv /\ [][Next]_vars
  BY Inductive, PTL DEF Spec
<1> QED
  BY <1>1, <1>2, PTL DEF RecordedEventsKept

=============================================================================
