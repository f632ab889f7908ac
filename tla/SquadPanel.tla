----------------------------- MODULE SquadPanel -----------------------------
(***************************************************************************)
(* What the client's panel does to a squad, and what a Jira webhook does   *)
(* to a task: versions of the manifest, agents added, changed, disabled    *)
(* and given a new prompt, the setup screen that turns drafts into skill   *)
(* templates and agents, and the timeline of events.                       *)
(*                                                                         *)
(* Each request is a coroutine with a session of its own: it reads, it     *)
(* awaits, and it writes what it computed from what it had read.           *)
(* PostgreSQL runs the transactions at READ COMMITTED.  An INSERT whose    *)
(* unique key another open transaction has inserted waits for that         *)
(* transaction; one whose key is committed is refused, and the request     *)
(* ends in an error with nothing written.  Two transactions that wait for  *)
(* each other's key are a deadlock, and PostgreSQL aborts one of them.     *)
(***************************************************************************)
EXTENDS Naturals, Sequences, FiniteSetsExt

CONSTANTS
    Slots,        \* coroutines that may serve requests at the same time
    MaxRequests,  \* bound: requests of one behaviour
    InitSlugs,    \* the slugs of the agents the squad begins with
    Catalog,      \* slugs of the global skill templates, all at version 1
    TierOf,       \* the tier of the templates of each slug
    Setups,       \* lists of skills the setup screen may submit: [slug, draft]
    EventCap,     \* how many events the timeline keeps (50 in the code)
    None

_REQUIRED_TIERS == {"architect", "dev"}
Slugs == DOMAIN TierOf
Skills == [slug : Slugs, draft : BOOLEAN]

ASSUME SquadPanelConstants ==
    /\ MaxRequests \in Nat /\ EventCap \in Nat \ {0}
    /\ InitSlugs \in Seq(Catalog) /\ Catalog \subseteq Slugs
    /\ Setups \subseteq Seq(Skills) \ {<<>>}

VARIABLES
    manifests,  \* versions in the manifests table, for the squad
    current,    \* the version squads.current_manifest_id points to
    agents,     \* rows of agent_instances: [id, slug, ver, status, by]
    templates,  \* skill_templates of the client: [slug, ver]
    events,     \* scan_progress.jira_events of a task
    pc,         \* where each coroutine is
    call,       \* the request it serves
    read,       \* what it has read
    todo,       \* skills the setup has still to create
    held,       \* unique keys its open transaction has inserted
    made,       \* agents its open transaction has inserted
    stamp,      \* last id given to an agent or an event
    served      \* requests begun

squad == <<manifests, current, agents, templates>>
work == <<todo, held, made>>
vars == <<squad, events, pc, call, read, work, stamp, served>>

Idle == [op |-> "none"]
Nothing == [ver |-> 0, status |-> "idle", peers |-> {}, events |-> <<>>]
Agent(id, slug, ver, by) ==
    [id |-> id, slug |-> slug, ver |-> ver, status |-> "idle", by |-> by]

Init ==
    /\ manifests = {1} /\ current = 1
    /\ agents = {Agent(i, InitSlugs[i], 1, None) : i \in 1..Len(InitSlugs)}
    /\ templates = {} /\ events = <<>>
    /\ pc = [s \in Slots |-> "free"] /\ call = [s \in Slots |-> Idle]
    /\ read = [s \in Slots |-> Nothing] /\ todo = [s \in Slots |-> <<>>]
    /\ held = [s \in Slots |-> {}] /\ made = [s \in Slots |-> {}]
    /\ stamp = Len(InitSlugs) /\ served = 0

-----------------------------------------------------------------------------
(* Requests *)

Row(id) == CHOOSE g \in agents : g.id = id
Ids == {g.id : g \in agents}

Calls ==
    {[op |-> "manifest"], [op |-> "event"]}
    \cup [op : {"add"}, tpl : {[slug |-> g, ver |-> 1] : g \in Catalog} \cup templates]
    \cup [op : {"patch"}, id : Ids, status : {"idle", "disabled"}]
    \cup [op : {"disable", "prompt"}, id : Ids]
    \cup [op : {"finalize"}, n : {served}, skills : Setups]
    \cup [op : {"skill"}, skills : {<<u[1]>> : u \in {v \in Setups : v[1].draft}}]

Begin(s) ==
    /\ pc[s] = "free" /\ served < MaxRequests
    /\ \E c \in Calls :
        /\ call' = [call EXCEPT ![s] = c]
        /\ IF c.op \in {"finalize", "skill"}
           THEN /\ pc' = [pc EXCEPT ![s] = "skill"]
                /\ todo' = [todo EXCEPT ![s] = c.skills]
           ELSE /\ pc' = [pc EXCEPT ![s] = "read"]
                /\ UNCHANGED todo
    /\ served' = served + 1
    /\ UNCHANGED <<squad, events, read, held, made, stamp>>

\* The session closes: whatever was not committed is rolled back.
Leave(s) ==
    /\ pc' = [pc EXCEPT ![s] = "free"] /\ call' = [call EXCEPT ![s] = Idle]
    /\ read' = [read EXCEPT ![s] = Nothing] /\ todo' = [todo EXCEPT ![s] = <<>>]
    /\ held' = [held EXCEPT ![s] = {}] /\ made' = [made EXCEPT ![s] = {}]

Doing(s, op, step) == pc[s] = step /\ call[s].op = op
Reads(s, values, next) ==
    /\ read' = [read EXCEPT ![s] = values]
    /\ pc' = [pc EXCEPT ![s] = next]
    /\ UNCHANGED <<squad, events, call, work, stamp, served>>

\* A request that raises, or whose process dies, at any point.
Fail(s) ==
    /\ pc[s] # "free"
    /\ Leave(s)
    /\ UNCHANGED <<squad, events, stamp, served>>

-----------------------------------------------------------------------------
(* Rows with a unique key: manifests and skill templates *)

ManifestKey(v) == [table |-> "manifests", slug |-> None, ver |-> v]
TemplateKey(slug, v) == [table |-> "skill_templates", slug |-> slug, ver |-> v]

Committed ==
    {ManifestKey(v) : v \in manifests} \cup {TemplateKey(t.slug, t.ver) : t \in templates}

\* mutant: no unique constraint
AnyKey(key, s) == TRUE

\* uq_manifest_squad_version, uq_skill_slug_version
KeyFree(key, s) == key \notin Committed \cup held[s]

Waits(s, key) == \E t \in Slots \ {s} : key \in held[t]

\* The row a coroutine at "insert" or "skill" is about to insert.
NextKey(s) ==
    IF call[s].op = "manifest" THEN ManifestKey(read[s].ver)
    ELSE IF call[s].op = "prompt" THEN TemplateKey(Row(call[s].id).slug, read[s].ver)
    ELSE TemplateKey(Head(todo[s]).slug, 1)

ReadManifest(s) ==
    /\ Doing(s, "manifest", "read")
    /\ Reads(s, [Nothing EXCEPT !.ver = Max(manifests) + 1], "insert")

\* update_agent_prompt: not for a disabled agent; the next version is computed
\* from the versions of the client and from the one the agent has.
ReadPrompt(s) ==
    /\ Doing(s, "prompt", "read")
    /\ LET g == Row(call[s].id)
           known == {g.ver} \cup {t.ver : t \in {u \in templates : u.slug = g.slug}} IN
       /\ g.status # "disabled"
       /\ Reads(s, [Nothing EXCEPT !.ver = Max(known) + 1], "insert")

Insert(s) ==
    /\ pc[s] = "insert"
    /\ ~Waits(s, NextKey(s))
    /\ IF KeyFree(NextKey(s), s)
       THEN /\ held' = [held EXCEPT ![s] = @ \cup {NextKey(s)}]
            /\ pc' = [pc EXCEPT ![s] = "commit"]
            /\ UNCHANGED <<call, read, todo, made>>
       ELSE Leave(s)
    /\ UNCHANGED <<squad, events, stamp, served>>

CommitManifest(s) ==
    /\ Doing(s, "manifest", "commit")
    /\ manifests' = manifests \cup {read[s].ver}
    /\ current' = read[s].ver
    /\ Leave(s)
    /\ UNCHANGED <<agents, templates, events, stamp, served>>

CommitPrompt(s) ==
    /\ Doing(s, "prompt", "commit")
    /\ LET g == Row(call[s].id) IN
       /\ templates' = templates \cup {[slug |-> g.slug, ver |-> read[s].ver]}
       /\ agents' = (agents \ {g}) \cup {[g EXCEPT !.ver = read[s].ver]}
    /\ Leave(s)
    /\ UNCHANGED <<manifests, current, events, stamp, served>>

-----------------------------------------------------------------------------
(* Agents *)

AddAgent(s) ==
    /\ Doing(s, "add", "read")
    /\ agents' = agents \cup {Agent(stamp + 1, call[s].tpl.slug, call[s].tpl.ver, None)}
    /\ stamp' = stamp + 1
    /\ Leave(s)
    /\ UNCHANGED <<manifests, current, templates, events, served>>

\* update_agent loads the row; the session writes a status that differs from
\* the one it loaded, and nothing otherwise.
ReadPatch(s) ==
    /\ Doing(s, "patch", "read")
    /\ Reads(s, [Nothing EXCEPT !.status = Row(call[s].id).status], "write")

WithStatus(id, status) ==
    {IF g.id = id THEN [g EXCEPT !.status = status] ELSE g : g \in agents}

WritePatch(s) ==
    /\ Doing(s, "patch", "write")
    /\ agents' = IF read[s].status = call[s].status THEN agents
                 ELSE WithStatus(call[s].id, call[s].status)
    /\ Leave(s)
    /\ UNCHANGED <<manifests, current, templates, events, stamp, served>>

ActiveOf(tier) == {g \in agents : g.status # "disabled" /\ TierOf[g.slug] = tier}

\* mutant: the agent that is to be disabled counts as its own peer
CountWithSelf(id) == {g.id : g \in ActiveOf(TierOf[Row(id).slug])}

\* _count_active_peers_of_tier; the code keeps only how many they are.
CountActivePeers(id) == {g.id : g \in ActiveOf(TierOf[Row(id).slug])} \ {id}

\* delete_agent: nothing to do for a disabled agent, refused for the last one
\* of a required tier.
ReadDisable(s) ==
    /\ Doing(s, "disable", "read")
    /\ Row(call[s].id).status # "disabled"
    /\ TierOf[Row(call[s].id).slug] \in _REQUIRED_TIERS => CountActivePeers(call[s].id) # {}
    /\ Reads(s, [Nothing EXCEPT !.peers = CountActivePeers(call[s].id)], "write")

WriteDisable(s) ==
    /\ Doing(s, "disable", "write")
    /\ agents' = WithStatus(call[s].id, "disabled")
    /\ Leave(s)
    /\ UNCHANGED <<manifests, current, templates, events, stamp, served>>

-----------------------------------------------------------------------------
(* The setup screen *)

\* After a skill: its agent, for a setup, and the next skill or the commit.
SkillDone(s, slug) ==
    /\ IF call[s].op = "finalize"
       THEN /\ made' = [made EXCEPT ![s] = @ \cup {Agent(stamp + 1, slug, 1, call[s])}]
            /\ stamp' = stamp + 1
       ELSE UNCHANGED <<made, stamp>>
    /\ todo' = [todo EXCEPT ![s] = Tail(@)]
    /\ pc' = [pc EXCEPT ![s] = IF Len(todo[s]) = 1 THEN "commit" ELSE "skill"]

\* materialize_skill_from_draft: version 1 of the slug, always.  The agent it
\* creates on Anthropic changes nothing here: an error of that call is ignored.
Materialize(s) ==
    /\ pc[s] = "skill" /\ Head(todo[s]).draft
    /\ ~Waits(s, NextKey(s))
    /\ IF KeyFree(NextKey(s), s)
       THEN /\ held' = [held EXCEPT ![s] = @ \cup {NextKey(s)}]
            /\ SkillDone(s, Head(todo[s]).slug)
            /\ UNCHANGED <<call, read>>
       ELSE Leave(s) /\ UNCHANGED stamp
    /\ UNCHANGED <<squad, events, served>>

\* A skill of the catalog; an unknown slug is a ValueError, answered 400.
FromCatalog(s) ==
    /\ pc[s] = "skill" /\ ~Head(todo[s]).draft
    /\ IF Head(todo[s]).slug \in Catalog
       THEN SkillDone(s, Head(todo[s]).slug) /\ UNCHANGED <<call, read, held>>
       ELSE Leave(s) /\ UNCHANGED stamp
    /\ UNCHANGED <<squad, events, served>>

\* PostgreSQL: of two transactions that wait for each other one is aborted.
DeadlockAborted(s) ==
    /\ pc[s] = "skill" /\ Head(todo[s]).draft
    /\ \E t \in Slots \ {s} :
        /\ pc[t] = "skill" /\ Head(todo[t]).draft
        /\ NextKey(s) \in held[t] /\ NextKey(t) \in held[s]
    /\ Leave(s)
    /\ UNCHANGED <<squad, events, stamp, served>>

\* mutant: every skill is committed as it is created, the request may go on
CommitEachSkill(s) ==
    /\ pc[s] \in {"skill", "commit"} /\ call[s].op \in {"finalize", "skill"}
    /\ held[s] # {} \/ made[s] # {}
    /\ templates' = templates \cup {[slug |-> k.slug, ver |-> k.ver] : k \in held[s]}
    /\ agents' = agents \cup made[s]
    /\ IF pc[s] = "commit" THEN Leave(s)
       ELSE /\ held' = [held EXCEPT ![s] = {}] /\ made' = [made EXCEPT ![s] = {}]
            /\ UNCHANGED <<pc, call, read, todo>>
    /\ UNCHANGED <<manifests, current, events, stamp, served>>

CommitSetup(s) ==
    /\ pc[s] = "commit" /\ call[s].op \in {"finalize", "skill"}
    /\ templates' = templates \cup {[slug |-> k.slug, ver |-> k.ver] : k \in held[s]}
    /\ agents' = agents \cup made[s]
    /\ Leave(s)
    /\ UNCHANGED <<manifests, current, events, stamp, served>>

-----------------------------------------------------------------------------
(* The timeline *)

ReadEvents(s) ==
    /\ Doing(s, "event", "read")
    /\ Reads(s, [Nothing EXCEPT !.events = events], "write")

\* mutant: one event less than the cap is kept
KeepOneLess(list) == SubSeq(list, IF Len(list) > EventCap THEN Len(list) - EventCap + 2 ELSE 1,
                            Len(list))

KeepLast(list) ==
    SubSeq(list, IF Len(list) > EventCap THEN Len(list) - EventCap + 1 ELSE 1, Len(list))

\* record_inbound_event writes the whole list it has read, and one event more.
RecordEvent(s) ==
    /\ Doing(s, "event", "write")
    /\ events' = KeepLast(Append(read[s].events, stamp + 1))
    /\ stamp' = stamp + 1
    /\ Leave(s)
    /\ UNCHANGED <<squad, served>>

Next == \E s \in Slots :
    \/ Begin(s) \/ Fail(s)
    \/ ReadManifest(s) \/ ReadPrompt(s) \/ Insert(s) \/ CommitManifest(s) \/ CommitPrompt(s)
    \/ AddAgent(s) \/ ReadPatch(s) \/ WritePatch(s) \/ ReadDisable(s) \/ WriteDisable(s)
    \/ Materialize(s) \/ FromCatalog(s) \/ DeadlockAborted(s) \/ CommitSetup(s)
    \/ ReadEvents(s) \/ RecordEvent(s)

Spec == Init /\ [][Next]_vars

-----------------------------------------------------------------------------
(* Properties *)

Statuses == {"idle", "disabled"}
Steps == {"free", "read", "insert", "write", "skill", "commit"}
Finalizes == [op : {"finalize"}, n : Nat, skills : Setups]
Rows == [id : Nat, slug : Slugs, ver : Nat, status : Statuses, by : Finalizes \cup {None}]
Keys == [table : {"manifests", "skill_templates"}, slug : Slugs \cup {None}, ver : Nat]
Requests ==
    {Idle, [op |-> "manifest"], [op |-> "event"]}
    \cup [op : {"add"}, tpl : [slug : Slugs, ver : Nat]]
    \cup [op : {"patch"}, id : Nat, status : Statuses]
    \cup [op : {"disable", "prompt"}, id : Nat]
    \cup Finalizes
    \cup [op : {"skill"}, skills : Seq(Skills)]

\* Types of the tables and of what the coroutines hold.
TypeOK ==
    /\ manifests \subseteq Nat /\ current \in Nat /\ stamp \in Nat /\ served \in Nat
    /\ agents \subseteq Rows /\ templates \subseteq [slug : Slugs, ver : Nat]
    /\ events \in Seq(Nat) /\ Len(events) <= EventCap
    /\ pc \in [Slots -> Steps] /\ call \in [Slots -> Requests]
    /\ read \in [Slots -> [ver : Nat, status : Statuses, peers : SUBSET Nat, events : Seq(Nat)]]
    /\ todo \in [Slots -> Seq(Skills)]
    /\ held \in [Slots -> SUBSET Keys] /\ made \in [Slots -> SUBSET Rows]

\* An id is given to one agent, committed or not.
IdsOnce ==
    /\ \A g \in agents : g.id <= stamp /\ \A h \in agents : g.id = h.id => g = h
    /\ \A s \in Slots : \A g \in made[s] :
        /\ g.id <= stamp /\ g.id \notin Ids
        /\ \A t \in Slots : \A h \in made[t] : g.id = h.id => t = s /\ g = h

\* A unique key is committed, or held by one open transaction.
KeysOnce ==
    \A s \in Slots : /\ held[s] \cap Committed = {}
                     /\ \A t \in Slots \ {s} : held[s] \cap held[t] = {}

\* The versions of a slug: the first, of the catalog or of a draft, and those
\* of the client.
VersionsOf(slug) == {1} \cup {t.ver : t \in {u \in templates : u.slug = slug}}

\* No version is left out, and every agent has one of them.
VersionsDense ==
    /\ manifests = 1..current /\ current # 0
    /\ \A slug \in Slugs : \E m \in VersionsOf(slug) : VersionsOf(slug) = 1..m
    /\ \A g \in agents : g.ver \in VersionsOf(g.slug)

\* What a request holds at each of its steps, and what remains true of what it
\* has read.
AtStep(s) ==
    /\ pc[s] = "free" => call[s] = Idle
    /\ pc[s] = "read" =>
        call[s].op \in {"manifest", "event", "add", "patch", "disable", "prompt"}
    /\ pc[s] = "insert" => call[s].op \in {"manifest", "prompt"}
    /\ pc[s] = "write" => call[s].op \in {"patch", "disable", "event"}
    /\ pc[s] = "skill" => call[s].op \in {"finalize", "skill"} /\ todo[s] # <<>>
    /\ pc[s] = "commit" => \/ call[s].op \in {"manifest", "prompt"}
                           \/ call[s].op \in {"finalize", "skill"} /\ todo[s] = <<>>
    /\ pc[s] \notin {"skill", "commit"} => held[s] = {}
    /\ call[s].op \in {"patch", "disable", "prompt"} => call[s].id \in Ids
    /\ call[s].op = "add" => call[s].tpl.ver \in VersionsOf(call[s].tpl.slug)
    /\ call[s].op = "manifest" /\ pc[s] \in {"insert", "commit"} =>
        /\ read[s].ver - 1 \in manifests
        /\ pc[s] = "commit" => held[s] = {ManifestKey(read[s].ver)}
    /\ call[s].op = "prompt" /\ pc[s] \in {"insert", "commit"} =>
        LET slug == Row(call[s].id).slug IN
        /\ read[s].ver - 1 \in VersionsOf(slug)
        /\ pc[s] = "commit" => held[s] = {TemplateKey(slug, read[s].ver)}
    /\ call[s].op \in {"finalize", "skill"} =>
        \A k \in held[s] : k.slug \in Slugs /\ k = TemplateKey(k.slug, 1)
    /\ \A g \in made[s] : call[s].op = "finalize" /\ g.by = call[s] /\ g.ver = 1
    /\ Len(read[s].events) <= EventCap
    /\ call[s].op = "disable" /\ pc[s] = "write" =>
        /\ TierOf[Row(call[s].id).slug] \in _REQUIRED_TIERS => read[s].peers # {}
        /\ \A p \in read[s].peers : /\ p \in Ids \ {call[s].id}
                                    /\ TierOf[Row(p).slug] = TierOf[Row(call[s].id).slug]

StepsMatch == \A s \in Slots : AtStep(s)

\* VersionsMoveForward: two editors who started from one version never both
\* win, because each inserts the version it computed and the UNIQUE key lets
\* one of them through.  So the squad only moves to a newer manifest and an
\* agent to a newer prompt than any template of its slug
\* (update_squad_manifest, update_agent_prompt).
VersionsMoveForward == [][
    /\ current' # current => \A v \in manifests : current' > v
    /\ \A g \in agents, h \in agents' : g.id = h.id /\ g.ver # h.ver =>
        /\ h.ver > g.ver
        /\ \A t \in templates : t.slug = g.slug => h.ver > t.ver]_vars

\* LastOfTierOnlyByRace: a squad is left without an active architect, or
\* without an active dev, only by a PATCH of the status, which nobody checks,
\* or by a DELETE that had counted another active agent of the tier which was
\* disabled between its count and its write (delete_agent).
LastOfTierOnlyByRace == [][
    \A tier \in _REQUIRED_TIERS : ActiveOf(tier) # {} /\ ActiveOf(tier)' = {} =>
        \E s \in Slots : pc[s] = "write" /\ pc'[s] = "free" /\
            \/ call[s].op = "patch"
            \/ /\ call[s].op = "disable"
               /\ \E g \in agents : /\ g.id \in read[s].peers /\ g.id # call[s].id
                                    /\ g.status = "disabled"]_vars

\* SetupAllOrNothing: what finalize_setup creates is seen complete or not at
\* all, whatever fails, dies or deadlocks on the way: an agent of a setup has
\* beside it an agent for every other skill, and the template of every draft.
SetupAllOrNothing ==
    \A g \in agents : g.by # None => \A i \in 1..Len(g.by.skills) :
        /\ \E h \in agents : h.by = g.by /\ h.slug = g.by.skills[i].slug
        /\ g.by.skills[i].draft => [slug |-> g.by.skills[i].slug, ver |-> 1] \in templates

\* The transaction of a setup holds the agents of the skills it is through
\* with, and the keys of their templates.
PendingSetups == \A s \in Slots : call[s].op = "finalize" =>
    \E n \in 0..Len(call[s].skills) :
        /\ todo[s] = SubSeq(call[s].skills, n + 1, Len(call[s].skills))
        /\ \A i \in 1..n :
            /\ \E h \in made[s] : h.by = call[s] /\ h.slug = call[s].skills[i].slug
            /\ call[s].skills[i].draft => TemplateKey(call[s].skills[i].slug, 1) \in held[s]

\* IInv: the invariant that shows it, and all that the steps rely on.
IInv ==
    /\ TypeOK /\ IdsOnce /\ KeysOnce /\ VersionsDense /\ StepsMatch
    /\ PendingSetups /\ SetupAllOrNothing

\* RecordedEventsKept: an event answered "recorded" leaves the timeline only
\* when EventCap newer events took its place, or through a webhook that had
\* read the list before the event was in it (record_inbound_event writes the
\* whole list).  Whoever has the event in the list it read keeps it.
RecordedEventsKept == [][
    \A i \in 1..Len(events) : events[i] \notin {events'[j] : j \in 1..Len(events')} =>
        \E s \in Slots : /\ Doing(s, "event", "write")
                         /\ LET list == read[s].events IN
                            \/ events[i] \notin {list[j] : j \in 1..Len(list)}
                            \/ Len(list) = EventCap /\ list[1] = events[i]]_vars
=============================================================================
