----------------------------- MODULE SecretFiles -----------------------------
(***************************************************************************)
(* The credentials of a client and the files that carry them into agent    *)
(* sessions.  The panels write credentials in the database; the router of  *)
(* the client's panel then uploads the newest one of the kind to           *)
(* Anthropic's Files API, stores the new file id in the client row,        *)
(* deletes the file it replaces and commits.  The Jira file also carries   *)
(* the site and the e-mail of the client row, which the administration     *)
(* sets: without them it is not made.                                      *)
(*                                                                         *)
(* Every request is a coroutine with a database session of its own.  It    *)
(* loads the client row when it is authenticated and never reloads it; its *)
(* commits do not expire what it has loaded.  PostgreSQL runs the          *)
(* transactions at READ COMMITTED: an UPDATE waits for the row another     *)
(* open transaction has updated.  A request that dies leaves no            *)
(* uncommitted write in the database and every call it made on Anthropic.  *)
(***************************************************************************)
EXTENDS Naturals, Sequences

CONSTANTS
    Slots,        \* coroutines that may serve requests at the same time
    MaxRequests,  \* bound: requests of one behaviour
    MaxCrashes,   \* bound: requests that die half-way
    KindOrder,    \* the kinds with a file, in the order /sync-files takes them
    SiteKinds,    \* the kinds whose file needs the site and e-mail of the client
    Names,        \* names of credentials
    None

Kinds == {KindOrder[i] : i \in 1..Len(KindOrder)}
Panels == {"client", "admin"}

ASSUME SecretFilesConstants ==
    /\ MaxRequests \in Nat /\ MaxCrashes \in Nat
    /\ KindOrder \in Seq(Kinds) /\ KindOrder # <<>> /\ Names # {}
    /\ \A i, j \in 1..Len(KindOrder) : KindOrder[i] = KindOrder[j] => i = j
    /\ SiteKinds \subseteq Kinds /\ None \notin Slots \cup Kinds

VARIABLES
    secrets,   \* rows of encrypted_secrets: [id, kind, name, val]
    pointer,   \* clients.<kind>_secrets_file_id, 0 when NULL
    site,      \* whether the client row has jira_workspace_url and jira_email
    files,     \* files that exist on Anthropic: [id, kind, val]
    pc,        \* where each coroutine is
    call,      \* the request it serves
    row,       \* id and kind of the credential it writes
    cached,    \* the file ids of the client object it loaded
    sited,     \* and whether that object has the site and the e-mail
    todo,      \* kinds it has still to synchronize
    token,     \* the value it has read
    fresh,     \* the file it has uploaded of each kind, 0 when none
    pend,      \* kinds whose new file id it has flushed
    lock,      \* the coroutine whose transaction holds the client row
    stamp,     \* last id given to a row, a value or a file
    served,    \* requests begun
    crashes,   \* requests that died
    \* what the properties remember
    stale,     \* kinds written by others after the coroutine read their token
    cause,     \* why the file of a kind may differ from the newest credential
    torn       \* files deleted by a transaction that died before its commit

db == <<secrets, pointer, site>>
task == <<call, row, cached, sited, todo, token, fresh, pend>>
seen == <<stale, cause, torn>>
counts == <<stamp, served, crashes>>
vars == <<db, files, pc, task, lock, counts, seen>>

Idle == [op |-> "none"]
NoRow == [id |-> 0, kind |-> None]
NoFiles == [k \in Kinds |-> 0]

Synced == {i \in 1..Len(KindOrder) : site \/ KindOrder[i] \notin SiteKinds}

\* A client after its setup: one credential of each kind, synchronized where the
\* client row has what the file needs.
Init ==
    /\ site \in BOOLEAN
    /\ secrets = {[id |-> i, kind |-> KindOrder[i], name |-> CHOOSE n \in Names : TRUE,
                   val |-> 0] : i \in 1..Len(KindOrder)}
    /\ files = {[id |-> i, kind |-> KindOrder[i], val |-> 0] : i \in Synced}
    /\ pointer = [k \in Kinds |->
         IF site \/ k \notin SiteKinds THEN CHOOSE i \in 1..Len(KindOrder) : KindOrder[i] = k
         ELSE 0]
    /\ pc = [s \in Slots |-> "free"]
    /\ call = [s \in Slots |-> Idle] /\ row = [s \in Slots |-> NoRow]
    /\ cached = [s \in Slots |-> NoFiles] /\ sited = [s \in Slots |-> FALSE]
    /\ todo = [s \in Slots |-> <<>>]
    /\ token = [s \in Slots |-> 0] /\ fresh = [s \in Slots |-> NoFiles]
    /\ pend = [s \in Slots |-> {}] /\ lock = None
    /\ stamp = Len(KindOrder) /\ served = 0 /\ crashes = 0
    /\ stale = [s \in Slots |-> {}] /\ torn = {}
    /\ cause = [k \in Kinds |-> IF site \/ k \notin SiteKinds THEN {} ELSE {"site"}]

-----------------------------------------------------------------------------
(* Requests *)

Calls ==
    [op : {"create"}, panel : Panels, kind : Kinds, name : Names]
    \cup [op : {"rotate", "delete"}, panel : Panels, id : {r.id : r \in secrets}]
    \cup {[op |-> "sync"]}

\* require_client_context loads the client; nothing reloads it afterwards.
Begin(s) ==
    /\ pc[s] = "free" /\ served < MaxRequests
    /\ \E c \in Calls :
        /\ call' = [call EXCEPT ![s] = c]
        /\ pc' = [pc EXCEPT ![s] = IF c.op = "sync" THEN "token" ELSE "check"]
        /\ todo' = [todo EXCEPT ![s] = IF c.op = "sync" THEN KindOrder ELSE <<>>]
    /\ cached' = [cached EXCEPT ![s] = pointer]
    /\ sited' = [sited EXCEPT ![s] = site]
    /\ served' = served + 1
    /\ UNCHANGED <<db, files, row, token, fresh, pend, lock, stamp, crashes, seen>>

\* The session closes: what was not committed is rolled back.
Leave(s) ==
    /\ pc' = [pc EXCEPT ![s] = "free"]
    /\ call' = [call EXCEPT ![s] = Idle] /\ row' = [row EXCEPT ![s] = NoRow]
    /\ cached' = [cached EXCEPT ![s] = NoFiles] /\ sited' = [sited EXCEPT ![s] = FALSE]
    /\ todo' = [todo EXCEPT ![s] = <<>>]
    /\ token' = [token EXCEPT ![s] = 0] /\ fresh' = [fresh EXCEPT ![s] = NoFiles]
    /\ pend' = [pend EXCEPT ![s] = {}]
    /\ stale' = [stale EXCEPT ![s] = {}]
    /\ lock' = IF lock = s THEN None ELSE lock

\* PATCH of a client by the administration: the UPDATE waits for the transaction
\* that holds the row, and nothing is synchronized.
UpdateClient ==
    /\ lock = None /\ served < MaxRequests
    /\ site' = ~site
    /\ served' = served + 1
    /\ UNCHANGED <<secrets, pointer, files, pc, task, lock, stamp, crashes, seen>>

Goto(s, step) == pc' = [pc EXCEPT ![s] = step]

-----------------------------------------------------------------------------
(* Credentials *)

RowsOf(k) == {r \in secrets : r.kind = k}
Exists(id) == \E r \in secrets : r.id = id
KindOf(id) == (CHOOSE r \in secrets : r.id = id).kind

\* The kind s is synchronizing, None between two requests.
Current(s) == IF todo[s] = <<>> THEN None ELSE Head(todo[s])

\* Kind k is among those s has still to synchronize.
Asked(s, k) == \E i \in DOMAIN todo[s] : todo[s][i] = k

\* A committed write of a credential of kind k: the coroutines that have read
\* the token of k and not yet committed its file now hold an old value.
Written(s, k) ==
    [t \in Slots |->
        IF /\ t # s
           /\ \/ pc[t] \in {"upload", "flush", "purge"} /\ Current(t) = k
              \/ k \in pend[t]
        THEN stale[t] \cup {k} ELSE stale[t]]

\* The administration panel answers; the client's router goes on.
AfterWrite(s, id, k, next) ==
    IF call[s].panel = "admin"
    THEN /\ cause' = [cause EXCEPT ![k] = @ \cup {"admin"}]
         /\ stale' = [Written(s, k) EXCEPT ![s] = {}]
         /\ pc' = [pc EXCEPT ![s] = "free"]
         /\ call' = [call EXCEPT ![s] = Idle] /\ row' = [row EXCEPT ![s] = NoRow]
         /\ cached' = [cached EXCEPT ![s] = NoFiles]
         /\ sited' = [sited EXCEPT ![s] = FALSE]
         /\ UNCHANGED todo
    ELSE /\ Goto(s, next)
         /\ row' = [row EXCEPT ![s] = [id |-> id, kind |-> k]]
         /\ todo' = [todo EXCEPT ![s] = <<k>>]
         /\ stale' = Written(s, k)
         /\ UNCHANGED <<call, cached, sited, cause>>

\* create: the dedup by kind and name.  No constraint backs it, so two rows of
\* one name are possible, and then the lookup itself raises.
CheckCreate(s) ==
    /\ pc[s] = "check" /\ call[s].op = "create"
    /\ IF \E r \in RowsOf(call[s].kind) : r.name = call[s].name
       THEN Leave(s)
       ELSE Goto(s, "write") /\ UNCHANGED <<task, lock, stale>>
    /\ UNCHANGED <<db, files, counts, cause, torn>>

InsertCredential(s) ==
    /\ pc[s] = "write" /\ call[s].op = "create"
    /\ secrets' = secrets \cup {[id |-> stamp + 1, kind |-> call[s].kind,
                                 name |-> call[s].name, val |-> stamp + 1]}
    /\ stamp' = stamp + 1
    /\ AfterWrite(s, stamp + 1, call[s].kind, "refresh")
    /\ UNCHANGED <<pointer, site, files, token, fresh, pend, lock, served, crashes, torn>>

\* rotate and delete: session.get, 404 when the row is gone.
CheckRow(s) ==
    /\ pc[s] = "check" /\ call[s].op \in {"rotate", "delete"}
    /\ IF Exists(call[s].id)
       THEN /\ Goto(s, "write")
            /\ row' = [row EXCEPT ![s] = [id |-> call[s].id, kind |-> KindOf(call[s].id)]]
            /\ UNCHANGED <<call, cached, sited, todo, token, fresh, pend, lock, stale>>
       ELSE Leave(s)
    /\ UNCHANGED <<db, files, counts, cause, torn>>

\* An UPDATE of a row deleted meanwhile matches nothing, and the flush raises.
RotateCredential(s) ==
    /\ pc[s] = "write" /\ call[s].op = "rotate"
    /\ IF Exists(row[s].id)
       THEN /\ secrets' = {IF r.id = row[s].id THEN [r EXCEPT !.val = stamp + 1] ELSE r :
                           r \in secrets}
            /\ stamp' = stamp + 1
            /\ AfterWrite(s, row[s].id, row[s].kind, "refresh")
            /\ UNCHANGED <<token, fresh, pend, lock>>
       ELSE Leave(s) /\ UNCHANGED <<secrets, stamp, cause>>
    /\ UNCHANGED <<pointer, site, files, served, crashes, torn>>

\* A DELETE of a row deleted meanwhile is only a warning.
DeleteCredential(s) ==
    /\ pc[s] = "write" /\ call[s].op = "delete"
    /\ secrets' = {r \in secrets : r.id # row[s].id}
    /\ AfterWrite(s, row[s].id, row[s].kind, "token")
    /\ UNCHANGED <<pointer, site, files, token, fresh, pend, lock, counts, torn>>

\* session.refresh raises for a row deleted after the commit: nothing is synced.
Refresh(s) ==
    /\ pc[s] = "refresh"
    /\ IF Exists(row[s].id) THEN Goto(s, "token") /\ UNCHANGED <<task, lock, stale>>
       ELSE Leave(s)
    /\ UNCHANGED <<db, files, counts, cause, torn>>

-----------------------------------------------------------------------------
(* Synchronization *)

\* One kind is done; the next one, or the commit of the caller.
NextKind(s) ==
    /\ todo' = [todo EXCEPT ![s] = Tail(@)]
    /\ Goto(s, IF Len(todo[s]) = 1 THEN "commit" ELSE "token")

\* mutant: the first credential stored instead of the last one
OldestCredential(rows) == CHOOSE r \in rows : \A q \in rows : r.id <= q.id

\* _decrypt_credential_for: the newest row by created_at.
DecryptCredentialFor(rows) == CHOOSE r \in rows : \A q \in rows : q.id <= r.id

\* Nothing is uploaded without the site or without a token: the file in use stays
\* where it is, and the request goes on.
ReadToken(s) ==
    /\ pc[s] = "token"
    /\ LET k == Current(s)
           skipped == IF k \in SiteKinds /\ ~sited[s] THEN {"site"}
                      ELSE IF RowsOf(k) = {} THEN {"removed"} ELSE {}
       IN
       IF skipped # {}
       THEN /\ NextKind(s)
            /\ cause' = [cause EXCEPT ![k] = @ \cup skipped]
            /\ UNCHANGED <<token, stale>>
       ELSE /\ Goto(s, "upload")
            /\ token' = [token EXCEPT ![s] = DecryptCredentialFor(RowsOf(k)).val]
            /\ stale' = [stale EXCEPT ![s] = @ \ {k}]
            /\ UNCHANGED <<todo, cause>>
    /\ UNCHANGED <<db, files, call, row, cached, sited, fresh, pend, lock, counts, torn>>

\* An upload that raises is reported as "failed" and the request goes on.
Upload(s) ==
    /\ pc[s] = "upload"
    /\ LET k == Current(s) IN
       \/ /\ files' = files \cup {[id |-> stamp + 1, kind |-> k, val |-> token[s]]}
          /\ fresh' = [fresh EXCEPT ![s][k] = stamp + 1]
          /\ stamp' = stamp + 1
          /\ Goto(s, "flush")
          /\ UNCHANGED <<todo, cause>>
       \/ /\ NextKind(s)
          /\ cause' = [cause EXCEPT ![k] = @ \cup {"upload"}]
          /\ UNCHANGED <<files, fresh, stamp>>
    /\ UNCHANGED <<db, call, row, cached, sited, token, pend, lock, served, crashes, stale, torn>>

\* The UPDATE of the client row waits for the transaction that holds it.
Flush(s) ==
    /\ pc[s] = "flush" /\ lock \in {None, s}
    /\ lock' = s
    /\ pend' = [pend EXCEPT ![s] = @ \cup {Current(s)}]
    /\ Goto(s, "purge")
    /\ UNCHANGED <<db, files, call, row, cached, sited, todo, token, fresh, counts, seen>>

\* The file the client object named when the request began is deleted before
\* the caller commits; an error of the deletion is ignored.
Purge(s) ==
    /\ pc[s] = "purge"
    /\ LET k == Current(s) IN
       \/ files' = {f \in files : f.id # cached[s][k]}
       \/ cached[s][k] # 0 /\ UNCHANGED files
    /\ NextKind(s)
    /\ UNCHANGED <<db, call, row, cached, sited, token, fresh, pend, lock, counts, seen>>

\* mutant: the caller answers without committing
AnswerWithoutCommit(s) ==
    /\ pc[s] = "commit"
    /\ Leave(s)
    /\ UNCHANGED <<db, files, counts, cause, torn>>

Commit(s) ==
    /\ pc[s] = "commit"
    /\ pointer' = [k \in Kinds |-> IF k \in pend[s] THEN fresh[s][k] ELSE pointer[k]]
    /\ cause' = [k \in Kinds |->
                    IF k \notin pend[s] THEN cause[k]
                    ELSE IF k \in stale[s] THEN cause[k] \cup {"race"} ELSE {}]
    /\ Leave(s)
    /\ UNCHANGED <<secrets, site, files, counts, torn>>

\* The process dies while it serves the request.
Crash(s) ==
    /\ pc[s] # "free" /\ crashes < MaxCrashes
    /\ crashes' = crashes + 1
    /\ torn' = torn \cup {cached[s][k] : k \in pend[s]}
    /\ cause' = [k \in Kinds |-> IF k \in pend[s] \/ Asked(s, k)
                                 THEN cause[k] \cup {"crash"} ELSE cause[k]]
    /\ Leave(s)
    /\ UNCHANGED <<db, files, stamp, served>>

Serve(s) ==
    \/ Begin(s)
    \/ CheckCreate(s) \/ InsertCredential(s)
    \/ CheckRow(s) \/ RotateCredential(s) \/ DeleteCredential(s) \/ Refresh(s)
    \/ ReadToken(s) \/ Upload(s) \/ Flush(s) \/ Purge(s) \/ Commit(s)
    \/ Crash(s)

Next == (\E s \in Slots : Serve(s)) \/ UpdateClient

Spec == Init /\ [][Next]_vars

-----------------------------------------------------------------------------
(* Properties *)

Steps == {"free", "check", "write", "refresh", "token", "upload", "flush", "purge",
          "commit"}
Requests ==
    [op : {"create"}, panel : Panels, kind : Kinds, name : Names]
    \cup [op : {"rotate", "delete"}, panel : Panels, id : Nat]
    \cup {[op |-> "sync"], Idle}
Causes == {"site", "admin", "removed", "upload", "race", "crash"}

\* Types: ids are natural numbers, and only a coroutine that has flushed a file
\* id holds the row.
TypeOK ==
    /\ secrets \subseteq [id : Nat, kind : Kinds, name : Names, val : Nat]
    /\ files \subseteq [id : Nat, kind : Kinds, val : Nat]
    /\ pointer \in [Kinds -> Nat] /\ stamp \in Nat
    /\ pc \in [Slots -> Steps] /\ call \in [Slots -> Requests]
    /\ row \in [Slots -> [id : Nat, kind : Kinds \cup {None}]]
    /\ todo \in [Slots -> Seq(Kinds)]
    /\ cached \in [Slots -> [Kinds -> Nat]] /\ fresh \in [Slots -> [Kinds -> Nat]]
    /\ site \in BOOLEAN /\ sited \in [Slots -> BOOLEAN]
    /\ pend \in [Slots -> SUBSET Kinds] /\ token \in [Slots -> Nat]
    /\ stale \in [Slots -> SUBSET Kinds] /\ cause \in [Kinds -> SUBSET Causes]
    /\ lock \in Slots \cup {None}
    /\ \A s \in Slots : pend[s] # {} => lock = s

\* PointerLive: the file a session would be given exists.  It is missing only
\* while the request that replaces it is between its DELETE and its commit, or
\* after a request that died there (_safe_delete_file runs before the
\* caller's commit).
PointerLive ==
    \A k \in Kinds :
        \/ \E f \in files : f.id = pointer[k] /\ f.kind = k
        \/ pointer[k] = 0
        \/ pointer[k] \in torn
        \/ \E s \in Slots : k \in pend[s] /\ cached[s][k] = pointer[k]

\* Ids are given once, to a row or a file of one kind.
IdsOwned ==
    /\ \A r \in secrets : r.id \in 1..stamp /\ \A q \in secrets : q.id = r.id => q = r
    /\ \A f \in files : f.id \in 1..stamp
    /\ \A s \in Slots : /\ row[s].id <= stamp
                        /\ \A r \in secrets : r.id = row[s].id => r.kind = row[s].kind
    /\ \A k \in Kinds : /\ pointer[k] <= stamp
                        /\ \A s \in Slots : cached[s][k] <= stamp /\ fresh[s][k] <= stamp
    /\ \A f \in files, k \in Kinds :
        \/ f.id = pointer[k]
        \/ \E s \in Slots : f.id \in {cached[s][k], fresh[s][k]}
        => f.kind = k

\* A file just uploaded exists, and no client row or client object names it.
FreshKept ==
    \A s \in Slots, k \in Kinds : fresh[s][k] # 0 =>
        /\ \E f \in files : f.id = fresh[s][k]
        /\ \A j \in Kinds : pointer[j] # fresh[s][k]
        /\ \A t \in Slots, j \in Kinds :
            /\ cached[t][j] # fresh[s][k]
            /\ fresh[t][j] = fresh[s][k] => t = s /\ j = k

\* The steps of a coroutine and what it holds at each; a kind is asked for once.
AtStep(s) ==
    /\ pc[s] \in {"free", "check", "write"} => todo[s] = <<>> /\ pend[s] = {}
    /\ pc[s] = "check" => call[s].op \in {"create", "rotate", "delete"}
    /\ pc[s] = "write" => \/ call[s].op = "create"
                          \/ call[s].op \in {"rotate", "delete"} /\ row[s].kind \in Kinds
    /\ pc[s] = "refresh" => /\ row[s].kind \in Kinds
                            /\ todo[s] = <<row[s].kind>> /\ pend[s] = {}
    /\ pc[s] \in {"token", "upload", "flush", "purge"} => todo[s] # <<>>
    /\ pc[s] = "flush" => fresh[s][Current(s)] # 0
    /\ pc[s] = "purge" => Current(s) \in pend[s]
    /\ pc[s] = "commit" => todo[s] = <<>>
    /\ \A k \in pend[s] : fresh[s][k] # 0 /\ (Asked(s, k) => pc[s] = "purge" /\ k = Current(s))
    /\ \A i, j \in DOMAIN todo[s] : todo[s][i] = todo[s][j] => i = j

StepsMatch == \A s \in Slots : AtStep(s)

\* v is the value of the newest credential of kind k.
Newest(k, v) ==
    \E r \in RowsOf(k) : r.val = v /\ \A q \in RowsOf(k) : q.id <= r.id

\* What a coroutine has read, and uploaded, is the newest, unless others wrote.
TokenFresh ==
    \A s \in Slots, k \in Kinds : k \notin stale[s] =>
        /\ pc[s] = "upload" /\ k = Current(s) => Newest(k, token[s])
        /\ (pc[s] \in {"flush", "purge"} /\ k = Current(s)) \/ k \in pend[s] =>
            \E f \in files : f.id = fresh[s][k] /\ Newest(k, f.val)

\* The file in use carries the newest credential.
Carries(k) == \E f \in files : f.id = pointer[k] /\ Newest(k, f.val)

\* Coroutine s has still to synchronize kind k, or to commit that it did: its
\* refresh will not raise.
Owes(s, k) ==
    \/ Asked(s, k) /\ (pc[s] = "refresh" => Exists(row[s].id))
    \/ k \in pend[s]

\* A file that is not the newest has a cause, or somebody who will see to it.
Owed == \A k \in Kinds : cause[k] = {} => Carries(k) \/ \E s \in Slots : Owes(s, k)

\* IInv: the inductive invariant of the two stores.
IInv ==
    /\ TypeOK /\ PointerLive
    /\ IdsOwned /\ FreshKept /\ StepsMatch /\ TokenFresh /\ Owed

\* FileCarriesNewest: when no request is about a kind any more, the file the
\* client row names carries the value of its newest credential, unless one of
\* six named things happened since the last good synchronization: a write by
\* the administration panel, which never synchronizes; a synchronization that
\* was skipped, of a client object loaded without its site or e-mail; a failed
\* upload; the removal of the last credential, which leaves the file in use; a
\* request that died; or a synchronization that had read the token before a
\* write and committed last.
Quiet(k) == \A s \in Slots : k \notin pend[s] /\ row[s].kind # k /\ ~Asked(s, k)
FileCarriesNewest ==
    \A k \in Kinds : Quiet(k) /\ cause[k] = {} =>
        \E r \in RowsOf(k), f \in files :
            /\ \A q \in RowsOf(k) : q.id <= r.id
            /\ f.id = pointer[k] /\ f.val = r.val
=============================================================================
