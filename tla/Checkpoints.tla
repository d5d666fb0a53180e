----------------------------- MODULE Checkpoints -----------------------------
(***************************************************************************)
(* The saved revisions of one project and their objects in private storage *)
(* (src/agent/persistence.py, storage.py), the storage pass of             *)
(* src/agent/maintenance.py, the log archive of src/agent/events.py and    *)
(* the storage half of delete_project (src/main.py).  Runs, previews and   *)
(* file requests save and read; the storage pass cleans up, recovers,      *)
(* archives and prunes; uploads outlive the tasks that started them.       *)
(*                                                                         *)
(* Projects share nothing here but quotas, so one of them is modelled.     *)
(***************************************************************************)
EXTENDS Integers, FiniteSets

CONSTANTS Runs,        \* runs of the project; a run also names its log's object
          Views,       \* requests that read the saved project
          Opens,       \* those of them that are open_preview, registered in Service.opening
          Maint, Del,  \* the storage pass; the cleanup of the DELETE request
          Legacy,      \* the object "legacy/<id>": files saved before revisions existed
          None,
          MaxRev,      \* bound: revisions ever inserted
          KEEP,        \* newest ready revisions that retention spares (5)
          BATCH,       \* deletion intents the storage pass takes at a time (100)
          QUOTA,       \* revision rows a project may have (its share of 200 MiB)
          MaxFaults    \* bound: process crashes and aborted storage passes

Jobs == Runs \cup Views
Cleaners == {Maint, Del}
Procs == Jobs \cup Cleaners
Revs == 1..MaxRev
Keys == Revs \cup Runs \cup {Legacy}

ASSUME CheckpointsAssumption ==
    /\ MaxRev \in Nat /\ KEEP \in Nat /\ KEEP >= 2 /\ QUOTA \in Nat /\ BATCH \in Nat \ {0} /\ MaxFaults \in Nat
    /\ Opens \subseteq Views
    /\ Runs \cap Views = {} /\ Maint # Del /\ Cleaners \cap Jobs = {}
    /\ Runs \cap Revs = {} /\ Legacy \notin Runs \cup Revs /\ None \notin Keys

VARIABLES exists,    \* the chat row
          saved,     \* chats.latest_saved_revision_id, 0 for none
          verified,  \* chats.latest_verified_revision_id
          status,    \* project_revisions.status; "none" where there is no row
          parent,    \* project_revisions.parent_id
          age,       \* how long ago the row was created
          nextRev,   \* revisions inserted so far (their order is created_at)
          run,       \* runs.status
          log,       \* runs.log_key and log_sha256
          intents,   \* storage_deletions
          stored,    \* objects in the store
          up,        \* _uploads: the stage of each object's upload task
          loc,       \* the tasks and their locals
          live,      \* Service.active
          busy,      \* the storage pass's copy of active and opening
          faults

chatVars == <<exists, saved, verified>>
revVars == <<status, parent, age, nextRev>>
runVars == <<run, log>>
objVars == <<stored, up>>
vars == <<chatVars, revVars, runVars, intents, objVars, loc, live, busy, faults>>

Idle == [pc |-> "idle", key |-> None, seen |-> "none", todo |-> {}]
RevStates == {"none", "pending", "ready", "failed", "deleting"}

SavePCs == {"save", "put", "upload", "promote", "locked"}
JobPCs == {"source", "again", "read", "work"} \cup SavePCs
CleanPCs == {"clean", "wait", "delete", "drop"}
PassPCs == {"busy", "list", "recover", "bytes", "promote", "locked", "discard", "archive",
            "put", "upload", "confirm", "retain", "purge", "purgerow", "expire", "unlog"}

\* The state has the shape the tables and the tasks' locals give it.
TypeOK ==
    /\ exists \in BOOLEAN /\ saved \in 0..MaxRev /\ verified \in 0..MaxRev
    /\ status \in [Revs -> RevStates]
    /\ parent \in [Revs -> 0..MaxRev]
    /\ age \in [Revs -> {"new", "hour", "day"}]
    /\ nextRev \in 0..MaxRev
    /\ run \in [Runs -> {"none", "running", "ended"}]
    /\ log \in [Runs -> {"none", "archived", "expired"}]
    /\ intents \in SUBSET Keys /\ stored \in SUBSET Keys
    /\ up \in [Keys -> {"none", "check", "put"}]
    /\ loc \in [Procs -> [pc : {"idle"} \cup JobPCs \cup CleanPCs \cup PassPCs,
                          key : Keys \cup {None}, seen : RevStates, todo : SUBSET Keys]]
    /\ live \in SUBSET Runs /\ busy \in BOOLEAN /\ faults \in 0..MaxFaults

\* A project as an older version may have left it.
Init ==
    /\ exists = TRUE /\ saved = 0 /\ verified = 0
    /\ status = [r \in Revs |-> "none"]
    /\ parent = [r \in Revs |-> 0]
    /\ age = [r \in Revs |-> "new"]
    /\ nextRev = 0
    /\ run = [r \in Runs |-> "none"]
    /\ log = [r \in Runs |-> "none"]
    /\ intents = {} /\ stored \in {{}, {Legacy}}
    /\ up = [k \in Keys |-> "none"]
    /\ loc = [p \in Procs |-> Idle]
    /\ live = {} /\ busy = FALSE /\ faults = 0

----------------------------------------------------------------------------
(* Abbreviations.                                                          *)

At(p, l) == loc[p].pc = l
Key(p) == loc[p].key
Goto(p, l) == loc' = [loc EXCEPT ![p].pc = l]
\* Back at the head of a loop.
Loop(p, l) == loc' = [loc EXCEPT ![p].pc = l, ![p].key = None]
GotoKey(p, l, k) == loc' = [loc EXCEPT ![p].pc = l, ![p].key = k]

\* A loop of the storage pass takes one of its items, or is through with them.
Take(p, from, k, to) ==
    /\ At(p, from) /\ k \in loc[p].todo
    /\ loc' = [loc EXCEPT ![p].pc = to, ![p].key = k, ![p].todo = @ \ {k}]
Through(p, from, to, todo) ==
    /\ At(p, from) /\ loc[p].todo = {}
    /\ loc' = [loc EXCEPT ![p].pc = to, ![p].key = None, ![p].todo = todo]

Opening == {v \in Opens : loc[v].pc # "idle"}
Running == \E r \in Runs : run[r] = "running"
Rows == {r \in Revs : status[r] # "none"}

\* Where save_revision returns to: save_files of a run, ensure_revision (which
\* has marked the legacy files as what it works on), or the recovery loop ...
Return(p) == IF p = Maint THEN "recover"
             ELSE IF Legacy \in loc[p].todo \/ p \in Views THEN "again" ELSE "work"

\* A job ends; finish() ends its Run unless somebody else did.
End(p) ==
    /\ loc' = [loc EXCEPT ![p] = Idle]
    /\ live' = live \ {p}
    /\ run' = IF p \in Runs /\ run[p] = "running" THEN [run EXCEPT ![p] = "ended"] ELSE run

\* ... and where its exception goes.
Raise(p) ==
    IF p \in Jobs THEN End(p)
    ELSE /\ loc' = [loc EXCEPT ![p].seen = "none",
                                ![p].pc = IF Key(p) \in Runs THEN "archive" ELSE "discard",
                                ![p].key = IF Key(p) \in Runs THEN None ELSE @]
         /\ UNCHANGED <<live, run>>

----------------------------------------------------------------------------
(* Runs and requests: ensure_revision and the readers of its answer.       *)

\* admit(); a snapshot taken before the registration may end the Run at once.
RunStart(r, interrupted) ==
    /\ exists /\ run[r] = "none" /\ live = {} /\ Opening = {}
    /\ run' = [run EXCEPT ![r] = IF interrupted THEN "ended" ELSE "running"]
    /\ live' = {r}
    /\ Goto(r, "source")
    /\ UNCHANGED <<chatVars, revVars, log, intents, objVars, busy, faults>>

ViewStart(v) ==
    /\ exists /\ At(v, "idle")
    /\ v \in Opens => live = {} /\ Opening = {}
    /\ Goto(v, "source")
    /\ UNCHANGED <<chatVars, revVars, runVars, intents, objVars, live, busy, faults>>

\* latest_revision; without one ensure_revision saves the legacy files, if there
\* are any, and asks again.
ReadLatest(p) ==
    /\ At(p, "source") \/ At(p, "again")
    /\ \/ /\ saved # 0 /\ status[saved] = "ready"
          /\ loc' = [loc EXCEPT ![p] = [Idle EXCEPT !.pc = "read", !.key = saved]]
          /\ UNCHANGED <<live, run>>
       \/ /\ saved = 0 /\ At(p, "source") /\ Legacy \in stored
          /\ loc' = [loc EXCEPT ![p] = [Idle EXCEPT !.pc = "save", !.todo = {Legacy}]]
          /\ UNCHANGED <<live, run>>
       \/ /\ saved = 0 /\ At(p, "source") /\ Legacy \notin stored
          /\ Goto(p, "again") /\ UNCHANGED <<live, run>>
       \/ /\ saved = 0 /\ At(p, "again")
          /\ IF p \in Runs THEN loc' = [loc EXCEPT ![p] = [Idle EXCEPT !.pc = "work"]] /\ UNCHANGED <<live, run>>
             ELSE End(p)
    /\ UNCHANGED <<chatVars, revVars, log, intents, objVars, busy, faults>>

\* revision_bytes found the object and its hash; a run has no revision of its own yet.
ReadBytes(p) ==
    /\ At(p, "read") /\ Key(p) \in stored
    /\ IF p \in Runs THEN GotoKey(p, "work", None) /\ UNCHANGED <<live, run>> ELSE End(p)
    /\ UNCHANGED <<chatVars, revVars, log, intents, objVars, busy, faults>>

\* Any exception, timeout or cancellation of a job.  Its upload goes on.
JobFails(p) ==
    /\ loc[p].pc # "idle"
    /\ End(p)
    /\ UNCHANGED <<chatVars, revVars, log, intents, objVars, busy, faults>>

\* finish() of a successful run, right after its last save_files.
RunSucceeds(r) ==
    /\ At(r, "work") /\ Key(r) # None
    /\ verified' = IF run[r] = "running" THEN Key(r) ELSE verified
    /\ End(r)
    /\ UNCHANGED <<exists, saved, revVars, log, intents, objVars, busy, faults>>

----------------------------------------------------------------------------
(* save_revision, put_object, promote.                                     *)

Saving(p) == At(p, "save") \/ (p \in Runs /\ At(p, "work"))

\* The tree equals the latest revision.
SaveSame(p) ==
    /\ Saving(p) /\ exists /\ saved # 0 /\ status[saved] = "ready"
    /\ GotoKey(p, Return(p), saved)
    /\ UNCHANGED <<chatVars, revVars, runVars, intents, objVars, live, busy, faults>>

\* Mutant: only finished revisions count.
WithinQuotaReady == Cardinality({r \in Revs : status[r] = "ready"}) < QUOTA

\* Every row counts, whatever its state, under one advisory lock.
WithinQuota == Cardinality(Rows) < QUOTA

SaveBegin(p) ==
    /\ Saving(p) /\ exists /\ WithinQuota
    /\ nextRev < MaxRev /\ nextRev' = nextRev + 1
    /\ status' = [status EXCEPT ![nextRev + 1] = "pending"]
    /\ parent' = [parent EXCEPT ![nextRev + 1] = saved]
    /\ GotoKey(p, "put", nextRev + 1)
    /\ UNCHANGED <<chatVars, age, runVars, intents, objVars, live, busy, faults>>

\* The upload is registered and started as a task of its own.
PutObject(p) ==
    /\ At(p, "put") /\ Goto(p, "upload")
    /\ up' = [up EXCEPT ![Key(p)] = "check"]
    /\ UNCHANGED <<chatVars, revVars, runVars, intents, stored, live, busy, faults>>

Waits(p, k) == At(p, "upload") /\ Key(p) = k

\* Mutant: the owner is not looked up again.
UploadUnchecked(k) ==
    /\ up[k] = "check" /\ up' = [up EXCEPT ![k] = "put"]
    /\ UNCHANGED <<chatVars, revVars, runVars, intents, stored, loc, live, busy, faults>>

\* An upload whose project is gone must not start ...
UploadCheck(k) ==
    /\ up[k] = "check" /\ exists
    /\ up' = [up EXCEPT ![k] = "put"]
    /\ UNCHANGED <<chatVars, revVars, runVars, intents, stored, loc, live, busy, faults>>

UploadDone(k) ==
    /\ up[k] = "put" /\ up' = [up EXCEPT ![k] = "none"]
    /\ stored' = stored \cup {k}
    /\ loc' = [p \in Procs |-> IF Waits(p, k)
                               THEN [loc[p] EXCEPT !.pc = IF k \in Runs THEN "confirm" ELSE "promote"]
                               ELSE loc[p]]
    /\ UNCHANGED <<chatVars, revVars, runVars, intents, live, busy, faults>>

\* ... and one that fails (no owner, no budget, no answer) may have stored its object.
UploadFails(k) ==
    /\ up[k] # "none" /\ up' = [up EXCEPT ![k] = "none"]
    /\ stored' = stored \/ (up[k] = "put" /\ stored' = stored \cup {k})
    /\ \/ \E p \in Procs : Waits(p, k) /\ Raise(p)
       \/ ~(\E p \in Procs : Waits(p, k)) /\ UNCHANGED <<loc, live, run>>
    /\ UNCHANGED <<chatVars, revVars, log, intents, busy, faults>>

\* promote() reads the revision before it locks the chat ...
PromoteRead(p) ==
    /\ At(p, "promote") /\ status[Key(p)] # "none"
    /\ loc' = [loc EXCEPT ![p].pc = "locked", ![p].seen = status[Key(p)]]
    /\ UNCHANGED <<chatVars, revVars, runVars, intents, objVars, live, busy, faults>>

\* Mutant: the parent is not compared.
PromotableAnyParent(p) == exists /\ loc[p].seen = "pending"

\* ... and decides on that copy.
Promotable(p) ==
    /\ exists /\ loc[p].seen = "pending"
    /\ saved = parent[Key(p)]
    /\ p = Maint => ~Running

PromoteCommit(p) ==
    /\ At(p, "locked")
    /\ \/ loc[p].seen = "ready" /\ UNCHANGED <<status, saved>>
       \/ /\ loc[p].seen # "ready" /\ Promotable(p)
          /\ status' = [status EXCEPT ![Key(p)] = "ready"]
          /\ saved' = Key(p)
    /\ loc' = [loc EXCEPT ![p].pc = Return(p), ![p].seen = "none",
                          ![p].key = IF p \in Runs THEN @ ELSE None]
    /\ UNCHANGED <<exists, verified, parent, age, nextRev, runVars, intents, objVars, live, busy, faults>>

PromoteFails(p) ==
    /\ \/ At(p, "promote") /\ status[Key(p)] = "none"
       \/ At(p, "locked") /\ loc[p].seen # "ready" /\ ~Promotable(p)
    /\ Raise(p)
    /\ UNCHANGED <<chatVars, revVars, log, intents, objVars, busy, faults>>

----------------------------------------------------------------------------
(* delete_project and the storage cleanup it shares with the storage pass. *)

\* Mutant: the log key of a run that has none is queued too.
OwnedKeysUnfiltered == Rows \cup {r \in Runs : run[r] # "none"} \cup {Legacy, None}

\* Every object the project may have, archives still being uploaded included.
OwnedKeys == Rows \cup {r \in Runs : run[r] # "none"} \cup {Legacy}

RemoveRows(S) ==
    /\ status' = [r \in Revs |-> IF r \in S THEN "none" ELSE status[r]]
    /\ parent' = [r \in Revs |-> IF r \in S THEN 0 ELSE parent[r]]
    /\ age' = [r \in Revs |-> IF r \in S THEN "new" ELSE age[r]]

\* One transaction: the intents and the cascading delete of the chat.
DeleteProject ==
    /\ exists /\ exists' = FALSE
    /\ live = {} /\ Opening = {}
    /\ intents' = intents \cup OwnedKeys
    /\ saved' = 0 /\ verified' = 0
    /\ RemoveRows(Revs)
    /\ run' = [r \in Runs |-> "none"]
    /\ log' = [r \in Runs |-> "none"]
    /\ loc' = [loc EXCEPT ![Del] = [Idle EXCEPT !.pc = "clean", !.todo = OwnedKeys]]
    /\ UNCHANGED <<nextRev, objVars, live, busy, faults>>

\* Mutant: uploads under way are not waited for.
NothingToWaitFor(k) == TRUE

\* wait_for_uploads(key) looks at the tasks registered when it is called.
NoUpload(k) == up[k] = "none"

CleanNext(p) ==
    /\ \E k \in Keys : Take(p, "clean", k, IF NoUpload(k) THEN "delete" ELSE "wait")
    /\ UNCHANGED <<chatVars, revVars, runVars, intents, objVars, live, busy, faults>>

CleanWait(p) ==
    /\ At(p, "wait") /\ NoUpload(Key(p)) /\ Goto(p, "delete")
    /\ UNCHANGED <<chatVars, revVars, runVars, intents, objVars, live, busy, faults>>

CleanDelete(p) ==
    /\ At(p, "delete") /\ Goto(p, "drop")
    /\ stored' = stored \ {Key(p)}
    /\ UNCHANGED <<chatVars, revVars, runVars, intents, up, live, busy, faults>>

\* The intent survives a failed deletion.
CleanFails(p) ==
    /\ At(p, "delete") /\ Loop(p, "clean")
    /\ stored' \in {stored, stored \ {Key(p)}}
    /\ UNCHANGED <<chatVars, revVars, runVars, intents, up, live, busy, faults>>

CleanDrop(p) ==
    /\ At(p, "drop") /\ Loop(p, "clean")
    /\ intents' = intents \ {Key(p)}
    /\ UNCHANGED <<chatVars, revVars, runVars, objVars, live, busy, faults>>

\* attempt_cleanup gives up: on the whole list for the request, on this key for
\* the storage pass.  What was sent may take effect; later or now is the same,
\* as the name of a deleted object is never used again.
CleanTimeout(p) ==
    /\ \/ At(p, "wait") /\ UNCHANGED <<stored, intents>>
       \/ At(p, "delete") /\ stored' \in {stored, stored \ {Key(p)}} /\ UNCHANGED intents
       \/ At(p, "drop") /\ intents' \in {intents, intents \ {Key(p)}} /\ UNCHANGED stored
    /\ loc' = [loc EXCEPT ![p] = IF p = Del THEN Idle ELSE [@ EXCEPT !.pc = "clean", !.key = None]]
    /\ UNCHANGED <<chatVars, revVars, runVars, up, live, busy, faults>>

----------------------------------------------------------------------------
(* maintain(): deletions, recovery, log archives, retention, log expiry.   *)

DeleteEnd ==
    /\ Through(Del, "clean", "idle", {})
    /\ UNCHANGED <<chatVars, revVars, runVars, intents, objVars, live, busy, faults>>

\* Mutant: the intents of earlier requests are not read.
MaintBeginNew ==
    /\ At(Maint, "idle")
    /\ loc' = [loc EXCEPT ![Maint] = [Idle EXCEPT !.pc = "clean"]]
    /\ UNCHANGED <<chatVars, revVars, runVars, intents, objVars, live, busy, faults>>

\* The oldest intents first; those of one transaction are of one age.
MaintBegin ==
    /\ At(Maint, "idle")
    /\ \E S \in SUBSET intents :
         /\ Cardinality(S) <= BATCH /\ (S # intents => Cardinality(S) = BATCH)
         /\ loc' = [loc EXCEPT ![Maint] = [Idle EXCEPT !.pc = "clean", !.todo = S]]
    /\ UNCHANGED <<chatVars, revVars, runVars, intents, objVars, live, busy, faults>>

\* The busy projects are read once, for everything that follows.
MaintBusy ==
    /\ Through(Maint, "clean", "list", {})
    /\ busy' = (live # {} \/ Opening # {})
    /\ UNCHANGED <<chatVars, revVars, runVars, intents, objVars, live, faults>>

MaintList ==
    /\ Through(Maint, "list", "recover", IF busy THEN {} ELSE {r \in Revs : status[r] = "pending"})
    /\ UNCHANGED <<chatVars, revVars, runVars, intents, objVars, live, busy, faults>>

RecoverNext ==
    /\ \E r \in Revs : Take(Maint, "recover", r, "bytes")
    /\ UNCHANGED <<chatVars, revVars, runVars, intents, objVars, live, busy, faults>>

\* Mutant: the object is not looked at.
RecoverUnread ==
    /\ At(Maint, "bytes") /\ Goto(Maint, "promote")
    /\ UNCHANGED <<chatVars, revVars, runVars, intents, objVars, live, busy, faults>>

\* "Recovery checks this exact object and hash", then promotes.
RecoverBytes ==
    /\ At(Maint, "bytes") /\ Key(Maint) \in stored /\ Goto(Maint, "promote")
    /\ UNCHANGED <<chatVars, revVars, runVars, intents, objVars, live, busy, faults>>

\* No object, no transfer budget, no answer.
RecoverFails ==
    /\ At(Maint, "bytes") /\ Goto(Maint, "discard")
    /\ UNCHANGED <<chatVars, revVars, runVars, intents, objVars, live, busy, faults>>

\* Mutant: a lost checkpoint is tried for ever.
DiscardNothing ==
    /\ At(Maint, "discard") /\ Loop(Maint, "recover")
    /\ UNCHANGED <<chatVars, revVars, runVars, intents, objVars, live, busy, faults>>

\* Whatever the failure was, a revision of yesterday is given up.
Discard ==
    LET r == Key(Maint) IN
    /\ At(Maint, "discard") /\ Loop(Maint, "recover")
    /\ status' = IF age[r] = "day" /\ status[r] = "pending"
                 THEN [status EXCEPT ![r] = "failed"] ELSE status
    /\ UNCHANGED <<chatVars, parent, age, nextRev, runVars, intents, objVars, live, busy, faults>>

RecoverEnd ==
    /\ Through(Maint, "recover", "archive", {r \in Runs : run[r] = "ended" /\ log[r] = "none"})
    /\ UNCHANGED <<chatVars, revVars, runVars, intents, objVars, live, busy, faults>>

\* archive_run reads the run again, uploads ...
ArchiveNext ==
    /\ \E r \in Runs : Take(Maint, "archive", r, IF run[r] = "ended" THEN "put" ELSE "archive")
    /\ UNCHANGED <<chatVars, revVars, runVars, intents, objVars, live, busy, faults>>

\* ... reads the object back and records it if the run is still there.
ArchiveConfirm ==
    LET r == Key(Maint) IN
    /\ At(Maint, "confirm") /\ Loop(Maint, "archive")
    /\ log' = IF r \in stored /\ run[r] # "none" THEN [log EXCEPT ![r] = "archived"] ELSE log
    /\ UNCHANGED <<chatVars, revVars, run, intents, objVars, live, busy, faults>>

ArchiveEnd ==
    /\ Through(Maint, "archive", "retain", {})
    /\ UNCHANGED <<chatVars, revVars, runVars, intents, objVars, live, busy, faults>>

Newest(n) == {r \in Revs : status[r] = "ready" /\ Cardinality({q \in Revs : q > r /\ status[q] = "ready"}) < n}

\* Mutant: one revision less is spared.
KeptOneLess == Newest(KEEP - 1) \cup {saved, verified}

Kept == Newest(KEEP) \cup {saved, verified}

\* Mutant: checkpoints under way are pruned too.
ExpendablePending == {r \in Rows \ Kept : age[r] # "new"}

Expendable == {r \in Rows \ Kept : status[r] # "pending" /\ age[r] # "new"}

\* Under the lock of the chat; only the Run rows are looked at again.  A project
\* that the query leaves out (five revisions or less, all ready or pending) has
\* nothing expendable.
Retain ==
    LET go == ~busy /\ exists /\ ~Running
        gone == IF go THEN Expendable ELSE {}
    IN  /\ Through(Maint, "retain", "purge", gone)
        /\ status' = [r \in Revs |-> IF r \in gone THEN "deleting" ELSE status[r]]
        /\ UNCHANGED <<chatVars, parent, age, nextRev, runVars, intents, objVars, live, busy, faults>>

\* The object first, the row after it.
Purge ==
    /\ \E r \in Revs : Take(Maint, "purge", r, "purgerow") /\ stored' = stored \ {r}
    /\ UNCHANGED <<chatVars, revVars, runVars, intents, up, live, busy, faults>>

PurgeRow ==
    LET r == Key(Maint) IN
    /\ At(Maint, "purgerow") /\ Loop(Maint, "purge")
    /\ RemoveRows({r} \cap {q \in Revs : status[q] = "deleting"})
    /\ UNCHANGED <<chatVars, nextRev, runVars, intents, objVars, live, busy, faults>>

\* The logs of fourteen days ago.
PurgeEnd(old) ==
    /\ Through(Maint, "purge", "expire", {r \in old : log[r] = "archived"})
    /\ UNCHANGED <<chatVars, revVars, runVars, intents, objVars, live, busy, faults>>

Expire ==
    /\ \E r \in Runs : /\ Take(Maint, "expire", r, IF run[r] # "none" THEN "unlog" ELSE "expire")
                       /\ stored' = IF run[r] # "none" THEN stored \ {r} ELSE stored
    /\ UNCHANGED <<chatVars, revVars, runVars, intents, up, live, busy, faults>>

Unlog ==
    LET r == Key(Maint) IN
    /\ At(Maint, "unlog") /\ Loop(Maint, "expire")
    /\ log' = IF run[r] # "none" THEN [log EXCEPT ![r] = "expired"] ELSE log
    /\ UNCHANGED <<chatVars, revVars, run, intents, objVars, live, busy, faults>>

\* An exception nobody catches, a failed deletion of retention or expiry among
\* them, ends the pass; the next one begins a minute later.
PassFails ==
    /\ loc[Maint].pc \in PassPCs \ {"upload"}
    /\ faults < MaxFaults /\ faults' = faults + 1
    /\ loc' = [loc EXCEPT ![Maint] = Idle] /\ busy' = FALSE
    /\ \/ UNCHANGED stored
       \/ loc[Maint].pc \in {"purge", "expire"} /\ \E k \in loc[Maint].todo : stored' = stored \ {k}
    /\ UNCHANGED <<chatVars, revVars, runVars, intents, up, live>>

PassEnd ==
    /\ Through(Maint, "expire", "idle", {}) /\ busy' = FALSE
    /\ UNCHANGED <<chatVars, revVars, runVars, intents, objVars, live, faults>>

----------------------------------------------------------------------------
(* Time, and a crash with the restart that follows it.                     *)

\* Saves and uploads are over within a day: every call of them times out.
Age(r) ==
    /\ r \in Rows
    /\ \/ age[r] = "new" /\ age' = [age EXCEPT ![r] = "hour"]
       \/ /\ age[r] = "hour" /\ age' = [age EXCEPT ![r] = "day"]
          /\ up[r] = "none" /\ \A p \in Jobs : Key(p) # r
    /\ UNCHANGED <<chatVars, status, parent, nextRev, runVars, intents, objVars, loc, live, busy, faults>>

\* Requests on their way to the store take effect or not; startup() ends the runs.
Crash ==
    /\ faults < MaxFaults /\ faults' = faults + 1
    /\ \E put \in SUBSET {k \in Keys : up[k] = "put"} : stored' = stored \cup put
    /\ up' = [k \in Keys |-> "none"]
    /\ loc' = [p \in Procs |-> Idle]
    /\ live' = {} /\ busy' = FALSE
    /\ run' = [r \in Runs |-> IF run[r] = "running" THEN "ended" ELSE run[r]]
    /\ UNCHANGED <<chatVars, revVars, log, intents>>

----------------------------------------------------------------------------
JobStep(p) == ReadLatest(p) \/ ReadBytes(p) \/ JobFails(p) \/ SaveSame(p) \/ SaveBegin(p)

SaveStep(p) == PutObject(p) \/ PromoteRead(p) \/ PromoteCommit(p) \/ PromoteFails(p)

UploadStep(k) == UploadCheck(k) \/ UploadDone(k) \/ UploadFails(k)

CleanStep(p) ==
    \/ CleanNext(p) \/ CleanWait(p) \/ CleanDelete(p) \/ CleanFails(p) \/ CleanDrop(p) \/ CleanTimeout(p)

PassStep ==
    \/ MaintBusy \/ MaintList
    \/ RecoverNext \/ RecoverBytes \/ RecoverFails \/ Discard \/ RecoverEnd
    \/ ArchiveNext \/ ArchiveConfirm \/ ArchiveEnd
    \/ Retain \/ Purge \/ PurgeRow \/ (\E old \in SUBSET Runs : PurgeEnd(old))
    \/ Expire \/ Unlog \/ PassEnd

Next ==
    \/ \E r \in Runs, i \in BOOLEAN : RunStart(r, i)
    \/ \E r \in Runs : RunSucceeds(r)
    \/ \E v \in Views : ViewStart(v)
    \/ \E p \in Jobs : JobStep(p)
    \/ \E p \in Jobs \cup {Maint} : SaveStep(p)
    \/ \E k \in Keys : UploadStep(k)
    \/ \E p \in Cleaners : CleanStep(p)
    \/ DeleteProject \/ DeleteEnd
    \/ MaintBegin \/ PassStep \/ PassFails
    \/ \E r \in Revs : Age(r)
    \/ Crash

Spec == Init /\ [][Next]_vars

----------------------------------------------------------------------------
(* Safety.                                                                 *)

Readable(r) == status[r] = "ready" /\ r \in stored

\* "The last acknowledged checkpoint is safe": the saved and the verified
\* revision of a project are ready and their objects are there, whatever
\* upload, recovery, retention or crash came in between.
SavedReadable == /\ TypeOK
                 /\ saved # 0 => Readable(saved)
                 /\ verified # 0 => Readable(verified)

\* An object in the store is named by a row of a living
\* project or by a deletion intent: delete_project leaves nothing behind, not
\* even the object of an upload or a log archive that was under way.
NoStray ==
    \A k \in stored \ intents :
        /\ exists
        /\ k \in Revs => status[k] # "none"
        /\ k \in Runs => run[k] # "none"

\* Both survive a crash or an aborted storage pass at any point.
SafeThroughCrash == SavedReadable /\ NoStray

\* The saved revision moves only to a revision derived from it: of two savers,
\* or a saver and recovery, one loses, and no save is overwritten unseen.
\* And although promote() decides on a status it read before it had the lock, no
\* revision that was given up or is being deleted becomes current.
PromotionSound ==
    [][/\ exists' /\ saved' # saved => parent[saved'] = saved
       /\ \A r \in Revs : status[r] \in {"failed", "deleting"} => status'[r] # "ready"]_vars

\* A run or a preview that was told which revision to restore finds its object,
\* although retention knows of its job from a stale copy only.
SourceKept ==
    \A p \in Runs \cup Opens : At(p, "read") => Key(p) \in stored

\* The project's quota bounds the revision objects in the store, not only rows.
StoredWithinQuota == exists => Cardinality(stored \cap Revs) <= QUOTA

----------------------------------------------------------------------------
(* The inductive invariant behind the safety properties.                   *)

\* A job between its insert and the end of promote(), and the recovery of a row.
SaverPCs == {"put", "upload", "promote", "locked"}
RecoveryPCs == {"bytes", "promote", "locked", "discard"}
ArchivePCs == {"put", "upload", "confirm", "unlog"}

\* Which task works on what.
Places ==
    /\ \A p \in Jobs : /\ loc[p].pc \in {"idle"} \cup JobPCs
                       /\ loc[p].pc \in SaverPCs => Key(p) \in 1..nextRev
    /\ \A r \in Runs : At(r, "work") => Key(r) \in Revs \cup {None}
    /\ loc[Del].pc \in {"idle"} \cup CleanPCs
    /\ \A p \in Cleaners : loc[p].pc \in CleanPCs \ {"clean"} => Key(p) \in Keys
    /\ loc[Maint].pc \in RecoveryPCs \cup {"purgerow"} => Key(Maint) \in 1..nextRev
    /\ loc[Maint].pc \in ArchivePCs => Key(Maint) \in Runs
    /\ loc[Maint].pc \in RecoveryPCs \cup {"recover", "purge", "purgerow"} => loc[Maint].todo \subseteq 1..nextRev
    /\ loc[Maint].pc \in ArchivePCs \cup {"archive", "expire"} => loc[Maint].todo \subseteq Runs

\* delete_project leaves no row, and nothing is cleaned up before it.
DeletionWhole ==
    /\ ~exists => /\ saved = 0 /\ verified = 0
                  /\ \A r \in Revs : status[r] = "none"
                  /\ \A r \in Runs : run[r] = "none"
    /\ exists => /\ intents = {} /\ At(Del, "idle")
                 /\ loc[Maint].pc \in CleanPCs => At(Maint, "clean") /\ loc[Maint].todo = {}

\* A parent is older than its child, so that the saved revision only moves up;
\* what was given up is behind it or a day old.
Ordered ==
    exists => \A r \in Revs :
        /\ parent[r] < r
        /\ r > nextRev => status[r] = "none" /\ age[r] = "new" /\ up[r] = "none"
        /\ status[r] = "ready" => r <= saved
        /\ status[r] \in {"failed", "deleting"} => age[r] = "day" \/ r <= saved

\* What the project points to is ready, and what is ready is stored.
PointersReady ==
    /\ saved # 0 => status[saved] = "ready"
    /\ verified # 0 => status[verified] = "ready"
    /\ \A r \in Revs : status[r] = "ready" => r \in stored

\* Who saves a revision still may promote it, or has lost the race.
SaversCurrent ==
    exists => \A p \in Jobs : loc[p].pc \in SaverPCs =>
        /\ age[Key(p)] # "day"
        /\ status[Key(p)] = "pending" \/ Key(p) <= saved

\* An object is uploaded once, while its row is pending; an upload that outlives
\* its project is expected by the deletion.
UploadsCurrent ==
    /\ up[Legacy] = "none"
    /\ \A k \in Revs : up[k] # "none" =>
           k \notin stored /\ (exists => status[k] = "pending" /\ age[k] # "day")
    /\ \A k \in Runs : up[k] # "none" /\ exists => run[k] # "none"
    /\ \A k \in Keys : up[k] = "put" /\ ~exists => k \in intents
    /\ \A p \in Jobs : At(p, "put") =>
           up[Key(p)] = "none" /\ Key(p) \notin stored /\ (exists => status[Key(p)] = "pending")
    /\ \A p, q \in Jobs : At(p, "put") /\ At(q, "put") /\ Key(p) = Key(q) => p = q
    /\ At(Maint, "put") /\ exists => run[Key(Maint)] # "none"

\* Whoever promotes has the object, unless retention took the row.
PromotesStored ==
    exists => \A p \in Jobs \cup {Maint} :
        loc[p].pc \in {"promote", "locked"} /\ status[Key(p)] \in {"pending", "ready"} => Key(p) \in stored

\* Recovery works on rows that are pending or have been promoted meanwhile.
RecoverySound ==
    exists /\ loc[Maint].pc \in RecoveryPCs \cup {"recover"} =>
        /\ \A r \in loc[Maint].todo : status[r] \in {"pending", "ready"}
        /\ loc[Maint].pc # "recover" =>
               status[Key(Maint)] \in {"pending", "ready"} /\ Key(Maint) \notin loc[Maint].todo

\* Retention deletes the objects of rows it has marked, and a row after its object.
PurgeSound ==
    loc[Maint].pc \in {"purge", "purgerow"} =>
        /\ \A r \in loc[Maint].todo : status[r] \in {"deleting", "none"}
        /\ At(Maint, "purgerow") =>
               status[Key(Maint)] \in {"deleting", "none"} /\ (exists => Key(Maint) \notin stored)

\* The cleanup waited for the upload, and drops the intent after the object.
CleansSound ==
    \A p \in Cleaners :
        /\ loc[p].pc \in {"delete", "drop"} => up[Key(p)] # "put"
        /\ At(p, "drop") => Key(p) \notin stored

\* A run that may still succeed keeps what it saved.
RunsSound ==
    \A r \in Runs : run[r] = "running" =>
        /\ r \in live
        /\ At(r, "work") /\ Key(r) # None => status[Key(r)] = "ready"
        /\ At(r, "locked") /\ loc[r].seen = "ready" => status[Key(r)] = "ready"

RowsWithinQuota == exists => Cardinality(Rows) <= QUOTA

CheckpointsInv ==
    /\ TypeOK /\ Places /\ DeletionWhole /\ Ordered /\ PointersReady /\ SaversCurrent /\ UploadsCurrent
    /\ PromotesStored /\ RecoverySound /\ PurgeSound /\ CleansSound /\ RunsSound /\ NoStray

----------------------------------------------------------------------------
(* Liveness.                                                               *)

\* Tasks that can run are run, jobs end, calls return; the pass comes round
\* every minute, time passes, and what is tried for ever succeeds some time.
Fairness ==
    /\ \A p \in Jobs : WF_vars(JobFails(p))
    /\ \A k \in Keys : WF_vars(UploadStep(k))
    /\ WF_vars(MaintBegin) /\ WF_vars(PassStep \/ CleanStep(Maint) \/ SaveStep(Maint))
    /\ WF_vars(CleanStep(Del) \/ DeleteEnd)
    /\ SF_vars(CleanDelete(Maint)) /\ SF_vars(CleanDrop(Maint))
    /\ \A r \in Revs : WF_vars(Age(r))

FairSpec == Spec /\ Fairness

\* Every object of a deleted project is gone in the end, and its intent too.
DeletionCompletes == \A k \in Keys : k \in intents ~> (k \notin intents /\ k \notin stored)

\* No checkpoint stays pending: it is promoted, given up or deleted.
PendingResolved == \A r \in Revs : status[r] = "pending" ~> status[r] # "pending"
=============================================================================
