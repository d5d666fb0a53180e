# Verification of webbuilder

webbuilder turns chat requests into web projects. One API worker (FastAPI,
asyncio; `Dockerfile` starts uvicorn with a single worker) admits *runs*, lets a
language model edit the project inside a disposable E2B sandbox, saves the source
as revisions in object storage, and serves previews from the sandbox. What makes
it hard is that every step is an `await`: a run, a preview request, a
cancellation, a project deletion, the idle reaper and history queries interleave
at each of them, any of the calls may fail or be cancelled after it took effect,
and the process may die and restart with sandboxes still running at the provider.
The browser is the second half: JavaScript runs one callback at a time, but answers,
socket messages, timers, other tabs and the user come in any order, and a page may be
reloaded between any two of them.  The same holds, more so, for the overlay of the
`impeccable` skill (`live-browser.js`, more than half of the repository's script code),
which edits pages under development together with an agent.

This directory holds TLA+ modules translated from the source, TLC configurations
that check them on small instances, and TLAPS proofs for every instance.
`PROJECT.json` lists components, runs, the source lines behind each definition,
the hazards and the findings.

## 1. Inventory

| Component | State | Operations | Hard behaviour | What makes it correct |
|---|---|---|---|---|
| Sandbox runtimes (`agent/sandbox_runtime.py`) | table `sandbox_runtimes`, in-memory handles, the provider's sandboxes | acquire, register, state, invalidate, mark_reusable, pause, retire, maintain | lost create answers, late creation, kill without confirmation, crash between intent and answer | no sandbox without a row; no dirty sandbox reused; at most `MAX_LIVE_SANDBOXES` run |
| Run service (`agent/service.py`) | `active`, `opening`, `admission` lock, subscribers, `runs` table | admit, execute, open_preview, cancel, finish, snapshot, startup, shutdown | cancellation in every await, the `finally` block included | one job per project; every run ends once and leaves the service |
| Project routes (`main.py`) | - | delete_project, cancel_run, get_runs, WebSocket listener | deletion racing admission, observers racing outcomes | no run on a deleted project; observers change nothing |
| Checkpoints (`agent/persistence.py`, `storage.py`, `archive.py`) | `project_revisions`, `chats.latest_saved_revision_id`, objects | put_object, save_revision, promote, revision_bytes, sandbox_archive | an upload that outlives its caller, promotion races recovery | the saved revision is always readable and descends from its parent |
| Maintenance (`agent/maintenance.py`) | deletion intents | storage cleanup, recovery of pending revisions, log archive, retention, two loops | decisions on stale reads | never deletes what is current; every intent is carried out |
| Run events (`agent/events.py`, `Service.emit`/`publish`) | `run_events`, subscriber queues | emit, publish, archive_run, run_events, subscribe | a full queue, a cancelled commit, archive while reading | sequence numbers without reuse; a subscriber sees a gap-free log or a resync |
| Spend ledger (`agent/budget.py`, `model_budget.py`, `sandbox_budget.py`) | `spend_entries` | reserve, settle, release, require_allowance | windows that roll over, lost settlements | a window's limit is never exceeded; every reservation is settled once |
| Authentication (`auth/*.py`) | users, tokens, identities, OAuth state | issue/consume token, refresh, link, callback, exchange | double use, replacement while being used | a token works at most once; no identity belongs to two users |
| Editor loop and commands (`agent/runner.py`, `commands.py`, `tools.py`) | budgets, dirty flag, background commands | run_editor, verify, run_command | budget edges, checkpoint per batch | a run completes only after verification of the final tree |
| Conversation memory (`agent/context.py`) | messages | compact | token budget | tool calls keep their results |
| Preview process (`agent/preview_process.py`) | lock file, pid file in the sandbox | start, stop, restart | two controllers | at most one server |
| Browser session (`frontend/lib/http`, `lib/auth`, `hooks/auth`) | tokens in localStorage, the renewal under way | request, renewSession, sign in and out, confirm a link | parallel 401s, several tabs, another account signing in meanwhile | one renewal at a time; no answer crosses accounts; nobody waits for ever |
| Chat view (`frontend/socket`, `hooks/chat`) | run cards, socket, composer | applyRunEvent, restoreRuns, send, cancel, reconnect | replayed, lost or reordered events | the view agrees with the log; an end is told and stays told |
| Workspace pages (`hooks/preview`, `hooks/files`, `hooks/projects`) | preview state, revision, file cache, project list | wake, retry, poll, read a file, list, delete | late answers of a former revision, selection or effect | one start per visit; what is shown is current |
| Live variant sessions (`live-browser.js`) | overlay state, localStorage, wrapper, server's sessions | Go, cycle, accept, discard, resume, recover | reloads, lost event streams, superseded sessions | variants shown exist; a new session is left alone by the old one |
| Live overlay tools (`live-browser.js`, `-session.js`, `-ignores.js`) | staged edits, chat lock, notes, placeholder, previews, scroll position, detector results, stored sessions | save, apply, discard, steer, speak, annotate, pick, insert, mount, lock, scan, store | failures half-way, events out of order, two tabs | page and staged edits agree; controls come back |
| Deployment, prompts, rendering | - | - | - | not modelled: texts, scripts, images, styling |

Interactions: routes call the service; the service calls the runtimes, the
editor loop, the checkpoints and the ledger; the editor calls back into
`checkpoint` and `emit`; maintenance runs as tasks of the same event loop and
shares the `admission` lock, the tables and the service's sets; the browser sees
the service through HTTP snapshots and WebSocket events.  The live overlay talks to
a helper server (POSTs, an event stream, reads of source files), which hands work to
an agent; both are outside the modelled code and appear as external actions.

## 2. Plan

Done: `SandboxRuntimes`, `RunService`, `RuntimeOwnership`; `Checkpoints`; `ChatView`,
`BrowserSession`, `Workspace`; `LiveVariants` and the nine modules of the overlay's
tools.  Proved: the refinement and every safety property of `RunService`, of
`BrowserSession`, of `ChatView` and of `Workspace`, and those of `Checkpoints` but `SourceKept`.
Left, in this order:

1. Proofs about the overlay's tools, `PagesHold` and `ViewHolds` first.
2. `SpendLedger` and the editor's budgets; OAuth; graceful shutdown.

Recursive definitions stay out of all of these modules.

## 3. Modules

* **SandboxRuntimes** is `agent/sandbox_runtime.py`: `row` (the table), `handles`,
  and the external provider `sb`, `content`.  Each operator is one step of a
  method between two awaits.  A sandbox is named by its `operation_id`, since the
  code requests at most one sandbox per operation.  `requested` is a create
  request the provider may process at any later time.  A revision is a number, 0
  the starter template, `Dirty` a tree equal to no saved revision.  Left out:
  `last_used` and the retention time (they only choose *which* rows are old: the
  arguments `old`, `current` are arbitrary), `app_url`, spend entries.
* **RunService** composes those steps into the tasks of `agent/service.py` and the
  routes of `main.py`.  `pc[p]` is where a task stands: `Body` is the `try` of
  `execute`/`open_preview`, `Finally` the cleanup.  A project's own process is the
  cleanup its DELETE request runs; `Reaper` is the maintenance task, and at
  startup the reconciliation.  `ret[p]` are the locals of `retire()`, called from
  `acquire` (`Replace`), under the lock (`RetireSandbox`) and by the sweep.
  `Cancel` may land in any await: `Abandon` lists what the interrupted call may
  already have done (kills sent, a DELETE committed, a tree half restored).
  Runs are never reused, preview requests may come again.  The status `failed`
  stands for both `failed` and `timed_out`.  A checkpoint is one step
  (`Checkpoint`) or an upload whose promotion was not reached (`CheckpointLost`),
  which `RecoverCheckpoint` may promote later.  The assignment
  `self.sandboxes[chat_id] = live.sandbox` of `execute` restores a value that
  `OwnedWhileInUse` shows unchanged, so it is no step of its own.  A refusal of
  admission (`AdmitRefused`) is always possible: credits, allowance and ownership
  of the chat are data of other components.
* **RuntimeOwnership** is the abstract promise of the table: an operation is owned
  before the provider hears of it, lives only while owned, and is disowned only
  when its sandbox is gone.  No tasks, locks, handles or ids.
* **Checkpoints** is `agent/persistence.py` with `storage.py`, the storage pass of
  `agent/maintenance.py`, `archive_run` and the storage half of `delete_project`,
  for one project (projects share only quotas and budgets here).  Revisions are
  numbered in the order of `created_at`; an object is named by its revision, its
  run (a log archive) or `Legacy`, the files saved before revisions existed.
  `loc[p]` holds a task's locals: where it stands, the key it works on, the status
  `promote` read *before* it locked the chat, the list a loop still has to do.
  `up[k]` is the upload task of `put_object`, which goes on when its caller is
  cancelled.  `age` distinguishes what the code tells apart: younger than an hour,
  than a day, older; `Age` assumes that a save and its upload are over within a
  day.  A transfer budget that is used up, a hash that does not match and a storage
  error are all the failure of the call; a failed or timed-out deletion may have
  taken effect.  A deletion the SDK's thread carries out later is merged with the
  call itself, since the key of a deleted object is never used again.  `RunStart`
  may find its Run ended at once, which is what `snapshot_interrupts` shows.
* **ChatView** joins `admit`, `emit`, `publish`, `finish`, `cancel`, `snapshot` and the
  subscribers of `service.py` and the listener of `main.py` with the page's connection,
  event folding and composer, for one page.  `phase[r]` is where a run stands: committed
  and not registered (`admitted`), reporting, in `finish()`, past its commit, left in
  `active` by a cancellation, or gone, with a word to the observers (`over`) or without
  one (`silent`).  `cancel()` may land wherever the task stands, once per run.  A
  snapshot reads the newest `HistoryLimit` rows, judges them, and writes its judgement
  over what they are by then, in three steps for the listener's own
  (`SnapshotRead`, `SnapshotJudge`, `SnapshotWrite`); one for somebody else may overwrite
  at any moment after the commit (`SnapshotElsewhere`).  An event is named by its run and
  index, a history by the prefixes it read.  A full queue, a lost socket, an unanswered
  request, a fault of the database in any transaction and a restart are actions.
* **BrowserSession** is the request interceptor, `renewSession`, sign-in, sign-out and
  the verification links, with the routes of `auth/` they call, for two tabs and two
  accounts.  Tokens are pairs numbered in the order of issue.
* **Workspace** is the project list and, for one project, `usePreviewLifecycle`,
  `useProjectFiles` and the file viewer with its cache.  A React effect that
  was disposed of may still have an answer to come.  The preview's frame is left out
  (section 7).
* **LiveVariants** is the life of a variant session in the overlay.  A handler is an
  operator from a state of the browser to the next, since a MutationObserver runs
  right after the callback that changed the document.  `IDLE` and `PICKING` are one
  state; `CONFIRMED` is passed in one step; picking and inserting are the same
  `Configure`; the event stream opens together with a reload; POSTs under way are
  dropped by a reload; one tab; source previews only.  The twelve seconds after which
  a watch for a handled wrapper gives up, phases, parameters, toasts, the bar and the
  highlight are left out.
* **LiveEdits** (staging and applying copy edits), **LiveTexts** (the references by
  which a discard finds the texts it restores), **LiveSteer** (page chat, voice,
  focus), **LiveNotes** (pins and strokes), **LivePicking** (pick and insert
  modes, the insert line over a layout's rectangles, the placeholder and its resizing), **LivePreviews** (component previews over
  their awaits), **LiveScroll** (the scroll lock), **LiveDetect** (which page the
  detector's findings and waivers belong to), **LiveStore** (which session a page works
  on, after loads, late markup, server lists, ends in other tabs and teardowns) model the
  overlay's tools.  They share the overlay's mode only, which each of them sees as input;
  **MCLiveTools** checks them in one run, one tool per behaviour.  In `LiveSteer` a POST
  and its answer are two things that may be lost, so the end of a steer may come before
  either.  In `LiveScroll` a scroll stops at the end of the page, which grows and shrinks;
  the retries of the script's first scroll come at any later time.  In `LivePreviews`,
  `overlap` remembers that two functions of the overlay were under way at once.  In
  `LiveStore` the markup a page finds, and the list it gets, may be of any session of its
  project; one end is asked of the server at a time.
* **MCRunService** (with its symmetry set) and the other **MC** modules are the
  modules the runs name; the `.cfg` files hold the values.
* **RunServiceProofs** (with the lemmas about `SandboxRuntimes`), **RunAdmissionProofs**,
  **SavedCopyProofs** and **RuntimeOwnershipProofs** (about `RunService`),
  **BrowserSessionProofs**, **ChatViewProofs**, **CheckpointsProofs** and **WorkspaceProofs**
  hold the proofs of section 5.

Two switches name environments the code may or may not meet.  `CutRemove`: a
cancellation may be delivered between the committed DELETE of `remove()` and
`forget_handle`.  `StaleReads`: other tasks may run between the answer of
`reserved()` and its use in `require_sandbox_capacity`.  With both TRUE the model
is the code as written; the runs and the theorems that need one of them FALSE say
what then holds, and section 7 what goes wrong otherwise.

## 4. Runs

The runs of the first table use `MCRunService`, those of the second
`MCCheckpoints`, those of the third the modules of the browser.  Deadlock checking is
off: requests are bounded, and an idle service or page legitimately waits.  Symmetry
is used in the safety runs of `MCRunService` and in `session`, which has no liveness
property.

| Run | Instance | Shows |
|---|---|---|
| `one_project` | 1 project, 2 runs, 1 preview, 2 operations, 2 revisions, no crash, both switches TRUE; 1.3 M states | types; only clean copies of the saved revision are reusable (`ReusableClean`, `HandsOverSaved`); a job keeps its sandbox while it uses it (`OwnedWhileInUse`) |
| `ownership` | 1 project, 2 runs, 1 preview, 2 operations, 1 revision, 1 crash, `CutRemove` FALSE; 0.9 M | jobs of a project exclude each other (`OneJobPerProject`); no sandbox without a row (`NoOrphan`), and the refinement `OwnershipSpec`; an outcome is only ever overwritten by `interrupted` (`OutcomeOnlyInterrupted`) |
| `two_projects` | 2 projects, a run each, share one sandbox slot, `StaleReads` FALSE; 0.9 M | `RunningBound`: counting rows, handles and tasks bounds the sandboxes that really run; `SweepUndisturbed`: rows a sweep has read do not change before it acts on them |
| `liveness` | 1 project, 1 run, 1 preview, 1 operation, both switches TRUE; 34 k | under fairness every run leaves `active` (`RunsEnd`) and every retirement of a runtime with a known id completes (`KnownCleanupCompletes`) |
| `snapshot_interrupts` | violation of `LiveRunIsRunning` | a run committed and not yet registered is judged interrupted, then executes, and its outcome is not recorded |

Why the bounds are enough: two runs and a preview are needed for one job to leave
something behind, a second to meet it and a third to interfere; two operations for
a sandbox and its replacement; two revisions so that recovery can promote past the
one a preview holds; one crash, since a crash forgets everything but the tables
and the provider, and the recovery itself may fail at each step; two projects only
where they compete, for capacity and inside a sweep.  Crashes and two revisions are in
different runs, since their product is too large for one; `SavedCopyProofs` covers it.  Both limits are small so that
they are reached: `MAX_CONCURRENT_RUNS = 2` and `MAX_LIVE_SANDBOXES = 1`.

| Run | Instance | Shows |
|---|---|---|
| `checkpoints` | 1 run, 1 preview, 3 revisions, quota 2, `KEEP` 2, one intent per pass; 2.2 M states | the saved and the verified revision are always readable (`SavedReadable`); an object is named by a row or a deletion intent (`NoStray`); a job finds the object it was told to restore (`SourceKept`); the quota bounds the store, not only the table (`StoredWithinQuota`); the pointer moves only to a child of what it pointed to, and nothing given up is revived (`PromotionSound`) |
| `checkpoints_liveness` | 1 run, 1 revision, 1 crash or aborted pass; 93 k | the first two through a crash or an aborted pass (`SafeThroughCrash`); every deletion intent is carried out (`DeletionCompletes`) and no revision stays pending (`PendingResolved`) |

Three revisions are a parent, a child and a rival; a quota of two is below the
number of revisions, so that it is reached; `KEEP = 2` lets retention delete
something; a batch of one intent makes the pass return for the rest.  Faults are
off in the larger run, where cancellations, late uploads and failed deletions
already happen, and on in the smaller one.

| Run | Instance | Shows |
|---|---|---|
| `chat` | 1 run of 3 events, queue of 2, 1 message in a socket, 1 request, 1 fault, a history of 1 run; 0.7 M states | when nothing is on its way, the ends the page shows are those on record, every announced one is shown, and the Stop button is left only for a run that ended without a word (`QuietViewAgrees`); without a fault a run that is over has its outcome on record or was taken for interrupted by a snapshot (`CutKeepsOutcome`); a card that has ended does not run again (`NeverUntold`); an announced end reaches the page, an unannounced one with its next connection (`EndIsTold`, under fairness) |
| `session` | 2 tabs, 2 requests, 2 accounts, 2 links, 3 token pairs, 2 sign-ins; 2.0 M | what is stored belongs to one account (`OneIdentity`); a request is executed for the account that made it, also when it is repeated (`OwnAccount`); a link signs in once, and none is left after the verification (`LinksOnce`); no request waits for a renewal that is over (`NoneStranded`); the interceptors end only a session whose current credentials were refused (`OnlyRefusedSessionEnds`) |
| `workspace` | 2 projects, 2 files, 2 revisions, cache of 3 units and 2 files, 1 visit, 2 turns; 0.7 M | one start request per visit and retry (`OneStartup`); the preview is active only for the listed revision, viewer and cache are current (`ShownIsCurrent`); revisions and lists do not go back (`Forward`); a visible preview opens, fails or sleeps (`OpeningEnds`, under fairness) |
| `live` | 2 sessions of 2 variants, 1 repeated read, 2 reload attempts, 1 choice, 1 fault; 3.2 M | a decided session never becomes current again and a comparison shows a variant that has arrived (`Comparable`); what an accept or discard left to do later never reloads the page over a new configuration or session (`ReplacementKept`); a finished generation is not waited for without something on its way that ends the wait (`CompletionPending`, source previews that can be read) |
| `live_tools` | see below; 3.6 M | copy edits and texts (`CopyEditsHold`), steer, voice, notes, picking and inserting (`InputHolds`), component previews and the scroll lock (`ViewHolds`), detector results and stored sessions (`PagesHold`) |

A queue of two overflows with three events, which is what leads to a resync.  One run
is enough for cards, which are folded independently; what a second one adds, a history
that no longer lists the first and a run the composer follows by mistake, was checked
while the invariant was developed, with smaller bounds, and is covered by the proofs.  Two tabs, two
requests and three pairs let a renewal be shared, overtaken by another tab's, and
followed by a sign-in as somebody else.  Two revisions, one with a file less and files
that do not all fit into the cache, make every answer stale once.  Two variant
sessions are one and its replacement; one fault is a lost stream, a failed or refused
request.  In `live_tools`: one staged edit with one lost connection and two events
under way (a commit is all-or-nothing per edit); two steers, for the end of one to meet
the other; two sessions of one variant and two functions under way at once for component
previews; texts of three nodes with two edits; three pins, so that a note's index can
shift; two tabs, two project roots, three sessions and a history of two handled ids, so
that it overflows; a page of at most four scroll positions, of any length between, and
three moves; three layouts (a flex row, a wrapping grid, a narrow
column with a divider), pointer positions ten pixels apart, one drag by 100 pixels
either way, which passes every size limit, and two hot updates or reloads.

**Fairness.**  A task the event loop can run is run (WF on each continuation); a
body ends at `RUN_TIMEOUT_SECONDS` or the 180 s of `open_preview` (WF on
`JobFails`; no fairness on any step of the body itself); `asyncio.Lock` wakes its
waiters in order (SF on taking the lock); the maintenance loop returns every 60 s
(SF on `SweepBegin`); a provider or database call that the sweep retries for ever
succeeds at some time (SF on the reaper's `RetireKill`, `RetireEnd` and the begin
of its retirement); a crashed process is restarted (WF on `Startup`; `deploy/compose.yaml`
restarts the container).  Nothing is assumed of users, of the provider's own
steps, or of crashes.  In `Checkpoints`: jobs end (WF on `JobFails`: their
timeouts), uploads and the steps of the storage pass return, the pass begins again
after a minute, rows get older (WF on `Age`), and a deletion that is retried for
ever succeeds at some time (SF on `CleanDelete` and `CleanDrop` of the pass).  In
`ChatView`: ready tasks run, TCP delivers or the socket closes, the retry timer fires
(WF on each).  In `Workspace`: a timer that is armed fires and a request is answered or
fails (WF on `TimerFires \/ CheckStep`), and the deadline of a start passes.  The live
modules state safety only: nothing guarantees that the agent or the helper answers.

The exception in `RunsEnd` is real: when the transaction of `cancel()`'s own
`finish` fails after the task died, the run stays in `active` until a restart
(the state `leaked`), and its project is skipped by sweeps.

## 5. Proofs

Checked by `tlapm`, for every value of the constants that their assumptions allow
(`RuntimesAssumption`, `ServiceAssumption`, `SessionAssumption`, `ChatAssumption`,
`CheckpointsAssumption`, `WorkspaceAssumption`: the constants have their types, names are
distinct).  Every inductive invariant is defined
in the component's own module, next to the properties, and was checked by TLC on the
instance of its run before it was proved.

**Service, in `RunServiceProofs`**, which first shows that each step of the table preserves
`RowsOwn`:

* `TypeCorrect`: `Spec => []TypeOK`, both switches arbitrary.  The invariant needs
  `ProjectKnown`: whoever works has a project, whoever lists has an operation;
  without it `row[chat[j]]` could be read outside the table.
* `SandboxesOwned`: `~CutRemove => (Spec => []NoOrphan)`.

`NoOrphan` is not inductive: a step that removes a row needs to know that its
sandbox is gone, which depends on what the task learned many steps before.
`IndInv` adds

* `RowShape`, `UniqueOp`: a row has an operation, its id if any is that
  operation's, and no two rows share one;
* `HandleMatchesRow`: a handle is of the row's own sandbox, the fact `retire()`
  relies on when it kills the ids it knows instead of listing, and the one the
  cut in `remove()` breaks;
* `RetireSafe`: a retirement that is about to remove has seen its own operation
  end, one that is about to kill will kill it;
* `JobOperation`: the operation a job remembers is its own project's or no one's,
  and a rejected create is gone.

The argument does not use the admission lock at all: `gone` is never undone
(`Progress` in the proof: operations move `unused` to alive to `gone`, and new
rows take unused operations), so what a task learned stays true whoever runs in
between.

**Refinement, in `RuntimeOwnershipProofs`.**  `ImplementsOwnership`:
`~CutRemove => (Spec => OwnershipSpec)`.  Every action is shown to be a step of
`RuntimeOwnership` or to leave `owned` and `sb` alone.  Beside `IndInv` it needs
`KnownCreated`: an id in a row, a handle, a retirement's list or a job about to register
is that of a sandbox that was really created, or a kill of it would not be a step of the
promise.

**Admission, in `RunAdmissionProofs`.**  Here the lock carries the argument, and both
switches are arbitrary.

* `ProjectsSerialized`, `SweepActsOnFacts` rest on `AdmissionInv`: the lock is held by whoever
  stands in a locked section (`LockHeld`), `active` and `opening` name exactly the jobs that
  have a task (`Registered`), and what an admission or a sweep has tested stays true until it
  lets go (`Claimed`, `SweepHeld`).  The interesting steps are those that change the
  registers without the lock, the end of a job and of a cancelled one: they only take names
  away, which makes no test false.
* `RuntimeKeptInUse` rests on `UseInv` as well: `retire()` runs only in the places that hold
  the lock or belong to the job itself, and row and handle are the job's from the
  registration of its sandbox on.
* `OutcomesKept` needs only `Unborn`: a run without an admission has no status.
* `CapacityKept`: `~CutRemove /\ ~StaleReads => (Spec => []RunningBound)`.  Rows, handles and
  tasks are counted at different moments, and most steps move a project from one to another.
  `CapacityInv` therefore bounds one set, `Slots`: the projects that have a job, that were
  admitted and are not registered yet (`Committed`), or whose sandbox is at work or may still be
  started (`Occupies`).  No two sandboxes that run belong to one project (`UniqueOp` and
  `NoOrphan`), so what runs is no more than `Slots`; what `reserved()` and the two registers
  count at the test is no less than `Slots`, so an admission that passes leaves room for its own
  project; and every other step only takes projects out.  A paused sandbox is not counted, and
  stays so until its project is admitted (`PausedStays`).  Both hypotheses are needed: each of
  the switches is a way past the count (section 7).

**Copies, in `SavedCopyProofs`.**  `ReusableIsCopy` and `HandoverIsLatest` rest on `CopyInv`,
on top of the three invariants before: what a job is about to hand over is the revision it
believes, and a revision that was replaced never comes back (`RevisionsGrow`), so that equal
numbers before and after an await mean that nothing was saved in between.

**Browser, in `BrowserSessionProofs`.**  `StoredForOne`, `AskedForOne`, `LinksUsedOnce`,
`WaitersServed`, `EndsOnRefusal`, for any number of tabs, accounts, requests, links and
pairs.  `SessionInv` says that whatever anybody holds (storage, a request, a renewal, a
sign-in) is of an issued pair, and an issued pair keeps its account: pairs are issued in
order and never again (`PairsInOrder`).  `OneIdentity` alone is not inductive, since the answer
of a renewal brings in tokens that were chosen several steps before; `RenewalsFaithful` and
`RequestsFaithful` keep their account with them.  `LinksOnce` is about a cardinality; the
invariant has it as `NoSecondUse`.

**Chat view, in `ChatViewProofs`.**  `ChatViewInvariant`, `CutOutcomeKept`, `QuietViewRight`,
`ShownStaysTold`, for any number of runs, events, requests and faults, any queue and any length
of a history.  The hard one is `QuietViewAgrees`: when nothing is on its way, the ends the page
shows are those on record and no announced one is missing, although events were lost to a full
queue, repeated by a history or answered late, and a snapshot may judge by an old read.  What the
code does not promise is no part of it: an end that `finish()` passes over in silence (line 303)
is told by the next history only, and until then the page keeps its Stop button.  `ChatInv` says,
beside the types,

* `MessagesSound`: what is in flight is true, though old; `HistoriesInOrder`: a history knows at
  least what was sent before it (`Newer`) and what the page shows already (`Known`), so that
  `restoreRuns` takes nothing back.  This is what the order of subscribing and reading in
  `main.py` is for;
* `RunSound`, `RunEndsWell`: log, status and task of a run fit together, and without a fault a
  run that has left has its terminal row, or was taken for interrupted;
* `CardSound`: the page shows an end only of a run that has it, with the outcome of its terminal
  row if there is one, whatever `interrupted` was written over its status;
* `LiveFollows`: an open socket that is owed no history (`HistoryOwed`) has been told, or is
  being told, of every announced end.  A full queue loses events, but leaves a resync, and so a
  history that is owed; `QuietViewAgrees` follows, since a quiet page is owed none.

How a card results from a prefix of the log (`Told`) is a recursive function over numbers; that
it has a value for every prefix and what it says of the tool's result are proved by taking the least
number for which they fail.  Writing the proof found a conjunct of `Newer` that a misplaced
bullet had put under a quantifier, so that it said less than meant.

**Checkpoints, in `CheckpointsProofs`.**  `SavedIsReadable`, `NothingIsStray`, `CrashesAreSafe`,
`ObjectsWithinQuota`, `PromotesSoundly`, for any number of runs, requests, revisions, crashes
and aborted passes, any `KEEP` of at least two, any quota and batch.  The proof is in two layers.
First the actions, one by one, are summarised as what a step may do to a job (`JobMove`), to
the storage pass (`MaintMove`), to the cleanup (`CleanMove`, `DelMove`), to a row (`RevMove`,
`AgeMove`), to an object (`UpMove`, `StoreMove`), to the intents and to a run; then each part
of `CheckpointsInv` is preserved by these moves (`Effect`), without looking at actions again.
What the parts say:

* `Ordered`: a parent is older than its child, so the saved revision only moves up.  Hence the
  status `promote()` read before its lock is harmless (`PromotionIsPending`): if the parent is
  still current, nobody promoted, gave up or removed the row since.  "Given up" needs the age of
  a row: recovery gives up only rows a day old, and `Age` assumes that no save is that old.
* `UploadsCurrent`: an object is uploaded once, while its row is pending, and one that is still
  on its way when the project is deleted is among the intents.
* `PromotesStored`, `RecoverySound`, `PurgeSound`: who promotes has the object; recovery and
  retention never work on the same row, because one task does both, one after the other.
* `DeletionWhole`, `CleansSound`: the cleanup begins with the deletion, waits for the upload,
  and drops an intent after its object.
* `RunsSound`: what a running run saved stays ready, since retention looks at the Run rows
  under the lock.

`StoredWithinQuota` needs `NoStray` and `RowsWithinQuota`; the latter uses only that
`save_revision` is the one place that adds a row, and counts under its advisory lock.

**Pages, in `WorkspaceProofs`.**  `StartsOnce`, `NeverBack`, `ShowsListed`, for any number of
projects, files, revisions, visits and turns.  `WorkspaceInv` adds to the types

* `StartsPaid`: a startup request that the visit's first did not cover was paid for by a retry,
  since only a retry forgets an attempt, whichever effect sent the request;
* `ListsInOrder`: at most one list request will be taken, and its answer is no older than what
  is listed; so revisions go up, and every effect has a revision of its own;
* `DeletionsHold`: a deletion is confirmed only in a list that is neither loading nor in error,
  so no answer that still names the project is under way when it is taken out;
* `PreviewFollows`, `ReadsFollow`: a preview is active only for the listed revision, a read that
  is not aborted is of the selected file in it.  Neither says what the frame shows (section 7);
* `CacheBounded`: the file cache keeps within its count and its bytes.  The bytes are a sum over a
  queue, and so are the entries that are left when one is taken out: both are recursive
  functions on the queue's positions, and what holds at 0 and, if at i - 1, at i holds at all of
  them (`NumberByNumber`, from the least number for which it would fail).  `cacheFile()` finds
  room, since dropping every entry leaves enough for one that is not itself too large.

While `CheckpointsProofs` was written, one definition of the model turned out wrong and was corrected:
`ReadLatest` let `ensure_revision` go on to a second `latest_revision` although the first had
found a revision.

Only model-checked:

* liveness and the fairness under it, which are out of the prover's reach;
* `SourceKept`: it does not hold for every instance.  Files requests are no jobs of the
  project, and enough of them that started to save legacy files before the first revision
  existed could, with a small `KEEP`, push the revision a run is about to read out of the
  newest ones; with the bounds of the run, and for open_preview, they cannot;
* the live modules, whose tools are checked one per behaviour.

## 6. Not modelled

Graceful shutdown (a crash is modelled, which loses more, but `shutdown()` sweeps
with an empty busy set while requests unwind: a listed hazard); the spend ledger,
whose reservations are single transactions under a row lock over sums of timestamps;
OAuth and identity linking; the editor's internal loop; conversation memory; the
preview process inside the sandbox.  Of the checkpoints: the archive format and its
path checks, the daily counters of `reserve_transfer` (a refusal is a failed call)
and the pruning of old event rows.  Of the live overlay: drawing and shaders, the
design panel, parameters of variants, element highlighting, positions of the bar,
several tabs of one variant session, failures of localStorage, and the revision numbers of
checkpoints, which a server outside of the repository's code judges.  Of the workspace pages:
the preview's frame and `appUrl`.  Two merged steps: `state()` of a paused
runtime and `pause()` commit the row and forget the handle two awaits later (`sandbox_runtime.py`
109-113, 206-209), which `StatePaused` and `PauseSandbox` take together; a cancellation in between,
which the model has before or after them only, leaves a handle of the same, paused sandbox.
And `AdmitCommit` of `RunService` has no outcome "the commit took effect and raised"; `ChatView`
has it (`AdmitFails`).
Rendering, prompts, other skill packages, image build and migrations carry no
protocol and are left out for good.

Assumptions on the environment that a property needs are part of the models and named
there: `Addressable` in `LiveTexts` (the discard's references reach the texts they
were taken from), `stale` in `LiveNotes` (a pin pressed while the edited note is
emptied), `Unhurried` (the double-click window is shorter than any other gesture), and
the exceptions of `RunsEnd`.  In the overlay's tools, `NotFrozen` excepts lost endings
(`used.missed`) and the time in which the user is asked (`Asked`); `AwaitsOne` a POST that failed
(`steers.failed`); `NothingClaimed` functions that overlap (`overlap`), `NotStranded` a wrapper the
page's own rendering took away (`Stale`); `ScrollHeld` a page that grew unseen (`view.unseen`);
`FinishedStay` the sessions before a reset, and those that more than the kept number of ids
followed (`FinishedLately`).  Section 7 says what happens outside of them.

## 7. Observations

What the models showed of the code and no run records as a finding.

Service:
* a cancellation between the DELETE of `remove()` and `forget_handle` leaves a stale
  handle; the next lost create is retired by killing the stale id, and its own sandbox
  is disowned (`NoOrphan` needs `CutRemove = FALSE`);
* with `StaleReads`, a row inserted after `reserved()` was read, by a task that is gone
  when the sets are joined, is not counted and `RunningBound` fails;
* `snapshot()` writes `interrupted` over an outcome saved after its read
  (`OutcomeOnlyInterrupted` allows just that);
* a listed sandbox that is killed before a crash is never listed again, and its row
  stays `retiring` for ever (`KnownCleanupCompletes` asks for a recorded id);
* recovery gives up a stored checkpoint whose parent is current when one read of the
  pass fails on a row a day old;
* a run may end in the database and nobody is told: `finish()` returns without publishing when a
  snapshot interrupted the run before its registration (303-304), and when a cancellation lands
  after the commit of `finish()` and before line 320, since `cancel()`'s own second `finish()`
  then finds the run ended.  A page that stays connected shows it as running, with a Stop button
  that finds no run, until its next history.

Browser:
* `useSignIn.ts:82` clears the session on any error of a sign-in, an outage included;
* `fail()` on a revision mismatch leaves `active` set, so that a later retry whose
  status requests keep failing stays in "checking" (`OpeningEnds` excepts it);
* the preview's frame shows `appUrl` (`PreviewPanel.tsx` 165-176), which the restored history
  (`handleChatEvent.ts` 123), the end of a run (140-141) and the preview's own answers write: with
  a preview active and its tab hidden, an end brings the URL of a later revision, and a panel that
  is opened before the list is answered shows it beside the files of the earlier one.  So
  `ShownIsCurrent` is about the preview's state, the viewer and the cache, not about the frame.

Live variant sessions (`live-browser.js`):
* the late answer of a discard (8959-8969) cleans up whatever session is current;
* an accept whose POST fails after its completion arrived shows variants without a
  session (8757-8761), and so does a source read that returns after the cleanup (6405);
* an `error` event of another session leaves the current one's generation (7303-7308);
* a failed generate POST leaves GENERATING without a message;
* a stream that reconnects while an annotated request is captured sends a checkpoint
  before the session is known, and the page abandons its own session (8279);
* the observer sets `variants_progress` unconditionally (7033), against "must never
  regress" (131-136);
* `clearHandled()` without an id (6180) drops all handled ids, against "Keep the bounded
  handled-id history durable" (9528-9530): markup of a session finished before it, hydrated
  later, is then taken up (`FinishedStay` counts only the sessions finished since);
* the late answer of an accept marks whichever session is current by then (8750), not the
  accepted one.

Tools:
* saving, cancelling or typing while a save is unanswered lets page and staged texts
  differ (3797-3808); the trash does not set `inFlight`, so that commit and discard can
  overlap; after a rollback the pill stays disabled;
* after the agent gave up (4185-4208) an event, a save or a refetch that counts the staged edits
  reaches `updatePendingCounter`, which asserts the loading state once more (4089) and hides Keep
  fixing and Rollback (4066-4069), although the comment above `commit_done` (4317-4320) is about
  just such a picker "frozen forever"; a lost ending of an apply leaves the same until the next
  event;
* the failure of one steer's POST unlocks the chat for another one, and one whose end has come
  already, when only the answer of its POST is lost, is reported "Could not reach live server"
  (10708-10711);
* `cleanup()` does not disconnect the retry observer of component previews, so that a
  discarded session may come back; two overlapping mounts leave two instances; the
  failed probe of a slow mount aborts a newer preview; a bar of variants may stand over
  none after such overlaps; when the page's own rendering takes the wrapper away and
  brings the element back, the observer does not take it up again;
* `nth-of-type` in a reference is counted with the overlay's own markers, and a class
  with a dot is cut when a reference is parsed, so that a discard may restore a text at
  another place without counting a failure;
* pressing a later pin while the edited note is emptied keeps a stale index (640-651);
* where the document root is above the common root, an ambiguous URL is given a wrong
  path, against "ambiguity resolves toward showing the finding" (`ignores.js` 144-145): with the
  pages `a/index` and `a/a/index` served from above `a`, the URL `/a/` fits both, is taken for the
  second, and a waiver of `a/a/**` hides a finding of the first; the same without a list of pages.
  `DetectTrue` is about the files that are certain;
* a gesture re-anchors the scroll lock before the page has scrolled, so that the next
  correction undoes the last part of it; a page that grows where the lock does not look stays
  short of its target until the next frame or scroll event;
* turning insert off or pick on while an insert is configured removes its placeholder
  and leaves CONFIGURING with that detached element selected; during the generation of
  an insert it removes the placeholder for good (11637-11677);
* a placeholder dropped by a hot update before it is sent is requested without a size;
* the insert line is not redrawn for the same place after a scroll (7479-7484), and lies
  on the wrong side in reversed flex directions; of a classless anchor that was rendered
  anew, an earlier element of its tag that contains its text takes the place (2115-2130).
