# TLA+ models of the advertising submission engine

This directory holds a formal model of the parts of the repository that spend
money or cannot be done twice: the engine that turns a draft into a frozen
preview and the preview into objects on an advertising platform (a CTA
portfolio, a campaign, ad groups and ads), and the machinery it stands on, which
brings materials to accounts, keeps originals in temporary storage, makes
promotion links at providers, and renews tokens and sessions. All of it runs in
Celery tasks that may be repeated, delayed, killed or overtaken by each other,
over remote interfaces that cannot be asked twice.

    tlasany Expansion.tla
    tlc -config ExpansionSafety.cfg MCExpansion.tla
    tlapm Expansion_proofs.tla

`PROJECT.json` is the machine-readable index: components, runs, mutants (at least
one plausible bug for every property), the map from definitions to source lines,
hazards, findings and theorems. Paths below are relative to
`src/backend/app/modules/` unless they say otherwise.

## 1. Inventory of the system

| component | state it keeps | operations | correct when |
|---|---|---|---|
| Create-step execution (`builds/execution.py`, `execution_state.py`) | `execution_step` row: status, phase, lease, attempt, request body, remote id; append-only `step_evidence` | claim, prepare, arm, check, send, record created / late / unknown / not sent, expire | the platform is asked at most once; the row and the evidence never claim more than is known |
| Readback reconciliation (`builds/reconciliation.py`) | scan progress and the remembered delivery in `resolved`, the step's lease | claim, read a page, finish | an unknown step is resolved only by what the platform shows; success is never undone |
| Reconciliation scan (`builds/reconciliation_scan.py`) | progress between pages | advance one page, decide | paging anomalies never become a confirmation |
| Scheduling (`builds/dispatch.py`, `tasks.py`) | dispatch id and revision of steps and units, submission status | queue, wake, process a unit, acknowledge a delivery, repair, finalize | no wake-up is lost; dependencies first; the submission ends with the status of its steps |
| Submission recovery (`builds/recovery.py`) | `submission_recovery` row: cursor, count, lease, revision | request, process a page, repair | each eligible step is decided about once per job; a crash resumes at the cursor |
| Drafts (`builds/drafts.py`, `draft_tasks.py`, `mini_selection.py`, `manual_links.py`) | revision, lines, materials, preparation and its progress | edit, prepare, take a page, wait for jobs | a READY draft is complete and does not change under its revision |
| Previews (`builds/previews.py`, `preview_tasks.py`) | preview, its frozen rows, cursors and digest | generate, continue, freeze | a preview freezes exactly one revision, and all of it |
| Acceptance and expansion (`builds/submissions.py`, `submission_tasks.py`) | submission, units, reservations, cursor | accept a preview once, expand in bounded pages | replays return the first receipt; no account and drama is submitted twice |
| Outbox (`src/backend/app/jobs/outbox.py`) | `pending_dispatch`, tenant cursor | enqueue in the caller's transaction, publish rounds | at least once delivery; a busy tenant starves no other |
| Admission, fair turns (`src/backend/app/jobs/admission.*`, `builds/fairness.py`, `fair_turn.lua`) | Redis sorted sets and keys | admit, release, take a turn | limits hold; no tenant is skipped for ever |
| MCP authorization (`src/backend/app/integrations/tiktok/mcp_auth/`) | connection tokens, refresh attempts, authorizations | authorize, refresh, recover, disable | a refresh token is spent once; late answers replace nothing newer |
| Material distribution (`materials/distribution.py`, `batch_distribution.py`) | `material_distribution`, `material_asset_operation`, `material_share_batch`, `account_material` | claim, arm, share, look, repair; batches | a share or upload is not repeated while its result is unknown |
| Ingest, upload by URL, cleanup (`materials/ingest_*.py`, `source_url_uploads.py`, `object_uses.py`, `cleanup*.py`) | `temporary_material_object`, uses, `object_cleanup`, the upload operation | reserve, Create, parts, Complete, validate, sign a URL, post, look, delete | Create and Complete are sent once; what is in use is not deleted; room is freed when object and upload are gone |
| Provider links (`providers/link_steps.py`, `wangyan_steps.py`, `tasks.py`) | `link_preparation_item` with its work record, remote scope, effects, links | search, look up, create, generate, save, publish | a channel or promotion is not created twice; what is published points where it was asked to |
| Provider sessions (`providers/session_refresh.py`, `connections.py`) | connection, credentials, session refresh in phases, applications | use, expire, renew, replace, verify | a token proves the configuration it was given for; a renewal never overwrites newer credentials |
| Platform transports (`src/backend/app/integrations/tiktok/`) | a guarded MCP session | open, call, classify the error | an error after a send is never reported as NOT_SENT |
| Accounts, tenants, capabilities | connections, directories, memberships, evidence | sync, verify capability, authorize | stale directory rows never authorize a call |
| Covers, file uploads, scenes, historical reads, strategies, corrections | jobs with claims of the same pattern; pure rules | - | - |
| API, catalogues, frontend, migrations | none of their own | read, render | not protocol |

How they interact. Every request for work is a row of the outbox written in the
transaction that decides it; a publisher sends it to Celery, whose workers
acknowledge late, and a periodic repair publishes again what was lost. A draft's
preparation asks for links, materials, roles and scenes and waits for them by
being delivered again. A preview copies the READY draft. A submission takes over
a frozen preview, expansion turns it into steps, `process_unit` schedules the
steps of a unit, `deliver_step` runs one step or one read and acknowledges it with
`finish_delivery`, which also wakes the unit. Remote calls pass the admission and,
for builds, the tenants' turn. All of these protocols have one shape: short row
locks that are never held across a network call, and between two transactions the
row's phase, claim token, attempt and revision protect the remote side.

What is hard here:

- a worker may be killed, stalled past its lease, or overtaken at any point
  between its transactions, and its request may take effect later;
- a message may be delivered twice, concurrently, or after its result is known;
- "did we send?" is answered from evidence of several attempts;
- receipts may arrive after someone else concluded something;
- a user's recovery, edit, cancellation or new credentials race with old workers;
- pages of a scan, of an expansion, a preview or a preparation are transactions of
  their own, and the world changes between them;
- everything unknown must still be concluded eventually.

`PROJECT.json` lists the hazards one by one at their lines, each with the
properties that would catch it going wrong.

## 2. Modules

A submission passes through these models, in this order:

    drafts         previews         submissions      outbox        process_unit    process_step
    +-----------+  +--------------+ +-----------+    +--------+    +--------------+ +-----------+
    | DraftPrep |->| DraftPreview |->| Expansion |-->| Outbox |--> | UnitDispatch |->| BuildStep |--> platform
    +-----------+  +--------------+ +-----------+    +--------+    +--------------+ +-----------+
      waits for                                                      waits for        implements
      LinkSteps <- SessionRefresh                                    Distribution,    CreateOnce
                                                                     ShareBatch, Original

| module | models | its state in the code |
|---|---|---|
| `CreateOnce` | what a creation step promises to the advertiser (abstract) | - |
| `BuildStep` | one creation step with its executors, readers, scheduler, recovery, evidence and the platform | `execution_step`, `step_evidence`, the local state of `process_step` and `process_reconciliation` |
| `UnitDispatch` | the steps of one unit as a graph, its coalesced message, the acknowledgement of deliveries, the submission's status | `execution_step` (status, error, due_at, dispatch_id), `submission_unit.dispatch_id`, `build_submission.status` |
| `Expansion` | acceptance of a draft's previews, their expansion in pages, its deliveries | `build_submission`, `submission_request`, `submission_unit`, `draft_unit_reservation`, the existence of `execution_step` rows |
| `Outbox` | concurrent rounds of the publisher over the rows of several tenants | `pending_dispatch`, `dispatch_tenant_cursor`, the local state of `flush_dispatch` |
| `DraftPrep` | a draft, its edits, and its preparation page by page with the jobs it waits for | `build_draft` and its rows, `draft_preparation` |
| `DraftPreview` | the generation of a preview step by step until it is frozen or overtaken | `build_preview` and its rows |
| `LinkSteps` | lines of a link preparation that share a remote scope, and both providers | `link_preparation_item`, `provider_remote_scope`, `provider_effect`, `promotion_link` |
| `SessionRefresh` | a connection to a provider: use, expiry, renewal, replacement, verification | `provider_connection`, `provider_session_refresh`, `provider_application` |
| `Tasks`, `Absent` | what the modules about Celery tasks share | - |
| `McpRefresh` | refresh attempts beside authorizations and disabling of one MCP connection | `tiktok_connection`, `mcp_refresh_attempt`, `mcp_authorization_attempt` |
| `Distribution` | one material and one target account: distributions, operations, messages, the copies on the platform | `material_distribution`, `material_asset_operation`, `account_material` |
| `ShareBatch` | operations of one scope, shared in batches or one by one | `material_share_batch` and the operations |
| `Original` | one temporary original from its room in the budget to its deletion, with the upload by URL | `temporary_material_object`, `original_use`, `object_cleanup`, the upload operation |
| `RecoveryJob` | the paged recovery of a submission | `submission_recovery` |
| `Admission`, `FairTurn` | the Redis scripts with their callers | six sorted sets; the queue and the turn |
| `ReconcileScan` | a scan over pages of a listing that changes meanwhile | `resolved["reconciliation"]` |
| `MC...` | instances of these for TLC: graphs, owners, orders, symmetry; several components side by side | - |
| `..._proofs` | theorems about these: drafts and previews are in `Expansion_proofs`, sessions in `Refresh_proofs`, distributions, batches and originals in `Material_proofs`, the small tasks in `Tasks_proofs` | - |

Each component is abstracted the way the one above it sees it. `UnitDispatch`
reduces a step to the statuses its transactions leave behind; `Expansion` reduces
a unit to its rows; `DraftPreview` reduces a draft to revision, READY and contents;
those above `Outbox` treat it as what `Outbox` shows it to be: a row is published
again and again until it is consumed. These links are made by reading, they are
not refinements (section 8).

`MCBuildStep`, `MCDispatch`, `MCExpansion` and `MCTasks` put components that do not share state
side by side: a variable chosen at the beginning says which one runs, and the
others rest. That makes one run of several small ones and nothing else; the
number of states is the sum of theirs.

Definitions named `X_Something` before a definition `X` are plausible bugs in the
code that `X` models; the mutants in `PROJECT.json` put them in its place, and each
breaks the property listed with it.

### 2.1 BuildStep

Workers run `process_step`: `Claim`, `Prepare`, `Arm`, `CheckBeforeSend`, `Send`,
`Answer`, then one of `RecordCreated`, `RecordUnknown`, `NotSent`, `LocalOutcome`,
`PreserveReceipt`. Every action is one transaction, or one effect outside of
transactions, of the worker; `WorkerCrashes` happens between any two. The lease is
a nonce (`token`), and a worker that lost it goes on until a transaction tells it.
Readers run `process_reconciliation` in the same way. The scheduler expires leases
(`ExpireArmed`, `ExpireUnarmed(TRUE)` for `process_unit`, `ExpireUnarmed(FALSE)` for
the repair), queues reads, acknowledges deliveries. The user retries a failed step,
asks for a read, or loses the permission. The platform creates an object when it is
asked, and answers or not. What a worker wrote about an attempt in `step_evidence`
is the set of facts `evidence`; `UnsentProof` and `NeverArmed` are the predicates of
`execution_state.py` and `recovery.py` over it. A proof that nothing was sent may rest on
`MaxProof` facts (1000 in the code); beyond that it fails.

### 2.2 UnitDispatch

`ProcessUnit` is the transaction of `process_unit` with its page of at most `Limit`
steps. The code handles the steps of a page in the order in which they are due, and each
sees what became of those before it; that matters to `Followers` only, steps of a FAILED
parent that is taken back in the same page, which fail again if they come before it and
wait if they come after (`late`). `ProcessForbidden` is the branch without permission.
`FinishRead` and `FinishExecute` are the transactions of `finish_delivery`. All of them
go on with `finalize_submission`, which has transactions of its own (`FinalizeCheck`,
`FinalizeView`, `FinalizeStore`), so that several tasks finalize at once. `message[s]`
stands for the step's dispatch row: it may be delivered any number of times while it is
set.

### 2.3 Expansion

A request holds its advisory lock from `Ask` to `Repeat`, `Accept` or `Refuse`,
each under the draft's row lock. `ExpandPage` is a page of `expand_submission` as
a set: the first `Limit` work items in the order of unit and step, where a work
item is the missing row of a unit, a missing step of an included unit, or the end
of an included unit, which queues its execution. The code reaches the same set by
looking for the next unfinished unit again and again; `used` counts the items.
`Expand` is one turn of the loop in `process_submission`, `ExpandAndYield` the turn
that gives way to other tenants with a new generation of the delivery.

### 2.4 Outbox

A round (`Begin`, `CandidatePage`, `Serve`, `SkipLocked`, `Commit`, `Crash`) is one
transaction of `flush_dispatch`, whose effects on the broker cannot be rolled back.
`Serve` handles the rows of one tenant, of which it re-reads those still due under
the lock of the tenant's cursor. Stamps and backoffs appear when the round commits.

### 2.5 Drafts and previews

In `DraftPrep` the edits (`UpdateDraft`, `EditMaterialGroups`, `SaveManualLink`,
`PrepareDraft`, `ChooseMini`) each make a revision. A delivery of a preparation is
one of `AccountsPage`, `LinksPage`, `MaterialsPage`, `LinksAgain`, `ScenesPage`,
`NoScenes`, or `PrepOver` when it comes too late. `progress` is the JSON progress
record of the preparation, `roles`, `link` and `sceneEnded` are the jobs of others
that it waits for. In `DraftPreview` the record `sheet` is the preview's row with
its cursors and what was frozen so far, `StepOf` is one turn of the loop in
`continue_preview`, and `ContinuePreview` takes some turns in one transaction.

### 2.6 Links and sessions

`LinkSteps` follows a delivery through `process_item` and `run_link_item`: a watchdog
message, the claim of the line, one remote request on a copy of the work record, and the
transaction that stores the copy if the claim is still its own. The remote scope is what
all lines for one drama and application share; an effect is the memory of a write, whose
key is the request. `flying` holds writes that were given up and may still take effect
at the provider. `FinishUnit` is the transaction that decides about a write in doubt and
stores the work; when the credentials turn out to be replaced it rolls back the
decision, not the work (`Decisive`). `ReadFails` is a read that is refused or without a
result, with the status that the kind of error gives the line. `SessionRefresh` numbers
sessions and verification tokens in the order in which they came to be; `promised`
remembers which configuration of an application a token was given out for.

### 2.7 Tasks over remote services

`McpRefresh`, `Distribution`, `ShareBatch`, `Original` and `RecoveryJob` model a task
as a record that says where it is (`refreshRun`, `assetRun`, ...), what it holds in
memory, and rows whose claims it may lose: a claim token is the name of the task,
forgotten when its run ends (`Tasks.Forget`). The use of a
validation in `Original` ends with its time limit, whether it still reads or not
(`Readings`). `Admission` keeps time in ticks, since
its limits are about time; `FairTurn` too. `ReconcileScan` keeps the listing of the
platform and lets it change between pages.

## 3. Runs

| run | instance | distinct states | shows |
|---|---|---|---|
| `step_safety` | step: 2 workers, 1 reader, 2 bodies, 3 revisions, 2 faults; links: 2 lines, 2 configurations, either provider, with 2 tasks and 1 fault or 1 task and 2 faults; session: 2 tasks, 2 applications, 4 troubles; symmetric | 3,697,222 | everything of section 4.1 in all interleavings of two executors of one step with a reader, repair, recovery and permission loss, and that the step implements `CreateOnce`; a write at a provider is made once, and keeps its scope while it is in doubt, also when its answer is lost and the credentials are then replaced during the decision; tokens keep their meaning |
| `step_liveness` | step: 1 worker, 2 readers, 1 body, 2 revisions, 1 fault; links: 2 lines with 1 task, or 1 line with 2 tasks, 1 fault; session: 1 task, 1 application, 3 troubles | 275,762 | armed steps are settled and unknown ones concluded; lines end, also when they are taken over from a run that goes on; sessions are renewed |
| `dispatch_safety` | publisher: 2 tenants, 3 rows (an expansion and an ordinary row of one tenant, a row of the other), 2 rounds, 2 slots, limit 2, a crash; unit: material, CTA, campaign, group, pages of two steps, 2 tasks, a retry, a crash | 3,321,695 | every delivery is accounted for, bounded overtaking; dependencies, lost wake-ups and the stored status under concurrent tasks and page limits |
| `unit_liveness` | the unit with one task and pages of four; expansion ends at any time | 89,325 | every step that can go on is taken up |
| `unit_stored_status` | the same | (violation) | the stored status may stay RUNNING (section 7) |
| `expansion_safety` | submission: 2 previews of a draft with 2 units each, 3 step keys, 2 requests, 2 workers, pages of 3 items, an edit, a yield, a fault; draft and preview: 2 dramas, 2 accounts, 1 group, pages of 1, 2 steps a delivery, 2 revisions, 1 message lost or evidence expired | 1.95 million | section 4.3 |
| `expansion_liveness` | submission: 1 preview, 2 units, 2 workers, 2 yields, 3 faults; draft and preview: 1 drama, 1 account | 77,849 | accepted submissions are expanded; preparations and previews end |
| `outbox_liveness` | the publisher with the same rows, one round, a crash, a repair | 44,079 | every row is published, except for the starvation of section 7 |
| `outbox_starved` | the same | (violation) | an ordinary row may never be published (section 7) |
| `tasks_safety` | 2 tasks, 1 killed or stalled in each of eight components: refresh (2 attempts, an authorization), distribution (an operation and a source upload, 2 distributions, 1 surprise), share (2 operations, 1 batch), original (2 permits), recovery (3 steps, pages of 2), admission (4 calls, 4 ticks), turn (3 tenants), scan (5 objects, pages of 2, 2 changes) | 1,037,067 | section 4.5 |
| `tasks_liveness` | 1 task, 1 fault in refresh, share, original, recovery, turn | 46,443 | what was begun ends, also when it has to be taken over from a task that is killed or stalled |
| `upload_lookup` | one original, one task, one kill | (violation) | a receipt may never be looked up (section 7) |

Why these bounds are enough to be interesting.

- *Step*: two executors are what the lease and the nonce defend against; three
  revisions allow a delivery that is stale, one that is current and a further
  retry; two bodies are what two attempts can render; four facts in a
  proof are exceeded by a retry between two refused attempts; two faults allow a crash and
  a lost answer in one behaviour.
- *Links, sessions*: two lines that share a scope, with the same or another configuration,
  and two tasks are all who can meet there. Two faults that need each other, a lost answer
  and then replaced credentials, meet with one delivery at a time (`"deliveries"` in
  `MCBuildStep`); the run that is overtaken by another task and goes on is an instance of
  one line (`"takeover"`). Four troubles allow credentials to be replaced during a renewal
  after an expiry, and a kill besides.
- *Unit*: pages of two steps stop within every kind of dependency, and may hold a step
  with its parent; a retry after a failure takes back dependent failures (`Recoverable`).
- *Expansion*: three items end a page between any two items of a unit of five
  items; the two previews share both pairs of drama and account, one of which is
  blocked in the first, so that the second is accepted, covered in part and
  includes the other part; two workers expand both previews, or one twice.
- *Drafts and previews*: two lines, two accounts and pages of one make every loop
  go round twice and stop between its turns; two revisions make what is overtaken.
- *Outbox*: one tenant has more rows than its slots when the limit is reached; two
  rounds compete for tenants and rows.
- *Tasks*: two tasks and a killed or stalled one give every pair of a late answer
  with a successor. Mutants of every component are found by these runs. The bounds
  are small because section 6 has a theorem for every value of the constants for each of
  these components; what remains for TLC alone is that what was begun ends. There
  `tasks_liveness` has one task at a time in each protocol: it shows that a successor
  finishes what a fault left behind, not that two tasks cannot keep each other from it.

`CHECK_DEADLOCK FALSE` is set everywhere: every one of these systems comes to rest
when its work is done or its bounds are used up. Symmetry is used in safety runs
only, over workers, lines, bodies, requests, rows and rounds, which no definition
distinguishes.

## 4. Properties

Each property is stated in words where it is defined. By component:

### 4.1 Step, links, sessions

`IInv`, `AtMostOneRequest`, `FailedMeansUnsent`, `SentBodyIsSaved`,
`WaitingBodyIsUsable`, `ReceiptIsKept`, the action property `NoReplay`, the
refinement `ImplementsCreateOnce`, and under fairness `ArmedIsSettled` and
`UnknownIsConcluded`.

`LinkSafe`: a write in doubt keeps its scope with the line that knows of it, or that is
over because it lost its credentials (`DoubtHoldsScope`), only a create that was looked
up and found absent is sent again (`NoBlindWrite`), a write that counts as done is done
at the provider (`EffectsAreTrue`), lines make no second promotion and replace no saved
url (`OnePromotion`), and a ready line has the configuration it asked for
(`ReadyAsAsked`). `LinkSettles`: every line ends unless nothing can decide about the
write in its scope (`Undecidable`): the provider does not show it, the line that knows
of it is over, or its refusal was stored by a run that had been overtaken (section 7).
`SessionSafe`: a late error of an old session never invalidates a newer login
(`MarkedIsExpired`), the session in use belongs to the credentials in force
(`SessionOfCredentials`), and a verification token never stands for two configurations
(`ProofKeepsConfig`). `SessionRenewed`: a lost session is renewed or the connection
waits for an administrator.

### 4.2 Unit

`DependenciesFirst`: what is queued, running or done has all dependencies
SUCCEEDED. `NothingForgotten`: while `process_unit` could change a step there is a
message whose processing will make it look. `StatusIsCurrent`: tasks that finalize
concurrently leave the status that the steps imply. `EveryStepIsTakenUp` is the
liveness behind `NothingForgotten`.

### 4.3 Drafts, previews, acceptance and expansion

`DraftSafe`: a draft in preparation is watched, a READY one is complete, one
preparation at most is under way. `ReadyIsFixed`: what a READY draft consists of
does not change under its revision. `ViewSafe`: only the current revision's preview
can be submitted, a frozen preview has all of the draft with a digest of what is
stored, names of campaigns do not collide on an account. `EarliestIsIncluded` and
`NothingIsLeftOut` say that of all units for one drama and account in a draft's
submissions exactly the earliest one is built, in whatever order the submissions
expand. `NoEmptySubmission`: `submit_preview` and the expansion agree on what is
left. `UnitsAreWhole`: page limits, crashes and repeated messages leave no gaps.
`AcceptedIsExpanded` and `DraftsSettle` are the liveness properties.

### 4.4 Outbox

`OutboxInv` contains the accounting: a row that is published was sent once more than
rolled back rounds and repairs explain, any other row exactly as often.
`BoundedBypass`: while a tenant waits and its cursor is free, rounds that have not come
to it pass it over at most once per concurrent and once per rolled back round.
`EveryRowIsPublished` is the liveness property: every expansion is published, and an
ordinary row unless full rounds leave its tenant a single place again and again, which an
expansion takes. `OrdinaryIsNotStarved` leaves the exception out, and does not hold.

### 4.5 Tasks

`RefreshSafe` and `AnswersFollowQuestions` (tokens are spent once; an answer replaces
the credentials it was asked with and no others), `DistributionSafe` (a share or upload
is not repeated while its result is unknown, a distribution ends as its operation did),
`ShareBatchSafe` (shared once, in a batch or alone, and batches tell the truth about
their members), `OriginalSafe` (Create and Complete once; what the platform may fetch,
or a validation reads whose use is not over, is not deleted, and a validation that
stalled past its use opens nothing again, `SentIsClosed`; room is freed when the object
and its upload are gone, which leaves the late part of section 7), `RecoverySafe`,
`AdmissionSafe`, `FairSafe`, `ScanSafe` (no conclusion from an incomplete or shifting
listing beyond what it allows). `JobsSettle` is the conjunction of their liveness
properties.

## 5. Fairness

A task that runs takes its next step (weak): Celery workers are processes that go
on until they are killed, and kills are counted by `MaxCrashes` or `MaxFaults`, rounds of
the publisher that are rolled back by `MaxRollbacks`.
Claims and leases expire (weak), the periodic repair runs (weak; Celery beat).
Messages that are outstanding are taken: weakly where nothing else can take the
worker, strongly where other messages may be taken in between (the broker's queues
are first come, first served, and the repair publishes lost messages again).
Users, permissions, administrators, remote services and faults are never fair.

- *Outbox*: a round is begun and goes on (weak; one every second), backoffs end
  (weak), the broker accepts a row that is offered again and again (strong: its
  outages end).
- *Expansion*: rows are published (weak; shown by `Outbox`), a worker that can
  process a page again and again does so (strong: a row is not postponed by the
  publisher *whenever* its message is processed, since that takes a refusal by the
  broker after the message was sent); the conclusion is about runs in which the
  permission is not lost for ever.
- *Drafts*: the jobs that a preparation waits for end (weak). They have watchdogs
  of their own; for links that is `LinkSettles`, and lines it excepts are ended by
  an operator.
- *Links, sessions*: a message that waits for its turn is taken (strong), the
  pauses between attempts at a login pass (weak).

## 6. Theorems

All theorems hold for every value of the constants under the named assumptions of
the modules (`GraphOK`, `ExpansionOK`, `TasksOK`, ...). Most modules have an inductive
invariant, which TLC checks too before it is proved, and a proof with one step per
action; the listed properties follow from it.

- **BuildStep** (`Invariance`; `TypeCorrect`, `AsksOnce`, `FailureIsUnsent`,
  `BodyIsSaved`, `SuccessExists`, `ProofIsSound`, `ReceiptsAreKept`,
  `UnknownsAreWatched`, `NothingIsReplayed`, `WaitingBodiesAreUsable`,
  `StepImplementsCreateOnce`). The
  invariant needs `ExposureInv`: the workers that still may send (*exposed*) are
  few and known. At most one worker is exposed, and only while the row says
  REQUEST_ARMED with its attempt, or UNKNOWN; nobody is while the step may be
  claimed. `BodyInv` ties the saved body to what exposed workers hold, `ObjectInv`
  the ids anyone knows to what the platform has, `EvidenceInv` says that an attempt
  without exposed worker and request has evidence to prove it, and `DispatchInv`
  that unknown steps have a message or are due for one. The refinement is proved
  step by step: every action is an action of `CreateOnce` or a stutter. That a saved
  body never blocks its step has an invariant of its own, `UsableInv`: a step that waits
  was never armed, or each nonce that armed it was declared unsent (`AllUnsent`) and
  nobody holds its lease. What the query does not read beyond `MaxProof` facts is the one
  reason left to refuse it.
- **UnitDispatch** (`UnitTypeCorrect`, `UnitDependenciesFirst`; `UnitInvariance`,
  `NothingIsForgotten` and `StatusBecomesCurrent` assume `~Restores`, see section 7). A
  SUCCEEDED step stays
  so, hence dependencies once met stay met. `WakeInv` is the key to lost wake-ups:
  a step that was put off for 15 seconds although its dependencies are settled by
  now is always watched by another step's message, whose acknowledgement makes it
  due and wakes the unit; a pass of `process_unit` makes no step SUCCEEDED, so it
  cannot settle what it has just put off, except by failing steps, which it
  requeues for. `StoredInv` says why several tasks may finalize at once: when no step can
  change any more, either the status is stored that the steps imply, or a task that has not
  looked yet, or looked at these very steps, is still to store it; `OneStores` is the row
  lock between the two.
- **Expansion** (`ExpansionInvariance`; `BuiltOnce`, `NoneIsLeftOut`,
  `SubmissionsBuild`, `StartedUnitsAreWhole`, `ExpansionIsComplete`). First come
  facts about pages that need no state: a page is closed under the items before it,
  and holds them all when it is not full. Then `RowInv`: a row says what `COVERED`
  says *now*, because a new submission has a higher number than all others, and
  coverage looks at lower numbers only. `FirstInv` is a chain that ends: if an
  eligible unit is covered, some unit for the same pair is covered by none; it is
  proved by induction over acceptance, as a new submission is either covered by one
  for which this is known, or the first.
- **Drafts** (`DraftIsSafe`, `ReadyDraftsAreFixed`). READY is the end of a walk over
  pages, so the invariant says what is complete *behind the cursor*: `AnswersComplete`, for
  which every line passed by this round over the links has an answer, or the round is
  remembered to begin again; `RowsOfReady` and `ScenesNeedGroups` tie links to materials
  and scenes to groups. A late answer of another job only adds to it.
- **Previews** (`ViewIsSafe`, with `DraftIsSafe` in `Expansion_proofs`). What is frozen is
  right because what is built fits its position all the way: `ViewInv` says for each phase
  which dramas, groups and accounts the cursors have passed, that rows and units exist for
  exactly those, and that the units of the current account have counted the groups behind
  the cursor. A delivery takes several steps in one transaction, a recursive function;
  that each of them keeps the invariant is carried to the last by a least counterexample.
- **Links** (`LinkIsSafe`). A delivery works on a copy of what is stored, and its request
  may arrive when the row tells another story. So `LinkInv` is four views of one fact,
  what was asked and what came of it: the stored work of a line, a run's copy, the effects
  and the requests under way each say which state of the provider they are evidence of,
  and only the line that holds the remote scope can have a write in doubt. `Recalls` says for
  which lines: any but one that is over for want of credentials, which may have forgotten the
  write it was deciding about, and keeps the scope. Lookups count only from when they began,
  which is why a create that was found absent may be sent again.
  `EffectOf` and `SentBefore` were CASE expressions with overlapping guards, which leave
  the choice open; the proof could not be done until they were IF chains, as in the code.
- **Outbox** (`DeliveriesAreAccounted`, `TenantsAreNotPassedOver`): sends, publications,
  rollbacks and repairs balance for every row, and rounds handle only tenants they have
  locked. No tenant is passed over: `BypassInv` says, of a waiting tenant u and another t,
  that while u `Leads` by the committed times, the services of t so far and the rounds that
  may serve t without having come to u (`Passing`) stay within rounds and rollbacks, and
  that while t leads all services of t but one were rolled back. A service by a round in
  `Passing` takes it out of there; a commit makes u lead. The lemmas under it are about the
  operators: the candidate page is sorted by the committed times (`PageIs`), the time of a
  service is later than any stored (`LaterIsLater`), and giving times anew keeps their order
  (`OrderIsKept`). As first stated, without `StillToCome`, the property held in the run and
  was false (section 7).
- **Distribution, ShareBatch, Original** in `Material_proofs` (`DistributionIsSafe`,
  `ShareBatchIsSafe`, `OriginalIsSafe`). All come down to what a run may still believe. In
  `DistributionCore`, `RunsKnow` says of a run, by its place, what its operation is and
  whether something may have been made, `HeldIsLive` that a claim that may expire has
  nobody behind it, and `FailedIsAlone` that an operation that takes the place of a failed
  one is the only one. In `ShareCore`, `TokensAreOpen` ties each claim of a batch to an open
  batch and to messages that can only recover it, so that `ClaimsRecover` holds: no run of
  one operation takes over a member of an open batch; `SendersAlone` says that one run at
  most is about to ask for an operation, that it was not shared before, and that nobody
  is about to deny it meanwhile.
  In `OriginalCore`, `BucketBooks` and `CreatesAlone` say that a Create that may still be sent
  is the first and the only one, because its marker stays in the row until the upload is
  known; `CleanupBooks` that a deletion that was sent has closed the object for good;
  `KeeperBooks` and `OwnerBooks` tie the holders of the two claims to the phase and to
  `send_armed`, and `WorkKnown` what the others may still believe; `PermitBooks` is why no
  PUT can arrive once the room is given back. A validation that has
  its claim has its use too, for what closes the object either waits for the use (the scan
  for abandoned objects) or fences the validation off (a cancellation, which `keeper` tells).
- **SessionRefresh, McpRefresh** in `Refresh_proofs` (`SessionsAreSafe`, `RefreshIsSafe`,
  `AnswersAreFollowed`). For sessions, `RunsWereMade` says that what a run carries was made
  with the credentials of its version, `HolderRenews` that the holder of the claim renews
  what the row says, and `PromisesAreStored` with `TokensAreFresh` that the token in force
  stands for what the applications have, and a future one for nothing yet.
- **RecoveryJob, Admission, FairTurn, ReconcileScan** in `Tasks_proofs` (`RecoveryIsSafe`,
  `AdmissionIsSafe`, `TurnsAreFair`, `ScanIsSafe`). For the turns: whoever is ahead of a
  waiting tenant has not passed it yet, except in a turn whose worker was killed or stalled,
  and each such turn is charged to one fault. For the scan: the total of the pages tells
  the listing now from the one before a change, so all pages that agree come from one of
  them (`OneListing`), and this one had everything that stayed on the listing. `ScanOK` has
  to say that there are finitely many objects, or a listing could not have a length.

Where a proof needs induction (a finite set has a greatest member, a walk over pages ends), it
takes a least counterexample by the well-foundedness of the naturals, in first-order form.
Two modules are written so that the prover can follow: `FairTurn` keeps the Redis list as
the set `ready` with the relation `ahead`, and `SessionRefresh` counts in `Nat`.


Only model-checked are all liveness properties (`ArmedIsSettled`, `UnknownIsConcluded`,
`LinkSettles`, `SessionRenewed`, `AcceptedIsExpanded`, `DraftsSettle`, `EveryRowIsPublished`,
`EveryStepIsTakenUp`, `JobsSettle`), since fairness and ENABLED are out of the prover's
reach. Every invariant and action property that a run checks is proved.

## 7. Where code and documents disagree

1. **The stored status may stay RUNNING** (`unit_stored_status`).
   `finalize_submission` stores a final status only when the submission is
   expanded, and `expand_submission` sets `expanded` without finalizing. When the
   last step finishes before the last page, no task looks again. The same happens
   when a worker is killed between its transaction and `finalize_submission`.
2. **An upload may never be looked up** (`upload_lookup`). A worker that is killed
   after it stored the receipt of an upload by URL (`_receipt`) and before it published
   the video leaves a recovery message that expects the status `sending`, finds
   `verifying` and returns without queueing a lookup
   (`materials/source_url_uploads.py:742-763`), where the comment at line 935 promises
   that the operation goes on.
3. **Expansions may starve ordinary work** (`outbox_starved`). A tenant that a full round
   serves last has one slot; its expansion takes it, its cursor is stamped, and in the next
   round it comes last again. While new expansions arrive its ordinary rows wait, where
   `flush_dispatch` promises (`jobs/outbox.py:183`) that "a second expansion cannot starve
   ordinary work as new requests arrive".

Further observations, made while modelling and not checked by a run of their own:

- *Distribution*: the same pattern as 2 is in `materials/distribution.py:1070-1081`; with
  one file upload, one task and one kill an operation in doubt is never looked up
  (`DoubtIsLookedUp`).
- *Original*: a validation that stalls past its use
  (`materials/object_validation.py:269-281`, `materials/cleanup.py:189-193`) may read an
  object that is deleted under it; what it stores then is refused by its claim. The PUT of a
  browser that is in flight when the upload is aborted may land after the parts were listed
  (`FreedIsGone`; `materials/cleanup.py:203-220`, about 429), so room is given back while a
  part remains; the plan of 2026-09-10
  (`docs/superpowers/plans/2026-09-10-r2-batch-video-upload-plan.md:326`) asks that nothing
  is left. An object whose room was reserved and whose Create was never sent cannot be
  cleaned after a cancellation (`cleanup_abandoned.py`, about 60).
- *Outbox*: a round whose time is earlier than a row's
  `available_at` can lock the tenant's cursor (`jobs/outbox.py:195-202`) and find nothing
  to send there; rounds that find it locked then leave the tenant out and serve others.
  With two rows per tenant and two rounds this can go on: the bound of `BoundedBypass` is
  for rounds that have not come to the tenant.
- *Step*: a create that the transport refuses before the send (no admission, changed
  credentials) is retried on the same attempt without limit (`builds/execution.py:724-731`),
  two facts each; after about 500 retries the proof that nothing was sent is longer than
  `UNSENT_ATTEMPT` reads (`builds/execution_state.py:389,394`), and `claim_step` marks the
  step FAILED, which no retry of a user can change. Nothing was sent.
- *Refresh*: `mcp_auth/refresh.py:79-93` supersedes an attempt by an equal revision,
  where the plan of 2026-09-08 (`...-02-tenants-accounts-plan.md:663`) speaks of newer ones.
- *Recovery*: `builds/recovery.py:112-114` and `:556-560` retry a FAILED step with a saved
  body once it is proved unsent; `docs/contracts/submission-recovery.md:24` requires that
  there is no body. `docs/runbooks/recovery.md:73` describes what the code does.
- *Unit*: with a permission that is lost and given back between two pages of one unit
  (`Restores = TRUE`), a step that the first page put off can be left without a
  message (`builds/dispatch.py:391-404`, `:428`, `:450`) until something else in its unit
  happens. The theorems about lost wake-ups therefore assume that a permission,
  once lost, stays lost.
- *Links*: a line that is over while its write is in doubt keeps the remote scope for
  ever, and other lines wait with `provider_scope_busy`. It need not even know of the write:
  when the credentials are replaced while it decides, `_recover_effect` has taken the effect
  out of the work (`providers/link_steps.py:1128-1130`), the check of the authority rolls
  the decision back (428-429, 558, 980), and the work is stored without it (1033-1042). A
  run that was overtaken by another task may store that its write was refused (695-703); the
  line then knows of a write in doubt of which the effect is not in doubt, and each
  of its units ends with `provider_state_invalid` (1120-1123; `wangyan_steps.py:243-250`), so
  that it never ends. A generate or save in doubt with
  an empty url is never resolved; a create of jiashu that was given up may still land
  after the lookup that proved it absent, which is then the one second request the
  design accepts (`docs/superpowers/plans/2026-09-08-tiktok-03-provider-links-plan.md`,
  272-325).
- *Sessions*: a verification by an administrator that is killed in the middle leaves the
  connection `verifying` until somebody verifies again.
- *Previews*: a FAILED preview of a revision cannot be built again until the draft gets
  another revision.
- *Scan*: two changes of the listing that compensate each other pass unnoticed; the
  property is therefore about one change.

## 8. What is abstracted

- *Step*: `due_at` and backoff counts, evidence that only an auditor reads, the
  replies to busy or early deliveries, the MATERIAL branch, messages of old
  revisions, corrections, and the pages of a read (a read has a result; the pages are
  in `ReconcileScan`).
- *Unit*: several units of a submission, material recovery by RECONCILE,
  corrections, transport backoff counts, two overlapping deliveries of one read.
  RUNNING steps are not told apart by phase. Late receipts belong to `BuildStep`.
  A choice between several groups (the campaign starts when one is ready, and fails
  when all have failed) is covered by the proofs, not by a run.
- *Expansion*: drafts and tenants other than one, payloads and routes that do not
  match, the order in which constraints would fail. The advance of `due_at` and
  `repair_after` is time that may pass at any moment. A page that violates a
  constraint is disabled; the invariant shows that there is none.
- *Outbox*: the ten-page bound of a round, validation of payloads, the answer for a
  key that is in use. A row that was consumed stands for a new one with another key.
- *Drafts, previews*: messages of a generation that has passed (they do nothing), lines
  that are empty, repeated or ambiguous, requests that repeat an edit, the choice of
  the connection, texts. The jobs of others end while the preparation looks at them:
  whatever they do earlier looks the same to it.
- *Links, sessions*: the kinds of errors of a read, of which the model has one for each
  status that a line is left with (`link_steps.py:982-1031`); pages of the search, corrupt
  records, audits of reads; names of applications; the length of pauses.
- *Tasks*: several materials or accounts at once in `Distribution` (the batches of
  `ShareBatch` are what relates them), comparison of identities, previews of an
  original, several generations of it, the arithmetic of the budget, limits of a
  hundred rows per cleanup in the Redis scripts.
- *Everything*: transactions are serial where the code takes a row lock, which all
  modelled ones do; counters are bounded by the constants named `Max...`.

## 9. Not modelled

About a fifth of the implementation's lines are mapped. The rest is, for the largest
part, code with no protocol of its own: request parsing and read-only catalogues of the
HTTP API, the frontend, migrations, construction of request bodies, matching of names and
frames of covers, parsing of directories, benchmark scripts. Components that do have one
and are left out repeat a modelled one: covers and cover sharing are operations like those
of `Distribution` and `ShareBatch`; file uploads of a source are like the upload by URL of
`Original`; scene jobs and capability jobs are claims with a token, a finish under it and a
repair, as in `RecoveryJob`; historical reads decide nothing. `PROJECT.json` names each with
its reason.

Still to do, in this order: capability evidence (`accounts/capabilities.py`: nothing may
be built from a job that did not read everything), covers, the file upload with its byte
ranges; and `StepLife`, the automaton of one step that `UnitDispatch` assumes, as an
abstract specification that `BuildStep` implements.
