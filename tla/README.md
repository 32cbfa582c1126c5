# TLA+ models of egueducation

egueducation is a school administration platform: a Go backend over PostgreSQL
and S3 object storage (`src/backend`), a React client (`src/frontend-react`), the
Angular client it replaces and a signature adapter. Most of it is forms: one
user, one row, one transaction. The models are about the parts where several
actors meet, within milliseconds or over years, and where a mistake loses a
legal record or shows a user something that is not so:

- the **custody of teacher portfolio documents**: how an upload becomes a stored
  version under S3 Object Lock, also when it breaks off; the worker that keeps
  hold and retention in line with all portfolios that refer to the version; and
  the release, which needs two people and a third worker;
- the **registry** ("registratura"): the numbering of documents, their approval
  flow, and the delivery of approved documents to the archive ("eArhiva"),
  where they become searchable;
- the **React client**: the session and permissions of a page, and the two
  workspaces in which most documents and records are written, where requests
  overlap with each other and with what the user does next.

Contents: [inventory](#inventory), [modules](#modules), [runs](#runs),
[fairness](#fairness), [proofs](#proofs), [what the models found](#findings),
[limits](#limits), [not modelled](#not-modelled), [plan](#plan). `PROJECT.json`
maps every definition that models code to its lines.

## Inventory

Backend (`src/backend/internal`):

| part | state | operations | what is hard |
|---|---|---|---|
| portfolio upload (`earchiva/archive_documents.go`, `portfolio_upload.go`, `portfolio_custody_ingestion_intents.go`; form `PortfolioOwnUpload.tsx`) | form and its idempotency key, intents, objects, documents and grants | upload, retry, discover, reserve, PUT, mark, persist | the PUT is outside every transaction; its answer or the handler's may be lost; a retry meets whatever is there |
| custody recovery (`earchiva/portfolio_custody_recovery*.go`) | operations with leases | request, claim, verify, adopt, fail, sweep | races the retry of the teacher |
| storage lifecycle worker (`earchiva/archive_storage_custody_lifecycle.go`) | transitions queue, hold flags of versions, S3 hold and retention | sweep and claim, reconcile, commit evidence, fail, promote at the deadline | replicas without owner checks, S3 writes inside a transaction, shared versions |
| lifecycle commands (`education/portfolio_storage_lifecycle.go`, migration 0163) | portfolios, operations | cessation, legal hold, retry | snapshots of what is referenced at that moment |
| retention disposition (`education/portfolio_retention_disposition.go`, `earchiva/..._worker.go`, migration 0165) | requests, decisions, operations, receipts, expiry events | submit, decide, release, restore, block | the S3 release cannot be rolled back; blockers may appear until the last moment |
| portfolio documents (`education/detail_records.go`) | which portfolio refers to which version | attach, replace | races with a release in progress |
| document workflow (`registratura/parity.go`) | document row, workflow events, outbox | assign, take, send, approve, reject | several users on one document; an editor who overwrites |
| registry documents (`registratura/service.go`, `uploads.go`) | document row, attachments | create, edit, cancel, upload | reads without locks |
| archive outbox worker (`earchiva/registratura_archive_outbox_worker.go`) | outbox rows, S3 copy, archive record | claim, copy, record, report | at-least-once delivery, leases, dead letters |
| extraction worker (`earchiva/archive_worker.go`, `archive_admin.go`) | jobs, record and text status | claim, extract, persist, fail, retry | lost COMMIT, non-atomic failure, leases |
| registry numbering (`registratura/registry.go`, `structure.go`) | number hint, register | reserve, insert, commit, edit a registry | rollback, New Year, stale edits |

React client (`src/frontend-react/src`):

| part | state | operations | what is hard |
|---|---|---|---|
| session (`auth/AuthProvider.tsx`, `oidc-client.ts`) | token, session, permissions on display, one refresh request | start, login, callback, API calls with retry, revalidation every 15 s, logout | every `await` lets another flow, tab or the server in; old answers arrive late |
| registry workspace (`features/registratura/RegistraturaWorkspace.tsx`) | list and its query, dialog, forms, operation | load, open, edit, workflow, cancel, register with attachments | list and detail requests overlap with operations; five requests answered as one |
| education workspace (`features/education/EducationWorkspace.tsx`) | list, debounced filter, dialogs, panel of related records | filter, order, page, save, delete, details | timers that remember old controls, unfenced details, no operation disables the screen |

How they interact. An adopted upload is the version a portfolio document refers
to, on hold from its birth. A lifecycle command inserts an *operation* and one
*transition* per referenced version; the lifecycle worker processes transitions;
a transition whose deadline passed becomes an expired review, on which a
disposition *request* can be made; an approved request is an operation of the
disposition worker. These workers and the document handlers exclude each other
with row locks and one advisory lock per version. In the registry, an approval
writes an outbox row in its own transaction; the outbox worker copies the PDF
and inserts record, version and job; the extraction worker finishes the record.
All queues are tables; a claim is `for update skip locked` with a lease. The
workspaces call the API through the session's `apiFetch`, which may renew the
token, retry, or end the session under them.

### What makes them correct

- An upload is adopted once, with one disposition; what the teacher was told is
  received has a document; what S3 holds for her is adopted in the end.
- No object leaves custody because time passed, a worker crashed or two
  commands crossed; only an independent, unblocked decision releases it, once.
- While any portfolio in activity refers to a version it is on hold; when custody
  ends, it is retained to the last of its references' deadlines.
- An operation reported complete has storage evidence for all its versions.
- A decision on a document answers a request somebody else made; a document is
  archived if and only if it was approved; a reported delivery is real and final.
- Numbers of a prefix and year are consecutive and never given twice.
- A page acts with the token of the session it shows, with that session's
  permissions; a revoked permission leaves the screen.
- A list shows the answer to what its controls ask (in the registry workspace one
  reload breaks this, see [findings](#findings)); what the server confirmed is
  shown; a confirmed registration is not sent again.
- Everything queued settles, and no spinner stays.

The hazards behind these, each at its line, are in `PROJECT.json` under
`hazards`, with the properties that would catch them.

## Modules

| module | models |
|---|---|
| `CustodyAdoption` | abstract: an upload's version is adopted at most once, an operation ends once |
| `CustodyUpload` | form, upload handler, object storage, recovery operations and workers; implements `CustodyAdoption` |
| `RetentionPolicy` | abstract: when the object of a version may be given free, and that retention only grows; no queues, locks or workers |
| `PortfolioLifecycle` | commands, document references, S3 Object Lock state, lifecycle worker |
| `PortfolioDisposition` | extends it with requests, decisions and the disposition worker; its `Next` interleaves both; implements `RetentionPolicy` |
| `RegistraturaFlow` | documents, workflow actions, creation, cancellation, upload, unlocked edit, outbox insert |
| `ArchivePromise` | abstract: a document is approved, stored, recorded; its delivery opens with the approval and ends at most once, truthfully |
| `ArchivePipeline` | extends it with the outbox worker and the extraction worker; implements `ArchivePromise` |
| `NumberRegister` | abstract: a register of unique, consecutive numbers that only grows |
| `RegistryNumbering` | number reservation and the editing of registries; implements `NumberRegister` |
| `WebSession` | token, session and permissions of one page of the React client |
| `WebRegistratura` | list, dialog, registration and operations of the registry workspace |
| `WebEducation` | list, dialogs and panel of related records of an education page |
| `...Proofs` | theorems about `CustodyUpload`, `PortfolioLifecycle`, `PortfolioDisposition`, `ArchivePipeline` (with `RegistraturaFlow`), `RegistryNumbering` and the three `Web` modules |
| `MC...` | constants and symmetry for TLC |

Conventions. A database transaction is one action. It is split where another
actor can act in between: at an S3 call, between statements that commit on
their own, and in `RegistryNumbering` also between the statements of a creation,
because there the row lock and the unique constraint are the subject. Where a
transaction is split, variables say what its locks exclude (`locked`, `RowLocked`).
In the client an action is what runs between two `await`s; a request is a row
that remembers what it was sent for. A worker is a record with a program counter
and what it remembers in local variables; a crash resets it and frees its locks.
Leases and backoffs become "may have run out" (`stale`, `expired`); a counter
that is only compared with a limit stops counting there. Definitions introduced
by a comment "Mutant" are wrong variants of the next definition, used to check
that a property notices the error.

**CustodyUpload.** `form` is the browser form with the key it drew; `request` the
handlers, which outlive a lost answer; `intent`, `document`, `operation` are the
tables, `held` the objects under legal hold and `flying` the PUTs that have left
and may still land (`Lands`) after their handler gave up. `PutAnswered` is
`PutCustodyHeldObject` with its own look at a lost answer (`Rediscover`). A
retry goes through `FindIntent`, `Discover` and `Reserve`, with the refusals of
each. `HandlerFails` answers what the code makes of the failed call: unconfirmed,
but "revoked" when the authority query fails and "conflict" when reading the
details of an adopted document does. `Claim`, `Verify`, `Adopt` and `Fail` are the
recovery worker. A verification may fail for good on an object that is whole,
because a broken or timed-out read is reported as another content
(cause `verification`), and a failed authority query counts as lost authority;
`LeaseExpires` may happen under a busy worker, `Crash` anywhere.

**PortfolioLifecycle.** `trans` is `education_portfolio_storage_transitions`; its
`status`, `error` and evidence columns are kept, provenance columns are not
(triggers make them immutable). `hold`/`retainUntil` are S3; `proj` is the hold
flags of the version row. `LClaim` is `claimTransition` with its sweep,
`LBegin`/`LReconcile`/`LCommit` are `processTransition` around the S3 call,
`LFail`/`LProject` the two statements of `failTransition`. `LStorageFault` leaves any
prefix of the two S3 writes behind. As in the code, nobody compares `locked_by`.
Days are integers; `Deadline` is exclusive. Handlers that change references
(`AttachDocument`, `ReplaceDocument`) are guarded by what the triggers of 0114,
0163 and 0165 demand. Deleting a portfolio document only marks the row and keeps
the reference, so it changes nothing here.

**PortfolioDisposition.** `req` joins request, decision and receipt, `dop` is the
operation with its lease. `DBegin` is everything up to the S3 call, `DRelease`
the call, `DCommit` the receipt and projections. `DRestore` puts the hold of a
blocked request back, as the code does without any lock. `DLoseConnection` and
`DReleaseUnfenced` are the death of the database session while the S3 call goes
on; `ConnectionLoss` switches them on.

**RegistraturaFlow.** `doc` has the workflow columns; `events` is the event table,
which keeps of each event what the properties ask for. `Apply` is the part every
action shares (lockout, transition table, event, version). Every action is taken
by a user who saw the current version, because others are refused
(`stale_workflow_version`). `EditorLoad` and `EditorStore` are `UpdateDocument`,
which compares no version.

**ArchivePipeline.** Each statement or S3 call of the outbox worker is a step;
`OFault` is a failed call, with or without its effect. In the extraction worker
`IFail`, `IFailRecord` and `IFailText` are the three statements of `failJob`.
`SlowWorkers` says whether an extraction may outlive its 90-minute lease, which
nothing prevents and nothing fences; `Overtaken` is that situation. Outbox workers
may always outlive theirs.

**RegistryNumbering.** A number is prefix, year and index. `Usable` is the hint
check, `AfterLast` the scan over the year's documents. Uncommitted inserts are
kept in `clerk` and become visible with `Commit`. `Prefix` need not be injective
(the schema allows it, and the React form creates every registry as `REG`),
`Start` is `nr_inceput`, and an editor who saves may supply a hint of his own or
write back the one he was shown.

**WebSession.** `flow` holds the asynchronous functions of `AuthProvider` with the
`await` each stands at. A session is told apart by its token and by the flow that
validated it, since the code compares objects. `revision` counts the changes of
the user's delegations at the server; a snapshot of grants remembers the revision
it was evaluated at. Any refresh may be refused or bring another user's token,
because the cookie belongs to all tabs.

**WebRegistratura, WebEducation.** Of a document or of the records only the number
of writes is kept (`revision`), and of a request what it asked for and what it
had seen. `newestLoad`/`newest` are the request sequences. `op` or `writes` are
the operations under way with the document or parent they were started for.
`RequestSequence` fences are definitions of their own (`CurrentLoad`,
`CurrentDetail`), where the code has them; where it has none (details and panel of
the education page), any answer is taken.

## Runs

| run | question | instance |
|---|---|---|
| `custody_upload` | one adoption whatever breaks off, and everything held is adopted; the refinement | 1 key, 2 requests, 2 workers, 1 operation, 1 attempt |
| `lifecycle_replicas` | custody safety with replicas on shared versions, with faults | 2 portfolios, 2 versions, 2 workers, 1 command, 2 attempts, 1 fault (3,218,858 states) |
| `disposition` | safety of the release | 2 portfolios, 1 version, 1 + 2 workers, 2 commands, 2 requests, 1 fault (922,146 states) |
| `disposition_liveness` | everything queued settles, a legal hold reaches S3 | 1 portfolio, 1 version, 1 + 1 workers, 1 fault, session loss |
| `archive_pipeline` | from creation to the searchable record | 1 document, 2 users, 1 editor, 2 + 2 workers, 2 attempts, 1 fault |
| `numbering` | consecutive and unique numbers, whatever hints say | 3 registries, two of them with one prefix and one that starts at 2, 2 clerks, 1 edit, supplied hints, batches of 2, 2 years, 3 documents |
| `web_session` | token, session and permissions belong together and settle | 1 call, 2 revalidations, 2 tokens, 1 change of delegations |
| `web_registratura` | overlapping lists, details and operations, and the controls they are asked with | 2 documents, 2 queries, 2 + 2 requests, 2 writes each, 3 acts of the user |
| `web_education` | filter timers, overlapping lists, saves and the panel | 1 record, 2 relations, 2 filters, 2 orders, 2 pages, 2 + 1 + 2 requests, 1 save, 3 acts |
| `upload_conflict`, `web_wrong_form`, `education_wrong_parent` | one statement of the repository each, which the code does not keep | as small as shows it |

More configurations are kept beside the runs and are checked with
`tlc -config X.cfg M.tla`. Two hold:

- `archive_overtaken` (`MCArchivePipeline`): `ReadyUnlessOvertaken` where
  extractions may outlive their leases, with 2 extraction workers and 2 faults;
- `custody_promise` (`MCCustodyUpload`): `KeepsCustodyPromise` with a second
  attempt, so that a transient failure is retried.

The others each state one claim of the repository that the code does not keep, and
TLC finds it violated: `promotion`, `late_cessation` (`MCPortfolioLifecycle`),
`lost_session`, `blocked_restore` (`MCPortfolioDisposition`), `lost_cancellation`,
`rejected_dead_end` (`MCRegistraturaFlow`), `stale_registry`, `shared_prefix`
(`MCRegistryNumbering`), `upload_dead_end`, `timed_out_read` (`MCCustodyUpload`),
`web_unmount` (`MCWebSession`), `web_stale_list` (`MCWebRegistratura`),
`education_stale_order` (`MCWebEducation`). `blocked_restore` takes a few minutes,
the others seconds.

Why the bounds suffice. Two portfolios on one version are the smallest case in
which references disagree, two versions the smallest in which an operation is
partly done. Two commands allow a legal hold after a cessation, a hold and its
removal, and cessations of both portfolios. Two workers of a kind are needed for
a lease to be taken over; nothing in the code relates three. With
`MaxAttempts = 2` there is a first, a retried and a last attempt; production has 5.
One fault puts a crash or a failed call at every step. Two requests let a second
follow a blocked first, or overlap with it on another transition. `MaxVersion = 5`
is just enough to create, assign, take, send, and decide; the rejection limit is 1
there, because a second rejection is out of reach of the code
(`rejected_dead_end`). Two years have one New Year. Of three registries one has its
prefix for itself and two share one, the two cases the schema allows. One key is one upload: nothing
in the code relates the rows of two keys; two requests on it are a retry beside
the request it follows, two workers one that lost its lease and its successor. One
attempt sends a transient failure to the dead letter; `custody_promise` has two.
Two requests of a kind are what the clients' fences tell apart. In the web models
acts of the user are counted together, so that three acts are, say, a filter, a
save and a page. Symmetry (workers, portfolios) is used in safety runs only.

Larger instances were checked once and are too long for a routine run: the
lifecycle with two commands and three days on one version; the disposition with
`MaxFaults = 2` and `MaxRequests = 1` (907,047 states: the release survives the
failure of its own repair), and with one portfolio, `MaxOps = 3` and
`MaxFaults = 1` (6,453,186); `web_education` with more acts and requests
(12,910,016).

Deadlock checking is off where bounded commands, days, versions, documents and
acts run out; it is on in `custody_upload`, whose behaviours go on for ever. That
nothing stays queued is what the liveness properties say.

What they check (each module's type invariant is proved, see [proofs](#proofs),
which leaves the runs to the properties below):

- `ReceivedIsAdopted`, `AdoptedAsDisposed`: whoever adopts an upload, the teacher's
  retry or a recovery, document, intent and object agree. `LostProvenanceWasAdopted`:
  an operation that ends over a lost lease or intent lost it to an adoption; what
  else ends one for good, lost authority and a failed verification, is told apart.
  `ConflictIsAdopted`: a form that is told its data differ has lost nothing.
  `KeepsCustodyPromise`: the protocol implements `CustodyAdoption`, with its
  liveness. `HeldFileIsAdopted`: a file whose upload was marked stored is adopted.
- `TimeNeverReleases`, `ActiveReferencesInCustody`, `RetentionCoversReferences`,
  `AggregateIsCurrent`: custody follows the references, whatever crosses; the
  aggregate a worker read before its S3 calls is not stale when it commits.
- `CompletionIsVerified`: a completed operation has evidence that S3 still keeps.
- `HoldOffNeedsDisposition`, `ProtectedProjectionIsHeld`, `ConsumedByOneReceipt`,
  `ReleaseIsUnblocked`: release only by an approved, unblocked, single disposition
  after the deadline, with storage and database in agreement except while an
  operation is between its call and its receipt. `KeepsRetentionPolicy`: the two
  workers, their queues and fences implement `RetentionPolicy`, in which an object
  is given free at one instant at which nobody who references it objects.
- `TransitionsSettle`, `ApprovalsConverge`, `LegalHoldIsRestored`: liveness.
- `FourEyes`: who may decide.
- `KeepsArchivePromise`, `ReadyUnlessOvertaken`, `ApprovalSettles`: flow, outbox and
  archive implement `ArchivePromise` across duplicates, lost answers and crashes:
  nothing is stored that was not approved, nothing reported that is not recorded,
  no delivery ends twice. A job that succeeded stands for a ready record until an
  extraction is overtaken. An approval ends in a searchable record or in a failure
  an operator sees.
- `NumbersConsecutive`: no gap after any rollback, across New Year, from the numbers
  somebody chose on (the start of a registry, a supplied hint).
  `UneditedNumberIsFree`: no number is reserved twice in a registry that has its
  prefix for itself and was not edited. `KeepsNumberRegister`: hints, locks and
  transactions implement `NumberRegister`; a stale form or a shared prefix makes
  creations fail, it does not damage the register.
- `GrantsOfDisplayedSession`, `SessionHasItsToken`, `RevalidationsNeverRegress`: no
  late answer mixes users, tokens and permissions. `PageBecomesReady`,
  `AuthorizationSettles`, `RevocationReachesScreen`: the page does not wait for
  ever, and a revoked permission goes although one stale answer is not fenced.
- `RowsFollowControls`, `SavedIsShown`, `RegisteredOnce`, `ScreenSettles` and
  `ListShowsControls`, `SavedIsListed`, `FilterIsApplied`, `EducationSettles`: the
  two workspaces show what was asked for and what was saved, and settle.
  `RowsFollowControls` compares the rows with the controls, in every life of the
  screen in which no query is changed during an operation; `web_stale_list` shows
  what happens in the others.

Each property has a mutant: a definition with a plausible error under which TLC
finds the property violated.

## Fairness

Started workers poll for ever (`Start` and `run` of each; started in
`src/backend/cmd/server/main.go:928-934`), so a worker's next step is fair. In the
custody models it is strongly fair, because a step may be blocked again and
again by row locks, which PostgreSQL grants in the order of the waiters. A claim
takes the oldest `available_at`, so a queued row is not passed over for ever:
strong fairness per row. Leases age by themselves: weak fairness. Commands,
users, operators, time and faults are not fair. `disposition_liveness` has one
disposition worker, since with two the model could let the lease of a live worker
run out for ever, while the code bounds a call by less than its lease.

`CustodyUpload` says the same of its workers (`WorkersFair`), and that a lease
stops expiring under a busy worker: an object is read within 30 seconds, the
lease is five minutes. Crashes go on being possible but not for ever at the same
worker. `TeacherFair`, for what the form promises, is a teacher who tries again
as long as the form lets her and handlers that stop failing.

In the client an answer or a failure of every request arrives (`fetch` ends), and
timers fire: weak fairness per request. `web_session` also needs that the page is
not loaded anew for ever, that the background revalidation runs (`setInterval`),
and that the newest revalidation is answered before the next begins infinitely
often (strong fairness): with answers slower than 15 seconds for ever, each would
be outdated by the next one. Users, other users, logins and expiring tokens are
not fair.

## Proofs

TLC checks the instances above; TLAPS proves the following for every set of
keys, requests, workers, portfolios, versions, documents, users, records and
queries and every value of the bounds, under the `ASSUME`s of the modules (null
values are not members, bounds are positive, initial references are portfolios,
creation asks for known statuses).

`CustodyUploadProofs`: `UploadTypes`, `KeysIdentifyData`,
`ReceivedUploadsAreAdopted`, `AdoptionsAgree`, `LostProvenanceIsAdoption`,
`CustodyPromiseIsKept`. Its `Inv` says what each handler may rely on (`RequestInv`:
it works for the data its key was drawn for; what it is about to mark stored is
held), what the tables say of each other (`StoreInv`), and that an operation has a
stored upload and a worker that lost its provenance lost it to an adoption
(`RecoveryInv`). The refinement is proved step by step: every action of upload or
recovery maps to an action of `CustodyAdoption` or to a stutter.
`ConflictsAreAdopted` bounds what `upload_conflict` shows: whenever the form says
that its data differ, its upload is adopted with the very data the form shows. The
message is never true, and nothing is lost by it. Two things cause it: an adoption
by a recovery, and a read of the document's details that fails.

`PortfolioLifecycleProofs`: `LifecycleTypeCorrect`, `HoldSurvivesTime`,
`ActiveReferencesStayInCustody`, `RetentionOutlivesReferences`,
`AggregateStaysCurrent`, `CompletionsAreVerified`. The properties are not inductive one by one: a commit
writes what the worker read before the S3 call, so it keeps them only if that is
still current. `CustodyInv` is their conjunction with the types and `Targeted`
(a busy worker has a transition). The argument: `LBegin` reads the aggregate under
locks that stop every command and document edit of the version
(`CustodyEdit`, `OtherWorkers`), so `AggregateIsCurrent` holds until the locks go;
a reference implies that the hold is desired (`ReferencedIsHeld`), so the S3
write keeps the hold; the extension covers the latest deadline
(`ExtensionCovers`), so the projection may give custody up. `CustodyInv` says
nothing of the S3 hold itself, so that it stays inductive beside the worker that
takes holds off; `HoldSurvivesTime` is proved of the lifecycle alone.
`CompletionsAreVerified` needs history: `EvidenceInv` says that a completed row is
verified, that its evidence covers the row's deadline, and that this deadline is
still the deadline of a portfolio that refers to the version. The last part is why
`ExtensionCovers` is enough: only portfolios without a deadline replace documents,
so the portfolio a row was made for stays among the version's references.

`PortfolioDispositionProofs`: `DispositionTypeCorrect`, `ReleaseStaysUnblocked`,
`ConsumedOnce`, `HoldOffIsDisposed`, `ProtectionIsHeld`. `DispositionInv` is `CustodyInv` and the
types, what rows of requests, operations and attempts say of each other
(`Recorded`, `Requested`, `Attempted`), and `ReleasesAreFenced`: between its last
check and its receipt a worker has the version to itself, still owns its lease,
and what it checked is still true. It holds because everything that could falsify
a check needs the version unlocked or turns the hold on first, and because a
lease cannot be swept while the operation's row is locked. Its step is proved
twice: for steps of the lifecycle (`DispositionLifecycle`) and of the disposition
(`OwnStep`). `Receipts` adds that an expiry event is consumed by one released
request; `HoldOffIsDisposed` uses both that a hold is taken off only by a fenced
release after the deadline and that retention never shrinks. `ProtectionIsHeld`
is proved for `ConnectionLoss = FALSE`; with a lost session it is false, as
`lost_session` shows. `HeldInv` names the operation that accounts for a missing
hold: it was attempted, is open, and whoever has its lease can no longer close it
as blocked without turning the hold on (`Responsible`); a lifecycle worker commits
protection only for a version it has just verified on hold. `ActiveReferencesAreHeld`
follows, because an active reference implies that custody is projected. Its exception
is real (TLC finds it with two versions): when a portfolio moved its document away,
the projection still says custody; a release whose S3 answer was lost may then meet
a new reference before its retry restores the hold.

`RetentionPolicyIsKept` (`ConnectionLoss = FALSE` again, for the reason
`lost_session` shows) is the refinement of `RetentionPolicy`. Approval, check, S3
call and receipt are spread over two users and a worker, but only the call is a
step of the policy; `ReleaseIsAllowed` shows that the policy's guard holds at that
step, from `ReleasesAreFenced`: what was checked before the call is still so.
`StorageProtects` maps the S3 writes of the lifecycle worker, each failed prefix of
them included, to an extension and a hold; everything else is a command of the
policy or a stutter (`CommandsKeepPolicy`, `LifecycleKeepsPolicy`,
`DispositionKeepsPolicy`).

`ReceiptsAreTrueButForRestores` bounds what `blocked_restore` shows. A receipt says
that the object is released; `ReceiptInv` proves, with no assumption on sessions,
that an object on hold at its receipt has another request of the same version
that came to a second attempt, the only state in which a worker restores a hold
without the fence (`OnByRestore`). There is no second cause.

`ArchivePipelineProofs` begins with the flow: `FlowTypeCorrect`,
`DecisionsHaveFourEyes`, `SendersHadTheDocument`, `OutboxTellsApprovals`. `FourEyes`
speaks of history, the guards of the code of two columns; `HistoryInv` links them:
a target approver is the user of the last request, which nothing closed and which
somebody else made, and an assignee is the user of the last take, which nothing
followed. `PastStays`, `FutureStays` and `FutureOpens` say what an appended event
does to such statements, and `HistoryGrows` is the step of the invariant. The
unlocked edit keeps it, because it writes neither column. For the pipeline
(`PipelineTypesHold`, `DeliveriesAreArchived`, `PipelineKeepsFourEyes`,
`DeliveriesAreFinal`, `SucceededJobsAreReady`), `PipelineInv` adds `ArchiveInv`: what
a worker has passed is already in storage or in the archive (`OWorkerOK`,
`IWorkerOK`), and nothing that was archived is taken back (`Grows`).
`SucceededJobsAreReady` is about every timing of the leases: as long as no extraction
is overtaken (`InTime`), only one worker has a job (`SoleInv`), and then a succeeded
job has its ready record. `ArchivePromiseIsKept` is the refinement of `ArchivePromise`,
for fast and slow workers: `Sight` says which rows the promise sees of a document,
so that a step shows what it does there and nothing of the other documents
(`SightStays`), and `PromiseInv` adds that what is in
storage is known to the outbox, hence approved. `OnlyEditsReopen` and
`CancellationHoldsUntilEdited` bound what `lost_cancellation` shows: a final status
is left only by an `UpdateDocument` that read the document before, and until the
first edit is stored every cancellation is final.

`RegistryNumberingProofs`: `NumberingTypesHold`, `NumbersHaveNoGap`,
`ReservedNumbersAreFree`. `NumberingInv` says that the committed numbers are dense
from the chosen ones on and that every hint, in the registry, in an open edit or in a transaction,
continues them or lies within them, so that the scan ends at the first free
number; it needs no assumption on prefixes. Nor does `NumberRegisterIsKept`, the
refinement of `NumberRegister`: `OpenInv` adds that the numbers of an open
transaction are in no other one and not committed, which is what the unique
constraint gives, so that each `Commit` enters a batch the register accepts and
all other steps are stutters, stale edits included. `FreeInv` says that an unedited
hint is ahead of the numbers of its own registry and that a lock has one holder; a
registry that has its prefix for itself (`Alone`) needs no more, whatever the
others share. For registries with one prefix the property is false, which is the
finding `shared_prefix`.

`WebSessionProofs`: `WebSessionTypes`, `TokenOfSession`, `GrantsOfSession`,
`RevalidationsOnlyAdvance`. The invariant says of each flow what it carries
(`RowOK`: the session it evaluates for is the one of its token) and that the newest
revalidation, once evaluated, is at least as recent as what is on display
(`NewestIsAhead`). `OnlyCallsUnmount` bounds what `web_unmount` shows: on a page of
the application only a call that brings a new token takes the workspace away from
a user who stays signed in; the start of the page and the return from the identity
provider have ended by then (`StartInv`). `WebRegistraturaProofs`: `WebRegistraturaTypes`,
`OnlyOperationsBringStaleRows`, `ConfirmedIsShown`, `RegistrationIsSentOnce`; an answer
that may still be shown was read after the last confirmed write, or an operation
that asks again is under way (`DialogInv`). `OnlyOperationsBringStaleRows` bounds what
`web_stale_list` shows: the newest request asks for what the controls show, except
when it is the reload of an operation under way while they changed
(`AskedByControls`). `OnlyFailedLoadsMisplace` bounds what
`web_wrong_form` shows: a foreign form is saved only while the dialog shows that
loading failed. A workflow action hides that error until it ends, and no other
operation can start meanwhile (`FormInv`). `WebEducationProofs`:
`WebEducationTypes`, `ListAgreesWithControls`, `SavedRecordsAreListed`, from the
invariant that the newest request is for the displayed page and size, and for the
displayed filter unless its timer runs (`NewestDecides`). Two theorems name the one
behaviour behind each of its findings, as a hypothesis on the whole execution:
without details of another record under way while a form of the panel is open
(`NoLateDetail`), `LateDetailsAloneMisplace` has every related record saved where
its form was opened; without a change of order while a filter's timer runs
(`NoLateTimer`), `LateTimersAloneMisorder` has every settled list in the displayed
order. The page keeps neither, so they say what a repair has to establish.

Every invariant and every action property of the runs is stated by a theorem, and
so is the safety part of each refinement. Only model-checked: all liveness
properties, the liveness part of `KeepsCustodyPromise` included. Liveness
under fairness, `ENABLED`, induction over data and recursive operators are
outside what the installed provers can do; no module uses recursive operators.

## Findings

The models met these disagreements between the code and what the repository says
of it. Source lines and quotations are in `PROJECT.json`.

1. `promotion`: a verified transition that is promoted at its deadline while a
   legal hold or a younger reference still counts is processed again, and the
   trigger that makes verification evidence immutable refuses it. It ends as a
   dead letter, not in a review.
2. `late_cessation`: a cessation recorded after its deadline blocks as expired
   review but never gets the expiry event a disposition request needs.
3. `lost_session`: the fence of a release is a database session. If it dies during
   the S3 call, the call can take effect after another worker has closed the
   operation as blocked, and an object the database protects is without hold.
4. `blocked_restore`: the worker that closes a request as blocked puts the hold
   back without any fence; with two requests on one version it does so between
   another worker's verified hold-off and its receipt, which then is not true. The
   error is on the safe side: an object is on hold that is reported released.
5. `lost_cancellation`: an edit opened before a cancellation and saved after it
   brings the document back.
6. `rejected_dead_end`: sending clears the assignee and rejecting does not restore
   it, so a rejected document can only be cancelled.
7. `stale_registry`: saving a registry puts back the next number the form was
   opened with; the next creation fails on the unique number, rolls the hint
   back with it, and so does every later one.
8. `upload_conflict`: after a recovery adopted an upload, its retry with the same
   file is told that the data differ; so is a retry whose document is there but
   whose details could not be read.
9. `upload_dead_end`: an upload whose PUT never landed can never be retried, while
   the form says "retry with the same file", and no recovery lists it.
10. `web_wrong_form`: when the details of a document fail to load, the edit form
    still holds the document before, and saving sends it to the new one.
11. `education_wrong_parent`: late details of another record move an open form of
    the related records to that record.
12. `web_unmount`: every token renewal resets `authorizationReady`, and the route
    guards unmount the active workspace with what was typed, which a comment says
    must not happen.
13. `education_stale_order`: a filter's timer asks with the order of the render in
    which it was typed, so a newer choice of order is undone.
14. `shared_prefix`: nothing makes prefixes unique and the React form creates every
    registry with `REG`; two such registries reserve the same number, and the second
    can create nothing until an administrator supplies another hint.
15. `timed_out_read`: a recovery whose read of the held object breaks off or takes
    30 seconds is blocked for good, while a comment calls such a read retryable.
16. `web_stale_list`: the reload at the end of an operation asks with the query the
    operation was started on, so a registry or filter chosen meanwhile ends above
    the rows of the former one.

## Limits

- S3 is atomic per call; Object Lock COMPLIANCE retention is taken to do what it
  promises. Times are days or "may have run out".
- One tenant. Row level security, permissions and request validation are left
  out; guards that depend on the state are kept.
- Lock waits inside a transaction are steps that are not enabled; a cycle of lock
  waits (legal-hold command against disposition worker) is listed as a hazard,
  PostgreSQL breaks it by aborting one side.
- An extraction that outlives its lease is not fenced in the code; with
  `SlowWorkers = TRUE` `SucceededIsReady` and `ApprovalSettles` fail in the model.
  `ReadyUnlessOvertaken` is proved for both values and checked for both
  (`archive_pipeline`, `archive_overtaken`); `ApprovalSettles` is checked for
  extractions that end in time.
- `RegistryNumbering` takes prefixes without a hyphen and one clock for application
  and database; the code enforces neither.
- `PortfolioLifecycle` starts with versions that are on hold and referenced, which
  is how `CustodyUpload` leaves them; the two are not composed.
- A portfolio that is withdrawn without a cessation keeps its versions in custody
  for ever; the models allow it and no property forbids it.
- The web models have one page. Other tabs are other users' writes and refreshes
  that may be refused at any time.

## Not modelled

`PROJECT.json` lists every component with its reason. In the backend these are
records that one person edits at a time in one transaction (education records,
school operations, GDPR register, nomenclature), text recognition, identity,
admission, reference data, the signature adapter and start-up code.

Most of the TypeScript is not behaviour a model could have: 37,700 lines are
types generated from the OpenAPI contract (`api/generated.ts`), and most of the
rest is JSX layout, labels and field configuration (`education-config.ts`, the
tables of `EducationWorkspace.tsx`, the wizards). The Angular client in
`src/frontend` is being replaced; the server refuses its tokens
(`src/docs/react-frontend-architecture.md:164-172`), so none of its secured screens
works against this backend. Of the React client's own behaviour these are left
out: the recovery panel and the lifecycle status, which poll one operation; the
wizards and `WorkflowWorkspace`, forms whose state is one request long; the cards
for links and the administration dialog of the registry workspace. The map
therefore covers a small share of the TypeScript lines: those that handle
requests, timers, tokens and forms in the four files it models.

## Plan

Done: custody from upload to release, the registry flow, pipeline and numbering,
each with its proofs and an abstract specification it implements; the session and
the two main workspaces of the client with their proofs. Next, in this order:

1. The composition of `CustodyUpload` and `PortfolioLifecycle`, whose initial state
   it supplies.
2. The recovery panel and lifecycle status of the client against
   `CustodyUpload` and `PortfolioLifecycle`: what a polling screen reports.
3. `AdmissionDecisions`: decisions, appeals and prepared documents
   (`admission/decisions.go`, `appeals.go`, `legal_preparations.go`).
4. One-time use of codes and refresh tokens and key rotation (`auth`), against
   `WebSession`.
