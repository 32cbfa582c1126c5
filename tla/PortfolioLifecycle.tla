------------------------- MODULE PortfolioLifecycle -------------------------
(***************************************************************************)
(* Custody of portfolio documents: the portfolios and their lifecycle      *)
(* commands, the durable queue of storage transitions, the S3 Object Lock  *)
(* state of each archived version, and PortfolioStorageLifecycleWorker,    *)
(* which reconciles the second with the first.                             *)
(*                                                                         *)
(* A database transaction is one action unless it waits for S3: then it is *)
(* split at the storage call, and "locked" keeps what its FOR UPDATE and   *)
(* advisory locks exclude.  Time is a day counter; a lease or a backoff is *)
(* abstracted to "may have run out".                                       *)
(***************************************************************************)
EXTENDS Integers, FiniteSets

CONSTANTS
    Portfolios,   \* education_portfolios rows
    Versions,     \* archive_document_versions rows, one S3 VersionId each
    InitRefs,     \* the education_portfolio_documents rows at the start
    LWorkers,     \* replicas of the lifecycle worker
    NoPortfolio,  \* owner of an operation slot not used yet
    MaxOps,       \* bound: lifecycle commands accepted
    MaxAttempts,  \* worker setting, 5 in production
    Retention,    \* from cessation to the exclusive deadline (three years)
    MaxTime,      \* bound: last day of the calendar
    MaxFaults     \* bound: crashes and failed S3 or database calls

ASSUME ConstantsAssumption ==
    /\ NoPortfolio \notin Portfolios
    /\ InitRefs \in [Versions -> SUBSET Portfolios]
    /\ MaxOps \in Nat \ {0}
    /\ MaxAttempts \in Nat \ {0}
    /\ Retention \in Nat \ {0}
    /\ MaxTime \in Nat
    /\ MaxFaults \in Nat

VARIABLES
    now,         \* today
    ceasedOn,    \* activity_ceased_on of each portfolio
    legalHold,   \* legal_hold_active of each portfolio
    refs,        \* portfolios whose documents reference a version
    hold,        \* S3: the Object Lock legal hold of a version is ON
    retainUntil, \* S3: COMPLIANCE RetainUntilDate
    proj,        \* the three hold flags of archive_document_versions
    op,          \* education_portfolio_lifecycle_operations
    nextOp,      \* the next unused operation
    trans,       \* education_portfolio_storage_transitions
    expiry,      \* education_portfolio_retention_expiry_events
    locked,      \* a version and its references are locked by a worker
    lw,          \* the lifecycle workers
    faults       \* faults still allowed

portfolioVars == <<ceasedOn, legalHold, refs>>
storageVars   == <<hold, retainUntil>>
queueVars     == <<op, nextOp, trans, expiry>>
lifecycleVars == <<now, portfolioVars, storageVars, proj, queueVars, locked, lw, faults>>

-----------------------------------------------------------------------------
(* Rows and their types.                                                   *)

NoDate == -1                    \* SQL null; earlier than every date
Date   == Nat \cup {NoDate}
Ops    == 1 .. MaxOps
Trans  == Ops \X Versions       \* unique(operation_id, archive_version_id)

TransStatus == {"none", "pending", "processing", "completed", "blocked", "dead_letter"}
Permanent   == {"expired_review", "reference_missing", "provenance_missing"}
TransError  == {"", "retry", "lease_expired", "review_due"} \cup Permanent

TransRow == [status : TransStatus, error : TransError, required : Date,
             attempts : 0 .. MaxAttempts, stale : BOOLEAN,
             verified : BOOLEAN, obsHold : BOOLEAN, obsUntil : Date]
OpRow    == [kind : {"none", "cessation", "legal_hold"},
             portfolio : Portfolios \cup {NoPortfolio},
             want : BOOLEAN, status : TransStatus]
ProjRow  == [custody : BOOLEAN, legal : BOOLEAN, disposition : BOOLEAN]

NoTrans == [status |-> "none", error |-> "", required |-> NoDate, attempts |-> 0,
            stale |-> FALSE, verified |-> FALSE, obsHold |-> FALSE, obsUntil |-> NoDate]
NoOp    == [kind |-> "none", portfolio |-> NoPortfolio, want |-> FALSE, status |-> "none"]

NoTarget == << >>
\* want: the aggregate over the references, read before the storage call.
WantRow    == [custody : BOOLEAN, legal : BOOLEAN, due : Date]
LWorkerRow == [pc : {"idle", "claimed", "storing", "verified", "failing", "projecting"},
               t : Trans \cup {NoTarget}, attempts : 0 .. MaxAttempts,
               code : {"", "retry"} \cup Permanent, want : WantRow]
NoWant      == [custody |-> FALSE, legal |-> FALSE, due |-> NoDate]
IdleLWorker == [pc |-> "idle", t |-> NoTarget, attempts |-> 0, code |-> "", want |-> NoWant]

LifecycleTypeOK ==
    /\ now \in Nat
    /\ ceasedOn \in [Portfolios -> Date]
    /\ legalHold \in [Portfolios -> BOOLEAN]
    /\ refs \in [Versions -> SUBSET Portfolios]
    /\ hold \in [Versions -> BOOLEAN]
    /\ retainUntil \in [Versions -> Date]
    /\ proj \in [Versions -> ProjRow]
    /\ op \in [Ops -> OpRow]
    /\ nextOp \in 1 .. MaxOps + 1
    /\ trans \in [Trans -> TransRow]
    /\ expiry \in [Trans -> {"none", "open", "consumed"}]
    /\ locked \in [Versions -> BOOLEAN]
    /\ lw \in [LWorkers -> LWorkerRow]
    /\ faults \in 0 .. MaxFaults

-----------------------------------------------------------------------------
(* What the referencing portfolios require of a version.                   *)

\* retention_until + 1 day: the first day on which the record may be disposed of.
Deadline(p) == IF ceasedOn[p] = NoDate THEN NoDate ELSE ceasedOn[p] + Retention

CustodyRequired(v)   == \E p \in refs[v] : ceasedOn[p] = NoDate
LegalHoldRequired(v) == \E p \in refs[v] : legalHold[p]

Deadlines(v) == {NoDate} \cup {Deadline(p) : p \in refs[v]}
\* due is requiredRetention, the latest deadline over all references.
RequiredRetention(v, due) ==
    /\ due \in Deadlines(v)
    /\ \A d \in Deadlines(v) : d =< due

Aggregate(v, due) == [custody |-> CustodyRequired(v), legal |-> LegalHoldRequired(v),
                      due |-> due]

\* Mutant: the retention deadline alone no longer keeps the hold.
DesiredHoldWithoutDeadline(want) == want.custody \/ want.legal
DesiredHold(want) == want.custody \/ want.legal \/ want.due # NoDate

\* The deadline passed and nothing but the disposition hold remains: the worker
\* must not touch storage.
ReviewRequired(want) ==
    /\ ~want.custody
    /\ ~want.legal
    /\ want.due # NoDate
    /\ want.due =< now

Unlocked(p) == \A v \in Versions : p \in refs[v] => ~locked[v]

-----------------------------------------------------------------------------
LifecycleInit ==
    /\ now = 0
    /\ ceasedOn = [p \in Portfolios |-> NoDate]
    /\ legalHold = [p \in Portfolios |-> FALSE]
    /\ refs = InitRefs
    /\ hold = [v \in Versions |-> TRUE]          \* held since its upload intent
    /\ retainUntil = [v \in Versions |-> NoDate]
    /\ proj = [v \in Versions |-> [custody |-> TRUE, legal |-> FALSE, disposition |-> FALSE]]
    /\ op = [o \in Ops |-> NoOp]
    /\ nextOp = 1
    /\ trans = [t \in Trans |-> NoTrans]
    /\ expiry = [t \in Trans |-> "none"]
    /\ locked = [v \in Versions |-> FALSE]
    /\ lw = [w \in LWorkers |-> IdleLWorker]
    /\ faults = MaxFaults

-----------------------------------------------------------------------------
(* Lifecycle commands (HTTP handlers, one transaction each).               *)

\* createPortfolioLifecycleOperation: the operation and one transition per
\* referenced version, with the owning portfolio's own deadline.
NewOperation(p, kind, want, due) ==
    /\ nextOp \in Ops
    /\ nextOp' = nextOp + 1
    /\ op' = [op EXCEPT ![nextOp] =
                [kind |-> kind, portfolio |-> p, want |-> want,
                 status |-> IF \E v \in Versions : p \in refs[v] THEN "pending" ELSE "completed"]]
    /\ trans' = [t \in Trans |->
                   IF t[1] = nextOp /\ p \in refs[t[2]]
                   THEN [NoTrans EXCEPT !.status = "pending", !.required = due]
                   ELSE trans[t]]

\* RecordPortfolioActivityCessation: the date may lie in the past, never ahead.
RecordCessation(p, day) ==
    /\ Unlocked(p)
    /\ ceasedOn[p] = NoDate
    /\ day =< now
    /\ ceasedOn' = [ceasedOn EXCEPT ![p] = day]
    /\ NewOperation(p, "cessation", FALSE, day + Retention)
    /\ UNCHANGED <<now, legalHold, refs, storageVars, proj, expiry, locked, lw, faults>>

\* SetPortfolioLegalHold: a repeated command with a new reason is a new operation.
SetLegalHold(p, want) ==
    /\ Unlocked(p)
    /\ legalHold' = [legalHold EXCEPT ![p] = want]
    /\ NewOperation(p, "legal_hold", want, Deadline(p))
    /\ UNCHANGED <<now, ceasedOn, refs, storageVars, proj, expiry, locked, lw, faults>>

\* RetryPortfolioLifecycleOperation: restarts blocked and dead-lettered
\* transitions, and refuses the whole operation when one awaits a disposition.
RetryOperation(o) ==
    LET targets == {t \in Trans : t[1] = o /\ trans[t].status \in {"blocked", "dead_letter"}} IN
    /\ targets # {}
    /\ \A t \in targets : trans[t].error # "expired_review"
    /\ trans' = [t \in Trans |->
                   IF t \in targets
                   THEN [trans[t] EXCEPT !.status = "pending", !.attempts = 0, !.error = ""]
                   ELSE trans[t]]
    /\ op' = [op EXCEPT ![o].status = "pending"]
    /\ UNCHANGED <<now, portfolioVars, storageVars, proj, nextOp, expiry, locked, lw, faults>>

\* Editing the documents of a portfolio: 0114, 0163 and 0165 refuse it for a
\* ceased or legally held portfolio and for a version without custody hold, and
\* take the portfolio's row lock and the version's release fence.
\* Mutant: without the release fence.
MayReferenceUnfenced(p, v) ==
    ceasedOn[p] = NoDate /\ ~legalHold[p] /\ proj[v].custody /\ Unlocked(p)
MayReference(p, v) ==
    /\ ceasedOn[p] = NoDate
    /\ ~legalHold[p]
    /\ proj[v].custody
    /\ Unlocked(p)
    /\ ~locked[v]

AttachDocument(p, v) ==
    /\ MayReference(p, v)
    /\ p \notin refs[v]
    /\ refs' = [refs EXCEPT ![v] = @ \cup {p}]
    /\ UNCHANGED <<now, ceasedOn, legalHold, storageVars, proj, queueVars, locked, lw, faults>>

\* UpdatePortfolioDocument moves the evidence to the current version of a document.
ReplaceDocument(p, v, u) ==
    /\ MayReference(p, u)
    /\ p \in refs[v] \ refs[u]
    /\ refs' = [refs EXCEPT ![v] = @ \ {p}, ![u] = @ \cup {p}]
    /\ UNCHANGED <<now, ceasedOn, legalHold, storageVars, proj, queueVars, locked, lw, faults>>

Tick ==
    /\ now < MaxTime
    /\ now' = now + 1
    /\ UNCHANGED <<portfolioVars, storageVars, proj, queueVars, locked, lw, faults>>

-----------------------------------------------------------------------------
(* PortfolioStorageLifecycleWorker.                                        *)

\* A transaction that waits for S3, or is about to commit, holds the row of its
\* transition.
Storing(w) == lw[w].pc \in {"storing", "verified"}
RowLocked(t) == \E w \in LWorkers : Storing(w) /\ lw[w].t = t

\* attempts is compared with MaxAttempts only: counting stops there.
Bump(n) == IF n < MaxAttempts THEN n + 1 ELSE n

\* Five minutes pass since locked_at.
LeaseAges(t) ==
    /\ trans[t].status = "processing"
    /\ ~trans[t].stale
    /\ trans' = [trans EXCEPT ![t].stale = TRUE]
    /\ UNCHANGED <<now, portfolioVars, storageVars, proj, op, nextOp, expiry, locked, lw, faults>>

\* The sweep that opens every claim transaction: expired leases are requeued, and
\* a verified transition whose deadline passed is promoted, once, to a review.
LeaseExpired(t) == trans[t].status = "processing" /\ trans[t].stale
DeadlinePassed(t) ==
    /\ trans[t].status = "completed"
    /\ trans[t].obsHold
    /\ trans[t].required # NoDate
    /\ trans[t].required =< now
    /\ trans[t].obsUntil =< now
\* Mutant: without "on conflict do nothing" a consumed event opens again.
ExpiryReopened == [t \in Trans |-> IF DeadlinePassed(t) THEN "open" ELSE expiry[t]]
ExpirySwept == [t \in Trans |->
    IF DeadlinePassed(t) /\ expiry[t] = "none" THEN "open" ELSE expiry[t]]
\* Mutant: expired leases are never requeued.
SweptWithoutLeases == [t \in Trans |->
    IF trans[t].status = "completed" /\ ExpirySwept[t] = "open"
    THEN [trans[t] EXCEPT !.status = "pending", !.error = "review_due"]
    ELSE trans[t]]
Swept == [t \in Trans |->
    IF LeaseExpired(t)
    THEN [trans[t] EXCEPT !.status = "pending", !.stale = FALSE, !.error = "lease_expired"]
    ELSE IF trans[t].status = "completed" /\ ExpirySwept[t] = "open"
         THEN [trans[t] EXCEPT !.status = "pending", !.error = "review_due"]
         ELSE trans[t]]

Claimed(row) == [row EXCEPT !.status = "processing", !.attempts = Bump(row.attempts),
                            !.stale = FALSE]

\* claimTransition.  Without a pending transition it rolls back.
LClaim(w, t) ==
    /\ lw[w].pc = "idle"
    /\ \A s \in Trans : LeaseExpired(s) => ~RowLocked(s)
    /\ Swept[t].status = "pending"
    /\ trans' = [Swept EXCEPT ![t] = Claimed(Swept[t])]
    /\ expiry' = ExpirySwept
    /\ op' = [op EXCEPT ![t[1]].status = IF @ = "pending" THEN "processing" ELSE @]
    /\ lw' = [lw EXCEPT ![w] = [pc |-> "claimed", t |-> t,
                                attempts |-> Bump(Swept[t].attempts), code |-> "",
                                want |-> NoWant]]
    /\ UNCHANGED <<now, portfolioVars, storageVars, proj, nextOp, locked, faults>>

LFailWith(w, code) ==
    lw' = [lw EXCEPT ![w].pc = "failing", ![w].code = code, ![w].want = NoWant]

\* processTransition up to the storage call.  The claim is not re-checked: any
\* transition in status processing is taken, whoever claimed it last.
LBeginCode(t, want) ==
    IF trans[t].status # "processing" THEN "provenance_missing"
    ELSE IF refs[t[2]] = {} THEN "reference_missing"
    ELSE IF ReviewRequired(want) THEN "expired_review"
    ELSE ""

LBegin(w) ==
    LET t == lw[w].t
        v == t[2]
    IN  /\ lw[w].pc = "claimed"
        /\ ~locked[v]
        /\ \A p \in refs[v] : Unlocked(p)
        /\ \E due \in Deadlines(v) :
             LET want == Aggregate(v, due) IN
             /\ RequiredRetention(v, due)
             /\ IF LBeginCode(t, want) = ""
                THEN /\ lw' = [lw EXCEPT ![w].pc = "storing", ![w].want = want]
                     /\ locked' = [locked EXCEPT ![v] = TRUE]
                ELSE /\ LFailWith(w, LBeginCode(t, want))
                     /\ UNCHANGED locked
        /\ UNCHANGED <<now, portfolioVars, storageVars, proj, queueVars, faults>>

\* ReconcilePortfolioCustodyLifecycle.  S3 refuses a retention date in the past,
\* and the code a hold to be dropped without a retention date.
NeedsExtension(v, due) == due # NoDate /\ retainUntil[v] < due
Refused(v, want) ==
    \/ NeedsExtension(v, want.due) /\ want.due =< now
    \/ ~DesiredHold(want) /\ want.due = NoDate
\* Mutant: the COMPLIANCE extension is forgotten.
NotExtended(v, due) == retainUntil[v]
Extended(v, due) == IF NeedsExtension(v, due) THEN due ELSE retainUntil[v]

LReconcile(w) ==
    LET v    == lw[w].t[2]
        want == lw[w].want
    IN  /\ lw[w].pc = "storing"
        /\ IF Refused(v, want)
           THEN /\ LFailWith(w, "retry")
                /\ locked' = [locked EXCEPT ![v] = FALSE]
                /\ UNCHANGED storageVars
           ELSE /\ retainUntil' = [retainUntil EXCEPT ![v] = Extended(v, want.due)]
                /\ hold' = [hold EXCEPT ![v] = DesiredHold(want)]
                /\ lw' = [lw EXCEPT ![w].pc = "verified"]
                /\ UNCHANGED locked
        /\ UNCHANGED <<now, portfolioVars, proj, queueVars, faults>>

\* A failed or timed-out S3 call leaves any prefix of the two writes behind.
LStorageFault(w) ==
    LET v    == lw[w].t[2]
        want == lw[w].want
    IN  /\ lw[w].pc = "storing"
        /\ faults > 0
        /\ faults' = faults - 1
        /\ \E writes \in 0 .. 2 :
             /\ writes > 0 => ~Refused(v, want)
             /\ retainUntil' = [retainUntil EXCEPT
                                  ![v] = IF writes > 0 THEN Extended(v, want.due) ELSE @]
             /\ hold' = [hold EXCEPT ![v] = IF writes > 1 THEN DesiredHold(want) ELSE @]
        /\ LFailWith(w, "retry")
        /\ locked' = [locked EXCEPT ![v] = FALSE]
        /\ UNCHANGED <<now, portfolioVars, proj, queueVars>>

\* updatePortfolioLifecycleOperationStatus.
\* Mutant: one completed transition completes the operation.
StatusOfAny(o, rows) ==
    IF \E v \in Versions : rows[<<o, v>>].status = "completed" THEN "completed" ELSE "pending"
StatusOf(o, rows) ==
    LET mine == {rows[t].status : t \in {s \in Trans : s[1] = o}} \ {"none"} IN
    CASE "dead_letter" \in mine     -> "dead_letter"
      [] "dead_letter" \notin mine /\ "blocked" \in mine -> "blocked"
      [] mine \subseteq {"completed"} -> "completed"
      [] OTHER -> IF "processing" \in mine THEN "processing" ELSE "pending"

\* The evidence is what S3 answered; a retention date is read only when one is due.
Verified(row, v, due) ==
    [row EXCEPT !.status = "completed", !.error = "", !.stale = FALSE, !.verified = TRUE,
                !.obsHold = hold[v], !.obsUntil = IF due = NoDate THEN NoDate ELSE retainUntil[v]]

\* The rest of processTransition: evidence, projection, completion and commit.
\* The 0165 guard raises when the transition already carries evidence.
LCommit(w) ==
    LET t == lw[w].t
        v == t[2]
        want == lw[w].want
    IN  /\ lw[w].pc = "verified"
        /\ locked' = [locked EXCEPT ![v] = FALSE]
        /\ IF trans[t].verified
           THEN /\ LFailWith(w, "retry")
                /\ UNCHANGED <<proj, trans, op>>
           ELSE /\ trans' = [trans EXCEPT ![t] = Verified(trans[t], v, want.due)]
                /\ proj' = [proj EXCEPT ![v] = [custody |-> want.custody, legal |-> want.legal,
                                                disposition |-> want.due # NoDate]]
                /\ op' = [op EXCEPT ![t[1]].status = StatusOf(t[1], trans')]
                /\ lw' = [lw EXCEPT ![w] = IdleLWorker]
        /\ UNCHANGED <<now, portfolioVars, storageVars, nextOp, expiry, faults>>

\* failTransition writes the transition, then, in a second transaction, the
\* operation's status.  Neither compares locked_by.
\* Mutant: retried without end.
FailedForever(w) == IF lw[w].code \in Permanent THEN "blocked" ELSE "pending"
FailedStatus(w) ==
    IF lw[w].code \in Permanent THEN "blocked"
    ELSE IF lw[w].attempts >= MaxAttempts THEN "dead_letter" ELSE "pending"

Failed(row, status, code) ==
    [row EXCEPT !.status = status, !.error = code, !.stale = FALSE]

LFail(w) ==
    LET t == lw[w].t IN
    /\ lw[w].pc = "failing"
    /\ ~RowLocked(t)
    /\ trans' = IF trans[t].status = "processing"
                THEN [trans EXCEPT ![t] = Failed(trans[t], FailedStatus(w), lw[w].code)]
                ELSE trans
    /\ lw' = [lw EXCEPT ![w].pc = "projecting"]
    /\ UNCHANGED <<now, portfolioVars, storageVars, proj, op, nextOp, expiry, locked, faults>>

LProject(w) ==
    LET o == lw[w].t[1] IN
    /\ lw[w].pc = "projecting"
    /\ op' = [op EXCEPT ![o].status = StatusOf(o, trans)]
    /\ lw' = [lw EXCEPT ![w] = IdleLWorker]
    /\ UNCHANGED <<now, portfolioVars, storageVars, proj, nextOp, trans, expiry, locked, faults>>

\* The process stops, or its COMMIT is lost: the transaction and its locks go.
LCrash(w) ==
    /\ lw[w].pc # "idle"
    /\ faults > 0
    /\ faults' = faults - 1
    /\ lw' = [lw EXCEPT ![w] = IdleLWorker]
    /\ locked' = IF Storing(w) THEN [locked EXCEPT ![lw[w].t[2]] = FALSE] ELSE locked
    /\ UNCHANGED <<now, portfolioVars, storageVars, proj, queueVars>>

-----------------------------------------------------------------------------
(* Properties.                                                             *)

\* The deadline alone never frees an object: whatever the order of cessations,
\* holds, expiries and faults, reconciliation leaves every version on hold.
TimeNeverReleases == \A v \in Versions : hold[v]

\* A portfolio still in activity references only versions in custody: the guard
\* on new references and a worker's projection cannot cross.
ActiveReferencesInCustody ==
    \A v \in Versions : CustodyRequired(v) => proj[v].custody

\* Once custody is given up in the projection, S3 retains the version until the
\* deadline of every portfolio that references it.
RetentionCoversReferences ==
    \A v \in Versions : ~proj[v].custody =>
        \A p \in refs[v] : Deadline(p) # NoDate /\ Deadline(p) =< retainUntil[v]

\* An operation reported completed has storage evidence for every version, and
\* the version is still retained as long as the evidence says.
CompletionIsVerified ==
    \A t \in Trans : op[t[1]].status = "completed" /\ trans[t].status # "none" =>
        /\ trans[t].verified
        /\ trans[t].required =< trans[t].obsUntil
        /\ trans[t].obsUntil =< retainUntil[t[2]]

\* While a worker waits for S3 it alone has the version, and the aggregate it read
\* before the call is still what the references require.
FencedWorker(w) ==
    LET v    == lw[w].t[2]
        want == lw[w].want
    IN  /\ locked[v]
        /\ \A x \in LWorkers : Storing(x) /\ lw[x].t[2] = v => x = w
        /\ refs[v] # {}
        /\ want.custody = CustodyRequired(v)
        /\ RequiredRetention(v, want.due)
        /\ lw[w].pc = "verified" => want.due =< retainUntil[v]
AggregateIsCurrent == \A w \in LWorkers : Storing(w) => FencedWorker(w)

\* 0165 and the worker's own comment: when the deadline of a verified version
\* arrives it becomes the human-review gate (and nothing else).
PromotionReachesReview ==
    \A t \in Trans : expiry[t] = "open" => trans[t].status # "dead_letter"

\* The audit policy: an expired deadline makes the record eligible for a
\* disposition review, also when the cessation was recorded late.
ExpiredReviewIsEligible ==
    \A t \in Trans : trans[t].error = "expired_review" /\ trans[t].status = "blocked"
                      => expiry[t] = "open"

\* Every queued transition settles, by completion or by a state an operator sees.
TransitionsSettle ==
    \A t \in Trans : trans[t].status \in {"pending", "processing"} ~>
                      trans[t].status \in {"completed", "blocked", "dead_letter"}

-----------------------------------------------------------------------------
Commands ==
    \/ \E p \in Portfolios : \/ \E day \in 0 .. MaxTime : RecordCessation(p, day)
                             \/ \E want \in BOOLEAN : SetLegalHold(p, want)
                             \/ \E v \in Versions : AttachDocument(p, v)
                             \/ \E v, u \in Versions : ReplaceDocument(p, v, u)
    \/ \E o \in Ops : RetryOperation(o)

LWorkerStep(w) ==
    \/ LBegin(w) \/ LReconcile(w) \/ LCommit(w) \/ LFail(w) \/ LProject(w)

LifecycleNext ==
    \/ Commands
    \/ Tick
    \/ \E t \in Trans : LeaseAges(t)
    \/ \E w \in LWorkers : \/ \E t \in Trans : LClaim(w, t)
                           \/ LWorkerStep(w)
                           \/ LStorageFault(w)
                           \/ LCrash(w)

LifecycleSpec == LifecycleInit /\ [][LifecycleNext]_lifecycleVars

\* Started workers keep running, and PostgreSQL grants a lock in the order of its
\* waiters; a claim takes the oldest available_at, so no pending transition is
\* passed over for ever; leases age by themselves.
LifecycleFairness ==
    /\ \A w \in LWorkers : SF_lifecycleVars(LWorkerStep(w))
    /\ \A t \in Trans : SF_lifecycleVars(\E w \in LWorkers : LClaim(w, t))
    /\ \A t \in Trans : WF_lifecycleVars(LeaseAges(t))
FairLifecycleSpec == LifecycleSpec /\ LifecycleFairness
=============================================================================
