------------------------ MODULE PortfolioDisposition ------------------------
(***************************************************************************)
(* Disposition of records whose retention expired, on top of               *)
(* PortfolioLifecycle: the owner's request, the independent decision, the  *)
(* durable operation, and PortfolioRetentionDispositionWorker, the only    *)
(* code that turns an Object Lock hold off.  The S3 call happens inside    *)
(* the worker's transaction, and cannot be undone with it.                 *)
(***************************************************************************)
EXTENDS PortfolioLifecycle

CONSTANTS
    DWorkers,       \* replicas of the disposition worker
    NoOwner,        \* lease_owner = ''
    MaxRequests,    \* bound: disposition requests submitted
    ConnectionLoss  \* the database session may die during the S3 call

ASSUME DispositionAssumption ==
    /\ NoOwner \notin DWorkers
    /\ MaxRequests \in Nat
    /\ ConnectionLoss \in BOOLEAN

VARIABLES
    req,  \* portfolio_retention_disposition_requests with decision and receipt
    dop,  \* portfolio_retention_disposition_operations
    dw    \* the disposition workers

dispositionVars == <<req, dop, dw>>
vars == <<lifecycleVars, dispositionVars>>

-----------------------------------------------------------------------------
NoRequest == 0
Requests  == 1 .. MaxRequests

ReqRow == [status : {"none", "submitted", "approved", "rejected", "blocked", "closed"},
           t : Trans \cup {NoTarget}, receipt : {"none", "released", "blocked"}]
\* Whether attempts exceeds one is all the worker asks: counting stops at two.
DopRow == [status : {"none", "queued", "leased", "released", "blocked"},
           owner : DWorkers \cup {NoOwner}, attempts : 0 .. 2, stale : BOOLEAN]
DWorkerRow == [pc : {"idle", "claimed", "releasing", "unfenced", "released",
                     "retrying", "blocking", "restored"},
               r : Requests \cup {NoRequest}, attempts : 0 .. 2]

NoReq == [status |-> "none", t |-> NoTarget, receipt |-> "none"]
NoDop == [status |-> "none", owner |-> NoOwner, attempts |-> 0, stale |-> FALSE]
IdleDWorker == [pc |-> "idle", r |-> NoRequest, attempts |-> 0]

DispositionTypeOK ==
    /\ req \in [Requests -> ReqRow]
    /\ dop \in [Requests -> DopRow]
    /\ dw \in [DWorkers -> DWorkerRow]

TypeOK == LifecycleTypeOK /\ DispositionTypeOK

VersionOf(r) == req[r].t[2]
RequiredBy(r) == trans[req[r].t].required

\* A reference under legal hold, still active, or retained beyond the request.
Blocked(v, required) ==
    \E p \in refs[v] : \/ legalHold[p]
                       \/ ceasedOn[p] = NoDate
                       \/ required < Deadline(p)

AwaitsDisposition(t) == trans[t].status = "blocked" /\ trans[t].error = "expired_review"

Init ==
    /\ LifecycleInit
    /\ req = [r \in Requests |-> NoReq]
    /\ dop = [r \in Requests |-> NoDop]
    /\ dw = [w \in DWorkers |-> IdleDWorker]

-----------------------------------------------------------------------------
(* Owner and approver (HTTP handlers, one transaction each).               *)

\* SubmitPortfolioRetentionDisposition with the insert guard of 0165.
Submit(r, t) ==
    /\ req[r].status = "none"
    /\ \A q \in Requests : q < r => req[q].status # "none"
    /\ AwaitsDisposition(t)
    /\ trans[t].required # NoDate
    /\ expiry[t] = "open"
    /\ ~\E q \in Requests : req[q].t = t /\ req[q].status \in {"submitted", "approved"}
    /\ Unlocked(op[t[1]].portfolio)
    /\ req' = [req EXCEPT ![r] = [status |-> "submitted", t |-> t, receipt |-> "none"]]
    /\ UNCHANGED <<lifecycleVars, dop, dw>>

\* DecidePortfolioRetentionDisposition reads the blockers without locking them.
Decide(r, approve) ==
    /\ req[r].status = "submitted"
    /\ IF approve /\ ~Blocked(VersionOf(r), RequiredBy(r))
       THEN /\ req' = [req EXCEPT ![r].status = "approved"]
            /\ dop' = [dop EXCEPT ![r] = [NoDop EXCEPT !.status = "queued"]]
       ELSE /\ req' = [req EXCEPT ![r].status = "rejected", ![r].receipt = "blocked"]
            /\ UNCHANGED dop
    /\ UNCHANGED <<lifecycleVars, dw>>

-----------------------------------------------------------------------------
(* PortfolioRetentionDispositionWorker.                                    *)

DRowLocked(r) == \E w \in DWorkers : dw[w].pc \in {"releasing", "released"} /\ dw[w].r = r

DLeaseAges(r) ==
    /\ dop[r].status = "leased"
    /\ ~dop[r].stale
    /\ dop' = [dop EXCEPT ![r].stale = TRUE]
    /\ UNCHANGED <<lifecycleVars, req, dw>>

DLeaseExpired(r) == dop[r].status = "leased" /\ dop[r].stale
\* Mutant: an operation left behind by a crashed worker stays leased.
DSweptNothing == dop
DSwept == [r \in Requests |->
    IF DLeaseExpired(r)
    THEN [dop[r] EXCEPT !.status = "queued", !.owner = NoOwner, !.stale = FALSE]
    ELSE dop[r]]
DBump(n) == IF n < 2 THEN n + 1 ELSE n

\* claim: requeue the expired leases, then lease one queued operation.
DClaim(w, r) ==
    /\ dw[w].pc = "idle"
    /\ \A q \in Requests : DLeaseExpired(q) => ~DRowLocked(q)
    /\ DSwept[r].status = "queued"
    /\ dop' = [DSwept EXCEPT ![r] = [status |-> "leased", owner |-> w,
                                     attempts |-> DBump(@.attempts), stale |-> FALSE]]
    /\ dw' = [dw EXCEPT ![w] = [pc |-> "claimed", r |-> r,
                                attempts |-> DBump(DSwept[r].attempts)]]
    /\ UNCHANGED <<lifecycleVars, req>>

\* process up to the storage call: lock the operation, the request, the
\* transition, the version, the fence and every reference, then check again.
ExactProvenance(w, r) ==
    /\ dop[r].status = "leased"
    /\ dop[r].owner = w
    /\ req[r].status = "approved"
    /\ AwaitsDisposition(req[r].t)

\* Mutant: trust the approval, without looking at the references again.
DBeginOnApproval(w) ==
    LET r == dw[w].r IN
    /\ dw[w].pc = "claimed"
    /\ ~locked[VersionOf(r)]
    /\ dw' = [dw EXCEPT ![w].pc = IF ExactProvenance(w, r) THEN "releasing" ELSE "blocking"]
    /\ locked' = [locked EXCEPT ![VersionOf(r)] = ExactProvenance(w, r)]
    /\ UNCHANGED <<now, portfolioVars, storageVars, proj, queueVars, lw, faults, req, dop>>
DBegin(w) ==
    LET r == dw[w].r
        v == VersionOf(r)
    IN  /\ dw[w].pc = "claimed"
        /\ ~locked[v]
        /\ \A p \in refs[v] : Unlocked(p)
        /\ IF ExactProvenance(w, r) /\ ~Blocked(v, RequiredBy(r))
           THEN /\ dw' = [dw EXCEPT ![w].pc = "releasing"]
                /\ locked' = [locked EXCEPT ![v] = TRUE]
           ELSE /\ dw' = [dw EXCEPT ![w].pc = "blocking"]
                /\ UNCHANGED locked
        /\ UNCHANGED <<now, portfolioVars, storageVars, proj, queueVars, lw, faults, req, dop>>

\* ReleaseExpiredPortfolioCustody: COMPLIANCE retention covers the request and
\* has passed, or the release is refused for good.
Releasable(r) ==
    /\ RequiredBy(r) =< now
    /\ RequiredBy(r) =< retainUntil[VersionOf(r)]
    /\ retainUntil[VersionOf(r)] =< now

DRelease(w) ==
    LET r == dw[w].r
        v == VersionOf(r)
    IN  /\ dw[w].pc = "releasing"
        /\ IF Releasable(r)
           THEN /\ hold' = [hold EXCEPT ![v] = FALSE]
                /\ dw' = [dw EXCEPT ![w].pc = "released"]
                /\ UNCHANGED locked
           ELSE /\ dw' = [dw EXCEPT ![w].pc = "blocking"]
                /\ locked' = [locked EXCEPT ![v] = FALSE]
                /\ UNCHANGED hold
        /\ UNCHANGED <<now, portfolioVars, retainUntil, proj, queueVars, lw, faults, req, dop>>

\* The S3 call fails or times out, with or without its effect.
DStorageFault(w) ==
    LET r == dw[w].r
        v == VersionOf(r)
    IN  /\ dw[w].pc = "releasing"
        /\ faults > 0
        /\ faults' = faults - 1
        /\ hold' \in {hold, IF Releasable(r) THEN [hold EXCEPT ![v] = FALSE] ELSE hold}
        /\ dw' = [dw EXCEPT ![w].pc = "retrying"]
        /\ locked' = [locked EXCEPT ![v] = FALSE]
        /\ UNCHANGED <<now, portfolioVars, retainUntil, proj, queueVars, lw, req, dop>>

\* The session dies while the S3 call is under way: the row locks and the
\* advisory lock are gone, the call is not.
DLoseConnection(w) ==
    /\ ConnectionLoss
    /\ dw[w].pc = "releasing"
    /\ faults > 0
    /\ faults' = faults - 1
    /\ dw' = [dw EXCEPT ![w].pc = "unfenced"]
    /\ locked' = [locked EXCEPT ![VersionOf(dw[w].r)] = FALSE]
    /\ UNCHANGED <<now, portfolioVars, storageVars, proj, queueVars, lw, req, dop>>

DReleaseUnfenced(w) ==
    LET r == dw[w].r IN
    /\ dw[w].pc = "unfenced"
    /\ hold' = IF Releasable(r) THEN [hold EXCEPT ![VersionOf(r)] = FALSE] ELSE hold
    /\ dw' = [dw EXCEPT ![w].pc = IF Releasable(r) THEN "retrying" ELSE "blocking"]
    /\ UNCHANGED <<now, portfolioVars, retainUntil, proj, queueVars, locked, lw, faults, req, dop>>

\* Receipt, transition, expiry event, projection, request and operation commit
\* together; a missing expiry event rolls all of them back.
DCommit(w) ==
    LET r == dw[w].r
        t == req[r].t
        v == VersionOf(r)
    IN  /\ dw[w].pc = "released"
        /\ locked' = [locked EXCEPT ![v] = FALSE]
        /\ IF expiry[t] = "open"
           THEN /\ req' = [req EXCEPT ![r].status = "closed", ![r].receipt = "released"]
                /\ trans' = [trans EXCEPT ![t] = [@ EXCEPT !.status = "completed", !.error = ""]]
                /\ expiry' = [expiry EXCEPT ![t] = "consumed"]
                /\ proj' = [proj EXCEPT ![v] = [custody |-> FALSE, legal |-> FALSE,
                                                disposition |-> FALSE]]
                /\ dop' = [dop EXCEPT ![r] = [@ EXCEPT !.status = "released",
                                                       !.owner = NoOwner, !.stale = FALSE]]
                /\ dw' = [dw EXCEPT ![w] = IdleDWorker]
           ELSE /\ dw' = [dw EXCEPT ![w].pc = "retrying"]
                /\ UNCHANGED <<req, trans, expiry, proj, dop>>
        /\ UNCHANGED <<now, portfolioVars, storageVars, op, nextOp, lw, faults>>

\* A statement or the COMMIT fails after the hold went off.
DCommitFault(w) ==
    /\ dw[w].pc = "released"
    /\ faults > 0
    /\ faults' = faults - 1
    /\ dw' = [dw EXCEPT ![w].pc = "retrying"]
    /\ locked' = [locked EXCEPT ![VersionOf(dw[w].r)] = FALSE]
    /\ UNCHANGED <<now, portfolioVars, storageVars, proj, queueVars, lw, req, dop>>

\* fail, transient cause: requeued whoever holds the lease, never dead-lettered.
DRetry(w) ==
    LET r == dw[w].r IN
    /\ dw[w].pc = "retrying"
    /\ ~DRowLocked(r)
    /\ dop' = IF dop[r].status = "leased"
              THEN [dop EXCEPT ![r] = [@ EXCEPT !.status = "queued", !.owner = NoOwner,
                                                !.stale = FALSE]]
              ELSE dop
    /\ dw' = [dw EXCEPT ![w] = IdleDWorker]
    /\ UNCHANGED <<lifecycleVars, req>>

\* fail, permanent cause: an earlier attempt may have turned the hold off, so a
\* second attempt puts it on again before it closes the approval as blocked.
\* Mutant: close the approval without turning the hold on again.
DRestoreNothing(w) ==
    /\ dw[w].pc = "blocking"
    /\ dw[w].attempts > 1
    /\ dw' = [dw EXCEPT ![w].pc = "restored"]
    /\ UNCHANGED <<lifecycleVars, req, dop>>
DRestore(w) ==
    LET r == dw[w].r IN
    /\ dw[w].pc = "blocking"
    /\ dw[w].attempts > 1
    /\ IF dop[r].status = "leased" /\ dop[r].owner = w
       THEN /\ hold' = [hold EXCEPT ![VersionOf(r)] = TRUE]
            /\ dw' = [dw EXCEPT ![w].pc = "restored"]
       ELSE /\ dw' = [dw EXCEPT ![w] = IdleDWorker]
            /\ UNCHANGED hold
    /\ UNCHANGED <<now, portfolioVars, retainUntil, proj, queueVars, locked, lw, faults, req, dop>>

DBlock(w) ==
    LET r == dw[w].r IN
    /\ \/ dw[w].pc = "restored"
       \/ dw[w].pc = "blocking" /\ dw[w].attempts =< 1
    /\ ~DRowLocked(r)
    /\ IF dop[r].status = "leased" /\ dop[r].owner = w /\ req[r].status = "approved"
       THEN /\ req' = [req EXCEPT ![r].status = "blocked", ![r].receipt = "blocked"]
            /\ dop' = [dop EXCEPT ![r] = [@ EXCEPT !.status = "blocked", !.owner = NoOwner,
                                                   !.stale = FALSE]]
       ELSE UNCHANGED <<req, dop>>
    /\ dw' = [dw EXCEPT ![w] = IdleDWorker]
    /\ UNCHANGED lifecycleVars

DCrash(w) ==
    /\ dw[w].pc # "idle"
    /\ faults > 0
    /\ faults' = faults - 1
    /\ dw' = [dw EXCEPT ![w] = IdleDWorker]
    /\ locked' = IF dw[w].pc \in {"releasing", "released"}
                 THEN [locked EXCEPT ![VersionOf(dw[w].r)] = FALSE] ELSE locked
    /\ UNCHANGED <<now, portfolioVars, storageVars, proj, queueVars, lw, req, dop>>

-----------------------------------------------------------------------------
(* Properties.                                                             *)

\* An approved operation that was attempted and has no receipt yet: its storage
\* call may have happened without the database knowing.
InFlight(v) == \E r \in Requests : /\ dop[r].status \in {"queued", "leased"}
                                   /\ dop[r].attempts > 0
                                   /\ VersionOf(r) = v

\* A hold is off only by an approved and attempted disposition of that very
\* version, whose deadline has passed and is covered by COMPLIANCE retention.
HoldOffNeedsDisposition ==
    \A v \in Versions : ~hold[v] =>
        \E r \in Requests : /\ req[r].status \in {"approved", "blocked", "closed"}
                            /\ dop[r].attempts > 0
                            /\ VersionOf(r) = v
                            /\ RequiredBy(r) =< now
                            /\ RequiredBy(r) =< retainUntil[v]

\* What the database calls protected is protected in S3, except while an
\* approved operation is between its storage call and its receipt.
ProtectedProjectionIsHeld ==
    \A v \in Versions :
        (proj[v].custody \/ proj[v].legal \/ proj[v].disposition) => hold[v] \/ InFlight(v)

\* An active portfolio references an unheld version only while the operation that took
\* the hold off is open, its S3 answer lost, say: its retry finds the reference and restores.
ActiveReferenceIsHeld ==
    \A v \in Versions : CustodyRequired(v) => hold[v] \/ InFlight(v)

\* Every expiry event is consumed by exactly one released receipt.
ConsumedByOneReceipt ==
    \A t \in Trans : LET released == {r \in Requests : req[r].t = t /\ req[r].receipt = "released"}
                     IN  Cardinality(released) = IF expiry[t] = "consumed" THEN 1 ELSE 0

\* A receipt says "released" only when, at that very step, no reference blocks the
\* release and retention has passed: what was checked before the S3 call is not stale.
Released(r) == req[r].receipt = "none" /\ req'[r].receipt = "released"
ReleaseIsUnblocked ==
    [][\A r \in Requests : Released(r) => /\ ~Blocked(VersionOf(r), RequiredBy(r))
                                          /\ Releasable(r)]_vars

\* The worker's comment on its fence: nothing changes between the verified object
\* transition and the durable receipt.  It does not hold: DRestore of another
\* request of the same version takes no lock and turns the hold on in between.
ReceiptIsTrue == [][\A r \in Requests : Released(r) => ~hold'[VersionOf(r)]]_vars

\* The disposition implements the retention policy: at the very step a hold goes off
\* no reference blocks it and storage has retained every one of them, and nothing
\* else than the latest deadline of a version's references extends its retention.
Policy == INSTANCE RetentionPolicy WITH today <- now

KeepsRetentionPolicy == Policy!Spec

\* Approved dispositions converge to a receipt, released or blocked.
ApprovalsConverge ==
    \A r \in Requests : dop[r].status \in {"queued", "leased"} ~>
                        dop[r].status \in {"released", "blocked"}

\* A legal hold reaches storage, also when it follows or races a release.
LegalHoldIsRestored ==
    \A v \in Versions : LegalHoldRequired(v) /\ ~hold[v] ~> hold[v] \/ ~LegalHoldRequired(v)

-----------------------------------------------------------------------------
DWorkerStep(w) ==
    \/ DBegin(w) \/ DRelease(w) \/ DReleaseUnfenced(w) \/ DCommit(w)
    \/ DRetry(w) \/ DRestore(w) \/ DBlock(w)

Next ==
    \/ LifecycleNext /\ UNCHANGED dispositionVars
    \/ \E r \in Requests : \/ \E t \in Trans : Submit(r, t)
                           \/ \E approve \in BOOLEAN : Decide(r, approve)
                           \/ DLeaseAges(r)
    \/ \E w \in DWorkers : \/ \E r \in Requests : DClaim(w, r)
                           \/ DWorkerStep(w)
                           \/ DStorageFault(w)
                           \/ DLoseConnection(w)
                           \/ DCommitFault(w)
                           \/ DCrash(w)

Spec == Init /\ [][Next]_vars

\* As for the lifecycle worker; available_at orders the claims of operations.
Fairness ==
    /\ \A w \in LWorkers : SF_vars(LWorkerStep(w) /\ UNCHANGED dispositionVars)
    /\ \A t \in Trans : SF_vars(\E w \in LWorkers : LClaim(w, t) /\ UNCHANGED dispositionVars)
    /\ \A t \in Trans : WF_vars(LeaseAges(t) /\ UNCHANGED dispositionVars)
    /\ \A w \in DWorkers : SF_vars(DWorkerStep(w))
    /\ \A r \in Requests : SF_vars(\E w \in DWorkers : DClaim(w, r)) /\ WF_vars(DLeaseAges(r))
FairSpec == Spec /\ Fairness
=============================================================================
