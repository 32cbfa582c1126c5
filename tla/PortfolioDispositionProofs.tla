---------------------- MODULE PortfolioDispositionProofs ----------------------
(***************************************************************************)
(* Theorems about PortfolioDisposition, for every set of portfolios,       *)
(* versions and replicas and every value of the bounds.                    *)
(***************************************************************************)
EXTENDS PortfolioDisposition, PortfolioLifecycleProofs, FiniteSetTheorems

-----------------------------------------------------------------------------
(* The invariant: custody as PortfolioLifecycleProofs has it, what a row of *)
(* a request or an operation says of the others, and what a worker knows    *)
(* from its check before the S3 call to its receipt.                        *)

Requested ==
    \A r \in Requests :
        /\ req[r].status # "none" => req[r].t \in Trans /\ trans[req[r].t].status # "none"
        /\ dop[r].status # "none" => req[r].status \in {"approved", "blocked", "closed"}
        /\ dop[r].attempts > 0 => dop[r].status # "none"
        /\ dop[r].status = "leased" => dop[r].attempts > 0
        /\ req[r].receipt = "released" => req[r].status = "closed"

\* A busy worker works on an operation that was attempted, by its count too.
Attempted ==
    \A w \in DWorkers : dw[w].pc # "idle" =>
        dw[w].r \in Requests /\ dop[dw[w].r].attempts > 0 /\ dw[w].attempts > 0

Releasing(w) == dw[w].pc \in {"releasing", "released"}

\* During its S3 call a worker has the version and every reference to itself, still
\* owns the lease, and what it checked before the call is still true.
FencedRelease(w) ==
    LET r == dw[w].r
        v == VersionOf(r)
    IN  /\ locked[v]
        /\ \A x \in LWorkers : Storing(x) => lw[x].t[2] # v
        /\ \A x \in DWorkers : Releasing(x) /\ VersionOf(dw[x].r) = v => x = w
        /\ req[r].status = "approved"
        /\ dop[r].status = "leased" /\ dop[r].owner = w
        /\ ~Blocked(v, RequiredBy(r))
        /\ dw[w].pc = "released" => Releasable(r)
ReleasesAreFenced == \A w \in DWorkers : Releasing(w) => FencedRelease(w)

DispositionInv ==
    /\ CustodyInv
    /\ DispositionTypeOK
    /\ Recorded
    /\ Requested
    /\ Attempted
    /\ ReleasesAreFenced

LEMMA RequestFacts ==
    ASSUME DispositionInv, NEW r \in Requests
    PROVE  /\ req[r] \in ReqRow /\ dop[r] \in DopRow
           /\ req[r].status # "none" => /\ req[r].t \in Trans
                                        /\ VersionOf(r) \in Versions
                                        /\ trans[req[r].t].status # "none"
                                        /\ RequiredBy(r) \in Date
<1>1. req[r] \in ReqRow /\ dop[r] \in DopRow
  BY DEF DispositionInv, DispositionTypeOK
<1>2. ASSUME req[r].status # "none"
      PROVE  req[r].t \in Trans /\ trans[req[r].t].status # "none"
  BY <1>2 DEF DispositionInv, Requested
<1>3. ASSUME NEW t \in Trans PROVE t[2] \in Versions /\ trans[t].required \in Date
  BY TransParts DEF DispositionInv, CustodyInv, TypeInv, LifecycleTypeOK, TransRow
<1> QED BY <1>1, <1>2, <1>3 DEF VersionOf, RequiredBy

LEMMA BusyFacts ==
    ASSUME DispositionInv, NEW w \in DWorkers, dw[w].pc # "idle"
    PROVE  /\ dw[w].r \in Requests
           /\ dw[w] \in DWorkerRow
           /\ dw[w].attempts > 0
           /\ dop[dw[w].r].attempts > 0
           /\ dop[dw[w].r].status # "none"
           /\ req[dw[w].r].status \in {"approved", "blocked", "closed"}
           /\ req[dw[w].r].t \in Trans
           /\ VersionOf(dw[w].r) \in Versions
           /\ RequiredBy(dw[w].r) \in Date
<1>1. /\ dw[w].r \in Requests /\ dop[dw[w].r].attempts > 0 /\ dw[w].attempts > 0
      /\ dw[w] \in DWorkerRow
  BY DEF DispositionInv, Attempted, DispositionTypeOK
<1>2. /\ dop[dw[w].r].status # "none"
      /\ req[dw[w].r].status \in {"approved", "blocked", "closed"}
  BY <1>1 DEF DispositionInv, Requested
<1> QED BY <1>1, <1>2, RequestFacts

-----------------------------------------------------------------------------
(* What the steps of PortfolioLifecycle leave alone.                       *)

\* A worker enters its storage call by LBegin only.
LEMMA StoringBegins ==
    ASSUME TypeInv, [LifecycleNext]_lifecycleVars, NEW w \in LWorkers, Storing(w)'
    PROVE  Storing(w) \/ LBegin(w)
<1> USE DEF Storing
<1>0. lw \in [LWorkers -> LWorkerRow]
  BY DEF TypeInv, LifecycleTypeOK
<1>1. ASSUME UNCHANGED lw PROVE Storing(w)
  BY <1>1
<1>2. ASSUME NEW x \in LWorkers, NEW row, lw' = [lw EXCEPT ![x] = row],
             x # w \/ row.pc \notin {"storing", "verified"} \/ Storing(x)
      PROVE  Storing(w)
  BY <1>0, <1>2
<1>3. ASSUME NEW x \in LWorkers, NEW code, LFailWith(x, code) PROVE Storing(w)
  <2> DEFINE row == [lw[x] EXCEPT !.pc = "failing", !.code = code, !.want = NoWant]
  <2>1. lw' = [lw EXCEPT ![x] = row]
    BY <1>3, Zenon DEF LFailWith
  <2>2. row.pc = "failing"
    BY <1>0, Zenon DEF LWorkerRow
  <2> HIDE DEF row
  <2> QED BY <1>2, <2>1, <2>2
<1>4. ASSUME Commands \/ Tick \/ (\E t \in Trans : LeaseAges(t)) \/ UNCHANGED lifecycleVars
      PROVE  Storing(w)
  BY <1>1, <1>4 DEF Commands, RecordCessation, SetLegalHold, AttachDocument, ReplaceDocument,
                    RetryOperation, Tick, LeaseAges, lifecycleVars
<1>5. ASSUME NEW x \in LWorkers, NEW t \in Trans, LClaim(x, t) PROVE Storing(w)
  BY <1>0, <1>5 DEF LClaim
<1>6. ASSUME NEW x \in LWorkers, x # w, LBegin(x) PROVE Storing(w)
  <2>1. PICK code, want : \/ LFailWith(x, code)
                          \/ lw' = [lw EXCEPT ![x].pc = "storing", ![x].want = want]
    BY <1>6, Zenon DEF LBegin
  <2>2. CASE lw' = [lw EXCEPT ![x].pc = "storing", ![x].want = want]
    <3> DEFINE row == [lw[x] EXCEPT !.pc = "storing", !.want = want]
    <3>1. lw' = [lw EXCEPT ![x] = row]
      BY <2>2, Zenon
    <3> HIDE DEF row
    <3> QED BY <1>2, <1>6, <3>1
  <2> QED BY <1>3, <2>1, <2>2
<1>7. ASSUME NEW x \in LWorkers, LReconcile(x) PROVE Storing(w)
  <2>1. Storing(x) /\ (LFailWith(x, "retry") \/ lw' = [lw EXCEPT ![x].pc = "verified"])
    BY <1>7 DEF LReconcile
  <2> QED BY <1>2, <1>3, <2>1
<1>8. ASSUME NEW x \in LWorkers, LStorageFault(x) PROVE Storing(w)
  BY <1>3, <1>8 DEF LStorageFault
<1>9. ASSUME NEW x \in LWorkers, LCommit(x) PROVE Storing(w)
  <2>1. LFailWith(x, "retry") \/ lw' = [lw EXCEPT ![x] = IdleLWorker]
    BY <1>9 DEF LCommit
  <2>2. CASE lw' = [lw EXCEPT ![x] = IdleLWorker]
    BY <1>0, <2>2 DEF IdleLWorker
  <2> QED BY <1>3, <2>1, <2>2
<1>10. ASSUME NEW x \in LWorkers, LFail(x) \/ LProject(x) \/ LCrash(x) PROVE Storing(w)
  <2>1. \/ lw' = [lw EXCEPT ![x].pc = "projecting"]
        \/ lw' = [lw EXCEPT ![x] = IdleLWorker]
    BY <1>10 DEF LFail, LProject, LCrash
  <2>2. [lw[x] EXCEPT !.pc = "projecting"].pc = "projecting"
    BY <1>0 DEF LWorkerRow
  <2>3. CASE lw' = [lw EXCEPT ![x].pc = "projecting"]
    BY <1>0, <2>2, <2>3
  <2>4. CASE lw' = [lw EXCEPT ![x] = IdleLWorker]
    BY <1>0, <2>4 DEF IdleLWorker
  <2> QED BY <2>1, <2>3, <2>4
<1> QED BY <1>4, <1>5, <1>6, <1>7, <1>8, <1>9, <1>10 DEF LifecycleNext, LWorkerStep

\* What a locked version's references require, and its retention, stand still for
\* everyone but the worker that locked it.
LEMMA FenceHolds ==
    ASSUME CustodyInv, [LifecycleNext]_lifecycleVars, NEW v \in Versions, locked[v],
           \A x \in LWorkers : Storing(x) => lw[x].t[2] # v
    PROVE  /\ locked'[v]
           /\ \A x \in LWorkers : Storing(x)' => lw'[x].t[2] # v
           /\ refs'[v] = refs[v]
           /\ \A p \in refs[v] : legalHold'[p] = legalHold[p] /\ ceasedOn'[p] = ceasedOn[p]
           /\ retainUntil'[v] = retainUntil[v]
           /\ now =< now'
<1> DEFINE Still == /\ refs'[v] = refs[v]
                    /\ \A p \in refs[v] : legalHold'[p] = legalHold[p]
                                          /\ ceasedOn'[p] = ceasedOn[p]
                    /\ retainUntil'[v] = retainUntil[v]
                    /\ now =< now'
                    /\ locked'[v]
<1>0. /\ TypeInv /\ now \in Nat
      /\ refs \in [Versions -> SUBSET Portfolios]
      /\ legalHold \in [Portfolios -> BOOLEAN]
      /\ ceasedOn \in [Portfolios -> Date]
      /\ retainUntil \in [Versions -> Date]
      /\ locked \in [Versions -> BOOLEAN]
  BY DEF CustodyInv, TypeInv, LifecycleTypeOK
<1>1. ASSUME NEW x \in LWorkers, Storing(x)' PROVE lw'[x].t[2] # v
  <2>1. CASE Storing(x)
    <3>1. lw'[x].t = lw[x].t
      BY <1>0, <1>1, <2>1, WorkerKeepsItsTransition DEF Storing, LClaim
    <3> QED BY <2>1, <3>1
  <2>2. CASE LBegin(x)
    <3>1. lw'[x].t = lw[x].t
      BY <1>0, <1>1, <2>2, WorkerKeepsItsTransition DEF Storing, LClaim, LBegin
    <3>2. ~locked[lw[x].t[2]]
      BY <2>2 DEF LBegin
    <3> QED BY <3>1, <3>2
  <2> QED BY <1>0, <1>1, <2>1, <2>2, StoringBegins
<1>2. ASSUME UNCHANGED <<now, portfolioVars, storageVars, locked>> PROVE Still
  BY <1>0, <1>2 DEF portfolioVars, storageVars
<1>3. ASSUME Commands PROVE Still
  <2>1. ASSUME NEW p \in Portfolios, NEW day \in 0 .. MaxTime, RecordCessation(p, day)
        PROVE  Still
    BY <1>0, <2>1 DEF RecordCessation, Unlocked, storageVars
  <2>2. ASSUME NEW p \in Portfolios, NEW want \in BOOLEAN, SetLegalHold(p, want)
        PROVE  Still
    BY <1>0, <2>2 DEF SetLegalHold, Unlocked, storageVars
  <2>3. ASSUME NEW p \in Portfolios, NEW u \in Versions, AttachDocument(p, u) PROVE Still
    BY <1>0, <2>3 DEF AttachDocument, MayReference, storageVars
  <2>4. ASSUME NEW p \in Portfolios, NEW u \in Versions, NEW y \in Versions,
               ReplaceDocument(p, u, y)
        PROVE  Still
    BY <1>0, <2>4 DEF ReplaceDocument, MayReference, Unlocked, storageVars
  <2>5. ASSUME NEW o \in Ops, RetryOperation(o) PROVE Still
    BY <1>2, <2>5 DEF RetryOperation
  <2> QED BY <1>3, <2>1, <2>2, <2>3, <2>4, <2>5 DEF Commands
<1>4. ASSUME Tick PROVE Still
  BY <1>0, <1>4 DEF Tick, portfolioVars, storageVars
<1>5. ASSUME UNCHANGED lifecycleVars \/ \E t \in Trans : LeaseAges(t) PROVE Still
  BY <1>2, <1>5 DEF LeaseAges, lifecycleVars
<1>6. ASSUME NEW w \in LWorkers, LFail(w) \/ LProject(w) \/ \E t \in Trans : LClaim(w, t)
      PROVE  Still
  BY <1>2, <1>6 DEF LFail, LProject, LClaim
<1>7. ASSUME NEW w \in LWorkers, LBegin(w) PROVE Still
  <2>1. lw[w].t[2] \in Versions
    BY <1>0, <1>7, BusyWorker DEF LBegin
  <2>2. /\ UNCHANGED <<now, portfolioVars, storageVars>>
        /\ locked' \in {locked, [locked EXCEPT ![lw[w].t[2]] = TRUE]}
    BY <1>7 DEF LBegin
  <2> QED BY <1>0, <2>1, <2>2 DEF portfolioVars, storageVars
<1>8. ASSUME NEW w \in LWorkers, LReconcile(w) \/ LStorageFault(w) PROVE Still
  <2>1. Storing(w) /\ lw[w].t[2] \in Versions /\ lw[w].t[2] # v
    BY <1>8, WorkerWrites
  <2>2. retainUntil'[v] = retainUntil[v]
    BY <1>8, <2>1, WorkerWrites
  <2>3. /\ UNCHANGED <<now, portfolioVars>>
        /\ locked' \in {locked, [locked EXCEPT ![lw[w].t[2]] = FALSE]}
    BY <1>8 DEF LReconcile, LStorageFault
  <2> QED BY <1>0, <2>1, <2>2, <2>3 DEF portfolioVars
<1>9. ASSUME NEW w \in LWorkers, LCommit(w) \/ LCrash(w) PROVE Still
  <2>1. /\ UNCHANGED <<now, portfolioVars, storageVars>>
        /\ \/ UNCHANGED locked
           \/ Storing(w) /\ locked' = [locked EXCEPT ![lw[w].t[2]] = FALSE]
    BY <1>9 DEF LCommit, LCrash, Storing
  <2> QED BY <1>0, <2>1 DEF portfolioVars, storageVars
<1>10. Still
  BY <1>3, <1>4, <1>5, <1>6, <1>7, <1>8, <1>9 DEF LifecycleNext, LWorkerStep
<1> QED BY <1>1, <1>10

LEMMA DispositionLifecycle ==
    ASSUME DispositionInv, [LifecycleNext]_lifecycleVars, UNCHANGED dispositionVars
    PROVE  DispositionInv'
<1>1. CustodyInv' /\ DispositionTypeOK'
  BY CustodyStep DEF DispositionInv, DispositionTypeOK, dispositionVars
<1>2. /\ Recorded'
      /\ \A t \in Trans : trans[t].status # "none" =>
            trans'[t].status # "none" /\ trans'[t].required = trans[t].required
  BY RecordsStay DEF DispositionInv
<1>3. Requested' /\ Attempted'
  BY <1>2 DEF DispositionInv, Requested, Attempted, dispositionVars
<1>4. ASSUME NEW w \in DWorkers, Releasing(w) PROVE FencedRelease(w)'
  <2> DEFINE r == dw[w].r
             v == VersionOf(r)
  <2>1. FencedRelease(w) /\ dw[w].pc # "idle"
    BY <1>4 DEF DispositionInv, ReleasesAreFenced, Releasing
  <2>2. r \in Requests /\ v \in Versions /\ req[r].t \in Trans /\ RequiredBy(r) \in Date
    BY <2>1, BusyFacts
  <2>3. RequiredBy(r)' = RequiredBy(r) /\ VersionOf(r)' = v
    BY <1>2, <2>1, <2>2, RequestFacts DEF FencedRelease, RequiredBy, VersionOf, dispositionVars
  <2>4. /\ locked'[v]
        /\ \A x \in LWorkers : Storing(x)' => lw'[x].t[2] # v
        /\ refs'[v] = refs[v]
        /\ \A p \in refs[v] : legalHold'[p] = legalHold[p] /\ ceasedOn'[p] = ceasedOn[p]
        /\ retainUntil'[v] = retainUntil[v]
        /\ now =< now'
    BY <2>1, <2>2, FenceHolds DEF FencedRelease, DispositionInv
  <2>5. ~Blocked(v, RequiredBy(r))'
    BY <2>1, <2>3, <2>4 DEF FencedRelease, Blocked, Deadline
  <2>6. Releasable(r) => Releasable(r)'
    <3>1. now \in Int /\ now' \in Int /\ retainUntil[v] \in Int /\ RequiredBy(r) \in Int
      BY <1>1, <2>2, DatesAreIntegers DEF DispositionInv, CustodyInv, TypeInv, LifecycleTypeOK
    <3> QED BY <2>3, <2>4, <3>1 DEF Releasable
  <2>7. \A x \in DWorkers : Releasing(x)' /\ VersionOf(dw[x].r)' = v => x = w
    BY <2>1 DEF FencedRelease, Releasing, VersionOf, dispositionVars
  <2> QED BY <2>1, <2>3, <2>4, <2>5, <2>6, <2>7 DEF FencedRelease, dispositionVars
<1>5. ReleasesAreFenced'
  BY <1>4 DEF ReleasesAreFenced, Releasing, dispositionVars
<1> QED BY <1>1, <1>2, <1>3, <1>5 DEF DispositionInv

-----------------------------------------------------------------------------
(* What the disposition's own steps leave alone: the portfolios, retention, *)
(* the other queue, and what a request asks for.                            *)

Aside ==
    /\ UNCHANGED <<now, portfolioVars, retainUntil, op, nextOp, lw>>
    /\ \A r \in Requests : req[r].status # "none" =>
          req'[r].t = req[r].t /\ req'[r].status # "none"
    /\ \A t \in Trans : /\ trans'[t].required = trans[t].required
                        /\ trans'[t].status = "none" <=> trans[t].status = "none"

LEMMA AsideFacts ==
    ASSUME DispositionInv, Aside, NEW r \in Requests, req[r].status # "none"
    PROVE  /\ VersionOf(r)' = VersionOf(r)
           /\ RequiredBy(r)' = RequiredBy(r)
           /\ Releasable(r)' = Releasable(r)
           /\ \A v, d : Blocked(v, d)' = Blocked(v, d)
           /\ req'[r].t = req[r].t
<1>1. req'[r].t = req[r].t /\ req[r].t \in Trans
  BY RequestFacts DEF Aside
<1>2. VersionOf(r)' = VersionOf(r) /\ RequiredBy(r)' = RequiredBy(r)
  BY <1>1 DEF Aside, VersionOf, RequiredBy
<1>3. \A v, d : Blocked(v, d)' = Blocked(v, d)
  BY DEF Aside, Blocked, Deadline, portfolioVars
<1> QED BY <1>1, <1>2, <1>3 DEF Aside, Releasable

\* A worker in its S3 call does not notice a step that leaves its own rows alone.
LEMMA StaysFenced ==
    ASSUME DispositionInv, Aside, NEW x \in DWorkers, Releasing(x), dw'[x] = dw[x],
           locked'[VersionOf(dw[x].r)], req'[dw[x].r].status = "approved",
           dop'[dw[x].r].status = "leased", dop'[dw[x].r].owner = x,
           \A y \in DWorkers : Releasing(y)' /\ VersionOf(dw[y].r)' = VersionOf(dw[x].r) => y = x
    PROVE  FencedRelease(x)'
<1>1. FencedRelease(x) /\ dw[x].r \in Requests
  BY BusyFacts DEF DispositionInv, ReleasesAreFenced, Releasing
<1>2. /\ VersionOf(dw[x].r)' = VersionOf(dw[x].r)
      /\ RequiredBy(dw[x].r)' = RequiredBy(dw[x].r)
      /\ Releasable(dw[x].r)' = Releasable(dw[x].r)
      /\ \A v, d : Blocked(v, d)' = Blocked(v, d)
  BY <1>1, AsideFacts DEF FencedRelease
<1> QED BY <1>1, <1>2 DEF FencedRelease, Aside, Storing

\* The lifecycle half of the invariant: a step that takes or returns a version
\* nobody else has, and leaves the projection alone.
LEMMA CustodyAside ==
    ASSUME DispositionInv, Aside, UNCHANGED <<proj, expiry>>,
           hold' \in [Versions -> BOOLEAN], locked' \in [Versions -> BOOLEAN],
           trans' \in [Trans -> TransRow], faults' \in 0 .. MaxFaults,
           \A x \in LWorkers : Storing(x) => locked'[lw[x].t[2]]
    PROVE  CustodyInv' /\ Recorded'
<1>1. TypeInv'
  BY DEF DispositionInv, CustodyInv, TypeInv, LifecycleTypeOK, Targeted, Aside, portfolioVars
<1>2. CustodyInv'
  BY <1>1, QuietStep DEF DispositionInv, Aside, portfolioVars, Storing
<1>3. Recorded'
  <2>1. ASSUME NEW x \in LWorkers, lw[x].pc # "idle" PROVE lw[x].t \in Trans
    BY <2>1, BusyWorker DEF DispositionInv, CustodyInv
  <2> QED BY <2>1 DEF DispositionInv, Recorded, Aside
<1> QED BY <1>2, <1>3

\* A reconciling worker's version stays locked when a disposition worker returns its own.
LEMMA ReturnsItsOwn ==
    ASSUME DispositionInv, NEW w \in DWorkers,
           \/ UNCHANGED locked
           \/ Releasing(w) /\ locked' = [locked EXCEPT ![VersionOf(dw[w].r)] = FALSE]
    PROVE  /\ locked' \in [Versions -> BOOLEAN]
           /\ \A x \in LWorkers : Storing(x) => locked'[lw[x].t[2]]
           /\ \A x \in DWorkers : Releasing(x) /\ x # w => locked'[VersionOf(dw[x].r)]
<1>1. locked \in [Versions -> BOOLEAN] /\ TypeInv
  BY DEF DispositionInv, CustodyInv, TypeInv, LifecycleTypeOK
<1>2. ASSUME NEW x \in LWorkers, Storing(x)
      PROVE  /\ locked[lw[x].t[2]] /\ lw[x].t[2] \in Versions
             /\ Releasing(w) => lw[x].t[2] # VersionOf(dw[w].r)
  BY <1>1, <1>2, BusyWorker DEF DispositionInv, CustodyInv, AggregateIsCurrent, FencedWorker,
                                ReleasesAreFenced, FencedRelease, Storing
<1>3. ASSUME NEW x \in DWorkers, Releasing(x), x # w
      PROVE  /\ locked[VersionOf(dw[x].r)] /\ VersionOf(dw[x].r) \in Versions
             /\ Releasing(w) => VersionOf(dw[x].r) # VersionOf(dw[w].r)
  BY <1>3, BusyFacts DEF DispositionInv, ReleasesAreFenced, FencedRelease, Releasing
<1> QED BY <1>1, <1>2, <1>3

\* Steps of a worker that touch no row: its S3 calls, its faults, and what it does
\* after a check that failed.
LEMMA QuietRelease ==
    ASSUME DispositionInv, NEW w \in DWorkers, dw[w].pc # "idle",
           UNCHANGED <<now, portfolioVars, retainUntil, proj, queueVars, lw, req, dop>>,
           hold' \in [Versions -> BOOLEAN], faults' \in 0 .. MaxFaults,
           NEW row \in DWorkerRow, dw' = [dw EXCEPT ![w] = row],
           row.pc # "idle" => row.r = dw[w].r /\ row.attempts = dw[w].attempts,
           row.pc \in {"releasing", "released"} =>
               Releasing(w) /\ UNCHANGED locked /\ (row.pc = "released" => Releasable(row.r)),
           \/ UNCHANGED locked
           \/ Releasing(w) /\ locked' = [locked EXCEPT ![VersionOf(dw[w].r)] = FALSE]
    PROVE  DispositionInv' /\ Aside
<1>0. dw \in [DWorkers -> DWorkerRow]
  BY DEF DispositionInv, DispositionTypeOK
<1>1. Aside
  BY DEF Aside, queueVars
<1>2. CustodyInv' /\ Recorded'
  BY <1>1, CustodyAside, ReturnsItsOwn DEF queueVars, DispositionInv, CustodyInv, TypeInv,
     LifecycleTypeOK
<1>3. DispositionTypeOK' /\ Requested'
  BY <1>0 DEF DispositionInv, DispositionTypeOK, Requested, queueVars
<1>4. Attempted'
  BY <1>0, BusyFacts DEF DispositionInv, Attempted
<1>5. ASSUME NEW x \in DWorkers, Releasing(x)' PROVE FencedRelease(x)'
  <2>1. Releasing(x) /\ dw'[x].r = dw[x].r
    BY <1>0, <1>5 DEF Releasing
  <2>2. FencedRelease(x) /\ dw[x].r \in Requests /\ dw[x].pc # "idle"
    BY <2>1, BusyFacts DEF DispositionInv, ReleasesAreFenced, Releasing
  <2>3. \A y \in DWorkers : Releasing(y)' => Releasing(y) /\ dw'[y].r = dw[y].r
    BY <1>0 DEF Releasing
  <2>4. \A y \in DWorkers : Releasing(y)' /\ VersionOf(dw[y].r)' = VersionOf(dw[x].r) => y = x
    BY <2>2, <2>3 DEF FencedRelease, VersionOf
  <2>5. CASE x # w
    BY <1>0, <1>1, <2>1, <2>2, <2>4, <2>5, ReturnsItsOwn, StaysFenced DEF FencedRelease
  <2>6. CASE x = w
    <3>1. UNCHANGED locked /\ (dw'[x].pc = "released" => Releasable(dw[x].r))
      BY <1>0, <1>5, <2>6 DEF Releasing
    <3> PICK r \in Requests : r = dw[x].r
      BY <2>2
    <3>2. req[r].status # "none"
      BY <2>2 DEF FencedRelease
    <3>3. /\ VersionOf(r)' = VersionOf(r)
          /\ RequiredBy(r)' = RequiredBy(r)
          /\ Releasable(r)' = Releasable(r)
          /\ \A v, d : Blocked(v, d)' = Blocked(v, d)
      BY <1>1, <3>2, AsideFacts
    <3>4. dw'[x].r = r
      BY <2>1
    <3> QED BY <2>1, <2>2, <2>4, <3>1, <3>3, <3>4 DEF FencedRelease, Storing
  <2> QED BY <2>5, <2>6
<1> QED BY <1>1, <1>2, <1>3, <1>4, <1>5 DEF DispositionInv, ReleasesAreFenced

LEMMA PcRow ==
    ASSUME DispositionInv, NEW w \in DWorkers,
           NEW pc \in {"idle", "claimed", "releasing", "unfenced", "released",
                       "retrying", "blocking", "restored"}
    PROVE  /\ [dw[w] EXCEPT !.pc = pc] \in DWorkerRow
           /\ [dw[w] EXCEPT !.pc = pc].pc = pc
           /\ [dw[w] EXCEPT !.pc = pc].r = dw[w].r
           /\ [dw[w] EXCEPT !.pc = pc].attempts = dw[w].attempts
           /\ IdleDWorker \in DWorkerRow /\ IdleDWorker.pc = "idle"
<1>1. dw[w] \in DWorkerRow
  BY DEF DispositionInv, DispositionTypeOK
<1>2. IdleDWorker \in DWorkerRow /\ IdleDWorker.pc = "idle"
  BY DEF IdleDWorker, DWorkerRow
<1> QED BY <1>1, <1>2 DEF DWorkerRow

\* The same for a step that only moves the worker on.
LEMMA QuietMove ==
    ASSUME DispositionInv, NEW w \in DWorkers, dw[w].pc # "idle",
           UNCHANGED <<now, portfolioVars, retainUntil, proj, queueVars, lw, req, dop>>,
           hold' \in [Versions -> BOOLEAN], faults' \in 0 .. MaxFaults,
           NEW pc \in {"idle", "unfenced", "released", "retrying", "blocking", "restored"},
           dw' = [dw EXCEPT ![w].pc = pc] \/ (pc = "idle" /\ dw' = [dw EXCEPT ![w] = IdleDWorker]),
           pc = "released" => Releasing(w) /\ UNCHANGED locked /\ Releasable(dw[w].r),
           \/ UNCHANGED locked
           \/ Releasing(w) /\ locked' = [locked EXCEPT ![VersionOf(dw[w].r)] = FALSE]
    PROVE  DispositionInv' /\ Aside
<1>1. CASE dw' = [dw EXCEPT ![w].pc = pc]
  <2> PICK row : row = [dw[w] EXCEPT !.pc = pc]
    OBVIOUS
  <2>1. dw' = [dw EXCEPT ![w] = row]
    BY <1>1
  <2>2. pc \in {"idle", "claimed", "releasing", "unfenced", "released", "retrying",
                "blocking", "restored"}
    OBVIOUS
  <2>3. /\ row \in DWorkerRow
        /\ row.pc = pc /\ row.r = dw[w].r /\ row.attempts = dw[w].attempts
    BY <2>2, PcRow
  <2> QED BY <2>1, <2>3, QuietRelease
<1>2. CASE pc = "idle" /\ dw' = [dw EXCEPT ![w] = IdleDWorker]
  <2> PICK row : row = IdleDWorker
    OBVIOUS
  <2>1. row \in DWorkerRow /\ dw' = [dw EXCEPT ![w] = row] /\ row.pc = "idle"
    BY <1>2, PcRow
  <2> QED BY <2>1, QuietRelease
<1> QED BY <1>1, <1>2

LEMMA InvTypes ==
    ASSUME DispositionInv
    PROVE  /\ hold \in [Versions -> BOOLEAN] /\ locked \in [Versions -> BOOLEAN]
           /\ faults \in 0 .. MaxFaults /\ (faults > 0 => faults - 1 \in 0 .. MaxFaults)
           /\ trans \in [Trans -> TransRow] /\ TypeInv
           /\ req \in [Requests -> ReqRow] /\ dop \in [Requests -> DopRow]
           /\ dw \in [DWorkers -> DWorkerRow]
BY ConstantsAssumption
   DEF DispositionInv, CustodyInv, TypeInv, LifecycleTypeOK, DispositionTypeOK

\* The steps that touch no row of the disposition.
LEMMA QuietSteps ==
    ASSUME DispositionInv, NEW w \in DWorkers,
           \/ DRelease(w) \/ DReleaseUnfenced(w) \/ DRestore(w) \/ DStorageFault(w)
           \/ DLoseConnection(w) \/ DCommitFault(w) \/ DCrash(w)
    PROVE  DispositionInv' /\ Aside
<1> DEFINE Rest == UNCHANGED <<now, portfolioVars, retainUntil, proj, queueVars, lw, req, dop>>
           Freed == locked' = [locked EXCEPT ![VersionOf(dw[w].r)] = FALSE]
<1> USE InvTypes
<1>1. CASE DRelease(w)
  <2>1. /\ dw[w].pc # "idle" /\ Releasing(w) /\ Rest /\ UNCHANGED faults
        /\ hold' \in [Versions -> BOOLEAN]
        /\ \/ /\ Releasable(dw[w].r) /\ UNCHANGED locked
              /\ dw' = [dw EXCEPT ![w].pc = "released"]
           \/ Freed /\ dw' = [dw EXCEPT ![w].pc = "blocking"]
    BY <1>1 DEF DRelease, Releasing
  <2> QED BY <2>1, QuietMove
<1>2. CASE DReleaseUnfenced(w)
  <2>1. /\ dw[w].pc # "idle" /\ Rest /\ UNCHANGED <<faults, locked>>
        /\ hold' \in [Versions -> BOOLEAN]
        /\ \/ dw' = [dw EXCEPT ![w].pc = "retrying"]
           \/ dw' = [dw EXCEPT ![w].pc = "blocking"]
    BY <1>2 DEF DReleaseUnfenced
  <2> QED BY <2>1, QuietMove
<1>3. CASE DRestore(w)
  <2>1. /\ dw[w].pc # "idle" /\ Rest /\ UNCHANGED <<faults, locked>>
        /\ hold' \in [Versions -> BOOLEAN]
        /\ \/ dw' = [dw EXCEPT ![w].pc = "restored"]
           \/ dw' = [dw EXCEPT ![w] = IdleDWorker]
    BY <1>3 DEF DRestore
  <2> QED BY <2>1, QuietMove
<1>4. CASE DStorageFault(w)
  <2>1. /\ dw[w].pc # "idle" /\ Releasing(w) /\ Rest /\ faults' \in 0 .. MaxFaults /\ Freed
        /\ hold' \in [Versions -> BOOLEAN]
        /\ dw' = [dw EXCEPT ![w].pc = "retrying"]
    BY <1>4 DEF DStorageFault, Releasing
  <2> QED BY <2>1, QuietMove
<1>5. CASE DLoseConnection(w)
  <2>1. /\ dw[w].pc # "idle" /\ Releasing(w) /\ Rest /\ faults' \in 0 .. MaxFaults /\ Freed
        /\ hold' \in [Versions -> BOOLEAN]
        /\ dw' = [dw EXCEPT ![w].pc = "unfenced"]
    BY <1>5 DEF DLoseConnection, Releasing, storageVars
  <2> QED BY <2>1, QuietMove
<1>6. CASE DCommitFault(w)
  <2>1. /\ dw[w].pc # "idle" /\ Releasing(w) /\ Rest /\ faults' \in 0 .. MaxFaults /\ Freed
        /\ hold' \in [Versions -> BOOLEAN]
        /\ dw' = [dw EXCEPT ![w].pc = "retrying"]
    BY <1>6 DEF DCommitFault, Releasing, storageVars
  <2> QED BY <2>1, QuietMove
<1>7. CASE DCrash(w)
  <2>1. /\ dw[w].pc # "idle" /\ Rest /\ faults' \in 0 .. MaxFaults
        /\ hold' \in [Versions -> BOOLEAN]
        /\ dw' = [dw EXCEPT ![w] = IdleDWorker]
        /\ UNCHANGED locked \/ (Releasing(w) /\ Freed)
    BY <1>7 DEF DCrash, Releasing, storageVars
  <2> QED BY <2>1, QuietMove
<1> QED BY <1>1, <1>2, <1>3, <1>4, <1>5, <1>6, <1>7

\* Steps on the rows of requests and operations that no worker in its S3 call owns.
LEMMA RowStep ==
    ASSUME DispositionInv,
           UNCHANGED <<now, portfolioVars, storageVars, proj, queueVars, locked, lw, faults>>,
           \A r \in Requests : req[r].status # "none" =>
              req'[r].t = req[r].t /\ req'[r].status # "none",
           DispositionTypeOK', Requested', Attempted',
           \A x \in DWorkers : Releasing(x)' => Releasing(x) /\ dw'[x] = dw[x],
           \A x \in DWorkers : Releasing(x) => /\ req'[dw[x].r].status = "approved"
                                               /\ dop'[dw[x].r].status = "leased"
                                               /\ dop'[dw[x].r].owner = x
    PROVE  DispositionInv' /\ Aside
<1>1. Aside
  BY DEF Aside, queueVars, storageVars
<1>2. CustodyInv' /\ Recorded'
  <2>1. \A x \in LWorkers : Storing(x) => locked'[lw[x].t[2]]
    BY DEF DispositionInv, CustodyInv, AggregateIsCurrent, FencedWorker
  <2> QED BY <1>1, <2>1, InvTypes, CustodyAside DEF queueVars, storageVars
<1>3. ASSUME NEW x \in DWorkers, Releasing(x)' PROVE FencedRelease(x)'
  <2>1. Releasing(x) /\ dw'[x] = dw[x] /\ FencedRelease(x) /\ dw[x].r \in Requests
    BY <1>3, BusyFacts DEF DispositionInv, ReleasesAreFenced, Releasing
  <2>2. ASSUME NEW y \in DWorkers, Releasing(y)', VersionOf(dw[y].r)' = VersionOf(dw[x].r)
        PROVE  y = x
    <3>1. Releasing(y) /\ dw'[y] = dw[y]
      BY <2>2
    <3> PICK r \in Requests : r = dw[y].r
      BY <3>1, BusyFacts DEF Releasing
    <3>2. req[r].status # "none"
      BY <3>1, BusyFacts DEF Releasing
    <3>3. VersionOf(r)' = VersionOf(r)
      BY <1>1, <3>2, AsideFacts
    <3>4. VersionOf(dw[y].r) = VersionOf(dw[x].r)
      BY <2>2, <3>1, <3>3
    <3> QED BY <2>1, <3>1, <3>4 DEF FencedRelease
  <2>3. locked'[VersionOf(dw[x].r)]
    BY <2>1 DEF FencedRelease
  <2> QED BY <1>1, <2>1, <2>2, <2>3, StaysFenced
<1> QED BY <1>1, <1>2, <1>3 DEF DispositionInv, ReleasesAreFenced

\* An operation whose row lock is free is nobody's in an S3 call.
LEMMA LeaseFacts ==
    ASSUME DispositionInv, NEW x \in DWorkers, Releasing(x)
    PROVE  /\ dw[x].r \in Requests /\ DRowLocked(dw[x].r)
           /\ req[dw[x].r].status = "approved"
           /\ dop[dw[x].r].status = "leased" /\ dop[dw[x].r].owner = x
<1>1. dw[x].r \in Requests /\ FencedRelease(x)
  BY BusyFacts DEF DispositionInv, ReleasesAreFenced, Releasing
<1> QED BY <1>1 DEF FencedRelease, DRowLocked, Releasing

\* A row whose lease is given up.
Freed(row, status) == [row EXCEPT !.status = status, !.owner = NoOwner, !.stale = FALSE]

LEMMA FreedRow ==
    ASSUME NEW row \in DopRow, NEW status \in {"none", "queued", "leased", "released", "blocked"}
    PROVE  /\ Freed(row, status) \in DopRow
           /\ Freed(row, status).status = status
           /\ Freed(row, status).attempts = row.attempts
BY DEF DopRow, Freed

LEMMA StaleRow ==
    ASSUME NEW row \in DopRow
    PROVE  /\ [row EXCEPT !.stale = TRUE] \in DopRow
           /\ [row EXCEPT !.stale = TRUE].status = row.status
           /\ [row EXCEPT !.stale = TRUE].owner = row.owner
           /\ [row EXCEPT !.stale = TRUE].attempts = row.attempts
BY DEF DopRow

LEMMA QueuedRow ==
    /\ [NoDop EXCEPT !.status = "queued"] \in DopRow
    /\ [NoDop EXCEPT !.status = "queued"].status = "queued"
    /\ [NoDop EXCEPT !.status = "queued"].attempts = 0
<1>1. 0 \in 0 .. 2 /\ NoOwner \in DWorkers \cup {NoOwner} /\ FALSE \in BOOLEAN
  OBVIOUS
<1>2. NoDop \in DopRow
  BY <1>1, Zenon DEF NoDop, DopRow
<1>3. NoDop.attempts = 0
  BY Zenon DEF NoDop
<1> QED BY <1>2, <1>3 DEF DopRow

LEMMA SubmitStep ==
    ASSUME DispositionInv, NEW r \in Requests, NEW t \in Trans, Submit(r, t)
    PROVE  DispositionInv' /\ Aside
<1> DEFINE row == [status |-> "submitted", t |-> t, receipt |-> "none"]
<1>1. /\ req[r].status = "none" /\ req' = [req EXCEPT ![r] = row]
      /\ trans[t].status # "none" /\ UNCHANGED <<lifecycleVars, dop, dw>>
  BY DEF Submit, AwaitsDisposition
<1>2. row \in ReqRow
  BY DEF ReqRow
<1>3. DispositionTypeOK'
  BY <1>1, <1>2, InvTypes DEF DispositionTypeOK
<1>4. Requested'
  BY <1>1, InvTypes DEF Requested, DispositionInv, lifecycleVars, queueVars
<1>5. Attempted'
  BY <1>1 DEF Attempted, DispositionInv
<1>6. \A x \in DWorkers : Releasing(x) => dw[x].r # r
  BY <1>1, LeaseFacts
<1> HIDE DEF row
<1> QED BY <1>1, <1>3, <1>4, <1>5, <1>6, InvTypes, LeaseFacts, RowStep
        DEF lifecycleVars, Releasing

LEMMA DecideStep ==
    ASSUME DispositionInv, NEW r \in Requests, NEW approve \in BOOLEAN, Decide(r, approve)
    PROVE  DispositionInv' /\ Aside
<1>1. req[r].status = "submitted" /\ UNCHANGED <<lifecycleVars, dw>>
  BY DEF Decide
<1>2. req[r] \in ReqRow /\ dop[r] \in DopRow /\ dop[r].status = "none"
  BY <1>1, RequestFacts DEF DispositionInv, Requested
<1>3. PICK row, drow :
        /\ req' = [req EXCEPT ![r] = row] /\ dop' = [dop EXCEPT ![r] = drow]
        /\ row \in ReqRow /\ drow \in DopRow /\ row.t = req[r].t
        /\ \/ row.status = "approved" /\ drow.status = "queued" /\ row.receipt = req[r].receipt
           \/ row.status = "rejected" /\ row.receipt = "blocked" /\ drow = dop[r]
        /\ drow.attempts = 0
  <2>1. dop[r].attempts = 0
    BY <1>2 DEF DispositionInv, Requested, DopRow
  <2>2. CASE req' = [req EXCEPT ![r].status = "approved"]
             /\ dop' = [dop EXCEPT ![r] = [NoDop EXCEPT !.status = "queued"]]
    <3> PICK row, drow : row = [req[r] EXCEPT !.status = "approved"]
                         /\ drow = [NoDop EXCEPT !.status = "queued"]
      OBVIOUS
    <3>1. /\ row \in ReqRow /\ row.status = "approved" /\ row.t = req[r].t
          /\ row.receipt = req[r].receipt
      BY <1>2 DEF ReqRow
    <3>2. drow \in DopRow /\ drow.status = "queued" /\ drow.attempts = 0
      BY QueuedRow
    <3> QED BY <2>2, <3>1, <3>2
  <2>3. CASE req' = [req EXCEPT ![r].status = "rejected", ![r].receipt = "blocked"]
             /\ UNCHANGED dop
    <3> PICK row : row = [req[r] EXCEPT !.status = "rejected", !.receipt = "blocked"]
      OBVIOUS
    <3>1. /\ row \in ReqRow /\ row.status = "rejected" /\ row.t = req[r].t
          /\ row.receipt = "blocked"
      BY <1>2 DEF ReqRow
    <3>2. req' = [req EXCEPT ![r] = row]
      BY <2>3
    <3>3. dop' = [dop EXCEPT ![r] = dop[r]]
      BY <2>3, InvTypes
    <3> QED BY <1>2, <2>1, <3>1, <3>2, <3>3
  <2> QED BY <2>2, <2>3 DEF Decide
<1>4. DispositionTypeOK'
  BY <1>1, <1>3, InvTypes DEF DispositionTypeOK
<1>5. Requested'
  BY <1>1, <1>2, <1>3, InvTypes DEF Requested, DispositionInv, lifecycleVars, queueVars
<1>6. Attempted'
  <2>1. dop[r].attempts > 0 => FALSE
    BY <1>2 DEF DispositionInv, Requested
  <2> QED BY <1>1, <1>3, <2>1, InvTypes DEF Attempted, DispositionInv
<1>7. \A x \in DWorkers : Releasing(x) => dw[x].r # r
  BY <1>1, LeaseFacts
<1> QED BY <1>1, <1>3, <1>4, <1>5, <1>6, <1>7, InvTypes, LeaseFacts, RowStep
        DEF lifecycleVars, Releasing

LEMMA LeaseStep ==
    ASSUME DispositionInv, NEW r \in Requests, DLeaseAges(r) PROVE DispositionInv' /\ Aside
<1> PICK row : row = [dop[r] EXCEPT !.stale = TRUE]
  OBVIOUS
<1>1. /\ dop' = [dop EXCEPT ![r] = row] /\ UNCHANGED <<lifecycleVars, req, dw>>
  BY DEF DLeaseAges
<1>2. /\ row \in DopRow /\ row.status = dop[r].status /\ row.owner = dop[r].owner
      /\ row.attempts = dop[r].attempts
  BY InvTypes, StaleRow
<1>3. DispositionTypeOK'
  BY <1>1, <1>2, InvTypes DEF DispositionTypeOK
<1>4. Requested'
  BY <1>1, <1>2, InvTypes DEF Requested, DispositionInv, lifecycleVars, queueVars
<1>5. Attempted'
  BY <1>1, <1>2, InvTypes DEF Attempted, DispositionInv
<1> QED BY <1>1, <1>2, <1>3, <1>4, <1>5, InvTypes, LeaseFacts, RowStep
        DEF lifecycleVars, Releasing

LEMMA SweptRows ==
    ASSUME DispositionInv, NEW q \in Requests
    PROVE  /\ DSwept[q] \in DopRow
           /\ DSwept[q].attempts = dop[q].attempts
           /\ DSwept[q].status = "none" <=> dop[q].status = "none"
           /\ DSwept[q].status = "leased" => DSwept[q] = dop[q]
           /\ ~DLeaseExpired(q) => DSwept[q] = dop[q]
           /\ DLeaseExpired(q) => DSwept[q].status = "queued"
<1>1. dop[q] \in DopRow
  BY InvTypes
<1>2. CASE DLeaseExpired(q)
  <2>1. DSwept[q] = [dop[q] EXCEPT !.status = "queued", !.owner = NoOwner, !.stale = FALSE]
    BY <1>2, Zenon DEF DSwept
  <2> PICK row \in DopRow : row = dop[q]
    BY <1>1
  <2>2. /\ DSwept[q] \in DopRow /\ DSwept[q].status = "queued"
        /\ DSwept[q].attempts = dop[q].attempts
    <3>1. DSwept[q] = Freed(row, "queued")
      BY <2>1 DEF Freed
    <3> QED BY <3>1, FreedRow
  <2> QED BY <1>2, <2>2 DEF DLeaseExpired
<1>3. CASE ~DLeaseExpired(q)
  <2>1. DSwept[q] = dop[q]
    BY <1>3, Zenon DEF DSwept
  <2> QED BY <1>1, <1>3, <2>1
<1> QED BY <1>2, <1>3

LEMMA ClaimStep ==
    ASSUME DispositionInv, NEW w \in DWorkers, NEW r \in Requests, DClaim(w, r)
    PROVE  DispositionInv' /\ Aside
<1> PICK n : n = DBump(DSwept[r].attempts)
  OBVIOUS
<1> DEFINE row  == [status |-> "leased", owner |-> w, attempts |-> n, stale |-> FALSE]
           wrow == [pc |-> "claimed", r |-> r, attempts |-> n]
<1>1. /\ dw[w].pc = "idle" /\ UNCHANGED <<lifecycleVars, req>>
      /\ \A q \in Requests : DLeaseExpired(q) => ~DRowLocked(q)
      /\ DSwept[r].status = "queued"
      /\ dop' = [DSwept EXCEPT ![r] = row] /\ dw' = [dw EXCEPT ![w] = wrow]
  BY DEF DClaim
<1>2. n \in 1 .. 2
  BY SweptRows DEF DBump, DopRow
<1>3. row \in DopRow /\ wrow \in DWorkerRow
  BY <1>2 DEF DopRow, DWorkerRow
<1>4. DSwept \in [Requests -> DopRow]
  <2>1. DSwept = [q \in Requests |-> DSwept[q]]
    BY Zenon DEF DSwept
  <2> QED BY <2>1, SweptRows
<1>5. /\ dop'[r] = row /\ \A q \in Requests : q # r => dop'[q] = DSwept[q]
      /\ dw'[w] = wrow /\ \A x \in DWorkers : x # w => dw'[x] = dw[x]
  BY <1>1, <1>4, InvTypes
<1>6. /\ row.status = "leased" /\ row.attempts = n /\ row.owner = w
      /\ wrow.pc = "claimed" /\ wrow.r = r /\ wrow.attempts = n
  OBVIOUS
<1> HIDE DEF row, wrow
<1>7. DispositionTypeOK'
  BY <1>1, <1>3, <1>4, InvTypes DEF DispositionTypeOK
<1>8. \A q \in Requests : /\ dop'[q].status = "none" <=> dop[q].status = "none"
                          /\ dop'[q].attempts = dop[q].attempts \/ dop'[q].attempts > 0
                          /\ dop'[q].attempts > 0 => dop'[q].status # "none"
                          /\ dop'[q].status = "leased" => dop'[q].attempts > 0
  <2>1. dop'[r].status = "leased" /\ dop'[r].attempts > 0 /\ dop[r].status # "none"
    BY <1>1, <1>2, <1>5, <1>6, SweptRows
  <2>2. ASSUME NEW q \in Requests, q # r
        PROVE  /\ dop'[q].status = "none" <=> dop[q].status = "none"
               /\ dop'[q].attempts = dop[q].attempts
               /\ dop'[q].status = "leased" => dop[q].attempts > 0
               /\ dop[q].attempts > 0 => dop[q].status # "none"
    BY <1>5, <2>2, SweptRows DEF DispositionInv, Requested
  <2> QED BY <2>1, <2>2
<1>9. Requested'
  BY <1>1, <1>8 DEF Requested, DispositionInv, lifecycleVars, queueVars
<1>10. Attempted'
  <2>1. ASSUME NEW x \in DWorkers, x # w, dw'[x].pc # "idle"
        PROVE  dw'[x].r \in Requests /\ dop'[dw'[x].r].attempts > 0 /\ dw'[x].attempts > 0
    BY <1>5, <1>8, <2>1, BusyFacts
  <2>2. dw'[w].r \in Requests /\ dop'[dw'[w].r].attempts > 0 /\ dw'[w].attempts > 0
    BY <1>2, <1>5, <1>6
  <2> QED BY <2>1, <2>2 DEF Attempted
<1>11. ASSUME NEW x \in DWorkers, Releasing(x)
       PROVE  dop'[dw[x].r] = dop[dw[x].r] /\ dw[x].r \in Requests
  <2>1. ~DLeaseExpired(dw[x].r) /\ dop[dw[x].r].status = "leased" /\ dw[x].r \in Requests
    BY <1>1, <1>11, LeaseFacts
  <2> QED BY <1>1, <1>5, <2>1, SweptRows
<1>12. \A x \in DWorkers : Releasing(x)' => Releasing(x) /\ dw'[x] = dw[x]
  BY <1>5, <1>6 DEF Releasing
<1> QED BY <1>1, <1>7, <1>9, <1>10, <1>11, <1>12, LeaseFacts, RowStep DEF lifecycleVars

\* fail, whichever way it ends: the row lock is needed, and the worker goes idle.
LEMMA FailStep ==
    ASSUME DispositionInv, NEW w \in DWorkers, DRetry(w) \/ DBlock(w)
    PROVE  DispositionInv' /\ Aside
<1>1. dw[w].pc # "idle"
  BY DEF DRetry, DBlock
<1> PICK r \in Requests : r = dw[w].r
  BY <1>1, BusyFacts
<1>2. /\ req[r].status # "none" /\ dop[r].status # "none" /\ dop[r].attempts > 0
      /\ req[r] \in ReqRow /\ dop[r] \in DopRow
  BY <1>1, BusyFacts, RequestFacts
<1>3. /\ ~DRowLocked(r) /\ dw' = [dw EXCEPT ![w] = IdleDWorker] /\ UNCHANGED lifecycleVars
  BY DEF DRetry, DBlock
<1>4. /\ req' \in [Requests -> ReqRow] /\ dop' \in [Requests -> DopRow]
      /\ \A q \in Requests : q # r => req'[q] = req[q] /\ dop'[q] = dop[q]
      /\ req'[r].t = req[r].t
      /\ req'[r] = req[r] \/ (req'[r].status = "blocked" /\ req'[r].receipt = "blocked")
      /\ dop'[r].attempts = dop[r].attempts /\ dop'[r].status # "none"
  <2>1. ASSUME NEW row \in ReqRow, row.t = req[r].t,
               row = req[r] \/ (row.status = "blocked" /\ row.receipt = "blocked"),
               req' = [req EXCEPT ![r] = row],
               NEW drow \in DopRow, drow.attempts = dop[r].attempts, drow.status # "none",
               dop' = [dop EXCEPT ![r] = drow]
        PROVE  <1>4!1 /\ <1>4!2 /\ <1>4!3 /\ <1>4!4 /\ <1>4!5
    BY <2>1, InvTypes
  <2> PICK old \in DopRow : old = dop[r]
    BY <1>2
  <2>2. req = [req EXCEPT ![r] = req[r]] /\ dop = [dop EXCEPT ![r] = old]
    BY InvTypes
  <2>3. CASE UNCHANGED <<req, dop>>
    BY <1>2, <2>1, <2>2, <2>3
  <2>4. CASE DRetry(w) /\ dop[r].status = "leased"
    <3> PICK drow : drow = Freed(old, "queued")
      OBVIOUS
    <3>1. drow \in DopRow /\ drow.attempts = dop[r].attempts /\ drow.status # "none"
      BY FreedRow
    <3>2. dop' = [dop EXCEPT ![r] = drow] /\ UNCHANGED req
      BY <2>4 DEF DRetry, Freed
    <3> QED BY <1>2, <2>1, <2>2, <3>1, <3>2
  <2>5. CASE DBlock(w) /\ ~UNCHANGED <<req, dop>>
    <3> PICK row : row = [req[r] EXCEPT !.status = "blocked", !.receipt = "blocked"]
      OBVIOUS
    <3> PICK drow : drow = Freed(old, "blocked")
      OBVIOUS
    <3>1. drow \in DopRow /\ drow.attempts = dop[r].attempts /\ drow.status = "blocked"
      BY FreedRow
    <3>2. row \in ReqRow /\ row.t = req[r].t /\ row.status = "blocked" /\ row.receipt = "blocked"
      BY <1>2 DEF ReqRow
    <3>3. dop' = [dop EXCEPT ![r] = drow]
      BY <2>5 DEF DBlock, Freed
    <3>4. req' = [req EXCEPT ![r] = row]
      BY <2>5 DEF DBlock
    <3> QED BY <2>1, <3>1, <3>2, <3>3, <3>4
  <2>6. CASE DRetry(w) /\ dop[r].status # "leased"
    BY <2>3, <2>6 DEF DRetry
  <2> QED BY <2>3, <2>4, <2>5, <2>6
<1>5. dw' \in [DWorkers -> DWorkerRow] /\ dw'[w].pc = "idle"
      /\ \A x \in DWorkers : x # w => dw'[x] = dw[x]
  BY <1>3, InvTypes, PcRow
<1>6. DispositionTypeOK'
  BY <1>4, <1>5, InvTypes DEF DispositionTypeOK
<1>7. Requested'
  BY <1>2, <1>3, <1>4, InvTypes, BusyFacts
     DEF Requested, DispositionInv, lifecycleVars, queueVars
<1>8. Attempted'
  BY <1>4, <1>5, InvTypes DEF Attempted, DispositionInv
<1>9. \A x \in DWorkers : Releasing(x) => dw[x].r # r
  BY <1>3, LeaseFacts
<1>10. \A x \in DWorkers : Releasing(x)' => Releasing(x) /\ dw'[x] = dw[x]
  BY <1>5 DEF Releasing
<1> QED BY <1>3, <1>4, <1>6, <1>7, <1>8, <1>9, <1>10, InvTypes, LeaseFacts, RowStep
        DEF lifecycleVars

LEMMA BeginStep ==
    ASSUME DispositionInv, NEW w \in DWorkers, DBegin(w) PROVE DispositionInv' /\ Aside
<1>1. dw[w].pc # "idle" /\ dw[w].pc = "claimed"
  BY DEF DBegin
<1> PICK r \in Requests : r = dw[w].r
  BY <1>1, BusyFacts
<1> PICK v \in Versions : v = VersionOf(r)
  BY <1>1, BusyFacts
<1>2. /\ ~locked[v]
      /\ UNCHANGED <<now, portfolioVars, storageVars, proj, queueVars, lw, faults, req, dop>>
  BY DEF DBegin
<1>3. CASE dw' = [dw EXCEPT ![w].pc = "blocking"] /\ UNCHANGED locked
  BY <1>1, <1>2, <1>3, InvTypes, QuietMove DEF storageVars
<1>4. CASE /\ ExactProvenance(w, r) /\ ~Blocked(v, RequiredBy(r))
           /\ dw' = [dw EXCEPT ![w].pc = "releasing"] /\ locked' = [locked EXCEPT ![v] = TRUE]
  <2> PICK row : row = [dw[w] EXCEPT !.pc = "releasing"]
    OBVIOUS
  <2>1. /\ row \in DWorkerRow /\ row.pc = "releasing" /\ row.r = r
        /\ row.attempts = dw[w].attempts
    BY PcRow
  <2>2. /\ dw' \in [DWorkers -> DWorkerRow] /\ dw'[w] = row
        /\ \A x \in DWorkers : x # w => dw'[x] = dw[x]
        /\ locked' \in [Versions -> BOOLEAN] /\ locked'[v]
        /\ \A u \in Versions : locked[u] => locked'[u]
    BY <1>4, <2>1, InvTypes
  <2>3. Aside
    BY <1>2 DEF Aside, queueVars, storageVars
  <2>4. \A x \in LWorkers : Storing(x) => lw[x].t[2] \in Versions /\ locked[lw[x].t[2]]
    BY InvTypes, BusyWorker DEF DispositionInv, CustodyInv, AggregateIsCurrent, FencedWorker,
                                Storing
  <2>5. CustodyInv' /\ Recorded'
    BY <1>2, <2>2, <2>3, <2>4, InvTypes, CustodyAside DEF queueVars, storageVars
  <2>6. DispositionTypeOK' /\ Requested'
    BY <1>2, <2>2, InvTypes DEF DispositionInv, DispositionTypeOK, Requested, queueVars
  <2>7. Attempted'
    <3>1. dw[w].attempts > 0 /\ dop[r].attempts > 0
      BY <1>1, BusyFacts
    <3> QED BY <1>2, <2>1, <2>2, <3>1 DEF DispositionInv, Attempted
  <2>8. ASSUME NEW x \in DWorkers, Releasing(x)
        PROVE  /\ x # w /\ dw[x].r \in Requests /\ VersionOf(dw[x].r) \in Versions
               /\ locked[VersionOf(dw[x].r)] /\ VersionOf(dw[x].r) # v
    BY <1>1, <1>2, <2>8, BusyFacts DEF DispositionInv, ReleasesAreFenced, FencedRelease, Releasing
  <2>9. \A x \in DWorkers : Releasing(x)' => x = w \/ (Releasing(x) /\ dw'[x] = dw[x])
    BY <2>2 DEF Releasing
  <2>10. \A q \in Requests : VersionOf(q)' = VersionOf(q)
    BY <1>2 DEF VersionOf
  <2>11. ASSUME NEW y \in DWorkers
         PROVE  /\ y = w => VersionOf(dw[y].r)' = v
                /\ y # w => VersionOf(dw[y].r)' = VersionOf(dw[y].r)
    BY <1>2, <2>1, <2>2 DEF VersionOf
  <2>12. ASSUME NEW x \in DWorkers, x # w, Releasing(x)' PROVE FencedRelease(x)'
    <3>1. Releasing(x) /\ dw'[x] = dw[x] /\ FencedRelease(x)
      BY <2>9, <2>12 DEF DispositionInv, ReleasesAreFenced
    <3>2. \A y \in DWorkers : Releasing(y)' /\ VersionOf(dw[y].r)' = VersionOf(dw[x].r) => y = x
      BY <2>8, <2>9, <2>11, <3>1 DEF FencedRelease
    <3> QED BY <1>2, <2>2, <2>3, <2>8, <3>1, <3>2, LeaseFacts, StaysFenced
  <2>13. FencedRelease(w)'
    <3>1. /\ dw'[w].r = r /\ dw'[w].pc = "releasing"
          /\ req'[r].status = "approved" /\ dop'[r].status = "leased" /\ dop'[r].owner = w
      BY <1>2, <1>4, <2>1, <2>2 DEF ExactProvenance
    <3>2. \A x \in LWorkers : Storing(x)' => lw'[x].t[2] # v
      BY <1>2, <2>4 DEF Storing
    <3>3. \A x \in DWorkers : Releasing(x)' /\ VersionOf(dw[x].r)' = v => x = w
      BY <2>8, <2>9, <2>11
    <3>4. req[r].status # "none"
      BY <1>1, BusyFacts
    <3>5. VersionOf(r)' = v /\ ~Blocked(v, RequiredBy(r))'
      BY <1>4, <2>3, <3>4, AsideFacts
    <3> QED BY <2>2, <3>1, <3>2, <3>3, <3>5 DEF FencedRelease
  <2> QED BY <2>3, <2>5, <2>6, <2>7, <2>12, <2>13 DEF DispositionInv, ReleasesAreFenced
<1> QED BY <1>3, <1>4 DEF DBegin

LEMMA CompletedRow ==
    ASSUME NEW row \in TransRow
    PROVE  /\ [row EXCEPT !.status = "completed", !.error = ""] \in TransRow
           /\ [row EXCEPT !.status = "completed", !.error = ""].status = "completed"
           /\ [row EXCEPT !.status = "completed", !.error = ""].required = row.required
BY DEF TransRow, TransStatus, TransError

\* The commit: the version leaves custody in the projection only when every reference
\* is ceased and retained, which is what the worker checked and still is true.
LEMMA CommitStep ==
    ASSUME DispositionInv, NEW w \in DWorkers, DCommit(w) PROVE DispositionInv' /\ Aside
<1>1. dw[w].pc # "idle" /\ dw[w].pc = "released" /\ Releasing(w)
  BY DEF DCommit, Releasing
<1> PICK r \in Requests : r = dw[w].r
  BY <1>1, BusyFacts
<1> PICK v \in Versions : v = VersionOf(r)
  BY <1>1, BusyFacts
<1> PICK t \in Trans : t = req[r].t
  BY <1>1, BusyFacts
<1>2. /\ locked' = [locked EXCEPT ![VersionOf(dw[w].r)] = FALSE]
      /\ UNCHANGED <<now, portfolioVars, storageVars, op, nextOp, lw, faults>>
  BY DEF DCommit
<1>3. CASE expiry[t] # "open"
  <2>1. dw' = [dw EXCEPT ![w].pc = "retrying"] /\ UNCHANGED <<req, trans, expiry, proj, dop>>
    BY <1>3 DEF DCommit
  <2> QED BY <1>1, <1>2, <2>1, InvTypes, QuietMove DEF storageVars, queueVars
<1>4. CASE expiry[t] = "open"
  <2> PICK row : row = [req[r] EXCEPT !.status = "closed", !.receipt = "released"]
    OBVIOUS
  <2> PICK old \in DopRow : old = dop[r]
    BY InvTypes
  <2> PICK drow : drow = Freed(old, "released")
    OBVIOUS
  <2> PICK trow : trow = [trans[t] EXCEPT !.status = "completed", !.error = ""]
    OBVIOUS
  <2>1. /\ req' = [req EXCEPT ![r] = row]
        /\ dop' = [dop EXCEPT ![r] = drow]
        /\ trans' = [trans EXCEPT ![t] = trow]
        /\ expiry' = [expiry EXCEPT ![t] = "consumed"]
        /\ proj' = [proj EXCEPT ![v] = [custody |-> FALSE, legal |-> FALSE, disposition |-> FALSE]]
        /\ dw' = [dw EXCEPT ![w] = IdleDWorker]
    BY <1>4 DEF DCommit, Freed
  <2>2. row \in ReqRow /\ row.t = t /\ row.status = "closed" /\ row.receipt = "released"
    BY InvTypes DEF ReqRow
  <2>3. drow \in DopRow /\ drow.status = "released" /\ drow.attempts = dop[r].attempts
    BY FreedRow
  <2>4. trow \in TransRow /\ trow.status = "completed" /\ trow.required = trans[t].required
    <3> PICK was \in TransRow : was = trans[t]
      BY InvTypes
    <3> QED BY CompletedRow
  <2>5. FencedRelease(w) /\ trans[t].status # "none" /\ dop[r].attempts > 0
    BY <1>1, BusyFacts, RequestFacts DEF DispositionInv, ReleasesAreFenced
  <2>6. Aside
    BY <1>2, <2>1, <2>2, <2>4, <2>5, InvTypes DEF Aside, storageVars
  <2>7. TypeInv'
    BY <1>2, <2>1, <2>4, InvTypes, ReturnsItsOwn
       DEF TypeInv, LifecycleTypeOK, Targeted, ProjRow, portfolioVars, storageVars
  <2>8. CustodyInv' /\ Recorded'
    <3>1. ASSUME NEW p \in refs[v]
          PROVE  ceasedOn[p] # NoDate /\ Deadline(p) # NoDate /\ Deadline(p) =< retainUntil[v]
      <4>1. /\ ceasedOn[p] # NoDate /\ ~(RequiredBy(r) < Deadline(p))
            /\ RequiredBy(r) =< retainUntil[v]
        BY <1>1, <2>5 DEF FencedRelease, Blocked, Releasable
      <4>2. p \in Portfolios
        BY InvTypes DEF TypeInv, LifecycleTypeOK
      <4>3. Deadline(p) \in Nat
        BY <4>1, <4>2, ConstantsAssumption, InvTypes
           DEF Deadline, TypeInv, LifecycleTypeOK, Date
      <4>4. RequiredBy(r) \in Int /\ retainUntil[v] \in Int
        BY <1>1, BusyFacts, InvTypes, DatesAreIntegers DEF TypeInv, LifecycleTypeOK
      <4> QED BY <4>1, <4>3, <4>4 DEF NoDate
    <3>2. \A u \in Versions : u # v => proj'[u] = proj[u]
      BY <2>1, InvTypes DEF TypeInv, LifecycleTypeOK
    <3>3. UNCHANGED <<ceasedOn, refs, retainUntil, lw>>
      BY <1>2 DEF portfolioVars, storageVars
    <3>4. ActiveReferencesInCustody'
      BY <3>1, <3>2, <3>3 DEF ActiveReferencesInCustody, CustodyRequired, DispositionInv,
                              CustodyInv
    <3>5. RetentionCoversReferences'
      BY <3>1, <3>2, <3>3 DEF RetentionCoversReferences, Deadline, DispositionInv, CustodyInv
    <3>6. AggregateIsCurrent'
      <4> SUFFICES ASSUME NEW x \in LWorkers, Storing(x) PROVE FencedWorker(x)'
        BY <3>3 DEF AggregateIsCurrent, Storing
      <4>1. FencedWorker(x)
        BY DEF AggregateIsCurrent, DispositionInv, CustodyInv
      <4>2. locked'[lw[x].t[2]]
        BY <1>1, <1>2, ReturnsItsOwn
      <4> QED BY <3>3, <4>1, <4>2 DEF FencedWorker, Storing, CustodyRequired,
                 RequiredRetention, Deadlines, Deadline
    <3>7. Recorded'
      BY <1>2, <2>6, InvTypes, BusyWorker DEF Recorded, Aside, DispositionInv
    <3> QED BY <2>7, <3>4, <3>5, <3>6, <3>7 DEF CustodyInv
  <2>9. dw' \in [DWorkers -> DWorkerRow] /\ dw'[w].pc = "idle"
        /\ \A x \in DWorkers : x # w => dw'[x] = dw[x]
    BY <2>1, InvTypes, PcRow
  <2>10. DispositionTypeOK'
    BY <2>1, <2>2, <2>3, <2>9, InvTypes DEF DispositionTypeOK
  <2>11. Requested'
    <3>1. \A q \in Requests : q # r => req'[q] = req[q] /\ dop'[q] = dop[q]
      BY <2>1, InvTypes
    <3>2. req'[r] = row /\ dop'[r] = drow
      BY <2>1, InvTypes
    <3>3. \A s \in Trans : trans[s].status # "none" => trans'[s].status # "none"
      BY <2>6 DEF Aside
    <3>4. ASSUME NEW q \in Requests
          PROVE  /\ req'[q].status # "none" => req'[q].t \in Trans /\ trans'[req'[q].t].status # "none"
                 /\ dop'[q].status # "none" => req'[q].status \in {"approved", "blocked", "closed"}
                 /\ dop'[q].attempts > 0 => dop'[q].status # "none"
                 /\ dop'[q].status = "leased" => dop'[q].attempts > 0
                 /\ req'[q].receipt = "released" => req'[q].status = "closed"
      <4>1. CASE q = r
        BY <2>2, <2>3, <2>5, <3>2, <3>3, <4>1
      <4>2. CASE q # r
        BY <3>1, <3>3, <4>2 DEF Requested, DispositionInv
      <4> QED BY <4>1, <4>2
    <3> QED BY <3>4 DEF Requested
  <2>12. Attempted'
    BY <2>1, <2>3, <2>9, InvTypes DEF Attempted, DispositionInv
  <2>13. ASSUME NEW x \in DWorkers, Releasing(x)' PROVE FencedRelease(x)'
    <3>1. x # w /\ Releasing(x) /\ dw'[x] = dw[x] /\ FencedRelease(x) /\ dw[x].r \in Requests
      BY <2>9, <2>13, BusyFacts DEF Releasing, DispositionInv, ReleasesAreFenced
    <3>2. dw[x].r # r
      BY <1>1, <3>1 DEF FencedRelease
    <3>3. req'[dw[x].r] = req[dw[x].r] /\ dop'[dw[x].r] = dop[dw[x].r]
      BY <2>1, <3>1, <3>2, InvTypes
    <3>4. ASSUME NEW y \in DWorkers, Releasing(y)', VersionOf(dw[y].r)' = VersionOf(dw[x].r)
          PROVE  y = x
      <4>1. Releasing(y) /\ dw'[y] = dw[y]
        BY <2>9, <3>4 DEF Releasing
      <4> PICK q \in Requests : q = dw[y].r
        BY <4>1, BusyFacts DEF Releasing
      <4>2. req[q].status # "none"
        BY <4>1, BusyFacts DEF Releasing
      <4>3. VersionOf(q)' = VersionOf(q)
        BY <2>6, <4>2, AsideFacts
      <4>4. VersionOf(dw[y].r) = VersionOf(dw[x].r)
        BY <3>4, <4>1, <4>3
      <4> QED BY <3>1, <4>1, <4>4 DEF FencedRelease
    <3>5. locked'[VersionOf(dw[x].r)]
      BY <1>1, <1>2, <3>1, ReturnsItsOwn
    <3> QED BY <2>6, <3>1, <3>3, <3>4, <3>5, LeaseFacts, StaysFenced
  <2> QED BY <2>6, <2>8, <2>10, <2>11, <2>12, <2>13 DEF DispositionInv, ReleasesAreFenced
<1> QED BY <1>3, <1>4

-----------------------------------------------------------------------------
(* The invariant holds.                                                    *)

\* Every step is the lifecycle's, one of the disposition's, or none.
DispositionNext ==
    \/ \E r \in Requests : \/ \E t \in Trans : Submit(r, t)
                           \/ \E approve \in BOOLEAN : Decide(r, approve)
                           \/ DLeaseAges(r)
    \/ \E w \in DWorkers : \/ \E r \in Requests : DClaim(w, r)
                           \/ DBegin(w) \/ DCommit(w) \/ DRetry(w) \/ DBlock(w)
                           \/ DRelease(w) \/ DReleaseUnfenced(w) \/ DRestore(w)
                           \/ DStorageFault(w) \/ DLoseConnection(w)
                           \/ DCommitFault(w) \/ DCrash(w)

LEMMA StepSplits ==
    ASSUME [Next]_vars
    PROVE  \/ [LifecycleNext]_lifecycleVars /\ UNCHANGED dispositionVars
           \/ DispositionNext
BY DEF Next, vars, DispositionNext, DWorkerStep

LEMMA OwnStep == ASSUME DispositionInv, DispositionNext PROVE DispositionInv' /\ Aside
BY SubmitStep, DecideStep, LeaseStep, ClaimStep, BeginStep, CommitStep, FailStep, QuietSteps
   DEF DispositionNext

LEMMA DispositionInit == Init => DispositionInv
<1> SUFFICES ASSUME Init PROVE DispositionInv
  OBVIOUS
<1>1. CustodyInv
  BY CustodyInit DEF Init
<1>2. DispositionTypeOK
  <2>1. NoReq \in ReqRow
    BY DEF NoReq, ReqRow
  <2>2. 0 \in 0 .. 2 /\ NoOwner \in DWorkers \cup {NoOwner} /\ FALSE \in BOOLEAN
    OBVIOUS
  <2>3. NoDop \in DopRow
    BY <2>2, Zenon DEF NoDop, DopRow
  <2>4. IdleDWorker \in DWorkerRow
    BY DEF IdleDWorker, DWorkerRow
  <2> QED BY <2>1, <2>3, <2>4 DEF Init, DispositionTypeOK
<1>3. Recorded
  BY DEF Init, LifecycleInit, Recorded, NoTrans, IdleLWorker
<1>4. Requested
  BY DEF Init, Requested, NoReq, NoDop
<1>5. Attempted /\ ReleasesAreFenced
  BY DEF Init, Attempted, ReleasesAreFenced, Releasing, IdleDWorker
<1> QED BY <1>1, <1>2, <1>3, <1>4, <1>5 DEF DispositionInv

LEMMA DispositionStep == ASSUME DispositionInv, [Next]_vars PROVE DispositionInv'
BY StepSplits, OwnStep, DispositionLifecycle

LEMMA DispositionInvariant == Spec => []DispositionInv
BY DispositionInit, DispositionStep, PTL DEF Spec

\* The rows of the disposition and of the lifecycle below it keep their types.
THEOREM DispositionTypeCorrect == Spec => []TypeOK
<1>1. DispositionInv => TypeOK
  BY DEF DispositionInv, CustodyInv, TypeInv, TypeOK
<1> QED BY <1>1, DispositionInvariant, PTL

-----------------------------------------------------------------------------
(* Receipts.                                                               *)

\* A receipt says "released" only by the commit of the worker that released.
LEMMA ReceiptsByCommit ==
    ASSUME DispositionInv, [Next]_vars, NEW r \in Requests,
           req[r].receipt # "released", req'[r].receipt = "released"
    PROVE  \E w \in DWorkers : DCommit(w) /\ dw[w].r = r /\ expiry[req[r].t] = "open"
<1> USE InvTypes
<1>1. ASSUME NEW q \in Requests, NEW row, req' = [req EXCEPT ![q] = row],
             row.receipt # "released"
      PROVE  FALSE
  BY <1>1
<1>2. ~UNCHANGED req
  OBVIOUS
<1>3. DispositionNext
  BY <1>2, StepSplits DEF dispositionVars
<1>4. ASSUME NEW q \in Requests, NEW t \in Trans, Submit(q, t) PROVE FALSE
  BY <1>4 DEF Submit
<1>5. ASSUME NEW q \in Requests, NEW approve \in BOOLEAN, Decide(q, approve) PROVE FALSE
  <2>1. req[q] \in ReqRow
    OBVIOUS
  <2>2. /\ [req[q] EXCEPT !.status = "approved"].receipt = req[q].receipt
        /\ [req[q] EXCEPT !.status = "rejected", !.receipt = "blocked"].receipt = "blocked"
    BY <2>1 DEF ReqRow
  <2>3. \/ req' = [req EXCEPT ![q] = [req[q] EXCEPT !.status = "approved"]]
        \/ req' = [req EXCEPT ![q] = [req[q] EXCEPT !.status = "rejected", !.receipt = "blocked"]]
    BY <1>5 DEF Decide
  <2> QED BY <2>2, <2>3
<1>6. ASSUME NEW w \in DWorkers, DBlock(w) PROVE FALSE
  <2> PICK q \in Requests : q = dw[w].r
    BY <1>6, BusyFacts DEF DBlock
  <2>1. [req[q] EXCEPT !.status = "blocked", !.receipt = "blocked"].receipt = "blocked"
    BY DEF ReqRow
  <2>2. req' = [req EXCEPT ![q] = [req[q] EXCEPT !.status = "blocked", !.receipt = "blocked"]]
    BY <1>2, <1>6 DEF DBlock
  <2> QED BY <2>1, <2>2
<1>7. PICK w \in DWorkers : DCommit(w)
  BY <1>2, <1>3, <1>4, <1>5, <1>6
     DEF DispositionNext, DLeaseAges, DClaim, DBegin, DRetry, DRelease, DReleaseUnfenced,
         DRestore, DStorageFault, DLoseConnection, DCommitFault, DCrash
<1> PICK q \in Requests : q = dw[w].r
  BY <1>7, BusyFacts DEF DCommit
<1>8. expiry[req[q].t] = "open"
      /\ req' = [req EXCEPT ![q].status = "closed", ![q].receipt = "released"]
  BY <1>2, <1>7 DEF DCommit
<1>9. q = r
  BY <1>8
<1> QED BY <1>7, <1>8, <1>9

\* A receipt never claims a release that a reference forbade or that retention did not
\* allow (process re-checks under the locks, and nothing moves before its commit).
THEOREM ReleaseStaysUnblocked == Spec => ReleaseIsUnblocked
<1>1. DispositionInv /\ [Next]_vars =>
        [\A r \in Requests : Released(r) => /\ ~Blocked(VersionOf(r), RequiredBy(r))
                                            /\ Releasable(r)]_vars
  <2> SUFFICES ASSUME DispositionInv, [Next]_vars, NEW r \in Requests, Released(r)
               PROVE  ~Blocked(VersionOf(r), RequiredBy(r)) /\ Releasable(r)
    OBVIOUS
  <2>1. PICK w \in DWorkers : DCommit(w) /\ dw[w].r = r
    BY ReceiptsByCommit DEF Released
  <2>2. FencedRelease(w) /\ dw[w].pc = "released"
    BY <2>1 DEF DispositionInv, ReleasesAreFenced, Releasing, DCommit
  <2> QED BY <2>1, <2>2 DEF FencedRelease
<1> QED BY <1>1, DispositionInvariant, PTL DEF Spec, ReleaseIsUnblocked

\* A receipt is for ever, and so is the target of its request.
LEMMA ReceiptsStay ==
    ASSUME DispositionInv, [Next]_vars, NEW r \in Requests, req[r].receipt = "released"
    PROVE  req'[r].receipt = "released" /\ req'[r].t = req[r].t
<1>1. req[r].status = "closed"
  BY DEF DispositionInv, Requested
<1>2. ASSUME UNCHANGED req PROVE req'[r] = req[r]
  BY <1>2
<1>3. ASSUME NEW q \in Requests, q # r, NEW row, req' = [req EXCEPT ![q] = row]
      PROVE  req'[r] = req[r]
  BY <1>3, InvTypes
<1>4. CASE DispositionNext
  <2>1. ASSUME NEW q \in Requests, NEW t \in Trans, Submit(q, t) PROVE req'[r] = req[r]
    BY <1>1, <1>3, <2>1 DEF Submit
  <2>2. ASSUME NEW q \in Requests, NEW approve \in BOOLEAN, Decide(q, approve)
        PROVE  req'[r] = req[r]
    <3>1. q # r
      BY <1>1, <2>2 DEF Decide
    <3> QED BY <2>2, <3>1, InvTypes DEF Decide
  <2>3. ASSUME NEW w \in DWorkers, DBlock(w) \/ DCommit(w) PROVE req'[r] = req[r]
    <3> PICK q \in Requests : q = dw[w].r
      BY <2>3, BusyFacts DEF DBlock, DCommit
    <3>1. CASE UNCHANGED req
      BY <1>2, <3>1
    <3>2. CASE ~UNCHANGED req
      <4>1. req[q].status = "approved"
        <5>1. CASE DBlock(w)
          BY <3>2, <5>1 DEF DBlock
        <5>2. CASE DCommit(w)
          BY <5>2, LeaseFacts DEF DCommit, Releasing
        <5> QED BY <2>3, <5>1, <5>2
      <4>2. q # r
        BY <1>1, <4>1
      <4>3. \/ req' = [req EXCEPT ![q].status = "closed", ![q].receipt = "released"]
            \/ req' = [req EXCEPT ![q].status = "blocked", ![q].receipt = "blocked"]
        BY <2>3, <3>2 DEF DBlock, DCommit
      <4> QED BY <4>2, <4>3, InvTypes
    <3> QED BY <3>1, <3>2
  <2> QED BY <1>2, <1>4, <2>1, <2>2, <2>3
          DEF DispositionNext, DLeaseAges, DClaim, DBegin, DRetry, DRelease, DReleaseUnfenced,
              DRestore, DStorageFault, DLoseConnection, DCommitFault, DCrash
<1> QED BY <1>2, <1>4, StepSplits DEF dispositionVars

\* Only the same commit consumes an expiry event, and no event opens twice.
LEMMA ExpiryByCommit ==
    ASSUME DispositionInv, [Next]_vars, NEW t \in Trans
    PROVE  \/ expiry'[t] = "consumed" <=> expiry[t] = "consumed"
           \/ \E w \in DWorkers : DCommit(w) /\ req[dw[w].r].t = t /\ expiry[t] = "open"
<1>0. expiry \in [Trans -> {"none", "open", "consumed"}]
  BY InvTypes DEF TypeInv, LifecycleTypeOK
<1>1. CASE UNCHANGED expiry
  BY <1>1
<1>2. ASSUME NEW w \in LWorkers, NEW s \in Trans, LClaim(w, s)
      PROVE  expiry'[t] = "consumed" <=> expiry[t] = "consumed"
  BY <1>0, <1>2 DEF LClaim, ExpirySwept
<1>3. CASE [LifecycleNext]_lifecycleVars
  BY <1>1, <1>2, <1>3
     DEF LifecycleNext, lifecycleVars, queueVars, Commands, RecordCessation, SetLegalHold,
         AttachDocument, ReplaceDocument, RetryOperation, Tick, LeaseAges, LWorkerStep, LBegin,
         LReconcile, LCommit, LFail, LProject, LStorageFault, LCrash
<1>4. ASSUME NEW w \in DWorkers, DCommit(w)
      PROVE  \/ expiry'[t] = "consumed" <=> expiry[t] = "consumed"
             \/ req[dw[w].r].t = t /\ expiry[t] = "open"
  <2> PICK s \in Trans : s = req[dw[w].r].t
    BY <1>4, BusyFacts DEF DCommit
  <2>1. CASE expiry[s] = "open"
    BY <1>0, <1>4, <2>1 DEF DCommit
  <2>2. CASE expiry[s] # "open"
    BY <1>1, <1>4, <2>2 DEF DCommit
  <2> QED BY <2>1, <2>2
<1>5. CASE DispositionNext
  BY <1>1, <1>4, <1>5
     DEF DispositionNext, Submit, Decide, DLeaseAges, DClaim, DBegin, DRetry, DBlock, DRelease,
         DReleaseUnfenced, DRestore, DStorageFault, DLoseConnection, DCommitFault, DCrash,
         lifecycleVars, queueVars
<1> QED BY <1>3, <1>5, StepSplits

Receipts ==
    /\ \A r \in Requests : req[r].receipt = "released" => expiry[req[r].t] = "consumed"
    /\ \A r, q \in Requests : /\ req[r].receipt = "released"
                              /\ req[q].receipt = "released"
                              /\ req[r].t = req[q].t
                              => r = q
    /\ \A t \in Trans : expiry[t] = "consumed" =>
          \E r \in Requests : req[r].t = t /\ req[r].receipt = "released"

LEMMA ReceiptsStep == ASSUME DispositionInv, Receipts, [Next]_vars PROVE Receipts'
<1>1. \A r \in Requests : req[r].receipt = "released" => req[r].t \in Trans
  BY RequestFacts DEF DispositionInv, Requested
<1>2. ASSUME NEW w \in DWorkers, DCommit(w), expiry[req[dw[w].r].t] = "open"
      PROVE  Receipts'
  <2> PICK r \in Requests : r = dw[w].r
    BY <1>2, BusyFacts DEF DCommit
  <2> PICK t \in Trans : t = req[r].t
    BY <1>2, BusyFacts DEF DCommit
  <2>1. /\ expiry \in [Trans -> {"none", "open", "consumed"}]
        /\ expiry' = [expiry EXCEPT ![t] = "consumed"]
        /\ req' = [req EXCEPT ![r].status = "closed", ![r].receipt = "released"]
    BY <1>2, InvTypes DEF DCommit, TypeInv, LifecycleTypeOK
  <2>2. /\ req'[r].t = t /\ req'[r].receipt = "released"
        /\ \A q \in Requests : q # r => req'[q] = req[q]
    BY <2>1, InvTypes DEF ReqRow
  <2>3. /\ expiry'[t] = "consumed" /\ expiry[t] # "consumed"
        /\ \A s \in Trans : s # t => expiry'[s] = expiry[s]
    BY <1>2, <2>1
  <2>4. \A q \in Requests : req[q].receipt = "released" => req[q].t # t
    BY <1>1, <2>3 DEF Receipts
  <2>5. \A q \in Requests : q # r /\ req'[q].receipt = "released" =>
            req'[q].t \in Trans /\ req'[q].t # t /\ expiry'[req'[q].t] = "consumed"
    BY <1>1, <2>2, <2>3, <2>4 DEF Receipts
  <2>6. \A s \in Trans : expiry'[s] = "consumed" =>
          \E q \in Requests : req'[q].t = s /\ req'[q].receipt = "released"
    <3>1. ASSUME NEW s \in Trans, s # t, expiry'[s] = "consumed"
          PROVE  \E q \in Requests : req'[q].t = s /\ req'[q].receipt = "released"
      <4>1. PICK q \in Requests : req[q].t = s /\ req[q].receipt = "released"
        BY <2>3, <3>1 DEF Receipts
      <4>2. req'[q].t = s /\ req'[q].receipt = "released"
        BY <4>1, ReceiptsStay
      <4> QED BY <4>2
    <3> QED BY <2>2, <3>1
  <2>7. \A q, p \in Requests : /\ req'[q].receipt = "released"
                               /\ req'[p].receipt = "released"
                               /\ req'[q].t = req'[p].t
                               => q = p
    <3>1. ASSUME NEW q \in Requests, NEW p \in Requests, q # r, p # r,
                 req'[q].receipt = "released", req'[p].receipt = "released",
                 req'[q].t = req'[p].t
          PROVE  q = p
      <4>1. req'[q] = req[q] /\ req'[p] = req[p]
        BY <2>2, <3>1
      <4> QED BY <3>1, <4>1 DEF Receipts
    <3> QED BY <2>2, <2>5, <3>1
  <2> QED BY <2>2, <2>3, <2>5, <2>6, <2>7 DEF Receipts
<1>3. ASSUME ~\E w \in DWorkers : DCommit(w) /\ expiry[req[dw[w].r].t] = "open"
      PROVE  Receipts'
  <2>1. \A t \in Trans : expiry'[t] = "consumed" <=> expiry[t] = "consumed"
    BY <1>3, ExpiryByCommit
  <2>2. ASSUME NEW r \in Requests
        PROVE  /\ req'[r].receipt = "released" <=> req[r].receipt = "released"
               /\ req[r].receipt = "released" => req'[r].t = req[r].t
    BY <1>3, ReceiptsStay, ReceiptsByCommit
  <2>3. /\ \A r \in Requests : req'[r].receipt = "released" =>
              req'[r].t \in Trans /\ expiry'[req'[r].t] = "consumed"
        /\ \A r, q \in Requests : /\ req'[r].receipt = "released"
                                  /\ req'[q].receipt = "released"
                                  /\ req'[r].t = req'[q].t
                                  => r = q
    BY <1>1, <2>1, <2>2 DEF Receipts
  <2>4. ASSUME NEW t \in Trans, expiry'[t] = "consumed"
        PROVE  \E r \in Requests : req'[r].t = t /\ req'[r].receipt = "released"
    BY <2>1, <2>2, <2>4 DEF Receipts
  <2> QED BY <2>3, <2>4 DEF Receipts
<1> QED BY <1>2, <1>3

\* However often events are swept and requests submitted, every expiry event is
\* consumed by exactly one released receipt (claim's sweep and the commit of process).
THEOREM ConsumedOnce == Spec => []ConsumedByOneReceipt
<1>1. Init => Receipts
  BY DEF Init, LifecycleInit, Receipts, NoReq
<1>2. Receipts => ConsumedByOneReceipt
  <2> SUFFICES ASSUME Receipts, NEW t \in Trans
               PROVE  Cardinality({r \in Requests : req[r].t = t /\ req[r].receipt = "released"})
                        = IF expiry[t] = "consumed" THEN 1 ELSE 0
    BY DEF ConsumedByOneReceipt
  <2> DEFINE R == {r \in Requests : req[r].t = t /\ req[r].receipt = "released"}
  <2>1. CASE expiry[t] = "consumed"
    <3>1. PICK r \in Requests : req[r].t = t /\ req[r].receipt = "released"
      BY <2>1 DEF Receipts
    <3>2. R = {r}
      BY <3>1 DEF Receipts
    <3> QED BY <2>1, <3>2, FS_Singleton
  <2>2. CASE expiry[t] # "consumed"
    <3>1. R = {}
      BY <2>2 DEF Receipts
    <3> QED BY <2>2, <3>1, FS_EmptySet
  <2> QED BY <2>1, <2>2
<1> QED BY <1>1, <1>2, ReceiptsStep, DispositionInvariant, PTL DEF Spec

-----------------------------------------------------------------------------
(* Holds.                                                                  *)

\* The attempts of an operation are never forgotten.
LEMMA AttemptsGrow ==
    ASSUME DispositionInv, [Next]_vars, NEW r \in Requests, dop[r].attempts > 0
    PROVE  dop[r].attempts =< dop'[r].attempts
<1>0. dop[r].attempts \in 0 .. 2
  BY InvTypes DEF DopRow
<1>1. ASSUME UNCHANGED dop PROVE dop[r].attempts =< dop'[r].attempts
  BY <1>0, <1>1
<1>2. ASSUME NEW q \in Requests, NEW row, dop' = [dop EXCEPT ![q] = row],
             row.attempts = dop[q].attempts
      PROVE  dop[r].attempts =< dop'[r].attempts
  BY <1>0, <1>2, InvTypes
<1>3. ASSUME NEW q \in Requests, NEW approve \in BOOLEAN, Decide(q, approve)
      PROVE  dop[r].attempts =< dop'[r].attempts
  <2>1. q # r
    BY <1>3 DEF Decide, DispositionInv, Requested
  <2> QED BY <1>0, <1>3, <2>1, InvTypes DEF Decide
<1>4. ASSUME NEW q \in Requests, DLeaseAges(q) PROVE dop[r].attempts =< dop'[r].attempts
  <2> PICK row : row = [dop[q] EXCEPT !.stale = TRUE]
    OBVIOUS
  <2>1. row.attempts = dop[q].attempts
    BY InvTypes, StaleRow
  <2> QED BY <1>2, <1>4, <2>1 DEF DLeaseAges
<1>5. ASSUME NEW w \in DWorkers, NEW q \in Requests, DClaim(w, q) PROVE dop[r].attempts =< dop'[r].attempts
  <2>1. DSwept \in [Requests -> DopRow]
    <3>1. DSwept = [p \in Requests |-> DSwept[p]]
      BY Zenon DEF DSwept
    <3> QED BY <3>1, SweptRows
  <2>2. CASE q # r
    BY <1>0, <1>5, <2>1, <2>2, SweptRows DEF DClaim
  <2>3. CASE q = r
    <3>1. dop'[r].attempts = DBump(DSwept[r].attempts)
      BY <1>5, <2>1, <2>3 DEF DClaim
    <3>2. DSwept[r].attempts = dop[r].attempts
      BY SweptRows
    <3> QED BY <1>0, <3>1, <3>2 DEF DBump
  <2> QED BY <2>2, <2>3
<1>6. ASSUME NEW w \in DWorkers, DRetry(w) \/ DBlock(w) \/ DCommit(w)
      PROVE  dop[r].attempts =< dop'[r].attempts
  <2> PICK q \in Requests : q = dw[w].r
    BY <1>6, BusyFacts DEF DRetry, DBlock, DCommit
  <2> PICK old \in DopRow : old = dop[q]
    BY InvTypes
  <2>1. ASSUME NEW status \in {"queued", "released", "blocked"},
               dop' = [dop EXCEPT ![q] = Freed(old, status)]
        PROVE  dop[r].attempts =< dop'[r].attempts
    <3>1. Freed(old, status).attempts = old.attempts
      BY FreedRow
    <3> QED BY <1>2, <2>1, <3>1
  <2>2. CASE DRetry(w)
    <3>1. UNCHANGED dop \/ dop' = [dop EXCEPT ![q] = Freed(old, "queued")]
      BY <2>2 DEF DRetry, Freed
    <3> QED BY <1>1, <2>1, <3>1
  <2>3. CASE DBlock(w)
    <3>1. UNCHANGED dop \/ dop' = [dop EXCEPT ![q] = Freed(old, "blocked")]
      BY <2>3 DEF DBlock, Freed
    <3> QED BY <1>1, <2>1, <3>1
  <2>4. CASE DCommit(w)
    <3>1. UNCHANGED dop \/ dop' = [dop EXCEPT ![q] = Freed(old, "released")]
      BY <2>4 DEF DCommit, Freed
    <3> QED BY <1>1, <2>1, <3>1
  <2> QED BY <1>6, <2>2, <2>3, <2>4
<1>7. CASE DispositionNext
  BY <1>1, <1>3, <1>4, <1>5, <1>6, <1>7
     DEF DispositionNext, Submit, DBegin, DRelease, DReleaseUnfenced, DRestore, DStorageFault,
         DLoseConnection, DCommitFault, DCrash
<1> QED BY <1>1, <1>7, StepSplits DEF dispositionVars

\* An operation that was attempted keeps its count, its request and its deadline.
LEMMA AttemptsStay ==
    ASSUME DispositionInv, [Next]_vars, NEW r \in Requests, dop[r].attempts > 0
    PROVE  dop'[r].attempts > 0
<1>1. dop[r].attempts \in 0 .. 2 /\ DispositionInv'
  BY InvTypes, DispositionStep DEF DopRow
<1>2. dop'[r].attempts \in 0 .. 2
  BY <1>1 DEF DispositionInv, DispositionTypeOK, DopRow
<1> QED BY <1>1, <1>2, AttemptsGrow

LEMMA StandingStays ==
    ASSUME DispositionInv, [Next]_vars, NEW r \in Requests, dop[r].attempts > 0
    PROVE  /\ dop'[r].attempts > 0
           /\ req'[r].status \in {"approved", "blocked", "closed"}
           /\ req'[r].t = req[r].t
           /\ VersionOf(r)' = VersionOf(r)
           /\ RequiredBy(r)' = RequiredBy(r)
<1>1. dop'[r].attempts > 0 /\ DispositionInv'
  BY AttemptsStay, DispositionStep
<1>2. req'[r].status \in {"approved", "blocked", "closed"}
  BY <1>1 DEF DispositionInv, Requested
<1>3. req[r].status # "none" /\ req[r].t \in Trans /\ trans[req[r].t].status # "none"
  BY DEF DispositionInv, Requested
<1>4. CASE DispositionNext
  BY <1>1, <1>2, <1>3, <1>4, OwnStep, AsideFacts
<1>5. CASE [LifecycleNext]_lifecycleVars /\ UNCHANGED dispositionVars
  <2>1. req'[r] = req[r] /\ trans'[req[r].t].required = trans[req[r].t].required
    BY <1>3, <1>5, RecordsStay DEF DispositionInv, dispositionVars
  <2> QED BY <1>1, <1>2, <2>1 DEF VersionOf, RequiredBy
<1> QED BY <1>4, <1>5, StepSplits

LEMMA OffByRelease ==
    ASSUME DispositionInv, [Next]_vars, NEW v \in Versions, hold[v], ~hold'[v]
    PROVE  \E w \in DWorkers : /\ dw[w].pc # "idle"
                               /\ DRelease(w) \/ DStorageFault(w) \/ DReleaseUnfenced(w)
                               /\ VersionOf(dw[w].r) = v
                               /\ Releasable(dw[w].r)
<1>1. ~UNCHANGED hold
  OBVIOUS
<1>2. DispositionNext
  BY StepSplits, HoldsStay DEF DispositionInv
<1>3. PICK w \in DWorkers : DRelease(w) \/ DStorageFault(w) \/ DReleaseUnfenced(w) \/ DRestore(w)
  BY <1>1, <1>2
     DEF DispositionNext, Submit, Decide, DLeaseAges, DClaim, DBegin, DCommit, DRetry, DBlock,
         DLoseConnection, DCommitFault, DCrash, lifecycleVars, storageVars
<1>4. dw[w].pc # "idle"
  BY <1>3 DEF DRelease, DStorageFault, DReleaseUnfenced, DRestore
<1> PICK u \in Versions : u = VersionOf(dw[w].r)
  BY <1>4, BusyFacts
<1>5. ~DRestore(w)
  BY <1>1, InvTypes DEF DRestore
<1>6. hold' = [hold EXCEPT ![u] = FALSE] /\ Releasable(dw[w].r)
  BY <1>1, <1>3, <1>5 DEF DRelease, DStorageFault, DReleaseUnfenced
<1>7. u = v
  BY <1>6, InvTypes
<1> QED BY <1>3, <1>4, <1>5, <1>6, <1>7

\* Time and retention only grow.
LEMMA TimePasses ==
    ASSUME DispositionInv, [Next]_vars
    PROVE  /\ now \in Int /\ now' \in Int /\ now =< now'
           /\ \A v \in Versions : retainUntil[v] =< retainUntil'[v]
           /\ \A v \in Versions : retainUntil[v] \in Int /\ retainUntil'[v] \in Int
<1>1. DispositionInv'
  BY DispositionStep
<1>2. /\ now \in Int /\ now' \in Int
      /\ \A v \in Versions : retainUntil[v] \in Int /\ retainUntil'[v] \in Int
  BY <1>1, DatesAreIntegers DEF DispositionInv, CustodyInv, TypeInv, LifecycleTypeOK
<1>3. CASE DispositionNext
  BY <1>2, <1>3, OwnStep DEF Aside
<1>4. CASE [LifecycleNext]_lifecycleVars
  <2>1. now' = now \/ now' = now + 1
    BY <1>4 DEF LifecycleNext, lifecycleVars, Commands, RecordCessation, SetLegalHold,
         AttachDocument, ReplaceDocument, RetryOperation, Tick, LeaseAges, LWorkerStep, LClaim,
         LBegin, LReconcile, LCommit, LFail, LProject, LStorageFault, LCrash
  <2> QED BY <1>2, <1>4, <2>1, HoldsStay DEF DispositionInv
<1> QED BY <1>2, <1>3, <1>4, StepSplits

\* An Object Lock hold goes off for one reason only: an approved and attempted
\* disposition of that version, after a deadline its retention covers.
THEOREM HoldOffIsDisposed == Spec => []HoldOffNeedsDisposition
<1> DEFINE Cause(v, r) == /\ req[r].status \in {"approved", "blocked", "closed"}
                          /\ dop[r].attempts > 0
                          /\ VersionOf(r) = v
                          /\ RequiredBy(r) =< now
                          /\ RequiredBy(r) =< retainUntil[v]
<1>1. Init => HoldOffNeedsDisposition
  BY DEF Init, LifecycleInit, HoldOffNeedsDisposition
<1>2. DispositionInv /\ HoldOffNeedsDisposition /\ [Next]_vars => HoldOffNeedsDisposition'
  <2> SUFFICES ASSUME DispositionInv, HoldOffNeedsDisposition, [Next]_vars,
                      NEW v \in Versions, ~hold'[v]
               PROVE  \E r \in Requests : Cause(v, r)'
    BY DEF HoldOffNeedsDisposition
  <2>1. PICK r \in Requests : Cause(v, r)
    <3>1. CASE ~hold[v]
      BY <3>1 DEF HoldOffNeedsDisposition
    <3>2. CASE hold[v]
      <4>1. PICK w \in DWorkers : /\ dw[w].pc # "idle" /\ VersionOf(dw[w].r) = v
                                  /\ Releasable(dw[w].r)
        BY <3>2, OffByRelease
      <4> PICK r \in Requests : r = dw[w].r
        BY <4>1, BusyFacts
      <4> QED BY <4>1, BusyFacts DEF Releasable
    <3> QED BY <3>1, <3>2
  <2>2. /\ dop'[r].attempts > 0
        /\ req'[r].status \in {"approved", "blocked", "closed"}
        /\ VersionOf(r)' = v /\ RequiredBy(r)' = RequiredBy(r)
    BY <2>1, StandingStays
  <2>3. RequiredBy(r) \in Int
    <3>1. RequiredBy(r) \in Date
      BY <2>1, RequestFacts
    <3> QED BY <3>1, DatesAreIntegers
  <2>4. RequiredBy(r) =< now' /\ RequiredBy(r) =< retainUntil'[v]
    BY <2>1, <2>3, TimePasses
  <2> QED BY <2>2, <2>4
<1> QED BY <1>1, <1>2, DispositionInvariant, PTL DEF Spec

-----------------------------------------------------------------------------
(* What a false receipt takes.                                              *)

\* Another request for the version of r has been attempted more than once.
Interferes(q, r) == q # r /\ VersionOf(q) = VersionOf(r) /\ dop[q].attempts > 1

\* Nothing changes between the verified object transition and the durable receipt
\* but for the restoring worker of another request of that version.
OnlyRestoresIntervene ==
    [][\A r \in Requests : Released(r) /\ hold'[VersionOf(r)]
          => \E q \in Requests : Interferes(q, r)]_vars

ReceiptInv ==
    /\ \A w \in DWorkers : dw[w].pc # "idle" => dw[w].attempts =< dop[dw[w].r].attempts
    /\ \A w \in DWorkers, r \in Requests :
          dw[w].pc = "released" /\ dw[w].r = r /\ hold[VersionOf(r)]
             => \E q \in Requests : Interferes(q, r)

\* A worker keeps its operation and its count from its claim on.
LEMMA WorkerKeepsItsRequest ==
    ASSUME DispositionInv, [Next]_vars, NEW w \in DWorkers, dw'[w].pc # "idle"
    PROVE  \/ \E r \in Requests : DClaim(w, r)
           \/ /\ dw[w].pc # "idle"
              /\ dw'[w].r = dw[w].r /\ dw'[w].attempts = dw[w].attempts
              /\ dw'[w].pc = "released" => dw[w].pc = "released" \/ DRelease(w)
<1> DEFINE Kept == /\ dw[w].pc # "idle"
                   /\ dw'[w].r = dw[w].r /\ dw'[w].attempts = dw[w].attempts
                   /\ dw'[w].pc = "released" => dw[w].pc = "released" \/ DRelease(w)
<1>0. dw \in [DWorkers -> DWorkerRow]
  BY InvTypes
<1>1. ASSUME UNCHANGED dw PROVE Kept
  BY <1>1
<1>2. ASSUME NEW x \in DWorkers, dw[x].pc # "idle", dw' = [dw EXCEPT ![x] = IdleDWorker] PROVE Kept
  BY <1>0, <1>2 DEF IdleDWorker
<1>3. ASSUME NEW x \in DWorkers, dw[x].pc # "idle",
             NEW pc \in {"idle", "claimed", "releasing", "unfenced", "released", "retrying",
                         "blocking", "restored"},
             dw' = [dw EXCEPT ![x].pc = pc], pc = "released" => DRelease(x)
      PROVE  Kept
  <2> PICK row : row = [dw[x] EXCEPT !.pc = pc]
    OBVIOUS
  <2>1. dw' = [dw EXCEPT ![x] = row]
    BY <1>3
  <2>2. row.pc = pc /\ row.r = dw[x].r /\ row.attempts = dw[x].attempts
    BY PcRow
  <2> QED BY <1>0, <1>3, <2>1, <2>2
<1>4. ASSUME NEW x \in DWorkers, NEW r \in Requests, DClaim(x, r), x # w PROVE Kept
  BY <1>0, <1>4 DEF DClaim
<1>5. ASSUME NEW x \in DWorkers,
             DBegin(x) \/ DRelease(x) \/ DReleaseUnfenced(x) \/ DStorageFault(x)
                \/ DLoseConnection(x) \/ DCommitFault(x)
      PROVE  Kept
  BY <1>3, <1>5 DEF DBegin, DRelease, DReleaseUnfenced, DStorageFault, DLoseConnection, DCommitFault
<1>6. ASSUME NEW x \in DWorkers, DRetry(x) \/ DBlock(x) \/ DCrash(x) PROVE Kept
  BY <1>2, <1>6 DEF DRetry, DBlock, DCrash
<1>7. ASSUME NEW x \in DWorkers, DCommit(x) \/ DRestore(x) PROVE Kept
  BY <1>2, <1>3, <1>7 DEF DCommit, DRestore
<1>8. CASE DispositionNext
  BY <1>1, <1>4, <1>5, <1>6, <1>7, <1>8 DEF DispositionNext, Submit, Decide, DLeaseAges
<1> QED BY <1>1, <1>8, StepSplits DEF dispositionVars

\* The hold of a version that a release has in its fence is turned on only by the
\* restoring worker of another request.
LEMMA OnByRestore ==
    ASSUME DispositionInv, ReceiptInv, [Next]_vars, NEW w \in DWorkers, NEW r \in Requests,
           dw[w].pc = "released", dw[w].r = r, ~hold[VersionOf(r)], hold'[VersionOf(r)]
    PROVE  \E q \in Requests : Interferes(q, r)
<1> PICK v \in Versions : v = VersionOf(r)
  BY BusyFacts
<1>1. FencedRelease(w) /\ hold \in [Versions -> BOOLEAN]
  BY InvTypes DEF DispositionInv, ReleasesAreFenced, Releasing
<1>2. ASSUME [LifecycleNext]_lifecycleVars PROVE FALSE
  <2>1. ASSUME NEW x \in LWorkers, LReconcile(x) \/ LStorageFault(x) PROVE FALSE
    <3>1. Storing(x) /\ lw[x].t[2] # v
      BY <1>1, <2>1 DEF FencedRelease, LReconcile, LStorageFault, Storing
    <3>2. hold'[v] = hold[v]
      BY <1>1, <2>1, <3>1 DEF LReconcile, LStorageFault, storageVars
    <3> QED BY <3>2
  <2>2. ~UNCHANGED hold
    OBVIOUS
  <2> QED
    BY <1>2, <2>1, <2>2 DEF LifecycleNext, lifecycleVars, storageVars, Commands, RecordCessation,
       SetLegalHold, AttachDocument, ReplaceDocument, RetryOperation, Tick, LeaseAges,
       LWorkerStep, LClaim, LBegin, LCommit, LFail, LProject, LCrash
<1>3. DispositionNext /\ ~UNCHANGED hold
  BY <1>2, StepSplits
<1>4. PICK x \in DWorkers : DRestore(x)
  <2>1. ASSUME NEW x \in DWorkers, NEW u, \/ hold' = [hold EXCEPT ![u] = FALSE]
                                          \/ hold' = hold
        PROVE  FALSE
    BY <1>1, <2>1
  <2>2. ASSUME NEW x \in DWorkers, DRelease(x) \/ DStorageFault(x) \/ DReleaseUnfenced(x)
        PROVE  FALSE
    BY <2>1, <2>2 DEF DRelease, DStorageFault, DReleaseUnfenced
  <2> QED
    BY <1>3, <2>2 DEF DispositionNext, Submit, Decide, DLeaseAges, DClaim, DBegin, DCommit,
       DRetry, DBlock, DLoseConnection, DCommitFault, DCrash, lifecycleVars, storageVars
<1> PICK q \in Requests : q = dw[x].r
  BY <1>4, BusyFacts DEF DRestore
<1>5. /\ dw[x].pc = "blocking" /\ dw[x].attempts > 1
      /\ dop[q].status = "leased" /\ dop[q].owner = x
      /\ hold' = [hold EXCEPT ![VersionOf(q)] = TRUE]
  BY <1>3, <1>4 DEF DRestore
<1>6. q # r
  BY <1>1, <1>5 DEF FencedRelease
<1>7. VersionOf(q) = v
  BY <1>1, <1>5
<1>8. dop[q].attempts > 1
  <2>1. dw[x].attempts =< dop[q].attempts
    BY <1>5 DEF ReceiptInv
  <2>2. dw[x].attempts \in 0 .. 2 /\ dop[q].attempts \in 0 .. 2
    BY InvTypes DEF DWorkerRow, DopRow
  <2> QED BY <1>5, <2>1, <2>2
<1> QED BY <1>6, <1>7, <1>8 DEF Interferes

LEMMA ReceiptStep == ASSUME DispositionInv, ReceiptInv, [Next]_vars PROVE ReceiptInv'
<1>0. DispositionInv'
  BY DispositionStep
<1>1. ASSUME NEW w \in DWorkers, dw'[w].pc # "idle" PROVE dw'[w].attempts =< dop'[dw'[w].r].attempts
  <2>1. CASE \E r \in Requests : DClaim(w, r)
    <3> PICK r \in Requests : DClaim(w, r)
      BY <2>1
    <3>1. DSwept \in [Requests -> DopRow] /\ DSwept[r].attempts \in 0 .. 2
      <4>1. DSwept = [p \in Requests |-> DSwept[p]]
        BY Zenon DEF DSwept
      <4> QED BY <4>1, SweptRows DEF DopRow
    <3>2. /\ dop'[r].attempts = DBump(DSwept[r].attempts)
          /\ dw'[w].r = r /\ dw'[w].attempts = DBump(DSwept[r].attempts)
      BY <3>1, InvTypes DEF DClaim
    <3> QED BY <3>1, <3>2 DEF DBump
  <2>2. CASE /\ dw[w].pc # "idle"
             /\ dw'[w].r = dw[w].r /\ dw'[w].attempts = dw[w].attempts
    <3> PICK r \in Requests : r = dw[w].r
      BY <2>2, BusyFacts
    <3>1. dw[w].attempts =< dop[r].attempts /\ dop[r].attempts > 0
      BY <2>2, BusyFacts DEF ReceiptInv
    <3>2. dop[r].attempts =< dop'[r].attempts
      BY <3>1, AttemptsGrow
    <3>3. dw[w].attempts \in 0 .. 2 /\ dop[r].attempts \in 0 .. 2 /\ dop'[r].attempts \in 0 .. 2
      BY <1>0, InvTypes DEF DWorkerRow, DopRow, DispositionInv, DispositionTypeOK
    <3> QED BY <2>2, <3>1, <3>2, <3>3
  <2> QED BY <1>1, <2>1, <2>2, WorkerKeepsItsRequest
<1>2. ASSUME NEW w \in DWorkers, NEW r \in Requests, dw'[w].pc = "released", dw'[w].r = r,
             hold'[VersionOf(r)']
      PROVE  \E q \in Requests : Interferes(q, r)'
  <2>1. /\ dw[w].pc # "idle" /\ dw'[w].r = dw[w].r
        /\ dw[w].pc = "released" \/ DRelease(w)
    <3>1. ASSUME NEW q \in Requests, DClaim(w, q) PROVE FALSE
      BY <1>2, <3>1, InvTypes DEF DClaim
    <3> QED BY <1>2, <3>1, WorkerKeepsItsRequest
  <2>2. VersionOf(r)' = VersionOf(r) /\ VersionOf(r) \in Versions
    BY <1>2, <2>1, BusyFacts, StandingStays
  <2>3. ~DRelease(w)
    <3> SUFFICES ASSUME DRelease(w) PROVE FALSE
      OBVIOUS
    <3>1. dw[w].pc = "releasing" /\ dw' = [dw EXCEPT ![w].pc = "released"]
          /\ hold' = [hold EXCEPT ![VersionOf(r)] = FALSE]
      BY <1>2, <2>1, InvTypes DEF DRelease, DWorkerRow
    <3>2. hold'[VersionOf(r)] = FALSE
      BY <2>2, <3>1, InvTypes
    <3> QED BY <1>2, <2>2, <3>2
  <2>4. dw[w].pc = "released"
    BY <2>1, <2>3
  <2>5. PICK q \in Requests : Interferes(q, r)
    <3>1. CASE hold[VersionOf(r)]
      BY <1>2, <2>1, <2>4, <3>1 DEF ReceiptInv
    <3>2. CASE ~hold[VersionOf(r)]
      BY <1>2, <2>1, <2>2, <2>4, <3>2, OnByRestore
    <3> QED BY <3>1, <3>2
  <2>6. dop[q].attempts \in 0 .. 2 /\ dop'[q].attempts \in 0 .. 2
    BY <1>0, InvTypes DEF DopRow, DispositionInv, DispositionTypeOK
  <2>7. dop'[q].attempts > 1 /\ VersionOf(q)' = VersionOf(q)
    BY <2>5, <2>6, AttemptsGrow, StandingStays DEF Interferes
  <2> QED BY <2>2, <2>5, <2>7 DEF Interferes
<1> QED BY <1>1, <1>2 DEF ReceiptInv, Interferes

\* What the worker's comment says of its fence holds up to one exception: when a receipt
\* says "released" of an object on hold, another request for the same version has come
\* to its second attempt, the only one that turns a hold on without the fence.
THEOREM ReceiptsAreTrueButForRestores == Spec => OnlyRestoresIntervene
<1>1. Init => ReceiptInv
  BY DEF Init, IdleDWorker, ReceiptInv
<1>2. DispositionInv /\ ReceiptInv /\ [Next]_vars => ReceiptInv'
  BY ReceiptStep
<1>3. DispositionInv /\ ReceiptInv /\ [Next]_vars =>
        [\A r \in Requests : Released(r) /\ hold'[VersionOf(r)]
            => \E q \in Requests : Interferes(q, r)]_vars
  <2> SUFFICES ASSUME DispositionInv, ReceiptInv, [Next]_vars,
                      NEW r \in Requests, Released(r), hold'[VersionOf(r)]
               PROVE  \E q \in Requests : Interferes(q, r)
    OBVIOUS
  <2>1. PICK w \in DWorkers : DCommit(w) /\ dw[w].r = r
    BY ReceiptsByCommit DEF Released
  <2>2. dw[w].pc = "released" /\ hold' = hold
    BY <2>1 DEF DCommit, storageVars
  <2> QED BY <2>1, <2>2 DEF ReceiptInv
<1> QED BY <1>1, <1>2, <1>3, DispositionInvariant, PTL DEF Spec, OnlyRestoresIntervene

-----------------------------------------------------------------------------
(* What the database calls protected.                                      *)

Protected(v) == proj[v].custody \/ proj[v].legal \/ proj[v].disposition

\* A worker that holds the lease can no longer close the approval as blocked
\* without turning the hold on.
Answers(w) == /\ dw[w].pc # "restored"
              /\ dw[w].pc \in {"claimed", "releasing", "blocking"} => dw[w].attempts > 1

\* An open operation that accounts for the missing hold, whoever continues it.
Responsible(q, v) ==
    /\ VersionOf(q) = v
    /\ dop[q].attempts > 0
    /\ dop[q].status \in {"queued", "leased"}
    /\ \A w \in DWorkers : /\ dop[q].status = "leased" /\ dop[q].owner = w
                           /\ dw[w].r = q
                           => Answers(w)

HeldInv ==
    /\ \A w \in DWorkers : dw[w].pc # "unfenced"
    /\ \A w \in LWorkers : lw[w].pc = "verified" => hold[lw[w].t[2]]
    /\ \A v \in Versions : Protected(v) /\ ~hold[v] => \E q \in Requests : Responsible(q, v)

LEMMA ResponsibleKept ==
    ASSUME DispositionInv, [Next]_vars, NEW q \in Requests, NEW v, Responsible(q, v),
           dop'[q].status \in {"queued", "leased"},
           \A x \in DWorkers : /\ dop'[q].status = "leased" /\ dop'[q].owner = x
                               /\ dw'[x].r = q
                               => \/ /\ dop[q].status = "leased" /\ dop[q].owner = x
                                     /\ dw'[x] = dw[x]
                                  \/ Answers(x)'
    PROVE  Responsible(q, v)'
<1>1. dop'[q].attempts > 0 /\ VersionOf(q)' = v
  BY StandingStays DEF Responsible
<1>2. ASSUME NEW x \in DWorkers, dop'[q].status = "leased", dop'[q].owner = x, dw'[x].r = q
      PROVE  Answers(x)'
  <2>1. CASE /\ dop[q].status = "leased" /\ dop[q].owner = x
             /\ dw'[x] = dw[x]
    <3>1. Answers(x)
      BY <1>2, <2>1 DEF Responsible
    <3> QED BY <2>1, <3>1 DEF Answers
  <2> QED BY <1>2, <2>1
<1> QED BY <1>1, <1>2 DEF Responsible

\* A worker moves to another step of its attempt.
LEMMA ResponsibleMoves ==
    ASSUME DispositionInv, [Next]_vars, NEW q \in Requests, NEW v, Responsible(q, v),
           UNCHANGED dop, NEW w \in DWorkers, NEW row, dw' = [dw EXCEPT ![w] = row],
           row.r = q => \/ row.pc \notin {"claimed", "releasing", "blocking", "restored"}
                        \/ /\ row.pc # "restored" /\ dw[w].r = q
                           /\ dw[w].pc \in {"claimed", "releasing", "blocking"}
                           /\ row.attempts = dw[w].attempts
    PROVE  Responsible(q, v)'
<1>1. \A x \in DWorkers : dw'[x] = IF x = w THEN row ELSE dw[x]
  BY InvTypes
<1>2. ASSUME dop[q].status = "leased", dop[q].owner = w, dw'[w].r = q PROVE Answers(w)'
  <2>1. CASE row.pc \notin {"claimed", "releasing", "blocking", "restored"}
    BY <1>1, <2>1 DEF Answers
  <2>2. CASE /\ row.pc # "restored" /\ dw[w].r = q
             /\ dw[w].pc \in {"claimed", "releasing", "blocking"}
             /\ row.attempts = dw[w].attempts
    <3>1. Answers(w)
      BY <1>2, <2>2 DEF Responsible
    <3> QED BY <1>1, <2>2, <3>1 DEF Answers
  <2> QED BY <1>1, <1>2, <2>1, <2>2
<1>3. dop'[q].status \in {"queued", "leased"}
  BY DEF Responsible
<1> QED BY <1>1, <1>2, <1>3, ResponsibleKept

\* While the hold is off and the version protected, the operation stays open and
\* whoever takes it on stays responsible.
LEMMA ResponsibleStays ==
    ASSUME DispositionInv, DispositionNext, [Next]_vars, ConnectionLoss = FALSE, HeldInv,
           NEW q \in Requests, NEW v \in Versions, Responsible(q, v), ~hold'[v], Protected(v)'
    PROVE  Responsible(q, v)'
<1>0. dop[q].attempts > 0 /\ dop[q].status # "none" /\ dop[q].status \in {"queued", "leased"}
  BY DEF Responsible
<1>1. ASSUME UNCHANGED <<dop, dw>> PROVE Responsible(q, v)'
  BY <1>0, <1>1, ResponsibleKept
<1>2. ASSUME NEW r \in Requests, NEW approve \in BOOLEAN, Decide(r, approve)
      PROVE  Responsible(q, v)'
  <2>1. q # r
    BY <1>0, <1>2 DEF Decide, DispositionInv, Requested
  <2>2. dop'[q] = dop[q]
    BY <1>2, <2>1, InvTypes DEF Decide
  <2>3. UNCHANGED dw
    BY <1>2 DEF Decide
  <2> QED BY <1>0, <2>2, <2>3, ResponsibleKept
<1>3. ASSUME NEW r \in Requests, DLeaseAges(r) PROVE Responsible(q, v)'
  <2> PICK row : row = [dop[r] EXCEPT !.stale = TRUE]
    OBVIOUS
  <2>1. row.status = dop[r].status /\ row.owner = dop[r].owner
    BY InvTypes, StaleRow
  <2>2. dop' = [dop EXCEPT ![r] = row] /\ UNCHANGED dw
    BY <1>3 DEF DLeaseAges
  <2>3. dop'[q].status = dop[q].status /\ dop'[q].owner = dop[q].owner
    BY <2>1, <2>2, InvTypes
  <2> QED BY <1>0, <2>2, <2>3, ResponsibleKept
<1>4. ASSUME NEW w \in DWorkers, NEW r \in Requests, DClaim(w, r) PROVE Responsible(q, v)'
  <2>0. DSwept \in [Requests -> DopRow]
    <3>1. DSwept = [p \in Requests |-> DSwept[p]]
      BY Zenon DEF DSwept
    <3> QED BY <3>1, SweptRows
  <2>1. \A x \in DWorkers : x # w => dw'[x] = dw[x]
    BY <1>4, InvTypes DEF DClaim
  <2>2. /\ dw'[w].r = r /\ dw'[w].pc = "claimed"
        /\ dw'[w].attempts = DBump(DSwept[r].attempts)
    BY <1>4, InvTypes DEF DClaim
  <2>3. CASE q # r
    <3>1. dop'[q] = DSwept[q]
      BY <1>4, <2>0, <2>3 DEF DClaim
    <3>2. /\ dop'[q].status \in {"queued", "leased"}
          /\ dop'[q].status = "leased" => dop'[q] = dop[q]
      BY <1>0, <3>1, SweptRows
    <3> QED BY <2>1, <2>2, <2>3, <3>2, ResponsibleKept
  <2>4. CASE q = r
    <3>1. dop'[q].status = "leased" /\ dop'[q].owner = w
      BY <1>4, <2>0, <2>4 DEF DClaim
    <3>2. DSwept[q].attempts \in 1 .. 2
      BY <1>0, <2>0, SweptRows DEF DopRow
    <3>3. dw'[w].attempts > 1
      BY <2>2, <2>4, <3>2 DEF DBump
    <3>4. Answers(w)'
      BY <2>2, <3>3 DEF Answers
    <3> QED BY <3>1, <3>4, ResponsibleKept
  <2> QED BY <2>3, <2>4
<1>5. ASSUME NEW w \in DWorkers, dw[w].pc # "idle", UNCHANGED dop,
             NEW pc \in {"releasing", "released", "retrying", "blocking"},
             dw' = [dw EXCEPT ![w].pc = pc],
             pc \in {"releasing", "blocking"} => dw[w].pc \in {"claimed", "releasing"}
      PROVE  Responsible(q, v)'
  <2> PICK row : row = [dw[w] EXCEPT !.pc = pc]
    OBVIOUS
  <2>1. row.pc = pc /\ row.r = dw[w].r /\ row.attempts = dw[w].attempts
    BY PcRow
  <2>2. dw' = [dw EXCEPT ![w] = row]
    BY <1>5
  <2>3. \/ row.pc \notin {"claimed", "releasing", "blocking", "restored"}
        \/ row.pc # "restored" /\ dw[w].pc \in {"claimed", "releasing", "blocking"}
    BY <1>5, <2>1
  <2>4. row.r = q => \/ row.pc \notin {"claimed", "releasing", "blocking", "restored"}
                     \/ /\ row.pc # "restored" /\ dw[w].r = q
                        /\ dw[w].pc \in {"claimed", "releasing", "blocking"}
                        /\ row.attempts = dw[w].attempts
    BY <2>1, <2>3
  <2>5. UNCHANGED dop
    BY <1>5
  <2> QED BY <2>2, <2>4, <2>5, ResponsibleMoves
<1>6. ASSUME NEW w \in DWorkers, UNCHANGED dop, dw' = [dw EXCEPT ![w] = IdleDWorker]
      PROVE  Responsible(q, v)'
  <2> PICK row : row = IdleDWorker
    OBVIOUS
  <2>1. row.pc = "idle"
    BY DEF IdleDWorker
  <2>2. dw' = [dw EXCEPT ![w] = row]
    BY <1>6
  <2> QED BY <1>6, <2>1, <2>2, ResponsibleMoves
<1>7. ASSUME NEW w \in DWorkers,
             DBegin(w) \/ DRelease(w) \/ DStorageFault(w) \/ DCommitFault(w) \/ DCrash(w)
      PROVE  Responsible(q, v)'
  <2>1. CASE DBegin(w)
    BY <1>5, <2>1 DEF DBegin
  <2>2. CASE DRelease(w)
    BY <1>5, <2>2 DEF DRelease
  <2>3. CASE DStorageFault(w) \/ DCommitFault(w)
    BY <1>5, <2>3 DEF DStorageFault, DCommitFault
  <2>4. CASE DCrash(w)
    BY <1>6, <2>4 DEF DCrash
  <2> QED BY <1>7, <2>1, <2>2, <2>3, <2>4
<1>8. ASSUME NEW w \in DWorkers, DLoseConnection(w) \/ DReleaseUnfenced(w)
      PROVE  Responsible(q, v)'
  BY <1>8 DEF DLoseConnection, DReleaseUnfenced, HeldInv

<1>9. ASSUME NEW w \in DWorkers, DRestore(w) PROVE Responsible(q, v)'
  <2>1. dw[w].pc = "blocking" /\ dw[w].r \in Requests
    BY <1>9, BusyFacts DEF DRestore
  <2>2. CASE dw' = [dw EXCEPT ![w] = IdleDWorker]
    BY <1>6, <1>9, <2>2 DEF DRestore
  <2>3. CASE /\ hold' = [hold EXCEPT ![VersionOf(dw[w].r)] = TRUE]
             /\ dw' = [dw EXCEPT ![w].pc = "restored"]
    <3> PICK row : row = [dw[w] EXCEPT !.pc = "restored"]
      OBVIOUS
    <3>1. row.r = dw[w].r
      BY PcRow
    <3>2. dw' = [dw EXCEPT ![w] = row] /\ UNCHANGED dop
      BY <1>9, <2>3 DEF DRestore
    <3>3. dw[w].r # q
      BY <2>3, InvTypes DEF Responsible
    <3> QED BY <3>1, <3>2, <3>3, ResponsibleMoves
  <2> QED BY <1>9, <2>2, <2>3 DEF DRestore
<1>10. ASSUME NEW w \in DWorkers, NEW row, NEW status, NEW r \in Requests,
              dw' = [dw EXCEPT ![w] = row],
              row.pc \notin {"claimed", "releasing", "blocking", "restored"},
              dop' = [dop EXCEPT ![r] = Freed(dop[r], status)],
              r = q => status = "queued",
              status \in {"queued", "blocked", "released"}
       PROVE  Responsible(q, v)'
  <2>1. Freed(dop[r], status).status = status
    BY <1>10, InvTypes, FreedRow
  <2>2. dop'[q] = IF q = r THEN Freed(dop[r], status) ELSE dop[q]
    BY <1>10, InvTypes
  <2>3. /\ dop'[q].status \in {"queued", "leased"}
        /\ dop'[q].status = "leased" => dop'[q] = dop[q]
    BY <1>0, <1>10, <2>1, <2>2
  <2>4. \A x \in DWorkers : x # w => dw'[x] = dw[x]
    BY <1>10
  <2>5. Answers(w)'
    BY <1>10, InvTypes DEF Answers
  <2> QED BY <2>3, <2>4, <2>5, ResponsibleKept
<1>11. ASSUME NEW w \in DWorkers, DRetry(w) PROVE Responsible(q, v)'
  <2>1. dw[w].r \in Requests /\ dw' = [dw EXCEPT ![w] = IdleDWorker]
    BY <1>11, BusyFacts DEF DRetry
  <2>2. UNCHANGED dop \/ dop' = [dop EXCEPT ![dw[w].r] = Freed(dop[dw[w].r], "queued")]
    BY <1>11 DEF DRetry, Freed
  <2>3. IdleDWorker.pc \notin {"claimed", "releasing", "blocking", "restored"}
    BY DEF IdleDWorker
  <2> QED BY <1>6, <1>10, <2>1, <2>2, <2>3
<1>12. ASSUME NEW w \in DWorkers, DBlock(w) PROVE Responsible(q, v)'
  <2> DEFINE r == dw[w].r
  <2>1. /\ r \in Requests /\ dw' = [dw EXCEPT ![w] = IdleDWorker]
        /\ dw[w].pc = "restored" \/ (dw[w].pc = "blocking" /\ ~(dw[w].attempts > 1))
    <3>1. dw[w] \in DWorkerRow /\ r \in Requests
      BY <1>12, BusyFacts DEF DBlock
    <3> QED BY <1>12, <3>1 DEF DBlock, DWorkerRow
  <2>2. \/ UNCHANGED dop
        \/ /\ dop[r].status = "leased" /\ dop[r].owner = w
           /\ dop' = [dop EXCEPT ![r] = Freed(dop[r], "blocked")]
    BY <1>12 DEF DBlock, Freed
  <2>3. dop[q].status = "leased" /\ dop[q].owner = w => r # q
    BY <2>1 DEF Responsible, Answers
  <2>4. IdleDWorker.pc \notin {"claimed", "releasing", "blocking", "restored"}
    BY DEF IdleDWorker
  <2> QED BY <1>6, <1>10, <2>1, <2>2, <2>3, <2>4
<1>13. ASSUME NEW w \in DWorkers, DCommit(w) PROVE Responsible(q, v)'
  <2> PICK r \in Requests : r = dw[w].r
    BY <1>13, BusyFacts DEF DCommit
  <2>0. VersionOf(r) \in Versions /\ dw[w].pc # "idle"
    BY <1>13, BusyFacts DEF DCommit
  <2>1. CASE expiry[req[r].t] = "open"
    <3>1. /\ proj' = [proj EXCEPT ![VersionOf(r)] = [custody |-> FALSE, legal |-> FALSE,
                                                     disposition |-> FALSE]]
          /\ dop' = [dop EXCEPT ![r] = Freed(dop[r], "released")]
          /\ dw' = [dw EXCEPT ![w] = IdleDWorker]
      BY <1>13, <2>1 DEF DCommit, Freed
    <3>2. VersionOf(r) # v
      BY <3>1, InvTypes DEF Protected, TypeInv, LifecycleTypeOK
    <3>3. r # q
      BY <3>2 DEF Responsible
    <3>4. IdleDWorker.pc \notin {"claimed", "releasing", "blocking", "restored"}
      BY DEF IdleDWorker
    <3> QED BY <1>10, <3>1, <3>3, <3>4
  <2>2. CASE expiry[req[r].t] # "open"
    BY <1>5, <1>13, <2>0, <2>2 DEF DCommit
  <2> QED BY <2>1, <2>2
<1> QED BY <1>1, <1>2, <1>3, <1>4, <1>7, <1>8, <1>9, <1>11, <1>12, <1>13
       DEF DispositionNext, Submit, lifecycleVars

\* A lifecycle worker has verified a version only by its own S3 call.
LEMMA VerifiedBegins ==
    ASSUME TypeInv, [LifecycleNext]_lifecycleVars, NEW w \in LWorkers,
           lw'[w].pc = "verified"
    PROVE  \/ lw[w].pc = "verified" /\ lw'[w].t = lw[w].t
           \/ LReconcile(w) /\ lw'[w].t = lw[w].t
<1>0. lw \in [LWorkers -> LWorkerRow]
  BY DEF TypeInv, LifecycleTypeOK
<1>1. CASE lw[w].pc = "verified"
  BY <1>1, WorkerKeepsItsTransition DEF LClaim
<1>2. CASE lw[w].pc # "verified"
  <2>1. LBegin(w) \/ lw[w].pc \in {"storing", "verified"}
    BY StoringBegins DEF Storing
  <2>2. ~LBegin(w)
    <3> SUFFICES ASSUME LBegin(w) PROVE FALSE
      OBVIOUS
    <3>1. PICK code, want : \/ LFailWith(w, code)
                            \/ lw' = [lw EXCEPT ![w].pc = "storing", ![w].want = want]
      BY Zenon DEF LBegin
    <3>2. lw'[w].pc = "failing" \/ lw'[w].pc = "storing"
      BY <1>0, <3>1, Zenon DEF LFailWith, LWorkerRow
    <3> QED BY <3>2
  <2>3. lw[w].pc = "storing"
    BY <1>2, <2>1, <2>2
  <2>4. lw'[w].t = lw[w].t
    BY <2>3, WorkerKeepsItsTransition DEF LClaim
  <2>5. lw'[w] # lw[w]
    BY <1>2
  <2>6. LReconcile(w)
    <3>1. ~UNCHANGED lw
      BY <2>5
    <3>2. ASSUME NEW x \in LWorkers, x # w, NEW row, lw' = [lw EXCEPT ![x] = row] PROVE FALSE
      BY <1>0, <2>5, <3>2
    <3>3. ASSUME NEW x \in LWorkers, \E s \in Trans : LClaim(x, s) PROVE FALSE
      <4>1. x # w
        BY <2>3, <3>3 DEF LClaim
      <4> QED BY <3>2, <3>3, <4>1 DEF LClaim
    <3>4. ASSUME NEW x \in LWorkers, LBegin(x) PROVE FALSE
      <4>1. x # w
        BY <2>3, <3>4 DEF LBegin
      <4>2. lw'[w] = lw[w]
        BY <1>0, <3>4, <4>1 DEF LBegin, LFailWith
      <4> QED BY <2>5, <4>2
    <3>5. ASSUME NEW x \in LWorkers, LStorageFault(x) PROVE FALSE
      BY <1>0, <2>5, <3>5 DEF LStorageFault, LFailWith
    <3>6. ASSUME NEW x \in LWorkers, LReconcile(x), x # w PROVE FALSE
      BY <1>0, <2>5, <3>6 DEF LReconcile, LFailWith
    <3>7. ASSUME NEW x \in LWorkers, LCommit(x) \/ LFail(x) \/ LProject(x) PROVE FALSE
      <4>1. x # w
        BY <2>3, <3>7 DEF LCommit, LFail, LProject
      <4>2. lw'[w] = lw[w]
        BY <1>0, <3>7, <4>1 DEF LCommit, LFail, LProject, LFailWith
      <4> QED BY <2>5, <4>2
    <3>8. ASSUME NEW x \in LWorkers, LCrash(x) PROVE FALSE
      BY <1>0, <2>5, <3>8 DEF LCrash, IdleLWorker
    <3>9. ASSUME Commands \/ Tick \/ \E t \in Trans : LeaseAges(t) PROVE FALSE
      BY <3>1, <3>9 DEF Commands, RecordCessation, SetLegalHold, AttachDocument,
         ReplaceDocument, RetryOperation, Tick, LeaseAges
    <3> QED BY <3>1, <3>3, <3>4, <3>5, <3>6, <3>7, <3>8, <3>9
            DEF LifecycleNext, LWorkerStep, lifecycleVars
  <2> QED BY <2>4, <2>6
<1> QED BY <1>1, <1>2

LEMMA VerifiedIsHeld ==
    ASSUME DispositionInv, HeldInv, [LifecycleNext]_lifecycleVars, NEW w \in LWorkers,
           lw'[w].pc = "verified"
    PROVE  hold'[lw'[w].t[2]]
<1>1. TypeInv /\ CustodyInv /\ hold \in [Versions -> BOOLEAN]
  BY InvTypes DEF DispositionInv
<1>2. CASE lw[w].pc = "verified" /\ lw'[w].t = lw[w].t
  <2>1. hold[lw[w].t[2]] /\ lw[w].t[2] \in Versions
    BY <1>1, <1>2, BusyWorker DEF HeldInv
  <2> QED BY <1>1, <1>2, <2>1, HoldsStay
<1>3. CASE LReconcile(w) /\ lw'[w].t = lw[w].t
  <2>1. lw[w].t[2] \in Versions /\ DesiredHold(lw[w].want)
    BY <1>1, <1>3, WorkerWrites
  <2>2. hold' = [hold EXCEPT ![lw[w].t[2]] = DesiredHold(lw[w].want)]
    <3>1. ~LFailWith(w, "retry")
      BY <1>1 DEF LFailWith, TypeInv, LifecycleTypeOK, LWorkerRow
    <3> QED BY <1>3, <3>1 DEF LReconcile
  <2> QED BY <1>1, <1>3, <2>1, <2>2
<1> QED BY <1>1, <1>2, <1>3, VerifiedBegins

\* A lifecycle worker projects protection only with the hold on.
LEMMA ProjectedIsHeld ==
    ASSUME DispositionInv, HeldInv, [LifecycleNext]_lifecycleVars, NEW v \in Versions,
           Protected(v)', ~hold'[v]
    PROVE  Protected(v)
<1>1. TypeInv /\ CustodyInv /\ proj \in [Versions -> ProjRow]
  BY InvTypes DEF DispositionInv, TypeInv, LifecycleTypeOK
<1>2. ASSUME proj'[v] = proj[v] PROVE Protected(v)
  BY <1>2 DEF Protected
<1>3. ASSUME NEW w \in LWorkers, LCommit(w) PROVE proj'[v] = proj[v]
  <2>1. lw[w].t[2] \in Versions /\ hold[lw[w].t[2]]
    BY <1>1, <1>3, BusyWorker DEF LCommit, HeldInv
  <2>2. lw[w].t[2] # v
    BY <1>1, <2>1, HoldsStay
  <2> PICK row : UNCHANGED proj \/ proj' = [proj EXCEPT ![lw[w].t[2]] = row]
    BY <1>3, Zenon DEF LCommit
  <2> QED BY <1>1, <2>2
<1>4. ASSUME ~\E w \in LWorkers : LCommit(w) PROVE UNCHANGED proj
  BY <1>4 DEF LifecycleNext, lifecycleVars, Commands, RecordCessation, SetLegalHold,
     AttachDocument, ReplaceDocument, RetryOperation, Tick, LeaseAges, LWorkerStep, LClaim,
     LBegin, LReconcile, LFail, LProject, LStorageFault, LCrash
<1> QED BY <1>2, <1>3, <1>4

\* The operation that takes a hold off is responsible for it.
LEMMA ReleaserIsResponsible ==
    ASSUME DispositionInv, [Next]_vars, HeldInv, NEW v \in Versions, hold[v], ~hold'[v]
    PROVE  \E q \in Requests : Responsible(q, v)'
<1>1. PICK w \in DWorkers : /\ dw[w].pc # "idle"
                            /\ DRelease(w) \/ DStorageFault(w) \/ DReleaseUnfenced(w)
                            /\ VersionOf(dw[w].r) = v
  BY OffByRelease
<1>2. Releasing(w) /\ (DRelease(w) \/ DStorageFault(w))
  BY <1>1 DEF HeldInv, Releasing, DRelease, DStorageFault, DReleaseUnfenced
<1> PICK q \in Requests : q = dw[w].r
  BY <1>1, BusyFacts
<1>3. dop[q].status = "leased" /\ dop[q].owner = w /\ dop[q].attempts > 0
  BY <1>1, <1>2, LeaseFacts, BusyFacts
<1>4. UNCHANGED dop /\ VersionOf(q)' = v
  BY <1>1, <1>2, <1>3, StandingStays DEF DRelease, DStorageFault
<1>5. dw'[w].pc \in {"released", "retrying"}
  <2>1. CASE DStorageFault(w)
    BY <2>1, InvTypes DEF DStorageFault
  <2>2. CASE DRelease(w)
    <3>1. ~UNCHANGED hold
      OBVIOUS
    <3>2. dw' = [dw EXCEPT ![w].pc = "released"]
      BY <2>2, <3>1 DEF DRelease
    <3> QED BY <3>2, InvTypes
  <2> QED BY <1>2, <2>1, <2>2
<1>6. Answers(w)'
  BY <1>5 DEF Answers
<1> QED BY <1>3, <1>4, <1>6 DEF Responsible

LEMMA NeverUnfenced ==
    ASSUME DispositionInv, [Next]_vars, HeldInv, ConnectionLoss = FALSE, NEW w \in DWorkers
    PROVE  dw'[w].pc # "unfenced"
<1>0. dw \in [DWorkers -> DWorkerRow] /\ dw[w].pc # "unfenced"
  BY InvTypes DEF HeldInv
<1>1. ASSUME NEW x \in DWorkers, NEW row, dw' = [dw EXCEPT ![x] = row], row.pc # "unfenced"
      PROVE  dw'[w].pc # "unfenced"
  BY <1>0, <1>1
<1>2. ASSUME NEW x \in DWorkers,
             NEW pc \in {"releasing", "released", "retrying", "blocking", "restored"},
             dw' = [dw EXCEPT ![x].pc = pc]
      PROVE  dw'[w].pc # "unfenced"
  <2> PICK row : row = [dw[x] EXCEPT !.pc = pc]
    OBVIOUS
  <2>1. row.pc # "unfenced"
    BY <1>2, PcRow
  <2>2. dw' = [dw EXCEPT ![x] = row]
    BY <1>2
  <2> QED BY <1>1, <2>1, <2>2
<1>3. IdleDWorker.pc # "unfenced"
  BY DEF IdleDWorker
<1>4. ASSUME NEW x \in DWorkers, NEW r \in Requests, DClaim(x, r) PROVE dw'[w].pc # "unfenced"
  BY <1>0, <1>4 DEF DClaim
<1>5. ASSUME NEW x \in DWorkers,
             \/ DBegin(x) \/ DRelease(x) \/ DCommit(x) \/ DStorageFault(x)
             \/ DCommitFault(x) \/ DRestore(x)
      PROVE  dw'[w].pc # "unfenced"
  <2>1. \/ \E pc \in {"releasing", "released", "retrying", "blocking", "restored"} :
              dw' = [dw EXCEPT ![x].pc = pc]
        \/ dw' = [dw EXCEPT ![x] = IdleDWorker]
    BY <1>5 DEF DBegin, DRelease, DCommit, DStorageFault, DCommitFault, DRestore
  <2> QED BY <1>1, <1>2, <1>3, <2>1
<1>6. ASSUME NEW x \in DWorkers, DRetry(x) \/ DBlock(x) \/ DCrash(x)
      PROVE  dw'[w].pc # "unfenced"
  BY <1>1, <1>3, <1>6 DEF DRetry, DBlock, DCrash
<1>7. ASSUME NEW x \in DWorkers PROVE ~DLoseConnection(x) /\ ~DReleaseUnfenced(x)
  BY DEF DLoseConnection, DReleaseUnfenced, HeldInv
<1>8. ASSUME UNCHANGED dw PROVE dw'[w].pc # "unfenced"
  BY <1>0, <1>8
<1> QED BY <1>4, <1>5, <1>6, <1>7, <1>8, StepSplits
        DEF DispositionNext, dispositionVars, Submit, Decide, DLeaseAges

LEMMA HeldStep ==
    ASSUME DispositionInv, [Next]_vars, HeldInv, ConnectionLoss = FALSE PROVE HeldInv'
<1>1. \A w \in DWorkers : dw'[w].pc # "unfenced"
  BY NeverUnfenced
<1>2. ASSUME NEW w \in LWorkers, lw'[w].pc = "verified" PROVE hold'[lw'[w].t[2]]
  <2>1. CASE [LifecycleNext]_lifecycleVars
    BY <1>2, <2>1, VerifiedIsHeld
  <2>2. CASE DispositionNext
    <3>1. UNCHANGED lw
      BY <2>2, OwnStep DEF Aside
    <3> PICK v \in Versions : v = lw[w].t[2]
      BY <1>2, <3>1, InvTypes, BusyWorker
    <3>2. hold[v] /\ Storing(w)
      BY <1>2, <3>1 DEF HeldInv, Storing
    <3>3. hold'[v]
      <4> SUFFICES ASSUME ~hold'[v] PROVE FALSE
        OBVIOUS
      <4>1. PICK x \in DWorkers : /\ DRelease(x) \/ DStorageFault(x) \/ DReleaseUnfenced(x)
                                  /\ VersionOf(dw[x].r) = v
        BY <3>2, OffByRelease
      <4>2. Releasing(x)
        BY <4>1 DEF HeldInv, Releasing, DRelease, DStorageFault, DReleaseUnfenced
      <4>3. FencedRelease(x)
        BY <4>2 DEF DispositionInv, ReleasesAreFenced
      <4> QED BY <3>2, <4>1, <4>3 DEF FencedRelease
    <3> QED BY <3>1, <3>3
  <2> QED BY <2>1, <2>2, StepSplits
<1>3. ASSUME NEW v \in Versions, Protected(v)', ~hold'[v]
      PROVE  \E q \in Requests : Responsible(q, v)'
  <2>1. CASE hold[v]
    BY <1>3, <2>1, ReleaserIsResponsible
  <2>2. CASE ~hold[v] /\ DispositionNext
    <3>1. Protected(v)
      <4>1. CASE UNCHANGED proj
        BY <1>3, <4>1 DEF Protected
      <4>2. ASSUME NEW w \in DWorkers, DCommit(w) PROVE Protected(v)
        <5> PICK u \in Versions : u = VersionOf(dw[w].r)
          BY <4>2, BusyFacts DEF DCommit
        <5>1. UNCHANGED proj \/ proj' = [proj EXCEPT ![u] = [custody |-> FALSE,
                                          legal |-> FALSE, disposition |-> FALSE]]
          BY <4>2 DEF DCommit
        <5> QED BY <1>3, <4>1, <5>1, InvTypes DEF Protected, TypeInv, LifecycleTypeOK
      <4> QED BY <2>2, <4>1, <4>2
              DEF DispositionNext, Submit, Decide, DLeaseAges, DClaim, DBegin, DRetry, DBlock,
                  DRelease, DReleaseUnfenced, DRestore, DStorageFault, DLoseConnection,
                  DCommitFault, DCrash, lifecycleVars
    <3>2. PICK q \in Requests : Responsible(q, v)
      BY <2>2, <3>1 DEF HeldInv
    <3>3. Responsible(q, v)'
      BY <1>3, <2>2, <3>2, ResponsibleStays
    <3> QED BY <3>3
  <2>3. CASE ~hold[v] /\ [LifecycleNext]_lifecycleVars /\ UNCHANGED dispositionVars
    <3>1. PICK q \in Requests : Responsible(q, v)
      BY <1>3, <2>3, ProjectedIsHeld DEF HeldInv
    <3>2. UNCHANGED <<dop, dw>> /\ dop'[q].status \in {"queued", "leased"}
      BY <2>3, <3>1 DEF dispositionVars, Responsible
    <3>3. Responsible(q, v)'
      BY <3>1, <3>2, ResponsibleKept
    <3> QED BY <3>3
  <2> QED BY <2>1, <2>2, <2>3, StepSplits
<1> QED BY <1>1, <1>2, <1>3 DEF HeldInv

LEMMA HeldInit == Init => HeldInv
<1> SUFFICES ASSUME Init PROVE HeldInv
  OBVIOUS
<1>1. \A v \in Versions : hold[v]
  BY DEF Init, LifecycleInit
<1>2. \A w \in LWorkers : lw[w].pc = "idle"
  BY DEF Init, LifecycleInit, IdleLWorker
<1>3. \A w \in DWorkers : dw[w].pc = "idle"
  BY DEF Init, IdleDWorker
<1> QED BY <1>1, <1>2, <1>3 DEF HeldInv

\* As long as the database session outlives its S3 calls, a version that the database
\* calls protected is on hold, or an open operation will close its receipt or turn the
\* hold on again (process, fail and restoreBlockedDispositionHold).
THEOREM ProtectionIsHeld ==
    ASSUME ConnectionLoss = FALSE PROVE Spec => []ProtectedProjectionIsHeld
<1>1. Init => HeldInv
  BY HeldInit
<1>2. DispositionInv /\ HeldInv /\ [Next]_vars => HeldInv'
  BY HeldStep
<1>3. HeldInv => ProtectedProjectionIsHeld
  BY DEF HeldInv, ProtectedProjectionIsHeld, Protected, Responsible, InFlight
<1> QED BY <1>1, <1>2, <1>3, DispositionInvariant, PTL DEF Spec

\* Under the same assumption a portfolio in activity references an object whose hold is
\* off only while an operation on it is open, whose retry turns the hold on again: what
\* an active portfolio references is projected as custody, and projections are held.
THEOREM ActiveReferencesAreHeld ==
    ASSUME ConnectionLoss = FALSE PROVE Spec => []ActiveReferenceIsHeld
<1>1. DispositionInv /\ ProtectedProjectionIsHeld => ActiveReferenceIsHeld
  BY InvTypes DEF DispositionInv, CustodyInv, ActiveReferencesInCustody,
     ProtectedProjectionIsHeld, ActiveReferenceIsHeld
<1> QED BY <1>1, ProtectionIsHeld, DispositionInvariant, PTL
-----------------------------------------------------------------------------
(* The refinement of the retention policy, step by step.                   *)

\* A transition under disposition has a deadline.
Dated == \A r \in Requests : req[r].status # "none" => RequiredBy(r) # NoDate

LEMMA DatedStep == ASSUME DispositionInv, Dated, [Next]_vars PROVE Dated'
<1> SUFFICES ASSUME NEW r \in Requests, req'[r].status # "none" PROVE RequiredBy(r)' # NoDate
  BY DEF Dated
<1>1. CASE req[r].status # "none" /\ DispositionNext
  <2>1. RequiredBy(r)' = RequiredBy(r)
    BY <1>1, OwnStep, AsideFacts
  <2> QED BY <1>1, <2>1 DEF Dated
<1>2. CASE [LifecycleNext]_lifecycleVars /\ UNCHANGED dispositionVars
  <2>1. req' = req /\ req[r].status # "none"
    BY <1>2 DEF dispositionVars
  <2>2. req[r].t \in Trans /\ trans[req[r].t].status # "none"
    BY <2>1, RequestFacts
  <2>3. trans'[req[r].t].required = trans[req[r].t].required
    BY <1>2, <2>2, RecordsStay DEF DispositionInv
  <2> QED BY <2>1, <2>3 DEF Dated, RequiredBy
<1>3. CASE req[r].status = "none" /\ DispositionNext
  <2>0. req \in [Requests -> ReqRow]
    BY DEF DispositionInv, DispositionTypeOK
  <2>1. ASSUME NEW q \in Requests, NEW row, req' = [req EXCEPT ![q] = row],
               req[q].status # "none"
        PROVE  FALSE
    BY <1>3, <2>0, <2>1
  <2>2. ASSUME NEW q \in Requests, NEW approve \in BOOLEAN, Decide(q, approve) PROVE FALSE
    BY <1>3, <2>1, <2>2 DEF Decide
  <2>3. ASSUME NEW w \in DWorkers, DCommit(w) \/ DBlock(w) PROVE FALSE
    <3>1. dw[w].r \in Requests /\ req[dw[w].r].status # "none"
      BY <2>3, BusyFacts DEF DCommit, DBlock
    <3>2. ~UNCHANGED req
      BY <1>3
    <3> QED BY <2>1, <2>3, <3>1, <3>2 DEF DCommit, DBlock
  <2>4. PICK q \in Requests, t \in Trans : Submit(q, t)
    <3>1. ~UNCHANGED req
      BY <1>3
    <3> QED BY <1>3, <2>2, <2>3, <3>1
            DEF DispositionNext, DLeaseAges, DClaim, DBegin, DRetry, DRelease,
                DReleaseUnfenced, DRestore, DStorageFault, DLoseConnection, DCommitFault, DCrash
  <2>5. q = r /\ req'[r].t = t
    BY <1>3, <2>0, <2>4 DEF Submit
  <2>6. trans'[t].required = trans[t].required /\ trans[t].required # NoDate
    BY <2>4 DEF Submit, lifecycleVars, queueVars
  <2> QED BY <2>5, <2>6 DEF RequiredBy
<1> QED BY <1>1, <1>2, <1>3, StepSplits

LEMMA PolicyTerms == Policy!NoDate = NoDate /\ \A p : Policy!Deadline(p) = Deadline(p)
BY DEF Policy!NoDate, NoDate, Policy!Deadline, Deadline

LEMMA PolicyStutters ==
    UNCHANGED <<now, ceasedOn, legalHold, refs, hold, retainUntil>> => UNCHANGED Policy!vars
BY DEF Policy!vars

\* The storage call of the lifecycle worker, finished or broken off, gives S3 nothing
\* but the latest deadline of the version's references, ahead of time, and the hold.
LEMMA StorageProtects ==
    ASSUME CustodyInv, NEW w \in LWorkers, LReconcile(w) \/ LStorageFault(w)
    PROVE  Policy!Protect(lw[w].t[2])
<1>0. lw[w].pc # "idle" /\ Storing(w) /\ lw[w].t[2] \in Versions /\ lw[w].want \in WantRow
  BY BusyWorker DEF LReconcile, LStorageFault, CustodyInv, LWorkerRow, Storing
<1> PICK v \in Versions : v = lw[w].t[2]
  BY <1>0
<1> PICK want \in WantRow : want = lw[w].want
  BY <1>0
<1>1. FencedWorker(w)
  BY <1>0 DEF CustodyInv, AggregateIsCurrent
<1>2. DesiredHold(want) = TRUE
  BY <1>1, ReferencedIsHeld DEF FencedWorker, CustodyInv, TypeInv
<1>3. /\ retainUntil = [retainUntil EXCEPT ![v] = retainUntil[v]]
      /\ hold = [hold EXCEPT ![v] = hold[v]]
  BY DEF CustodyInv, TypeInv, LifecycleTypeOK
<1>4. /\ UNCHANGED <<now, ceasedOn, legalHold, refs>>
      /\ hold' = [hold EXCEPT ![v] = TRUE] \/ UNCHANGED hold
      /\ \/ UNCHANGED retainUntil
         \/ ~Refused(v, want) /\ retainUntil' = [retainUntil EXCEPT ![v] = Extended(v, want.due)]
  <2>1. CASE LReconcile(w)
    BY <1>2, <2>1 DEF LReconcile, storageVars, portfolioVars
  <2>2. CASE LStorageFault(w)
    <3>1. PICK writes \in 0 .. 2 :
            /\ writes > 0 => ~Refused(v, want)
            /\ retainUntil' = [retainUntil EXCEPT
                                 ![v] = IF writes > 0 THEN Extended(v, want.due) ELSE @]
            /\ hold' = [hold EXCEPT ![v] = IF writes > 1 THEN DesiredHold(want) ELSE @]
      BY <2>2 DEF LStorageFault
    <3>2. UNCHANGED <<now, ceasedOn, legalHold, refs>>
      BY <2>2 DEF LStorageFault, portfolioVars
    <3>3. hold' = [hold EXCEPT ![v] = TRUE] \/ UNCHANGED hold
      BY <1>2, <1>3, <3>1
    <3>4. \/ UNCHANGED retainUntil
          \/ ~Refused(v, want) /\ retainUntil' = [retainUntil EXCEPT ![v] = Extended(v, want.due)]
      BY <1>3, <3>1
    <3> QED BY <3>2, <3>3, <3>4
  <2> QED BY <2>1, <2>2
<1>5. Policy!Extension(v) \/ UNCHANGED retainUntil
  <2>1. CASE ~NeedsExtension(v, want.due)
    BY <1>3, <1>4, <2>1 DEF Extended
  <2>2. CASE ~UNCHANGED retainUntil /\ NeedsExtension(v, want.due)
    <3>1. /\ retainUntil' = [retainUntil EXCEPT ![v] = want.due]
          /\ ~(want.due =< now)
      BY <1>4, <2>2 DEF Extended, Refused
    <3>2. want.due # NoDate /\ retainUntil[v] < want.due
      BY <2>2 DEF NeedsExtension
    <3>3. now < want.due
      <4>1. now \in Int /\ want.due \in Int
        BY DatesAreIntegers DEF WantRow, CustodyInv, TypeInv, LifecycleTypeOK
      <4> QED BY <3>1, <4>1
    <3>4. RequiredRetention(v, want.due)
      BY <1>1 DEF FencedWorker
    <3>5. PICK p \in refs[v] : want.due = Deadline(p)
      BY <3>2, <3>4 DEF RequiredRetention, Deadlines
    <3>6. \A q \in refs[v] : Deadline(q) =< Deadline(p)
      BY <3>4, <3>5 DEF RequiredRetention, Deadlines
    <3> QED BY <3>1, <3>2, <3>3, <3>5, <3>6, PolicyTerms DEF Policy!Extension
  <2> QED BY <2>1, <2>2
<1> QED BY <1>4, <1>5 DEF Policy!Protect

\* The commands of the portfolios' users are the policy's own.
LEMMA CommandsKeepPolicy ==
    ASSUME TypeInv, Commands PROVE Policy!Next \/ UNCHANGED Policy!vars
<1>1. ASSUME NEW p \in Portfolios, NEW day \in 0 .. MaxTime, RecordCessation(p, day)
      PROVE  Policy!Cease(p)
  <2>1. day \in 0 .. now
    BY <1>1, ConstantsAssumption DEF RecordCessation, TypeInv, LifecycleTypeOK
  <2> QED BY <1>1, <2>1, PolicyTerms DEF RecordCessation, Policy!Cease, storageVars
<1>2. ASSUME NEW p \in Portfolios, NEW want \in BOOLEAN, SetLegalHold(p, want)
      PROVE  Policy!Suspend(p)
  BY <1>2 DEF SetLegalHold, Policy!Suspend, storageVars
<1>3. ASSUME NEW p \in Portfolios, NEW v \in Versions, AttachDocument(p, v)
      PROVE  Policy!Refer(p, v)
  BY <1>3, PolicyTerms DEF AttachDocument, MayReference, Policy!Refer, storageVars
<1>4. ASSUME NEW p \in Portfolios, NEW v \in Versions, NEW u \in Versions,
             ReplaceDocument(p, v, u)
      PROVE  Policy!Refer(p, u)
  <2>1. p \notin refs[u] /\ p \in refs[v]
    BY <1>4 DEF ReplaceDocument
  <2> QED BY <1>4, <2>1, PolicyTerms DEF ReplaceDocument, MayReference, Policy!Refer, storageVars
<1>5. ASSUME NEW o \in Ops, RetryOperation(o) PROVE UNCHANGED Policy!vars
  BY <1>5, PolicyStutters DEF RetryOperation, portfolioVars, storageVars
<1> QED BY <1>1, <1>2, <1>3, <1>4, <1>5 DEF Commands, Policy!Next

LEMMA LifecycleKeepsPolicy ==
    ASSUME CustodyInv, [LifecycleNext]_lifecycleVars
    PROVE  [Policy!Next]_(Policy!vars)
<1>1. CASE Commands
  BY <1>1, CommandsKeepPolicy DEF CustodyInv
<1>2. CASE Tick
  BY <1>2 DEF Tick, Policy!Next, Policy!DayPasses, portfolioVars, storageVars
<1>3. CASE UNCHANGED lifecycleVars \/ \E t \in Trans : LeaseAges(t)
  BY <1>3, PolicyStutters DEF lifecycleVars, portfolioVars, storageVars, LeaseAges
<1>4. ASSUME NEW w \in LWorkers,
             \/ \E t \in Trans : LClaim(w, t)
             \/ LBegin(w) \/ LCommit(w) \/ LFail(w) \/ LProject(w) \/ LCrash(w)
      PROVE  UNCHANGED Policy!vars
  BY <1>4, PolicyStutters
     DEF LClaim, LBegin, LCommit, LFail, LProject, LCrash, portfolioVars, storageVars
<1>5. ASSUME NEW w \in LWorkers, LReconcile(w) \/ LStorageFault(w)
      PROVE  Policy!Next
  <2>1. Policy!Protect(lw[w].t[2])
    BY <1>5, StorageProtects
  <2>2. lw[w].t[2] \in Versions
    BY <1>5, WorkerWrites
  <2> QED BY <2>1, <2>2 DEF Policy!Next
<1> QED BY <1>1, <1>2, <1>3, <1>4, <1>5 DEF LifecycleNext, LWorkerStep

\* What the disposition worker checked before its S3 call is the policy's own guard.
LEMMA ReleaseIsAllowed ==
    ASSUME DispositionInv, Dated, NEW w \in DWorkers, Releasing(w), Releasable(dw[w].r),
           hold' = [hold EXCEPT ![VersionOf(dw[w].r)] = FALSE],
           UNCHANGED <<now, ceasedOn, legalHold, refs, retainUntil>>
    PROVE  Policy!GiveFree(VersionOf(dw[w].r))
<1> PICK r \in Requests : r = dw[w].r
  BY BusyFacts DEF Releasing
<1>1. FencedRelease(w) /\ req[r].status # "none" /\ VersionOf(r) \in Versions
  BY BusyFacts DEF DispositionInv, ReleasesAreFenced, Releasing
<1> PICK v \in Versions : v = VersionOf(r)
  BY <1>1
<1>2. /\ RequiredBy(r) \in Int /\ RequiredBy(r) # NoDate /\ retainUntil[v] \in Date
      /\ RequiredBy(r) \in Date
  BY <1>1, RequestFacts, DatesAreIntegers
     DEF Dated, DispositionInv, CustodyInv, TypeInv, LifecycleTypeOK
<1>3. \A p \in refs[v] : /\ ~legalHold[p] /\ ceasedOn[p] # NoDate
                         /\ ~(RequiredBy(r) < Deadline(p))
  BY <1>1 DEF FencedRelease, Blocked
<1>4. RequiredBy(r) =< retainUntil[v] /\ retainUntil[v] =< now
  BY DEF Releasable
<1>5. retainUntil[v] # NoDate
  BY <1>2, <1>4 DEF Date, NoDate
<1>6. ASSUME NEW p \in refs[v] PROVE Deadline(p) =< retainUntil[v]
  <2>1. p \in Portfolios
    BY DEF DispositionInv, CustodyInv, TypeInv, LifecycleTypeOK
  <2>2. Deadline(p) \in Int /\ retainUntil[v] \in Int
    BY <1>2, <2>1, DeadlineType, DatesAreIntegers DEF DispositionInv, CustodyInv, TypeInv
  <2> QED BY <1>2, <1>3, <1>4, <2>2
<1> QED BY <1>3, <1>4, <1>5, <1>6, PolicyTerms DEF Policy!GiveFree

LEMMA DispositionKeepsPolicy ==
    ASSUME DispositionInv, Dated, HeldInv, DispositionNext
    PROVE  [Policy!Next]_(Policy!vars)
<1>1. UNCHANGED <<now, ceasedOn, legalHold, refs, retainUntil>>
  BY OwnStep DEF Aside, portfolioVars
<1>2. CASE UNCHANGED hold
  BY <1>1, <1>2, PolicyStutters
<1>3. CASE ~UNCHANGED hold
  <2>1. PICK w \in DWorkers : DRelease(w) \/ DStorageFault(w) \/ DReleaseUnfenced(w) \/ DRestore(w)
    BY <1>3
       DEF DispositionNext, Submit, Decide, DLeaseAges, DClaim, DBegin, DCommit, DRetry, DBlock,
           DLoseConnection, DCommitFault, DCrash, lifecycleVars, storageVars
  <2>2. dw[w].pc # "idle" /\ VersionOf(dw[w].r) \in Versions
    <3>1. dw[w].pc # "idle"
      BY <2>1 DEF DRelease, DStorageFault, DReleaseUnfenced, DRestore
    <3> QED BY <3>1, BusyFacts
  <2>3. CASE DRestore(w)
    <3>1. hold' = [hold EXCEPT ![VersionOf(dw[w].r)] = TRUE]
      BY <1>3, <2>3 DEF DRestore
    <3> QED BY <1>1, <2>2, <3>1 DEF Policy!Next, Policy!Protect
  <2>4. CASE DRelease(w) \/ DStorageFault(w)
    <3>1. Releasable(dw[w].r) /\ hold' = [hold EXCEPT ![VersionOf(dw[w].r)] = FALSE]
      BY <1>3, <2>4 DEF DRelease, DStorageFault
    <3>2. Releasing(w)
      BY <2>4 DEF DRelease, DStorageFault, Releasing
    <3> QED BY <1>1, <2>2, <3>1, <3>2, ReleaseIsAllowed DEF Policy!Next
  <2>5. ~DReleaseUnfenced(w)
    BY DEF HeldInv, DReleaseUnfenced
  <2> QED BY <2>1, <2>3, <2>4, <2>5
<1> QED BY <1>2, <1>3

\* As long as the database session outlives its S3 calls, everything that portfolios,
\* workers and the disposition do to a version is a step of the retention policy: its
\* hold goes off only when, at that very step, no reference is active, under legal hold
\* or retained beyond (process re-checks under the locks; ReconcilePortfolioCustodyLifecycle
\* and ReleaseExpiredPortfolioCustody write to S3).
THEOREM RetentionPolicyIsKept ==
    ASSUME ConnectionLoss = FALSE PROVE Spec => KeepsRetentionPolicy
<1>1. Init => Policy!Init /\ HeldInv /\ Dated
  <2> SUFFICES ASSUME Init PROVE Policy!Init /\ HeldInv /\ Dated
    OBVIOUS
  <2>1. Policy!Init
    BY PolicyTerms DEF Init, LifecycleInit, Policy!Init
  <2>2. Dated
    BY DEF Init, Dated, NoReq
  <2> QED BY <2>1, <2>2, HeldInit
<1>2. DispositionInv /\ HeldInv /\ Dated /\ [Next]_vars => HeldInv' /\ Dated'
  BY HeldStep, DatedStep
<1>3. DispositionInv /\ HeldInv /\ Dated /\ [Next]_vars => [Policy!Next]_(Policy!vars)
  BY StepSplits, LifecycleKeepsPolicy, DispositionKeepsPolicy DEF DispositionInv
<1> QED BY <1>1, <1>2, <1>3, DispositionInvariant, PTL
        DEF Spec, KeepsRetentionPolicy, Policy!Spec
=============================================================================
