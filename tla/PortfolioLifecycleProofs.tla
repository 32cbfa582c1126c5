----------------------- MODULE PortfolioLifecycleProofs -----------------------
(***************************************************************************)
(* Theorems about PortfolioLifecycle, for every set of portfolios,         *)
(* versions and worker replicas and every value of the bounds.             *)
(***************************************************************************)
EXTENDS PortfolioLifecycle, TLAPS

-----------------------------------------------------------------------------
(* Types.                                                                  *)

LEMMA TransParts == \A t \in Trans : t[1] \in Ops /\ t[2] \in Versions
BY DEF Trans

LEMMA StatusOfType == \A o, rows : StatusOf(o, rows) \in TransStatus
BY DEF StatusOf, TransStatus

LEMMA DatesAreIntegers == /\ \A d \in Date : d \in Int
                          /\ NoDate \in Date
                          /\ \A d \in Nat : d \in Date /\ d # NoDate
BY DEF Date, NoDate

\* A worker that is not idle works on a transition.
Targeted == \A w \in LWorkers : lw[w].pc # "idle" => lw[w].t \in Trans

TypeInv == LifecycleTypeOK /\ Targeted

LEMMA DeadlineType ==
    ASSUME LifecycleTypeOK
    PROVE  /\ \A p \in Portfolios : Deadline(p) \in Date
           /\ \A v \in Versions : \A d \in Deadlines(v) : d \in Date
BY ConstantsAssumption DEF LifecycleTypeOK, Deadline, Deadlines, Date, NoDate

LEMMA BumpType == \A n \in 0 .. MaxAttempts : Bump(n) \in 0 .. MaxAttempts
BY ConstantsAssumption DEF Bump

LEMMA SweptType ==
    ASSUME LifecycleTypeOK
    PROVE  /\ Swept \in [Trans -> TransRow]
           /\ ExpirySwept \in [Trans -> {"none", "open", "consumed"}]
<1>1. ExpirySwept \in [Trans -> {"none", "open", "consumed"}]
  BY DEF LifecycleTypeOK, ExpirySwept
<1>2. ASSUME NEW t \in Trans PROVE Swept[t] \in TransRow
  <2>1. trans[t] \in TransRow
    BY DEF LifecycleTypeOK
  <2>2. [trans[t] EXCEPT !.status = "pending", !.stale = FALSE, !.error = "lease_expired"]
          \in TransRow
    BY <2>1 DEF TransRow, TransStatus, TransError
  <2>3. [trans[t] EXCEPT !.status = "pending", !.error = "review_due"] \in TransRow
    BY <2>1 DEF TransRow, TransStatus, TransError
  <2> QED BY <2>1, <2>2, <2>3 DEF Swept
<1>3. Swept = [t \in Trans |-> Swept[t]]
  BY Zenon DEF Swept
<1> QED BY <1>1, <1>2, <1>3

LEMMA RowTypes == /\ NoTrans \in TransRow
                  /\ NoOp \in OpRow
                  /\ IdleLWorker \in LWorkerRow
                  /\ NoWant \in WantRow
<1>1. NoTrans \in TransRow
  BY ConstantsAssumption DEF NoTrans, TransRow, TransStatus, TransError, Date, NoDate
<1>2. NoOp \in OpRow
  BY DEF NoOp, OpRow, TransStatus
<1>3. NoWant \in WantRow
  BY DEF NoWant, WantRow, Date, NoDate
<1>4. IdleLWorker \in LWorkerRow
  BY <1>3, ConstantsAssumption DEF IdleLWorker, LWorkerRow
<1> QED BY <1>1, <1>2, <1>3, <1>4

LEMMA TypeInit == LifecycleInit => TypeInv
<1> SUFFICES ASSUME LifecycleInit PROVE TypeInv
  OBVIOUS
<1>1. Targeted
  BY DEF LifecycleInit, Targeted, IdleLWorker
<1>2. proj \in [Versions -> ProjRow]
  BY DEF LifecycleInit, ProjRow
<1>3. /\ ceasedOn \in [Portfolios -> Date]
      /\ retainUntil \in [Versions -> Date]
  BY DEF LifecycleInit, Date, NoDate
<1>4. /\ op \in [Ops -> OpRow]
      /\ trans \in [Trans -> TransRow]
      /\ lw \in [LWorkers -> LWorkerRow]
  BY RowTypes DEF LifecycleInit
<1> QED BY <1>1, <1>2, <1>3, <1>4, ConstantsAssumption DEF LifecycleInit, TypeInv, LifecycleTypeOK

\* The commands append an operation and its transitions.
LEMMA NewOperationType ==
    ASSUME LifecycleTypeOK, NEW p \in Portfolios, NEW kind \in {"cessation", "legal_hold"},
           NEW want \in BOOLEAN, NEW due \in Date, NewOperation(p, kind, want, due)
    PROVE  /\ nextOp' \in 1 .. MaxOps + 1
           /\ op' \in [Ops -> OpRow]
           /\ trans' \in [Trans -> TransRow]
<1>1. nextOp' \in 1 .. MaxOps + 1
  BY ConstantsAssumption DEF NewOperation, LifecycleTypeOK, Ops
<1>2. op' \in [Ops -> OpRow]
  BY DEF NewOperation, LifecycleTypeOK, OpRow, TransStatus
<1>3. [NoTrans EXCEPT !.status = "pending", !.required = due] \in TransRow
  BY RowTypes DEF NoTrans, TransRow, TransStatus
<1>4. trans' \in [Trans -> TransRow]
  BY <1>3 DEF NewOperation, LifecycleTypeOK
<1> QED BY <1>1, <1>2, <1>4

LEMMA OpStatusType ==
    ASSUME LifecycleTypeOK, NEW o \in Ops, NEW status \in TransStatus,
           op' = [op EXCEPT ![o].status = status]
    PROVE  op' \in [Ops -> OpRow]
BY DEF LifecycleTypeOK, OpRow

LEMMA TypeCommands == ASSUME TypeInv, Commands PROVE TypeInv'
<1> USE DEF TypeInv
<1>1. ASSUME NEW p \in Portfolios, NEW day \in 0 .. MaxTime, RecordCessation(p, day)
      PROVE  TypeInv'
  <2>1. day \in Date /\ day + Retention \in Date
    BY ConstantsAssumption DEF Date
  <2>2. NewOperation(p, "cessation", FALSE, day + Retention)
    BY <1>1 DEF RecordCessation
  <2>3. /\ nextOp' \in 1 .. MaxOps + 1
        /\ op' \in [Ops -> OpRow]
        /\ trans' \in [Trans -> TransRow]
    BY <2>1, <2>2, NewOperationType
  <2> QED BY <1>1, <2>1, <2>3 DEF RecordCessation, LifecycleTypeOK, Targeted, storageVars
<1>2. ASSUME NEW p \in Portfolios, NEW want \in BOOLEAN, SetLegalHold(p, want)
      PROVE  TypeInv'
  <2>1. Deadline(p) \in Date
    BY DeadlineType
  <2>2. NewOperation(p, "legal_hold", want, Deadline(p))
    BY <1>2 DEF SetLegalHold
  <2>3. /\ nextOp' \in 1 .. MaxOps + 1
        /\ op' \in [Ops -> OpRow]
        /\ trans' \in [Trans -> TransRow]
    BY <2>1, <2>2, NewOperationType
  <2> QED BY <1>2, <2>3 DEF SetLegalHold, LifecycleTypeOK, Targeted, storageVars
<1>3. ASSUME NEW p \in Portfolios, NEW v \in Versions, AttachDocument(p, v)
      PROVE  TypeInv'
  BY <1>3 DEF AttachDocument, LifecycleTypeOK, Targeted, storageVars, queueVars
<1>4. ASSUME NEW p \in Portfolios, NEW v \in Versions, NEW u \in Versions,
             ReplaceDocument(p, v, u)
      PROVE  TypeInv'
  BY <1>4 DEF ReplaceDocument, LifecycleTypeOK, Targeted, storageVars, queueVars
<1>5. ASSUME NEW o \in Ops, RetryOperation(o)
      PROVE  TypeInv'
  <2>1. op' \in [Ops -> OpRow]
    <3>1. "pending" \in TransStatus
      BY DEF TransStatus
    <3>2. op' = [op EXCEPT ![o].status = "pending"]
      BY <1>5 DEF RetryOperation
    <3> QED BY <3>1, <3>2, OpStatusType
  <2>2. ASSUME NEW t \in Trans
        PROVE  [trans[t] EXCEPT !.status = "pending", !.attempts = 0, !.error = ""] \in TransRow
    <3>1. trans[t] \in TransRow
      BY DEF LifecycleTypeOK
    <3>2. 0 \in 0 .. MaxAttempts
      BY ConstantsAssumption
    <3> QED BY <3>1, <3>2, Zenon DEF TransRow, TransStatus, TransError
  <2>3. trans' \in [Trans -> TransRow]
    BY <1>5, <2>2 DEF RetryOperation, LifecycleTypeOK
  <2> QED BY <1>5, <2>1, <2>3
          DEF RetryOperation, LifecycleTypeOK, Targeted, storageVars, portfolioVars
<1> QED BY <1>1, <1>2, <1>3, <1>4, <1>5 DEF Commands

\* What the steps of a worker do to its own row.
LEMMA WorkerRowType ==
    ASSUME TypeInv, NEW w \in LWorkers, NEW row \in LWorkerRow,
           row.pc # "idle" => row.t \in Trans, lw' = [lw EXCEPT ![w] = row]
    PROVE  lw' \in [LWorkers -> LWorkerRow] /\ Targeted'
BY DEF TypeInv, LifecycleTypeOK, Targeted

LEMMA IdleRowType ==
    ASSUME TypeInv, NEW w \in LWorkers, lw' = [lw EXCEPT ![w] = IdleLWorker]
    PROVE  lw' \in [LWorkers -> LWorkerRow] /\ Targeted'
<1>1. IdleLWorker \in LWorkerRow /\ IdleLWorker.pc = "idle"
  BY RowTypes DEF IdleLWorker
<1> QED BY <1>1, WorkerRowType

LEMMA FailWithType ==
    ASSUME TypeInv, NEW w \in LWorkers, lw[w].pc # "idle",
           NEW code \in {"", "retry"} \cup Permanent, LFailWith(w, code)
    PROVE  lw' \in [LWorkers -> LWorkerRow] /\ Targeted'
<1> DEFINE row == [lw[w] EXCEPT !.pc = "failing", !.code = code, !.want = NoWant]
<1>1. lw[w] \in LWorkerRow /\ lw[w].t \in Trans
  BY DEF TypeInv, LifecycleTypeOK, Targeted
<1>2. row \in LWorkerRow
  BY <1>1, RowTypes, Zenon DEF LWorkerRow
<1>3. row.t = lw[w].t
  BY <1>1, Zenon DEF LWorkerRow
<1>4. lw' = [lw EXCEPT ![w] = row]
  BY Zenon DEF LFailWith
<1> QED BY <1>1, <1>2, <1>3, <1>4, WorkerRowType

LEMMA TypeLClaim ==
    ASSUME TypeInv, NEW w \in LWorkers, NEW t \in Trans, LClaim(w, t) PROVE TypeInv'
<1>1. Swept[t] \in TransRow /\ Swept \in [Trans -> TransRow]
  BY SweptType DEF TypeInv
<1>2. Bump(Swept[t].attempts) \in 0 .. MaxAttempts
  BY <1>1, BumpType DEF TransRow
<1>3. Claimed(Swept[t]) \in TransRow
  BY <1>1, <1>2, Zenon DEF Claimed, TransRow, TransStatus
<1>4. trans' \in [Trans -> TransRow]
  BY <1>1, <1>3 DEF LClaim
<1>5. op' \in [Ops -> OpRow]
  <2>1. op[t[1]] \in OpRow /\ op \in [Ops -> OpRow]
    BY TransParts DEF TypeInv, LifecycleTypeOK
  <2>2. [op[t[1]] EXCEPT !.status = IF op[t[1]].status = "pending" THEN "processing"
                                    ELSE op[t[1]].status] \in OpRow
    BY <2>1 DEF OpRow, TransStatus
  <2> QED BY <2>1, <2>2 DEF LClaim
<1> DEFINE row == [pc |-> "claimed", t |-> t, attempts |-> Bump(Swept[t].attempts),
                   code |-> "", want |-> NoWant]
<1>6. row \in LWorkerRow /\ row.t \in Trans
  BY <1>2, RowTypes DEF LWorkerRow
<1>7. lw' \in [LWorkers -> LWorkerRow] /\ Targeted'
  <2>1. lw' = [lw EXCEPT ![w] = row]
    BY DEF LClaim
  <2> HIDE DEF row
  <2> QED BY <1>6, <2>1, WorkerRowType
<1> QED BY <1>4, <1>5, <1>7, SweptType
        DEF LClaim, TypeInv, LifecycleTypeOK, portfolioVars, storageVars

\* A busy worker's row, its transition and its version.
LEMMA BusyWorker ==
    ASSUME TypeInv, NEW w \in LWorkers, lw[w].pc # "idle"
    PROVE  /\ lw[w] \in LWorkerRow
           /\ lw[w].t \in Trans
           /\ lw[w].t[1] \in Ops
           /\ lw[w].t[2] \in Versions
           /\ trans[lw[w].t] \in TransRow
BY TransParts DEF TypeInv, LifecycleTypeOK, Targeted

LEMMA CodeTypes == /\ "retry" \in {"", "retry"} \cup Permanent
                   /\ \A t, want : LBeginCode(t, want) \in {"", "retry"} \cup Permanent
BY DEF Permanent, LBeginCode

LEMMA AggregateType ==
    ASSUME LifecycleTypeOK, NEW v \in Versions, NEW due \in Deadlines(v)
    PROVE  Aggregate(v, due) \in WantRow
<1>1. due \in Date
  BY DeadlineType
<1> QED BY <1>1 DEF Aggregate, WantRow, CustodyRequired, LegalHoldRequired

LEMMA TypeLBegin == ASSUME TypeInv, NEW w \in LWorkers, LBegin(w) PROVE TypeInv'
<1> DEFINE t == lw[w].t
           v == lw[w].t[2]
<1>1. lw[w].pc # "idle"
  BY DEF LBegin
<1>2. PICK due \in Deadlines(v) :
        IF LBeginCode(t, Aggregate(v, due)) = ""
        THEN /\ lw' = [lw EXCEPT ![w].pc = "storing", ![w].want = Aggregate(v, due)]
             /\ locked' = [locked EXCEPT ![v] = TRUE]
        ELSE /\ LFailWith(w, LBeginCode(t, Aggregate(v, due)))
             /\ UNCHANGED locked
  BY Zenon DEF LBegin
<1>3. locked' \in [Versions -> BOOLEAN]
  BY <1>2 DEF TypeInv, LifecycleTypeOK
<1>4. lw' \in [LWorkers -> LWorkerRow] /\ Targeted'
  <2>1. CASE LBeginCode(t, Aggregate(v, due)) = ""
    <3> DEFINE row == [lw[w] EXCEPT !.pc = "storing", !.want = Aggregate(v, due)]
    <3>1. lw' = [lw EXCEPT ![w] = row]
      BY <1>2, <2>1, Zenon
    <3>2. Aggregate(v, due) \in WantRow
      BY <1>1, BusyWorker, AggregateType DEF TypeInv
    <3>3. row \in LWorkerRow /\ row.t = lw[w].t
      BY <1>1, <3>2, BusyWorker, Zenon DEF LWorkerRow
    <3> HIDE DEF row
    <3> QED BY <1>1, <3>1, <3>3, BusyWorker, WorkerRowType
  <2>2. CASE LBeginCode(t, Aggregate(v, due)) # ""
    <3>1. LFailWith(w, LBeginCode(t, Aggregate(v, due)))
      BY <1>2, <2>2
    <3> QED BY <1>1, <3>1, CodeTypes, FailWithType
  <2> QED BY <2>1, <2>2
<1> QED BY <1>3, <1>4
        DEF LBegin, TypeInv, LifecycleTypeOK, portfolioVars, storageVars, queueVars

\* S3's answer to an extension.
LEMMA ExtendedType ==
    ASSUME LifecycleTypeOK, NEW v \in Versions, NEW due \in Date
    PROVE  Extended(v, due) \in Date
BY DEF Extended, LifecycleTypeOK

LEMMA TypeLReconcile == ASSUME TypeInv, NEW w \in LWorkers, LReconcile(w) PROVE TypeInv'
<1> DEFINE v == lw[w].t[2]
           want == lw[w].want
<1>1. lw[w].pc # "idle" /\ v \in Versions /\ lw[w] \in LWorkerRow /\ want \in WantRow
  BY BusyWorker DEF LReconcile, LWorkerRow
<1>2. CASE Refused(v, want)
  <2>1. /\ LFailWith(w, "retry")
        /\ locked' = [locked EXCEPT ![v] = FALSE]
        /\ UNCHANGED storageVars
    BY <1>2 DEF LReconcile
  <2>2. lw' \in [LWorkers -> LWorkerRow] /\ Targeted'
    BY <1>1, <2>1, CodeTypes, FailWithType
  <2> QED BY <2>1, <2>2
          DEF LReconcile, TypeInv, LifecycleTypeOK, portfolioVars, storageVars, queueVars
<1>3. CASE ~Refused(v, want)
  <2> DEFINE row == [lw[w] EXCEPT !.pc = "verified"]
  <2>1. /\ retainUntil' = [retainUntil EXCEPT ![v] = Extended(v, want.due)]
        /\ hold' = [hold EXCEPT ![v] = DesiredHold(want)]
        /\ lw' = [lw EXCEPT ![w] = row]
        /\ UNCHANGED locked
    BY <1>3, Zenon DEF LReconcile
  <2>2. Extended(v, want.due) \in Date /\ DesiredHold(want) \in BOOLEAN
    BY <1>1, ExtendedType DEF TypeInv, WantRow, DesiredHold
  <2>3. row \in LWorkerRow /\ row.t = lw[w].t
    BY <1>1 DEF LWorkerRow
  <2>4. lw' \in [LWorkers -> LWorkerRow] /\ Targeted'
    <3> HIDE DEF row
    <3> QED BY <1>1, <2>1, <2>3, BusyWorker, WorkerRowType
  <2> QED BY <2>1, <2>2, <2>4
          DEF LReconcile, TypeInv, LifecycleTypeOK, portfolioVars, queueVars
<1> QED BY <1>2, <1>3

LEMMA TypeLStorageFault ==
    ASSUME TypeInv, NEW w \in LWorkers, LStorageFault(w) PROVE TypeInv'
<1> DEFINE v == lw[w].t[2]
           want == lw[w].want
<1>1. lw[w].pc # "idle" /\ v \in Versions /\ want \in WantRow
  BY BusyWorker DEF LStorageFault, LWorkerRow
<1>2. lw' \in [LWorkers -> LWorkerRow] /\ Targeted'
  BY <1>1, CodeTypes, FailWithType DEF LStorageFault
<1>3. Extended(v, want.due) \in Date /\ DesiredHold(want) \in BOOLEAN
  BY <1>1, ExtendedType DEF TypeInv, WantRow, DesiredHold
<1>4. /\ retainUntil' \in [Versions -> Date]
      /\ hold' \in [Versions -> BOOLEAN]
  BY <1>1, <1>3 DEF LStorageFault, TypeInv, LifecycleTypeOK
<1>5. faults' \in 0 .. MaxFaults
  BY ConstantsAssumption DEF LStorageFault, TypeInv, LifecycleTypeOK
<1> QED BY <1>2, <1>4, <1>5
        DEF LStorageFault, TypeInv, LifecycleTypeOK, portfolioVars, queueVars

LEMMA TypeLCommit == ASSUME TypeInv, NEW w \in LWorkers, LCommit(w) PROVE TypeInv'
<1> DEFINE t == lw[w].t
           v == lw[w].t[2]
           want == lw[w].want
<1>1. /\ lw[w].pc # "idle"
      /\ t \in Trans /\ t[1] \in Ops /\ v \in Versions
      /\ trans[t] \in TransRow /\ want \in WantRow
  BY BusyWorker DEF LCommit, LWorkerRow
<1>2. locked' \in [Versions -> BOOLEAN]
  BY DEF LCommit, TypeInv, LifecycleTypeOK
<1>3. CASE trans[t].verified
  <2>1. LFailWith(w, "retry") /\ UNCHANGED <<proj, trans, op>>
    BY <1>3 DEF LCommit
  <2>2. lw' \in [LWorkers -> LWorkerRow] /\ Targeted'
    BY <1>1, <2>1, CodeTypes, FailWithType
  <2> QED BY <1>2, <2>1, <2>2 DEF LCommit, TypeInv, LifecycleTypeOK, portfolioVars, storageVars
<1>4. CASE ~trans[t].verified
  <2>1. /\ trans' = [trans EXCEPT ![t] = Verified(trans[t], v, want.due)]
        /\ proj' = [proj EXCEPT ![v] = [custody |-> want.custody, legal |-> want.legal,
                                        disposition |-> want.due # NoDate]]
        /\ op' = [op EXCEPT ![t[1]].status = StatusOf(t[1], trans')]
        /\ lw' = [lw EXCEPT ![w] = IdleLWorker]
    BY <1>4 DEF LCommit
  <2>2. lw' \in [LWorkers -> LWorkerRow] /\ Targeted'
    BY <2>1, IdleRowType
  <2>3. Verified(trans[t], v, want.due) \in TransRow
    <3> DEFINE until == IF want.due = NoDate THEN NoDate ELSE retainUntil[v]
    <3>1. hold[v] \in BOOLEAN /\ until \in Date
      BY <1>1, DatesAreIntegers DEF TypeInv, LifecycleTypeOK
    <3>2. Verified(trans[t], v, want.due) =
            [trans[t] EXCEPT !.status = "completed", !.error = "", !.stale = FALSE,
                             !.verified = TRUE, !.obsHold = hold[v], !.obsUntil = until]
      BY Zenon DEF Verified
    <3> HIDE DEF until
    <3> QED BY <1>1, <3>1, <3>2, Zenon DEF TransRow, TransStatus, TransError
  <2>4. trans' \in [Trans -> TransRow]
    BY <2>1, <2>3 DEF TypeInv, LifecycleTypeOK
  <2>5. proj' \in [Versions -> ProjRow]
    BY <1>1, <2>1 DEF TypeInv, LifecycleTypeOK, ProjRow, WantRow
  <2>6. op' \in [Ops -> OpRow]
    <3>1. StatusOf(t[1], trans') \in TransStatus
      BY StatusOfType
    <3> QED BY <1>1, <2>1, <3>1, OpStatusType DEF TypeInv
  <2> QED BY <1>2, <2>2, <2>4, <2>5, <2>6
          DEF LCommit, TypeInv, LifecycleTypeOK, portfolioVars, storageVars
<1> QED BY <1>3, <1>4

LEMMA FailedType ==
    ASSUME NEW row \in TransRow, NEW status \in TransStatus, NEW code \in TransError
    PROVE  Failed(row, status, code) \in TransRow
BY Zenon DEF Failed, TransRow

LEMMA TypeLFail == ASSUME TypeInv, NEW w \in LWorkers, LFail(w) PROVE TypeInv'
<1> DEFINE t == lw[w].t
           row == [lw[w] EXCEPT !.pc = "projecting"]
<1>1. /\ lw[w].pc # "idle"
      /\ lw[w] \in LWorkerRow /\ t \in Trans /\ trans[t] \in TransRow
  BY BusyWorker DEF LFail
<1>2. FailedStatus(w) \in TransStatus /\ lw[w].code \in TransError
  BY <1>1 DEF FailedStatus, TransStatus, TransError, LWorkerRow
<1>3. Failed(trans[t], FailedStatus(w), lw[w].code) \in TransRow
  BY <1>1, <1>2, FailedType
<1>4. trans' \in [Trans -> TransRow]
  BY <1>1, <1>3 DEF LFail, TypeInv, LifecycleTypeOK
<1>5. row \in LWorkerRow /\ row.t = lw[w].t
  BY <1>1 DEF LWorkerRow
<1>6. lw' = [lw EXCEPT ![w] = row]
  BY Zenon DEF LFail
<1>7. lw' \in [LWorkers -> LWorkerRow] /\ Targeted'
  <2> HIDE DEF row
  <2> QED BY <1>1, <1>5, <1>6, WorkerRowType
<1> QED BY <1>4, <1>7 DEF LFail, TypeInv, LifecycleTypeOK, portfolioVars, storageVars

LEMMA TypeLProject == ASSUME TypeInv, NEW w \in LWorkers, LProject(w) PROVE TypeInv'
<1>1. lw' \in [LWorkers -> LWorkerRow] /\ Targeted'
  BY IdleRowType DEF LProject
<1>2. op' \in [Ops -> OpRow]
  <2>1. StatusOf(lw[w].t[1], trans) \in TransStatus
    BY StatusOfType
  <2>2. lw[w].t[1] \in Ops /\ op' = [op EXCEPT ![lw[w].t[1]].status = StatusOf(lw[w].t[1], trans)]
    BY BusyWorker DEF LProject
  <2> QED BY <2>1, <2>2, OpStatusType DEF TypeInv
<1> QED BY <1>1, <1>2 DEF LProject, TypeInv, LifecycleTypeOK, portfolioVars, storageVars

LEMMA TypeLCrash == ASSUME TypeInv, NEW w \in LWorkers, LCrash(w) PROVE TypeInv'
<1>1. lw' \in [LWorkers -> LWorkerRow] /\ Targeted'
  BY IdleRowType DEF LCrash
<1>2. faults' \in 0 .. MaxFaults
  BY ConstantsAssumption DEF LCrash, TypeInv, LifecycleTypeOK
<1>3. locked' \in [Versions -> BOOLEAN]
  BY DEF LCrash, TypeInv, LifecycleTypeOK
<1> QED BY <1>1, <1>2, <1>3
        DEF LCrash, TypeInv, LifecycleTypeOK, portfolioVars, storageVars, queueVars

LEMMA TypeLeaseAges == ASSUME TypeInv, NEW t \in Trans, LeaseAges(t) PROVE TypeInv'
<1>1. trans[t] \in TransRow /\ [trans[t] EXCEPT !.stale = TRUE] \in TransRow
  BY DEF TypeInv, LifecycleTypeOK, TransRow
<1>2. trans' \in [Trans -> TransRow]
  BY <1>1 DEF LeaseAges, TypeInv, LifecycleTypeOK
<1> QED BY <1>2 DEF LeaseAges, TypeInv, LifecycleTypeOK, Targeted, portfolioVars, storageVars

LEMMA TypeStep == ASSUME TypeInv, [LifecycleNext]_lifecycleVars PROVE TypeInv'
<1>1. CASE Tick
  BY <1>1 DEF Tick, TypeInv, LifecycleTypeOK, Targeted, portfolioVars, storageVars, queueVars
<1>2. CASE UNCHANGED lifecycleVars
  BY <1>2 DEF lifecycleVars, TypeInv, LifecycleTypeOK, Targeted, portfolioVars, storageVars,
              queueVars
<1>3. ASSUME NEW w \in LWorkers, LWorkerStep(w) PROVE TypeInv'
  BY <1>3, TypeLBegin, TypeLReconcile, TypeLCommit, TypeLFail, TypeLProject DEF LWorkerStep
<1> QED BY <1>1, <1>2, <1>3, TypeCommands, TypeLeaseAges, TypeLClaim, TypeLStorageFault,
           TypeLCrash DEF LifecycleNext

\* Every reachable state is well typed, and the bounds on attempts and faults hold,
\* whatever the workers, the commands and the faults do.
THEOREM LifecycleTypeCorrect == LifecycleSpec => []LifecycleTypeOK
<1>1. LifecycleSpec => []TypeInv
  BY TypeInit, TypeStep, PTL DEF LifecycleSpec
<1> QED BY <1>1, PTL DEF TypeInv

-----------------------------------------------------------------------------
(* Custody.  The invariant that is inductive is the conjunction of what the *)
(* projection and the retention promise and of what a worker knows during   *)
(* its call.  It does not speak of the hold, so that it stays inductive     *)
(* beside a worker that takes holds off.                                    *)

CustodyInv ==
    /\ TypeInv
    /\ ActiveReferencesInCustody
    /\ RetentionCoversReferences
    /\ AggregateIsCurrent

\* A version that is referenced at all is to be held.
LEMMA ReferencedIsHeld ==
    ASSUME LifecycleTypeOK, NEW v \in Versions, NEW want \in WantRow, refs[v] # {},
           want.custody = CustodyRequired(v), RequiredRetention(v, want.due)
    PROVE  DesiredHold(want) = TRUE
<1>1. PICK p \in refs[v] : TRUE
  OBVIOUS
<1>2. CASE ceasedOn[p] = NoDate
  BY <1>2 DEF CustodyRequired, DesiredHold
<1>3. CASE ceasedOn[p] # NoDate
  <2>1. p \in Portfolios
    BY DEF LifecycleTypeOK
  <2>2. Deadline(p) \in Nat
    BY <1>3, <2>1, ConstantsAssumption DEF Deadline, LifecycleTypeOK, Date
  <2>3. Deadline(p) =< want.due
    BY <1>1 DEF RequiredRetention, Deadlines
  <2>4. want.due # NoDate
    BY <2>2, <2>3 DEF NoDate, WantRow, Date
  <2> QED BY <2>4 DEF DesiredHold
<1> QED BY <1>2, <1>3

LEMMA ExtensionCovers ==
    ASSUME LifecycleTypeOK, NEW v \in Versions, NEW due \in Date
    PROVE  /\ Extended(v, due) \in Date
           /\ due =< Extended(v, due)
           /\ retainUntil[v] =< Extended(v, due)
BY DEF Extended, NeedsExtension, LifecycleTypeOK, Date, NoDate

LEMMA CustodyInit == LifecycleInit => CustodyInv
<1> SUFFICES ASSUME LifecycleInit PROVE CustodyInv
  OBVIOUS
<1>1. TypeInv
  BY TypeInit
<1>2. ActiveReferencesInCustody /\ RetentionCoversReferences
  BY DEF LifecycleInit, ActiveReferencesInCustody, RetentionCoversReferences
<1>3. AggregateIsCurrent
  BY DEF LifecycleInit, AggregateIsCurrent, Storing, IdleLWorker
<1> QED BY <1>1, <1>2, <1>3 DEF CustodyInv

\* A step that leaves references, cessations, storage and projection alone, and at
\* most takes workers out of their storage call with their locks.
LEMMA QuietStep ==
    ASSUME CustodyInv, TypeInv', UNCHANGED <<ceasedOn, refs, retainUntil, proj>>,
           \A x \in LWorkers : Storing(x)' =>
               /\ Storing(x)
               /\ lw'[x] = lw[x]
               /\ locked'[lw[x].t[2]]
    PROVE  CustodyInv'
<1>1. ActiveReferencesInCustody' /\ RetentionCoversReferences'
  BY DEF CustodyInv, ActiveReferencesInCustody, RetentionCoversReferences,
         CustodyRequired, Deadline
<1>2. ASSUME NEW w \in LWorkers, Storing(w)' PROVE FencedWorker(w)'
  <2>1. Storing(w) /\ lw'[w] = lw[w] /\ locked'[lw[w].t[2]] /\ FencedWorker(w)
    BY <1>2 DEF CustodyInv, AggregateIsCurrent
  <2>2. \A x \in LWorkers : Storing(x)' /\ lw'[x].t[2] = lw[w].t[2] => x = w
    BY <2>1 DEF FencedWorker
  <2> QED BY <2>1, <2>2
          DEF FencedWorker, CustodyRequired, RequiredRetention, Deadlines, Deadline
<1> QED BY <1>1, <1>2 DEF CustodyInv, AggregateIsCurrent

\* A worker that gives up releases its own version only.
LEMMA WorkerStops ==
    ASSUME CustodyInv, TypeInv', NEW w \in LWorkers, lw[w].pc # "idle",
           UNCHANGED <<ceasedOn, refs, retainUntil, proj>>,
           NEW row, row.pc \notin {"storing", "verified"}, lw' = [lw EXCEPT ![w] = row],
           \/ UNCHANGED locked
           \/ Storing(w) /\ locked' = [locked EXCEPT ![lw[w].t[2]] = FALSE]
    PROVE  CustodyInv'
<1>1. ASSUME NEW x \in LWorkers, Storing(x)'
      PROVE  Storing(x) /\ lw'[x] = lw[x] /\ locked'[lw[x].t[2]]
  <2>1. x # w /\ lw'[x] = lw[x] /\ Storing(x)
    BY <1>1 DEF Storing, CustodyInv, TypeInv, LifecycleTypeOK
  <2>2. FencedWorker(x)
    BY <2>1 DEF CustodyInv, AggregateIsCurrent
  <2>3. Storing(w) => lw[w].t[2] # lw[x].t[2]
    BY <2>1, <2>2 DEF FencedWorker
  <2>4. lw[x].t[2] \in Versions
    BY <2>1, BusyWorker DEF CustodyInv, Storing
  <2> QED BY <2>1, <2>2, <2>3, <2>4 DEF FencedWorker, CustodyInv, TypeInv, LifecycleTypeOK
<1> QED BY <1>1, QuietStep

\* Commands.  Only those that touch a cessation or a reference can disturb a worker,
\* and they need the lock it holds.
LEMMA CustodyRecordCessation ==
    ASSUME CustodyInv, TypeInv', NEW p \in Portfolios, NEW day \in 0 .. MaxTime,
           RecordCessation(p, day)
    PROVE  CustodyInv'
<1>1. /\ ceasedOn' = [ceasedOn EXCEPT ![p] = day]
      /\ ceasedOn[p] = NoDate /\ day # NoDate
      /\ \A v \in Versions : p \in refs[v] => ~locked[v]
      /\ UNCHANGED <<refs, retainUntil, proj, locked, lw>>
  BY DEF RecordCessation, Unlocked, storageVars, NoDate
<1>2. \A v \in Versions : CustodyRequired(v)' => CustodyRequired(v)
  BY <1>1 DEF CustodyRequired, CustodyInv, TypeInv, LifecycleTypeOK
<1>3. \A v \in Versions : ~proj[v].custody => p \notin refs[v]
  BY <1>1 DEF CustodyInv, RetentionCoversReferences, Deadline
<1>4. \A v \in Versions : p \notin refs[v] =>
        /\ CustodyRequired(v)' = CustodyRequired(v)
        /\ Deadlines(v)' = Deadlines(v)
        /\ \A q \in refs[v] : Deadline(q)' = Deadline(q)
  BY <1>1 DEF CustodyRequired, Deadlines, Deadline, CustodyInv, TypeInv, LifecycleTypeOK
<1>5. ActiveReferencesInCustody'
  BY <1>1, <1>2 DEF CustodyInv, ActiveReferencesInCustody
<1>6. RetentionCoversReferences'
  BY <1>1, <1>3, <1>4 DEF CustodyInv, RetentionCoversReferences
<1>7. AggregateIsCurrent'
  <2> SUFFICES ASSUME NEW w \in LWorkers, Storing(w) PROVE FencedWorker(w)'
    BY <1>1 DEF AggregateIsCurrent, Storing
  <2>1. FencedWorker(w) /\ lw[w].t[2] \in Versions
    BY BusyWorker DEF CustodyInv, AggregateIsCurrent, Storing
  <2>2. p \notin refs[lw[w].t[2]]
    BY <1>1, <2>1 DEF FencedWorker
  <2> QED BY <1>1, <1>4, <2>1, <2>2 DEF FencedWorker, RequiredRetention, Storing
<1> QED BY <1>5, <1>6, <1>7 DEF CustodyInv

\* Versions whose references do not change keep what is required of them.
LEMMA SameReferences ==
    ASSUME NEW v, UNCHANGED ceasedOn, refs'[v] = refs[v]
    PROVE  /\ CustodyRequired(v)' = CustodyRequired(v)
           /\ Deadlines(v)' = Deadlines(v)
           /\ \A p : Deadline(p)' = Deadline(p)
BY DEF CustodyRequired, Deadlines, Deadline

\* Editing references: versions a worker has fenced are not edited, and a reference
\* is only ever added to a version in custody.
LEMMA CustodyEdit ==
    ASSUME CustodyInv, TypeInv',
           UNCHANGED <<ceasedOn, retainUntil, proj, locked, lw>>,
           \A v \in Versions : locked[v] => refs'[v] = refs[v],
           \A v \in Versions : refs'[v] \subseteq refs[v] \/ proj[v].custody
    PROVE  CustodyInv'
<1>2. ActiveReferencesInCustody'
  BY DEF CustodyInv, ActiveReferencesInCustody, CustodyRequired
<1>3. RetentionCoversReferences'
  BY DEF CustodyInv, RetentionCoversReferences, Deadline
<1>4. ASSUME NEW w \in LWorkers, Storing(w) PROVE FencedWorker(w)'
  <2>1. FencedWorker(w) /\ lw[w].t[2] \in Versions
    BY <1>4, BusyWorker DEF CustodyInv, AggregateIsCurrent, Storing
  <2>2. refs'[lw[w].t[2]] = refs[lw[w].t[2]]
    BY <2>1 DEF FencedWorker
  <2> QED BY <2>1, <2>2, SameReferences DEF FencedWorker, RequiredRetention, Storing
<1>5. AggregateIsCurrent'
  BY <1>4 DEF AggregateIsCurrent, Storing
<1> QED BY <1>2, <1>3, <1>5 DEF CustodyInv

LEMMA CustodyCommands == ASSUME CustodyInv, TypeInv', Commands PROVE CustodyInv'
<1>1. ASSUME NEW p \in Portfolios, NEW want \in BOOLEAN, SetLegalHold(p, want)
      PROVE  CustodyInv'
  BY <1>1, QuietStep DEF SetLegalHold, storageVars, Storing, CustodyInv, AggregateIsCurrent,
                         FencedWorker
<1>2. ASSUME NEW o \in Ops, RetryOperation(o) PROVE CustodyInv'
  BY <1>2, QuietStep DEF RetryOperation, portfolioVars, storageVars, Storing, CustodyInv,
                         AggregateIsCurrent, FencedWorker
<1>3. ASSUME NEW p \in Portfolios, NEW v \in Versions, AttachDocument(p, v)
      PROVE  CustodyInv'
  BY <1>3, CustodyEdit DEF AttachDocument, MayReference, storageVars, CustodyInv, TypeInv,
                           LifecycleTypeOK
<1>4. ASSUME NEW p \in Portfolios, NEW v \in Versions, NEW u \in Versions,
             ReplaceDocument(p, v, u)
      PROVE  CustodyInv'
  BY <1>4, CustodyEdit DEF ReplaceDocument, MayReference, Unlocked, storageVars, CustodyInv,
                           TypeInv, LifecycleTypeOK
<1> QED BY <1>1, <1>2, <1>3, <1>4, CustodyRecordCessation DEF Commands

\* The worker.
LEMMA FailWithStops ==
    ASSUME CustodyInv, TypeInv', NEW w \in LWorkers, lw[w].pc # "idle", NEW code,
           LFailWith(w, code), UNCHANGED <<ceasedOn, refs, retainUntil, proj>>,
           \/ UNCHANGED locked
           \/ Storing(w) /\ locked' = [locked EXCEPT ![lw[w].t[2]] = FALSE]
    PROVE  CustodyInv'
<1> DEFINE row == [lw[w] EXCEPT !.pc = "failing", !.code = code, !.want = NoWant]
<1>1. lw' = [lw EXCEPT ![w] = row]
  BY Zenon DEF LFailWith
<1>2. row.pc = "failing"
  BY BusyWorker, Zenon DEF CustodyInv, LWorkerRow
<1> HIDE DEF row
<1> QED BY <1>1, <1>2, WorkerStops

LEMMA CustodyLClaim ==
    ASSUME CustodyInv, TypeInv', NEW w \in LWorkers, NEW t \in Trans, LClaim(w, t)
    PROVE  CustodyInv'
<1>1. UNCHANGED <<ceasedOn, refs, retainUntil, proj, locked>>
  BY DEF LClaim, portfolioVars, storageVars
<1>2. \A x \in LWorkers : Storing(x)' => x # w /\ lw'[x] = lw[x] /\ Storing(x)
  BY DEF LClaim, Storing, CustodyInv, TypeInv, LifecycleTypeOK
<1>3. \A x \in LWorkers : Storing(x) => locked[lw[x].t[2]]
  BY DEF CustodyInv, AggregateIsCurrent, FencedWorker
<1> QED BY <1>1, <1>2, <1>3, QuietStep

\* Another worker in its storage call does not notice a step on another version.
LEMMA OtherWorkers ==
    ASSUME CustodyInv, TypeInv', NEW w \in LWorkers, NEW x \in LWorkers, x # w, Storing(x),
           UNCHANGED <<ceasedOn, refs>>, lw'[x] = lw[x],
           \A y \in LWorkers : Storing(y)' /\ y # w => Storing(y) /\ lw'[y] = lw[y],
           NEW v \in Versions, v # lw[x].t[2], Storing(w)' => lw'[w].t[2] = v,
           \A u \in Versions : u # v => locked'[u] = locked[u],
           \A u \in Versions : u # v => retainUntil'[u] = retainUntil[u]
    PROVE  FencedWorker(x)'
<1>1. FencedWorker(x) /\ lw[x].t[2] \in Versions
  BY BusyWorker DEF CustodyInv, AggregateIsCurrent, Storing
<1>2. \A y \in LWorkers : Storing(y)' /\ lw'[y].t[2] = lw[x].t[2] => y = x
  BY <1>1 DEF FencedWorker
<1> QED BY <1>1, <1>2, SameReferences DEF FencedWorker, RequiredRetention

LEMMA CustodyLBegin ==
    ASSUME CustodyInv, TypeInv', NEW w \in LWorkers, LBegin(w) PROVE CustodyInv'
<1>0. lw[w].t \in Trans /\ lw[w].t[2] \in Versions
  BY BusyWorker DEF LBegin, CustodyInv
<1> PICK t \in Trans : t = lw[w].t
  BY <1>0
<1> PICK v \in Versions : v = lw[w].t[2]
  BY <1>0
<1>1. /\ lw[w].pc = "claimed" /\ ~locked[v] /\ v \in Versions
      /\ UNCHANGED <<ceasedOn, refs, retainUntil, proj>>
  BY BusyWorker DEF LBegin, CustodyInv, portfolioVars, storageVars
<1>2. PICK due \in Deadlines(v) :
        /\ RequiredRetention(v, due)
        /\ IF LBeginCode(t, Aggregate(v, due)) = ""
           THEN /\ lw' = [lw EXCEPT ![w].pc = "storing", ![w].want = Aggregate(v, due)]
                /\ locked' = [locked EXCEPT ![v] = TRUE]
           ELSE /\ LFailWith(w, LBeginCode(t, Aggregate(v, due)))
                /\ UNCHANGED locked
  BY Zenon DEF LBegin
<1>3. CASE LBeginCode(t, Aggregate(v, due)) # ""
  BY <1>1, <1>2, <1>3, FailWithStops
<1>4. CASE LBeginCode(t, Aggregate(v, due)) = ""
  <2> DEFINE row == [lw[w] EXCEPT !.pc = "storing", !.want = Aggregate(v, due)]
  <2>1. lw' = [lw EXCEPT ![w] = row] /\ locked' = [locked EXCEPT ![v] = TRUE]
    BY <1>2, <1>4, Zenon
  <2>2. row.pc = "storing" /\ row.t = lw[w].t /\ row.want = Aggregate(v, due)
    BY <1>1, BusyWorker, Zenon DEF LWorkerRow, CustodyInv
  <2>3. refs[v] # {}
    BY <1>4 DEF LBeginCode
  <2> HIDE DEF row
  <2>4. /\ lw'[w] = row
        /\ \A x \in LWorkers : x # w => lw'[x] = lw[x]
        /\ locked'[v] /\ \A u \in Versions : u # v => locked'[u] = locked[u]
    BY <1>1, <2>1 DEF CustodyInv, TypeInv, LifecycleTypeOK
  <2>5. \A x \in LWorkers : x # w /\ Storing(x)' => Storing(x)
    BY <2>4 DEF Storing
  <2>6. ASSUME NEW x \in LWorkers, x # w, Storing(x) PROVE lw[x].t[2] # v
    BY <1>1, <2>6 DEF CustodyInv, AggregateIsCurrent, FencedWorker
  <2>7. FencedWorker(w)'
    <3>1. \A x \in LWorkers : Storing(x)' /\ lw'[x].t[2] = v => x = w
      BY <2>4, <2>5, <2>6
    <3>2. lw'[w].pc = "storing" /\ lw'[w].t[2] = v /\ lw'[w].want = Aggregate(v, due)
      BY <2>2, <2>4
    <3>3. CustodyRequired(v)' = CustodyRequired(v) /\ Deadlines(v)' = Deadlines(v)
      BY <1>1, SameReferences
    <3>4. lw'[w].want.custody = CustodyRequired(v) /\ lw'[w].want.due = due
      BY <3>2 DEF Aggregate
    <3> QED BY <1>1, <1>2, <2>3, <2>4, <3>1, <3>2, <3>3, <3>4
            DEF FencedWorker, RequiredRetention
  <2>8. ASSUME NEW x \in LWorkers, x # w, Storing(x)' PROVE FencedWorker(x)'
    <3>1. Storing(x) /\ lw'[x] = lw[x] /\ lw[x].t[2] # v
      BY <2>4, <2>5, <2>6, <2>8
    <3>2. Storing(w)' => lw'[w].t[2] = v
      BY <2>2, <2>4
    <3> QED BY <1>1, <2>4, <2>5, <2>8, <3>1, <3>2, OtherWorkers
  <2>9. AggregateIsCurrent'
    BY <2>7, <2>8 DEF AggregateIsCurrent
  <2>10. ActiveReferencesInCustody' /\ RetentionCoversReferences'
    BY <1>1, SameReferences DEF CustodyInv, ActiveReferencesInCustody,
                                RetentionCoversReferences
  <2> QED BY <2>9, <2>10 DEF CustodyInv
<1> QED BY <1>3, <1>4

\* The two S3 writes, or a prefix of them: retention only grows.
LEMMA StorageWrites ==
    ASSUME CustodyInv, NEW v \in Versions, NEW until \in Date, retainUntil[v] =< until,
           UNCHANGED <<ceasedOn, refs, proj>>,
           retainUntil' = [retainUntil EXCEPT ![v] = until]
    PROVE  ActiveReferencesInCustody' /\ RetentionCoversReferences'
<1>1. ActiveReferencesInCustody'
  BY DEF CustodyInv, ActiveReferencesInCustody, CustodyRequired
<1>2. \A u \in Versions : retainUntil[u] \in Int /\ retainUntil'[u] \in Int
                             /\ retainUntil[u] =< retainUntil'[u]
  BY DEF CustodyInv, TypeInv, LifecycleTypeOK, Date, NoDate
<1>3. \A p \in Portfolios : Deadline(p) \in Int
  BY DeadlineType DEF CustodyInv, TypeInv, Date, NoDate
<1>4. RetentionCoversReferences'
  <2> SUFFICES ASSUME NEW u \in Versions, ~proj[u].custody, NEW p \in refs[u]
               PROVE  Deadline(p) # NoDate /\ Deadline(p) =< retainUntil'[u]
    BY SameReferences DEF RetentionCoversReferences, Deadline
  <2>1. Deadline(p) # NoDate /\ Deadline(p) =< retainUntil[u] /\ p \in Portfolios
    BY DEF CustodyInv, RetentionCoversReferences, TypeInv, LifecycleTypeOK
  <2> QED BY <1>2, <1>3, <2>1
<1> QED BY <1>1, <1>4

LEMMA CustodyLReconcile ==
    ASSUME CustodyInv, TypeInv', NEW w \in LWorkers, LReconcile(w) PROVE CustodyInv'
<1>0. lw[w].pc # "idle" /\ lw[w].pc = "storing" /\ lw[w].t[2] \in Versions
      /\ lw[w] \in LWorkerRow /\ lw[w].want \in WantRow
  BY BusyWorker DEF LReconcile, CustodyInv, LWorkerRow
<1> PICK v \in Versions : v = lw[w].t[2]
  BY <1>0
<1> PICK want \in WantRow : want = lw[w].want
  BY <1>0
<1>1. UNCHANGED <<ceasedOn, refs, proj>>
  BY DEF LReconcile, portfolioVars
<1>2. CASE Refused(v, want)
  BY <1>0, <1>1, <1>2, FailWithStops DEF LReconcile, storageVars, Storing
<1>3. CASE ~Refused(v, want)
  <2> DEFINE until == Extended(v, want.due)
             row   == [lw[w] EXCEPT !.pc = "verified"]
  <2>1. /\ retainUntil' = [retainUntil EXCEPT ![v] = until]
        /\ lw' = [lw EXCEPT ![w] = row]
        /\ UNCHANGED locked
    BY <1>3, Zenon DEF LReconcile
  <2>2. FencedWorker(w)
    BY <1>0 DEF CustodyInv, AggregateIsCurrent, Storing
  <2>5. until \in Date /\ want.due =< until /\ retainUntil[v] =< until
    BY ExtensionCovers DEF WantRow, CustodyInv, TypeInv
  <2>6. row.pc = "verified" /\ row.t = lw[w].t /\ row.want = want
    BY <1>0 DEF LWorkerRow
  <2> HIDE DEF until, row
  <2>7. ActiveReferencesInCustody' /\ RetentionCoversReferences'
    BY <1>1, <2>1, <2>5, StorageWrites
  <2>8. /\ lw'[w] = row
        /\ \A x \in LWorkers : x # w => lw'[x] = lw[x]
        /\ retainUntil'[v] = until
        /\ \A u \in Versions : u # v => retainUntil'[u] = retainUntil[u]
    BY <2>1 DEF CustodyInv, TypeInv, LifecycleTypeOK
  <2>9. \A x \in LWorkers : x # w /\ Storing(x)' => Storing(x)
    BY <2>8 DEF Storing
  <2>10. FencedWorker(w)'
    <3>1. lw'[w].pc = "verified" /\ lw'[w].t[2] = v /\ lw'[w].want = want
      BY <2>6, <2>8
    <3>2. \A x \in LWorkers : Storing(x)' /\ lw'[x].t[2] = v => x = w
      BY <2>2, <2>8, <2>9 DEF FencedWorker
    <3>3. CustodyRequired(v)' = CustodyRequired(v) /\ Deadlines(v)' = Deadlines(v)
      BY <1>1, SameReferences
    <3> QED BY <1>1, <2>1, <2>2, <2>5, <2>8, <3>1, <3>2, <3>3
            DEF FencedWorker, RequiredRetention
  <2>11. ASSUME NEW x \in LWorkers, x # w, Storing(x)' PROVE FencedWorker(x)'
    <3>1. Storing(x) /\ lw'[x] = lw[x] /\ lw[x].t[2] # v
      BY <2>2, <2>8, <2>9, <2>11 DEF FencedWorker
    <3>2. Storing(w)' => lw'[w].t[2] = v
      BY <2>6, <2>8
    <3> QED BY <1>1, <2>1, <2>8, <2>9, <2>11, <3>1, <3>2, OtherWorkers
  <2>12. AggregateIsCurrent'
    BY <2>10, <2>11 DEF AggregateIsCurrent
  <2> QED BY <2>7, <2>12 DEF CustodyInv
<1> QED BY <1>2, <1>3

\* A worker leaves its storage call and gives the version back: the others still have
\* theirs, whatever it wrote to its own.
LEMMA OthersKeepTheirs ==
    ASSUME CustodyInv, TypeInv', NEW w \in LWorkers, Storing(w), NEW v \in Versions,
           v = lw[w].t[2], NEW row, row.pc \notin {"storing", "verified"},
           lw' = [lw EXCEPT ![w] = row], locked' = [locked EXCEPT ![v] = FALSE],
           \A u \in Versions : u # v => retainUntil'[u] = retainUntil[u],
           UNCHANGED <<ceasedOn, refs>>
    PROVE  AggregateIsCurrent'
<1>1. /\ lw'[w] = row
      /\ \A x \in LWorkers : x # w => lw'[x] = lw[x]
      /\ \A u \in Versions : u # v => locked'[u] = locked[u]
  BY DEF CustodyInv, TypeInv, LifecycleTypeOK
<1>2. ~Storing(w)' /\ \A x \in LWorkers : Storing(x)' => x # w /\ Storing(x)
  BY <1>1 DEF Storing
<1>3. ASSUME NEW x \in LWorkers, Storing(x)' PROVE FencedWorker(x)'
  <2>1. x # w /\ Storing(x) /\ lw'[x] = lw[x]
    BY <1>1, <1>2, <1>3
  <2>2. lw[x].t[2] # v
    BY <2>1 DEF CustodyInv, AggregateIsCurrent, FencedWorker
  <2> QED BY <1>1, <1>2, <2>1, <2>2, OtherWorkers
<1> QED BY <1>3 DEF AggregateIsCurrent

LEMMA CustodyLStorageFault ==
    ASSUME CustodyInv, TypeInv', NEW w \in LWorkers, LStorageFault(w) PROVE CustodyInv'
<1>0. lw[w].pc # "idle" /\ Storing(w) /\ lw[w].t[2] \in Versions
      /\ lw[w] \in LWorkerRow /\ lw[w].want \in WantRow
  BY BusyWorker DEF LStorageFault, CustodyInv, LWorkerRow, Storing
<1> PICK v \in Versions : v = lw[w].t[2]
  BY <1>0
<1> PICK want \in WantRow : want = lw[w].want
  BY <1>0
<1>1. UNCHANGED <<ceasedOn, refs, proj>> /\ locked' = [locked EXCEPT ![v] = FALSE]
  BY DEF LStorageFault, portfolioVars
<1>2. PICK writes \in 0 .. 2 :
        /\ retainUntil' = [retainUntil EXCEPT
                             ![v] = IF writes > 0 THEN Extended(v, want.due) ELSE retainUntil[v]]
  BY DEF LStorageFault
<1> DEFINE until == IF writes > 0 THEN Extended(v, want.due) ELSE retainUntil[v]
<1>3. until \in Date /\ retainUntil[v] =< until
  BY ExtensionCovers DEF WantRow, CustodyInv, TypeInv, LifecycleTypeOK, Date, NoDate
<1>7. retainUntil' = [retainUntil EXCEPT ![v] = until]
  BY <1>2
<1> HIDE DEF until
<1>8. ActiveReferencesInCustody' /\ RetentionCoversReferences'
  BY <1>1, <1>3, <1>7, StorageWrites
<1> DEFINE row == [lw[w] EXCEPT !.pc = "failing", !.code = "retry", !.want = NoWant]
<1>9. lw' = [lw EXCEPT ![w] = row]
  BY Zenon DEF LStorageFault, LFailWith
<1>10. row.pc = "failing"
  BY <1>0, Zenon DEF LWorkerRow
<1> HIDE DEF row
<1>11. \A u \in Versions : u # v => retainUntil'[u] = retainUntil[u]
  BY <1>7 DEF CustodyInv, TypeInv, LifecycleTypeOK
<1>12. AggregateIsCurrent'
  BY <1>0, <1>1, <1>9, <1>10, <1>11, OthersKeepTheirs
<1> QED BY <1>8, <1>12 DEF CustodyInv

LEMMA CustodyLCommit ==
    ASSUME CustodyInv, TypeInv', NEW w \in LWorkers, LCommit(w) PROVE CustodyInv'
<1>0. lw[w].pc # "idle" /\ lw[w].pc = "verified" /\ Storing(w) /\ lw[w].t[2] \in Versions
      /\ lw[w].want \in WantRow
  BY BusyWorker DEF LCommit, CustodyInv, LWorkerRow, Storing
<1> PICK v \in Versions : v = lw[w].t[2]
  BY <1>0
<1> PICK want \in WantRow : want = lw[w].want
  BY <1>0
<1>1. /\ UNCHANGED <<ceasedOn, refs, retainUntil>>
      /\ locked' = [locked EXCEPT ![v] = FALSE]
  BY DEF LCommit, portfolioVars, storageVars
<1>2. CASE trans[lw[w].t].verified
  BY <1>0, <1>1, <1>2, FailWithStops DEF LCommit
<1>3. CASE ~trans[lw[w].t].verified
  <2>1. /\ proj' = [proj EXCEPT ![v] = [custody |-> want.custody, legal |-> want.legal,
                                        disposition |-> want.due # NoDate]]
        /\ lw' = [lw EXCEPT ![w] = IdleLWorker]
    BY <1>3 DEF LCommit
  <2>2. FencedWorker(w)
    BY <1>0 DEF CustodyInv, AggregateIsCurrent
  <2>3. /\ proj'[v].custody = CustodyRequired(v)
        /\ \A u \in Versions : u # v => proj'[u] = proj[u]
    BY <2>1, <2>2 DEF FencedWorker, CustodyInv, TypeInv, LifecycleTypeOK
  <2>4. ActiveReferencesInCustody'
    BY <1>1, <2>3 DEF CustodyInv, ActiveReferencesInCustody, CustodyRequired
  <2>5. ASSUME ~CustodyRequired(v), NEW p \in refs[v]
        PROVE  Deadline(p) # NoDate /\ Deadline(p) =< retainUntil[v]
    <3>1. p \in Portfolios /\ ceasedOn[p] # NoDate
      BY <2>5 DEF CustodyRequired, CustodyInv, TypeInv, LifecycleTypeOK
    <3>2. Deadline(p) \in Nat
      BY <3>1, ConstantsAssumption DEF Deadline, CustodyInv, TypeInv, LifecycleTypeOK, Date
    <3>3. Deadline(p) =< want.due /\ want.due =< retainUntil[v]
      BY <1>0, <2>2 DEF FencedWorker, RequiredRetention, Deadlines
    <3>4. want.due \in Int /\ retainUntil[v] \in Int
      BY DEF WantRow, Date, NoDate, CustodyInv, TypeInv, LifecycleTypeOK
    <3> QED BY <3>2, <3>3, <3>4 DEF NoDate
  <2>6. RetentionCoversReferences'
    BY <1>1, <2>3, <2>5 DEF CustodyInv, RetentionCoversReferences, Deadline
  <2>7. AggregateIsCurrent'
    BY <1>0, <1>1, <2>1, OthersKeepTheirs DEF IdleLWorker
  <2> QED BY <2>4, <2>6, <2>7 DEF CustodyInv
<1> QED BY <1>2, <1>3

LEMMA CustodyQuietWorker ==
    ASSUME CustodyInv, TypeInv', NEW w \in LWorkers, LFail(w) \/ LProject(w) \/ LCrash(w)
    PROVE  CustodyInv'
<1>1. lw[w].pc # "idle" /\ UNCHANGED <<ceasedOn, refs, retainUntil, proj>>
  BY DEF LFail, LProject, LCrash, portfolioVars, storageVars
<1>2. CASE LFail(w)
  <2> DEFINE row == [lw[w] EXCEPT !.pc = "projecting"]
  <2>1. lw' = [lw EXCEPT ![w] = row] /\ UNCHANGED locked
    BY <1>2, Zenon DEF LFail
  <2>2. row.pc = "projecting"
    BY <1>1, BusyWorker DEF CustodyInv, LWorkerRow
  <2> HIDE DEF row
  <2> QED BY <1>1, <2>1, <2>2, WorkerStops
<1>3. CASE LProject(w) \/ LCrash(w)
  <2>1. /\ lw' = [lw EXCEPT ![w] = IdleLWorker]
        /\ \/ UNCHANGED locked
           \/ Storing(w) /\ locked' = [locked EXCEPT ![lw[w].t[2]] = FALSE]
    BY <1>3 DEF LProject, LCrash
  <2>2. IdleLWorker.pc = "idle"
    BY DEF IdleLWorker
  <2> QED BY <1>1, <2>1, <2>2, WorkerStops
<1> QED BY <1>2, <1>3

LEMMA CustodyStep == ASSUME CustodyInv, [LifecycleNext]_lifecycleVars PROVE CustodyInv'
<1>1. TypeInv'
  BY TypeStep DEF CustodyInv
<1>2. ASSUME UNCHANGED <<ceasedOn, refs, retainUntil, proj, locked, lw>> PROVE CustodyInv'
  BY <1>1, <1>2, QuietStep DEF CustodyInv, AggregateIsCurrent, FencedWorker, Storing
<1>3. CASE Tick \/ UNCHANGED lifecycleVars
  BY <1>2, <1>3 DEF Tick, lifecycleVars, portfolioVars, storageVars
<1>4. ASSUME NEW t \in Trans, LeaseAges(t) PROVE CustodyInv'
  BY <1>2, <1>4 DEF LeaseAges, portfolioVars, storageVars
<1>5. ASSUME NEW w \in LWorkers, LWorkerStep(w) \/ LStorageFault(w) \/ LCrash(w)
      PROVE  CustodyInv'
  BY <1>1, <1>5, CustodyLBegin, CustodyLReconcile, CustodyLCommit, CustodyLStorageFault,
     CustodyQuietWorker DEF LWorkerStep
<1> QED BY <1>1, <1>3, <1>4, <1>5, CustodyCommands, CustodyLClaim DEF LifecycleNext

LEMMA CustodyInvariant == LifecycleSpec => []CustodyInv
BY CustodyInit, CustodyStep, PTL DEF LifecycleSpec

\* What a worker writes to S3: the hold goes on, retention grows.
LEMMA WorkerWrites ==
    ASSUME CustodyInv, NEW w \in LWorkers, LReconcile(w) \/ LStorageFault(w)
    PROVE  /\ Storing(w) /\ lw[w].t[2] \in Versions
           /\ DesiredHold(lw[w].want)
           /\ \A u \in Versions : /\ hold[u] => hold'[u]
                                  /\ retainUntil[u] =< retainUntil'[u]
                                  /\ u # lw[w].t[2] => hold'[u] = hold[u]
                                                      /\ retainUntil'[u] = retainUntil[u]
<1>0. lw[w].pc # "idle" /\ Storing(w) /\ lw[w].t[2] \in Versions /\ lw[w].want \in WantRow
  BY BusyWorker DEF LReconcile, LStorageFault, CustodyInv, LWorkerRow, Storing
<1> PICK v \in Versions : v = lw[w].t[2]
  BY <1>0
<1> PICK want \in WantRow : want = lw[w].want
  BY <1>0
<1>1. FencedWorker(w)
  BY <1>0 DEF CustodyInv, AggregateIsCurrent
<1>2. DesiredHold(want) = TRUE
  BY <1>1, ReferencedIsHeld DEF FencedWorker, CustodyInv, TypeInv
<1>3. Extended(v, want.due) \in Date /\ retainUntil[v] =< Extended(v, want.due)
  BY ExtensionCovers DEF WantRow, CustodyInv, TypeInv
<1>4. \A u \in Versions : retainUntil[u] \in Int /\ hold[u] \in BOOLEAN
  BY DEF CustodyInv, TypeInv, LifecycleTypeOK, Date, NoDate
<1>5. PICK until \in {retainUntil[v], Extended(v, want.due)}, on \in {hold[v], TRUE} :
        /\ retainUntil' = [retainUntil EXCEPT ![v] = until]
        /\ hold' = [hold EXCEPT ![v] = on]
  <2>1. retainUntil = [retainUntil EXCEPT ![v] = retainUntil[v]] /\ hold = [hold EXCEPT ![v] = hold[v]]
    BY DEF CustodyInv, TypeInv, LifecycleTypeOK
  <2>2. CASE LReconcile(w)
    <3>1. CASE Refused(v, want)
      BY <2>1, <2>2, <3>1 DEF LReconcile, storageVars
    <3>2. CASE ~Refused(v, want)
      BY <1>2, <2>2, <3>2 DEF LReconcile
    <3> QED BY <3>1, <3>2
  <2>3. CASE LStorageFault(w)
    BY <1>2, <2>3 DEF LStorageFault
  <2> QED BY <2>2, <2>3
<1>6. /\ retainUntil'[v] = until /\ hold'[v] = on
      /\ \A u \in Versions : u # v => hold'[u] = hold[u] /\ retainUntil'[u] = retainUntil[u]
  BY <1>5 DEF CustodyInv, TypeInv, LifecycleTypeOK
<1>7. ASSUME NEW u \in Versions
      PROVE  /\ hold[u] => hold'[u]
             /\ retainUntil[u] =< retainUntil'[u]
             /\ u # v => hold'[u] = hold[u] /\ retainUntil'[u] = retainUntil[u]
  <2>1. CASE u = v
    <3>1. retainUntil[v] =< until
      BY <1>3, <1>4
    <3>2. hold[v] => on
      BY Zenon
    <3> QED BY <1>6, <2>1, <3>1, <3>2
  <2>2. CASE u # v
    BY <1>4, <1>6, <2>2
  <2> QED BY <2>1, <2>2
<1>8. DesiredHold(lw[w].want)
  BY <1>2
<1> QED BY <1>0, <1>7, <1>8

\* Only these steps write to S3.
LEMMA HoldsStay ==
    ASSUME CustodyInv, [LifecycleNext]_lifecycleVars
    PROVE  \A v \in Versions : /\ hold[v] => hold'[v]
                               /\ retainUntil[v] =< retainUntil'[v]
<1>1. ASSUME UNCHANGED storageVars
      PROVE  \A v \in Versions : /\ hold[v] => hold'[v]
                                 /\ retainUntil[v] =< retainUntil'[v]
  BY <1>1 DEF storageVars, CustodyInv, TypeInv, LifecycleTypeOK, Date, NoDate
<1>2. CASE Commands
  BY <1>1, <1>2 DEF Commands, RecordCessation, SetLegalHold, AttachDocument, ReplaceDocument,
                    RetryOperation
<1>3. CASE Tick \/ (\E t \in Trans : LeaseAges(t)) \/ UNCHANGED lifecycleVars
  BY <1>1, <1>3 DEF Tick, LeaseAges, lifecycleVars
<1>4. ASSUME NEW w \in LWorkers,
             \/ \E t \in Trans : LClaim(w, t)
             \/ LBegin(w) \/ LCommit(w) \/ LFail(w) \/ LProject(w) \/ LCrash(w)
      PROVE  UNCHANGED storageVars
  BY <1>4 DEF LClaim, LBegin, LCommit, LFail, LProject, LCrash
<1>5. ASSUME NEW w \in LWorkers, LReconcile(w) \/ LStorageFault(w)
      PROVE  \A v \in Versions : /\ hold[v] => hold'[v]
                                 /\ retainUntil[v] =< retainUntil'[v]
  BY <1>5, WorkerWrites
<1> QED BY <1>1, <1>2, <1>3, <1>4, <1>5 DEF LifecycleNext, LWorkerStep

\* Reconciliation never turns an Object Lock hold off: not at a deadline, not for a
\* shared version, not after a fault (PortfolioStorageLifecycleWorker).
THEOREM HoldSurvivesTime == LifecycleSpec => []TimeNeverReleases
<1>1. LifecycleInit => TimeNeverReleases
  BY DEF LifecycleInit, TimeNeverReleases
<1>2. CustodyInv /\ TimeNeverReleases /\ [LifecycleNext]_lifecycleVars => TimeNeverReleases'
  BY HoldsStay DEF TimeNeverReleases
<1> QED BY <1>1, <1>2, CustodyInvariant, PTL DEF LifecycleSpec

\* The worker's projection and a new reference never cross: a portfolio in activity
\* references versions in custody only (release fence of 0165, trigger of 0163).
THEOREM ActiveReferencesStayInCustody == LifecycleSpec => []ActiveReferencesInCustody
BY CustodyInvariant, PTL DEF CustodyInv

\* When custody is given up, S3 retains the version to the last of its references'
\* deadlines, and keeps doing so (processTransition's aggregate).
THEOREM RetentionOutlivesReferences == LifecycleSpec => []RetentionCoversReferences
BY CustodyInvariant, PTL DEF CustodyInv

\* The aggregate read before the S3 call is not stale when it is committed, and no two
\* replicas are in the storage call of one version.
THEOREM AggregateStaysCurrent == LifecycleSpec => []AggregateIsCurrent
BY CustodyInvariant, PTL DEF CustodyInv

-----------------------------------------------------------------------------
(* Rows of the queue: what a recorded transition keeps.                    *)

\* Transitions are recorded by commands, and a busy worker has a recorded one.
Recorded ==
    /\ \A t \in Trans : trans[t].status # "none" => t[1] < nextOp
    /\ \A w \in LWorkers : lw[w].pc # "idle" => trans[lw[w].t].status # "none"

\* A worker works on the transition it claimed until it is idle again.
LEMMA WorkerKeepsItsTransition ==
    ASSUME TypeInv, [LifecycleNext]_lifecycleVars, NEW w \in LWorkers, lw'[w].pc # "idle"
    PROVE  \/ lw[w].pc # "idle" /\ lw'[w].t = lw[w].t
           \/ \E t \in Trans : LClaim(w, t)
<1> DEFINE Kept == lw[w].pc # "idle" /\ lw'[w].t = lw[w].t
<1>0. lw \in [LWorkers -> LWorkerRow]
  BY DEF TypeInv, LifecycleTypeOK
<1>1. ASSUME UNCHANGED lw PROVE Kept
  BY <1>1
<1>2. ASSUME NEW x \in LWorkers, NEW row, lw' = [lw EXCEPT ![x] = row],
             x = w => row.pc = "idle" \/ (lw[w].pc # "idle" /\ row.t = lw[w].t)
      PROVE  Kept
  BY <1>0, <1>2
<1>3. ASSUME NEW x \in LWorkers, NEW code, LFailWith(x, code), lw[x].pc # "idle" PROVE Kept
  <2> DEFINE row == [lw[x] EXCEPT !.pc = "failing", !.code = code, !.want = NoWant]
  <2>1. lw' = [lw EXCEPT ![x] = row]
    BY <1>3, Zenon DEF LFailWith
  <2>2. row.t = lw[x].t
    BY <1>0, Zenon DEF LWorkerRow
  <2> HIDE DEF row
  <2> QED BY <1>2, <1>3, <2>1, <2>2
<1>4. CASE Commands \/ Tick \/ (\E t \in Trans : LeaseAges(t)) \/ UNCHANGED lifecycleVars
  BY <1>1, <1>4 DEF Commands, RecordCessation, SetLegalHold, AttachDocument, ReplaceDocument,
                    RetryOperation, Tick, LeaseAges, lifecycleVars
<1>5. ASSUME NEW x \in LWorkers, NEW t \in Trans, LClaim(x, t), x # w PROVE Kept
  BY <1>2, <1>5 DEF LClaim
<1>6. ASSUME NEW x \in LWorkers, LBegin(x) PROVE Kept
  <2>1. lw[x].pc = "claimed"
    BY <1>6 DEF LBegin
  <2>2. PICK code, want : \/ LFailWith(x, code)
                          \/ lw' = [lw EXCEPT ![x].pc = "storing", ![x].want = want]
    BY <1>6, Zenon DEF LBegin
  <2>3. CASE lw' = [lw EXCEPT ![x].pc = "storing", ![x].want = want]
    <3> DEFINE row == [lw[x] EXCEPT !.pc = "storing", !.want = want]
    <3>1. lw' = [lw EXCEPT ![x] = row]
      BY <2>3, Zenon
    <3>2. row.t = lw[x].t
      BY <1>0, Zenon DEF LWorkerRow
    <3> HIDE DEF row
    <3> QED BY <1>2, <2>1, <3>1, <3>2
  <2> QED BY <1>3, <2>1, <2>2, <2>3
<1>7. ASSUME NEW x \in LWorkers, LReconcile(x) PROVE Kept
  <2>1. lw[x].pc = "storing" /\ (LFailWith(x, "retry") \/ lw' = [lw EXCEPT ![x].pc = "verified"])
    BY <1>7 DEF LReconcile
  <2>2. [lw[x] EXCEPT !.pc = "verified"].t = lw[x].t
    BY <1>0 DEF LWorkerRow
  <2> QED BY <1>2, <1>3, <2>1, <2>2
<1>8. ASSUME NEW x \in LWorkers, LStorageFault(x) PROVE Kept
  <2>1. lw[x].pc = "storing" /\ LFailWith(x, "retry")
    BY <1>8 DEF LStorageFault
  <2> QED BY <1>3, <2>1
<1>9. ASSUME NEW x \in LWorkers, LCommit(x) PROVE Kept
  <2>1. /\ lw[x].pc = "verified"
        /\ LFailWith(x, "retry") \/ lw' = [lw EXCEPT ![x] = IdleLWorker]
    BY <1>9 DEF LCommit
  <2> QED BY <1>2, <1>3, <2>1 DEF IdleLWorker
<1>10. ASSUME NEW x \in LWorkers, LFail(x) \/ LProject(x) \/ LCrash(x) PROVE Kept
  <2>1. [lw[x] EXCEPT !.pc = "projecting"].t = lw[x].t
    BY <1>0 DEF LWorkerRow
  <2>2. lw[x].pc # "idle"
    BY <1>10 DEF LFail, LProject, LCrash
  <2>3. \/ lw' = [lw EXCEPT ![x] = [lw[x] EXCEPT !.pc = "projecting"]]
        \/ lw' = [lw EXCEPT ![x] = IdleLWorker]
    BY <1>10 DEF LFail, LProject, LCrash
  <2> QED BY <1>2, <2>1, <2>2, <2>3 DEF IdleLWorker
<1> QED BY <1>4, <1>5, <1>6, <1>7, <1>8, <1>9, <1>10 DEF LifecycleNext, LWorkerStep

\* A transition, once recorded, keeps the deadline it asks for.
LEMMA RecordsStay ==
    ASSUME CustodyInv, Recorded, [LifecycleNext]_lifecycleVars
    PROVE  /\ Recorded'
           /\ \A t \in Trans : trans[t].status # "none" =>
                 trans'[t].status # "none" /\ trans'[t].required = trans[t].required
<1> DEFINE Kept == /\ nextOp' \in Int /\ nextOp =< nextOp'
                   /\ \A t \in Trans : trans'[t].status # "none" =>
                         trans[t].status # "none" \/ t[1] < nextOp'
                   /\ \A t \in Trans : trans[t].status # "none" =>
                         trans'[t].status # "none" /\ trans'[t].required = trans[t].required
           Same(t) == /\ trans'[t].required = trans[t].required
                      /\ trans'[t].status = "none" <=> trans[t].status = "none"
<1>0. /\ TypeInv /\ nextOp \in Int
      /\ trans \in [Trans -> TransRow]
      /\ \A t \in Trans : t[1] \in Int
  BY TransParts, ConstantsAssumption DEF Ops, CustodyInv, TypeInv, LifecycleTypeOK
<1>1. ASSUME Kept, \A w \in LWorkers : lw'[w].pc # "idle" => trans'[lw'[w].t].status # "none"
      PROVE  Recorded' /\ Kept
  BY <1>0, <1>1 DEF Recorded
<1>2. ASSUME UNCHANGED nextOp, \A t \in Trans : Same(t) PROVE Kept
  BY <1>0, <1>2
<1>3. ASSUME UNCHANGED <<trans, nextOp>> PROVE Kept
  BY <1>2, <1>3
<1>4. ASSUME NEW t \in Trans, NEW row, trans' = [trans EXCEPT ![t] = row],
             row.required = trans[t].required, UNCHANGED nextOp,
             row.status # "none", trans[t].status # "none"
      PROVE  Kept
  <2>1. \A s \in Trans : Same(s)
    BY <1>0, <1>4
  <2> QED BY <1>2, <1>4, <2>1
<1>5. ASSUME NEW p, NEW kind, NEW want, NEW due, NewOperation(p, kind, want, due) PROVE Kept
  <2>1. nextOp' = nextOp + 1
    BY <1>5 DEF NewOperation
  <2>2. \A t \in Trans : trans'[t] = trans[t] \/ t[1] = nextOp
    BY <1>5 DEF NewOperation
  <2>3. \A t \in Trans : trans[t].status # "none" => t[1] < nextOp
    BY DEF Recorded
  <2> QED BY <1>0, <2>1, <2>2, <2>3
<1>6. ASSUME Commands PROVE Kept
  <2>1. ASSUME NEW o \in Ops, RetryOperation(o) PROVE Kept
    <3>1. ASSUME NEW t \in Trans PROVE Same(t)
      <4>1. trans[t] \in TransRow
        BY <1>0
      <4> DEFINE row == [trans[t] EXCEPT !.status = "pending", !.attempts = 0, !.error = ""]
      <4>2. \/ trans'[t] = trans[t]
            \/ trans[t].status \in {"blocked", "dead_letter"} /\ trans'[t] = row
        BY <2>1, Zenon DEF RetryOperation
      <4>3. row.status = "pending" /\ row.required = trans[t].required
        BY <4>1, Zenon DEF TransRow
      <4> HIDE DEF row
      <4> QED BY <4>1, <4>2, <4>3
    <3> QED BY <1>2, <2>1, <3>1 DEF RetryOperation
  <2> QED BY <1>3, <1>5, <1>6, <2>1 DEF Commands, RecordCessation, SetLegalHold,
             AttachDocument, ReplaceDocument, queueVars
<1>7. ASSUME Tick \/ UNCHANGED lifecycleVars PROVE Kept
  BY <1>3, <1>7 DEF Tick, lifecycleVars, queueVars
<1>8. ASSUME NEW t \in Trans, LeaseAges(t) PROVE Kept
  <2>1. \A s \in Trans : Same(s)
    BY <1>0, <1>8 DEF LeaseAges, TransRow
  <2> QED BY <1>2, <1>8, <2>1 DEF LeaseAges
<1>9. ASSUME NEW w \in LWorkers, NEW t \in Trans, LClaim(w, t) PROVE Kept
  <2>1. ASSUME NEW s \in Trans
        PROVE  /\ Swept[s].required = trans[s].required
               /\ Swept[s].status = "none" <=> trans[s].status = "none"
    <3>1. trans[s] \in TransRow
      BY <1>0
    <3> QED BY <3>1 DEF Swept, LeaseExpired, TransRow
  <2>2. Swept[t].status # "none" /\ Swept \in [Trans -> TransRow]
    BY <1>0, <1>9, SweptType DEF LClaim, TypeInv
  <2>3. /\ Claimed(Swept[t]).required = Swept[t].required
        /\ Claimed(Swept[t]).status # "none"
    BY <2>2 DEF Claimed, TransRow
  <2>4. \A s \in Trans : Same(s)
    BY <1>9, <2>1, <2>2, <2>3 DEF LClaim
  <2> QED BY <1>2, <1>9, <2>4 DEF LClaim
<1>10. ASSUME NEW w \in LWorkers, LBegin(w) \/ LReconcile(w) \/ LProject(w)
                                  \/ LStorageFault(w) \/ LCrash(w)
       PROVE  Kept
  BY <1>3, <1>10 DEF LBegin, LReconcile, LProject, LStorageFault, LCrash, queueVars
<1>11. ASSUME NEW w \in LWorkers, LFail(w) PROVE Kept
  <2>1. lw[w].t \in Trans /\ trans[lw[w].t] \in TransRow
    BY <1>0, <1>11, BusyWorker DEF LFail
  <2>2. ASSUME NEW status, NEW code
        PROVE  /\ Failed(trans[lw[w].t], status, code).required = trans[lw[w].t].required
               /\ Failed(trans[lw[w].t], status, code).status = status
    BY <2>1 DEF Failed, TransRow
  <2>3. FailedStatus(w) # "none"
    BY DEF FailedStatus
  <2>4. CASE trans[lw[w].t].status = "processing"
    <3> PICK row : row = Failed(trans[lw[w].t], FailedStatus(w), lw[w].code)
      OBVIOUS
    <3>1. trans' = [trans EXCEPT ![lw[w].t] = row] /\ UNCHANGED nextOp
      BY <1>11, <2>4 DEF LFail
    <3>2. row.required = trans[lw[w].t].required /\ row.status # "none"
      BY <2>2, <2>3
    <3> HIDE DEF Kept
    <3> QED BY <1>4, <2>1, <2>4, <3>1, <3>2
  <2>5. CASE trans[lw[w].t].status # "processing"
    BY <1>3, <1>11, <2>5 DEF LFail
  <2> QED BY <2>4, <2>5
<1>12. ASSUME NEW w \in LWorkers, LCommit(w) PROVE Kept
  <2>1. lw[w].t \in Trans /\ trans[lw[w].t] \in TransRow
    BY <1>0, <1>12, BusyWorker DEF LCommit
  <2>2. /\ Verified(trans[lw[w].t], lw[w].t[2], lw[w].want.due).required
             = trans[lw[w].t].required
        /\ Verified(trans[lw[w].t], lw[w].t[2], lw[w].want.due).status = "completed"
    BY <2>1 DEF Verified, TransRow
  <2>3. CASE trans[lw[w].t].verified
    BY <1>3, <1>12, <2>3 DEF LCommit
  <2>4. CASE ~trans[lw[w].t].verified
    <3> PICK row : row = Verified(trans[lw[w].t], lw[w].t[2], lw[w].want.due)
      OBVIOUS
    <3>1. trans' = [trans EXCEPT ![lw[w].t] = row] /\ UNCHANGED nextOp
      BY <1>12, <2>4 DEF LCommit
    <3>2. trans[lw[w].t].status # "none"
      BY <1>12 DEF LCommit, Recorded
    <3> HIDE DEF Kept
    <3> QED BY <1>4, <2>1, <2>2, <3>1, <3>2
  <2> QED BY <2>3, <2>4
<1>13. Kept
  BY <1>6, <1>7, <1>8, <1>9, <1>10, <1>11, <1>12 DEF LifecycleNext, LWorkerStep
<1>14. ASSUME NEW w \in LWorkers, lw'[w].pc # "idle" PROVE trans'[lw'[w].t].status # "none"
  <2>1. CASE lw[w].pc # "idle" /\ lw'[w].t = lw[w].t
    BY <1>0, <1>13, <2>1, BusyWorker DEF Recorded
  <2>2. CASE \E t \in Trans : LClaim(w, t)
    <3>1. PICK t \in Trans : LClaim(w, t)
      BY <2>2
    <3>2. lw'[w].t = t /\ trans'[t] = Claimed(Swept[t]) /\ Swept[t] \in TransRow
      BY <1>0, <3>1, SweptType DEF LClaim, TypeInv, LifecycleTypeOK
    <3> QED BY <3>2 DEF Claimed, TransRow
  <2> QED BY <1>0, <1>14, <2>1, <2>2, WorkerKeepsItsTransition
<1> QED BY <1>1, <1>13, <1>14

-----------------------------------------------------------------------------
(* Completion.  A row carries evidence once it was completed; the evidence  *)
(* covers the deadline the row asks for, because that is the deadline of a  *)
(* portfolio that still refers to the version: only a portfolio without a   *)
(* deadline may replace its documents.                                      *)

Evidence(t) ==
    /\ trans[t].status = "completed" => trans[t].verified
    /\ trans[t].verified => /\ trans[t].required =< trans[t].obsUntil
                            /\ trans[t].obsUntil =< retainUntil[t[2]]
    /\ trans[t].required # NoDate => \E p \in refs[t[2]] : Deadline(p) = trans[t].required
    /\ op[t[1]].status = "completed" /\ trans[t].status # "none" => trans[t].verified

EvidenceInv == CustodyInv /\ Recorded /\ \A t \in Trans : Evidence(t)

\* A row moves without losing its evidence or becoming completed.
Moved(t) ==
    /\ trans'[t].required = trans[t].required
    /\ trans'[t].verified = trans[t].verified
    /\ trans'[t].obsUntil = trans[t].obsUntil
    /\ trans'[t].status = "completed" => trans[t].status = "completed"
    /\ trans'[t].status = "none" <=> trans[t].status = "none"

LEMMA EvidenceStays ==
    ASSUME EvidenceInv, TypeInv', NEW t \in Trans, Moved(t),
           retainUntil[t[2]] =< retainUntil'[t[2]],
           trans[t].required # NoDate =>
              \A p \in refs[t[2]] : Deadline(p) = trans[t].required =>
                                    p \in refs'[t[2]] /\ Deadline(p)' = Deadline(p),
           op'[t[1]].status = "completed" =>
              op[t[1]].status = "completed" \/ (trans'[t].status # "none" => trans'[t].verified)
    PROVE  Evidence(t)'
<1>1. /\ trans[t].required \in Int /\ trans[t].obsUntil \in Int
      /\ retainUntil[t[2]] \in Int /\ retainUntil'[t[2]] \in Int
  <2>1. /\ trans[t] \in TransRow
        /\ retainUntil[t[2]] \in Date /\ retainUntil'[t[2]] \in Date
    BY TransParts DEF EvidenceInv, CustodyInv, TypeInv, LifecycleTypeOK
  <2> QED BY <2>1 DEF TransRow, Date, NoDate
<1>2. Evidence(t)
  BY DEF EvidenceInv
<1>3. (trans[t].status = "completed" => trans[t].verified)'
  BY <1>2 DEF Moved, Evidence
<1>4. (trans[t].verified => /\ trans[t].required =< trans[t].obsUntil
                            /\ trans[t].obsUntil =< retainUntil[t[2]])'
  BY <1>1, <1>2 DEF Moved, Evidence
<1>5. (trans[t].required # NoDate => \E p \in refs[t[2]] : Deadline(p) = trans[t].required)'
  <2> SUFFICES ASSUME trans'[t].required # NoDate
               PROVE  \E p \in refs'[t[2]] : Deadline(p)' = trans'[t].required
    OBVIOUS
  <2>1. trans[t].required # NoDate /\ trans'[t].required = trans[t].required
    BY DEF Moved
  <2>2. PICK p \in refs[t[2]] : Deadline(p) = trans[t].required
    BY <1>2, <2>1 DEF Evidence
  <2> QED BY <2>1, <2>2
<1>6. (op[t[1]].status = "completed" /\ trans[t].status # "none" => trans[t].verified)'
  BY <1>2 DEF Moved, Evidence
<1> QED BY <1>3, <1>4, <1>5, <1>6 DEF Evidence

\* The aggregate status of an operation is completed only when all its rows are.
LEMMA CompletedRows ==
    ASSUME NEW o, NEW rows, StatusOf(o, rows) = "completed",
           NEW t \in Trans, t[1] = o, rows[t].status # "none"
    PROVE  rows[t].status = "completed"
<1> DEFINE mine == {rows[s].status : s \in {s \in Trans : s[1] = o}} \ {"none"}
<1>1. rows[t].status \in mine
  OBVIOUS
<1>2. mine \subseteq {"completed"}
  BY DEF StatusOf
<1> QED BY <1>1, <1>2

\* What EvidenceStays asks for, of the rows of a step that edits no references.
LEMMA EvidenceQuiet ==
    ASSUME EvidenceInv, TypeInv', UNCHANGED <<ceasedOn, refs>>,
           \A v \in Versions : retainUntil[v] =< retainUntil'[v],
           NEW t \in Trans, Moved(t),
           op'[t[1]].status = "completed" =>
              op[t[1]].status = "completed" \/ (trans'[t].status # "none" => trans'[t].verified)
    PROVE  Evidence(t)'
<1>1. retainUntil[t[2]] =< retainUntil'[t[2]] /\ \A p : Deadline(p)' = Deadline(p)
  BY TransParts DEF Deadline
<1> QED BY <1>1, EvidenceStays

\* A command records transitions without evidence, each with the deadline of the
\* portfolio it is for.
LEMMA EvidenceNewOperation ==
    ASSUME EvidenceInv, TypeInv', NEW p \in Portfolios, NEW kind, NEW want, NEW due,
           NewOperation(p, kind, want, due), due # NoDate => due = Deadline(p)',
           UNCHANGED <<refs, retainUntil>>,
           \A q : Deadline(q) # NoDate => Deadline(q)' = Deadline(q),
           NEW t \in Trans
    PROVE  Evidence(t)'
<1>0. /\ trans \in [Trans -> TransRow] /\ op \in [Ops -> OpRow] /\ nextOp \in Ops
      /\ trans[t].status # "none" => t[1] < nextOp
      /\ t[1] \in Ops /\ t[2] \in Versions /\ retainUntil[t[2]] \in Date
  BY TransParts DEF NewOperation, EvidenceInv, CustodyInv, Recorded, TypeInv, LifecycleTypeOK
<1>1. CASE t[1] = nextOp /\ p \in refs[t[2]]
  <2>1. trans'[t] = [NoTrans EXCEPT !.status = "pending", !.required = due]
    BY <1>1 DEF NewOperation
  <2>2. /\ trans'[t].status = "pending" /\ trans'[t].required = due
        /\ trans'[t].verified = FALSE
    BY <2>1, SMTT(30) DEF NoTrans
  <2>3. op'[t[1]].status = "pending"
    BY <1>0, <1>1 DEF NewOperation
  <2> QED BY <1>1, <2>2, <2>3 DEF Evidence
<1>2. CASE ~(t[1] = nextOp /\ p \in refs[t[2]])
  <2>1. trans'[t] = trans[t]
    BY <1>2 DEF NewOperation
  <2>2. t[1] # nextOp => op'[t[1]] = op[t[1]]
    BY <1>0 DEF NewOperation
  <2>3. t[1] = nextOp => trans'[t].status = "none"
    BY <1>0, <2>1 DEF Ops
  <2>4. retainUntil[t[2]] =< retainUntil'[t[2]]
    BY <1>0 DEF Date, NoDate
  <2> QED BY <2>1, <2>2, <2>3, <2>4, EvidenceStays DEF Moved
<1> QED BY <1>1, <1>2

LEMMA EvidenceCommands ==
    ASSUME EvidenceInv, TypeInv', Commands, NEW t \in Trans PROVE Evidence(t)'
<1>0. /\ \A v \in Versions : retainUntil[v] \in Int
      /\ ceasedOn \in [Portfolios -> Date] /\ refs \in [Versions -> SUBSET Portfolios]
      /\ trans \in [Trans -> TransRow] /\ op \in [Ops -> OpRow]
      /\ t[1] \in Ops /\ t[2] \in Versions
  BY TransParts DEF EvidenceInv, CustodyInv, TypeInv, LifecycleTypeOK, Date, NoDate
<1>1. ASSUME NEW p \in Portfolios, NEW day \in 0 .. MaxTime, RecordCessation(p, day)
      PROVE  Evidence(t)'
  <2>1. NewOperation(p, "cessation", FALSE, day + Retention) /\ UNCHANGED <<refs, retainUntil>>
    BY <1>1 DEF RecordCessation, storageVars
  <2>2. ceasedOn' = [ceasedOn EXCEPT ![p] = day] /\ ceasedOn[p] = NoDate
    BY <1>1 DEF RecordCessation
  <2>3. Deadline(p)' = day + Retention
    BY <1>0, <2>2 DEF Deadline, NoDate
  <2>4. ASSUME NEW q, Deadline(q) # NoDate PROVE Deadline(q)' = Deadline(q)
    BY <1>0, <2>2, <2>4 DEF Deadline
  <2> QED BY <2>1, <2>3, <2>4, EvidenceNewOperation
<1>2. ASSUME NEW p \in Portfolios, NEW want \in BOOLEAN, SetLegalHold(p, want)
      PROVE  Evidence(t)'
  <2>1. /\ NewOperation(p, "legal_hold", want, Deadline(p))
        /\ UNCHANGED <<refs, retainUntil, ceasedOn>>
    BY <1>2 DEF SetLegalHold, storageVars
  <2>2. \A q : Deadline(q)' = Deadline(q)
    BY <2>1 DEF Deadline
  <2> QED BY <2>1, <2>2, EvidenceNewOperation
<1>3. ASSUME NEW p \in Portfolios, NEW v \in Versions, AttachDocument(p, v)
      PROVE  Evidence(t)'
  <2>1. /\ UNCHANGED <<ceasedOn, retainUntil, trans, op>>
        /\ refs[t[2]] \subseteq refs'[t[2]]
    BY <1>0, <1>3 DEF AttachDocument, storageVars, queueVars
  <2>2. \A q : Deadline(q)' = Deadline(q)
    BY <2>1 DEF Deadline
  <2> QED BY <1>0, <2>1, <2>2, EvidenceStays DEF Moved
<1>4. ASSUME NEW p \in Portfolios, NEW v \in Versions, NEW u \in Versions,
             ReplaceDocument(p, v, u)
      PROVE  Evidence(t)'
  <2>1. /\ UNCHANGED <<ceasedOn, retainUntil, trans, op>>
        /\ refs[t[2]] \ {p} \subseteq refs'[t[2]]
        /\ ceasedOn[p] = NoDate
    BY <1>0, <1>4 DEF ReplaceDocument, MayReference, storageVars, queueVars
  <2>2. Deadline(p) = NoDate /\ \A q : Deadline(q)' = Deadline(q)
    BY <2>1 DEF Deadline
  <2> QED BY <1>0, <2>1, <2>2, EvidenceStays DEF Moved
<1>5. ASSUME NEW o \in Ops, RetryOperation(o) PROVE Evidence(t)'
  <2>1. /\ UNCHANGED <<ceasedOn, refs, retainUntil>>
        /\ op' = [op EXCEPT ![o].status = "pending"]
    BY <1>5 DEF RetryOperation, portfolioVars, storageVars
  <2>2. op'[t[1]].status = "completed" => op[t[1]].status = "completed"
    BY <1>0, <2>1 DEF OpRow
  <2>3. Moved(t)
    <3>1. trans[t] \in TransRow
      BY <1>0
    <3> DEFINE row == [trans[t] EXCEPT !.status = "pending", !.attempts = 0, !.error = ""]
    <3>2. \/ trans'[t] = trans[t]
          \/ trans[t].status \in {"blocked", "dead_letter"} /\ trans'[t] = row
      BY <1>5, Zenon DEF RetryOperation
    <3>3. /\ row.status = "pending" /\ row.required = trans[t].required
          /\ row.verified = trans[t].verified /\ row.obsUntil = trans[t].obsUntil
      BY <3>1, Zenon DEF TransRow
    <3> HIDE DEF row
    <3> QED BY <3>1, <3>2, <3>3 DEF Moved
  <2> QED BY <1>0, <2>1, <2>2, <2>3, EvidenceQuiet
<1> QED BY <1>1, <1>2, <1>3, <1>4, <1>5 DEF Commands

\* A worker's steps but the commit of evidence move rows, and complete no operation
\* with a row that is not completed.
LEMMA EvidenceLClaim ==
    ASSUME EvidenceInv, TypeInv', NEW w \in LWorkers, NEW s \in Trans, LClaim(w, s),
           NEW t \in Trans
    PROVE  Evidence(t)'
<1>0. /\ trans \in [Trans -> TransRow] /\ op \in [Ops -> OpRow]
      /\ TypeInv /\ LifecycleTypeOK /\ t[1] \in Ops /\ s[1] \in Ops
  BY TransParts DEF EvidenceInv, CustodyInv, TypeInv, LifecycleTypeOK
<1>1. UNCHANGED <<ceasedOn, refs, retainUntil>>
  BY DEF LClaim, portfolioVars, storageVars
<1>2. op'[t[1]].status = "completed" => op[t[1]].status = "completed"
  BY <1>0 DEF LClaim, OpRow
<1>3. Swept \in [Trans -> TransRow]
  BY <1>0, SweptType
<1>4. ASSUME NEW x \in Trans
      PROVE  /\ Swept[x].required = trans[x].required
             /\ Swept[x].verified = trans[x].verified
             /\ Swept[x].obsUntil = trans[x].obsUntil
             /\ Swept[x].status = "completed" => trans[x].status = "completed"
             /\ Swept[x].status = "none" <=> trans[x].status = "none"
  <2>1. trans[x] \in TransRow
    BY <1>0
  <2> QED BY <2>1 DEF Swept, LeaseExpired, TransRow
<1>5. /\ Claimed(Swept[s]).required = Swept[s].required
      /\ Claimed(Swept[s]).verified = Swept[s].verified
      /\ Claimed(Swept[s]).obsUntil = Swept[s].obsUntil
      /\ Claimed(Swept[s]).status = "processing"
  BY <1>3 DEF Claimed, TransRow
<1>6. Swept[s].status = "pending" /\ trans' = [Swept EXCEPT ![s] = Claimed(Swept[s])]
  BY DEF LClaim
<1>7. Moved(t)
  BY <1>3, <1>4, <1>5, <1>6 DEF Moved
<1>8. \A v \in Versions : retainUntil[v] =< retainUntil'[v]
  BY <1>0, <1>1 DEF LifecycleTypeOK, Date, NoDate
<1> QED BY <1>1, <1>2, <1>7, <1>8, EvidenceQuiet

LEMMA EvidenceLFail ==
    ASSUME EvidenceInv, TypeInv', NEW w \in LWorkers, LFail(w), NEW t \in Trans
    PROVE  Evidence(t)'
<1>0. /\ trans \in [Trans -> TransRow] /\ TypeInv /\ LifecycleTypeOK /\ lw[w].t \in Trans
  BY BusyWorker DEF LFail, EvidenceInv, CustodyInv, TypeInv, LifecycleTypeOK
<1>1. UNCHANGED <<ceasedOn, refs, retainUntil, op>>
  BY DEF LFail, portfolioVars, storageVars
<1>2. Moved(t)
  <2>1. CASE trans[lw[w].t].status # "processing"
    BY <2>1 DEF LFail, Moved
  <2>2. CASE trans[lw[w].t].status = "processing"
    <3> PICK row : row = Failed(trans[lw[w].t], FailedStatus(w), lw[w].code)
      OBVIOUS
    <3>1. trans' = [trans EXCEPT ![lw[w].t] = row]
      BY <2>2 DEF LFail
    <3>2. trans[lw[w].t] \in TransRow
      BY <1>0
    <3>3. /\ row.required = trans[lw[w].t].required /\ row.verified = trans[lw[w].t].verified
          /\ row.obsUntil = trans[lw[w].t].obsUntil /\ row.status = FailedStatus(w)
      BY <3>2 DEF Failed, TransRow
    <3>4. FailedStatus(w) \notin {"none", "completed"}
      BY DEF FailedStatus
    <3> QED BY <1>0, <2>2, <3>1, <3>3, <3>4 DEF Moved
  <2> QED BY <2>1, <2>2
<1>3. \A v \in Versions : retainUntil[v] =< retainUntil'[v]
  BY <1>0, <1>1 DEF LifecycleTypeOK, Date, NoDate
<1> QED BY <1>1, <1>2, <1>3, EvidenceQuiet

LEMMA EvidenceLProject ==
    ASSUME EvidenceInv, TypeInv', NEW w \in LWorkers, LProject(w), NEW t \in Trans
    PROVE  Evidence(t)'
<1> PICK o \in Ops : o = lw[w].t[1]
  BY BusyWorker DEF LProject, EvidenceInv, CustodyInv
<1>0. /\ op \in [Ops -> OpRow] /\ LifecycleTypeOK /\ t[1] \in Ops
  BY TransParts DEF EvidenceInv, CustodyInv, TypeInv, LifecycleTypeOK
<1>1. UNCHANGED <<ceasedOn, refs, retainUntil, trans>>
  BY DEF LProject, portfolioVars, storageVars
<1>2. op' = [op EXCEPT ![o].status = StatusOf(o, trans)]
  BY DEF LProject
<1>3. ASSUME op'[t[1]].status = "completed", trans[t].status # "none"
      PROVE  op[t[1]].status = "completed" \/ trans[t].verified
  <2>1. CASE t[1] # o
    BY <1>0, <1>2, <1>3, <2>1
  <2>2. CASE t[1] = o
    <3>1. StatusOf(o, trans) = "completed"
      BY <1>0, <1>2, <1>3, <2>2 DEF OpRow
    <3>2. trans[t].status = "completed"
      BY <1>3, <2>2, <3>1, CompletedRows
    <3> QED BY <3>2 DEF EvidenceInv, Evidence
  <2> QED BY <2>1, <2>2
<1>4. \A v \in Versions : retainUntil[v] =< retainUntil'[v]
  BY <1>0, <1>1 DEF LifecycleTypeOK, Date, NoDate
<1>5. Moved(t)
  BY <1>1 DEF Moved
<1> QED BY <1>1, <1>3, <1>4, <1>5, EvidenceQuiet

\* The commit: the evidence is S3's own retention, which by then covers the deadline of
\* every portfolio that refers to the version, the row's own among them.
LEMMA EvidenceLCommit ==
    ASSUME EvidenceInv, TypeInv', NEW w \in LWorkers, LCommit(w), NEW t \in Trans
    PROVE  Evidence(t)'
<1> PICK s \in Trans : s = lw[w].t
  BY BusyWorker DEF LCommit, EvidenceInv, CustodyInv
<1> PICK v \in Versions : v = s[2]
  BY TransParts
<1> PICK o \in Ops : o = s[1]
  BY TransParts
<1> PICK want \in WantRow : want = lw[w].want
  BY BusyWorker DEF LCommit, EvidenceInv, CustodyInv, LWorkerRow
<1>0. /\ trans \in [Trans -> TransRow] /\ op \in [Ops -> OpRow]
      /\ TypeInv /\ LifecycleTypeOK /\ t[1] \in Ops /\ CustodyInv
      /\ lw[w].pc = "verified"
  BY TransParts DEF EvidenceInv, CustodyInv, TypeInv, LifecycleTypeOK, LCommit
<1>1. UNCHANGED <<ceasedOn, refs, retainUntil>>
  BY DEF LCommit, portfolioVars, storageVars
<1>2. \A u \in Versions : retainUntil[u] =< retainUntil'[u]
  BY <1>0, <1>1 DEF LifecycleTypeOK, Date, NoDate
<1>3. CASE trans[s].verified
  <2>1. UNCHANGED <<trans, op>>
    BY <1>3 DEF LCommit
  <2>2. Moved(t)
    BY <2>1 DEF Moved
  <2> QED BY <1>1, <1>2, <2>1, <2>2, EvidenceQuiet
<1>4. CASE ~trans[s].verified
  <2> PICK row : row = Verified(trans[s], v, want.due)
    OBVIOUS
  <2>1. /\ trans' = [trans EXCEPT ![s] = row]
        /\ op' = [op EXCEPT ![o].status = StatusOf(o, trans')]
    BY <1>4 DEF LCommit
  <2>2. trans[s] \in TransRow /\ trans[s].status # "none"
    BY <1>0 DEF EvidenceInv, Recorded
  <2>3. /\ row.required = trans[s].required /\ row.verified = TRUE /\ row.status = "completed"
        /\ row.obsUntil = IF want.due = NoDate THEN NoDate ELSE retainUntil[v]
    BY <2>2 DEF Verified, TransRow
  <2>4. trans'[s] = row /\ \A x \in Trans : x # s => trans'[x] = trans[x]
    BY <1>0, <2>1
  <2>5. ASSUME NEW x \in Trans, op'[x[1]].status = "completed", trans'[x].status # "none"
        PROVE  op[x[1]].status = "completed" \/ trans'[x].verified
    <3>0. x[1] \in Ops
      BY TransParts
    <3>1. CASE x[1] # o
      BY <1>0, <2>1, <2>5, <3>0, <3>1
    <3>2. CASE x[1] = o
      <4>1. StatusOf(o, trans') = "completed"
        BY <1>0, <2>1, <2>5, <3>2 DEF OpRow
      <4>2. trans'[x].status = "completed"
        BY <2>5, <3>2, <4>1, CompletedRows
      <4>3. CASE x = s
        BY <2>3, <2>4, <4>3
      <4>4. CASE x # s
        BY <2>4, <4>2, <4>4 DEF EvidenceInv, Evidence
      <4> QED BY <4>3, <4>4
    <3> QED BY <3>1, <3>2
  <2>6. CASE t # s
    <3>1. Moved(t)
      BY <2>4, <2>6 DEF Moved
    <3> QED BY <1>1, <1>2, <2>5, <3>1, EvidenceQuiet
  <2>7. CASE t = s
    <3>1. FencedWorker(w)
      BY <1>0 DEF CustodyInv, AggregateIsCurrent, Storing
    <3>2. RequiredRetention(v, want.due) /\ want.due =< retainUntil[v]
      BY <1>0, <3>1 DEF FencedWorker
    <3>3. /\ trans[s].required \in Date /\ want.due \in Date /\ retainUntil[v] \in Date
      BY <1>0, <2>2 DEF TransRow, WantRow, LifecycleTypeOK
    <3>4. trans[s].required # NoDate => \E p \in refs[v] : Deadline(p) = trans[s].required
      BY DEF EvidenceInv, Evidence
    <3>5. trans[s].required # NoDate => trans[s].required =< want.due
      BY <3>2, <3>4 DEF RequiredRetention, Deadlines
    <3>6. trans[s].required =< row.obsUntil /\ row.obsUntil =< retainUntil[v]
      <4>1. CASE want.due = NoDate
        BY <2>3, <3>3, <3>5, <4>1 DEF Date, NoDate
      <4>2. CASE want.due # NoDate
        BY <2>3, <3>2, <3>3, <3>5, <4>2 DEF Date, NoDate
      <4> QED BY <4>1, <4>2
    <3>7. \A p : Deadline(p)' = Deadline(p)
      BY <1>1 DEF Deadline
    <3> QED BY <1>1, <2>3, <2>4, <2>7, <3>4, <3>6, <3>7 DEF Evidence
  <2> QED BY <2>6, <2>7
<1> QED BY <1>3, <1>4

LEMMA EvidenceStep ==
    ASSUME EvidenceInv, [LifecycleNext]_lifecycleVars PROVE EvidenceInv'
<1>1. CustodyInv' /\ TypeInv'
  BY CustodyStep DEF EvidenceInv, CustodyInv
<1>2. Recorded'
  BY RecordsStay DEF EvidenceInv
<1>3. \A v \in Versions : retainUntil[v] =< retainUntil'[v]
  BY HoldsStay DEF EvidenceInv
<1>4. ASSUME UNCHANGED <<ceasedOn, refs, trans, op>>, NEW t \in Trans PROVE Evidence(t)'
  <2>1. Moved(t)
    BY <1>4 DEF Moved
  <2> QED BY <1>1, <1>3, <1>4, <2>1, EvidenceQuiet
<1>5. ASSUME NEW t \in Trans PROVE Evidence(t)'
  <2>1. CASE Tick \/ UNCHANGED lifecycleVars
    BY <1>4, <2>1 DEF Tick, lifecycleVars, portfolioVars, queueVars
  <2>2. ASSUME NEW s \in Trans, LeaseAges(s) PROVE Evidence(t)'
    <3>1. trans \in [Trans -> TransRow]
      BY DEF EvidenceInv, CustodyInv, TypeInv, LifecycleTypeOK
    <3>2. Moved(t)
      BY <2>2, <3>1 DEF LeaseAges, Moved, TransRow
    <3>3. UNCHANGED <<ceasedOn, refs, op>>
      BY <2>2 DEF LeaseAges, portfolioVars
    <3> QED BY <1>1, <1>3, <3>2, <3>3, EvidenceQuiet
  <2>3. ASSUME NEW w \in LWorkers, LBegin(w) \/ LReconcile(w) \/ LStorageFault(w) \/ LCrash(w)
        PROVE  Evidence(t)'
    <3>1. UNCHANGED <<ceasedOn, refs, trans, op>>
      BY <2>3 DEF LBegin, LReconcile, LStorageFault, LCrash, portfolioVars, queueVars
    <3> QED BY <1>4, <3>1
  <2> QED BY <1>1, <2>1, <2>2, <2>3, EvidenceCommands, EvidenceLClaim, EvidenceLFail,
             EvidenceLProject, EvidenceLCommit DEF LifecycleNext, LWorkerStep
<1> QED BY <1>1, <1>2, <1>5 DEF EvidenceInv

LEMMA EvidenceInit == LifecycleInit => EvidenceInv
<1> SUFFICES ASSUME LifecycleInit PROVE EvidenceInv
  OBVIOUS
<1>1. Recorded
  BY DEF LifecycleInit, Recorded, NoTrans, IdleLWorker
<1>2. \A t \in Trans : trans[t] = NoTrans
  BY DEF LifecycleInit
<1>3. NoTrans.status = "none" /\ NoTrans.verified = FALSE /\ NoTrans.required = NoDate
  BY DEF NoTrans
<1>4. ASSUME NEW t \in Trans PROVE Evidence(t)
  <2>1. trans[t].status = "none" /\ trans[t].verified = FALSE /\ trans[t].required = NoDate
    BY <1>2, <1>3
  <2> QED BY <2>1 DEF Evidence
<1> QED BY <1>1, <1>4, CustodyInit DEF EvidenceInv

\* A command that is reported complete has evidence for every version, and S3 still
\* keeps what the evidence says, whatever failed, restarted or was requested since
\* (updatePortfolioLifecycleOperationStatus).
THEOREM CompletionsAreVerified == LifecycleSpec => []CompletionIsVerified
<1>1. EvidenceInv => CompletionIsVerified
  BY DEF EvidenceInv, Evidence, CompletionIsVerified
<1> QED BY <1>1, EvidenceInit, EvidenceStep, PTL DEF LifecycleSpec
=============================================================================
