--------------------------- MODULE ArchivePipeline ---------------------------
(***************************************************************************)
(* From the approved document to the searchable archive record:            *)
(* RegistraturaArchiveOutboxWorker delivers the outbox event of an         *)
(* approval (copy of the PDF, archive record, extraction job) and          *)
(* IngestionWorker extracts the text.                                      *)
(*                                                                         *)
(* Each SQL statement that commits by itself is a step.  A lease (30 and   *)
(* 90 minutes) and a backoff are abstracted to "may have run out".         *)
(***************************************************************************)
EXTENDS RegistraturaFlow

CONSTANTS
    OWorkers,    \* replicas of RegistraturaArchiveOutboxWorker
    IWorkers,    \* replicas of IngestionWorker
    MaxAttempts, \* of both workers, 5 in production
    SlowWorkers, \* an extraction may outlive its lease, or be overtaken while it fails
    MaxFaults    \* bound: crashes and failed calls

ASSUME PipelineAssumption ==
    /\ MaxAttempts \in Nat \ {0}
    /\ SlowWorkers \in BOOLEAN
    /\ MaxFaults \in Nat

VARIABLES
    copied,  \* the PDF lies under the archive key derived from the document id
    record,  \* archive_documents.status
    text,    \* archive_document_versions.text_status
    job,     \* archive_ingestion_jobs
    ow,      \* the outbox workers
    iw,      \* the ingestion workers
    faults   \* faults still allowed

archiveVars  == <<copied, record, text, job>>
pipelineVars == <<flowVars, archiveVars, ow, iw, faults>>

-----------------------------------------------------------------------------
JobRow == [status : {"none", "pending", "running", "succeeded", "failed"},
           attempts : 0 .. MaxAttempts, stale : BOOLEAN]
NoJob  == [status |-> "none", attempts |-> 0, stale |-> FALSE]

OWorkerRow == [pc : {"idle", "claimed", "loaded", "copied", "inserting", "marking", "failing"},
               d : Docs \cup {NoDoc}, attempts : 0 .. MaxAttempts, permanent : BOOLEAN]
IWorkerRow == [pc : {"idle", "claimed", "extracting", "failing", "failing_record", "failing_text"},
               d : Docs \cup {NoDoc}, attempts : 0 .. MaxAttempts, permanent : BOOLEAN]
IdleWorker == [pc |-> "idle", d |-> NoDoc, attempts |-> 0, permanent |-> FALSE]

PipelineTypeOK ==
    /\ FlowTypeOK
    /\ copied \in [Docs -> BOOLEAN]
    /\ record \in [Docs -> {"none", "queued", "processing", "ready", "failed"}]
    /\ text \in [Docs -> {"none", "pending", "processing", "processed", "failed"}]
    /\ job \in [Docs -> JobRow]
    /\ ow \in [OWorkers -> OWorkerRow]
    /\ iw \in [IWorkers -> IWorkerRow]
    /\ faults \in 0 .. MaxFaults

PipelineInit ==
    /\ FlowInit
    /\ copied = [d \in Docs |-> FALSE]
    /\ record = [d \in Docs |-> "none"]
    /\ text = [d \in Docs |-> "none"]
    /\ job = [d \in Docs |-> NoJob]
    /\ ow = [w \in OWorkers |-> IdleWorker]
    /\ iw = [w \in IWorkers |-> IdleWorker]
    /\ faults = MaxFaults

\* attempts is compared with MaxAttempts only: counting stops there.
Bump(n) == IF n < MaxAttempts THEN n + 1 ELSE n
Fault   == faults > 0 /\ faults' = faults - 1

\* The sweep that opens each claim: rows of expired leases are pending again.
\* Mutant: they are not.
SweptNothing(rows, busy) == rows
Swept(rows, busy) ==
    [d \in Docs |-> IF rows[d].status = busy /\ rows[d].stale
                    THEN [rows[d] EXCEPT !.status = "pending", !.stale = FALSE]
                    ELSE rows[d]]
Taken(row, busy) ==
    [row EXCEPT !.status = busy, !.attempts = Bump(row.attempts), !.stale = FALSE]

-----------------------------------------------------------------------------
(* RegistraturaArchiveOutboxWorker.                                        *)

OLeaseAges(d) ==
    /\ outbox[d].status = "processing"
    /\ ~outbox[d].stale
    /\ outbox' = [outbox EXCEPT ![d].stale = TRUE]
    /\ UNCHANGED <<doc, pdf, events, editor, archiveVars, ow, iw, faults>>

OClaim(w, d) ==
    LET swept == Swept(outbox, "processing") IN
    /\ ow[w].pc = "idle"
    /\ swept[d].status = "pending"
    /\ outbox' = [swept EXCEPT ![d] = Taken(@, "processing")]
    /\ ow' = [ow EXCEPT ![w] = [pc |-> "claimed", d |-> d,
                                attempts |-> Bump(swept[d].attempts), permanent |-> FALSE]]
    /\ UNCHANGED <<doc, pdf, events, editor, archiveVars, iw, faults>>

\* loadSource: the document must still be final and have its PDF.
Archivable(d) == doc[d].status = "FINALIZAT" /\ pdf[d]

OLoad(w) ==
    /\ ow[w].pc = "claimed"
    /\ ow' = [ow EXCEPT ![w].pc = IF Archivable(ow[w].d) THEN "loaded" ELSE "failing",
                        ![w].permanent = ~Archivable(ow[w].d)]
    /\ UNCHANGED <<flowVars, archiveVars, iw, faults>>

OCopy(w) ==
    /\ ow[w].pc = "loaded"
    /\ copied' = [copied EXCEPT ![ow[w].d] = TRUE]
    /\ ow' = [ow EXCEPT ![w].pc = "copied"]
    /\ UNCHANGED <<flowVars, record, text, job, iw, faults>>

\* persistArchiveRecord looks for the record of an earlier attempt ...
OFind(w) ==
    /\ ow[w].pc = "copied"
    /\ ow' = [ow EXCEPT ![w].pc = IF record[ow[w].d] = "none" THEN "inserting" ELSE "marking"]
    /\ UNCHANGED <<flowVars, archiveVars, iw, faults>>

Inserted(d) ==
    /\ record' = [record EXCEPT ![d] = "queued"]
    /\ text' = [text EXCEPT ![d] = "pending"]
    /\ job' = [job EXCEPT ![d] = [NoJob EXCEPT !.status = "pending"]]

\* ... and inserts record, version and job; the key of a record inserted meanwhile
\* is a duplicate.
OInsert(w) ==
    /\ ow[w].pc = "inserting"
    /\ IF record[ow[w].d] = "none"
       THEN Inserted(ow[w].d) /\ ow' = [ow EXCEPT ![w].pc = "marking"]
       ELSE UNCHANGED <<record, text, job>> /\ ow' = [ow EXCEPT ![w].pc = "failing"]
    /\ UNCHANGED <<flowVars, copied, iw, faults>>

\* Mutant: the status is not compared.
MarkedAnyway(row, status) == [row EXCEPT !.status = status, !.stale = FALSE]
Marked(row, status) ==
    IF row.status = "processing" THEN [row EXCEPT !.status = status, !.stale = FALSE] ELSE row

ODone(w, status) ==
    /\ outbox' = [outbox EXCEPT ![ow[w].d] = Marked(@, status)]
    /\ ow' = [ow EXCEPT ![w] = IdleWorker]
    /\ UNCHANGED <<doc, pdf, events, editor, archiveVars, iw, faults>>

OMark(w) == ow[w].pc = "marking" /\ ODone(w, "delivered")

OFail(w) ==
    /\ ow[w].pc = "failing"
    /\ ODone(w, IF ow[w].permanent \/ ow[w].attempts >= MaxAttempts THEN "failed" ELSE "pending")

\* A failed statement or S3 call; it may have taken effect before the answer was lost.
OFault(w) ==
    LET d == ow[w].d IN
    /\ Fault
    /\ ow[w].pc \in {"claimed", "loaded", "copied", "inserting"}
    /\ \/ UNCHANGED archiveVars
       \/ /\ ow[w].pc = "loaded"
          /\ copied' = [copied EXCEPT ![d] = TRUE]
          /\ UNCHANGED <<record, text, job>>
       \/ /\ ow[w].pc = "inserting"
          /\ record[d] = "none"
          /\ Inserted(d)
          /\ UNCHANGED copied
    /\ ow' = [ow EXCEPT ![w].pc = "failing"]
    /\ UNCHANGED <<flowVars, iw>>

\* The process stops, or its last update of the outbox fails.
OCrash(w) ==
    /\ Fault
    /\ ow[w].pc # "idle"
    /\ ow' = [ow EXCEPT ![w] = IdleWorker]
    /\ UNCHANGED <<flowVars, archiveVars, iw>>

-----------------------------------------------------------------------------
(* IngestionWorker.  Only the claim looks at the job's status.             *)

Undisturbed(d) == SlowWorkers \/ \A w \in IWorkers : iw[w].d # d

ILeaseAges(d) ==
    /\ job[d].status = "running"
    /\ ~job[d].stale
    /\ Undisturbed(d)
    /\ job' = [job EXCEPT ![d].stale = TRUE]
    /\ UNCHANGED <<flowVars, copied, record, text, ow, iw, faults>>

Claimable(row) == row.status = "pending"

IClaim(w, d) ==
    LET swept == Swept(job, "running") IN
    /\ iw[w].pc = "idle"
    /\ Claimable(swept[d])
    /\ job[d].status = "pending" => Undisturbed(d)
    /\ job' = [swept EXCEPT ![d] = Taken(@, "running")]
    /\ iw' = [iw EXCEPT ![w] = [pc |-> "claimed", d |-> d,
                                attempts |-> Bump(swept[d].attempts), permanent |-> FALSE]]
    /\ UNCHANGED <<flowVars, copied, record, text, ow, faults>>

\* loadIngestionContext and markJobProcessing.
IMark(w) ==
    /\ iw[w].pc = "claimed"
    /\ record' = [record EXCEPT ![iw[w].d] = "processing"]
    /\ text' = [text EXCEPT ![iw[w].d] = "processing"]
    /\ iw' = [iw EXCEPT ![w].pc = "extracting"]
    /\ UNCHANGED <<flowVars, copied, job, ow, faults>>

Persisted(d) ==
    /\ record' = [record EXCEPT ![d] = "ready"]
    /\ text' = [text EXCEPT ![d] = "processed"]
    /\ job' = [job EXCEPT ![d].status = "succeeded", ![d].stale = FALSE]

\* Extraction and persistExtraction, also when the acknowledgement of its COMMIT is
\* lost and extractionCommitVisible finds the result.
IPersist(w) ==
    /\ iw[w].pc = "extracting"
    /\ Persisted(iw[w].d)
    /\ iw' = [iw EXCEPT ![w] = IdleWorker]
    /\ UNCHANGED <<flowVars, copied, ow, faults>>

\* A document without searchable text or with a broken checksum.
IReject(w) ==
    /\ iw[w].pc = "extracting"
    /\ iw' = [iw EXCEPT ![w].pc = "failing", ![w].permanent = TRUE]
    /\ UNCHANGED <<flowVars, archiveVars, ow, faults>>

\* A failed call: network errors are retried, others are not.  The COMMIT may have
\* been made if the visibility check failed with it.
IFault(w) ==
    /\ Fault
    /\ iw[w].pc \in {"claimed", "extracting"}
    /\ \/ UNCHANGED <<record, text, job>>
       \/ iw[w].pc = "extracting" /\ Persisted(iw[w].d)
    /\ \E permanent \in BOOLEAN :
         iw' = [iw EXCEPT ![w].pc = "failing", ![w].permanent = permanent]
    /\ UNCHANGED <<flowVars, copied, ow>>

\* failJob: three statements of their own; an error of the last two is ignored.
GivesUp(w) == iw[w].permanent \/ iw[w].attempts >= MaxAttempts

\* Mutant: the job's update alone is fenced.
FailedIfRunning(w, row) ==
    IF row.status # "running" THEN row
    ELSE [row EXCEPT !.status = IF GivesUp(w) THEN "failed" ELSE "pending", !.stale = FALSE]
FailedJob(w, row) ==
    [row EXCEPT !.status = IF GivesUp(w) THEN "failed" ELSE "pending", !.stale = FALSE]

IFail(w) ==
    /\ iw[w].pc = "failing"
    /\ job' = [job EXCEPT ![iw[w].d] = FailedJob(w, @)]
    /\ iw' = [iw EXCEPT ![w].pc = "failing_record"]
    /\ UNCHANGED <<flowVars, copied, record, text, ow, faults>>

IFailRecord(w) ==
    /\ iw[w].pc = "failing_record"
    /\ record' = [record EXCEPT ![iw[w].d] = IF GivesUp(w) THEN "failed" ELSE "queued"]
    /\ iw' = [iw EXCEPT ![w].pc = "failing_text"]
    /\ UNCHANGED <<flowVars, copied, text, job, ow, faults>>

\* The record's update fails and is passed over.
IFailUnrecorded(w) ==
    /\ Fault
    /\ iw[w].pc = "failing_record"
    /\ iw' = [iw EXCEPT ![w].pc = "failing_text"]
    /\ UNCHANGED <<flowVars, archiveVars, ow>>

IFailText(w) ==
    /\ iw[w].pc = "failing_text"
    /\ text' = [text EXCEPT ![iw[w].d] = IF GivesUp(w) THEN "failed" ELSE "pending"]
    /\ iw' = [iw EXCEPT ![w] = IdleWorker]
    /\ UNCHANGED <<flowVars, copied, record, job, ow, faults>>

ICrash(w) ==
    /\ Fault
    /\ iw[w].pc # "idle"
    /\ iw' = [iw EXCEPT ![w] = IdleWorker]
    /\ UNCHANGED <<flowVars, archiveVars, ow>>

\* ArchiveAdminService.RetryJob.
RetryJob(d) ==
    /\ job[d].status = "failed"
    /\ Undisturbed(d)
    /\ job' = [job EXCEPT ![d] = [NoJob EXCEPT !.status = "pending"]]
    /\ record' = [record EXCEPT ![d] = "queued"]
    /\ text' = [text EXCEPT ![d] = "pending"]
    /\ UNCHANGED <<flowVars, copied, ow, iw, faults>>

-----------------------------------------------------------------------------
(* Properties.                                                             *)

\* A delivery reported as done has its object and its record, and every record
\* has its object and an approval behind it.
DeliveredIsArchived ==
    \A d \in Docs :
        /\ outbox[d].status = "delivered" => record[d] # "none"
        /\ record[d] # "none" => /\ copied[d]
                                 /\ \E j \in 1 .. Len(events[d]) : events[d][j].action = "approve"

\* A succeeded job stands for a record that users find, with its text.
SucceededIsReady ==
    \A d \in Docs : job[d].status = "succeeded" => record[d] = "ready" /\ text[d] = "processed"

\* A worker is at a document whose lease has run out, or that another has claimed.
Overtaken(d) ==
    \E w \in IWorkers :
        /\ iw[w].d = d
        /\ job[d].stale \/ \E v \in IWorkers : v # w /\ iw[v].d = d

\* Whatever else happens, crashes and lost answers included, only an extraction that was
\* overtaken leaves a succeeded job without its record: the last updates of a worker do
\* not look whether the job is still its own.
ReadyUnlessOvertaken == [](\A d \in Docs : ~Overtaken(d)) => []SucceededIsReady

\* A delivery is reported once: a worker that outlived its lease cannot reopen it.
DeliveryIsFinal ==
    [][\A d \in Docs : outbox[d].status = "delivered" => outbox'[d].status = "delivered"]_pipelineVars

\* How far the archive came with a document, and what the outbox tells of it.
Approved(d) == \E j \in 1 .. Len(events[d]) : events[d][j].action = "approve"
Stage(d) ==
    IF record[d] # "none" THEN "recorded"
    ELSE IF copied[d] THEN "stored"
    ELSE IF Approved(d) THEN "approved" ELSE "draft"
Delivery(d) ==
    CASE outbox[d].status \in {"pending", "processing"} -> "open"
      [] outbox[d].status = "delivered" -> "done"
      [] OTHER -> outbox[d].status

\* Flow, outbox and archive keep the promise: nothing is archived that is not approved,
\* nothing is reported that is not archived, and no delivery ends twice.
Promise == INSTANCE ArchivePromise WITH
    stage    <- [d \in Docs |-> Stage(d)],
    delivery <- [d \in Docs |-> Delivery(d)]

KeepsArchivePromise == Promise!Spec

\* Every approval ends in a searchable record or in a failure an operator sees.
ApprovalSettles ==
    \A d \in Docs : outbox[d].status = "pending" ~>
        \/ record[d] = "ready"
        \/ outbox[d].status = "failed"
        \/ job[d].status = "failed"

-----------------------------------------------------------------------------
OStep(w) == OLoad(w) \/ OCopy(w) \/ OFind(w) \/ OInsert(w) \/ OMark(w) \/ OFail(w)
IStep(w) == IMark(w) \/ IPersist(w) \/ IReject(w) \/ IFail(w) \/ IFailRecord(w) \/ IFailText(w)

PipelineNext ==
    \/ FlowNext /\ UNCHANGED <<archiveVars, ow, iw, faults>>
    \/ \E w \in OWorkers : \/ \E d \in Docs : OClaim(w, d)
                           \/ OStep(w)
                           \/ OFault(w)
                           \/ OCrash(w)
    \/ \E w \in IWorkers : \/ \E d \in Docs : IClaim(w, d)
                           \/ IStep(w)
                           \/ IFault(w)
                           \/ IFailUnrecorded(w)
                           \/ ICrash(w)
    \/ \E d \in Docs : OLeaseAges(d) \/ ILeaseAges(d) \/ RetryJob(d)

PipelineSpec == PipelineInit /\ [][PipelineNext]_pipelineVars

\* Started workers keep polling and a claim takes the oldest available row; leases
\* age by themselves.  Nothing obliges a user or an operator.
PipelineFairness ==
    /\ \A w \in OWorkers : WF_pipelineVars(OStep(w))
    /\ \A w \in IWorkers : WF_pipelineVars(IStep(w))
    /\ \A d \in Docs : /\ SF_pipelineVars(\E w \in OWorkers : OClaim(w, d))
                       /\ SF_pipelineVars(\E w \in IWorkers : IClaim(w, d))
                       /\ WF_pipelineVars(OLeaseAges(d))
                       /\ WF_pipelineVars(ILeaseAges(d))
FairPipelineSpec == PipelineSpec /\ PipelineFairness
=============================================================================
