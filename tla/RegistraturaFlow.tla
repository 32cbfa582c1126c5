-------------------------- MODULE RegistraturaFlow --------------------------
(***************************************************************************)
(* The document flow of the registry: ApplyDocumentWorkflowAction and the  *)
(* handlers that share the document row with it (creation, editing,        *)
(* cancellation, upload of the archivable PDF).                            *)
(*                                                                         *)
(* A workflow action locks the row and compares workflow_version: a        *)
(* request made on an older screen is refused, so each action here is one  *)
(* transaction by a user who saw the current version.  UpdateDocument is   *)
(* the exception: it reads the row without a lock and writes the status it *)
(* read, so it is two steps.  Contents of documents are left out.          *)
(***************************************************************************)
EXTENDS Integers, Sequences

CONSTANTS
    Docs,            \* registratura_documents rows
    Users,           \* active members of the tenant
    Depts,           \* departments
    Members,         \* registratura_user_departments
    NoUser,          \* SQL null
    NoDept,          \* SQL null
    NoDoc,           \* an editor without a document
    CreateStatuses,  \* statuses a creation request asks for
    RejectionLimit,  \* 3 in production
    MaxVersion,      \* bound: last workflow_version
    Editors          \* concurrent UpdateDocument requests, one document each

ASSUME FlowAssumption ==
    /\ NoUser \notin Users
    /\ NoDept \notin Depts
    /\ NoDoc \notin Docs
    /\ Members \in [Depts -> SUBSET Users]
    /\ RejectionLimit \in Nat \ {0}
    /\ MaxVersion \in Nat \ {0}

VARIABLES
    doc,     \* registratura_documents
    pdf,     \* the document has a clean, archivable PDF attachment
    events,  \* registratura_document_workflow_events of each document
    outbox,  \* registratura_archive_outbox, one event per document
    editor   \* the UpdateDocument requests

flowVars == <<doc, pdf, events, outbox, editor>>

-----------------------------------------------------------------------------
Status  == {"INCOMING", "ALOCAT_COMPARTIMENT", "IN_LUCRU", "FLUX_APROBARE",
            "FINALIZAT", "ANULAT"}
Actions == {"assign_department", "assign_user", "send_for_approval", "approve", "reject"}

ASSUME CreateAssumption == CreateStatuses \subseteq Status

DocRow == [status : Status \cup {"none"}, version : 0 .. MaxVersion,
           dept : Depts \cup {NoDept}, assignee : Users \cup {NoUser},
           target : Users \cup {NoUser}, rejections : Nat, lockedOut : BOOLEAN]
\* The actor is kept of requests and decisions, the user of assignments and requests.
Event  == [action : Actions \cup {"cancel"}, actor : Users \cup {NoUser},
           user : Users \cup {NoUser}]

OutboxRow   == [status : {"none", "pending", "processing", "delivered", "failed"},
                attempts : Nat, stale : BOOLEAN]
EditorRow   == [pc : {"idle", "loaded", "done"}, d : Docs \cup {NoDoc},
                status : Status \cup {"none"}]

NoRow      == [status |-> "none", version |-> 0, dept |-> NoDept, assignee |-> NoUser,
               target |-> NoUser, rejections |-> 0, lockedOut |-> FALSE]
NoEvent    == [status |-> "none", attempts |-> 0, stale |-> FALSE]
IdleEditor == [pc |-> "idle", d |-> NoDoc, status |-> "none"]

FlowTypeOK ==
    /\ doc \in [Docs -> DocRow]
    /\ pdf \in [Docs -> BOOLEAN]
    /\ events \in [Docs -> Seq(Event)]
    /\ outbox \in [Docs -> OutboxRow]
    /\ editor \in [Editors -> EditorRow]

FlowInit ==
    /\ doc = [d \in Docs |-> NoRow]
    /\ pdf = [d \in Docs |-> FALSE]
    /\ events = [d \in Docs |-> << >>]
    /\ outbox = [d \in Docs |-> NoEvent]
    /\ editor = [e \in Editors |-> IdleEditor]

-----------------------------------------------------------------------------
(* workflowTransition; claim is assign_user by the user himself.           *)

From == [assign_department |-> {"INCOMING", "ALOCAT_COMPARTIMENT"},
         assign_user       |-> {"ALOCAT_COMPARTIMENT"},
         send_for_approval |-> {"IN_LUCRU"},
         approve           |-> {"FLUX_APROBARE"},
         reject            |-> {"FLUX_APROBARE"}]
To   == [assign_department |-> "ALOCAT_COMPARTIMENT",
         assign_user       |-> "IN_LUCRU",
         send_for_approval |-> "FLUX_APROBARE",
         approve           |-> "FINALIZAT",
         reject            |-> "IN_LUCRU"]

Record(d, action, actor, user) ==
    events' = [events EXCEPT ![d] =
                 Append(@, [action |-> action, actor |-> actor, user |-> user])]

\* The part all actions share: the lock after repeated rejections, the transition,
\* the event, and the row with the next version.
Apply(d, action, actor, user, row) ==
    /\ ~doc[d].lockedOut
    /\ doc[d].status \in From[action]
    /\ doc[d].version < MaxVersion
    /\ doc' = [doc EXCEPT ![d] = [row EXCEPT !.status = To[action],
                                             !.version = row.version + 1]]
    /\ Record(d, action, actor, user)

AssignDepartment(d, dept) ==
    /\ Apply(d, "assign_department", NoUser, NoUser, [doc[d] EXCEPT !.dept = dept])
    /\ UNCHANGED <<pdf, outbox, editor>>

\* assign_user by any colleague, or claim: only for a member of the department.
Take(d, user) ==
    /\ doc[d].dept # NoDept
    /\ user \in Members[doc[d].dept]
    /\ Apply(d, "assign_user", NoUser, user, [doc[d] EXCEPT !.assignee = user])
    /\ UNCHANGED <<pdf, outbox, editor>>

\* Mutant: the sender may address himself.
MaySendToHimself(d, actor, target) == doc[d].assignee = actor
MaySend(d, actor, target) ==
    /\ doc[d].assignee = actor
    /\ target # actor

SendForApproval(d, actor, target) ==
    /\ MaySend(d, actor, target)
    /\ Apply(d, "send_for_approval", actor, target,
             [doc[d] EXCEPT !.assignee = NoUser, !.target = target])
    /\ UNCHANGED <<pdf, outbox, editor>>

\* The outbox event of the approval, in the same transaction; "on conflict do
\* nothing" keeps the event of an earlier approval.
\* Mutant: the insert is forgotten.
NotQueued(row) == row
Queued(row) ==
    IF row.status = "none" THEN [NoEvent EXCEPT !.status = "pending"] ELSE row

Approve(d, actor) ==
    /\ doc[d].target = actor
    /\ pdf[d]
    /\ Apply(d, "approve", actor, NoUser, [doc[d] EXCEPT !.target = NoUser])
    /\ outbox' = [outbox EXCEPT ![d] = Queued(@)]
    /\ UNCHANGED <<pdf, editor>>

Reject(d, actor) ==
    LET count == doc[d].rejections + 1 IN
    /\ doc[d].target = actor
    /\ Apply(d, "reject", actor, NoUser,
             [doc[d] EXCEPT !.target = NoUser, !.rejections = count,
                            !.lockedOut = count >= RejectionLimit])
    /\ UNCHANGED <<pdf, outbox, editor>>

\* 24 hours after the last of too many rejections.
LockExpires(d) ==
    /\ doc[d].lockedOut
    /\ doc' = [doc EXCEPT ![d].lockedOut = FALSE]
    /\ UNCHANGED <<pdf, events, outbox, editor>>

-----------------------------------------------------------------------------
(* The handlers beside the workflow.                                       *)

\* CreateDocument takes any canonical status.
Create(d, status) ==
    /\ doc[d].status = "none"
    /\ doc' = [doc EXCEPT ![d].status = status, ![d].version = 1]
    /\ UNCHANGED <<pdf, events, outbox, editor>>

Cancel(d) ==
    /\ doc[d].status \notin {"none", "ANULAT", "FINALIZAT"}
    /\ doc[d].version < MaxVersion
    /\ doc' = [doc EXCEPT ![d].status = "ANULAT", ![d].version = @ + 1]
    /\ Record(d, "cancel", NoUser, NoUser)
    /\ UNCHANGED <<pdf, outbox, editor>>

\* UploadDocumentAttachment looks at the document's existence, not at its status.
Upload(d) ==
    /\ doc[d].status # "none"
    /\ ~pdf[d]
    /\ pdf' = [pdf EXCEPT ![d] = TRUE]
    /\ UNCHANGED <<doc, events, outbox, editor>>

\* UpdateDocument: the status is read without a lock, must be what the form shows,
\* and is written back with the edited fields; workflow_version stays.
EditorLoad(e, d) ==
    /\ editor[e].pc = "idle"
    /\ doc[d].status \notin {"none", "ANULAT"}
    /\ editor' = [editor EXCEPT ![e] = [pc |-> "loaded", d |-> d, status |-> doc[d].status]]
    /\ UNCHANGED <<doc, pdf, events, outbox>>

EditorStore(e) ==
    /\ editor[e].pc = "loaded"
    /\ doc' = [doc EXCEPT ![editor[e].d].status = editor[e].status]
    /\ editor' = [editor EXCEPT ![e] = [IdleEditor EXCEPT !.pc = "done"]]
    /\ UNCHANGED <<pdf, events, outbox>>

-----------------------------------------------------------------------------
(* Properties.                                                             *)

\* The four-eyes rule: each decision answers one request, addressed to the decider
\* by somebody else, and no request is decided twice.
Closing == {"send_for_approval", "approve", "reject"}
FourEyes ==
    \A d \in Docs : \A j \in 1 .. Len(events[d]) :
        events[d][j].action \in {"approve", "reject"} =>
            \E i \in 1 .. j - 1 :
                /\ events[d][i].action = "send_for_approval"
                /\ events[d][i].user = events[d][j].actor
                /\ events[d][i].actor # events[d][j].actor
                /\ \A k \in i + 1 .. j - 1 : events[d][k].action \notin Closing

\* A request comes from the user who took the document last and still had it.
SenderHadDocument ==
    \A d \in Docs : \A j \in 1 .. Len(events[d]) :
        events[d][j].action = "send_for_approval" =>
            \E i \in 1 .. j - 1 :
                /\ events[d][i].action = "assign_user"
                /\ events[d][i].user = events[d][j].actor
                /\ \A k \in i + 1 .. j - 1 :
                     events[d][k].action \notin {"assign_user", "send_for_approval"}

\* The archive is told of exactly the approved documents.
OutboxIsApproval ==
    \A d \in Docs : outbox[d].status # "none" <=>
        \E j \in 1 .. Len(events[d]) : events[d][j].action = "approve"

\* Requirements REG-017 and REG-053: a cancelled document stays cancelled.
CancellationIsFinal ==
    \A d \in Docs : (\E j \in 1 .. Len(events[d]) : events[d][j].action = "cancel")
                       => doc[d].status = "ANULAT"

\* The comment on the rejection guard: a rejected document is in remediation, to be
\* sent again; only its assignee can send it.
RejectedCanBeResent ==
    \A d \in Docs : doc[d].status = "IN_LUCRU" => doc[d].assignee # NoUser

-----------------------------------------------------------------------------
WorkflowAction(d) ==
    \/ \E dept \in Depts : AssignDepartment(d, dept)
    \/ \E user \in Users : \/ Take(d, user)
                           \/ \E target \in Users : SendForApproval(d, user, target)
                           \/ Approve(d, user)
                           \/ Reject(d, user)

FlowNext ==
    \/ \E d \in Docs : \/ WorkflowAction(d)
                       \/ Cancel(d)
                       \/ \E status \in CreateStatuses : Create(d, status)
                       \/ Upload(d)
                       \/ LockExpires(d)
                       \/ \E e \in Editors : EditorLoad(e, d)
    \/ \E e \in Editors : EditorStore(e)

FlowSpec == FlowInit /\ [][FlowNext]_flowVars
=============================================================================
