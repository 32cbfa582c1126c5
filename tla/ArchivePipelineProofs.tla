------------------------ MODULE ArchivePipelineProofs ------------------------
(***************************************************************************)
(* Theorems about RegistraturaFlow and ArchivePipeline, for every set of   *)
(* documents, users, departments, editors and workers and every value of   *)
(* the bounds.  The first part is about the document flow alone; the       *)
(* second shows that it keeps its promises beside the workers that deliver *)
(* its outbox, that a delivery stands for an archived document and stays,  *)
(* and that a succeeded job stands for a searchable record.                *)
(***************************************************************************)
EXTENDS ArchivePipeline, TLAPS

-----------------------------------------------------------------------------
(* Types.                                                                  *)

LEMMA RowTypes == NoRow \in DocRow /\ NoEvent \in OutboxRow /\ IdleEditor \in EditorRow
<1>1. NoRow \in DocRow
  BY FlowAssumption DEF NoRow, DocRow, Status
<1>2. NoEvent \in OutboxRow /\ IdleEditor \in EditorRow
  BY DEF NoEvent, OutboxRow, IdleEditor, EditorRow, Status
<1> QED BY <1>1, <1>2

LEMMA ToType == \A action \in Actions : To[action] \in Status
BY DEF Actions, To, Status

\* What the shared part of an action leaves behind.
LEMMA ApplyType ==
    ASSUME FlowTypeOK, NEW d \in Docs, NEW action \in Actions,
           NEW actor \in Users \cup {NoUser}, NEW user \in Users \cup {NoUser},
           NEW row \in DocRow, row.version = doc[d].version,
           Apply(d, action, actor, user, row)
    PROVE  doc' \in [Docs -> DocRow] /\ events' \in [Docs -> Seq(Event)]
<1>1. row.version + 1 \in 0 .. MaxVersion
  BY FlowAssumption DEF Apply, FlowTypeOK, DocRow
<1>2. [row EXCEPT !.status = To[action], !.version = row.version + 1] \in DocRow
  BY <1>1, ToType DEF DocRow
<1>3. doc' \in [Docs -> DocRow]
  BY <1>2 DEF Apply, FlowTypeOK
<1>4. [action |-> action, actor |-> actor, user |-> user] \in Event
  BY DEF Event
<1>5. events' \in [Docs -> Seq(Event)]
  BY <1>4 DEF Apply, Record, FlowTypeOK
<1> QED BY <1>3, <1>5

LEMMA TypeWorkflow == ASSUME FlowTypeOK, NEW d \in Docs, WorkflowAction(d) PROVE FlowTypeOK'
<1>1. doc[d] \in DocRow
  BY DEF FlowTypeOK
<1>2. ASSUME NEW dept \in Depts, AssignDepartment(d, dept) PROVE FlowTypeOK'
  <2>1. [doc[d] EXCEPT !.dept = dept] \in DocRow
    BY <1>1 DEF DocRow
  <2>2. [doc[d] EXCEPT !.dept = dept].version = doc[d].version
    BY <1>1 DEF DocRow
  <2>3. doc' \in [Docs -> DocRow] /\ events' \in [Docs -> Seq(Event)]
    BY <1>2, <2>1, <2>2, ApplyType DEF AssignDepartment, Actions
  <2> QED BY <1>2, <2>3 DEF AssignDepartment, FlowTypeOK
<1>3. ASSUME NEW user \in Users, Take(d, user) PROVE FlowTypeOK'
  <2>1. [doc[d] EXCEPT !.assignee = user] \in DocRow
    BY <1>1 DEF DocRow
  <2>2. [doc[d] EXCEPT !.assignee = user].version = doc[d].version
    BY <1>1 DEF DocRow
  <2>3. doc' \in [Docs -> DocRow] /\ events' \in [Docs -> Seq(Event)]
    BY <1>3, <2>1, <2>2, ApplyType DEF Take, Actions
  <2> QED BY <1>3, <2>3 DEF Take, FlowTypeOK
<1>4. ASSUME NEW actor \in Users, NEW target \in Users, SendForApproval(d, actor, target)
      PROVE  FlowTypeOK'
  <2> DEFINE row == [doc[d] EXCEPT !.assignee = NoUser, !.target = target]
  <2>1. row \in DocRow /\ row.version = doc[d].version
    BY <1>1 DEF DocRow
  <2>2. Apply(d, "send_for_approval", actor, target, row)
    BY <1>4 DEF SendForApproval
  <2> HIDE DEF row
  <2>3. doc' \in [Docs -> DocRow] /\ events' \in [Docs -> Seq(Event)]
    BY <2>1, <2>2, ApplyType DEF Actions
  <2> QED BY <1>4, <2>3 DEF SendForApproval, FlowTypeOK
<1>5. ASSUME NEW actor \in Users, Approve(d, actor) PROVE FlowTypeOK'
  <2>1. [doc[d] EXCEPT !.target = NoUser] \in DocRow
    BY <1>1 DEF DocRow
  <2>2. [doc[d] EXCEPT !.target = NoUser].version = doc[d].version
    BY <1>1 DEF DocRow
  <2>3. doc' \in [Docs -> DocRow] /\ events' \in [Docs -> Seq(Event)]
    BY <1>5, <2>1, <2>2, ApplyType DEF Approve, Actions
  <2>4. Queued(outbox[d]) \in OutboxRow
    BY RowTypes DEF FlowTypeOK, Queued, OutboxRow
  <2>5. outbox' \in [Docs -> OutboxRow]
    BY <1>5, <2>4 DEF Approve, FlowTypeOK
  <2> QED BY <1>5, <2>3, <2>5 DEF Approve, FlowTypeOK
<1>6. ASSUME NEW actor \in Users, Reject(d, actor) PROVE FlowTypeOK'
  <2> DEFINE count == doc[d].rejections + 1
             row == [doc[d] EXCEPT !.target = NoUser, !.rejections = count,
                                   !.lockedOut = count >= RejectionLimit]
  <2>1. count \in Nat /\ (count >= RejectionLimit) \in BOOLEAN
    BY <1>1, FlowAssumption DEF DocRow
  <2> HIDE DEF count
  <2>2. row \in DocRow /\ row.version = doc[d].version
    BY <1>1, <2>1 DEF DocRow
  <2>3. Apply(d, "reject", actor, NoUser, row)
    BY <1>6 DEF Reject, count
  <2> HIDE DEF row
  <2>4. doc' \in [Docs -> DocRow] /\ events' \in [Docs -> Seq(Event)]
    BY <2>2, <2>3, ApplyType DEF Actions
  <2> QED BY <1>6, <2>4 DEF Reject, FlowTypeOK
<1> QED BY <1>2, <1>3, <1>4, <1>5, <1>6 DEF WorkflowAction

LEMMA TypeCancel == ASSUME FlowTypeOK, NEW d \in Docs, Cancel(d) PROVE FlowTypeOK'
<1>1. doc[d].version + 1 \in 0 .. MaxVersion
  BY FlowAssumption DEF Cancel, FlowTypeOK, DocRow
<1>2. doc' \in [Docs -> DocRow]
  BY <1>1 DEF Cancel, FlowTypeOK, DocRow, Status
<1>3. [action |-> "cancel", actor |-> NoUser, user |-> NoUser] \in Event
  BY DEF Event
<1>4. events' \in [Docs -> Seq(Event)]
  BY <1>3 DEF Cancel, Record, FlowTypeOK
<1> QED BY <1>2, <1>4 DEF Cancel, FlowTypeOK

LEMMA RowWritten ==
    ASSUME FlowTypeOK, NEW d, NEW row, d \in Docs => row \in DocRow,
           doc' = [doc EXCEPT ![d] = row]
    PROVE  doc' \in [Docs -> DocRow]
BY DEF FlowTypeOK

LEMMA TypeStep == ASSUME FlowTypeOK, [FlowNext]_flowVars PROVE FlowTypeOK'
<1>1. ASSUME NEW d \in Docs, NEW status \in CreateStatuses, Create(d, status) PROVE FlowTypeOK'
  <2>1. status \in Status /\ 1 \in 0 .. MaxVersion
    BY FlowAssumption, CreateAssumption
  <2>2. doc' \in [Docs -> DocRow]
    <3>1. [doc[d] EXCEPT !.status = status, !.version = 1] \in DocRow
      BY <2>1 DEF FlowTypeOK, DocRow
    <3>2. doc' = [doc EXCEPT ![d] = [doc[d] EXCEPT !.status = status, !.version = 1]]
      BY <1>1 DEF Create, FlowTypeOK, DocRow
    <3> QED BY <3>1, <3>2, RowWritten
  <2> QED BY <1>1, <2>2 DEF Create, FlowTypeOK
<1>2. ASSUME NEW d \in Docs, Upload(d) PROVE FlowTypeOK'
  BY <1>2 DEF Upload, FlowTypeOK
<1>3. ASSUME NEW d \in Docs, LockExpires(d) PROVE FlowTypeOK'
  <2>1. doc' \in [Docs -> DocRow]
    <3>1. [doc[d] EXCEPT !.lockedOut = FALSE] \in DocRow
      BY DEF FlowTypeOK, DocRow
    <3>2. doc' = [doc EXCEPT ![d] = [doc[d] EXCEPT !.lockedOut = FALSE]]
      BY <1>3 DEF LockExpires
    <3> QED BY <3>1, <3>2, RowWritten
  <2> QED BY <1>3, <2>1 DEF LockExpires, FlowTypeOK
<1>4. ASSUME NEW d \in Docs, NEW e \in Editors, EditorLoad(e, d) PROVE FlowTypeOK'
  <2>1. doc[d].status \in Status \cup {"none"}
    BY DEF FlowTypeOK, DocRow
  <2>2. [pc |-> "loaded", d |-> d, status |-> doc[d].status] \in EditorRow
    BY <2>1 DEF EditorRow
  <2> QED BY <1>4, <2>2 DEF EditorLoad, FlowTypeOK
<1>5. ASSUME NEW e \in Editors, EditorStore(e) PROVE FlowTypeOK'
  <2>1. editor[e].status \in Status \cup {"none"}
    BY DEF FlowTypeOK, EditorRow
  <2>2. doc' \in [Docs -> DocRow]
    <3> DEFINE d   == editor[e].d
               row == [doc[d] EXCEPT !.status = editor[e].status]
    <3>1. doc' = [doc EXCEPT ![d] = row]
      BY <1>5 DEF EditorStore
    <3>2. ASSUME d \in Docs PROVE row \in DocRow
      <4>1. doc[d] \in DocRow
        BY <3>2 DEF FlowTypeOK
      <4> HIDE DEF d
      <4> QED BY <2>1, <4>1 DEF DocRow
    <3> HIDE DEF d, row
    <3> QED BY <3>1, <3>2, RowWritten
  <2>3. [IdleEditor EXCEPT !.pc = "done"] \in EditorRow
    BY DEF IdleEditor, EditorRow, Status
  <2> QED BY <1>5, <2>2, <2>3 DEF EditorStore, FlowTypeOK
<1>6. CASE UNCHANGED flowVars
  BY <1>6 DEF flowVars, FlowTypeOK
<1> QED BY <1>1, <1>2, <1>3, <1>4, <1>5, <1>6, TypeWorkflow, TypeCancel DEF FlowNext

LEMMA TypeInit == FlowInit => FlowTypeOK
BY RowTypes DEF FlowInit, FlowTypeOK

\* Type correctness of the document flow.
THEOREM FlowTypeCorrect == FlowSpec => []FlowTypeOK
BY TypeInit, TypeStep, PTL DEF FlowSpec

-----------------------------------------------------------------------------
(* Histories.  Answered and Took say of an event at position j of a        *)
(* history what FourEyes and SenderHadDocument demand of it.               *)

Answered(s, j, decider) ==
    \E i \in 1 .. j - 1 :
        /\ s[i].action = "send_for_approval"
        /\ s[i].user = decider
        /\ s[i].actor # decider
        /\ \A k \in i + 1 .. j - 1 : s[k].action \notin Closing

Took(s, j, sender) ==
    \E i \in 1 .. j - 1 :
        /\ s[i].action = "assign_user"
        /\ s[i].user = sender
        /\ \A k \in i + 1 .. j - 1 : s[k].action \notin {"assign_user", "send_for_approval"}

Sound(s, j) ==
    /\ s[j].action \in {"approve", "reject"} => Answered(s, j, s[j].actor)
    /\ s[j].action = "send_for_approval" => Took(s, j, s[j].actor)

LEMMA Appended ==
    ASSUME NEW s \in Seq(Event), NEW e \in Event
    PROVE  /\ Len(s) \in Nat
           /\ Len(Append(s, e)) = Len(s) + 1
           /\ Append(s, e)[Len(s) + 1] = e
           /\ \A k \in 1 .. Len(s) : Append(s, e)[k] = s[k]
OBVIOUS

\* An event at the end changes nothing for the events before it ...
LEMMA PastStays ==
    ASSUME NEW s \in Seq(Event), NEW e \in Event, NEW j \in 1 .. Len(s) + 1, NEW u
    PROVE  /\ Answered(s, j, u) => Answered(Append(s, e), j, u)
           /\ Took(s, j, u) => Took(Append(s, e), j, u)
<1> DEFINE t == Append(s, e)
<1>1. \A k \in 1 .. j - 1 : t[k] = s[k]
  BY Appended
<1> HIDE DEF t
<1>2. Len(s) \in Nat
  BY Appended
<1>3. Answered(s, j, u) => Answered(t, j, u)
  BY <1>1, <1>2 DEF Answered
<1>4. Took(s, j, u) => Took(t, j, u)
  BY <1>1, <1>2 DEF Took
<1> QED BY <1>3, <1>4 DEF t

\* ... nor for what may follow it, unless it is a request or a decision, or a take ...
LEMMA FutureStays ==
    ASSUME NEW s \in Seq(Event), NEW e \in Event, NEW u
    PROVE  /\ Answered(s, Len(s) + 1, u) /\ e.action \notin Closing
                => Answered(Append(s, e), Len(s) + 2, u)
           /\ Took(s, Len(s) + 1, u) /\ e.action \notin {"assign_user", "send_for_approval"}
                => Took(Append(s, e), Len(s) + 2, u)
<1> DEFINE t == Append(s, e)
<1>1. Len(s) \in Nat /\ t[Len(s) + 1] = e /\ \A k \in 1 .. Len(s) : t[k] = s[k]
  BY Appended
<1> HIDE DEF t
<1>2. Answered(s, Len(s) + 1, u) /\ e.action \notin Closing => Answered(t, Len(s) + 2, u)
  BY <1>1 DEF Answered
<1>3. Took(s, Len(s) + 1, u) /\ e.action \notin {"assign_user", "send_for_approval"}
        => Took(t, Len(s) + 2, u)
  BY <1>1 DEF Took
<1> QED BY <1>2, <1>3 DEF t

\* ... in which case it opens what may follow.
LEMMA FutureOpens ==
    ASSUME NEW s \in Seq(Event), NEW e \in Event
    PROVE  /\ e.action = "send_for_approval" /\ e.user # e.actor
                => Answered(Append(s, e), Len(s) + 2, e.user)
           /\ e.action = "assign_user" => Took(Append(s, e), Len(s) + 2, e.user)
<1> DEFINE t == Append(s, e)
<1>1. Len(s) \in Nat /\ t[Len(s) + 1] = e
  BY Appended
<1> HIDE DEF t
<1>2. e.action = "send_for_approval" /\ e.user # e.actor => Answered(t, Len(s) + 2, e.user)
  BY <1>1 DEF Answered
<1>3. e.action = "assign_user" => Took(t, Len(s) + 2, e.user)
  BY <1>1 DEF Took
<1> QED BY <1>2, <1>3 DEF t

\* A history stays sound when its new last event is.
LEMMA SoundStays ==
    ASSUME NEW s \in Seq(Event), NEW e \in Event, \A j \in 1 .. Len(s) : Sound(s, j),
           e.action \in {"approve", "reject"} => Answered(s, Len(s) + 1, e.actor),
           e.action = "send_for_approval" => Took(s, Len(s) + 1, e.actor)
    PROVE  \A j \in 1 .. Len(s) + 1 : Sound(Append(s, e), j)
<1> DEFINE t == Append(s, e)
<1> SUFFICES ASSUME NEW j \in 1 .. Len(s) + 1 PROVE Sound(t, j)
  OBVIOUS
<1>1. Len(s) \in Nat /\ t[Len(s) + 1] = e /\ \A k \in 1 .. Len(s) : t[k] = s[k]
  BY Appended
<1>2. \A u : /\ Answered(s, j, u) => Answered(t, j, u)
             /\ Took(s, j, u) => Took(t, j, u)
  BY PastStays
<1> HIDE DEF t
<1> QED BY <1>1, <1>2 DEF Sound

-----------------------------------------------------------------------------
(* The inductive invariant: every history is sound, and the row agrees     *)
(* with it on who may decide and who may send.                             *)

HistoryOK(s, row) ==
    /\ \A j \in 1 .. Len(s) : Sound(s, j)
    /\ row.target # NoUser => Answered(s, Len(s) + 1, row.target)
    /\ row.assignee # NoUser => Took(s, Len(s) + 1, row.assignee)

HistoryInv == FlowTypeOK /\ \A d \in Docs : HistoryOK(events[d], doc[d])

LEMMA HistoryImplies == HistoryInv => FourEyes /\ SenderHadDocument
<1> SUFFICES ASSUME HistoryInv PROVE FourEyes /\ SenderHadDocument
  OBVIOUS
<1>1. \A d \in Docs : \A j \in 1 .. Len(events[d]) : Sound(events[d], j)
  BY DEF HistoryInv, HistoryOK
<1>2. FourEyes
  BY <1>1 DEF FourEyes, Sound, Answered
<1>3. SenderHadDocument
  BY <1>1 DEF SenderHadDocument, Sound, Took
<1> QED BY <1>2, <1>3

\* One event and the columns that go with it.
LEMMA HistoryGrows ==
    ASSUME NEW s \in Seq(Event), NEW e \in Event, NEW row, NEW new, HistoryOK(s, row),
           e.action \in {"approve", "reject"} => row.target = e.actor /\ e.actor # NoUser,
           e.action = "send_for_approval" =>
               row.assignee = e.actor /\ e.actor # NoUser /\ e.user # e.actor,
           \/ new.target = NoUser
           \/ new.target = row.target /\ e.action \notin Closing
           \/ new.target = e.user /\ e.action = "send_for_approval",
           \/ new.assignee = NoUser
           \/ new.assignee = row.assignee /\ e.action \notin {"assign_user", "send_for_approval"}
           \/ new.assignee = e.user /\ e.action = "assign_user"
    PROVE  HistoryOK(Append(s, e), new)
<1> DEFINE t == Append(s, e)
<1>1. Len(s) \in Nat /\ Len(t) = Len(s) + 1
  BY Appended
<1>2. \A j \in 1 .. Len(s) + 1 : Sound(t, j)
  BY SoundStays DEF HistoryOK
<1>3. new.target # NoUser => Answered(t, Len(s) + 2, new.target)
  BY FutureStays, FutureOpens DEF HistoryOK
<1>4. new.assignee # NoUser => Took(t, Len(s) + 2, new.assignee)
  BY FutureStays, FutureOpens DEF HistoryOK
<1> HIDE DEF t
<1>5. Len(t) + 1 = Len(s) + 2
  BY <1>1
<1>6. HistoryOK(t, new)
  BY <1>1, <1>2, <1>3, <1>4, <1>5 DEF HistoryOK
<1> QED BY <1>6 DEF t

\* An action on one document leaves the others alone.
LEMMA HistoryApply ==
    ASSUME HistoryInv, FlowTypeOK', NEW d \in Docs, NEW action \in Actions,
           NEW actor \in Users \cup {NoUser}, NEW user \in Users \cup {NoUser}, NEW row \in DocRow,
           Apply(d, action, actor, user, row),
           action \in {"approve", "reject"} => doc[d].target = actor /\ actor # NoUser,
           action = "send_for_approval" =>
               doc[d].assignee = actor /\ actor # NoUser /\ user # actor,
           \/ row.target = NoUser
           \/ row.target = doc[d].target /\ action \notin Closing
           \/ row.target = user /\ action = "send_for_approval",
           \/ row.assignee = NoUser
           \/ row.assignee = doc[d].assignee /\ action \notin {"assign_user", "send_for_approval"}
           \/ row.assignee = user /\ action = "assign_user"
    PROVE  HistoryInv'
<1> DEFINE e == [action |-> action, actor |-> actor, user |-> user]
           new == [row EXCEPT !.status = To[action], !.version = row.version + 1]
<1>1. e \in Event /\ e.action = action /\ e.actor = actor /\ e.user = user
  BY DEF Event
<1>2. new.target = row.target /\ new.assignee = row.assignee
  BY DEF DocRow
<1>3. doc' = [doc EXCEPT ![d] = new] /\ events' = [events EXCEPT ![d] = Append(@, e)]
  BY DEF Apply, Record
<1>4. events[d] \in Seq(Event) /\ HistoryOK(events[d], doc[d])
  BY DEF HistoryInv, FlowTypeOK
<1> HIDE DEF e, new
<1>5. HistoryOK(Append(events[d], e), new)
  BY <1>1, <1>2, <1>4, HistoryGrows
<1>6. \A o \in Docs : HistoryOK(events'[o], doc'[o])
  BY <1>3, <1>5 DEF HistoryInv, FlowTypeOK
<1> QED BY <1>6 DEF HistoryInv

LEMMA HistoryWorkflow ==
    ASSUME HistoryInv, FlowTypeOK', NEW d \in Docs, WorkflowAction(d) PROVE HistoryInv'
<1>1. doc[d] \in DocRow
  BY DEF HistoryInv, FlowTypeOK
<1>2. ASSUME NEW dept \in Depts, AssignDepartment(d, dept) PROVE HistoryInv'
  <2> DEFINE row == [doc[d] EXCEPT !.dept = dept]
  <2>1. row \in DocRow /\ row.target = doc[d].target /\ row.assignee = doc[d].assignee
    BY <1>1 DEF DocRow
  <2>2. Apply(d, "assign_department", NoUser, NoUser, row)
    BY <1>2 DEF AssignDepartment
  <2> HIDE DEF row
  <2> QED BY <2>1, <2>2, HistoryApply DEF Actions, Closing
<1>3. ASSUME NEW user \in Users, Take(d, user) PROVE HistoryInv'
  <2> DEFINE row == [doc[d] EXCEPT !.assignee = user]
  <2>1. row \in DocRow /\ row.target = doc[d].target /\ row.assignee = user
    BY <1>1 DEF DocRow
  <2>2. Apply(d, "assign_user", NoUser, user, row)
    BY <1>3 DEF Take
  <2> HIDE DEF row
  <2> QED BY <2>1, <2>2, HistoryApply DEF Actions, Closing
<1>4. ASSUME NEW actor \in Users, NEW target \in Users, SendForApproval(d, actor, target)
      PROVE  HistoryInv'
  <2> DEFINE row == [doc[d] EXCEPT !.assignee = NoUser, !.target = target]
  <2>1. row \in DocRow /\ row.target = target /\ row.assignee = NoUser
    BY <1>1 DEF DocRow
  <2>2. /\ Apply(d, "send_for_approval", actor, target, row)
        /\ doc[d].assignee = actor
        /\ target # actor
    BY <1>4 DEF SendForApproval, MaySend
  <2> HIDE DEF row
  <2> QED BY <2>1, <2>2, HistoryApply, FlowAssumption DEF Actions
<1>5. ASSUME NEW actor \in Users, Approve(d, actor) PROVE HistoryInv'
  <2> DEFINE row == [doc[d] EXCEPT !.target = NoUser]
  <2>1. row \in DocRow /\ row.target = NoUser /\ row.assignee = doc[d].assignee
    BY <1>1 DEF DocRow
  <2>2. Apply(d, "approve", actor, NoUser, row) /\ doc[d].target = actor
    BY <1>5 DEF Approve
  <2> HIDE DEF row
  <2> QED BY <2>1, <2>2, HistoryApply, FlowAssumption DEF Actions
<1>6. ASSUME NEW actor \in Users, Reject(d, actor) PROVE HistoryInv'
  <2> DEFINE count == doc[d].rejections + 1
             row == [doc[d] EXCEPT !.target = NoUser, !.rejections = count,
                                   !.lockedOut = count >= RejectionLimit]
  <2>1. count \in Nat /\ (count >= RejectionLimit) \in BOOLEAN
    BY <1>1, FlowAssumption DEF DocRow
  <2>2. Apply(d, "reject", actor, NoUser, row) /\ doc[d].target = actor
    BY <1>6 DEF Reject
  <2> HIDE DEF count
  <2>3. row \in DocRow /\ row.target = NoUser /\ row.assignee = doc[d].assignee
    BY <1>1, <2>1 DEF DocRow
  <2> HIDE DEF row
  <2> QED BY <2>2, <2>3, HistoryApply, FlowAssumption DEF Actions
<1> QED BY <1>2, <1>3, <1>4, <1>5, <1>6 DEF WorkflowAction

LEMMA HistoryCancel ==
    ASSUME HistoryInv, FlowTypeOK', NEW d \in Docs, Cancel(d) PROVE HistoryInv'
<1> DEFINE e == [action |-> "cancel", actor |-> NoUser, user |-> NoUser]
<1>1. e \in Event /\ e.action = "cancel"
  BY DEF Event
<1>2. /\ doc[d] \in DocRow
      /\ events[d] \in Seq(Event)
      /\ HistoryOK(events[d], doc[d])
  BY DEF HistoryInv, FlowTypeOK
<1>3. /\ events' = [events EXCEPT ![d] = Append(@, e)]
      /\ doc'[d].target = doc[d].target
      /\ doc'[d].assignee = doc[d].assignee
      /\ \A o \in Docs \ {d} : doc'[o] = doc[o]
  BY <1>2 DEF Cancel, Record, HistoryInv, FlowTypeOK, DocRow
<1> HIDE DEF e
<1>4. HistoryOK(Append(events[d], e), doc'[d])
  BY <1>1, <1>2, <1>3, HistoryGrows DEF Closing
<1>5. \A o \in Docs : HistoryOK(events'[o], doc'[o])
  BY <1>3, <1>4 DEF HistoryInv, FlowTypeOK
<1> QED BY <1>5 DEF HistoryInv

\* The handlers beside the workflow write neither of the two columns nor an event.
LEMMA HistoryQuiet ==
    ASSUME HistoryInv, FlowTypeOK', UNCHANGED events,
           \A o \in Docs : doc'[o].target = doc[o].target /\ doc'[o].assignee = doc[o].assignee
    PROVE  HistoryInv'
BY DEF HistoryInv, HistoryOK

LEMMA HistoryStep == ASSUME HistoryInv, [FlowNext]_flowVars PROVE HistoryInv'
<1>1. FlowTypeOK'
  BY TypeStep DEF HistoryInv
<1>2. ASSUME NEW d \in Docs, NEW status \in CreateStatuses, Create(d, status) PROVE HistoryInv'
  BY <1>1, <1>2, HistoryQuiet DEF Create, HistoryInv, FlowTypeOK, DocRow
<1>3. ASSUME NEW d \in Docs, LockExpires(d) PROVE HistoryInv'
  BY <1>1, <1>3, HistoryQuiet DEF LockExpires, HistoryInv, FlowTypeOK, DocRow
<1>4. ASSUME NEW e \in Editors, EditorStore(e) PROVE HistoryInv'
  <2> DEFINE status == editor[e].status
  <2>1. doc' = [doc EXCEPT ![editor[e].d].status = status] /\ UNCHANGED events
    BY <1>4 DEF EditorStore
  <2> HIDE DEF status
  <2>2. \A o \in Docs : doc'[o].target = doc[o].target /\ doc'[o].assignee = doc[o].assignee
    BY <2>1 DEF HistoryInv, FlowTypeOK, DocRow
  <2> QED BY <1>1, <2>1, <2>2, HistoryQuiet
<1>5. ASSUME UNCHANGED <<doc, events>> PROVE HistoryInv'
  BY <1>1, <1>5 DEF HistoryInv
<1>6. ASSUME NEW d \in Docs, Upload(d) PROVE HistoryInv'
  BY <1>5, <1>6 DEF Upload
<1>7. ASSUME NEW d \in Docs, NEW e \in Editors, EditorLoad(e, d) PROVE HistoryInv'
  BY <1>5, <1>7 DEF EditorLoad
<1>8. CASE UNCHANGED flowVars
  BY <1>5, <1>8 DEF flowVars
<1> QED BY <1>1, <1>2, <1>3, <1>4, <1>6, <1>7, <1>8, HistoryWorkflow, HistoryCancel DEF FlowNext

LEMMA HistoryInit == FlowInit => HistoryInv
<1> SUFFICES ASSUME FlowInit PROVE HistoryInv
  OBVIOUS
<1>1. \A d \in Docs : events[d] = << >> /\ doc[d] = NoRow
  BY DEF FlowInit
<1>2. NoRow.target = NoUser /\ NoRow.assignee = NoUser
  BY DEF NoRow
<1>3. HistoryOK(<< >>, NoRow)
  BY <1>2 DEF HistoryOK
<1>4. \A d \in Docs : HistoryOK(events[d], doc[d])
  BY <1>1, <1>3
<1> QED BY <1>4, TypeInit DEF HistoryInv

LEMMA HistoryInvariant == FlowSpec => []HistoryInv
BY HistoryInit, HistoryStep, PTL DEF FlowSpec

\* The four-eyes rule of ApplyDocumentWorkflowAction, whatever edits, cancellations
\* and repeated rejections run beside it.
THEOREM DecisionsHaveFourEyes == FlowSpec => []FourEyes
BY HistoryInvariant, HistoryImplies, PTL

\* Only the user who took a document, and has not sent it since, sends it on.
THEOREM SendersHadTheDocument == FlowSpec => []SenderHadDocument
BY HistoryInvariant, HistoryImplies, PTL

-----------------------------------------------------------------------------
(* The outbox.                                                             *)

OutboxInv == FlowTypeOK /\ OutboxIsApproval

IsApproved(s) == \E j \in 1 .. Len(s) : s[j].action = "approve"

LEMMA ApprovedGrows ==
    ASSUME NEW s \in Seq(Event), NEW e \in Event
    PROVE  IsApproved(Append(s, e)) <=> IsApproved(s) \/ e.action = "approve"
<1> DEFINE t == Append(s, e)
<1>1. /\ Len(s) \in Nat
      /\ Len(t) = Len(s) + 1
      /\ t[Len(s) + 1] = e
      /\ \A k \in 1 .. Len(s) : t[k] = s[k]
  BY Appended
<1> HIDE DEF t
<1>2. IsApproved(t) <=> IsApproved(s) \/ e.action = "approve"
  BY <1>1 DEF IsApproved
<1> QED BY <1>2 DEF t

\* A step that writes one event of one document, and its outbox event if it approves.
OneEvent(d) ==
    \E e \in Event :
        /\ events' = [events EXCEPT ![d] = Append(@, e)]
        /\ outbox' = IF e.action = "approve" THEN [outbox EXCEPT ![d] = Queued(@)] ELSE outbox

LEMMA OneEventKeeps ==
    ASSUME OutboxInv, FlowTypeOK', NEW d \in Docs, OneEvent(d)
    PROVE  OutboxInv'
<1>1. PICK e \in Event :
          /\ events' = [events EXCEPT ![d] = Append(@, e)]
          /\ outbox' = IF e.action = "approve" THEN [outbox EXCEPT ![d] = Queued(@)] ELSE outbox
  BY DEF OneEvent
<1>2. IsApproved(events'[d]) <=> IsApproved(events[d]) \/ e.action = "approve"
  BY <1>1, ApprovedGrows DEF OutboxInv, FlowTypeOK
<1>3. Queued(outbox[d]).status # "none"
  BY DEF Queued, NoEvent
<1>4. outbox'[d] = IF e.action = "approve" THEN Queued(outbox[d]) ELSE outbox[d]
  BY <1>1 DEF OutboxInv, FlowTypeOK
<1>5. \A o \in Docs \ {d} : outbox'[o] = outbox[o] /\ events'[o] = events[o]
  BY <1>1 DEF OutboxInv, FlowTypeOK
<1>6. \A o \in Docs : outbox[o].status # "none" <=> IsApproved(events[o])
  BY DEF OutboxInv, OutboxIsApproval, IsApproved
<1>7. \A o \in Docs : outbox'[o].status # "none" <=> IsApproved(events'[o])
  BY <1>2, <1>3, <1>4, <1>5, <1>6
<1>8. OutboxIsApproval'
  BY <1>7 DEF OutboxIsApproval, IsApproved
<1> QED BY <1>8 DEF OutboxInv

LEMMA ApplyWritesOne ==
    ASSUME NEW d \in Docs, NEW action \in Actions, NEW actor \in Users \cup {NoUser},
           NEW user \in Users \cup {NoUser}, NEW row, Apply(d, action, actor, user, row),
           outbox' = IF action = "approve" THEN [outbox EXCEPT ![d] = Queued(@)] ELSE outbox
    PROVE  OneEvent(d)
<1> DEFINE e == [action |-> action, actor |-> actor, user |-> user]
<1>1. e \in Event /\ e.action = action
  BY DEF Event
<1>2. events' = [events EXCEPT ![d] = Append(@, e)]
  BY DEF Apply, Record
<1> QED BY <1>1, <1>2 DEF OneEvent

LEMMA WorkflowWritesOne == ASSUME NEW d \in Docs, WorkflowAction(d) PROVE OneEvent(d)
<1>1. ASSUME NEW dept \in Depts, AssignDepartment(d, dept) PROVE OneEvent(d)
  BY <1>1, ApplyWritesOne DEF AssignDepartment, Actions
<1>2. ASSUME NEW user \in Users, Take(d, user) PROVE OneEvent(d)
  BY <1>2, ApplyWritesOne DEF Take, Actions
<1>3. ASSUME NEW actor \in Users, NEW target \in Users, SendForApproval(d, actor, target)
      PROVE  OneEvent(d)
  BY <1>3, ApplyWritesOne DEF SendForApproval, Actions
<1>4. ASSUME NEW actor \in Users, Approve(d, actor) PROVE OneEvent(d)
  BY <1>4, ApplyWritesOne DEF Approve, Actions
<1>5. ASSUME NEW actor \in Users, Reject(d, actor) PROVE OneEvent(d)
  BY <1>5, ApplyWritesOne DEF Reject, Actions
<1> QED BY <1>1, <1>2, <1>3, <1>4, <1>5 DEF WorkflowAction

LEMMA CancelWritesOne == ASSUME NEW d \in Docs, Cancel(d) PROVE OneEvent(d)
<1> DEFINE e == [action |-> "cancel", actor |-> NoUser, user |-> NoUser]
<1>1. e \in Event /\ e.action # "approve"
  BY DEF Event
<1>2. events' = [events EXCEPT ![d] = Append(@, e)] /\ outbox' = outbox
  BY DEF Cancel, Record
<1> QED BY <1>1, <1>2 DEF OneEvent

LEMMA OutboxStep == ASSUME OutboxInv, [FlowNext]_flowVars PROVE OutboxInv'
<1>1. FlowTypeOK'
  BY TypeStep DEF OutboxInv
<1>2. ASSUME NEW d \in Docs, WorkflowAction(d) \/ Cancel(d) PROVE OutboxInv'
  BY <1>1, <1>2, WorkflowWritesOne, CancelWritesOne, OneEventKeeps
<1>3. ASSUME UNCHANGED <<events, outbox>> PROVE OutboxInv'
  BY <1>1, <1>3 DEF OutboxInv, OutboxIsApproval
<1>4. CASE UNCHANGED flowVars
  BY <1>3, <1>4 DEF flowVars
<1> QED BY <1>2, <1>3, <1>4
        DEF FlowNext, Create, Upload, LockExpires, EditorLoad, EditorStore

LEMMA OutboxInit == FlowInit => OutboxInv
<1> SUFFICES ASSUME FlowInit PROVE OutboxInv
  OBVIOUS
<1>1. \A d \in Docs : Len(events[d]) = 0 /\ outbox[d].status = "none"
  BY DEF FlowInit, NoEvent
<1> QED BY <1>1, TypeInit DEF OutboxInv, OutboxIsApproval

\* The approval and its outbox event commit together, and no other handler writes
\* the outbox: the archive is told of the approved documents and of no others.
THEOREM OutboxTellsApprovals == FlowSpec => []OutboxIsApproval
<1>1. FlowSpec => []OutboxInv
  BY OutboxInit, OutboxStep, PTL DEF FlowSpec
<1>2. OutboxInv => OutboxIsApproval
  BY DEF OutboxInv
<1> QED BY <1>1, <1>2, PTL

-----------------------------------------------------------------------------
(* What can take a document out of a final status.                         *)

\* UpdateDocument writes back another status than the one the document has by now.
StaleEdit(e, d) ==
    EditorStore(e) /\ editor[e].d = d /\ editor[e].status # doc[d].status

OnlyStaleEditsReopen ==
    [][\A d \in Docs : doc[d].status \in {"ANULAT", "FINALIZAT"} /\ doc'[d].status # doc[d].status
          => \E e \in Editors : StaleEdit(e, d)]_flowVars

\* A step that writes one row.
LEMMA RowChange ==
    ASSUME FlowTypeOK, NEW d \in Docs, NEW row, doc' = [doc EXCEPT ![d] = row],
           NEW o \in Docs, doc'[o].status # doc[o].status
    PROVE  o = d /\ doc'[o] = row
BY DEF FlowTypeOK

\* Neither the workflow nor any handler but UpdateDocument changes a final status.
LEMMA FinalStatus ==
    ASSUME FlowTypeOK, [FlowNext]_flowVars, NEW o \in Docs,
           doc[o].status \in {"ANULAT", "FINALIZAT"}, doc'[o].status # doc[o].status
    PROVE  \E e \in Editors : StaleEdit(e, o)
<1>0. doc \in [Docs -> DocRow]
  BY DEF FlowTypeOK
<1>1. ~UNCHANGED doc
  OBVIOUS
<1>2. ASSUME NEW d \in Docs, NEW action \in Actions, NEW actor, NEW user, NEW row,
             Apply(d, action, actor, user, row)
      PROVE  FALSE
  <2>1. o = d
    BY <1>2, RowChange DEF Apply
  <2>2. \A a \in Actions : From[a] \cap {"ANULAT", "FINALIZAT"} = {}
    BY DEF From, Actions
  <2> QED BY <1>2, <2>1, <2>2 DEF Apply
<1>3. ASSUME NEW d \in Docs, WorkflowAction(d) PROVE FALSE
  BY <1>2, <1>3 DEF WorkflowAction, AssignDepartment, Take, SendForApproval, Approve, Reject, Actions
<1>4. ASSUME NEW d \in Docs, Cancel(d) PROVE FALSE
  <2>1. doc[d].status \notin {"ANULAT", "FINALIZAT"}
    BY <1>4 DEF Cancel
  <2> QED BY <1>0, <1>4, <2>1 DEF Cancel
<1>5. ASSUME NEW d \in Docs, NEW status, Create(d, status) PROVE FALSE
  <2>1. doc[d].status \notin {"ANULAT", "FINALIZAT"}
    BY <1>5 DEF Create
  <2> QED BY <1>0, <1>5, <2>1 DEF Create
<1>6. ASSUME NEW d \in Docs, LockExpires(d) PROVE FALSE
  BY <1>0, <1>6 DEF LockExpires, DocRow
<1>7. PICK e \in Editors : EditorStore(e)
  BY <1>1, <1>3, <1>4, <1>5, <1>6 DEF FlowNext, Upload, EditorLoad, flowVars
<1>8. editor[e].d = o /\ editor[e].status # doc[o].status
  <2>1. doc' = [doc EXCEPT ![editor[e].d].status = editor[e].status]
    BY <1>7 DEF EditorStore
  <2> QED BY <1>0, <2>1 DEF DocRow
<1> QED BY <1>7, <1>8 DEF StaleEdit

\* A cancelled or finished document comes back in one way: an edit stores the status
\* that it read before the cancellation or the approval (UpdateDocument, no lock).
THEOREM OnlyEditsReopen == FlowSpec => OnlyStaleEditsReopen
<1>1. FlowTypeOK /\ [FlowNext]_flowVars =>
        [\A d \in Docs : doc[d].status \in {"ANULAT", "FINALIZAT"} /\ doc'[d].status # doc[d].status
            => \E e \in Editors : StaleEdit(e, d)]_flowVars
  BY FinalStatus
<1> QED BY <1>1, FlowTypeCorrect, PTL DEF FlowSpec, OnlyStaleEditsReopen

\* No edit of a document was stored yet.
NothingEdited == \A e \in Editors : editor[e].pc # "done"

IsCancelled(s) == \E j \in 1 .. Len(s) : s[j].action = "cancel"

LEMMA CancelledGrows ==
    ASSUME NEW s \in Seq(Event), NEW e \in Event
    PROVE  IsCancelled(Append(s, e)) <=> IsCancelled(s) \/ e.action = "cancel"
<1> DEFINE t == Append(s, e)
<1>1. /\ Len(s) \in Nat
      /\ Len(t) = Len(s) + 1
      /\ t[Len(s) + 1] = e
      /\ \A k \in 1 .. Len(s) : t[k] = s[k]
  BY Appended
<1> HIDE DEF t
<1>2. IsCancelled(t) <=> IsCancelled(s) \/ e.action = "cancel"
  BY <1>1 DEF IsCancelled
<1> QED BY <1>2 DEF t

LEMMA CancelledBy ==
    ASSUME FlowTypeOK, [FlowNext]_flowVars, NEW o \in Docs,
           IsCancelled(events'[o]), ~IsCancelled(events[o])
    PROVE  doc'[o].status = "ANULAT"
<1>1. ~UNCHANGED events
  OBVIOUS
<1>2. ASSUME NEW d \in Docs, NEW e \in Event, events' = [events EXCEPT ![d] = Append(@, e)]
      PROVE  o = d /\ e.action = "cancel"
  BY <1>2, CancelledGrows DEF FlowTypeOK
<1>3. ASSUME NEW d \in Docs, NEW action \in Actions, NEW actor \in Users \cup {NoUser},
             NEW user \in Users \cup {NoUser}, NEW row, Apply(d, action, actor, user, row)
      PROVE  FALSE
  <2> DEFINE e == [action |-> action, actor |-> actor, user |-> user]
  <2>1. e \in Event /\ e.action = action /\ action # "cancel"
    BY DEF Event, Actions
  <2>2. events' = [events EXCEPT ![d] = Append(@, e)]
    BY <1>3 DEF Apply, Record
  <2> HIDE DEF e
  <2> QED BY <1>2, <2>1, <2>2
<1>4. ASSUME NEW d \in Docs, WorkflowAction(d) PROVE FALSE
  BY <1>3, <1>4 DEF WorkflowAction, AssignDepartment, Take, SendForApproval, Approve, Reject, Actions
<1>5. PICK d \in Docs : Cancel(d)
  BY <1>1, <1>4 DEF FlowNext, Create, Upload, LockExpires, EditorLoad, EditorStore, flowVars
<1>6. o = d
  <2> DEFINE e == [action |-> "cancel", actor |-> NoUser, user |-> NoUser]
  <2>1. e \in Event
    BY DEF Event
  <2>2. events' = [events EXCEPT ![d] = Append(@, e)]
    BY <1>5 DEF Cancel, Record
  <2> HIDE DEF e
  <2> QED BY <1>2, <2>1, <2>2
<1> QED BY <1>5, <1>6 DEF Cancel, FlowTypeOK, DocRow

\* REG-017 and REG-053 hold of the workflow and of every handler beside it but
\* UpdateDocument: until an edit is stored, a cancelled document is cancelled.
THEOREM CancellationHoldsUntilEdited == FlowSpec => [](NothingEdited => CancellationIsFinal)
<1> DEFINE Final == \A d \in Docs : IsCancelled(events[d]) => doc[d].status = "ANULAT"
           Untouched == NothingEdited => Final
<1>1. FlowInit => Untouched
  BY DEF FlowInit, IsCancelled
<1>2. FlowTypeOK /\ Untouched /\ [FlowNext]_flowVars => Untouched'
  <2> SUFFICES ASSUME FlowTypeOK, Untouched, [FlowNext]_flowVars, NothingEdited',
                      NEW d \in Docs, IsCancelled(events'[d])
               PROVE  doc'[d].status = "ANULAT"
    BY DEF Untouched
  <2>1. ASSUME NEW e \in Editors PROVE editor[e].pc # "done" /\ ~EditorStore(e)
    <3>1. editor'[e].pc # "done" /\ editor \in [Editors -> EditorRow]
      BY DEF NothingEdited, FlowTypeOK
    <3>2. ~EditorStore(e)
      <4>1. [IdleEditor EXCEPT !.pc = "done"].pc = "done"
        BY DEF IdleEditor
      <4> QED BY <3>1, <4>1 DEF EditorStore
    <3>3. ASSUME editor[e].pc = "done" PROVE editor'[e] = editor[e]
      <4>1. ASSUME NEW x \in Editors, NEW c \in Docs, EditorLoad(x, c)
            PROVE  editor'[e] = editor[e]
        BY <3>1, <3>3, <4>1 DEF EditorLoad
      <4>2. ASSUME NEW x \in Editors, EditorStore(x) PROVE editor'[e] = editor[e]
        BY <3>1, <3>2, <4>2 DEF EditorStore
      <4> QED
        BY <4>1, <4>2 DEF FlowNext, flowVars, WorkflowAction, AssignDepartment, Take,
           SendForApproval, Approve, Reject, Cancel, Create, Upload, LockExpires
    <3> QED BY <3>1, <3>2, <3>3
  <2>2. CASE ~IsCancelled(events[d])
    BY <2>2, CancelledBy
  <2>3. CASE IsCancelled(events[d])
    <3>1. doc[d].status = "ANULAT"
      BY <2>1, <2>3 DEF NothingEdited
    <3> QED BY <2>1, <3>1, FinalStatus DEF StaleEdit
  <2> QED BY <2>2, <2>3
<1>3. Untouched => (NothingEdited => CancellationIsFinal)
  BY DEF CancellationIsFinal, IsCancelled
<1> HIDE DEF Untouched
<1> QED BY <1>1, <1>2, <1>3, FlowTypeCorrect, PTL DEF FlowSpec

-----------------------------------------------------------------------------
(* Rows of the queues and of their workers.                                *)

QueueRow(S) == [status : S, attempts : 0 .. MaxAttempts, stale : BOOLEAN]

OutboxStatus == {"none", "pending", "processing", "delivered", "failed"}
JobStatus    == {"none", "pending", "running", "succeeded", "failed"}

RecordStatus == {"none", "queued", "processing", "ready", "failed"}
TextStatus   == {"none", "pending", "processing", "processed", "failed"}

ArchiveTypes ==
    /\ outbox \in [Docs -> QueueRow(OutboxStatus)]
    /\ job \in [Docs -> QueueRow(JobStatus)]
    /\ copied \in [Docs -> BOOLEAN]
    /\ record \in [Docs -> RecordStatus] /\ text \in [Docs -> TextStatus]
    /\ ow \in [OWorkers -> OWorkerRow] /\ iw \in [IWorkers -> IWorkerRow]
    /\ faults \in 0 .. MaxFaults

LEMMA PipelineTypes == FlowTypeOK /\ ArchiveTypes => PipelineTypeOK
BY DEF PipelineTypeOK, ArchiveTypes, QueueRow, JobRow, JobStatus, RecordStatus, TextStatus

LEMMA BumpIsBounded == \A n \in 0 .. MaxAttempts : Bump(n) \in 0 .. MaxAttempts
BY PipelineAssumption DEF Bump

\* What the sweep does to a queue.
LEMMA SweptRows ==
    ASSUME NEW S, "pending" \in S, NEW rows \in [Docs -> QueueRow(S)], NEW busy
    PROVE  /\ Swept(rows, busy) \in [Docs -> QueueRow(S)]
           /\ \A d \in Docs :
                \/ Swept(rows, busy)[d] = rows[d]
                \/ /\ rows[d].status = busy /\ rows[d].stale
                   /\ Swept(rows, busy)[d].status = "pending"
<1>1. ASSUME NEW d \in Docs
      PROVE  LET row == [rows[d] EXCEPT !.status = "pending", !.stale = FALSE] IN
             row \in QueueRow(S) /\ row.status = "pending"
  BY DEF QueueRow
<1> QED BY <1>1 DEF Swept

\* What a claim does to a queue.
LEMMA ClaimedRows ==
    ASSUME NEW S, "pending" \in S, NEW busy \in S, NEW rows \in [Docs -> QueueRow(S)],
           NEW d \in Docs
    PROVE  LET swept == Swept(rows, busy)
               new   == [swept EXCEPT ![d] = Taken(@, busy)]
           IN  /\ new \in [Docs -> QueueRow(S)]
               /\ new[d].status = busy /\ ~new[d].stale
               /\ Bump(swept[d].attempts) \in 0 .. MaxAttempts
               /\ \A o \in Docs : o # d => new[o] = swept[o]
<1> DEFINE swept == Swept(rows, busy)
           row   == Taken(swept[d], busy)
<1>1. swept \in [Docs -> QueueRow(S)]
  BY SweptRows
<1>2. Bump(swept[d].attempts) \in 0 .. MaxAttempts
  BY <1>1, BumpIsBounded DEF QueueRow
<1> HIDE DEF swept
<1>3. row \in QueueRow(S) /\ row.status = busy /\ row.stale = FALSE
  BY <1>1, <1>2 DEF QueueRow, Taken
<1> HIDE DEF row
<1>4. LET new == [swept EXCEPT ![d] = row] IN
      /\ new \in [Docs -> QueueRow(S)] /\ new[d] = row
      /\ \A o \in Docs : o # d => new[o] = swept[o]
  BY <1>1, <1>3
<1> QED BY <1>2, <1>3, <1>4 DEF swept, row

LEMMA MarkedRow ==
    ASSUME NEW row \in QueueRow(OutboxStatus), NEW status \in OutboxStatus
    PROVE  /\ Marked(row, status) \in QueueRow(OutboxStatus)
           /\ \/ Marked(row, status) = row
              \/ row.status = "processing" /\ Marked(row, status).status = status
<1>1. LET new == [row EXCEPT !.status = status, !.stale = FALSE] IN
      new \in QueueRow(OutboxStatus) /\ new.status = status
  BY DEF QueueRow
<1> QED BY <1>1 DEF Marked

LEMMA IdleRows == IdleWorker \in OWorkerRow /\ IdleWorker \in IWorkerRow
                  /\ IdleWorker.pc = "idle" /\ IdleWorker.d = NoDoc
BY PipelineAssumption DEF IdleWorker, OWorkerRow, IWorkerRow

LEMMA NewJob == LET row == [NoJob EXCEPT !.status = "pending"] IN
                row \in QueueRow(JobStatus) /\ row.status = "pending" /\ row.stale = FALSE
<1>1. 0 \in 0 .. MaxAttempts
  BY PipelineAssumption
<1>2. NoJob \in QueueRow(JobStatus) /\ NoJob.stale = FALSE
  BY <1>1 DEF NoJob, QueueRow, JobStatus
<1>3. NoJob \in QueueRow(JobStatus) /\ NoJob.stale = FALSE =>
        LET row == [NoJob EXCEPT !.status = "pending"] IN
        row \in QueueRow(JobStatus) /\ row.status = "pending" /\ row.stale = FALSE
  BY DEF QueueRow, JobStatus
<1> QED BY <1>2, <1>3

-----------------------------------------------------------------------------
(* The archive.                                                            *)

\* A record has its object and an approval; a delivery and a job have a record.
ArchiveOK ==
    \A d \in Docs :
        /\ outbox[d].status = "delivered" => record[d] # "none"
        /\ record[d] # "none" => copied[d] /\ outbox[d].status # "none"
        /\ job[d].status # "none" => record[d] # "none"

\* How far each worker has come with its document.
OWorkerOK(row, o, c, r) ==
    row.pc # "idle" =>
        /\ row.d \in Docs /\ o[row.d].status # "none"
        /\ row.pc \in {"copied", "inserting", "marking"} => c[row.d]
        /\ row.pc = "marking" => r[row.d] # "none"

IWorkerOK(row, r) ==
    /\ row.pc = "idle" => row.d = NoDoc
    /\ row.pc # "idle" => row.d \in Docs /\ r[row.d] # "none"

OWorkersOK == \A w \in OWorkers : OWorkerOK(ow[w], outbox, copied, record)
IWorkersOK == \A w \in IWorkers : IWorkerOK(iw[w], record)

ArchiveInv == ArchiveTypes /\ ArchiveOK /\ OWorkersOK /\ IWorkersOK

\* Nothing that was archived is taken back.
Grows ==
    \A d \in Docs : /\ copied[d] => copied'[d]
                    /\ record[d] # "none" => record'[d] # "none"
                    /\ outbox[d].status # "none" => outbox'[d].status # "none"

LEMMA WorkersStay ==
    ASSUME Grows
    PROVE  /\ \A row : OWorkerOK(row, outbox, copied, record) => OWorkerOK(row, outbox', copied', record')
           /\ \A row : IWorkerOK(row, record) => IWorkerOK(row, record')
BY DEF OWorkerOK, IWorkerOK, Grows

\* A worker of the outbox moves on.
LEMMA OMoves ==
    ASSUME ArchiveInv, Grows, NEW w \in OWorkers,
           \A v \in OWorkers : v # w => ow'[v] = ow[v],
           OWorkerOK(ow'[w], outbox', copied', record'), UNCHANGED iw
    PROVE  OWorkersOK' /\ IWorkersOK'
<1>1. OWorkersOK'
  BY WorkersStay DEF ArchiveInv, OWorkersOK
<1>2. IWorkersOK'
  BY WorkersStay DEF ArchiveInv, IWorkersOK
<1> QED BY <1>1, <1>2

\* A worker of the extraction moves on.
LEMMA IMoves ==
    ASSUME ArchiveInv, Grows, NEW w \in IWorkers,
           \A v \in IWorkers : v # w => iw'[v] = iw[v],
           IWorkerOK(iw'[w], record'), UNCHANGED ow
    PROVE  OWorkersOK' /\ IWorkersOK'
<1>1. IWorkersOK'
  BY WorkersStay DEF ArchiveInv, IWorkersOK
<1>2. OWorkersOK'
  BY WorkersStay DEF ArchiveInv, OWorkersOK
<1> QED BY <1>1, <1>2

\* The workers stay where they are.
LEMMA NobodyMoves ==
    ASSUME ArchiveInv, Grows, UNCHANGED <<ow, iw>>
    PROVE  OWorkersOK' /\ IWorkersOK'
BY WorkersStay DEF ArchiveInv, OWorkersOK, IWorkersOK

\* What an outbox worker does between its steps.
OPc == {"idle", "claimed", "loaded", "copied", "inserting", "marking", "failing"}
LEMMA OAdvances ==
    ASSUME ow \in [OWorkers -> OWorkerRow], NEW w \in OWorkers, NEW pc \in OPc,
           ow' = [ow EXCEPT ![w].pc = pc]
    PROVE  /\ ow' \in [OWorkers -> OWorkerRow]
           /\ ow'[w].pc = pc /\ ow'[w].d = ow[w].d
           /\ \A v \in OWorkers : v # w => ow'[v] = ow[v]
BY DEF OWorkerRow, OPc

LEMMA OIsIdle ==
    ASSUME ow \in [OWorkers -> OWorkerRow], NEW w \in OWorkers,
           ow' = [ow EXCEPT ![w] = IdleWorker]
    PROVE  /\ ow' \in [OWorkers -> OWorkerRow]
           /\ ow'[w].pc = "idle"
           /\ \A v \in OWorkers : v # w => ow'[v] = ow[v]
BY IdleRows

IPc == {"idle", "claimed", "extracting", "failing", "failing_record", "failing_text"}
LEMMA IAdvances ==
    ASSUME iw \in [IWorkers -> IWorkerRow], NEW w \in IWorkers, NEW pc \in IPc,
           iw' = [iw EXCEPT ![w].pc = pc]
    PROVE  /\ iw' \in [IWorkers -> IWorkerRow]
           /\ iw'[w].pc = pc /\ iw'[w].d = iw[w].d
           /\ \A v \in IWorkers : v # w => iw'[v] = iw[v]
BY DEF IWorkerRow, IPc

LEMMA IIsIdle ==
    ASSUME iw \in [IWorkers -> IWorkerRow], NEW w \in IWorkers,
           iw' = [iw EXCEPT ![w] = IdleWorker]
    PROVE  /\ iw' \in [IWorkers -> IWorkerRow]
           /\ iw'[w].pc = "idle" /\ iw'[w].d = NoDoc
           /\ \A v \in IWorkers : v # w => iw'[v] = iw[v]
BY IdleRows

-----------------------------------------------------------------------------
(* What the steps of the workers may do to the flow, and what they achieve.*)

SameApprovals ==
    /\ UNCHANGED <<doc, pdf, events, editor>>
    /\ \A d \in Docs : outbox'[d].status = "none" <=> outbox[d].status = "none"

StepOK == ArchiveInv' /\ SameApprovals

\* Only the outbox and its workers change.
LEMMA OutboxChanges ==
    ASSUME ArchiveInv, outbox' \in [Docs -> QueueRow(OutboxStatus)],
           ow' \in [OWorkers -> OWorkerRow], SameApprovals,
           \A d \in Docs : outbox'[d].status = "delivered" =>
               outbox[d].status = "delivered" \/ record[d] # "none",
           UNCHANGED <<archiveVars, iw, faults>>
    PROVE  ArchiveTypes' /\ ArchiveOK' /\ Grows
<1>1. ArchiveTypes'
  BY DEF ArchiveInv, ArchiveTypes, archiveVars
<1>2. ArchiveOK' /\ Grows
  BY DEF ArchiveInv, ArchiveOK, Grows, SameApprovals, archiveVars
<1> QED BY <1>1, <1>2

LEMMA StepOLeaseAges == ASSUME ArchiveInv, NEW d \in Docs, OLeaseAges(d) PROVE StepOK
<1> DEFINE row == [outbox[d] EXCEPT !.stale = TRUE]
<1>1. row \in QueueRow(OutboxStatus) /\ row.status = "processing"
  BY DEF OLeaseAges, ArchiveInv, ArchiveTypes, QueueRow
<1>2. outbox' = [outbox EXCEPT ![d] = row]
  BY DEF OLeaseAges
<1> HIDE DEF row
<1>3. /\ outbox' \in [Docs -> QueueRow(OutboxStatus)]
      /\ \A o \in Docs : outbox'[o].status = outbox[o].status
  BY <1>1, <1>2 DEF OLeaseAges, ArchiveInv, ArchiveTypes
<1>4. SameApprovals
  BY <1>3 DEF OLeaseAges, SameApprovals
<1>5. ArchiveTypes' /\ ArchiveOK' /\ Grows
  BY <1>3, <1>4, OutboxChanges DEF OLeaseAges, ArchiveInv, ArchiveTypes
<1>6. OWorkersOK' /\ IWorkersOK'
  BY <1>5, NobodyMoves DEF OLeaseAges
<1> QED BY <1>4, <1>5, <1>6 DEF StepOK, ArchiveInv

LEMMA StepOClaim ==
    ASSUME ArchiveInv, NEW w \in OWorkers, NEW d \in Docs, OClaim(w, d) PROVE StepOK
<1> DEFINE swept == Swept(outbox, "processing")
           new   == [pc |-> "claimed", d |-> d,
                     attempts |-> Bump(swept[d].attempts), permanent |-> FALSE]
<1>1. /\ swept \in [Docs -> QueueRow(OutboxStatus)]
      /\ \A o \in Docs : \/ swept[o] = outbox[o]
                         \/ outbox[o].status = "processing" /\ swept[o].status = "pending"
  BY SweptRows DEF ArchiveInv, ArchiveTypes, OutboxStatus
<1>2. /\ outbox' \in [Docs -> QueueRow(OutboxStatus)]
      /\ outbox'[d].status = "processing"
      /\ Bump(swept[d].attempts) \in 0 .. MaxAttempts
      /\ \A o \in Docs : o # d => outbox'[o] = swept[o]
  <2>1. outbox \in [Docs -> QueueRow(OutboxStatus)]
    BY DEF ArchiveInv, ArchiveTypes
  <2>2. "pending" \in OutboxStatus /\ "processing" \in OutboxStatus
    BY DEF OutboxStatus
  <2>3. outbox' = [swept EXCEPT ![d] = Taken(@, "processing")]
    BY DEF OClaim
  <2> QED BY <2>1, <2>2, <2>3, ClaimedRows
<1>3. swept[d].status = "pending"
  BY DEF OClaim
<1>4. ow' = [ow EXCEPT ![w] = new]
  BY DEF OClaim
<1>5. new \in OWorkerRow /\ new.pc = "claimed" /\ new.d = d
  BY <1>2 DEF OWorkerRow
<1> HIDE DEF swept, new
<1>6. /\ ow' \in [OWorkers -> OWorkerRow] /\ ow'[w] = new
      /\ \A v \in OWorkers : v # w => ow'[v] = ow[v]
  BY <1>4, <1>5 DEF ArchiveInv, ArchiveTypes
<1>7. SameApprovals
  BY <1>1, <1>2, <1>3 DEF OClaim, SameApprovals
<1>8. \A o \in Docs : outbox'[o].status = "delivered" => outbox[o].status = "delivered"
  BY <1>1, <1>2
<1>9. ArchiveTypes' /\ ArchiveOK' /\ Grows
  BY <1>2, <1>6, <1>7, <1>8, OutboxChanges DEF OClaim
<1>10. OWorkerOK(ow'[w], outbox', copied', record')
  BY <1>2, <1>5, <1>6 DEF OWorkerOK
<1>11. OWorkersOK' /\ IWorkersOK'
  BY <1>6, <1>9, <1>10, OMoves DEF OClaim
<1> QED BY <1>7, <1>9, <1>11 DEF StepOK, ArchiveInv

LEMMA StepODone ==
    ASSUME ArchiveInv, NEW w \in OWorkers, NEW status \in OutboxStatus \ {"none"},
           ow[w].pc # "idle", ODone(w, status),
           status = "delivered" => record[ow[w].d] # "none"
    PROVE  StepOK
<1> DEFINE d   == ow[w].d
           row == Marked(outbox[d], status)
<1>1. d \in Docs
  BY DEF ArchiveInv, OWorkersOK, OWorkerOK
<1>2. /\ row \in QueueRow(OutboxStatus)
      /\ row = outbox[d] \/ (outbox[d].status = "processing" /\ row.status = status)
  BY <1>1, MarkedRow DEF ArchiveInv, ArchiveTypes
<1>3. outbox' = [outbox EXCEPT ![d] = row]
  BY DEF ODone
<1>4. status = "delivered" => record[d] # "none"
  OBVIOUS
<1> HIDE DEF d, row
<1>5. /\ outbox' \in [Docs -> QueueRow(OutboxStatus)] /\ outbox'[d] = row
      /\ \A o \in Docs : o # d => outbox'[o] = outbox[o]
  BY <1>1, <1>2, <1>3 DEF ArchiveInv, ArchiveTypes
<1>6. SameApprovals
  BY <1>2, <1>5 DEF ODone, SameApprovals
<1>7. \A o \in Docs : outbox'[o].status = "delivered" =>
          outbox[o].status = "delivered" \/ record[o] # "none"
  BY <1>2, <1>4, <1>5
<1>8. /\ ow' \in [OWorkers -> OWorkerRow] /\ ow'[w].pc = "idle"
      /\ \A v \in OWorkers : v # w => ow'[v] = ow[v]
  BY OIsIdle DEF ODone, ArchiveInv, ArchiveTypes
<1>9. ArchiveTypes' /\ ArchiveOK' /\ Grows
  BY <1>5, <1>6, <1>7, <1>8, OutboxChanges DEF ODone
<1>10. OWorkerOK(ow'[w], outbox', copied', record')
  BY <1>8 DEF OWorkerOK
<1>11. OWorkersOK' /\ IWorkersOK'
  BY <1>8, <1>9, <1>10, OMoves DEF ODone
<1> QED BY <1>6, <1>9, <1>11 DEF StepOK, ArchiveInv

\* The outbox stays while a worker writes the archive.
LEMMA ArchiveGrows ==
    ASSUME ArchiveInv, ArchiveTypes', UNCHANGED <<doc, pdf, events, editor, outbox>>,
           \A d \in Docs :
               /\ copied[d] => copied'[d]
               /\ record[d] # "none" => record'[d] # "none"
               /\ record'[d] # "none" =>
                    record[d] # "none" \/ (copied'[d] /\ outbox[d].status # "none")
               /\ job'[d].status # "none" => job[d].status # "none" \/ record'[d] # "none"
    PROVE  ArchiveOK' /\ Grows /\ SameApprovals
<1>1. Grows /\ SameApprovals
  BY DEF Grows, SameApprovals
<1>2. ArchiveOK'
  BY DEF ArchiveInv, ArchiveOK
<1> QED BY <1>1, <1>2

\* Only workers move.
LEMMA ArchiveStays ==
    ASSUME ArchiveInv, UNCHANGED <<flowVars, archiveVars>>,
           ow' \in [OWorkers -> OWorkerRow], iw' \in [IWorkers -> IWorkerRow],
           faults' \in 0 .. MaxFaults
    PROVE  ArchiveTypes' /\ ArchiveOK' /\ Grows /\ SameApprovals
<1>1. ArchiveTypes'
  BY DEF ArchiveInv, ArchiveTypes, flowVars, archiveVars
<1> QED BY <1>1, ArchiveGrows DEF flowVars, archiveVars

LEMMA FaultType == ASSUME ArchiveTypes, Fault \/ UNCHANGED faults PROVE faults' \in 0 .. MaxFaults
BY PipelineAssumption DEF ArchiveTypes, Fault

LEMMA StepOLoad == ASSUME ArchiveInv, NEW w \in OWorkers, OLoad(w) PROVE StepOK
<1> DEFINE pc  == IF Archivable(ow[w].d) THEN "loaded" ELSE "failing"
           new == [ow[w] EXCEPT !.pc = pc, !.permanent = ~Archivable(ow[w].d)]
<1>1. pc \in OPc /\ pc \notin {"idle", "copied", "inserting", "marking"}
  BY DEF OPc
<1>2. ow' = [ow EXCEPT ![w] = new]
  BY DEF OLoad, ArchiveInv, ArchiveTypes
<1>3. (~Archivable(ow[w].d)) \in BOOLEAN
  BY DEF Archivable
<1> HIDE DEF pc
<1>4. new \in OWorkerRow /\ new.pc = pc /\ new.d = ow[w].d
  BY <1>1, <1>3 DEF OWorkerRow, OPc, ArchiveInv, ArchiveTypes
<1> HIDE DEF new
<1>5. /\ ow' \in [OWorkers -> OWorkerRow] /\ ow'[w] = new
      /\ \A v \in OWorkers : v # w => ow'[v] = ow[v]
  BY <1>2, <1>4 DEF ArchiveInv, ArchiveTypes
<1>6. ArchiveTypes' /\ ArchiveOK' /\ Grows /\ SameApprovals
  BY <1>5, ArchiveStays DEF OLoad, ArchiveInv, ArchiveTypes
<1>7. OWorkerOK(ow[w], outbox, copied, record) /\ ow[w].pc = "claimed"
  BY DEF OLoad, ArchiveInv, OWorkersOK
<1>8. OWorkerOK(ow'[w], outbox', copied', record')
  BY <1>1, <1>4, <1>5, <1>7 DEF OLoad, OWorkerOK, flowVars, archiveVars
<1>9. OWorkersOK' /\ IWorkersOK'
  BY <1>5, <1>6, <1>8, OMoves DEF OLoad
<1> QED BY <1>6, <1>9 DEF StepOK, ArchiveInv

LEMMA StepOFind == ASSUME ArchiveInv, NEW w \in OWorkers, OFind(w) PROVE StepOK
<1> DEFINE pc == IF record[ow[w].d] = "none" THEN "inserting" ELSE "marking"
<1>1. pc \in OPc /\ ow' = [ow EXCEPT ![w].pc = pc]
  BY DEF OPc, OFind
<1> HIDE DEF pc
<1>2. /\ ow' \in [OWorkers -> OWorkerRow]
      /\ ow'[w].pc = pc /\ ow'[w].d = ow[w].d
      /\ \A v \in OWorkers : v # w => ow'[v] = ow[v]
  BY <1>1, OAdvances DEF ArchiveInv, ArchiveTypes
<1>3. ArchiveTypes' /\ ArchiveOK' /\ Grows /\ SameApprovals
  BY <1>2, ArchiveStays DEF OFind, ArchiveInv, ArchiveTypes
<1>4. OWorkerOK(ow[w], outbox, copied, record) /\ ow[w].pc = "copied"
  BY DEF OFind, ArchiveInv, OWorkersOK
<1>5. OWorkerOK(ow'[w], outbox', copied', record')
  BY <1>2, <1>4 DEF OFind, OWorkerOK, flowVars, archiveVars, pc
<1>6. OWorkersOK' /\ IWorkersOK'
  BY <1>2, <1>3, <1>5, OMoves DEF OFind
<1> QED BY <1>3, <1>6 DEF StepOK, ArchiveInv

LEMMA StepOCrash == ASSUME ArchiveInv, NEW w \in OWorkers, OCrash(w) PROVE StepOK
<1>1. /\ ow' \in [OWorkers -> OWorkerRow] /\ ow'[w].pc = "idle"
      /\ \A v \in OWorkers : v # w => ow'[v] = ow[v]
  BY OIsIdle DEF OCrash, ArchiveInv, ArchiveTypes
<1>2. ArchiveTypes' /\ ArchiveOK' /\ Grows /\ SameApprovals
  BY <1>1, FaultType, ArchiveStays DEF OCrash, ArchiveInv, ArchiveTypes
<1>3. OWorkersOK' /\ IWorkersOK'
  BY <1>1, <1>2, OMoves DEF OCrash, OWorkerOK
<1> QED BY <1>2, <1>3 DEF StepOK, ArchiveInv

LEMMA StepOCopy == ASSUME ArchiveInv, NEW w \in OWorkers, OCopy(w) PROVE StepOK
<1>1. "copied" \in OPc /\ ow' = [ow EXCEPT ![w].pc = "copied"]
  BY DEF OPc, OCopy
<1>2. /\ ow' \in [OWorkers -> OWorkerRow]
      /\ ow'[w].pc = "copied" /\ ow'[w].d = ow[w].d
      /\ \A v \in OWorkers : v # w => ow'[v] = ow[v]
  BY <1>1, OAdvances DEF ArchiveInv, ArchiveTypes
<1>3. OWorkerOK(ow[w], outbox, copied, record) /\ ow[w].pc = "loaded"
  BY DEF OCopy, ArchiveInv, OWorkersOK
<1>4. copied' \in [Docs -> BOOLEAN] /\ copied'[ow[w].d] /\ \A d \in Docs : copied[d] => copied'[d]
  BY <1>3 DEF OCopy, OWorkerOK, ArchiveInv, ArchiveTypes
<1>5. ArchiveTypes'
  BY <1>2, <1>4 DEF OCopy, flowVars, ArchiveInv, ArchiveTypes
<1>6. ArchiveOK' /\ Grows /\ SameApprovals
  BY <1>4, <1>5, ArchiveGrows DEF OCopy, flowVars
<1>7. OWorkerOK(ow'[w], outbox', copied', record')
  BY <1>2, <1>3, <1>4 DEF OCopy, OWorkerOK, flowVars
<1>8. OWorkersOK' /\ IWorkersOK'
  BY <1>2, <1>6, <1>7, OMoves DEF OCopy
<1> QED BY <1>5, <1>6, <1>8 DEF StepOK, ArchiveInv

\* The three inserts of a new record.
LEMMA InsertedRows ==
    ASSUME ArchiveTypes, NEW d \in Docs, Inserted(d)
    PROVE  /\ record' \in [Docs -> RecordStatus] /\ text' \in [Docs -> TextStatus]
           /\ job' \in [Docs -> QueueRow(JobStatus)]
           /\ record'[d] = "queued"
           /\ \A o \in Docs : o # d => record'[o] = record[o] /\ job'[o] = job[o]
<1> DEFINE row == [NoJob EXCEPT !.status = "pending"]
<1>1. row \in QueueRow(JobStatus)
  BY NewJob
<1>2. job' = [job EXCEPT ![d] = row]
  BY DEF Inserted
<1> HIDE DEF row
<1> QED BY <1>1, <1>2 DEF Inserted, ArchiveTypes, RecordStatus, TextStatus

\* A worker inserts the record of its document, and goes on or loses the answer.
LEMMA InsertStep ==
    ASSUME ArchiveInv, NEW w \in OWorkers, NEW pc \in {"marking", "failing"},
           ow[w].pc = "inserting", Inserted(ow[w].d), ow' = [ow EXCEPT ![w].pc = pc],
           faults' \in 0 .. MaxFaults, UNCHANGED <<flowVars, copied, iw>>
    PROVE  StepOK
<1> DEFINE d == ow[w].d
<1>1. d \in Docs /\ outbox[d].status # "none" /\ copied[d]
  BY DEF ArchiveInv, OWorkersOK, OWorkerOK
<1>2. /\ ow' \in [OWorkers -> OWorkerRow] /\ ow'[w].pc = pc /\ ow'[w].d = d
      /\ \A v \in OWorkers : v # w => ow'[v] = ow[v]
  BY OAdvances DEF ArchiveInv, ArchiveTypes, OPc
<1>3. Inserted(d) /\ ArchiveTypes
  BY DEF ArchiveInv
<1> HIDE DEF d
<1>4. /\ record' \in [Docs -> RecordStatus] /\ text' \in [Docs -> TextStatus]
      /\ job' \in [Docs -> QueueRow(JobStatus)]
      /\ record'[d] = "queued"
      /\ \A o \in Docs : o # d => record'[o] = record[o] /\ job'[o] = job[o]
  BY <1>1, <1>3, InsertedRows
<1>5. ArchiveTypes'
  BY <1>2, <1>4 DEF ArchiveInv, ArchiveTypes, flowVars
<1>6. ArchiveOK' /\ Grows /\ SameApprovals
  BY <1>1, <1>4, <1>5, ArchiveGrows DEF flowVars
<1>7. OWorkerOK(ow'[w], outbox', copied', record')
  BY <1>1, <1>2, <1>4 DEF OWorkerOK, flowVars
<1>8. OWorkersOK' /\ IWorkersOK'
  BY <1>2, <1>6, <1>7, OMoves
<1> QED BY <1>5, <1>6, <1>8 DEF StepOK, ArchiveInv

\* A worker gives up this attempt and leaves everything else alone.
LEMMA FailingStep ==
    ASSUME ArchiveInv, NEW w \in OWorkers, ow[w].pc # "idle",
           ow' = [ow EXCEPT ![w].pc = "failing"],
           faults' \in 0 .. MaxFaults, UNCHANGED <<flowVars, archiveVars, iw>>
    PROVE  StepOK
<1>1. /\ ow' \in [OWorkers -> OWorkerRow] /\ ow'[w].pc = "failing" /\ ow'[w].d = ow[w].d
      /\ \A v \in OWorkers : v # w => ow'[v] = ow[v]
  BY OAdvances DEF ArchiveInv, ArchiveTypes, OPc
<1>2. ArchiveTypes' /\ ArchiveOK' /\ Grows /\ SameApprovals
  BY <1>1, ArchiveStays DEF ArchiveInv, ArchiveTypes
<1>3. OWorkerOK(ow'[w], outbox', copied', record')
  BY <1>1 DEF OWorkerOK, flowVars, archiveVars, ArchiveInv, OWorkersOK
<1>4. OWorkersOK' /\ IWorkersOK'
  BY <1>1, <1>2, <1>3, OMoves
<1> QED BY <1>2, <1>4 DEF StepOK, ArchiveInv

LEMMA StepOInsert == ASSUME ArchiveInv, NEW w \in OWorkers, OInsert(w) PROVE StepOK
<1>1. faults' \in 0 .. MaxFaults
  BY DEF OInsert, ArchiveInv, ArchiveTypes
<1>2. CASE record[ow[w].d] = "none"
  BY <1>1, <1>2, InsertStep DEF OInsert
<1>3. CASE record[ow[w].d] # "none"
  <2>1. UNCHANGED <<flowVars, archiveVars, iw>> /\ ow[w].pc # "idle"
    BY <1>3 DEF OInsert, archiveVars
  <2> QED BY <1>1, <1>3, <2>1, FailingStep DEF OInsert
<1> QED BY <1>2, <1>3

LEMMA StepOFault == ASSUME ArchiveInv, NEW w \in OWorkers, OFault(w) PROVE StepOK
<1>1. faults' \in 0 .. MaxFaults /\ ow[w].pc # "idle"
  BY FaultType DEF OFault, ArchiveInv
<1>2. CASE UNCHANGED archiveVars
  BY <1>1, <1>2, FailingStep DEF OFault
<1>3. CASE /\ ow[w].pc = "loaded" /\ copied' = [copied EXCEPT ![ow[w].d] = TRUE]
           /\ UNCHANGED <<record, text, job>>
  <2>1. /\ ow' \in [OWorkers -> OWorkerRow] /\ ow'[w].pc = "failing" /\ ow'[w].d = ow[w].d
        /\ \A v \in OWorkers : v # w => ow'[v] = ow[v]
    BY OAdvances DEF OFault, ArchiveInv, ArchiveTypes, OPc
  <2>2. OWorkerOK(ow[w], outbox, copied, record)
    BY DEF ArchiveInv, OWorkersOK
  <2>3. copied' \in [Docs -> BOOLEAN] /\ \A d \in Docs : copied[d] => copied'[d]
    BY <1>3 DEF ArchiveInv, ArchiveTypes
  <2>4. ArchiveTypes'
    BY <1>1, <1>3, <2>1, <2>3 DEF OFault, flowVars, ArchiveInv, ArchiveTypes
  <2>5. ArchiveOK' /\ Grows /\ SameApprovals
    BY <1>3, <2>3, <2>4, ArchiveGrows DEF OFault, flowVars
  <2>6. OWorkerOK(ow'[w], outbox', copied', record')
    BY <1>3, <2>1, <2>2 DEF OFault, OWorkerOK, flowVars
  <2>7. OWorkersOK' /\ IWorkersOK'
    BY <2>1, <2>5, <2>6, OMoves DEF OFault
  <2> QED BY <2>4, <2>5, <2>7 DEF StepOK, ArchiveInv
<1>4. CASE ow[w].pc = "inserting" /\ Inserted(ow[w].d) /\ UNCHANGED copied
  BY <1>1, <1>4, InsertStep DEF OFault
<1> QED BY <1>2, <1>3, <1>4 DEF OFault

LEMMA OutboxWorkerStep ==
    ASSUME ArchiveInv, NEW w \in OWorkers, OStep(w) \/ OFault(w) \/ OCrash(w) PROVE StepOK
<1>1. CASE OLoad(w) \/ OFault(w) \/ OCrash(w)
  BY <1>1, StepOLoad, StepOFault, StepOCrash
<1>2. CASE OCopy(w) \/ OFind(w) \/ OInsert(w)
  BY <1>2, StepOCopy, StepOFind, StepOInsert
<1>3. CASE OMark(w)
  <2>1. record[ow[w].d] # "none" /\ ow[w].pc # "idle" /\ ODone(w, "delivered")
    BY <1>3 DEF OMark, ArchiveInv, OWorkersOK, OWorkerOK
  <2> QED BY <2>1, StepODone DEF OutboxStatus
<1>4. CASE OFail(w)
  <2>1. PICK status \in {"failed", "pending"} : ODone(w, status) /\ ow[w].pc # "idle"
    BY <1>4 DEF OFail
  <2> QED BY <2>1, StepODone DEF OutboxStatus
<1> QED BY <1>1, <1>2, <1>3, <1>4 DEF OStep

-----------------------------------------------------------------------------
(* The steps of the extraction: records come and go between states but     *)
(* none disappears, and jobs only of records change.                       *)

\* What all of them have in common, for the document d of a worker or of an operator.
ArchiveOf(d) ==
    /\ record[d] # "none"
    /\ record' \in [Docs -> RecordStatus] /\ text' \in [Docs -> TextStatus]
    /\ job' \in [Docs -> QueueRow(JobStatus)]
    /\ record'[d] # "none" /\ (\A o \in Docs : o # d => record'[o] = record[o])
    /\ \A o \in Docs : o # d => (job'[o].status # "none" => job[o].status # "none")
    /\ UNCHANGED <<flowVars, copied, ow>>
    /\ faults' \in 0 .. MaxFaults

LEMMA ArchiveOfKeeps ==
    ASSUME ArchiveInv, NEW d \in Docs, ArchiveOf(d), iw' \in [IWorkers -> IWorkerRow]
    PROVE  ArchiveTypes' /\ ArchiveOK' /\ Grows /\ SameApprovals
<1>1. ArchiveTypes'
  BY DEF ArchiveOf, ArchiveInv, ArchiveTypes, flowVars
<1>2. /\ UNCHANGED <<doc, pdf, events, editor, outbox>>
      /\ \A o \in Docs :
           /\ copied[o] => copied'[o]
           /\ record[o] # "none" => record'[o] # "none"
           /\ record'[o] # "none" =>
                record[o] # "none" \/ (copied'[o] /\ outbox[o].status # "none")
           /\ job'[o].status # "none" => job[o].status # "none" \/ record'[o] # "none"
  BY DEF ArchiveOf, flowVars
<1> QED BY <1>1, <1>2, ArchiveGrows

\* A worker goes on with its document, or finishes.
LEMMA IStepKeeps ==
    ASSUME ArchiveInv, NEW w \in IWorkers, NEW d \in Docs, ArchiveOf(d),
           iw' \in [IWorkers -> IWorkerRow], \A v \in IWorkers : v # w => iw'[v] = iw[v],
           \/ iw'[w].pc # "idle" /\ iw'[w].d = d
           \/ iw'[w].pc = "idle" /\ iw'[w].d = NoDoc
    PROVE  StepOK
<1>1. ArchiveTypes' /\ ArchiveOK' /\ Grows /\ SameApprovals
  BY ArchiveOfKeeps
<1>2. IWorkerOK(iw'[w], record')
  BY DEF IWorkerOK, ArchiveOf
<1>3. OWorkersOK' /\ IWorkersOK'
  BY <1>1, <1>2, IMoves DEF ArchiveOf
<1> QED BY <1>1, <1>3 DEF StepOK, ArchiveInv

\* An operator or the time changes the row of a document.
LEMMA IRowKeeps ==
    ASSUME ArchiveInv, NEW d \in Docs, ArchiveOf(d), UNCHANGED iw
    PROVE  StepOK
<1>1. ArchiveTypes' /\ ArchiveOK' /\ Grows /\ SameApprovals
  BY ArchiveOfKeeps DEF ArchiveInv, ArchiveTypes
<1>2. OWorkersOK' /\ IWorkersOK'
  BY <1>1, NobodyMoves DEF ArchiveOf
<1> QED BY <1>1, <1>2 DEF StepOK, ArchiveInv

LEMMA StepILeaseAges == ASSUME ArchiveInv, NEW d \in Docs, ILeaseAges(d) PROVE StepOK
<1> DEFINE row == [job[d] EXCEPT !.stale = TRUE]
<1>1. row \in QueueRow(JobStatus)
  BY DEF ArchiveInv, ArchiveTypes, QueueRow
<1>2. job' = [job EXCEPT ![d] = row]
  BY DEF ILeaseAges
<1> HIDE DEF row
<1>3. record[d] # "none"
  BY DEF ILeaseAges, ArchiveInv, ArchiveOK
<1>4. ArchiveOf(d)
  BY <1>1, <1>2, <1>3 DEF ILeaseAges, ArchiveOf, ArchiveInv, ArchiveTypes
<1> QED BY <1>4, IRowKeeps DEF ILeaseAges

LEMMA StepRetryJob == ASSUME ArchiveInv, NEW d \in Docs, RetryJob(d) PROVE StepOK
<1> DEFINE row == [NoJob EXCEPT !.status = "pending"]
<1>1. row \in QueueRow(JobStatus)
  BY NewJob
<1>2. job' = [job EXCEPT ![d] = row]
  BY DEF RetryJob
<1> HIDE DEF row
<1>3. record[d] # "none"
  BY DEF RetryJob, ArchiveInv, ArchiveOK
<1>4. ArchiveOf(d)
  BY <1>1, <1>2, <1>3
     DEF RetryJob, ArchiveOf, ArchiveInv, ArchiveTypes, RecordStatus, TextStatus
<1> QED BY <1>4, IRowKeeps DEF RetryJob

LEMMA StepIClaim ==
    ASSUME ArchiveInv, NEW w \in IWorkers, NEW d \in Docs, IClaim(w, d) PROVE StepOK
<1> DEFINE swept == Swept(job, "running")
           new   == [pc |-> "claimed", d |-> d,
                     attempts |-> Bump(swept[d].attempts), permanent |-> FALSE]
<1>1. job \in [Docs -> QueueRow(JobStatus)] /\ "pending" \in JobStatus /\ "running" \in JobStatus
  BY DEF ArchiveInv, ArchiveTypes, JobStatus
<1>2. /\ swept \in [Docs -> QueueRow(JobStatus)]
      /\ \A o \in Docs : \/ swept[o] = job[o]
                         \/ job[o].status = "running" /\ swept[o].status = "pending"
  BY <1>1, SweptRows
<1>3. job' = [swept EXCEPT ![d] = Taken(@, "running")]
  BY DEF IClaim
<1>4. /\ job' \in [Docs -> QueueRow(JobStatus)]
      /\ Bump(swept[d].attempts) \in 0 .. MaxAttempts
      /\ \A o \in Docs : o # d => job'[o] = swept[o]
  BY <1>1, <1>3, ClaimedRows
<1>5. swept[d].status = "pending"
  BY DEF IClaim, Claimable
<1>6. new \in IWorkerRow /\ new.pc = "claimed" /\ new.d = d
  BY <1>4 DEF IWorkerRow
<1>7. iw' = [iw EXCEPT ![w] = new]
  BY DEF IClaim
<1> HIDE DEF swept, new
<1>8. /\ iw' \in [IWorkers -> IWorkerRow] /\ iw'[w] = new
      /\ \A v \in IWorkers : v # w => iw'[v] = iw[v]
  BY <1>6, <1>7 DEF ArchiveInv, ArchiveTypes
<1>9. record[d] # "none"
  BY <1>2, <1>5 DEF ArchiveInv, ArchiveOK
<1>10. ArchiveOf(d)
  BY <1>2, <1>4, <1>9 DEF IClaim, ArchiveOf, ArchiveInv, ArchiveTypes
<1> QED BY <1>6, <1>8, <1>10, IStepKeeps

\* A worker that is not idle has a document with a record.
LEMMA IBusy ==
    ASSUME ArchiveInv, NEW w \in IWorkers, iw[w].pc # "idle"
    PROVE  iw[w].d \in Docs /\ record[iw[w].d] # "none"
BY DEF ArchiveInv, IWorkersOK, IWorkerOK

\* The result of an extraction.
LEMMA PersistedRows ==
    ASSUME ArchiveTypes, NEW d \in Docs, Persisted(d)
    PROVE  /\ record' \in [Docs -> RecordStatus] /\ text' \in [Docs -> TextStatus]
           /\ job' \in [Docs -> QueueRow(JobStatus)]
           /\ record'[d] = "ready" /\ text'[d] = "processed"
           /\ job'[d].status = "succeeded"
           /\ \A o \in Docs : o # d => /\ record'[o] = record[o] /\ text'[o] = text[o]
                                       /\ job'[o] = job[o]
<1> DEFINE row == [job[d] EXCEPT !.status = "succeeded", !.stale = FALSE]
<1>1. row \in QueueRow(JobStatus) /\ row.status = "succeeded"
  BY DEF ArchiveTypes, QueueRow, JobStatus
<1>2. job' = [job EXCEPT ![d] = row]
  BY DEF Persisted, ArchiveTypes
<1> HIDE DEF row
<1> QED BY <1>1, <1>2 DEF Persisted, ArchiveTypes, RecordStatus, TextStatus

LEMMA PersistedArchive ==
    ASSUME ArchiveInv, NEW d \in Docs, record[d] # "none", Persisted(d),
           UNCHANGED <<flowVars, copied, ow>>, faults' \in 0 .. MaxFaults
    PROVE  ArchiveOf(d)
<1>1. ArchiveTypes
  BY DEF ArchiveInv
<1>2. /\ record' \in [Docs -> RecordStatus] /\ text' \in [Docs -> TextStatus]
      /\ job' \in [Docs -> QueueRow(JobStatus)]
      /\ record'[d] = "ready"
      /\ \A o \in Docs : o # d => record'[o] = record[o] /\ job'[o] = job[o]
  BY <1>1, PersistedRows
<1> QED BY <1>2 DEF ArchiveOf

LEMMA StepIMark == ASSUME ArchiveInv, NEW w \in IWorkers, IMark(w) PROVE StepOK
<1>1. iw[w].d \in Docs /\ record[iw[w].d] # "none" /\ iw[w].pc = "claimed"
  BY IBusy DEF IMark
<1>2. /\ iw' \in [IWorkers -> IWorkerRow] /\ iw'[w].pc = "extracting" /\ iw'[w].d = iw[w].d
      /\ \A v \in IWorkers : v # w => iw'[v] = iw[v]
  BY IAdvances DEF IMark, ArchiveInv, ArchiveTypes, IPc
<1>3. ArchiveOf(iw[w].d)
  BY <1>1 DEF IMark, ArchiveOf, ArchiveInv, ArchiveTypes, RecordStatus, TextStatus
<1> QED BY <1>1, <1>2, <1>3, IStepKeeps

LEMMA StepIPersist == ASSUME ArchiveInv, NEW w \in IWorkers, IPersist(w) PROVE StepOK
<1>1. iw[w].d \in Docs /\ record[iw[w].d] # "none"
  BY IBusy DEF IPersist
<1>2. /\ iw' \in [IWorkers -> IWorkerRow] /\ iw'[w].pc = "idle" /\ iw'[w].d = NoDoc
      /\ \A v \in IWorkers : v # w => iw'[v] = iw[v]
  BY IIsIdle DEF IPersist, ArchiveInv, ArchiveTypes
<1>3. ArchiveOf(iw[w].d)
  BY <1>1, PersistedArchive DEF IPersist, ArchiveInv, ArchiveTypes
<1> QED BY <1>1, <1>2, <1>3, IStepKeeps

\* A worker prepares to fail.
LEMMA IFailing ==
    ASSUME iw \in [IWorkers -> IWorkerRow], NEW w \in IWorkers, NEW permanent \in BOOLEAN,
           iw' = [iw EXCEPT ![w].pc = "failing", ![w].permanent = permanent]
    PROVE  /\ iw' \in [IWorkers -> IWorkerRow] /\ iw'[w].pc = "failing" /\ iw'[w].d = iw[w].d
           /\ \A v \in IWorkers : v # w => iw'[v] = iw[v]
<1> DEFINE new == [iw[w] EXCEPT !.pc = "failing", !.permanent = permanent]
<1>1. new \in IWorkerRow /\ new.pc = "failing" /\ new.d = iw[w].d
  BY DEF IWorkerRow
<1>2. iw' = [iw EXCEPT ![w] = new]
  OBVIOUS
<1> HIDE DEF new
<1> QED BY <1>1, <1>2

\* A step that leaves the archive alone.
LEMMA SameArchive ==
    ASSUME ArchiveInv, NEW d \in Docs, record[d] # "none",
           UNCHANGED <<flowVars, archiveVars, ow>>, faults' \in 0 .. MaxFaults
    PROVE  ArchiveOf(d)
BY DEF ArchiveOf, ArchiveInv, ArchiveTypes, archiveVars

LEMMA StepIReject == ASSUME ArchiveInv, NEW w \in IWorkers, IReject(w) PROVE StepOK
<1>1. iw[w].d \in Docs /\ record[iw[w].d] # "none"
  BY IBusy DEF IReject
<1>2. /\ iw' \in [IWorkers -> IWorkerRow] /\ iw'[w].pc = "failing" /\ iw'[w].d = iw[w].d
      /\ \A v \in IWorkers : v # w => iw'[v] = iw[v]
  BY IFailing DEF IReject, ArchiveInv, ArchiveTypes
<1>3. ArchiveOf(iw[w].d)
  BY <1>1, SameArchive DEF IReject, ArchiveInv, ArchiveTypes
<1> QED BY <1>1, <1>2, <1>3, IStepKeeps

LEMMA StepIFault == ASSUME ArchiveInv, NEW w \in IWorkers, IFault(w) PROVE StepOK
<1>1. iw[w].d \in Docs /\ record[iw[w].d] # "none" /\ faults' \in 0 .. MaxFaults
  BY IBusy, FaultType DEF IFault, ArchiveInv
<1>2. PICK permanent \in BOOLEAN :
          iw' = [iw EXCEPT ![w].pc = "failing", ![w].permanent = permanent]
  BY DEF IFault
<1>3. /\ iw' \in [IWorkers -> IWorkerRow] /\ iw'[w].pc = "failing" /\ iw'[w].d = iw[w].d
      /\ \A v \in IWorkers : v # w => iw'[v] = iw[v]
  BY <1>2, IFailing DEF ArchiveInv, ArchiveTypes
<1>4. ArchiveOf(iw[w].d)
  <2>1. UNCHANGED <<flowVars, copied, ow>>
    BY DEF IFault
  <2>2. CASE UNCHANGED <<record, text, job>>
    BY <1>1, <2>1, <2>2, SameArchive DEF archiveVars
  <2>3. CASE Persisted(iw[w].d)
    BY <1>1, <2>1, <2>3, PersistedArchive
  <2> QED BY <2>2, <2>3 DEF IFault
<1> QED BY <1>1, <1>3, <1>4, IStepKeeps

LEMMA StepIFail == ASSUME ArchiveInv, NEW w \in IWorkers, IFail(w) PROVE StepOK
<1> DEFINE d      == iw[w].d
           status == IF GivesUp(w) THEN "failed" ELSE "pending"
           row    == [job[d] EXCEPT !.status = status, !.stale = FALSE]
<1>1. d \in Docs /\ record[d] # "none"
  BY IBusy DEF IFail, FailedJob
<1>2. status \in JobStatus
  BY DEF JobStatus
<1>3. job' = [job EXCEPT ![d] = row]
  BY DEF IFail, FailedJob, ArchiveInv, ArchiveTypes
<1>4. /\ iw' \in [IWorkers -> IWorkerRow] /\ iw'[w].pc = "failing_record" /\ iw'[w].d = d
      /\ \A v \in IWorkers : v # w => iw'[v] = iw[v]
  BY IAdvances DEF IFail, FailedJob, ArchiveInv, ArchiveTypes, IPc
<1> HIDE DEF d, status
<1>5. row \in QueueRow(JobStatus)
  BY <1>1, <1>2 DEF ArchiveInv, ArchiveTypes, QueueRow
<1>6. UNCHANGED <<flowVars, copied, record, text, ow, faults>>
  BY DEF IFail, FailedJob
<1> HIDE DEF row
<1>7. ArchiveOf(d)
  BY <1>1, <1>3, <1>5, <1>6 DEF ArchiveOf, ArchiveInv, ArchiveTypes
<1> QED BY <1>1, <1>4, <1>7, IStepKeeps

LEMMA StepIFailRecord == ASSUME ArchiveInv, NEW w \in IWorkers, IFailRecord(w) PROVE StepOK
<1>1. iw[w].d \in Docs /\ record[iw[w].d] # "none"
  BY IBusy DEF IFailRecord
<1>2. /\ iw' \in [IWorkers -> IWorkerRow] /\ iw'[w].pc = "failing_text" /\ iw'[w].d = iw[w].d
      /\ \A v \in IWorkers : v # w => iw'[v] = iw[v]
  BY IAdvances DEF IFailRecord, ArchiveInv, ArchiveTypes, IPc
<1>3. PICK status \in {"failed", "queued"} : record' = [record EXCEPT ![iw[w].d] = status]
  BY DEF IFailRecord
<1>4. ArchiveOf(iw[w].d)
  BY <1>1, <1>3 DEF IFailRecord, ArchiveOf, ArchiveInv, ArchiveTypes, RecordStatus
<1> QED BY <1>1, <1>2, <1>4, IStepKeeps

LEMMA StepIFailUnrecorded ==
    ASSUME ArchiveInv, NEW w \in IWorkers, IFailUnrecorded(w) PROVE StepOK
<1>1. iw[w].d \in Docs /\ record[iw[w].d] # "none" /\ faults' \in 0 .. MaxFaults
  BY IBusy, FaultType DEF IFailUnrecorded, ArchiveInv
<1>2. /\ iw' \in [IWorkers -> IWorkerRow] /\ iw'[w].pc = "failing_text" /\ iw'[w].d = iw[w].d
      /\ \A v \in IWorkers : v # w => iw'[v] = iw[v]
  BY IAdvances DEF IFailUnrecorded, ArchiveInv, ArchiveTypes, IPc
<1>3. ArchiveOf(iw[w].d)
  BY <1>1, SameArchive DEF IFailUnrecorded
<1> QED BY <1>1, <1>2, <1>3, IStepKeeps

LEMMA StepIFailText == ASSUME ArchiveInv, NEW w \in IWorkers, IFailText(w) PROVE StepOK
<1>1. iw[w].d \in Docs /\ record[iw[w].d] # "none"
  BY IBusy DEF IFailText
<1>2. /\ iw' \in [IWorkers -> IWorkerRow] /\ iw'[w].pc = "idle" /\ iw'[w].d = NoDoc
      /\ \A v \in IWorkers : v # w => iw'[v] = iw[v]
  BY IIsIdle DEF IFailText, ArchiveInv, ArchiveTypes
<1>3. PICK status \in {"failed", "pending"} : text' = [text EXCEPT ![iw[w].d] = status]
  BY DEF IFailText
<1>4. ArchiveOf(iw[w].d)
  BY <1>1, <1>3 DEF IFailText, ArchiveOf, ArchiveInv, ArchiveTypes, TextStatus
<1> QED BY <1>1, <1>2, <1>4, IStepKeeps

LEMMA StepICrash == ASSUME ArchiveInv, NEW w \in IWorkers, ICrash(w) PROVE StepOK
<1>1. iw[w].d \in Docs /\ record[iw[w].d] # "none" /\ faults' \in 0 .. MaxFaults
  BY IBusy, FaultType DEF ICrash, ArchiveInv
<1>2. /\ iw' \in [IWorkers -> IWorkerRow] /\ iw'[w].pc = "idle" /\ iw'[w].d = NoDoc
      /\ \A v \in IWorkers : v # w => iw'[v] = iw[v]
  BY IIsIdle DEF ICrash, ArchiveInv, ArchiveTypes
<1>3. ArchiveOf(iw[w].d)
  BY <1>1, SameArchive DEF ICrash
<1> QED BY <1>1, <1>2, <1>3, IStepKeeps

LEMMA ExtractionStep ==
    ASSUME ArchiveInv, NEW w \in IWorkers,
           IStep(w) \/ IFault(w) \/ IFailUnrecorded(w) \/ ICrash(w)
    PROVE  StepOK
<1>1. CASE IMark(w) \/ IPersist(w) \/ IReject(w)
  BY <1>1, StepIMark, StepIPersist, StepIReject
<1>2. CASE IFail(w) \/ IFailRecord(w) \/ IFailText(w)
  BY <1>2, StepIFail, StepIFailRecord, StepIFailText
<1>3. CASE IFault(w) \/ IFailUnrecorded(w) \/ ICrash(w)
  BY <1>3, StepIFault, StepIFailUnrecorded, StepICrash
<1> QED BY <1>1, <1>2, <1>3 DEF IStep

-----------------------------------------------------------------------------
(* The whole: the histories of the flow, its outbox, and the archive.      *)

PipelineInv == HistoryInv /\ OutboxIsApproval /\ ArchiveInv

\* A user touches the outbox only to queue an approval.
LEMMA FlowQueues ==
    ASSUME FlowTypeOK, FlowNext
    PROVE  \/ UNCHANGED outbox
           \/ \E d \in Docs : outbox' = [outbox EXCEPT ![d] = Queued(@)]
<1>1. ASSUME NEW d \in Docs, WorkflowAction(d) \/ Cancel(d)
      PROVE  \/ UNCHANGED outbox
             \/ outbox' = [outbox EXCEPT ![d] = Queued(@)]
  <2>1. OneEvent(d)
    BY <1>1, WorkflowWritesOne, CancelWritesOne
  <2> QED BY <2>1 DEF OneEvent
<1> QED BY <1>1 DEF FlowNext, Create, Upload, LockExpires, EditorLoad, EditorStore

\* In the pipeline a new event has no attempt behind it.
LEMMA QueuedRow ==
    ASSUME NEW row \in QueueRow(OutboxStatus)
    PROVE  /\ Queued(row) \in QueueRow(OutboxStatus)
           /\ Queued(row) = row \/ Queued(row).status = "pending"
<1>1. 0 \in 0 .. MaxAttempts
  BY PipelineAssumption
<1>2. NoEvent \in QueueRow(OutboxStatus)
  BY <1>1 DEF NoEvent, QueueRow, OutboxStatus
<1>3. NoEvent \in QueueRow(OutboxStatus) =>
        LET new == [NoEvent EXCEPT !.status = "pending"] IN
        new \in QueueRow(OutboxStatus) /\ new.status = "pending"
  BY DEF QueueRow, OutboxStatus
<1> QED BY <1>2, <1>3 DEF Queued

LEMMA UserStep ==
    ASSUME ArchiveInv, FlowTypeOK, FlowNext, UNCHANGED <<archiveVars, ow, iw, faults>>
    PROVE  ArchiveInv'
<1>1. /\ outbox' \in [Docs -> QueueRow(OutboxStatus)]
      /\ \A d \in Docs : outbox'[d] = outbox[d] \/ outbox'[d].status = "pending"
  <2>1. outbox \in [Docs -> QueueRow(OutboxStatus)]
    BY DEF ArchiveInv, ArchiveTypes
  <2>2. CASE UNCHANGED outbox
    BY <2>1, <2>2
  <2>3. ASSUME NEW d \in Docs, outbox' = [outbox EXCEPT ![d] = Queued(@)]
        PROVE  /\ outbox' \in [Docs -> QueueRow(OutboxStatus)]
               /\ \A o \in Docs : outbox'[o] = outbox[o] \/ outbox'[o].status = "pending"
    <3> DEFINE row == Queued(outbox[d])
    <3>1. row \in QueueRow(OutboxStatus) /\ (row = outbox[d] \/ row.status = "pending")
      BY <2>1, QueuedRow
    <3>2. outbox' = [outbox EXCEPT ![d] = row]
      BY <2>3
    <3> HIDE DEF row
    <3> QED BY <2>1, <3>1, <3>2
  <2> QED BY <2>2, <2>3, FlowQueues
<1>2. ArchiveTypes'
  BY <1>1 DEF ArchiveInv, ArchiveTypes, archiveVars
<1>3. ArchiveOK' /\ Grows
  BY <1>1 DEF ArchiveInv, ArchiveOK, Grows, archiveVars
<1>4. OWorkersOK' /\ IWorkersOK'
  BY <1>3, NobodyMoves
<1> QED BY <1>2, <1>3, <1>4 DEF ArchiveInv

\* What the workers leave of the flow.
LEMMA FlowStays ==
    ASSUME FlowTypeOK, HistoryInv, OutboxIsApproval, SameApprovals, ArchiveTypes'
    PROVE  HistoryInv' /\ OutboxIsApproval'
<1>1. outbox' \in [Docs -> QueueRow(OutboxStatus)]
  BY DEF ArchiveTypes
<1>2. 0 .. MaxAttempts \subseteq Nat
  OBVIOUS
<1>3. QueueRow(OutboxStatus) \subseteq OutboxRow
  BY <1>2 DEF QueueRow, OutboxStatus, OutboxRow
<1>4. FlowTypeOK'
  BY <1>1, <1>3 DEF FlowTypeOK, SameApprovals
<1>5. HistoryInv'
  BY <1>4 DEF HistoryInv, SameApprovals
<1>6. OutboxIsApproval'
  BY DEF OutboxIsApproval, SameApprovals
<1> QED BY <1>5, <1>6

LEMMA PipelineStep == ASSUME PipelineInv, [PipelineNext]_pipelineVars PROVE PipelineInv'
<1>1. ArchiveInv /\ FlowTypeOK /\ HistoryInv /\ OutboxIsApproval
  BY DEF PipelineInv, HistoryInv
<1>2. ASSUME StepOK PROVE PipelineInv'
  <2>1. SameApprovals /\ ArchiveInv' /\ ArchiveTypes'
    BY <1>2 DEF StepOK, ArchiveInv
  <2> QED BY <1>1, <2>1, FlowStays DEF PipelineInv
<1>3. CASE FlowNext /\ UNCHANGED <<archiveVars, ow, iw, faults>>
  <2>1. ArchiveInv'
    BY <1>1, <1>3, UserStep
  <2>2. HistoryInv' /\ OutboxInv'
    BY <1>1, <1>3, HistoryStep, OutboxStep DEF OutboxInv
  <2> QED BY <2>1, <2>2 DEF PipelineInv, OutboxInv
<1>4. ASSUME NEW w \in OWorkers, NEW d \in Docs, OClaim(w, d) PROVE PipelineInv'
  BY <1>1, <1>2, <1>4, StepOClaim
<1>5. ASSUME NEW w \in OWorkers, OStep(w) \/ OFault(w) \/ OCrash(w) PROVE PipelineInv'
  BY <1>1, <1>2, <1>5, OutboxWorkerStep
<1>6. ASSUME NEW w \in IWorkers, NEW d \in Docs, IClaim(w, d) PROVE PipelineInv'
  BY <1>1, <1>2, <1>6, StepIClaim
<1>7. ASSUME NEW w \in IWorkers, IStep(w) \/ IFault(w) \/ IFailUnrecorded(w) \/ ICrash(w)
      PROVE  PipelineInv'
  BY <1>1, <1>2, <1>7, ExtractionStep
<1>8. ASSUME NEW d \in Docs, OLeaseAges(d) \/ ILeaseAges(d) \/ RetryJob(d) PROVE PipelineInv'
  BY <1>1, <1>2, <1>8, StepOLeaseAges, StepILeaseAges, StepRetryJob
<1>9. CASE UNCHANGED pipelineVars
  <2>1. Grows /\ SameApprovals
    BY <1>9 DEF pipelineVars, flowVars, archiveVars, Grows, SameApprovals
  <2>2. ArchiveTypes' /\ ArchiveOK'
    BY <1>1, <1>9 DEF pipelineVars, flowVars, archiveVars, ArchiveInv, ArchiveTypes, ArchiveOK
  <2>3. OWorkersOK' /\ IWorkersOK'
    BY <1>1, <1>9, <2>1, NobodyMoves DEF pipelineVars
  <2> QED BY <1>2, <2>1, <2>2, <2>3 DEF StepOK, ArchiveInv
<1> QED BY <1>3, <1>4, <1>5, <1>6, <1>7, <1>8, <1>9 DEF PipelineNext

LEMMA PipelineStart == PipelineInit => PipelineInv
<1> SUFFICES ASSUME PipelineInit PROVE PipelineInv
  OBVIOUS
<1>1. HistoryInv /\ OutboxIsApproval
  BY HistoryInit, OutboxInit DEF PipelineInit, OutboxInv
<1>2. NoEvent \in QueueRow(OutboxStatus) /\ NoJob \in QueueRow(JobStatus)
  <2>1. 0 \in 0 .. MaxAttempts
    BY PipelineAssumption
  <2> QED BY <2>1 DEF NoEvent, NoJob, QueueRow, OutboxStatus, JobStatus
<1>3. NoEvent.status = "none" /\ NoJob.status = "none"
  BY DEF NoEvent, NoJob
<1>4. MaxFaults \in 0 .. MaxFaults
  BY PipelineAssumption
<1>5. ArchiveTypes
  BY <1>2, <1>4, IdleRows
     DEF PipelineInit, FlowInit, ArchiveTypes, RecordStatus, TextStatus
<1>6. ArchiveOK
  BY <1>3 DEF PipelineInit, FlowInit, ArchiveOK
<1>7. OWorkersOK /\ IWorkersOK
  BY IdleRows DEF PipelineInit, OWorkersOK, OWorkerOK, IWorkersOK, IWorkerOK
<1> QED BY <1>1, <1>5, <1>6, <1>7 DEF PipelineInv, ArchiveInv

\* The inductive invariant of the pipeline.
THEOREM PipelineInvariant == PipelineSpec => []PipelineInv
BY PipelineStart, PipelineStep, PTL DEF PipelineSpec

\* Rows of both queues keep their types and their attempts the limit.
THEOREM PipelineTypesHold == PipelineSpec => []PipelineTypeOK
<1>1. PipelineInv => PipelineTypeOK
  BY PipelineTypes DEF PipelineInv, HistoryInv, ArchiveInv
<1> QED BY <1>1, PipelineInvariant, PTL

\* persistArchiveRecord and the guarded update of the outbox: a delivery reported as
\* done has its record, and every record its object and an approval.
THEOREM DeliveriesAreArchived == PipelineSpec => []DeliveredIsArchived
<1>1. PipelineInv => DeliveredIsArchived
  BY DEF PipelineInv, ArchiveInv, ArchiveOK, OutboxIsApproval, DeliveredIsArchived
<1> QED BY <1>1, PipelineInvariant, PTL

\* The workers do not disturb what the flow promises.
THEOREM PipelineKeepsFourEyes == PipelineSpec => [](FourEyes /\ OutboxIsApproval)
<1>1. PipelineInv => FourEyes /\ OutboxIsApproval
  BY HistoryImplies DEF PipelineInv
<1> QED BY <1>1, PipelineInvariant, PTL

-----------------------------------------------------------------------------
(* A delivery stays.                                                       *)

Delivered == \A d \in Docs : outbox[d].status = "delivered" => outbox'[d].status = "delivered"

LEMMA DeliveredStays == ASSUME ArchiveTypes, FlowTypeOK, [PipelineNext]_pipelineVars PROVE Delivered
<1>1. outbox \in [Docs -> QueueRow(OutboxStatus)]
  BY DEF ArchiveTypes
<1>2. ASSUME UNCHANGED outbox PROVE Delivered
  BY <1>2 DEF Delivered
<1>3. CASE FlowNext
  <2>1. ASSUME NEW d \in Docs, outbox' = [outbox EXCEPT ![d] = Queued(@)] PROVE Delivered
    BY <1>1, <2>1 DEF Queued, Delivered
  <2> QED BY <1>2, <1>3, <2>1, FlowQueues
<1>4. ASSUME NEW w \in OWorkers, NEW d \in Docs, OClaim(w, d) PROVE Delivered
  <2> DEFINE swept == Swept(outbox, "processing")
  <2>1. "pending" \in OutboxStatus
    BY DEF OutboxStatus
  <2>2. /\ swept \in [Docs -> QueueRow(OutboxStatus)]
        /\ \A o \in Docs : swept[o] = outbox[o] \/ outbox[o].status = "processing"
    BY <1>1, <2>1, SweptRows
  <2>3. swept[d].status = "pending" /\ outbox' = [swept EXCEPT ![d] = Taken(@, "processing")]
    BY <1>4 DEF OClaim
  <2> HIDE DEF swept
  <2>4. \A o \in Docs : o # d => outbox'[o] = swept[o]
    BY <2>2, <2>3
  <2> QED BY <2>2, <2>3, <2>4 DEF Delivered
<1>5. ASSUME NEW w \in OWorkers, NEW status \in OutboxStatus, ODone(w, status) PROVE Delivered
  <2>1. outbox' = [outbox EXCEPT ![ow[w].d] = Marked(@, status)]
    BY <1>5 DEF ODone
  <2> QED BY <1>1, <2>1 DEF Marked, Delivered
<1>6. ASSUME NEW w \in OWorkers, OStep(w) \/ OFault(w) \/ OCrash(w) PROVE Delivered
  <2>1. CASE OMark(w) \/ OFail(w)
    <3>1. PICK status \in {"delivered", "failed", "pending"} : ODone(w, status)
      BY <2>1 DEF OMark, OFail
    <3> QED BY <1>5, <3>1 DEF OutboxStatus
  <2>2. CASE OLoad(w) \/ OCopy(w) \/ OFind(w) \/ OInsert(w) \/ OFault(w) \/ OCrash(w)
    BY <1>2, <2>2 DEF OLoad, OCopy, OFind, OInsert, OFault, OCrash, flowVars
  <2> QED BY <1>6, <2>1, <2>2 DEF OStep
<1>7. ASSUME NEW w \in IWorkers,
             IStep(w) \/ IFault(w) \/ IFailUnrecorded(w) \/ ICrash(w) \/ \E d \in Docs : IClaim(w, d)
      PROVE  Delivered
  <2>1. UNCHANGED flowVars
    BY <1>7 DEF IStep, IMark, IPersist, IReject, IFail, FailedJob, IFailRecord, IFailText, IFault,
                IFailUnrecorded, ICrash, IClaim
  <2> QED BY <1>2, <2>1 DEF flowVars
<1>8. ASSUME NEW d \in Docs, OLeaseAges(d) \/ ILeaseAges(d) \/ RetryJob(d) PROVE Delivered
  <2>1. CASE OLeaseAges(d)
    BY <1>1, <2>1 DEF OLeaseAges, Delivered
  <2>2. CASE ILeaseAges(d) \/ RetryJob(d)
    BY <1>2, <2>2 DEF ILeaseAges, RetryJob, flowVars
  <2> QED BY <1>8, <2>1, <2>2
<1>9. CASE UNCHANGED pipelineVars
  BY <1>2, <1>9 DEF pipelineVars, flowVars
<1> QED BY <1>3, <1>4, <1>6, <1>7, <1>8, <1>9 DEF PipelineNext

\* "and status='processing'" in the worker's last update: nobody reopens a delivery.
THEOREM DeliveriesAreFinal == PipelineSpec => DeliveryIsFinal
<1>1. PipelineInv /\ [PipelineNext]_pipelineVars
        => [\A d \in Docs : outbox[d].status = "delivered"
                              => outbox'[d].status = "delivered"]_pipelineVars
  BY DeliveredStays DEF PipelineInv, HistoryInv, ArchiveInv, Delivered
<1> QED BY <1>1, PipelineInvariant, PTL DEF PipelineSpec, DeliveryIsFinal

-----------------------------------------------------------------------------
(* Extractions within their lease: each document has one worker, whose     *)
(* position tells the status of the job.                                   *)

JobFits(pc, row) ==
    pc # "idle" =>
        /\ row.stale = FALSE
        /\ pc \in {"claimed", "extracting"} => row.status = "running"
        /\ pc = "failing" => row.status \in {"running", "succeeded"}
        /\ pc \in {"failing_record", "failing_text"} => row.status \in {"pending", "failed"}

InTime == \A d \in Docs : ~Overtaken(d)

Nobody(d)  == \A v \in IWorkers : iw[v].d # d
Alone(w, d) == \A v \in IWorkers : v # w => iw[v].d # d

SoleInv ==
    /\ \A w \in IWorkers : iw[w].pc # "idle" =>
          JobFits(iw[w].pc, job[iw[w].d]) /\ Alone(w, iw[w].d)
    /\ SucceededIsReady

\* The rows of the other documents; the sweep takes back what nobody works at.
OthersStay(d) ==
    \A o \in Docs : o # d =>
        /\ record'[o] = record[o] /\ text'[o] = text[o]
        /\ \/ job'[o] = job[o]
           \/ job[o].stale /\ job'[o].status = "pending"

Readied(d) == job'[d].status = "succeeded" => record'[d] = "ready" /\ text'[d] = "processed"

LEMMA OthersReady ==
    ASSUME SoleInv, NEW d \in Docs, OthersStay(d), Readied(d) PROVE SucceededIsReady'
BY DEF SoleInv, OthersStay, Readied, SucceededIsReady

LEMMA SoleMoves ==
    ASSUME ArchiveInv, SoleInv, NEW w \in IWorkers, NEW d \in Docs, Alone(w, d),
           OthersStay(d), Readied(d), \A v \in IWorkers : v # w => iw'[v] = iw[v],
           \/ iw'[w].pc = "idle" /\ iw'[w].d = NoDoc
           \/ iw'[w].d = d /\ JobFits(iw'[w].pc, job'[d])
    PROVE  SoleInv'
<1>1. SucceededIsReady'
  BY OthersReady
<1>2. \A v \in IWorkers : iw[v].pc # "idle" => iw[v].d \in Docs
  BY DEF ArchiveInv, IWorkersOK, IWorkerOK
<1>3. NoDoc \notin Docs
  BY FlowAssumption
<1>4. ASSUME NEW v \in IWorkers, iw'[v].pc # "idle"
      PROVE  JobFits(iw'[v].pc, job'[iw'[v].d]) /\ Alone(v, iw[v].d)'
  <2>1. CASE v = w
    BY <1>4, <2>1 DEF Alone
  <2>2. CASE v # w
    <3>1. iw'[v] = iw[v] /\ iw[v].d \in Docs /\ iw[v].d # d
      BY <1>2, <1>4, <2>2 DEF Alone
    <3>2. JobFits(iw[v].pc, job[iw[v].d]) /\ Alone(v, iw[v].d)
      BY <1>4, <3>1 DEF SoleInv
    <3>3. job'[iw[v].d] = job[iw[v].d]
      <4>1. job[iw[v].d].stale = FALSE
        BY <1>4, <3>1, <3>2 DEF JobFits
      <4> QED BY <3>1, <4>1 DEF OthersStay
    <3>4. Alone(v, iw[v].d)'
      BY <1>3, <3>1, <3>2 DEF Alone
    <3> QED BY <3>1, <3>2, <3>3, <3>4
  <2> QED BY <2>1, <2>2
<1> QED BY <1>1, <1>4 DEF SoleInv

LEMMA NobodyWorks ==
    ASSUME ArchiveInv, SoleInv, NEW d \in Docs, Nobody(d), OthersStay(d), Readied(d),
           UNCHANGED iw
    PROVE  SoleInv'
<1>1. SucceededIsReady'
  BY OthersReady
<1>2. ASSUME NEW v \in IWorkers, iw[v].pc # "idle"
      PROVE  JobFits(iw[v].pc, job'[iw[v].d]) /\ Alone(v, iw[v].d)
  <2>1. iw[v].d \in Docs /\ iw[v].d # d
    BY <1>2 DEF ArchiveInv, IWorkersOK, IWorkerOK, Nobody
  <2>2. JobFits(iw[v].pc, job[iw[v].d]) /\ Alone(v, iw[v].d)
    BY <1>2 DEF SoleInv
  <2>3. job[iw[v].d].stale = FALSE
    BY <1>2, <2>2 DEF JobFits
  <2> QED BY <2>1, <2>2, <2>3 DEF OthersStay
<1> QED BY <1>1, <1>2 DEF SoleInv, Alone

LEMMA SoleStays ==
    ASSUME SoleInv, UNCHANGED <<record, text, job, iw>> PROVE SoleInv'
BY DEF SoleInv, SucceededIsReady, Alone

\* A busy worker is alone with its document.
LEMMA BusyAlone ==
    ASSUME ArchiveInv, SoleInv, NEW w \in IWorkers, iw[w].pc # "idle"
    PROVE  /\ iw[w].d \in Docs /\ Alone(w, iw[w].d) /\ JobFits(iw[w].pc, job[iw[w].d])
BY IBusy DEF SoleInv

LEMMA SoleClaim ==
    ASSUME InTime', ArchiveInv, SoleInv, NEW w \in IWorkers, NEW d \in Docs,
           IClaim(w, d)
    PROVE  SoleInv'
<1> DEFINE swept == Swept(job, "running")
           new   == [pc |-> "claimed", d |-> d,
                     attempts |-> Bump(swept[d].attempts), permanent |-> FALSE]
<1>1. job \in [Docs -> QueueRow(JobStatus)] /\ "pending" \in JobStatus /\ "running" \in JobStatus
  BY DEF ArchiveInv, ArchiveTypes, JobStatus
<1>2. /\ swept \in [Docs -> QueueRow(JobStatus)]
      /\ \A o \in Docs :
           \/ swept[o] = job[o]
           \/ job[o].status = "running" /\ job[o].stale /\ swept[o].status = "pending"
  BY <1>1, SweptRows
<1>3. job' = [swept EXCEPT ![d] = Taken(@, "running")]
  BY DEF IClaim
<1>4. /\ job' \in [Docs -> QueueRow(JobStatus)]
      /\ job'[d].status = "running" /\ ~job'[d].stale
      /\ \A o \in Docs : o # d => job'[o] = swept[o]
  BY <1>1, <1>3, ClaimedRows
<1>6. /\ iw' = [iw EXCEPT ![w] = new] /\ iw \in [IWorkers -> IWorkerRow]
      /\ UNCHANGED <<record, text>>
  BY DEF IClaim, ArchiveInv, ArchiveTypes
<1>7. new.pc = "claimed" /\ new.d = d
  OBVIOUS
<1> HIDE DEF swept, new
<1>8. iw'[w] = new /\ \A v \in IWorkers : v # w => iw'[v] = iw[v]
  BY <1>6
<1>9. Alone(w, d)
  BY <1>7, <1>8 DEF InTime, Overtaken, Alone
<1>10. job'[d].stale = FALSE
  BY <1>4 DEF QueueRow
<1>11. OthersStay(d)
  BY <1>2, <1>4, <1>6 DEF OthersStay
<1>12. Readied(d)
  BY <1>4 DEF Readied
<1>13. JobFits(iw'[w].pc, job'[d]) /\ iw'[w].d = d
  BY <1>4, <1>7, <1>8, <1>10 DEF JobFits
<1> QED BY <1>8, <1>9, <1>11, <1>12, <1>13, SoleMoves

\* The other rows stay in every step of a worker after its claim.
LEMMA RestStays ==
    ASSUME ArchiveInv, NEW d \in Docs,
           \A o \in Docs : o # d => /\ record'[o] = record[o] /\ text'[o] = text[o]
                                    /\ job'[o] = job[o]
    PROVE  OthersStay(d)
BY DEF OthersStay

LEMMA SolePersist ==
    ASSUME ArchiveInv, SoleInv, NEW w \in IWorkers, iw[w].pc = "extracting", Persisted(iw[w].d),
           \A v \in IWorkers : v # w => iw'[v] = iw[v],
           \/ iw'[w].pc = "idle" /\ iw'[w].d = NoDoc
           \/ iw'[w].pc = "failing" /\ iw'[w].d = iw[w].d
    PROVE  SoleInv'
<1> DEFINE d == iw[w].d
<1>1. d \in Docs /\ Alone(w, d)
  BY BusyAlone
<1>2. ArchiveTypes /\ Persisted(d)
  BY DEF ArchiveInv
<1>3. \/ iw'[w].pc = "idle" /\ iw'[w].d = NoDoc
      \/ iw'[w].pc = "failing" /\ iw'[w].d = d
  OBVIOUS
<1>4. job' = [job EXCEPT ![d].status = "succeeded", ![d].stale = FALSE]
  BY <1>2 DEF Persisted
<1> HIDE DEF d
<1>5. /\ record'[d] = "ready" /\ text'[d] = "processed" /\ job'[d].status = "succeeded"
      /\ \A o \in Docs : o # d => /\ record'[o] = record[o] /\ text'[o] = text[o]
                                  /\ job'[o] = job[o]
  BY <1>1, <1>2, PersistedRows
<1>6. job'[d].stale = FALSE
  BY <1>1, <1>2, <1>4 DEF ArchiveTypes, QueueRow
<1>7. OthersStay(d) /\ Readied(d)
  BY <1>1, <1>5, RestStays DEF Readied
<1>8. JobFits("failing", job'[d])
  BY <1>5, <1>6 DEF JobFits
<1> QED BY <1>1, <1>3, <1>7, <1>8, SoleMoves

\* A worker goes on without touching the job.
LEMMA SoleAdvances ==
    ASSUME ArchiveInv, SoleInv, NEW w \in IWorkers, iw[w].pc # "idle", UNCHANGED job,
           \A o \in Docs : o # iw[w].d => record'[o] = record[o] /\ text'[o] = text[o],
           \/ UNCHANGED <<record, text>>
           \/ job[iw[w].d].status # "succeeded",
           \A v \in IWorkers : v # w => iw'[v] = iw[v],
           \/ iw'[w].pc = "idle" /\ iw'[w].d = NoDoc
           \/ iw'[w].d = iw[w].d /\ JobFits(iw'[w].pc, job[iw[w].d])
    PROVE  SoleInv'
<1> DEFINE d == iw[w].d
<1>1. d \in Docs /\ Alone(w, d)
  BY BusyAlone
<1>2. OthersStay(d)
  BY <1>1, RestStays
<1>3. Readied(d)
  BY <1>1 DEF Readied, SoleInv, SucceededIsReady
<1>4. \/ iw'[w].pc = "idle" /\ iw'[w].d = NoDoc
      \/ iw'[w].d = d /\ JobFits(iw'[w].pc, job'[d])
  OBVIOUS
<1> HIDE DEF d
<1> QED BY <1>1, <1>2, <1>3, <1>4, SoleMoves

LEMMA SoleIStep ==
    ASSUME ArchiveInv, SoleInv, NEW w \in IWorkers,
           IStep(w) \/ IFault(w) \/ IFailUnrecorded(w) \/ ICrash(w)
    PROVE  SoleInv'
<1>1. /\ iw \in [IWorkers -> IWorkerRow] /\ record \in [Docs -> RecordStatus]
      /\ text \in [Docs -> TextStatus]
  BY DEF ArchiveInv, ArchiveTypes
<1>2. CASE IMark(w)
  <2>1. iw[w].d \in Docs /\ JobFits("claimed", job[iw[w].d]) /\ iw[w].pc = "claimed"
    BY <1>2, BusyAlone DEF IMark
  <2>2. /\ iw'[w].pc = "extracting" /\ iw'[w].d = iw[w].d
        /\ \A v \in IWorkers : v # w => iw'[v] = iw[v]
    BY <1>1, <1>2, IAdvances DEF IMark, IPc
  <2>3. JobFits(iw'[w].pc, job[iw[w].d]) /\ job[iw[w].d].status # "succeeded"
    BY <2>1, <2>2 DEF JobFits
  <2>4. UNCHANGED job /\ \A o \in Docs : o # iw[w].d => record'[o] = record[o] /\ text'[o] = text[o]
    BY <1>1, <1>2, <2>1 DEF IMark
  <2> QED BY <2>1, <2>2, <2>3, <2>4, SoleAdvances
<1>3. CASE IPersist(w)
  <2>1. /\ iw'[w].pc = "idle" /\ iw'[w].d = NoDoc
        /\ \A v \in IWorkers : v # w => iw'[v] = iw[v]
    BY <1>1, <1>3, IIsIdle DEF IPersist
  <2> QED BY <1>3, <2>1, SolePersist DEF IPersist
<1>4. ASSUME NEW permanent \in BOOLEAN, iw[w].pc \in {"claimed", "extracting"},
             iw' = [iw EXCEPT ![w].pc = "failing", ![w].permanent = permanent]
      PROVE  /\ iw'[w].pc = "failing" /\ iw'[w].d = iw[w].d
             /\ \A v \in IWorkers : v # w => iw'[v] = iw[v]
             /\ UNCHANGED <<record, text, job>> => SoleInv'
  <2>1. /\ iw'[w].pc = "failing" /\ iw'[w].d = iw[w].d
        /\ \A v \in IWorkers : v # w => iw'[v] = iw[v]
    BY <1>1, <1>4, IFailing
  <2>2. JobFits(iw[w].pc, job[iw[w].d]) /\ iw[w].pc # "idle"
    BY <1>4, BusyAlone
  <2>3. JobFits(iw'[w].pc, job[iw[w].d])
    BY <1>4, <2>1, <2>2 DEF JobFits
  <2>4. ASSUME UNCHANGED <<record, text, job>> PROVE SoleInv'
    BY <2>1, <2>2, <2>3, <2>4, SoleAdvances
  <2> QED BY <2>1, <2>4
<1>5. CASE IReject(w)
  BY <1>4, <1>5 DEF IReject, archiveVars
<1>6. CASE IFault(w)
  <2>1. PICK permanent \in BOOLEAN :
            iw' = [iw EXCEPT ![w].pc = "failing", ![w].permanent = permanent]
    BY <1>6 DEF IFault
  <2>2. iw[w].pc \in {"claimed", "extracting"}
    BY <1>6 DEF IFault
  <2>3. CASE UNCHANGED <<record, text, job>>
    BY <1>4, <2>1, <2>2, <2>3
  <2>4. CASE iw[w].pc = "extracting" /\ Persisted(iw[w].d)
    BY <1>4, <2>1, <2>2, <2>4, SolePersist
  <2> QED BY <1>6, <2>3, <2>4 DEF IFault
<1>7. CASE IFail(w)
  <2> DEFINE d      == iw[w].d
             status == IF GivesUp(w) THEN "failed" ELSE "pending"
             row    == [job[d] EXCEPT !.status = status, !.stale = FALSE]
  <2>1. d \in Docs /\ Alone(w, d)
    BY <1>7, BusyAlone DEF IFail, FailedJob
  <2>2. status \in {"failed", "pending"}
    OBVIOUS
  <2>3. job' = [job EXCEPT ![d] = row] /\ UNCHANGED <<record, text>>
    BY <1>7 DEF IFail, FailedJob, ArchiveInv, ArchiveTypes
  <2>4. /\ iw'[w].pc = "failing_record" /\ iw'[w].d = d
        /\ \A v \in IWorkers : v # w => iw'[v] = iw[v]
    BY <1>1, <1>7, IAdvances DEF IFail, FailedJob, IPc
  <2> HIDE DEF d, status
  <2>5. row.status \in {"failed", "pending"} /\ row.stale = FALSE
    BY <2>1, <2>2 DEF ArchiveInv, ArchiveTypes, QueueRow
  <2> HIDE DEF row
  <2>6. job'[d] = row /\ \A o \in Docs : o # d => job'[o] = job[o]
    BY <2>1, <2>3 DEF ArchiveInv, ArchiveTypes
  <2>7. OthersStay(d) /\ Readied(d)
    BY <2>1, <2>3, <2>5, <2>6, RestStays DEF Readied
  <2>8. JobFits(iw'[w].pc, job'[d])
    BY <2>4, <2>5, <2>6 DEF JobFits
  <2> QED BY <2>1, <2>4, <2>7, <2>8, SoleMoves
<1>8. CASE IFailRecord(w) \/ IFailUnrecorded(w)
  <2>1. iw[w].pc = "failing_record"
    BY <1>8 DEF IFailRecord, IFailUnrecorded
  <2>2. iw[w].d \in Docs /\ JobFits("failing_record", job[iw[w].d])
    BY <2>1, BusyAlone
  <2>3. /\ iw'[w].pc = "failing_text" /\ iw'[w].d = iw[w].d
        /\ \A v \in IWorkers : v # w => iw'[v] = iw[v]
    BY <1>1, <1>8, IAdvances DEF IFailRecord, IFailUnrecorded, IPc
  <2>4. JobFits(iw'[w].pc, job[iw[w].d]) /\ job[iw[w].d].status # "succeeded"
    BY <2>2, <2>3 DEF JobFits
  <2>5. UNCHANGED job /\ \A o \in Docs : o # iw[w].d => record'[o] = record[o] /\ text'[o] = text[o]
    BY <1>1, <1>8, <2>2 DEF IFailRecord, IFailUnrecorded, archiveVars
  <2> QED BY <2>1, <2>3, <2>4, <2>5, SoleAdvances
<1>9. CASE IFailText(w)
  <2>1. iw[w].pc = "failing_text"
    BY <1>9 DEF IFailText
  <2>2. iw[w].d \in Docs /\ JobFits("failing_text", job[iw[w].d])
    BY <2>1, BusyAlone
  <2>3. /\ iw'[w].pc = "idle" /\ iw'[w].d = NoDoc
        /\ \A v \in IWorkers : v # w => iw'[v] = iw[v]
    BY <1>1, <1>9, IIsIdle DEF IFailText
  <2>4. job[iw[w].d].status # "succeeded"
    BY <2>2 DEF JobFits
  <2>5. UNCHANGED job /\ \A o \in Docs : o # iw[w].d => record'[o] = record[o] /\ text'[o] = text[o]
    BY <1>1, <1>9, <2>2 DEF IFailText
  <2> QED BY <2>1, <2>3, <2>4, <2>5, SoleAdvances
<1>10. CASE ICrash(w)
  <2>1. /\ iw'[w].pc = "idle" /\ iw'[w].d = NoDoc
        /\ \A v \in IWorkers : v # w => iw'[v] = iw[v]
    BY <1>1, <1>10, IIsIdle DEF ICrash
  <2>2. UNCHANGED <<record, text, job>> /\ iw[w].pc # "idle"
    BY <1>10 DEF ICrash, archiveVars
  <2> QED BY <2>1, <2>2, SoleAdvances
<1> QED BY <1>2, <1>3, <1>5, <1>6, <1>7, <1>8, <1>9, <1>10 DEF IStep

\* The delivery inserts the job of a document that no extraction knows.
LEMMA SoleInserted ==
    ASSUME ArchiveInv, SoleInv, NEW d \in Docs, record[d] = "none", Inserted(d), UNCHANGED iw
    PROVE  SoleInv'
<1> DEFINE row == [NoJob EXCEPT !.status = "pending"]
<1>1. Nobody(d)
  BY FlowAssumption DEF Nobody, ArchiveInv, IWorkersOK, IWorkerOK
<1>2. row.status = "pending"
  BY NewJob
<1>3. job' = [job EXCEPT ![d] = row]
  BY DEF Inserted
<1> HIDE DEF row
<1>4. OthersStay(d)
  <2>1. \A o \in Docs : o # d => record'[o] = record[o] /\ text'[o] = text[o] /\ job'[o] = job[o]
    BY <1>3 DEF Inserted, ArchiveInv, ArchiveTypes
  <2> QED BY <2>1, RestStays
<1>5. Readied(d)
  BY <1>2, <1>3 DEF Readied, ArchiveInv, ArchiveTypes
<1> QED BY <1>1, <1>4, <1>5, NobodyWorks

LEMMA SoleOStep ==
    ASSUME ArchiveInv, SoleInv, NEW w \in OWorkers,
           OStep(w) \/ OFault(w) \/ OCrash(w) \/ \E d \in Docs : OClaim(w, d)
    PROVE  SoleInv'
<1>1. CASE UNCHANGED <<record, text, job, iw>>
  BY <1>1, SoleStays
<1>2. CASE ow[w].pc = "inserting" /\ record[ow[w].d] = "none" /\ Inserted(ow[w].d) /\ UNCHANGED iw
  <2>1. ow[w].d \in Docs
    BY <1>2 DEF ArchiveInv, OWorkersOK, OWorkerOK
  <2> QED BY <1>2, <2>1, SoleInserted
<1>3. CASE OLoad(w) \/ OCopy(w) \/ OFind(w) \/ OMark(w) \/ OFail(w) \/ OCrash(w)
           \/ \E d \in Docs : OClaim(w, d)
  BY <1>1, <1>3 DEF OLoad, OCopy, OFind, OMark, OFail, ODone, OCrash, OClaim, archiveVars
<1>4. CASE OInsert(w)
  BY <1>1, <1>2, <1>4 DEF OInsert
<1>5. CASE OFault(w)
  BY <1>1, <1>2, <1>5 DEF OFault, archiveVars
<1> QED BY <1>3, <1>4, <1>5 DEF OStep

LEMMA SoleILeaseAges ==
    ASSUME InTime', ArchiveInv, SoleInv, NEW d \in Docs, ILeaseAges(d) PROVE SoleInv'
<1> DEFINE row == [job[d] EXCEPT !.stale = TRUE]
<1>1. Nobody(d)
  <2>1. job'[d].stale = TRUE /\ UNCHANGED iw
    BY DEF ILeaseAges, ArchiveInv, ArchiveTypes, QueueRow
  <2> QED BY <2>1 DEF InTime, Overtaken, Nobody
<1>2. row.status = "running"
  BY DEF ILeaseAges, ArchiveInv, ArchiveTypes, QueueRow
<1>3. job' = [job EXCEPT ![d] = row] /\ UNCHANGED <<record, text, iw>>
  BY DEF ILeaseAges
<1> HIDE DEF row
<1>4. job'[d] = row /\ \A o \in Docs : o # d => job'[o] = job[o]
  BY <1>3 DEF ArchiveInv, ArchiveTypes
<1>5. OthersStay(d) /\ Readied(d)
  BY <1>2, <1>3, <1>4, RestStays DEF Readied
<1> QED BY <1>1, <1>3, <1>5, NobodyWorks

LEMMA SoleRetry ==
    ASSUME ArchiveInv, SoleInv, NEW d \in Docs, RetryJob(d) PROVE SoleInv'
<1> DEFINE row == [NoJob EXCEPT !.status = "pending"]
<1>1. row.status = "pending" /\ row.stale = FALSE /\ job[d].status = "failed"
  BY NewJob DEF RetryJob, NoJob
<1>2. job' = [job EXCEPT ![d] = row] /\ UNCHANGED iw
  BY DEF RetryJob
<1> HIDE DEF row
<1>3. job'[d] = row
  BY <1>2 DEF ArchiveInv, ArchiveTypes
<1>4. \A o \in Docs : o # d => record'[o] = record[o] /\ text'[o] = text[o] /\ job'[o] = job[o]
  BY <1>2 DEF RetryJob, ArchiveInv, ArchiveTypes
<1>5. OthersStay(d) /\ Readied(d)
  BY <1>1, <1>3, <1>4, RestStays DEF Readied
<1>6. CASE Nobody(d)
  BY <1>2, <1>5, <1>6, NobodyWorks
<1>7. ASSUME NEW w \in IWorkers, iw[w].d = d PROVE SoleInv'
  <2>1. iw[w].pc # "idle" /\ iw[w].pc \in IPc
    BY <1>7, FlowAssumption DEF ArchiveInv, ArchiveTypes, IWorkersOK, IWorkerOK, IWorkerRow, IPc
  <2>2. Alone(w, d) /\ JobFits(iw[w].pc, job[d])
    BY <1>7, <2>1, BusyAlone
  <2>3. JobFits(iw[w].pc, row)
    BY <1>1, <2>1, <2>2 DEF JobFits
  <2> QED BY <1>2, <1>3, <1>5, <1>7, <2>2, <2>3, SoleMoves
<1> QED BY <1>6, <1>7 DEF Nobody

LEMMA SoleStep ==
    ASSUME InTime', PipelineInv, SoleInv, [PipelineNext]_pipelineVars PROVE SoleInv'
<1>1. ArchiveInv
  BY DEF PipelineInv
<1>2. CASE FlowNext /\ UNCHANGED <<archiveVars, ow, iw, faults>>
  BY <1>2, SoleStays DEF archiveVars
<1>3. ASSUME NEW w \in OWorkers, NEW d \in Docs, OClaim(w, d) PROVE SoleInv'
  BY <1>1, <1>3, SoleOStep
<1>4. ASSUME NEW w \in OWorkers, OStep(w) \/ OFault(w) \/ OCrash(w) PROVE SoleInv'
  BY <1>1, <1>4, SoleOStep
<1>5. ASSUME NEW w \in IWorkers, NEW d \in Docs, IClaim(w, d) PROVE SoleInv'
  BY <1>1, <1>5, SoleClaim
<1>6. ASSUME NEW w \in IWorkers, IStep(w) \/ IFault(w) \/ IFailUnrecorded(w) \/ ICrash(w)
      PROVE  SoleInv'
  BY <1>1, <1>6, SoleIStep
<1>7. ASSUME NEW d \in Docs, OLeaseAges(d) \/ ILeaseAges(d) \/ RetryJob(d) PROVE SoleInv'
  <2>1. CASE OLeaseAges(d)
    BY <2>1, SoleStays DEF OLeaseAges, archiveVars
  <2>2. CASE ILeaseAges(d) \/ RetryJob(d)
    BY <1>1, <2>2, SoleILeaseAges, SoleRetry
  <2> QED BY <1>7, <2>1, <2>2
<1>8. CASE UNCHANGED pipelineVars
  BY <1>8, SoleStays DEF pipelineVars, archiveVars
<1> QED BY <1>2, <1>3, <1>4, <1>5, <1>6, <1>7, <1>8 DEF PipelineNext

LEMMA SoleStart == PipelineInit => SoleInv
BY DEF PipelineInit, SoleInv, SucceededIsReady, NoJob, IdleWorker

\* persistExtraction and failJob, for every timing of the leases: as long as no extraction
\* was overtaken, a succeeded job stands for a record that is ready, with its text.
THEOREM SucceededJobsAreReady == PipelineSpec => ReadyUnlessOvertaken
<1>1. InTime' /\ PipelineInv /\ SoleInv /\ [PipelineNext]_pipelineVars => SoleInv'
  BY SoleStep
<1>2. SoleInv => SucceededIsReady
  BY DEF SoleInv
<1>3. ReadyUnlessOvertaken <=> ([]InTime => []SucceededIsReady)
  BY PTL DEF ReadyUnlessOvertaken, InTime
<1> QED BY <1>1, <1>2, <1>3, SoleStart, PipelineInvariant, PTL DEF PipelineSpec

-----------------------------------------------------------------------------
(* The refinement of the promise between registry and archive.             *)

\* An object lies in the archive only for a document the outbox knows.
CopiedIsTold == \A d \in Docs : copied[d] => outbox[d].status # "none"

PromiseInv == PipelineInv /\ CopiedIsTold

\* The outbox forgets no document.
LEMMA ToldStays ==
    ASSUME PipelineInv, [PipelineNext]_pipelineVars
    PROVE  \A d \in Docs : outbox[d].status # "none" => outbox'[d].status # "none"
<1>0. ArchiveInv /\ FlowTypeOK /\ outbox \in [Docs -> QueueRow(OutboxStatus)]
  BY DEF PipelineInv, HistoryInv, ArchiveInv, ArchiveTypes
<1>1. CASE FlowNext
  <2>1. ASSUME NEW o \in Docs, outbox' = [outbox EXCEPT ![o] = Queued(@)]
        PROVE  \A d \in Docs : outbox[d].status # "none" => outbox'[d].status # "none"
    BY <1>0, <2>1 DEF Queued
  <2> QED BY <1>0, <1>1, <2>1, FlowQueues
<1>2. ASSUME \/ \E w \in OWorkers : \/ \E d \in Docs : OClaim(w, d)
                                   \/ OStep(w) \/ OFault(w) \/ OCrash(w)
             \/ \E w \in IWorkers : \/ \E d \in Docs : IClaim(w, d)
                                   \/ IStep(w) \/ IFault(w) \/ IFailUnrecorded(w) \/ ICrash(w)
             \/ \E d \in Docs : OLeaseAges(d) \/ ILeaseAges(d) \/ RetryJob(d)
      PROVE  SameApprovals
  BY <1>0, <1>2, StepOClaim, OutboxWorkerStep, StepIClaim, ExtractionStep, StepOLeaseAges,
     StepILeaseAges, StepRetryJob DEF StepOK
<1>3. CASE UNCHANGED pipelineVars
  BY <1>3 DEF pipelineVars, flowVars
<1> QED BY <1>1, <1>2, <1>3 DEF PipelineNext, SameApprovals

LEMMA CopiedStep == ASSUME PromiseInv, [PipelineNext]_pipelineVars PROVE CopiedIsTold'
<1>0. /\ copied \in [Docs -> BOOLEAN] /\ OWorkersOK
      /\ \A d \in Docs : outbox[d].status # "none" => outbox'[d].status # "none"
  BY ToldStays DEF PromiseInv, PipelineInv, ArchiveInv, ArchiveTypes
<1>1. ASSUME UNCHANGED copied PROVE CopiedIsTold'
  BY <1>0, <1>1 DEF PromiseInv, CopiedIsTold
<1>2. ASSUME NEW w \in OWorkers, ow[w].pc # "idle", copied' = [copied EXCEPT ![ow[w].d] = TRUE]
      PROVE  CopiedIsTold'
  <2>1. ow[w].d \in Docs /\ outbox[ow[w].d].status # "none"
    BY <1>0, <1>2 DEF OWorkersOK, OWorkerOK
  <2> QED BY <1>0, <1>2, <2>1 DEF PromiseInv, CopiedIsTold
<1>3. ASSUME NEW w \in OWorkers, OCopy(w) \/ OFault(w) PROVE CopiedIsTold'
  BY <1>1, <1>2, <1>3 DEF OCopy, OFault, archiveVars
<1> QED BY <1>1, <1>3
        DEF PipelineNext, archiveVars, pipelineVars, OClaim, OStep, OLoad, OFind, OInsert, OMark,
            OFail, ODone, OCrash, OLeaseAges, IClaim, IStep, IMark, IPersist, IReject, IFail, FailedJob,
            IFailRecord, IFailText, IFault, IFailUnrecorded, ICrash, ILeaseAges, RetryJob

\* What the promise sees of a document.
Seen(d) == <<Stage(d), Delivery(d)>>
SameSight(d) == Seen(d)' = Seen(d)

LEMMA PromiseStutters == (\A d \in Docs : SameSight(d)) => UNCHANGED Promise!vars
BY DEF SameSight, Seen, Promise!vars

LEMMA PromiseActions ==
    ASSUME NEW d \in Docs, \A o \in Docs : o # d => SameSight(o)
    PROVE  /\ /\ Stage(d) = "draft" /\ Stage(d)' = "approved" /\ Delivery(d)' = "open"
              => Promise!Approve(d)
           /\ /\ Stage(d) = "approved" /\ Stage(d)' = "stored"
              /\ Delivery(d)' = Delivery(d)
              => Promise!Store(d)
           /\ /\ Stage(d) = "stored" /\ Stage(d)' = "recorded"
              /\ Delivery(d)' = Delivery(d)
              => Promise!Record(d)
           /\ \A how \in {"done", "failed"} :
                /\ Stage(d)' = Stage(d)
                /\ Delivery(d) = "open" /\ Delivery(d)' = how
                /\ how = "done" => Stage(d) = "recorded"
                => Promise!End(d, how)
<1> DEFINE stage    == [o \in Docs |-> Stage(o)]
           delivery == [o \in Docs |-> Delivery(o)]
<1>1. \A o \in Docs : o # d => Stage(o)' = Stage(o) /\ Delivery(o)' = Delivery(o)
  BY DEF SameSight, Seen
<1>2. /\ stage' = [stage EXCEPT ![d] = Stage(d)']
      /\ delivery' = [delivery EXCEPT ![d] = Delivery(d)']
      /\ stage[d] = Stage(d) /\ delivery[d] = Delivery(d)
  BY <1>1
<1>3. /\ Stage(d)' = Stage(d) => stage' = stage
      /\ Delivery(d)' = Delivery(d) => delivery' = delivery
  BY <1>1
<1>4. \A from, to : Stage(d) = from /\ Stage(d)' = to => Promise!Advance(d, from, to)
  BY <1>2 DEF Promise!Advance
<1> QED BY <1>2, <1>3, <1>4 DEF Promise!Approve, Promise!Store, Promise!Record, Promise!End

\* The promise sees of a document its record, its object and the row of the outbox.
Open == {"pending", "processing"}
Sight(d) ==
    /\ record[d] # "none" <=> Stage(d) = "recorded"
    /\ record[d] = "none" /\ copied[d] <=> Stage(d) = "stored"
    /\ ~copied[d] /\ outbox[d].status # "none" <=> Stage(d) = "approved"
    /\ outbox[d].status = "none" <=> Stage(d) = "draft"
    /\ Stage(d) \in {"recorded", "stored", "approved", "draft"}
    /\ outbox[d].status \in Open => Delivery(d) = "open"
    /\ outbox[d].status = "delivered" => Delivery(d) = "done"
    /\ outbox[d].status \in {"none", "failed"} => Delivery(d) = outbox[d].status
    /\ outbox[d].status \in OutboxStatus

LEMMA SightNow == PromiseInv => \A d \in Docs : Sight(d)
<1> SUFFICES ASSUME PromiseInv, NEW d \in Docs PROVE Sight(d)
  OBVIOUS
<1>1. /\ record[d] # "none" => copied[d]
      /\ copied[d] => outbox[d].status # "none"
      /\ Approved(d) <=> outbox[d].status # "none"
      /\ copied[d] \in BOOLEAN
      /\ outbox[d].status \in OutboxStatus
  BY DEF PromiseInv, CopiedIsTold, PipelineInv, ArchiveInv, ArchiveOK, OutboxIsApproval, Approved,
         ArchiveTypes, QueueRow
<1>2. /\ record[d] # "none" <=> Stage(d) = "recorded"
      /\ record[d] = "none" /\ copied[d] <=> Stage(d) = "stored"
      /\ ~copied[d] /\ outbox[d].status # "none" <=> Stage(d) = "approved"
      /\ outbox[d].status = "none" <=> Stage(d) = "draft"
      /\ Stage(d) \in {"recorded", "stored", "approved", "draft"}
  BY <1>1 DEF Stage
<1>3. /\ outbox[d].status \in Open => Delivery(d) = "open"
      /\ outbox[d].status = "delivered" => Delivery(d) = "done"
      /\ outbox[d].status \in {"none", "failed"} => Delivery(d) = outbox[d].status
  BY <1>1 DEF Delivery, Open, OutboxStatus
<1> QED BY <1>1, <1>2, <1>3 DEF Sight

LEMMA SightNext == PromiseInv' => \A d \in Docs : Sight(d)'
<1>1. PromiseInv' => (\A d \in Docs : Sight(d))'
  BY SightNow, PTL
<1> QED BY <1>1

LEMMA SightStays ==
    ASSUME PromiseInv, PromiseInv', NEW d \in Docs,
           record'[d] = "none" <=> record[d] = "none", copied'[d] = copied[d],
           \/ outbox'[d].status = outbox[d].status
           \/ outbox[d].status \in Open /\ outbox'[d].status \in Open
    PROVE  SameSight(d)
<1>1. Sight(d) /\ Sight(d)'
  BY SightNow, SightNext
<1>2. Stage(d)' = Stage(d)
  BY <1>1 DEF Sight, Open
<1>3. Delivery(d)' = Delivery(d)
  BY <1>1 DEF Sight, Open, OutboxStatus
<1> QED BY <1>2, <1>3 DEF SameSight, Seen

\* Of the users' steps the promise sees the first approval.
LEMMA FlowKeepsPromise ==
    ASSUME PromiseInv, PromiseInv', FlowNext, UNCHANGED archiveVars
    PROVE  Promise!Next \/ UNCHANGED Promise!vars
<1>0. /\ outbox \in [Docs -> QueueRow(OutboxStatus)] /\ FlowTypeOK
      /\ UNCHANGED <<record, copied>>
  BY DEF PromiseInv, PipelineInv, HistoryInv, ArchiveInv, ArchiveTypes, archiveVars
<1>1. CASE UNCHANGED outbox
  BY <1>0, <1>1, SightStays, PromiseStutters
<1>2. ASSUME NEW d \in Docs, outbox' = [outbox EXCEPT ![d] = Queued(@)]
      PROVE  Promise!Next \/ UNCHANGED Promise!vars
  <2>1. \A o \in Docs : o # d => SameSight(o)
    BY <1>0, <1>2, SightStays
  <2>2. CASE outbox[d].status # "none"
    <3>1. outbox'[d] = outbox[d]
      BY <1>0, <1>2, <2>2 DEF Queued
    <3> QED BY <1>0, <2>1, <3>1, SightStays, PromiseStutters
  <2>3. CASE outbox[d].status = "none"
    <3>1. outbox'[d].status = "pending"
      BY <1>0, <1>2, <2>3, QueuedRow DEF Queued
    <3>2. Stage(d) = "draft" /\ ~copied[d]
      BY <2>3, SightNow DEF Sight, PromiseInv, CopiedIsTold
    <3>3. Stage(d)' = "approved" /\ Delivery(d)' = "open"
      BY <1>0, <3>1, <3>2, SightNow, SightNext DEF Sight, Open
    <3>4. Promise!Approve(d)
      BY <2>1, <3>2, <3>3, PromiseActions
    <3> QED BY <3>4 DEF Promise!Next
  <2> QED BY <2>2, <2>3
<1> QED BY <1>0, <1>1, <1>2, FlowQueues

\* A claim moves rows between pending and processing, which is all the same here.
LEMMA ClaimKeepsPromise ==
    ASSUME PromiseInv, PromiseInv', NEW w \in OWorkers, NEW d \in Docs, OClaim(w, d)
    PROVE  UNCHANGED Promise!vars
<1> DEFINE swept == Swept(outbox, "processing")
<1>0. outbox \in [Docs -> QueueRow(OutboxStatus)] /\ UNCHANGED <<record, copied>>
  BY DEF PromiseInv, PipelineInv, ArchiveInv, ArchiveTypes, OClaim, archiveVars
<1>1. "pending" \in OutboxStatus /\ "processing" \in OutboxStatus
  BY DEF OutboxStatus
<1>2. \A o \in Docs : \/ swept[o] = outbox[o]
                      \/ outbox[o].status = "processing" /\ swept[o].status = "pending"
  BY <1>0, <1>1, SweptRows
<1>3. /\ outbox'[d].status = "processing"
      /\ \A o \in Docs : o # d => outbox'[o] = swept[o]
  <2>1. outbox' = [swept EXCEPT ![d] = Taken(@, "processing")]
    BY DEF OClaim
  <2> QED BY <1>0, <1>1, <2>1, ClaimedRows
<1>4. swept[d].status = "pending"
  BY DEF OClaim
<1> HIDE DEF swept
<1>5. ASSUME NEW o \in Docs
      PROVE  \/ outbox'[o].status = outbox[o].status
             \/ outbox[o].status \in Open /\ outbox'[o].status \in Open
  BY <1>2, <1>3, <1>4 DEF Open
<1> QED BY <1>0, <1>5, SightStays, PromiseStutters

\* The last update of a worker ends the delivery, puts it off or comes too late.
LEMMA DoneKeepsPromise ==
    ASSUME PromiseInv, PromiseInv', NEW w \in OWorkers, ow[w].pc # "idle",
           NEW status \in {"pending", "delivered", "failed"}, ODone(w, status),
           status = "delivered" => record[ow[w].d] # "none"
    PROVE  Promise!Next \/ UNCHANGED Promise!vars
<1>0. /\ outbox \in [Docs -> QueueRow(OutboxStatus)] /\ UNCHANGED <<record, copied>>
      /\ ow[w].d \in Docs
  BY DEF PromiseInv, PipelineInv, ArchiveInv, ArchiveTypes, OWorkersOK, OWorkerOK, ODone, archiveVars
<1> PICK d \in Docs : d = ow[w].d
  BY <1>0
<1>1. outbox' = [outbox EXCEPT ![d] = Marked(outbox[d], status)]
  BY DEF ODone
<1>2. \/ outbox'[d] = outbox[d]
      \/ outbox[d].status = "processing" /\ outbox'[d].status = status
  BY <1>0, <1>1, MarkedRow DEF OutboxStatus
<1>3. \A o \in Docs : o # d => outbox'[o] = outbox[o]
  BY <1>0, <1>1
<1>4. \A o \in Docs : o # d => SameSight(o)
  BY <1>0, <1>3, SightStays
<1>5. CASE outbox'[d] = outbox[d] \/ (outbox[d].status = "processing" /\ status = "pending")
  <2>1. SameSight(d)
    BY <1>0, <1>2, <1>5, SightStays DEF Open
  <2> QED BY <1>4, <2>1, PromiseStutters
<1>6. CASE outbox[d].status = "processing" /\ outbox'[d].status = status /\ status # "pending"
  <2> DEFINE how == IF status = "delivered" THEN "done" ELSE "failed"
  <2>1. Delivery(d) = "open" /\ Delivery(d)' = how
    BY <1>6, SightNow, SightNext DEF Sight, Open
  <2>2. Stage(d)' = Stage(d)
    BY <1>0, <1>6, SightNow, SightNext DEF Sight, Open
  <2>3. how = "done" => Stage(d) = "recorded"
    BY SightNow DEF Sight
  <2>4. how \in {"done", "failed"}
    OBVIOUS
  <2> HIDE DEF how
  <2>5. Promise!End(d, how)
    BY <1>4, <2>1, <2>2, <2>3, <2>4, PromiseActions
  <2> QED BY <2>4, <2>5 DEF Promise!Next
<1> QED BY <1>2, <1>5, <1>6

\* The copy and the record, whether or not the worker gets to know of them.
LEMMA WriteKeepsPromise ==
    ASSUME PromiseInv, PromiseInv', NEW w \in OWorkers, UNCHANGED flowVars,
           \/ /\ ow[w].pc = "loaded"
              /\ copied' = [copied EXCEPT ![ow[w].d] = TRUE]
              /\ UNCHANGED record
           \/ /\ ow[w].pc = "inserting" /\ record[ow[w].d] = "none"
              /\ Inserted(ow[w].d)
              /\ UNCHANGED copied
    PROVE  Promise!Next \/ UNCHANGED Promise!vars
<1>0. /\ UNCHANGED outbox /\ ow[w].d \in Docs /\ outbox[ow[w].d].status # "none"
      /\ copied \in [Docs -> BOOLEAN] /\ record \in [Docs -> RecordStatus]
      /\ ow[w].pc = "inserting" => copied[ow[w].d]
  BY DEF PromiseInv, PipelineInv, ArchiveInv, ArchiveTypes, OWorkersOK, OWorkerOK, flowVars
<1> PICK d \in Docs : d = ow[w].d
  BY <1>0
<1>1. /\ \A o \in Docs : o # d => record'[o] = record[o] /\ copied'[o] = copied[o]
      /\ record[d] = "none" /\ record'[d] # "none" => copied'[d] = copied[d]
  BY <1>0 DEF Inserted
<1>2. \A o \in Docs : o # d => SameSight(o)
  BY <1>0, <1>1, SightStays
<1>3. Delivery(d)' = Delivery(d)
  BY <1>0 DEF Delivery
<1>4. CASE ow[w].pc = "loaded" /\ copied' = [copied EXCEPT ![d] = TRUE] /\ UNCHANGED record
  <2>1. CASE copied[d]
    <3>1. SameSight(d)
      BY <1>0, <1>4, <2>1, SightStays
    <3> QED BY <1>2, <3>1, PromiseStutters
  <2>2. CASE ~copied[d]
    <3>1. Stage(d) = "approved" /\ record[d] = "none"
      BY <1>0, <2>2, SightNow DEF Sight, PromiseInv, PipelineInv, ArchiveInv, ArchiveOK
    <3>2. copied'[d] /\ record'[d] = "none"
      BY <1>0, <1>4, <3>1
    <3>3. Stage(d)' = "stored"
      BY <3>2, SightNext DEF Sight
    <3>4. Promise!Store(d)
      BY <1>2, <1>3, <3>1, <3>3, PromiseActions
    <3> QED BY <3>4 DEF Promise!Next
  <2> QED BY <2>1, <2>2
<1>5. CASE ow[w].pc = "inserting" /\ record[d] = "none" /\ Inserted(d) /\ UNCHANGED copied
  <2>1. copied[d] /\ record'[d] = "queued"
    BY <1>0, <1>5 DEF Inserted
  <2>2. Stage(d) = "stored" /\ Stage(d)' = "recorded"
    BY <1>5, <2>1, SightNow, SightNext DEF Sight
  <2>3. Promise!Record(d)
    BY <1>2, <1>3, <2>2, PromiseActions
  <2> QED BY <2>3 DEF Promise!Next
<1> QED BY <1>4, <1>5

LEMMA QuietKeepsPromise ==
    ASSUME PromiseInv, PromiseInv', UNCHANGED <<outbox, copied>>,
           \A d \in Docs : record'[d] = "none" <=> record[d] = "none"
    PROVE  UNCHANGED Promise!vars
BY SightStays, PromiseStutters

\* The outbox worker, step by step.
LEMMA DeliveryKeepsPromise ==
    ASSUME PromiseInv, PromiseInv', NEW w \in OWorkers, OStep(w) \/ OFault(w) \/ OCrash(w)
    PROVE  Promise!Next \/ UNCHANGED Promise!vars
<1>1. CASE UNCHANGED <<flowVars, archiveVars>>
  BY <1>1, QuietKeepsPromise DEF flowVars, archiveVars
<1>2. CASE OLoad(w) \/ OFind(w) \/ OCrash(w)
  BY <1>1, <1>2 DEF OLoad, OFind, OCrash
<1>3. CASE OCopy(w) \/ OFault(w)
  BY <1>1, <1>3, WriteKeepsPromise DEF OCopy, OFault
<1>4. CASE OInsert(w)
  <2>1. CASE record[ow[w].d] = "none"
    BY <1>4, <2>1, WriteKeepsPromise DEF OInsert
  <2>2. CASE record[ow[w].d] # "none"
    BY <1>1, <1>4, <2>2 DEF OInsert, archiveVars
  <2> QED BY <2>1, <2>2
<1>5. CASE OMark(w)
  <2>1. record[ow[w].d] # "none" /\ ow[w].pc # "idle" /\ ODone(w, "delivered")
    BY <1>5 DEF OMark, PromiseInv, PipelineInv, ArchiveInv, OWorkersOK, OWorkerOK
  <2> QED BY <2>1, DoneKeepsPromise
<1>6. CASE OFail(w)
  <2>1. PICK status \in {"failed", "pending"} : ODone(w, status) /\ ow[w].pc # "idle"
    BY <1>6 DEF OFail
  <2> QED BY <2>1, DoneKeepsPromise
<1> QED BY <1>2, <1>3, <1>4, <1>5, <1>6 DEF OStep

\* Extraction, its retries and its failures leave the promise alone: no record goes.
LEMMA ExtractionKeepsPromise ==
    ASSUME PromiseInv, PromiseInv', NEW w \in IWorkers,
           IStep(w) \/ IFault(w) \/ IFailUnrecorded(w) \/ ICrash(w) \/ \E d \in Docs : IClaim(w, d)
    PROVE  UNCHANGED Promise!vars
<1>0. record \in [Docs -> RecordStatus] /\ (iw[w].pc # "idle" => record[iw[w].d] # "none")
  BY IBusy DEF PromiseInv, PipelineInv, ArchiveInv, ArchiveTypes
<1>1. UNCHANGED <<outbox, copied>>
  BY DEF IStep, IMark, IPersist, IReject, IFail, FailedJob, IFailRecord, IFailText, IFault,
         IFailUnrecorded, ICrash, IClaim, flowVars, archiveVars
<1>2. \/ UNCHANGED record
      \/ /\ iw[w].pc # "idle"
         /\ \E s \in RecordStatus \ {"none"} : record' = [record EXCEPT ![iw[w].d] = s]
  BY DEF IStep, IMark, IPersist, IReject, IFail, FailedJob, IFailRecord, IFailText, IFault, Persisted,
         IFailUnrecorded, ICrash, IClaim, archiveVars, RecordStatus
<1>3. \A d \in Docs : record'[d] = "none" <=> record[d] = "none"
  BY <1>0, <1>2
<1> QED BY <1>1, <1>3, QuietKeepsPromise

LEMMA StepKeepsPromise ==
    ASSUME PromiseInv, PromiseInv', [PipelineNext]_pipelineVars
    PROVE  [Promise!Next]_(Promise!vars)
<1>1. CASE FlowNext /\ UNCHANGED <<archiveVars, ow, iw, faults>>
  BY <1>1, FlowKeepsPromise
<1>2. ASSUME NEW w \in OWorkers, NEW d \in Docs, OClaim(w, d) PROVE UNCHANGED Promise!vars
  BY <1>2, ClaimKeepsPromise
<1>3. ASSUME NEW w \in OWorkers, OStep(w) \/ OFault(w) \/ OCrash(w)
      PROVE  Promise!Next \/ UNCHANGED Promise!vars
  BY <1>3, DeliveryKeepsPromise
<1>4. ASSUME NEW w \in IWorkers,
             IStep(w) \/ IFault(w) \/ IFailUnrecorded(w) \/ ICrash(w) \/ \E d \in Docs : IClaim(w, d)
      PROVE  UNCHANGED Promise!vars
  BY <1>4, ExtractionKeepsPromise
<1>5. ASSUME NEW d \in Docs, OLeaseAges(d) PROVE UNCHANGED Promise!vars
  <2>1. outbox \in [Docs -> QueueRow(OutboxStatus)] /\ UNCHANGED <<record, copied>>
    BY <1>5 DEF OLeaseAges, archiveVars, PromiseInv, PipelineInv, ArchiveInv, ArchiveTypes
  <2>2. \A o \in Docs : outbox'[o].status = outbox[o].status
    BY <1>5, <2>1 DEF OLeaseAges, QueueRow
  <2> QED BY <2>1, <2>2, SightStays, PromiseStutters
<1>6. ASSUME NEW d \in Docs, ILeaseAges(d) \/ RetryJob(d) PROVE UNCHANGED Promise!vars
  <2>1. UNCHANGED <<outbox, copied>> /\ record \in [Docs -> RecordStatus]
    BY <1>6 DEF ILeaseAges, RetryJob, flowVars, PromiseInv, PipelineInv, ArchiveInv, ArchiveTypes
  <2>2. UNCHANGED record \/ (record' = [record EXCEPT ![d] = "queued"] /\ record[d] # "none")
    BY <1>6 DEF ILeaseAges, RetryJob, PromiseInv, PipelineInv, ArchiveInv, ArchiveOK
  <2>3. \A o \in Docs : record'[o] = "none" <=> record[o] = "none"
    BY <2>1, <2>2
  <2> QED BY <2>1, <2>3, QuietKeepsPromise
<1>7. CASE UNCHANGED pipelineVars
  BY <1>7, QuietKeepsPromise DEF pipelineVars, flowVars, archiveVars
<1> QED BY <1>1, <1>2, <1>3, <1>4, <1>5, <1>6, <1>7 DEF PipelineNext

\* Approve, the outbox worker's statements and the extraction keep the promise between
\* registry and archive, through every lost answer, expired lease and crash.
THEOREM ArchivePromiseIsKept == PipelineSpec => KeepsArchivePromise
<1>1. PipelineInit => PromiseInv /\ Promise!Init
  <2> SUFFICES ASSUME PipelineInit PROVE PromiseInv /\ Promise!Init
    OBVIOUS
  <2>1. PipelineInv
    BY PipelineStart
  <2>2. CopiedIsTold
    BY DEF PipelineInit, CopiedIsTold
  <2>3. \A d \in Docs : outbox[d].status = "none"
    BY DEF PipelineInit, FlowInit, NoEvent
  <2>4. \A d \in Docs : Stage(d) = "draft" /\ Delivery(d) = "none"
    BY <2>1, <2>2, <2>3, SightNow DEF Sight, PromiseInv
  <2> QED BY <2>1, <2>2, <2>4 DEF PromiseInv, Promise!Init
<1>2. PromiseInv /\ [PipelineNext]_pipelineVars => PromiseInv'
  BY PipelineStep, CopiedStep DEF PromiseInv
<1>3. PromiseInv /\ PromiseInv' /\ [PipelineNext]_pipelineVars => [Promise!Next]_(Promise!vars)
  BY StepKeepsPromise
<1> QED BY <1>1, <1>2, <1>3, PTL DEF PipelineSpec, KeepsArchivePromise, Promise!Spec
=============================================================================
