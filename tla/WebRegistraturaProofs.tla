------------------------- MODULE WebRegistraturaProofs -------------------------
(***************************************************************************)
(* Theorems about WebRegistratura, for every set of documents, queries and *)
(* requests and every value of the bounds.                                  *)
(***************************************************************************)
EXTENDS WebRegistratura, TLAPS

-----------------------------------------------------------------------------
(* Types.                                                                  *)

\* A detail request under way is for a document.
DetailRequest == [pc : {"asked", "read"}, doc : Docs, revision : 0 .. MaxRevision]
RequestsAreOfDocs == \A s \in Details : details[s] = Unsent \/ details[s] \in DetailRequest

\* An operation has a document and the query of its screen.
OpHasDocument == op.pc # "idle" => op.doc \in Docs /\ op.query \in Queries

\* Nothing happens before the registries are known.
BeforeRegistries ==
    query = NoQuery =>
        /\ selected = Nothing /\ ~mode /\ op.pc = "idle"
        /\ \A s \in Details : details[s] = Unsent

\* Nothing is confirmed that the server does not have.
AckedHappened == \A d \in Docs : acked[d] =< revision[d]

TypeInv ==
    /\ WebRegistraturaTypeOK
    /\ RequestsAreOfDocs /\ OpHasDocument /\ BeforeRegistries /\ AckedHappened

\* What Next says of the bound on what the user does.
Acts == acts' \in 0 .. MaxActs

LEMMA UnsentIsNoRequest == Unsent \notin DetailRequest
BY WebRegistraturaAssumption DEF Unsent, DetailRequest

LEMMA NothingIsNotShown == Nothing \notin Shown
BY WebRegistraturaAssumption DEF Nothing, Shown

LEMMA TypeInit == Init => TypeInv
<1> SUFFICES ASSUME Init PROVE TypeInv
  OBVIOUS
<1>1. /\ revision \in [Docs -> 0 .. MaxRevision] /\ acked \in [Docs -> 0 .. MaxRevision]
      /\ AckedHappened
  BY WebRegistraturaAssumption DEF Init, AckedHappened
<1>2. op \in OpRow /\ op.pc = "idle" /\ acts \in 0 .. MaxActs
  BY WebRegistraturaAssumption DEF Init, IdleOp, OpRow, Kinds
<1>3. details \in [Details -> [pc : {"none", "asked", "read"}, doc : Docs \cup {NoDoc},
                                revision : 0 .. MaxRevision]]
  BY WebRegistraturaAssumption DEF Init, Unsent
<1>4. /\ {query, rows, asked} \subseteq Queries \cup {NoQuery}
      /\ {loading, error, detailLoading, detailError, mode, registered} \subseteq BOOLEAN
      /\ loads \in [Loads -> Queries \cup {NoQuery}]
      /\ newestLoad \in Loads \cup {NoRequest} /\ newestDetail \in Details \cup {NoRequest}
      /\ selected \in Shown \cup {Nothing} /\ view \in Views
      /\ editForm \in Docs \cup {NoDoc}
  BY DEF Init, Views
<1>5. RequestsAreOfDocs /\ BeforeRegistries
  BY <1>2 DEF Init, RequestsAreOfDocs, BeforeRegistries
<1> QED
  BY <1>1, <1>2, <1>3, <1>4, <1>5 DEF TypeInv, WebRegistraturaTypeOK, OpHasDocument

\* load() with any query keeps the types of the list.
LEMMA BeginLoadType ==
    ASSUME TypeInv, NEW l \in Loads, NEW q \in Queries, BeginLoad(l, q)
    PROVE  /\ loads' \in [Loads -> Queries \cup {NoQuery}]
           /\ newestLoad' \in Loads \cup {NoRequest}
           /\ {rows', asked'} \subseteq Queries \cup {NoQuery}
           /\ {loading', error'} \subseteq BOOLEAN
BY DEF TypeInv, WebRegistraturaTypeOK, BeginLoad

\* openDetail() keeps those of the dialog.
LEMMA BeginDetailType ==
    ASSUME TypeInv, NEW s \in Details, NEW d \in Docs, NEW v \in Views, BeginDetail(s, d, v)
    PROVE  /\ details' \in [Details -> [pc : {"none", "asked", "read"}, doc : Docs \cup {NoDoc},
                                        revision : 0 .. MaxRevision]]
           /\ RequestsAreOfDocs'
           /\ newestDetail' \in Details \cup {NoRequest}
           /\ selected' \in Shown \cup {Nothing}
           /\ view' \in Views /\ editForm' \in Docs \cup {NoDoc}
           /\ {detailLoading', detailError'} \subseteq BOOLEAN
<1> DEFINE request == [pc |-> "asked", doc |-> d, revision |-> 0]
<1>1. request \in DetailRequest
  BY WebRegistraturaAssumption DEF DetailRequest
<1>2. details' = [details EXCEPT ![s] = request]
  BY DEF BeginDetail
<1>3. request \in [pc : {"none", "asked", "read"}, doc : Docs \cup {NoDoc}, revision : 0 .. MaxRevision]
  BY <1>1 DEF DetailRequest
<1> HIDE DEF request
<1>4. /\ details' \in [Details -> [pc : {"none", "asked", "read"}, doc : Docs \cup {NoDoc},
                                   revision : 0 .. MaxRevision]]
      /\ RequestsAreOfDocs'
  BY <1>1, <1>2, <1>3 DEF TypeInv, WebRegistraturaTypeOK, RequestsAreOfDocs
<1>5. selected' \in Shown
  BY WebRegistraturaAssumption DEF BeginDetail, Row, Shown
<1> QED
  BY <1>4, <1>5 DEF BeginDetail, TypeInv, WebRegistraturaTypeOK

\* An operation that goes on keeps its document, query and kind.
LEMMA OpGoesOn ==
    ASSUME TypeInv, NEW p \in {"sent", "committed", "attaching", "detail", "list"},
           NEW r \in Loads \cup Details \cup {NoRequest}, op.pc # "idle"
    PROVE  LET next == [op EXCEPT !.pc = p, !.waits = r] IN
           /\ next \in OpRow /\ next.pc = p /\ next.kind = op.kind
           /\ next.doc = op.doc /\ next.query = op.query
BY DEF TypeInv, WebRegistraturaTypeOK, OpRow

LEMMA ContinueType ==
    ASSUME TypeInv, NEW request \in Loads \cup Details, Continue(request)
    PROVE  /\ op' \in OpRow /\ op'.pc = op.pc /\ op'.kind = op.kind
           /\ op'.doc = op.doc /\ op'.query = op.query
BY DEF TypeInv, WebRegistraturaTypeOK, OpRow, Continue

LEMMA IdleType == IdleOp \in OpRow /\ IdleOp.pc = "idle" /\ IdleOp.kind = "create"
BY DEF IdleOp, OpRow, Kinds

LEMMA TypeLists ==
    ASSUME TypeInv, Acts,
           \/ \E l \in Loads, q \in Queries : RegistriesArrive(l, q) \/ ChangeQuery(l, q)
           \/ RegistriesFail
    PROVE  TypeInv'
<1>1. CASE \E l \in Loads, q \in Queries : RegistriesArrive(l, q) \/ ChangeQuery(l, q)
  <2>1. PICK l \in Loads, q \in Queries : RegistriesArrive(l, q) \/ ChangeQuery(l, q)
    BY <1>1
  <2>2. BeginLoad(l, q) /\ query' = q /\ q # NoQuery
        /\ UNCHANGED <<serverVars, dialogVars, createVars, op>>
    BY <2>1, WebRegistraturaAssumption DEF RegistriesArrive, ChangeQuery
  <2> QED
    BY <2>2, BeginLoadType DEF TypeInv, Acts, WebRegistraturaTypeOK, RequestsAreOfDocs,
       OpHasDocument, BeforeRegistries, AckedHappened, serverVars, dialogVars, createVars
<1>2. CASE RegistriesFail
  BY <1>2 DEF RegistriesFail, TypeInv, Acts, WebRegistraturaTypeOK, RequestsAreOfDocs,
     OpHasDocument, BeforeRegistries, AckedHappened, serverVars, dialogVars, createVars
<1> QED BY <1>1, <1>2

LEMMA TypeLoadAnswered ==
    ASSUME TypeInv, Acts, NEW l \in Loads, NEW failed \in BOOLEAN, LoadAnswered(l, failed)
    PROVE  TypeInv'
<1>1. /\ op' \in OpRow /\ op'.pc = op.pc /\ op'.doc = op.doc /\ op'.query = op.query
  BY ContinueType DEF LoadAnswered
<1>2. /\ loads' \in [Loads -> Queries \cup {NoQuery}]
      /\ rows' \in Queries \cup {NoQuery}
      /\ {loading', error'} \subseteq BOOLEAN
  BY DEF LoadAnswered, TypeInv, WebRegistraturaTypeOK
<1>3. UNCHANGED <<serverVars, query, newestLoad, asked, dialogVars, createVars>>
  BY DEF LoadAnswered
<1> QED
  BY <1>1, <1>2, <1>3 DEF TypeInv, Acts, WebRegistraturaTypeOK, RequestsAreOfDocs,
     OpHasDocument, BeforeRegistries, AckedHappened, serverVars, dialogVars, createVars

LEMMA TypeUserOpens ==
    ASSUME TypeInv, Acts, NEW s \in Details, NEW d \in Docs, NEW v \in OpenedViews, UserOpens(s, d, v)
    PROVE  TypeInv'
<1>1. v \in Views
  BY WebRegistraturaAssumption DEF Views
<1>2. BeginDetail(s, d, v) /\ query # NoQuery
      /\ UNCHANGED <<serverVars, query, listVars, createVars, op>>
  BY DEF UserOpens
<1> QED
  BY <1>1, <1>2, BeginDetailType DEF TypeInv, Acts, WebRegistraturaTypeOK, OpHasDocument,
     BeforeRegistries, AckedHappened, serverVars, listVars, createVars

LEMMA TypeDetailRead ==
    ASSUME TypeInv, Acts, NEW s \in Details, DetailRead(s)
    PROVE  TypeInv'
<1> DEFINE read == [details[s] EXCEPT !.pc = "read", !.revision = revision[details[s].doc]]
<1>1. details[s] \in DetailRequest
  BY DEF TypeInv, RequestsAreOfDocs, DetailRead, Unsent
<1>2. revision[details[s].doc] \in 0 .. MaxRevision
  BY <1>1 DEF TypeInv, WebRegistraturaTypeOK, DetailRequest
<1>3. read \in DetailRequest
  BY <1>1, <1>2 DEF DetailRequest
<1>4. read \in [pc : {"none", "asked", "read"}, doc : Docs \cup {NoDoc}, revision : 0 .. MaxRevision]
  BY <1>3 DEF DetailRequest
<1>5. details' = [details EXCEPT ![s] = read]
  BY DEF DetailRead, TypeInv, WebRegistraturaTypeOK
<1> HIDE DEF read
<1>6. query # NoQuery
  BY <1>1, UnsentIsNoRequest DEF TypeInv, BeforeRegistries
<1>7. UNCHANGED <<serverVars, query, listVars, selected, view, editForm,
                  detailLoading, detailError, newestDetail, createVars, op>>
  BY DEF DetailRead
<1> QED
  BY <1>3, <1>4, <1>5, <1>6, <1>7 DEF TypeInv, Acts, WebRegistraturaTypeOK, RequestsAreOfDocs,
     OpHasDocument, BeforeRegistries, AckedHappened, serverVars, listVars, createVars

LEMMA TypeDetailEnds ==
    ASSUME TypeInv, Acts, NEW s \in Details, DetailArrives(s) \/ DetailFails(s)
    PROVE  TypeInv'
<1>1. details[s] \in DetailRequest
  BY DEF TypeInv, RequestsAreOfDocs, DetailArrives, DetailFails, Unsent
<1>2. query # NoQuery
  BY <1>1, UnsentIsNoRequest DEF TypeInv, BeforeRegistries
<1>3. /\ op' \in OpRow /\ op'.pc = op.pc /\ op'.doc = op.doc /\ op'.query = op.query
  BY ContinueType DEF DetailArrives, DetailFails
<1>4. details' = [details EXCEPT ![s] = Unsent]
  BY DEF DetailArrives, DetailFails
<1>5. Unsent \in [pc : {"none", "asked", "read"}, doc : Docs \cup {NoDoc}, revision : 0 .. MaxRevision]
  BY WebRegistraturaAssumption DEF Unsent
<1>6. /\ details' \in [Details -> [pc : {"none", "asked", "read"}, doc : Docs \cup {NoDoc},
                                   revision : 0 .. MaxRevision]]
      /\ RequestsAreOfDocs'
  BY <1>4, <1>5 DEF TypeInv, WebRegistraturaTypeOK, RequestsAreOfDocs
<1>7. [doc |-> details[s].doc, revision |-> details[s].revision] \in Shown
  BY <1>1 DEF DetailRequest, Shown
<1>8. /\ selected' \in Shown \cup {Nothing}
      /\ editForm' \in Docs \cup {NoDoc}
      /\ {detailLoading', detailError'} \subseteq BOOLEAN
  <2>1. CASE DetailArrives(s)
    BY <1>1, <1>7, <2>1 DEF DetailArrives, DetailRequest, TypeInv, WebRegistraturaTypeOK
  <2>2. CASE DetailFails(s)
    BY <2>2 DEF DetailFails, TypeInv, WebRegistraturaTypeOK
  <2> QED BY <2>1, <2>2
<1>9. UNCHANGED <<serverVars, query, listVars, view, newestDetail, createVars>>
  BY DEF DetailArrives, DetailFails
<1> QED
  BY <1>2, <1>3, <1>6, <1>8, <1>9 DEF TypeInv, Acts, WebRegistraturaTypeOK,
     OpHasDocument, BeforeRegistries, AckedHappened, serverVars, listVars, createVars

LEMMA TypeForms ==
    ASSUME TypeInv, Acts, CloseDialog \/ OpenCreate \/ CloseCreate
    PROVE  TypeInv'
<1>1. CASE CloseDialog
  BY <1>1 DEF CloseDialog, Closed, Keeps, TypeInv, Acts, WebRegistraturaTypeOK,
     RequestsAreOfDocs, OpHasDocument, BeforeRegistries, AckedHappened,
     serverVars, listVars, createVars
<1>2. CASE OpenCreate
  <2> DEFINE next == [op EXCEPT !.current = FALSE]
  <2>1. next \in OpRow /\ next.pc = op.pc /\ next.doc = op.doc /\ next.query = op.query
    BY DEF TypeInv, WebRegistraturaTypeOK, OpRow
  <2>2. op' = next /\ query # NoQuery /\ mode' = TRUE /\ registered' = FALSE
        /\ UNCHANGED <<serverVars, query, listVars, dialogVars>>
    BY <1>2 DEF OpenCreate
  <2> HIDE DEF next
  <2> QED
    BY <2>1, <2>2 DEF TypeInv, Acts, WebRegistraturaTypeOK, RequestsAreOfDocs, OpHasDocument,
       BeforeRegistries, AckedHappened, serverVars, listVars, dialogVars
<1>3. CASE CloseCreate
  BY <1>3 DEF CloseCreate, TypeInv, Acts, WebRegistraturaTypeOK, RequestsAreOfDocs, OpHasDocument,
     BeforeRegistries, AckedHappened, serverVars, listVars, dialogVars
<1> QED BY <1>1, <1>2, <1>3

\* What Starts leaves in op.
LEMMA StartsType ==
    ASSUME TypeInv, query # NoQuery, NEW kind \in Kinds, NEW d \in Docs,
           NEW form \in Docs \cup {NoDoc}, Starts(kind, d, form)
    PROVE  /\ op' \in OpRow /\ op'.pc = "sent" /\ op'.kind = kind
           /\ op'.doc = d /\ op'.query \in Queries
BY DEF Starts, OpRow, TypeInv, WebRegistraturaTypeOK

LEMMA TypeStarts ==
    ASSUME TypeInv, Acts,
           \/ \E kind \in Kinds \ {"create"} : StartInDialog(kind)
           \/ \E d \in Docs : Submit(d)
    PROVE  TypeInv'
<1>1. CASE \E kind \in Kinds \ {"create"} : StartInDialog(kind)
  <2>1. PICK kind \in Kinds \ {"create"} : StartInDialog(kind)
    BY <1>1
  <2>2. query # NoQuery /\ selected.doc \in Docs /\ editForm \in Docs \cup {NoDoc}
    BY <2>1 DEF StartInDialog, TypeInv, WebRegistraturaTypeOK, BeforeRegistries, Shown
  <2>3. Starts(kind, selected.doc, editForm)
    BY <2>1 DEF StartInDialog
  <2>4. op' \in OpRow /\ op'.pc = "sent" /\ op'.doc \in Docs /\ op'.query \in Queries
    BY <2>2, <2>3, StartsType
  <2>5. detailError' \in BOOLEAN
        /\ UNCHANGED <<serverVars, query, listVars, selected, view, editForm,
                       detailLoading, details, newestDetail, createVars>>
    BY <2>1 DEF StartInDialog, TypeInv, WebRegistraturaTypeOK
  <2> QED
    BY <2>2, <2>4, <2>5 DEF TypeInv, Acts, WebRegistraturaTypeOK, RequestsAreOfDocs,
       OpHasDocument, BeforeRegistries, AckedHappened, serverVars, listVars, createVars
<1>2. CASE \E d \in Docs : Submit(d)
  <2>1. PICK d \in Docs : Submit(d)
    BY <1>2
  <2>2. query # NoQuery /\ Starts("create", d, NoDoc)
        /\ UNCHANGED <<serverVars, query, listVars, dialogVars, createVars>>
    BY <2>1 DEF Submit, TypeInv, BeforeRegistries
  <2>3. op' \in OpRow /\ op'.pc = "sent" /\ op'.doc \in Docs /\ op'.query \in Queries
    BY <2>2, StartsType DEF Kinds
  <2> QED
    BY <2>2, <2>3 DEF TypeInv, Acts, WebRegistraturaTypeOK, RequestsAreOfDocs,
       OpHasDocument, BeforeRegistries, AckedHappened, serverVars, listVars, dialogVars, createVars
<1> QED BY <1>1, <1>2

\* A write of a document, by this client or by another.
LEMMA TypeRevision ==
    ASSUME TypeInv, NEW d \in Docs, revision[d] < MaxRevision,
           revision' = [revision EXCEPT ![d] = @ + 1], UNCHANGED acked
    PROVE  revision' \in [Docs -> 0 .. MaxRevision] /\ AckedHappened'
<1>1. revision[d] + 1 \in 0 .. MaxRevision
  BY WebRegistraturaAssumption DEF TypeInv, WebRegistraturaTypeOK
<1>2. revision' \in [Docs -> 0 .. MaxRevision]
  BY <1>1 DEF TypeInv, WebRegistraturaTypeOK
<1>3. \A x \in Docs : /\ revision[x] \in Int /\ acked[x] \in Int /\ acked[x] =< revision[x]
                      /\ revision'[x] = revision[x] \/ revision'[x] = revision[x] + 1
  BY WebRegistraturaAssumption DEF TypeInv, WebRegistraturaTypeOK, AckedHappened
<1>4. AckedHappened'
  BY <1>3 DEF AckedHappened
<1> QED BY <1>2, <1>4

\* An answer confirms the document of the operation as it is by then.
LEMMA TypeAcknowledge ==
    ASSUME TypeInv, op.pc # "idle", Acknowledge, UNCHANGED revision
    PROVE  /\ acked' \in [Docs -> 0 .. MaxRevision] /\ AckedHappened'
           /\ acked' = [acked EXCEPT ![op.doc] = revision[op.doc]] /\ op.doc \in Docs
<1>1. op.doc \in Docs /\ acked' = [acked EXCEPT ![op.doc] = revision[op.doc]]
  BY DEF TypeInv, OpHasDocument, Acknowledge
<1>2. acked' \in [Docs -> 0 .. MaxRevision]
  BY <1>1 DEF TypeInv, WebRegistraturaTypeOK
<1>3. \A x \in Docs : revision[x] \in Int /\ acked[x] \in Int /\ acked[x] =< revision[x]
  BY DEF TypeInv, WebRegistraturaTypeOK, AckedHappened
<1>4. AckedHappened'
  BY <1>1, <1>3 DEF AckedHappened, TypeInv, WebRegistraturaTypeOK
<1> QED BY <1>1, <1>2, <1>4

LEMMA TypeCommit ==
    ASSUME TypeInv, Acts, Commit \/ \E d \in Docs : OthersWrite(d)
    PROVE  TypeInv'
<1>1. CASE Commit
  <2> DEFINE next == [op EXCEPT !.pc = "committed"]
  <2>1. op.doc \in Docs /\ op.query \in Queries
    BY <1>1 DEF Commit, TypeInv, OpHasDocument
  <2>2. next \in OpRow /\ next.doc = op.doc /\ next.query = op.query /\ next.pc = "committed"
    BY DEF TypeInv, WebRegistraturaTypeOK, OpRow
  <2>3. op' = next /\ UNCHANGED <<acked, query, listVars, dialogVars, createVars>>
    BY <1>1 DEF Commit
  <2>4. revision' \in [Docs -> 0 .. MaxRevision] /\ AckedHappened'
    BY <1>1, <2>1, TypeRevision DEF Commit
  <2>5. query # NoQuery
    BY <1>1 DEF Commit, TypeInv, BeforeRegistries
  <2> HIDE DEF next
  <2> QED
    BY <2>1, <2>2, <2>3, <2>4, <2>5 DEF TypeInv, Acts, WebRegistraturaTypeOK, RequestsAreOfDocs,
       OpHasDocument, BeforeRegistries, listVars, dialogVars, createVars
<1>2. CASE \E d \in Docs : OthersWrite(d)
  <2>1. /\ revision' \in [Docs -> 0 .. MaxRevision] /\ AckedHappened'
        /\ UNCHANGED <<acked, query, listVars, dialogVars, createVars, op>>
    BY <1>2, TypeRevision DEF OthersWrite
  <2> QED
    BY <2>1 DEF TypeInv, Acts, WebRegistraturaTypeOK, RequestsAreOfDocs,
       OpHasDocument, BeforeRegistries, listVars, dialogVars, createVars
<1> QED BY <1>1, <1>2

LEMMA TypeOpEnds ==
    ASSUME TypeInv, Acts, OpFails \/ OpEnds
    PROVE  TypeInv'
<1>1. /\ op' = IdleOp
      /\ {error', detailError'} \subseteq BOOLEAN
      /\ UNCHANGED <<serverVars, query, rows, loading, loads, newestLoad, asked, selected, view,
                     editForm, detailLoading, details, newestDetail, createVars>>
  BY DEF OpFails, OpEnds, TypeInv, WebRegistraturaTypeOK, listVars, dialogVars
<1> QED
  BY <1>1, IdleType DEF TypeInv, Acts, WebRegistraturaTypeOK, RequestsAreOfDocs, OpHasDocument,
     BeforeRegistries, AckedHappened, serverVars, createVars

LEMMA TypeConfirmed ==
    ASSUME TypeInv, Acts, NEW s \in Details, Confirmed(s) \/ OpenCreated(s)
    PROVE  TypeInv'
<1>1. op.pc # "idle" /\ op.doc \in Docs /\ op.query \in Queries /\ query # NoQuery
  BY DEF Confirmed, OpenCreated, TypeInv, OpHasDocument, BeforeRegistries
<1>2. /\ BeginDetail(s, op.doc, "details") /\ "details" \in Views
      /\ op' = [op EXCEPT !.pc = "detail", !.waits = s]
      /\ UNCHANGED <<revision, query, listVars, createVars>>
  BY DEF Confirmed, OpenCreated, serverVars, Views
<1>3. /\ op' \in OpRow /\ op'.pc = "detail" /\ op'.doc = op.doc /\ op'.query = op.query
  BY <1>1, <1>2, OpGoesOn
<1>4. acked' \in [Docs -> 0 .. MaxRevision] /\ AckedHappened'
  <2>1. CASE Acknowledge
    BY <1>1, <1>2, <2>1, TypeAcknowledge
  <2>2. CASE UNCHANGED acked
    BY <1>2, <2>2 DEF TypeInv, WebRegistraturaTypeOK, AckedHappened
  <2> QED BY <2>1, <2>2 DEF Confirmed, OpenCreated, serverVars
<1> QED
  BY <1>1, <1>2, <1>3, <1>4, BeginDetailType DEF TypeInv, Acts, WebRegistraturaTypeOK,
     OpHasDocument, BeforeRegistries, listVars, createVars

LEMMA TypeReloads ==
    ASSUME TypeInv, Acts, NEW l \in Loads,
           ReloadAfterDetail(l) \/ \E failed \in BOOLEAN : Attached(l, failed)
    PROVE  TypeInv'
<1>1. op.pc # "idle" /\ op.doc \in Docs /\ op.query \in Queries /\ query # NoQuery
  BY DEF ReloadAfterDetail, Attached, TypeInv, OpHasDocument, BeforeRegistries
<1>2. /\ BeginLoad(l, op.query) /\ mode' \in BOOLEAN
      /\ op' = [op EXCEPT !.pc = "list", !.waits = l]
      /\ UNCHANGED <<serverVars, query, dialogVars, registered>>
  BY DEF ReloadAfterDetail, Attached, AfterAttachments, createVars, TypeInv, WebRegistraturaTypeOK
<1>3. /\ op' \in OpRow /\ op'.pc = "list" /\ op'.doc = op.doc /\ op'.query = op.query
  BY <1>1, <1>2, OpGoesOn
<1> QED
  BY <1>1, <1>2, <1>3, BeginLoadType DEF TypeInv, Acts, WebRegistraturaTypeOK, RequestsAreOfDocs,
     OpHasDocument, BeforeRegistries, AckedHappened, serverVars, dialogVars

LEMMA TypeRegisters ==
    ASSUME TypeInv, Acts, Registers
    PROVE  TypeInv'
<1> DEFINE next == [op EXCEPT !.pc = "attaching"]
<1>1. op.pc # "idle" /\ op.doc \in Docs /\ op.query \in Queries /\ query # NoQuery
  BY DEF Registers, TypeInv, OpHasDocument, BeforeRegistries
<1>2. next \in OpRow /\ next.doc = op.doc /\ next.query = op.query /\ next.pc = "attaching"
  BY DEF TypeInv, WebRegistraturaTypeOK, OpRow
<1>3. /\ op' = next /\ registered' \in BOOLEAN
      /\ UNCHANGED <<revision, query, listVars, dialogVars, mode>>
  BY DEF Registers, TypeInv, WebRegistraturaTypeOK, OpRow
<1>4. acked' \in [Docs -> 0 .. MaxRevision] /\ AckedHappened'
  BY <1>1, <1>3, TypeAcknowledge DEF Registers
<1> HIDE DEF next
<1> QED
  BY <1>1, <1>2, <1>3, <1>4 DEF TypeInv, Acts, WebRegistraturaTypeOK, RequestsAreOfDocs,
     OpHasDocument, BeforeRegistries, listVars, dialogVars

-----------------------------------------------------------------------------
(* The list.                                                                *)

\* However requests of lists overlap, the rows are those asked for last.
RowsAnswerNewestRequest == (~loading /\ ~error) => rows = asked

\* The newest request decides the spinner and asks for what was asked last.
ListInv ==
    /\ newestLoad = NoRequest => query = NoQuery /\ rows = asked /\ \A l \in Loads : loads[l] = NoQuery
    /\ newestLoad # NoRequest => /\ query # NoQuery
                                 /\ loading <=> loads[newestLoad] # NoQuery
                                 /\ loading => loads[newestLoad] = asked
    /\ RowsAnswerNewestRequest

LEMMA ListBegun ==
    ASSUME TypeInv, NEW l \in Loads, NEW q \in Queries, BeginLoad(l, q), query' # NoQuery
    PROVE  ListInv'
<1>1. loads'[l] = q /\ newestLoad' = l /\ asked' = q /\ loading' = TRUE
  BY DEF BeginLoad, TypeInv, WebRegistraturaTypeOK
<1>2. q # NoQuery /\ l # NoRequest
  BY WebRegistraturaAssumption
<1> QED
  BY <1>1, <1>2 DEF ListInv, RowsAnswerNewestRequest

LEMMA ListKept ==
    ASSUME ListInv, UNCHANGED <<query, rows, loading, loads, newestLoad, asked>>, error => error'
    PROVE  ListInv'
BY DEF ListInv, RowsAnswerNewestRequest

LEMMA ListLoadAnswered ==
    ASSUME TypeInv, ListInv, NEW l \in Loads, NEW failed \in BOOLEAN, LoadAnswered(l, failed)
    PROVE  ListInv'
<1>1. /\ loads[l] # NoQuery /\ loads' = [loads EXCEPT ![l] = NoQuery]
      /\ UNCHANGED <<query, newestLoad, asked>>
  BY DEF LoadAnswered
<1>2. newestLoad # NoRequest /\ newestLoad \in Loads
  BY <1>1 DEF ListInv, TypeInv, WebRegistraturaTypeOK
<1>3. CASE newestLoad = l
  BY <1>1, <1>2, <1>3 DEF LoadAnswered, CurrentLoad, ListInv, RowsAnswerNewestRequest,
     TypeInv, WebRegistraturaTypeOK
<1>4. CASE newestLoad # l
  BY <1>1, <1>2, <1>4 DEF LoadAnswered, CurrentLoad, ListInv, RowsAnswerNewestRequest,
     TypeInv, WebRegistraturaTypeOK
<1> QED BY <1>3, <1>4

-----------------------------------------------------------------------------
(* The dialog.                                                              *)

\* What was read of a document is as new as what was confirmed of it.
Fresh(read) == read.revision >= acked[read.doc]

\* Its registration is confirmed and about to open it.
BeingRegistered(d) == op.kind = "create" /\ op.pc \in {"attaching", "list"} /\ op.doc = d

\* An operation of the dialog is at the server: its end reads the document again or
\* is an error.
AtServer == op.kind # "create" /\ op.pc \in {"sent", "committed"}

DialogInv ==
    /\ newestDetail \in Details /\ details[newestDetail].pc = "read"
         => Fresh(details[newestDetail]) \/ BeingRegistered(details[newestDetail].doc)
    /\ selected # Nothing /\ ~detailLoading /\ ~detailError
         => Fresh(selected) \/ BeingRegistered(selected.doc) \/ AtServer

LEMMA DialogBegun ==
    ASSUME TypeInv, NEW s \in Details, NEW d \in Docs, NEW v \in Views, BeginDetail(s, d, v)
    PROVE  DialogInv'
BY DEF BeginDetail, DialogInv, TypeInv, WebRegistraturaTypeOK

\* Nothing of the dialog changes but for an error, and the operation stays where it is.
LEMMA DialogKept ==
    ASSUME DialogInv, UNCHANGED <<acked, selected, detailLoading, details, newestDetail>>,
           detailError => detailError',
           op'.pc = op.pc, op'.kind = op.kind, op'.doc = op.doc
    PROVE  DialogInv'
BY DEF DialogInv, Fresh, BeingRegistered, AtServer

\* While no operation is in doubt the dialog is fresh, wherever the operation goes.
LEMMA DialogSettled ==
    ASSUME DialogInv, UNCHANGED <<acked, selected, detailLoading, details, newestDetail>>,
           detailError => detailError', ~AtServer, \A d \in Docs \cup {NoDoc} : ~BeingRegistered(d),
           TypeInv
    PROVE  DialogInv'
<1>1. newestDetail \in Details => details[newestDetail].doc \in Docs \cup {NoDoc}
  BY DEF TypeInv, WebRegistraturaTypeOK
<1>2. selected.doc \in Docs \cup {NoDoc}
  BY DEF TypeInv, WebRegistraturaTypeOK, Shown, Nothing
<1> QED
  BY <1>1, <1>2 DEF DialogInv, Fresh

LEMMA DialogRead ==
    ASSUME TypeInv, DialogInv, NEW s \in Details, DetailRead(s)
    PROVE  DialogInv'
<1>1. details[s] \in DetailRequest
  BY DEF TypeInv, RequestsAreOfDocs, DetailRead, Unsent
<1>2. /\ details'[s].doc = details[s].doc
      /\ details'[s].revision = revision[details[s].doc]
      /\ \A x \in Details \ {s} : details'[x] = details[x]
  BY <1>1 DEF DetailRead, TypeInv, WebRegistraturaTypeOK, DetailRequest
<1>3. UNCHANGED <<acked, newestDetail, selected, detailLoading, detailError, op>>
  BY DEF DetailRead, serverVars
<1>4. revision[details[s].doc] >= acked[details[s].doc]
  BY <1>1 DEF TypeInv, AckedHappened, DetailRequest, WebRegistraturaTypeOK
<1> QED
  BY <1>2, <1>3, <1>4 DEF DialogInv, Fresh, BeingRegistered, AtServer

LEMMA DialogDetailEnds ==
    ASSUME TypeInv, DialogInv, NEW s \in Details, DetailArrives(s) \/ DetailFails(s)
    PROVE  DialogInv'
<1>1. /\ details' = [details EXCEPT ![s] = Unsent]
      /\ UNCHANGED <<acked, newestDetail>>
      /\ op'.pc = op.pc /\ op'.kind = op.kind /\ op'.doc = op.doc
  BY ContinueType DEF DetailArrives, DetailFails, serverVars
<1>2. details'[s].pc = "none" /\ \A x \in Details \ {s} : details'[x] = details[x]
  BY <1>1 DEF TypeInv, WebRegistraturaTypeOK, Unsent
<1>3. newestDetail' \in Details /\ details'[newestDetail'].pc = "read"
         => (Fresh(details[newestDetail]) \/ BeingRegistered(details[newestDetail].doc))'
  BY <1>1, <1>2 DEF DialogInv, Fresh, BeingRegistered
<1>4. CASE DetailArrives(s) /\ newestDetail = s
  BY <1>1, <1>4 DEF DetailArrives, CurrentDetail, DialogInv, Fresh, BeingRegistered, AtServer,
     TypeInv, WebRegistraturaTypeOK, Unsent
<1>5. CASE DetailFails(s) /\ newestDetail = s
  BY <1>3, <1>5 DEF DetailFails, CurrentDetail, DialogInv
<1>6. CASE newestDetail # s
  <2>1. UNCHANGED <<selected, detailLoading, detailError>>
    BY <1>6 DEF DetailArrives, DetailFails, CurrentDetail
  <2> QED
    BY <1>1, <1>3, <2>1 DEF DialogInv, Fresh, BeingRegistered, AtServer
<1> QED BY <1>4, <1>5, <1>6

LEMMA DialogRegisters ==
    ASSUME TypeInv, DialogInv, Registers
    PROVE  DialogInv'
<1>1. /\ op.pc = "committed" /\ op.kind = "create"
      /\ op'.pc = "attaching" /\ op'.kind = "create" /\ op'.doc = op.doc
      /\ UNCHANGED dialogVars
  BY DEF Registers, TypeInv, WebRegistraturaTypeOK, OpRow
<1>2. acked' = [acked EXCEPT ![op.doc] = revision[op.doc]]
  BY DEF Registers, Acknowledge
<1>3. /\ newestDetail \in Details /\ details[newestDetail].pc = "read"
           => details[newestDetail].doc \in Docs
      /\ selected # Nothing => selected.doc \in Docs
  BY DEF TypeInv, WebRegistraturaTypeOK, RequestsAreOfDocs, Unsent, DetailRequest, Shown
<1>4. \A d \in Docs : d # op.doc => acked'[d] = acked[d]
  BY <1>2 DEF TypeInv, WebRegistraturaTypeOK
<1> QED
  BY <1>1, <1>3, <1>4 DEF DialogInv, Fresh, BeingRegistered, AtServer, dialogVars

-----------------------------------------------------------------------------
(* The whole workspace.                                                     *)

\* A confirmed registration keeps its form open only while its attachments follow.
CreateInv == registered /\ mode => op.kind = "create" /\ op.pc = "attaching"

Inv == TypeInv /\ ListInv /\ DialogInv /\ CreateInv

LEMMA InitInv == Init => Inv
<1> SUFFICES ASSUME Init PROVE Inv
  OBVIOUS
<1>1. TypeInv
  BY TypeInit
<1>2. ListInv
  BY DEF Init, ListInv, RowsAnswerNewestRequest
<1>3. DialogInv /\ CreateInv
  BY WebRegistraturaAssumption DEF Init, DialogInv, CreateInv
<1> QED BY <1>1, <1>2, <1>3 DEF Inv

LEMMA InvUserActs ==
    ASSUME Inv, Acts, UserActs
    PROVE  Inv'
<1> USE DEF Inv
<1>1. ASSUME NEW l \in Loads, NEW q \in Queries, ChangeQuery(l, q) PROVE Inv'
  <2>1. TypeInv'
    BY <1>1, TypeLists
  <2>2. BeginLoad(l, q) /\ query' # NoQuery /\ UNCHANGED <<serverVars, dialogVars, createVars, op>>
    BY <1>1, WebRegistraturaAssumption DEF ChangeQuery
  <2>3. ListInv'
    BY <2>2, ListBegun
  <2> QED
    BY <2>1, <2>2, <2>3, DialogKept DEF serverVars, dialogVars, createVars, CreateInv
<1>2. ASSUME NEW s \in Details, NEW d \in Docs, NEW v \in OpenedViews, UserOpens(s, d, v) PROVE Inv'
  <2>1. v \in Views /\ BeginDetail(s, d, v) /\ UNCHANGED <<serverVars, query, listVars, createVars, op>>
    BY <1>2, WebRegistraturaAssumption DEF UserOpens, Views
  <2>2. DialogInv'
    BY <2>1, DialogBegun
  <2> QED
    BY <1>2, <2>1, <2>2, TypeUserOpens, ListKept DEF listVars, createVars, CreateInv
<1>3. CASE CloseDialog
  <2>1. selected' = Nothing /\ UNCHANGED <<serverVars, query, listVars, details, newestDetail, createVars, op>>
    BY <1>3 DEF CloseDialog, Closed, Keeps
  <2>2. DialogInv'
    BY <2>1 DEF DialogInv, Fresh, BeingRegistered, serverVars
  <2> QED
    BY <1>3, <2>1, <2>2, TypeForms, ListKept DEF listVars, createVars, CreateInv
<1>4. CASE OpenCreate \/ CloseCreate
  <2>1. /\ UNCHANGED <<serverVars, query, listVars, dialogVars>>
        /\ op'.pc = op.pc /\ op'.kind = op.kind /\ op'.doc = op.doc
        /\ ~registered' \/ ~mode'
    BY <1>4 DEF OpenCreate, CloseCreate, TypeInv, WebRegistraturaTypeOK, OpRow
  <2> QED
    BY <1>4, <2>1, TypeForms, ListKept, DialogKept DEF serverVars, listVars, dialogVars, CreateInv
<1>5. ASSUME NEW kind \in Kinds \ {"create"}, StartInDialog(kind) PROVE Inv'
  <2>1. /\ op.pc = "idle" /\ op'.pc = "sent" /\ op'.kind = kind
        /\ UNCHANGED <<serverVars, query, listVars, selected, detailLoading, details,
                       newestDetail, createVars>>
    BY <1>5 DEF StartInDialog, Starts
  <2>2. DialogInv'
    BY <2>1 DEF DialogInv, Fresh, BeingRegistered, AtServer, serverVars
  <2> QED
    BY <1>5, <2>1, <2>2, TypeStarts, ListKept DEF listVars, createVars, CreateInv
<1>6. ASSUME NEW d \in Docs, Submit(d) PROVE Inv'
  <2>1. /\ op.pc = "idle" /\ UNCHANGED <<serverVars, query, listVars, dialogVars, createVars>>
    BY <1>6 DEF Submit, Starts
  <2>2. ~AtServer /\ \A x \in Docs \cup {NoDoc} : ~BeingRegistered(x)
    BY <2>1 DEF AtServer, BeingRegistered
  <2> QED
    BY <1>6, <2>1, <2>2, TypeStarts, ListKept, DialogSettled
       DEF serverVars, listVars, dialogVars, createVars, CreateInv
<1> QED
  BY <1>1, <1>2, <1>3, <1>4, <1>5, <1>6 DEF UserActs

LEMMA InvOpStep ==
    ASSUME Inv, Acts, OpStep
    PROVE  Inv'
<1> USE DEF Inv
<1>1. CASE Commit
  <2>1. /\ op.pc = "sent" /\ op'.pc = "committed" /\ op'.kind = op.kind /\ op'.doc = op.doc
        /\ UNCHANGED <<acked, query, listVars, dialogVars, createVars>>
    BY <1>1 DEF Commit, TypeInv, WebRegistraturaTypeOK, OpRow
  <2>2. DialogInv'
    BY <2>1 DEF DialogInv, Fresh, BeingRegistered, AtServer, dialogVars
  <2> QED
    BY <1>1, <2>1, <2>2, TypeCommit, ListKept DEF listVars, createVars, CreateInv
<1>2. CASE OpFails
  <2>1. /\ op.pc \in {"sent", "committed"} /\ op' = IdleOp
        /\ op.kind = "create" => UNCHANGED detailError
        /\ op.kind # "create" => detailError' = TRUE
        /\ error => error'
        /\ UNCHANGED <<serverVars, query, rows, loading, loads, newestLoad, asked, selected,
                       detailLoading, details, newestDetail, createVars>>
    BY <1>2 DEF OpFails
  <2>2. DialogInv'
    BY <2>1, IdleType DEF DialogInv, Fresh, BeingRegistered, AtServer, serverVars
  <2> QED
    BY <1>2, <2>1, <2>2, TypeOpEnds, ListKept DEF createVars, CreateInv
<1>3. CASE Registers
  <2>1. /\ op.pc = "committed" /\ op'.pc = "attaching" /\ op'.kind = "create"
        /\ UNCHANGED <<query, listVars>>
    BY <1>3 DEF Registers, TypeInv, WebRegistraturaTypeOK, OpRow
  <2> QED
    BY <1>3, <2>1, TypeRegisters, DialogRegisters, ListKept DEF listVars, CreateInv
<1>4. CASE OpEnds
  <2>1. /\ op.pc = "detail" \/ (op.pc = "list" /\ op.kind # "create")
        /\ UNCHANGED <<serverVars, query, listVars, dialogVars, createVars>>
    BY <1>4 DEF OpEnds
  <2>2. ~AtServer /\ \A x \in Docs \cup {NoDoc} : ~BeingRegistered(x)
    BY <2>1 DEF AtServer, BeingRegistered
  <2> QED
    BY <1>4, <2>1, <2>2, TypeOpEnds, ListKept, DialogSettled
       DEF serverVars, listVars, dialogVars, createVars, CreateInv
<1>5. ASSUME NEW s \in Details, Confirmed(s) \/ OpenCreated(s) PROVE Inv'
  <2>1. /\ op.pc \in {"committed", "list"} /\ op.doc \in Docs
        /\ BeginDetail(s, op.doc, "details") /\ UNCHANGED <<query, listVars, createVars>>
    BY <1>5 DEF Confirmed, OpenCreated, TypeInv, OpHasDocument
  <2>2. DialogInv'
    BY <2>1, DialogBegun DEF Views
  <2> QED
    BY <1>5, <2>1, <2>2, TypeConfirmed, ListKept DEF listVars, createVars, CreateInv
<1>6. ASSUME NEW l \in Loads, ReloadAfterDetail(l) PROVE Inv'
  <2>1. /\ op.pc = "detail" /\ op.query \in Queries /\ query' # NoQuery /\ BeginLoad(l, op.query)
        /\ UNCHANGED <<serverVars, dialogVars, createVars>>
    BY <1>6 DEF ReloadAfterDetail, TypeInv, OpHasDocument, BeforeRegistries
  <2>2. ~AtServer /\ \A x \in Docs \cup {NoDoc} : ~BeingRegistered(x)
    BY <2>1 DEF AtServer, BeingRegistered
  <2> QED
    BY <1>6, <2>1, <2>2, TypeReloads, ListBegun, DialogSettled
       DEF serverVars, dialogVars, createVars, CreateInv
<1>7. ASSUME NEW l \in Loads, NEW failed \in BOOLEAN, Attached(l, failed) PROVE Inv'
  <2>1. /\ op.pc = "attaching" /\ op.query \in Queries /\ query' # NoQuery /\ BeginLoad(l, op.query)
        /\ op'.pc = "list" /\ op'.kind = op.kind /\ op'.doc = op.doc /\ mode' = FALSE
        /\ UNCHANGED <<serverVars, dialogVars>>
    BY <1>7 DEF Attached, AfterAttachments, TypeInv, WebRegistraturaTypeOK, OpRow, OpHasDocument,
       BeforeRegistries
  <2>2. DialogInv'
    BY <2>1 DEF DialogInv, Fresh, BeingRegistered, AtServer, serverVars, dialogVars
  <2> QED
    BY <1>7, <2>1, <2>2, TypeReloads, ListBegun DEF CreateInv
<1> QED
  BY <1>1, <1>2, <1>3, <1>4, <1>5, <1>6, <1>7 DEF OpStep

LEMMA InvClientActs ==
    ASSUME Inv, Acts, ClientActs
    PROVE  Inv'
<1> USE DEF Inv
<1>1. ASSUME NEW l \in Loads, NEW failed \in BOOLEAN, LoadAnswered(l, failed) PROVE Inv'
  <2>1. /\ UNCHANGED <<serverVars, dialogVars, createVars>>
        /\ op'.pc = op.pc /\ op'.kind = op.kind /\ op'.doc = op.doc
    BY <1>1, ContinueType DEF LoadAnswered
  <2> QED
    BY <1>1, <2>1, TypeLoadAnswered, ListLoadAnswered, DialogKept
       DEF serverVars, dialogVars, createVars, CreateInv
<1>2. ASSUME NEW l \in Loads, NEW q \in Queries, RegistriesArrive(l, q) PROVE Inv'
  <2>1. BeginLoad(l, q) /\ query' # NoQuery /\ UNCHANGED <<serverVars, dialogVars, createVars, op>>
    BY <1>2, WebRegistraturaAssumption DEF RegistriesArrive
  <2> QED
    BY <1>2, <2>1, TypeLists, ListBegun, DialogKept DEF serverVars, dialogVars, createVars, CreateInv
<1>3. CASE RegistriesFail
  <2>1. /\ query = NoQuery /\ error' = TRUE
        /\ UNCHANGED <<serverVars, query, rows, loads, newestLoad, asked, dialogVars, createVars, op>>
    BY <1>3 DEF RegistriesFail
  <2>2. ListInv'
    BY <2>1 DEF ListInv, RowsAnswerNewestRequest
  <2> QED
    BY <1>3, <2>1, <2>2, TypeLists, DialogKept DEF serverVars, dialogVars, createVars, CreateInv
<1>4. ASSUME NEW s \in Details, DetailAnswered(s) PROVE Inv'
  <2>1. CASE DetailRead(s)
    BY <2>1, TypeDetailRead, DialogRead, ListKept DEF DetailRead, listVars, createVars, CreateInv
  <2>2. CASE DetailArrives(s) \/ DetailFails(s)
    <3>1. /\ UNCHANGED <<query, listVars, createVars>>
          /\ op'.pc = op.pc /\ op'.kind = op.kind
      BY <2>2, ContinueType DEF DetailArrives, DetailFails
    <3> QED
      BY <2>2, <3>1, TypeDetailEnds, DialogDetailEnds, ListKept DEF listVars, createVars, CreateInv
  <2> QED BY <1>4, <2>1, <2>2 DEF DetailAnswered
<1>5. CASE OpStep
  BY <1>5, InvOpStep
<1>6. ASSUME NEW d \in Docs, OthersWrite(d) PROVE Inv'
  BY <1>6, TypeCommit, ListKept, DialogKept DEF OthersWrite, listVars, dialogVars, createVars, CreateInv
<1> QED
  BY <1>1, <1>2, <1>3, <1>4, <1>5, <1>6 DEF ClientActs, ListAnswered

LEMMA InvNext == Inv /\ [Next]_registryVars => Inv'
<1> SUFFICES ASSUME Inv, [Next]_registryVars PROVE Inv'
  OBVIOUS
<1>1. CASE ClientActs /\ UNCHANGED acts
  BY <1>1, InvClientActs DEF Acts, Inv, TypeInv, WebRegistraturaTypeOK
<1>2. CASE acts < MaxActs /\ UserActs /\ acts' = acts + 1
  BY <1>2, InvUserActs, WebRegistraturaAssumption DEF Acts, Inv, TypeInv, WebRegistraturaTypeOK
<1>3. CASE UNCHANGED registryVars
  <2>1. UNCHANGED <<serverVars, query, listVars, dialogVars, createVars, op, acts>>
    BY <1>3 DEF registryVars, screenVars
  <2>2. TypeInv'
    BY <2>1 DEF Inv, TypeInv, WebRegistraturaTypeOK, RequestsAreOfDocs, OpHasDocument,
       BeforeRegistries, AckedHappened, serverVars, listVars, dialogVars, createVars
  <2> QED
    BY <2>1, <2>2, ListKept, DialogKept DEF Inv, serverVars, listVars, dialogVars, createVars, CreateInv
<1> QED BY <1>1, <1>2, <1>3 DEF Next

LEMMA InvAlways == RegistrySpec => []Inv
BY InitInv, InvNext, PTL DEF RegistrySpec

\* The types of the screen, in particular that every operation has its document and
\* nothing is asked for before the registries are known.
THEOREM WebRegistraturaTypes == RegistrySpec => []WebRegistraturaTypeOK
BY InvAlways, PTL DEF Inv, TypeInv

\* The newest list request asks for what the controls ask.
LEMMA AskedByControls ==
    ASSUME Inv, QueryIsOfOperation, asked = query, [Next]_registryVars PROVE asked' = query'
<1>1. ASSUME NEW l \in Loads, NEW q \in Queries, RegistriesArrive(l, q) \/ ChangeQuery(l, q)
      PROVE  asked' = query'
  BY <1>1 DEF RegistriesArrive, ChangeQuery, BeginLoad
<1>2. ASSUME NEW l \in Loads, NEW failed \in BOOLEAN, ReloadAfterDetail(l) \/ Attached(l, failed)
      PROVE  asked' = query'
  <2>1. op.query = query /\ query' = query /\ asked' = op.query
    BY <1>2 DEF ReloadAfterDetail, Attached, BeginLoad, QueryIsOfOperation
  <2> QED BY <2>1
<1>3. CASE \/ RegistriesFail \/ CloseDialog \/ OpenCreate \/ CloseCreate
           \/ Commit \/ OpFails \/ Registers \/ OpEnds
           \/ \E s \in Details, d \in Docs, v \in OpenedViews : UserOpens(s, d, v)
           \/ \E kind \in Kinds \ {"create"} : StartInDialog(kind)
           \/ \E d \in Docs : Submit(d) \/ OthersWrite(d)
           \/ \E l \in Loads : ListAnswered(l)
           \/ \E s \in Details : DetailAnswered(s) \/ Confirmed(s) \/ OpenCreated(s)
           \/ UNCHANGED registryVars
  <2>1. UNCHANGED <<query, asked>>
    BY <1>3 DEF RegistriesFail, CloseDialog, OpenCreate, CloseCreate, Commit, OpFails, Registers,
       OpEnds, UserOpens, StartInDialog, Submit, OthersWrite, ListAnswered, LoadAnswered,
       DetailAnswered, DetailRead, DetailArrives, DetailFails, Confirmed, OpenCreated,
       registryVars, screenVars, listVars
  <2> QED BY <2>1
<1> QED BY <1>1, <1>2, <1>3 DEF Next, UserActs, ClientActs, OpStep

\* REG-005, in every life of the screen in which no operation outlives the query it was
\* started on: rows at rest answer the registry, filters, page and order of the screen.
THEOREM OnlyOperationsBringStaleRows == RegistrySpec => RowsFollowControls
<1>1. Init => asked = query
  BY DEF Init
<1>2. Inv /\ QueryIsOfOperation /\ asked = query /\ [Next]_registryVars => (asked = query)'
  BY AskedByControls
<1>3. Inv /\ asked = query => RowsAnswerControls
  BY DEF Inv, ListInv, RowsAnswerNewestRequest, RowsAnswerControls
<1> QED BY <1>1, <1>2, <1>3, InvAlways, PTL DEF RegistrySpec, RowsFollowControls

\* A dialog at rest never shows a document older than what was confirmed of it.
THEOREM ConfirmedIsShown == RegistrySpec => []SavedIsShown
<1>1. Inv => SavedIsShown
  BY DEF Inv, DialogInv, SavedIsShown, Fresh, BeingRegistered, AtServer
<1> QED BY <1>1, InvAlways, PTL

\* The form of a confirmed registration cannot be sent again.
THEOREM RegistrationIsSentOnce == RegistrySpec => []RegisteredOnce
<1>1. Inv => RegisteredOnce
  BY DEF Inv, CreateInv, RegisteredOnce
<1> QED BY <1>1, InvAlways, PTL
-----------------------------------------------------------------------------
(* Whose form the dialog shows.                                             *)

\* The workflow action takes the error of a dialog away before it is answered.
ErrorWasHidden == op.pc \in {"sent", "committed"} /\ op.kind = "workflow"
FormInv ==
    selected # Nothing /\ ~detailLoading /\ ~detailError => editForm = selected.doc \/ ErrorWasHidden

LEMMA FormUserActs ==
    ASSUME Inv, FormInv, UserActs
    PROVE  FormInv'
<1>1. ASSUME NEW l \in Loads, NEW q \in Queries, ChangeQuery(l, q) PROVE FormInv'
  BY <1>1 DEF ChangeQuery, FormInv, ErrorWasHidden, dialogVars
<1>2. ASSUME NEW s \in Details, NEW d \in Docs, NEW v \in OpenedViews, UserOpens(s, d, v) PROVE FormInv'
  BY <1>2 DEF UserOpens, BeginDetail, FormInv
<1>3. CASE CloseDialog
  BY <1>3 DEF CloseDialog, Closed, FormInv
<1>4. CASE OpenCreate \/ CloseCreate
  <2>1. op'.pc = op.pc /\ op'.kind = op.kind /\ UNCHANGED dialogVars
    BY <1>4 DEF OpenCreate, CloseCreate, Inv, TypeInv, WebRegistraturaTypeOK, OpRow
  <2> QED BY <2>1 DEF FormInv, ErrorWasHidden, dialogVars
<1>5. ASSUME NEW kind \in Kinds \ {"create"}, StartInDialog(kind) PROVE FormInv'
  <2>1. /\ op.pc = "idle" /\ op'.pc = "sent" /\ op'.kind = kind
        /\ detailError' = (detailError /\ kind # "workflow")
        /\ UNCHANGED <<selected, editForm, detailLoading>>
    BY <1>5 DEF StartInDialog, Starts
  <2>2. CASE kind = "workflow"
    BY <2>1, <2>2 DEF FormInv, ErrorWasHidden
  <2>3. CASE kind # "workflow"
    BY <2>1, <2>3 DEF FormInv, ErrorWasHidden
  <2> QED BY <2>2, <2>3
<1>6. ASSUME NEW d \in Docs, Submit(d) PROVE FormInv'
  BY <1>6 DEF Submit, Starts, FormInv, ErrorWasHidden, dialogVars
<1> QED
  BY <1>1, <1>2, <1>3, <1>4, <1>5, <1>6 DEF UserActs

LEMMA FormOpStep ==
    ASSUME Inv, FormInv, OpStep
    PROVE  FormInv'
<1>1. CASE Commit
  <2>1. op.pc = "sent" /\ op'.pc = "committed" /\ op'.kind = op.kind /\ UNCHANGED dialogVars
    BY <1>1 DEF Commit, Inv, TypeInv, WebRegistraturaTypeOK, OpRow
  <2> QED BY <2>1 DEF FormInv, ErrorWasHidden, dialogVars
<1>2. CASE OpFails
  <2>1. CASE op.kind = "create"
    BY <1>2, <2>1 DEF OpFails, FormInv, ErrorWasHidden
  <2>2. CASE op.kind # "create"
    BY <1>2, <2>2 DEF OpFails, FormInv
  <2> QED BY <2>1, <2>2
<1>3. CASE Registers
  BY <1>3 DEF Registers, FormInv, ErrorWasHidden, dialogVars
<1>4. CASE OpEnds
  BY <1>4 DEF OpEnds, FormInv, ErrorWasHidden, dialogVars
<1>5. ASSUME NEW s \in Details, Confirmed(s) \/ OpenCreated(s) PROVE FormInv'
  BY <1>5 DEF Confirmed, OpenCreated, BeginDetail, FormInv
<1>6. ASSUME NEW l \in Loads, ReloadAfterDetail(l) PROVE FormInv'
  BY <1>6 DEF ReloadAfterDetail, FormInv, ErrorWasHidden, dialogVars
<1>7. ASSUME NEW l \in Loads, NEW failed \in BOOLEAN, Attached(l, failed) PROVE FormInv'
  BY <1>7 DEF Attached, FormInv, ErrorWasHidden, dialogVars
<1> QED
  BY <1>1, <1>2, <1>3, <1>4, <1>5, <1>6, <1>7 DEF OpStep

LEMMA FormClientActs ==
    ASSUME Inv, FormInv, ClientActs
    PROVE  FormInv'
<1>1. ASSUME NEW l \in Loads, NEW failed \in BOOLEAN, LoadAnswered(l, failed) PROVE FormInv'
  <2>1. op'.pc = op.pc /\ op'.kind = op.kind /\ UNCHANGED dialogVars
    BY <1>1, ContinueType DEF LoadAnswered, Inv
  <2> QED BY <2>1 DEF FormInv, ErrorWasHidden, dialogVars
<1>2. ASSUME NEW l \in Loads, NEW q \in Queries, RegistriesArrive(l, q) PROVE FormInv'
  BY <1>2 DEF RegistriesArrive, FormInv, ErrorWasHidden, dialogVars
<1>3. CASE RegistriesFail
  BY <1>3 DEF RegistriesFail, FormInv, ErrorWasHidden, dialogVars
<1>4. ASSUME NEW s \in Details, DetailRead(s) PROVE FormInv'
  BY <1>4 DEF DetailRead, FormInv, ErrorWasHidden
<1>5. ASSUME NEW s \in Details, DetailArrives(s) \/ DetailFails(s) PROVE FormInv'
  <2>1. op'.pc = op.pc /\ op'.kind = op.kind
    BY <1>5, ContinueType DEF DetailArrives, DetailFails, Inv
  <2>2. CASE CurrentDetail(s) /\ DetailArrives(s)
    <3>1. editForm' = details[s].doc /\ selected'.doc = details[s].doc
      BY <2>2 DEF DetailArrives
    <3> QED BY <3>1 DEF FormInv
  <2>3. CASE CurrentDetail(s) /\ DetailFails(s)
    BY <2>3 DEF DetailFails, FormInv
  <2>4. CASE ~CurrentDetail(s)
    <3>1. UNCHANGED <<selected, editForm, detailLoading, detailError>>
      BY <1>5, <2>4 DEF DetailArrives, DetailFails
    <3> QED BY <2>1, <3>1 DEF FormInv, ErrorWasHidden
  <2> QED BY <1>5, <2>2, <2>3, <2>4
<1>6. CASE OpStep
  BY <1>6, FormOpStep
<1>7. ASSUME NEW d \in Docs, OthersWrite(d) PROVE FormInv'
  BY <1>7 DEF OthersWrite, FormInv, ErrorWasHidden, dialogVars
<1> QED
  BY <1>1, <1>2, <1>3, <1>4, <1>5, <1>6, <1>7 DEF ClientActs, ListAnswered, DetailAnswered

LEMMA FormNext ==
    ASSUME Inv, FormInv, [Next]_registryVars
    PROVE  FormInv'
<1>1. CASE UNCHANGED registryVars
  BY <1>1 DEF registryVars, screenVars, dialogVars, FormInv, ErrorWasHidden
<1> QED BY <1>1, FormUserActs, FormClientActs DEF Next

LEMMA FormAlways == RegistrySpec => []FormInv
<1>1. Init => FormInv
  BY DEF Init, FormInv
<1> QED BY <1>1, FormNext, InvAlways, PTL DEF RegistrySpec

\* The user saves to one document what the form of another one holds.
SavedFromForeignForm == StartInDialog("edit") /\ editForm # selected.doc

\* What a user saves from the edit form is entered in the form of another document
\* only while the dialog shows that the detail could not be loaded: the case that
\* breaks FormBelongsToDocument is the only one that does.
THEOREM OnlyFailedLoadsMisplace == RegistrySpec => [][SavedFromForeignForm => detailError]_registryVars
<1>1. FormInv => [SavedFromForeignForm => detailError]_registryVars
  BY DEF FormInv, ErrorWasHidden, SavedFromForeignForm, StartInDialog, Starts
<1> QED BY <1>1, FormAlways, PTL DEF RegistrySpec
=============================================================================
