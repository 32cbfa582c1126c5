---------------------------- MODULE WebRegistratura ----------------------------
(***************************************************************************)
(* The registry workspace of the React client: a list that answers a query *)
(* (registry, filters, page and order), a dialog that shows one document   *)
(* in one of five views, and the operations started from it.  Requests of  *)
(* a kind overlap; the newest one counts, as listRequestSequence and       *)
(* detailRequestSequence say.  An operation remembers the document and the *)
(* query of the screen it was started on, and goes on with them while the  *)
(* user closes the dialog, opens another document or changes the query.    *)
(* Other users write the same documents.  Of a document only the number of *)
(* its writes is kept.  The cards for links keep a state of their own and  *)
(* are left out, as is the administration dialog, which nothing opens.     *)
(***************************************************************************)
EXTENDS Integers

CONSTANTS
    Docs,        \* documents
    Registered,  \* those registered at the start
    Queries,     \* what the list can be asked for
    Loads,       \* bound: concurrent list requests
    Details,     \* bound: concurrent detail requests
    OpenedViews, \* views a row of the list opens the dialog in
    MaxRevision, \* bound: writes of a document
    MaxActs,     \* bound: what the user does
    NoDoc, NoQuery, NoRequest

ASSUME WebRegistraturaAssumption ==
    /\ Registered \subseteq Docs /\ NoDoc \notin Docs
    /\ NoQuery \notin Queries
    /\ Loads \cap Details = {} /\ NoRequest \notin Loads \cup Details
    /\ OpenedViews \subseteq {"details", "edit", "cancel", "workflow", "history"}
    /\ MaxRevision \in Nat \ {0} /\ MaxActs \in Nat

VARIABLES
    revision,      \* of each document at the server, 0 if not registered
    acked,         \* the writes of this client the server confirmed to it
    query,         \* what the screen asks for
    rows,          \* the query whose answer is on display
    loading,       \* the list shows a spinner
    error,         \* the list shows an error
    loads,         \* list requests in flight
    newestLoad,    \* the one with the current listRequestSequence
    asked,         \* what the newest list request asked for
    selected,      \* the document in the dialog
    view,          \* documentView
    editForm,      \* whose edit form, attachments, versions and history are shown
    detailLoading, \* the dialog shows a spinner
    detailError,   \* the dialog shows an error
    details,       \* detail requests in flight
    newestDetail,  \* the one with the current detailRequestSequence
    mode,          \* the registration form is open
    registered,    \* what this form registered is confirmed
    op,            \* the operation, during which saving is true
    acts           \* how often the user acted

serverVars == <<revision, acked>>
listVars   == <<rows, loading, error, loads, newestLoad, asked>>
dialogVars == <<selected, view, editForm, detailLoading, detailError, details, newestDetail>>
createVars == <<mode, registered>>
screenVars == <<serverVars, query, listVars, dialogVars, createVars, op>>
registryVars == <<screenVars, acts>>

-----------------------------------------------------------------------------
Views == {"details", "edit", "cancel", "workflow", "history"}
Kinds == {"edit", "version", "cancel", "workflow", "upload", "create"}

Shown     == [doc : Docs, revision : 0 .. MaxRevision]
Nothing   == [doc |-> NoDoc, revision |-> 0]
\* The row of the list a dialog starts from may be old.
Row(d)    == [doc |-> d, revision |-> 0]
Unsent    == [pc |-> "none", doc |-> NoDoc, revision |-> 0]
OpRow     == [pc : {"idle", "sent", "committed", "attaching", "detail", "list"},
              kind : Kinds, doc : Docs \cup {NoDoc}, form : Docs \cup {NoDoc},
              query : Queries \cup {NoQuery}, waits : Loads \cup Details \cup {NoRequest},
              current : BOOLEAN]  \* create: the form on screen is still the submitted one
IdleOp    == [pc |-> "idle", kind |-> "create", doc |-> NoDoc, form |-> NoDoc,
              query |-> NoQuery, waits |-> NoRequest, current |-> FALSE]

WebRegistraturaTypeOK ==
    /\ revision \in [Docs -> 0 .. MaxRevision] /\ acked \in [Docs -> 0 .. MaxRevision]
    /\ {query, rows, asked} \subseteq Queries \cup {NoQuery}
    /\ {loading, error, detailLoading, detailError, mode, registered} \subseteq BOOLEAN
    /\ loads \in [Loads -> Queries \cup {NoQuery}]
    /\ newestLoad \in Loads \cup {NoRequest}
    /\ selected \in Shown \cup {Nothing}
    /\ view \in Views
    /\ editForm \in Docs \cup {NoDoc}
    /\ details \in [Details -> [pc : {"none", "asked", "read"}, doc : Docs \cup {NoDoc},
                                revision : 0 .. MaxRevision]]
    /\ newestDetail \in Details \cup {NoRequest}
    /\ op \in OpRow /\ acts \in 0 .. MaxActs

Init ==
    /\ revision = [d \in Docs |-> IF d \in Registered THEN 1 ELSE 0]
    /\ acked = [d \in Docs |-> 0]
    /\ query = NoQuery /\ rows = NoQuery /\ asked = NoQuery
    /\ loading = TRUE /\ error = FALSE
    /\ loads = [l \in Loads |-> NoQuery] /\ newestLoad = NoRequest
    /\ selected = Nothing /\ view = "details" /\ editForm = NoDoc
    /\ detailLoading = FALSE /\ detailError = FALSE
    /\ details = [s \in Details |-> Unsent] /\ newestDetail = NoRequest
    /\ mode = FALSE /\ registered = FALSE
    /\ op = IdleOp /\ acts = 0

-----------------------------------------------------------------------------
\* The list.

\* load(): the newest request from now on.
BeginLoad(l, q) ==
    /\ loads[l] = NoQuery
    /\ loads' = [loads EXCEPT ![l] = q]
    /\ newestLoad' = l /\ asked' = q
    /\ loading' = TRUE /\ error' = FALSE
    /\ UNCHANGED rows

\* The registries arrive and one is chosen; its effect loads the first page.
RegistriesArrive(l, q) ==
    /\ query = NoQuery /\ loading
    /\ query' = q
    /\ BeginLoad(l, q)
    /\ UNCHANGED <<serverVars, dialogVars, createVars, op>>

\* Without registries the workspace stays empty: no other query can be asked.
RegistriesFail ==
    /\ query = NoQuery /\ loading
    /\ loading' = FALSE /\ error' = TRUE
    /\ UNCHANGED <<serverVars, query, rows, loads, newestLoad, asked, dialogVars, createVars, op>>

\* Another registry, filter, page or order: the effect on load() asks at once.
ChangeQuery(l, q) ==
    /\ query # NoQuery
    /\ query' = q
    /\ BeginLoad(l, q)
    /\ UNCHANGED <<serverVars, dialogVars, createVars, op>>

\* Mutant: every answer is shown.
AnyLoad(l) == TRUE
\* requestSequence === listRequestSequence.current
CurrentLoad(l) == newestLoad = l

\* The operation that awaited this request goes on.
Continue(request) ==
    op' = IF op.waits = request THEN [op EXCEPT !.waits = NoRequest] ELSE op

LoadAnswered(l, failed) ==
    /\ loads[l] # NoQuery
    /\ loads' = [loads EXCEPT ![l] = NoQuery]
    /\ IF CurrentLoad(l)
       THEN /\ loading' = FALSE
            /\ rows' = IF failed THEN rows ELSE loads[l]
            /\ error' = (failed \/ error)
       ELSE UNCHANGED <<rows, loading, error>>
    /\ Continue(l)
    /\ UNCHANGED <<serverVars, query, newestLoad, asked, dialogVars, createVars>>

-----------------------------------------------------------------------------
\* The dialog.

\* openDetail(): the row at hand, then five requests that are answered as one.
BeginDetail(s, d, v) ==
    /\ details[s] = Unsent
    /\ details' = [details EXCEPT ![s] = [pc |-> "asked", doc |-> d, revision |-> 0]]
    /\ newestDetail' = s
    /\ view' = v
    /\ selected' = Row(d)
    /\ detailLoading' = TRUE /\ detailError' = FALSE
    /\ UNCHANGED editForm

UserOpens(s, d, v) ==
    /\ query # NoQuery /\ revision[d] > 0
    /\ BeginDetail(s, d, v)
    /\ UNCHANGED <<serverVars, query, listVars, createVars, op>>

\* The server reads the document.
DetailRead(s) ==
    /\ details[s].pc = "asked"
    /\ details' = [details EXCEPT ![s].pc = "read", ![s].revision = revision[details[s].doc]]
    /\ UNCHANGED <<serverVars, query, listVars, selected, view, editForm,
                   detailLoading, detailError, newestDetail, createVars, op>>

\* Mutant: every request of the document on display counts.
SameDocument(s) == details[s].doc = selected.doc
\* requestSequence === detailRequestSequence.current
CurrentDetail(s) == newestDetail = s

DetailArrives(s) ==
    /\ details[s].pc = "read"
    /\ details' = [details EXCEPT ![s] = Unsent]
    /\ IF CurrentDetail(s)
       THEN /\ selected' = [doc |-> details[s].doc, revision |-> details[s].revision]
            /\ editForm' = details[s].doc
            /\ detailLoading' = FALSE
       ELSE UNCHANGED <<selected, editForm, detailLoading>>
    /\ Continue(s)
    /\ UNCHANGED <<serverVars, query, listVars, view, detailError, newestDetail, createVars>>

\* One of the five fails: the form and the lists of the document before remain.
DetailFails(s) ==
    /\ details[s] # Unsent
    /\ details' = [details EXCEPT ![s] = Unsent]
    /\ IF CurrentDetail(s)
       THEN detailLoading' = FALSE /\ detailError' = TRUE
       ELSE UNCHANGED <<detailLoading, detailError>>
    /\ Continue(s)
    /\ UNCHANGED <<serverVars, query, listVars, selected, view, editForm,
                   newestDetail, createVars>>

Closed == Nothing

\* Mutant: closing forgets the request, whose answer would have ended the spinner.
Forgets == newestDetail' = NoRequest
\* Closing drops the document; an answer that is under way opens the dialog again.
Keeps == UNCHANGED newestDetail

CloseDialog ==
    /\ selected # Nothing
    /\ selected' = Closed
    /\ Keeps
    /\ UNCHANGED <<serverVars, query, listVars, view, editForm, detailLoading,
                   detailError, details, createVars, op>>

-----------------------------------------------------------------------------
\* The registration form.

OpenCreate ==
    /\ query # NoQuery /\ ~mode
    /\ mode' = TRUE /\ registered' = FALSE
    /\ op' = [op EXCEPT !.current = FALSE]
    /\ UNCHANGED <<serverVars, query, listVars, dialogVars>>

\* Possible while the registration is under way.
CloseCreate ==
    /\ mode
    /\ mode' = FALSE
    /\ UNCHANGED <<serverVars, query, listVars, dialogVars, registered, op>>

-----------------------------------------------------------------------------
\* Operations: one at a time, because their buttons are disabled while saving.

Starts(kind, d, form) ==
    /\ op.pc = "idle"
    /\ op' = [pc |-> "sent", kind |-> kind, doc |-> d, form |-> form, query |-> query,
              waits |-> NoRequest, current |-> kind = "create"]

\* The buttons of the dialog, which has none while it loads.  The workflow action
\* clears the error first.
StartInDialog(kind) ==
    /\ selected # Nothing /\ ~detailLoading
    /\ CASE kind \in {"edit", "version"} -> view = "edit" /\ editForm # NoDoc
         [] kind = "upload"              -> view \in {"details", "edit"}
         [] OTHER                        -> view = kind
    /\ Starts(kind, selected.doc, editForm)
    /\ detailError' = (detailError /\ kind # "workflow")
    /\ UNCHANGED <<serverVars, query, listVars, selected, view, editForm,
                   detailLoading, details, newestDetail, createVars>>

Submit(d) ==
    /\ mode /\ revision[d] = 0
    /\ Starts("create", d, NoDoc)
    /\ UNCHANGED <<serverVars, query, listVars, dialogVars, createVars>>

\* The server writes; the answer is under way.
Commit ==
    /\ op.pc = "sent" /\ revision[op.doc] < MaxRevision
    /\ op.kind = "create" => revision[op.doc] = 0
    /\ revision' = [revision EXCEPT ![op.doc] = @ + 1]
    /\ op' = [op EXCEPT !.pc = "committed"]
    /\ UNCHANGED <<acked, query, listVars, dialogVars, createVars>>

\* Refused, or the answer is lost: the dialog or the list shows the error.
OpFails ==
    /\ op.pc \in {"sent", "committed"}
    /\ op' = IdleOp
    /\ IF op.kind = "create"
       THEN error' = TRUE /\ UNCHANGED detailError
       ELSE detailError' = TRUE /\ UNCHANGED error
    /\ UNCHANGED <<serverVars, query, rows, loading, loads, newestLoad, asked, selected, view,
                   editForm, detailLoading, details, newestDetail, createVars>>

Acknowledge == acked' = [acked EXCEPT ![op.doc] = revision[op.doc]]

\* The answer of an operation of the dialog: refreshDetail() with the document the
\* operation was started on.
Confirmed(s) ==
    /\ op.pc = "committed" /\ op.kind # "create"
    /\ Acknowledge
    /\ BeginDetail(s, op.doc, "details")
    /\ op' = [op EXCEPT !.pc = "detail", !.waits = s]
    /\ UNCHANGED <<revision, query, listVars, createVars>>

\* Then, but for a version or an upload, load() with the query of that screen.
ReloadAfterDetail(l) ==
    /\ op.pc = "detail" /\ op.waits = NoRequest
    /\ op.kind \in {"edit", "cancel", "workflow"}
    /\ BeginLoad(l, op.query)
    /\ op' = [op EXCEPT !.pc = "list", !.waits = l]
    /\ UNCHANGED <<serverVars, query, dialogVars, createVars>>

\* A registration is confirmed: its attachments follow.
Registers ==
    /\ op.pc = "committed" /\ op.kind = "create"
    /\ Acknowledge
    /\ registered' = (registered \/ op.current)
    /\ op' = [op EXCEPT !.pc = "attaching"]
    /\ UNCHANGED <<revision, query, listVars, dialogVars, mode>>

\* Mutant: a failed attachment counts as a failed registration.
AfterAttachmentsStrict(failed) == IF failed THEN mode ELSE FALSE
\* Whether they arrive or not, the registration is durable and its form is closed.
AfterAttachments(failed) == FALSE

\* load() clears the error that a failed attachment left.
Attached(l, failed) ==
    /\ op.pc = "attaching"
    /\ mode' = AfterAttachments(failed)
    /\ BeginLoad(l, op.query)
    /\ op' = [op EXCEPT !.pc = "list", !.waits = l]
    /\ UNCHANGED <<serverVars, query, dialogVars, registered>>

\* The registered document opens, whatever the user does by then.
OpenCreated(s) ==
    /\ op.pc = "list" /\ op.waits = NoRequest /\ op.kind = "create"
    /\ BeginDetail(s, op.doc, "details")
    /\ op' = [op EXCEPT !.pc = "detail", !.waits = s]
    /\ UNCHANGED <<serverVars, query, listVars, createVars>>

\* Where each kind of operation ends.
OpEnds ==
    /\ op.waits = NoRequest
    /\ op.pc = IF op.kind \in {"edit", "cancel", "workflow"} THEN "list" ELSE "detail"
    /\ op' = IdleOp
    /\ UNCHANGED <<serverVars, query, listVars, dialogVars, createVars>>

\* Another user registers or writes a document.
OthersWrite(d) ==
    /\ revision[d] < MaxRevision
    /\ revision' = [revision EXCEPT ![d] = @ + 1]
    /\ UNCHANGED <<acked, query, listVars, dialogVars, createVars, op>>

-----------------------------------------------------------------------------
ListAnswered(l) == \E failed \in BOOLEAN : LoadAnswered(l, failed)
DetailAnswered(s) == DetailRead(s) \/ DetailArrives(s) \/ DetailFails(s)
OpStep ==
    \/ Commit \/ OpFails \/ Registers \/ OpEnds
    \/ \E s \in Details : Confirmed(s) \/ OpenCreated(s)
    \/ \E l \in Loads : \/ ReloadAfterDetail(l)
                        \/ \E failed \in BOOLEAN : Attached(l, failed)

UserActs ==
    \/ \E l \in Loads, q \in Queries : ChangeQuery(l, q)
    \/ \E s \in Details, d \in Docs, v \in OpenedViews : UserOpens(s, d, v)
    \/ CloseDialog \/ OpenCreate \/ CloseCreate
    \/ \E kind \in Kinds \ {"create"} : StartInDialog(kind)
    \/ \E d \in Docs : Submit(d)

ClientActs ==
    \/ \E l \in Loads : ListAnswered(l) \/ \E q \in Queries : RegistriesArrive(l, q)
    \/ RegistriesFail
    \/ \E s \in Details : DetailAnswered(s)
    \/ OpStep
    \/ \E d \in Docs : OthersWrite(d)

Next ==
    \/ ClientActs /\ UNCHANGED acts
    \/ acts < MaxActs /\ UserActs /\ acts' = acts + 1

RegistrySpec == Init /\ [][Next]_registryVars

\* Every request ends with an answer or an error, and the user pauses at last.
FairRegistrySpec ==
    /\ RegistrySpec
    /\ WF_screenVars(RegistriesFail \/ \E l \in Loads, q \in Queries : RegistriesArrive(l, q))
    /\ \A l \in Loads : WF_screenVars(ListAnswered(l))
    /\ \A s \in Details : WF_screenVars(DetailAnswered(s))
    /\ WF_screenVars(OpStep)

-----------------------------------------------------------------------------
\* REG-005: "stale requests cannot overwrite the latest selection".  Rows at rest
\* answer what the controls of load() ask for now.
RowsAnswerControls == (~loading /\ ~error) => rows = query

QueryIsOfOperation == op.pc # "idle" => op.query = query

\* They do, however requests of lists overlap, in every life of the screen in which the
\* query is left alone while an operation is under way: nothing but the load() at the
\* end of an operation, which asks with the query of the screen it was started on,
\* brings the rows of another one.
RowsFollowControls == []QueryIsOfOperation => []RowsAnswerControls

\* Read your writes: what the dialog shows of a document is never older than what
\* the server confirmed of it, although requests sent before the write end after it.
SavedIsShown ==
    (op.pc = "idle" /\ selected # Nothing /\ ~detailLoading /\ ~detailError)
        => selected.revision >= acked[selected.doc]

\* The registry record is durable: its form does not stay open to be sent again.
RegisteredOnce == (mode /\ op.pc = "idle") => ~registered

\* No spinner and no disabled button stays for ever.
ScreenSettles == []<>(~loading) /\ []<>(~detailLoading) /\ []<>(op.pc = "idle")

\* "Race-safe local state": what is saved to a document was entered in its own form.
FormBelongsToDocument == (op.pc = "sent" /\ op.kind = "edit") => op.form = op.doc
=============================================================================
