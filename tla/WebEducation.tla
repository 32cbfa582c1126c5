------------------------------ MODULE WebEducation ------------------------------
(***************************************************************************)
(* A record page of the education workspace of the React client: a list    *)
(* with pages, an order and a debounced filter (EducationListPanel), the    *)
(* dialogs and operations of its rows (DomainRecordsPage), and the panel of *)
(* the records that belong to the record last looked at                    *)
(* (GovernanceMeetingRelations, which GovernanceMeetingsPage mounts too).   *)
(* List requests are fenced by requestSequence; the requests of details and *)
(* of the panel are not, and no operation disables the screen: it goes on   *)
(* beside whatever the user does next.  Of the records only the number of  *)
(* their writes is kept.  Error messages of operations, the dialog of the  *)
(* portfolio lifecycle, details within the panel and metadata are left out.*)
(***************************************************************************)
EXTENDS Integers

CONSTANTS
    Records,     \* rows of the list whose details can be opened
    Relations,   \* what the panel can show of a record
    Filters, Orders, Sizes, \* what a list can be asked for
    MaxPage,     \* bound: pages of a list
    Loads,       \* bound: concurrent list requests
    Details,     \* bound: concurrent detail requests
    PanelLoads,  \* bound: concurrent requests of the panel
    Writes,      \* bound: concurrent operations
    MaxRevision, \* bound: writes of the records
    MaxActs,     \* bound: what the user does
    NoRecord, NoTimer, NoLoad, NoKey

ASSUME WebEducationAssumption ==
    /\ NoRecord \notin Records
    /\ NoTimer \notin [size : Sizes, order : Orders]
    /\ MaxPage \in Nat \ {0} /\ MaxRevision \in Nat /\ MaxActs \in Nat
    /\ NoKey \notin Records \X Relations
    /\ LET requests == [page : 1 .. MaxPage, size : Sizes, order : Orders, filter : Filters]
       IN  /\ NoLoad \notin [request : requests, since : 0 .. MaxRevision]
           /\ NoLoad \notin [request : requests, seen : 0 .. MaxRevision]

VARIABLES
    revision, \* writes of the records at the server
    acked,    \* the last of them that was confirmed to this page
    controls, \* page, size, order and filter on the screen
    timer,    \* the filter's timer: the size and order of the render that set it
    rows,     \* the request whose answer is on display, and what it had seen
    loading,  \* the list shows a spinner
    error,    \* the list shows an error
    loads,    \* list requests in flight, each with the revision it was sent at
    newest,   \* the one with the current requestSequence
    dialogs,  \* open dialogs of the page
    details,  \* detail requests in flight
    selected, \* the record the panel is for
    relation, \* what the panel shows of it
    panel,    \* the record and relation whose rows the panel shows
    panelLoading, \* the panel shows a spinner
    panelTimer,   \* the timer of the panel's filter runs
    panelLoads,   \* requests of the panel in flight
    panelForm,    \* the open form of the panel: for what it was opened
    writes,   \* operations in flight
    acts      \* how often the user acted

serverVars == <<revision, acked>>
listVars   == <<controls, timer, rows, loading, error, loads, newest>>
pageVars   == <<dialogs, details, selected>>
panelVars  == <<relation, panel, panelLoading, panelTimer, panelLoads, panelForm>>
screenVars == <<serverVars, listVars, pageVars, panelVars, writes>>
educationVars == <<screenVars, acts>>

-----------------------------------------------------------------------------
Dialogs  == {"form", "detail", "delete"}
Controls == [page : 1 .. MaxPage, size : Sizes, order : Orders, filter : Filters]
Key      == Records \X Relations
Form     == [kind : {"add", "edit", "delete"}, of : Key]
NoForm   == [kind |-> "add", of |-> NoKey]
Write    == [pc : {"sent", "committed"}, kind : {"save", "delete", "opis"}, at : 0 .. MaxRevision]
PanelWrite == [pc : {"sent", "committed"}, kind : {"panel"}, form : Form, to : Key]
NoWrite  == [pc |-> "none"]

WebEducationTypeOK ==
    /\ acked \in 0 .. revision /\ revision \in 0 .. MaxRevision
    /\ controls \in Controls
    /\ timer \in [size : Sizes, order : Orders] \cup {NoTimer}
    /\ rows \in [request : Controls, seen : 0 .. MaxRevision] \cup {NoLoad}
    /\ {loading, error, panelLoading, panelTimer} \subseteq BOOLEAN
    /\ loads \in [Loads -> [request : Controls, since : 0 .. MaxRevision] \cup {NoLoad}]
    /\ newest \in Loads
    /\ dialogs \subseteq Dialogs
    /\ details \in [Details -> Records \cup {NoRecord}]
    /\ selected \in Records \cup {NoRecord}
    /\ relation \in Relations
    /\ panel \in Key \cup {NoKey}
    /\ panelLoads \in [PanelLoads -> Key \cup {NoKey}]
    /\ panelForm \in Form \cup {NoForm}
    /\ writes \in [Writes -> Write \cup PanelWrite \cup {NoWrite}]
    /\ acts \in 0 .. MaxActs

\* The page mounts and its first effect asks for the first page.
Init ==
    /\ revision = 0 /\ acked = 0
    /\ controls \in [page : {1}, size : Sizes, order : Orders, filter : Filters]
    /\ timer = NoTimer /\ rows = NoLoad
    /\ loading = TRUE /\ error = FALSE
    /\ newest \in Loads
    /\ loads = [l \in Loads |-> IF l = newest THEN [request |-> controls, since |-> 0] ELSE NoLoad]
    /\ dialogs = {} /\ details = [s \in Details |-> NoRecord] /\ selected = NoRecord
    /\ relation \in Relations /\ panel = NoKey
    /\ panelLoading = TRUE /\ panelTimer = FALSE
    /\ panelLoads = [p \in PanelLoads |-> NoKey] /\ panelForm = NoForm
    /\ writes = [w \in Writes |-> NoWrite]
    /\ acts = 0

\* No dialog covers the page.
Uncovered == dialogs = {} /\ panelForm = NoForm

-----------------------------------------------------------------------------
\* The list.

\* refresh(): the newest request from now on.
BeginLoad(l, request) ==
    /\ loads[l] = NoLoad
    /\ loads' = [loads EXCEPT ![l] = [request |-> request, since |-> revision]]
    /\ newest' = l
    /\ loading' = TRUE /\ error' = FALSE
    /\ UNCHANGED rows

\* Mutant: every answer is shown.
AnyLoad(l) == TRUE
\* sequence === requestSequence.current
CurrentLoad(l) == newest = l

\* Mutant: only rows end the spinner.
SpinnerUnlessRows(failed) == failed
\* finally: an error ends it too.
SpinnerAfter(failed) == FALSE

\* The answer saw the records at some moment since the request; it says which page
\* and size it is of.
ListAnswered(l) ==
    /\ loads[l] # NoLoad
    /\ loads' = [loads EXCEPT ![l] = NoLoad]
    /\ IF CurrentLoad(l)
       THEN \/ /\ \E seen \in loads[l].since .. revision :
                     rows' = [request |-> loads[l].request, seen |-> seen]
               /\ controls' = [controls EXCEPT !.page = loads[l].request.page,
                                               !.size = loads[l].request.size]
               /\ loading' = SpinnerAfter(FALSE)
               /\ UNCHANGED error
            \/ /\ error' = TRUE /\ loading' = SpinnerAfter(TRUE)
               /\ UNCHANGED <<rows, controls>>
       ELSE UNCHANGED <<loading, rows, controls, error>>
    /\ UNCHANGED <<serverVars, timer, newest, pageVars, panelVars, writes>>

\* The table, with its filters and orders, is there unless the list loads.
TypeFilter(f) ==
    /\ ~loading /\ Uncovered /\ f # controls.filter
    /\ controls' = [controls EXCEPT !.filter = f]
    /\ timer' = [size |-> controls.size, order |-> controls.order]
    /\ UNCHANGED <<serverVars, rows, loading, error, loads, newest, pageVars, panelVars, writes>>

\* Mutant: the timer asks by the filter of the rows on display.
TimerRequestStale ==
    [page |-> 1, size |-> timer.size, order |-> timer.order,
     filter |-> IF rows = NoLoad THEN controls.filter ELSE rows.request.filter]
\* 350 ms after the last keystroke: with the size and the order of that render.
TimerRequest ==
    [page |-> 1, size |-> timer.size, order |-> timer.order, filter |-> controls.filter]

TimerFires(l) ==
    /\ timer # NoTimer
    /\ BeginLoad(l, TimerRequest)
    /\ controls' = [controls EXCEPT !.page = 1]
    /\ timer' = NoTimer
    /\ UNCHANGED <<serverVars, pageVars, panelVars, writes>>

\* A handler that sets its control and asks with it at once.
AsksWith(l, request) ==
    /\ Uncovered
    /\ controls' = request
    /\ BeginLoad(l, request)
    /\ UNCHANGED <<serverVars, timer, pageVars, panelVars, writes>>

ChangeOrder(l, o) ==
    ~loading /\ AsksWith(l, [controls EXCEPT !.order = o, !.page = 1])

\* This control stays enabled while the list loads.
ChangeSize(l, n) == AsksWith(l, [controls EXCEPT !.size = n, !.page = 1])

TurnPage(l, p) ==
    ~loading /\ p \in {controls.page - 1, controls.page + 1}
             /\ AsksWith(l, [controls EXCEPT !.page = p])

-----------------------------------------------------------------------------
\* The dialogs of the page.

OpenDialog(d) ==
    /\ ~loading /\ Uncovered
    /\ dialogs' = {d}
    /\ UNCHANGED <<serverVars, listVars, details, selected, panelVars, writes>>

\* Possible while its operation is under way.
CloseDialog(d) ==
    /\ d \in dialogs
    /\ dialogs' = dialogs \ {d}
    /\ UNCHANGED <<serverVars, listVars, details, selected, panelVars, writes>>

AskDetail(s, r) ==
    /\ ~loading /\ Uncovered
    /\ details[s] = NoRecord
    /\ details' = [details EXCEPT ![s] = r]
    /\ UNCHANGED <<serverVars, listVars, dialogs, selected, panelVars, writes>>

\* load() of the panel, which has no sequence.
BeginPanelLoad(p, key) ==
    /\ panelLoads[p] = NoKey
    /\ panelLoads' = [panelLoads EXCEPT ![p] = key]
    /\ panelLoading' = TRUE

\* The panel mounts, or its load() changes: its first effect asks, and its second
\* asks again after the delay, but for the first time.
PanelFor(p, r, x) ==
    /\ BeginPanelLoad(p, <<r, x>>)
    /\ panelTimer' = (panelTimer \/ selected # NoRecord)
    /\ UNCHANGED <<panel, panelForm>>

DetailArrives(s, p) ==
    /\ details[s] # NoRecord
    /\ details' = [details EXCEPT ![s] = NoRecord]
    /\ dialogs' = dialogs \cup {"detail"}
    /\ selected' = details[s]
    /\ IF selected = details[s] THEN UNCHANGED panelVars
                               ELSE PanelFor(p, details[s], relation) /\ UNCHANGED relation
    /\ UNCHANGED <<serverVars, listVars, writes>>

DetailFails(s) ==
    /\ details[s] # NoRecord
    /\ details' = [details EXCEPT ![s] = NoRecord]
    /\ UNCHANGED <<serverVars, listVars, dialogs, selected, panelVars, writes>>

-----------------------------------------------------------------------------
\* The panel of related records.

PanelUsable == selected # NoRecord /\ Uncovered

SwitchRelation(p, x) ==
    /\ PanelUsable /\ x # relation
    /\ relation' = x
    /\ PanelFor(p, selected, x)
    /\ UNCHANGED <<serverVars, listVars, pageVars, writes>>

FilterPanel ==
    /\ PanelUsable /\ ~panelLoading
    /\ panelTimer' = TRUE
    /\ UNCHANGED <<serverVars, listVars, pageVars, relation, panel, panelLoading,
                   panelLoads, panelForm, writes>>

\* Another order, page or size, or the delay after a filter.
AskPanel(p) ==
    /\ BeginPanelLoad(p, <<selected, relation>>)
    /\ UNCHANGED <<serverVars, listVars, pageVars, relation, panel, panelForm, writes>>

RefreshPanel(p) == PanelUsable /\ ~panelLoading /\ AskPanel(p) /\ UNCHANGED panelTimer

PanelTimerFires(p) == panelTimer /\ AskPanel(p) /\ panelTimer' = FALSE

\* Every answer is shown, whichever record and relation it was asked for.
PanelAnswered(p) ==
    /\ panelLoads[p] # NoKey
    /\ panelLoads' = [panelLoads EXCEPT ![p] = NoKey]
    /\ panelLoading' = FALSE
    /\ panel' \in {panel, panelLoads[p]}
    /\ UNCHANGED <<serverVars, listVars, pageVars, relation, panelTimer, panelForm, writes>>

OpenPanelForm(kind) ==
    /\ PanelUsable /\ ~panelLoading
    /\ kind # "add" => panel # NoKey
    /\ panelForm' = [kind |-> kind, of |-> IF kind = "add" THEN <<selected, relation>> ELSE panel]
    /\ UNCHANGED <<serverVars, listVars, pageVars, relation, panel, panelLoading,
                   panelTimer, panelLoads, writes>>

ClosePanelForm ==
    /\ panelForm # NoForm
    /\ panelForm' = NoForm
    /\ UNCHANGED <<serverVars, listVars, pageVars, relation, panel, panelLoading,
                   panelTimer, panelLoads, writes>>

-----------------------------------------------------------------------------
\* Operations.  Nothing is disabled meanwhile: a button can be pressed twice.

Starts(w, op) ==
    /\ writes[w] = NoWrite
    /\ writes' = [writes EXCEPT ![w] = op]
    /\ UNCHANGED <<serverVars, listVars, pageVars, panelVars>>

\* Save and Delete in their dialogs; the portfolio's opis from the menu of a row.
StartWrite(w, kind) ==
    /\ CASE kind = "save"   -> "form" \in dialogs
         [] kind = "delete" -> "delete" \in dialogs
         [] kind = "opis"   -> ~loading /\ Uncovered
    /\ Starts(w, [pc |-> "sent", kind |-> kind, at |-> 0])

\* The handlers read parentID and relation when the button is pressed.
StartPanelWrite(w) ==
    /\ panelForm # NoForm
    /\ Starts(w, [pc |-> "sent", kind |-> "panel", form |-> panelForm, to |-> <<selected, relation>>])

\* The server writes a record of the list; the answer is under way.
Commit(w) ==
    /\ writes[w] \in Write /\ writes[w].pc = "sent" /\ revision < MaxRevision
    /\ revision' = revision + 1
    /\ writes' = [writes EXCEPT ![w].pc = "committed", ![w].at = revision + 1]
    /\ UNCHANGED <<acked, listVars, pageVars, panelVars>>

\* It finds a related record only under the record and relation it belongs to.
CommitPanel(w) ==
    /\ writes[w] \in PanelWrite /\ writes[w].pc = "sent"
    /\ writes[w].form.kind = "add" \/ writes[w].form.of = writes[w].to
    /\ writes' = [writes EXCEPT ![w].pc = "committed"]
    /\ UNCHANGED <<serverVars, listVars, pageVars, panelVars>>

\* Refused, or the answer is lost: dialogs stay, and so do the rows.
WriteFails(w) ==
    /\ writes[w] # NoWrite
    /\ writes' = [writes EXCEPT ![w] = NoWrite]
    /\ UNCHANGED <<serverVars, listVars, pageVars, panelVars>>

\* Mutant: the rows stay after a write that was confirmed.
NoReload(l) == UNCHANGED <<rows, loading, error, loads, newest>>
\* refresh + 1 changes load, whose effect asks with what is on the screen.
Reload(l) == BeginLoad(l, controls)

\* action(): the form and the detail close, whichever are open by then; the dialog
\* of a deletion closes only with a deletion.
WriteSucceeds(w, l) ==
    /\ writes[w] \in Write /\ writes[w].pc = "committed"
    /\ acked' = IF writes[w].at > acked THEN writes[w].at ELSE acked
    /\ writes' = [writes EXCEPT ![w] = NoWrite]
    /\ dialogs' = dialogs \ ({"form", "detail"} \cup {d \in {"delete"} : writes[w].kind = d})
    /\ Reload(l)
    /\ UNCHANGED <<revision, controls, timer, details, selected, panelVars>>

PanelWriteSucceeds(w, p) ==
    /\ writes[w] \in PanelWrite /\ writes[w].pc = "committed"
    /\ writes' = [writes EXCEPT ![w] = NoWrite]
    /\ panelForm' = IF panelForm.kind = "delete" /\ writes[w].form.kind # "delete"
                    THEN panelForm ELSE NoForm
    /\ BeginPanelLoad(p, <<selected, relation>>)
    /\ UNCHANGED <<serverVars, listVars, pageVars, relation, panel, panelTimer>>

\* Another user writes a record of the list.
OthersWrite ==
    /\ revision < MaxRevision
    /\ revision' = revision + 1
    /\ UNCHANGED <<acked, listVars, pageVars, panelVars, writes>>

-----------------------------------------------------------------------------
UserActs ==
    \/ \E f \in Filters : TypeFilter(f)
    \/ \E l \in Loads : \/ \E o \in Orders : ChangeOrder(l, o)
                        \/ \E n \in Sizes : ChangeSize(l, n)
                        \/ \E p \in 1 .. MaxPage : TurnPage(l, p)
    \/ \E d \in {"form", "delete"} : OpenDialog(d)
    \/ \E s \in Details, r \in Records : AskDetail(s, r)
    \/ \E p \in PanelLoads : RefreshPanel(p) \/ \E x \in Relations : SwitchRelation(p, x)
    \/ FilterPanel
    \/ \E kind \in {"add", "edit", "delete"} : OpenPanelForm(kind)
    \/ \E w \in Writes : StartPanelWrite(w) \/ \E kind \in {"save", "delete", "opis"} : StartWrite(w, kind)

ClientActs ==
    \/ \E l \in Loads : ListAnswered(l) \/ TimerFires(l)
    \/ \E d \in Dialogs : CloseDialog(d)
    \/ ClosePanelForm
    \/ \E s \in Details : DetailFails(s) \/ \E p \in PanelLoads : DetailArrives(s, p)
    \/ \E p \in PanelLoads : PanelTimerFires(p) \/ PanelAnswered(p)
    \/ \E w \in Writes : \/ Commit(w) \/ CommitPanel(w) \/ WriteFails(w)
                         \/ \E l \in Loads : WriteSucceeds(w, l)
                         \/ \E p \in PanelLoads : PanelWriteSucceeds(w, p)
    \/ OthersWrite

Next ==
    \/ ClientActs /\ UNCHANGED acts
    \/ acts < MaxActs /\ UserActs /\ acts' = acts + 1

EducationSpec == Init /\ [][Next]_educationVars

\* Every request ends with an answer or an error, the timers run, and the user
\* pauses at last.
FairEducationSpec ==
    /\ EducationSpec
    /\ \A l \in Loads : WF_screenVars(ListAnswered(l))
    /\ \A p \in PanelLoads : WF_screenVars(PanelAnswered(p))
    /\ WF_screenVars(\E l \in Loads : TimerFires(l))
    /\ WF_screenVars(\E p \in PanelLoads : PanelTimerFires(p))

-----------------------------------------------------------------------------
\* However its requests overlap, a list that is not loading shows the page, the size
\* and, once typing has paused, the filter that its controls show.
ListShowsControls ==
    (~loading /\ ~error) =>
        /\ rows # NoLoad
        /\ rows.request.page = controls.page /\ rows.request.size = controls.size
        /\ timer = NoTimer => rows.request.filter = controls.filter

\* Read your writes: the rows are never older than what was confirmed, although
\* requests sent before a write may end after it.
SavedIsListed == (~loading /\ ~error) => rows.seen >= acked

\* A filter is not lost in its timer: the list comes to show it, fails, or another
\* filter is typed.
FilterIsApplied ==
    \A f \in Filters :
        controls.filter = f ~>
            error \/ controls.filter # f \/ (~loading /\ rows.request.filter = f)

\* No spinner stays for ever.
EducationSettles == []<>(~loading) /\ []<>(selected = NoRecord \/ ~panelLoading)

\* "Race-safe local state": what is entered for a record is saved to that record.
RelatedStaysWithParent ==
    \A w \in Writes : writes[w] \in PanelWrite /\ writes[w].form.kind = "add"
                        => writes[w].form.of = writes[w].to

\* The list is in the order that its headers show.
ListShowsOrder == (~loading /\ ~error /\ timer = NoTimer) => rows.request.order = controls.order
=============================================================================
