--------------------------- MODULE WebEducationProofs ---------------------------
(***************************************************************************)
(* Theorems about WebEducation, for every set of records, relations,       *)
(* filters, orders and sizes and every value of the bounds.                *)
(***************************************************************************)
EXTENDS WebEducation, TLAPS

-----------------------------------------------------------------------------
(* Types.                                                                  *)

\* Whatever of the panel is under way has a record it belongs to.
PanelHasRecord ==
    selected = NoRecord =>
        /\ ~panelTimer /\ panelForm = NoForm
        /\ \A w \in Writes : writes[w] \notin PanelWrite

\* No operation is of a revision still to come.
WritesHappened == \A w \in Writes : writes[w] \in Write => writes[w].at =< revision

TypeInv == WebEducationTypeOK /\ PanelHasRecord /\ WritesHappened

\* What Next says of the bound on what the user does.
Acts == acts' \in 0 .. MaxActs

LEMMA TypeInit == Init => TypeInv
<1> SUFFICES ASSUME Init PROVE TypeInv
  OBVIOUS
<1>1. controls \in Controls
  BY WebEducationAssumption DEF Init, Controls
<1>2. loads \in [Loads -> [request : Controls, since : 0 .. MaxRevision] \cup {NoLoad}]
  BY <1>1, WebEducationAssumption DEF Init
<1>3. NoWrite \notin PanelWrite /\ NoWrite \notin Write
  BY DEF NoWrite, PanelWrite, Write
<1>4. panelForm \in Form \cup {NoForm} /\ panel \in Key \cup {NoKey}
  BY DEF Init
<1>5. PanelHasRecord /\ WritesHappened
  BY <1>3 DEF Init, PanelHasRecord, WritesHappened
<1>6. /\ acked \in 0 .. revision /\ revision \in 0 .. MaxRevision /\ acts \in 0 .. MaxActs
  BY WebEducationAssumption DEF Init
<1>7. /\ timer \in [size : Sizes, order : Orders] \cup {NoTimer}
      /\ rows \in [request : Controls, seen : 0 .. MaxRevision] \cup {NoLoad}
      /\ {loading, error, panelLoading, panelTimer} \subseteq BOOLEAN
      /\ newest \in Loads /\ dialogs \subseteq Dialogs
      /\ details \in [Details -> Records \cup {NoRecord}]
      /\ selected \in Records \cup {NoRecord} /\ relation \in Relations
      /\ panelLoads \in [PanelLoads -> Key \cup {NoKey}]
      /\ writes \in [Writes -> Write \cup PanelWrite \cup {NoWrite}]
  BY DEF Init
<1> QED
  BY <1>1, <1>2, <1>4, <1>5, <1>6, <1>7 DEF TypeInv, WebEducationTypeOK

\* refresh() with any request keeps the types of the list.
LEMMA BeginLoadType ==
    ASSUME TypeInv, NEW l \in Loads, NEW request \in Controls, BeginLoad(l, request)
    PROVE  /\ loads' \in [Loads -> [request : Controls, since : 0 .. MaxRevision] \cup {NoLoad}]
           /\ newest' \in Loads
           /\ loading' \in BOOLEAN /\ error' \in BOOLEAN
           /\ UNCHANGED rows
BY WebEducationAssumption DEF TypeInv, WebEducationTypeOK, BeginLoad

LEMMA BeginPanelLoadType ==
    ASSUME TypeInv, NEW p \in PanelLoads, NEW key \in Key, BeginPanelLoad(p, key)
    PROVE  /\ panelLoads' \in [PanelLoads -> Key \cup {NoKey}]
           /\ panelLoading' \in BOOLEAN
BY DEF TypeInv, WebEducationTypeOK, BeginPanelLoad

LEMMA TypeListAnswered ==
    ASSUME TypeInv, Acts, NEW l \in Loads, ListAnswered(l)
    PROVE  TypeInv'
<1>1. loads[l] \in [request : Controls, since : 0 .. MaxRevision]
  BY DEF TypeInv, WebEducationTypeOK, ListAnswered
<1>2. rows' \in [request : Controls, seen : 0 .. MaxRevision] \cup {NoLoad}
  <2>1. \A seen \in loads[l].since .. revision : seen \in 0 .. MaxRevision
    BY <1>1, WebEducationAssumption DEF TypeInv, WebEducationTypeOK
  <2>2. CASE UNCHANGED rows
    BY <2>2 DEF TypeInv, WebEducationTypeOK
  <2>3. CASE \E seen \in loads[l].since .. revision :
               rows' = [request |-> loads[l].request, seen |-> seen]
    <3>1. PICK seen \in loads[l].since .. revision :
             rows' = [request |-> loads[l].request, seen |-> seen]
      BY <2>3
    <3> QED BY <1>1, <2>1, <3>1
  <2> QED
    BY <2>2, <2>3 DEF ListAnswered
<1>5. controls' \in Controls
  <2>1. [controls EXCEPT !.page = loads[l].request.page, !.size = loads[l].request.size] \in Controls
    BY <1>1 DEF TypeInv, WebEducationTypeOK, Controls
  <2> QED
    BY <2>1 DEF TypeInv, WebEducationTypeOK, ListAnswered
<1>3. loads' \in [Loads -> [request : Controls, since : 0 .. MaxRevision] \cup {NoLoad}]
  BY DEF TypeInv, WebEducationTypeOK, ListAnswered
<1>4. /\ {loading', error'} \subseteq BOOLEAN
      /\ UNCHANGED <<serverVars, timer, newest, pageVars, panelVars, writes>>
  BY DEF TypeInv, WebEducationTypeOK, ListAnswered, SpinnerAfter
<1> QED
  BY <1>2, <1>3, <1>4, <1>5 DEF TypeInv, Acts, WebEducationTypeOK, PanelHasRecord, WritesHappened,
     serverVars, pageVars, panelVars

LEMMA TypeTypeFilter ==
    ASSUME TypeInv, Acts, NEW f \in Filters, TypeFilter(f)
    PROVE  TypeInv'
<1>1. controls' \in Controls /\ timer' \in [size : Sizes, order : Orders]
  BY DEF TypeInv, WebEducationTypeOK, TypeFilter, Controls
<1> QED
  BY <1>1 DEF TypeInv, Acts, WebEducationTypeOK, PanelHasRecord, WritesHappened, TypeFilter, serverVars, pageVars, panelVars

LEMMA TimerRequestType ==
    ASSUME TypeInv, timer # NoTimer
    PROVE  TimerRequest \in Controls
BY WebEducationAssumption DEF TypeInv, WebEducationTypeOK, TimerRequest, Controls

LEMMA TypeTimerFires ==
    ASSUME TypeInv, Acts, NEW l \in Loads, TimerFires(l)
    PROVE  TypeInv'
<1>1. TimerRequest \in Controls /\ BeginLoad(l, TimerRequest)
  BY TimerRequestType DEF TimerFires
<1>2. controls' \in Controls
  BY WebEducationAssumption DEF TypeInv, WebEducationTypeOK, TimerFires, Controls
<1> QED
  BY <1>1, <1>2, BeginLoadType
     DEF TypeInv, Acts, WebEducationTypeOK, PanelHasRecord, WritesHappened, TimerFires, serverVars, pageVars, panelVars

LEMMA TypeAsksWith ==
    ASSUME TypeInv, Acts, NEW l \in Loads, NEW request \in Controls, AsksWith(l, request)
    PROVE  TypeInv'
<1>1. BeginLoad(l, request)
  BY DEF AsksWith
<1> QED
  BY <1>1, BeginLoadType
     DEF TypeInv, Acts, WebEducationTypeOK, PanelHasRecord, WritesHappened, AsksWith, serverVars, pageVars, panelVars

\* Order, size and page buttons ask for a request of the list.
LEMMA ControlsRequest ==
    ASSUME TypeInv
    PROVE  /\ \A o \in Orders : [controls EXCEPT !.order = o, !.page = 1] \in Controls
           /\ \A n \in Sizes : [controls EXCEPT !.size = n, !.page = 1] \in Controls
           /\ \A p \in 1 .. MaxPage : [controls EXCEPT !.page = p] \in Controls
<1>1. controls \in Controls /\ 1 \in 1 .. MaxPage
  BY WebEducationAssumption DEF TypeInv, WebEducationTypeOK
<1>2. ASSUME NEW o \in Orders PROVE [controls EXCEPT !.order = o, !.page = 1] \in Controls
  BY <1>1 DEF Controls
<1>3. ASSUME NEW n \in Sizes PROVE [controls EXCEPT !.size = n, !.page = 1] \in Controls
  BY <1>1 DEF Controls
<1>4. ASSUME NEW p \in 1 .. MaxPage PROVE [controls EXCEPT !.page = p] \in Controls
  BY <1>1 DEF Controls
<1> QED BY <1>2, <1>3, <1>4

LEMMA TypeDialogs ==
    ASSUME TypeInv, Acts,
           \/ \E d \in {"form", "delete"} : OpenDialog(d)
           \/ \E d \in Dialogs : CloseDialog(d)
           \/ \E s \in Details, r \in Records : AskDetail(s, r)
           \/ \E s \in Details : DetailFails(s)
    PROVE  TypeInv'
<1>1. /\ dialogs' \subseteq Dialogs
      /\ details' \in [Details -> Records \cup {NoRecord}]
      /\ UNCHANGED <<serverVars, listVars, selected, panelVars, writes>>
  <2>1. CASE \E d \in {"form", "delete"} : OpenDialog(d)
    BY <2>1 DEF TypeInv, WebEducationTypeOK, OpenDialog, Dialogs
  <2>2. CASE \E d \in Dialogs : CloseDialog(d)
    BY <2>2 DEF TypeInv, WebEducationTypeOK, CloseDialog
  <2>3. CASE \E s \in Details, r \in Records : AskDetail(s, r)
    BY <2>3 DEF TypeInv, WebEducationTypeOK, AskDetail
  <2>4. CASE \E s \in Details : DetailFails(s)
    BY <2>4 DEF TypeInv, WebEducationTypeOK, DetailFails
  <2> QED BY <2>1, <2>2, <2>3, <2>4
<1> QED
  BY <1>1 DEF TypeInv, Acts, WebEducationTypeOK, PanelHasRecord, WritesHappened, serverVars, listVars, panelVars

LEMMA TypeDetailArrives ==
    ASSUME TypeInv, Acts, NEW s \in Details, NEW p \in PanelLoads, DetailArrives(s, p)
    PROVE  TypeInv'
<1>1. details[s] \in Records
  BY DEF TypeInv, WebEducationTypeOK, DetailArrives
<1>2. /\ dialogs' \subseteq Dialogs
      /\ details' \in [Details -> Records \cup {NoRecord}]
      /\ selected' \in Records
      /\ UNCHANGED <<serverVars, listVars, writes>>
  BY <1>1 DEF TypeInv, WebEducationTypeOK, DetailArrives, Dialogs
<1>3. selected' # NoRecord
  BY <1>2, WebEducationAssumption
<1>4. CASE selected = details[s]
  BY <1>2, <1>3, <1>4 DEF TypeInv, Acts, WebEducationTypeOK, PanelHasRecord, WritesHappened, DetailArrives,
     serverVars, listVars, panelVars
<1>5. CASE selected # details[s]
  <2>1. <<details[s], relation>> \in Key
    BY <1>1 DEF TypeInv, WebEducationTypeOK, Key
  <2>2. BeginPanelLoad(p, <<details[s], relation>>) /\ UNCHANGED <<relation, panel, panelForm>>
    BY <1>5 DEF DetailArrives, PanelFor
  <2>3. panelTimer' \in BOOLEAN
    BY <1>5 DEF DetailArrives, PanelFor, TypeInv, WebEducationTypeOK
  <2> QED
    BY <1>2, <1>3, <2>1, <2>2, <2>3, BeginPanelLoadType
       DEF TypeInv, Acts, WebEducationTypeOK, PanelHasRecord, WritesHappened, serverVars, listVars
<1> QED BY <1>4, <1>5

LEMMA TypePanelLoads ==
    ASSUME TypeInv, Acts, NEW p \in PanelLoads,
           \/ \E x \in Relations : SwitchRelation(p, x)
           \/ RefreshPanel(p) \/ PanelTimerFires(p)
    PROVE  TypeInv'
<1>1. /\ selected \in Records /\ selected # NoRecord
      /\ panelTimer' \in BOOLEAN
      /\ UNCHANGED <<serverVars, listVars, pageVars, panel, panelForm, writes>>
  BY DEF TypeInv, WebEducationTypeOK, PanelHasRecord, SwitchRelation, RefreshPanel,
         PanelTimerFires, PanelUsable, PanelFor, AskPanel
<1>2. relation' \in Relations
  BY DEF TypeInv, WebEducationTypeOK, SwitchRelation, RefreshPanel, PanelTimerFires, AskPanel
<1>3. \E x \in Relations : BeginPanelLoad(p, <<selected, x>>)
  BY DEF TypeInv, WebEducationTypeOK, SwitchRelation, RefreshPanel, PanelTimerFires, AskPanel,
         PanelFor
<1>4. PICK x \in Relations : BeginPanelLoad(p, <<selected, x>>)
  BY <1>3
<1>5. <<selected, x>> \in Key
  BY <1>1, <1>4 DEF Key
<1>6. /\ panelLoads' \in [PanelLoads -> Key \cup {NoKey}]
      /\ panelLoading' \in BOOLEAN
  BY <1>4, <1>5, BeginPanelLoadType
<1> QED
  BY <1>1, <1>2, <1>6
     DEF TypeInv, Acts, WebEducationTypeOK, PanelHasRecord, WritesHappened, serverVars, listVars, pageVars

LEMMA TypePanelForm ==
    ASSUME TypeInv, Acts,
           \/ FilterPanel
           \/ \E kind \in {"add", "edit", "delete"} : OpenPanelForm(kind)
           \/ ClosePanelForm
           \/ \E p \in PanelLoads : PanelAnswered(p)
    PROVE  TypeInv'
<1>1. CASE FilterPanel
  BY <1>1 DEF FilterPanel, PanelUsable, TypeInv, Acts, WebEducationTypeOK, PanelHasRecord,
     WritesHappened, serverVars, listVars, pageVars
<1>2. CASE \E kind \in {"add", "edit", "delete"} : OpenPanelForm(kind)
  <2>1. PICK kind \in {"add", "edit", "delete"} : OpenPanelForm(kind)
    BY <1>2
  <2>2. selected \in Records /\ selected # NoRecord
    BY <2>1 DEF OpenPanelForm, PanelUsable, TypeInv, WebEducationTypeOK
  <2>3. (IF kind = "add" THEN <<selected, relation>> ELSE panel) \in Key
    BY <2>1, <2>2 DEF OpenPanelForm, TypeInv, WebEducationTypeOK, Key
  <2>4. panelForm' \in Form
    BY <2>1, <2>3 DEF OpenPanelForm, Form
  <2>5. UNCHANGED <<serverVars, listVars, pageVars, relation, panel, panelLoading,
                    panelTimer, panelLoads, writes>>
    BY <2>1 DEF OpenPanelForm
  <2> QED
    BY <2>2, <2>4, <2>5 DEF TypeInv, Acts, WebEducationTypeOK, PanelHasRecord,
       WritesHappened, serverVars, listVars, pageVars
<1>3. CASE ClosePanelForm
  BY <1>3 DEF ClosePanelForm, TypeInv, Acts, WebEducationTypeOK, PanelHasRecord,
     WritesHappened, serverVars, listVars, pageVars
<1>4. CASE \E p \in PanelLoads : PanelAnswered(p)
  <2>1. PICK p \in PanelLoads : PanelAnswered(p)
    BY <1>4
  <2>2. /\ panelLoads' \in [PanelLoads -> Key \cup {NoKey}]
        /\ panelLoading' \in BOOLEAN
        /\ panel' \in Key \cup {NoKey}
        /\ UNCHANGED <<serverVars, listVars, pageVars, relation, panelTimer, panelForm, writes>>
    BY <2>1 DEF PanelAnswered, TypeInv, WebEducationTypeOK
  <2> QED
    BY <2>2 DEF TypeInv, Acts, WebEducationTypeOK, PanelHasRecord,
       WritesHappened, serverVars, listVars, pageVars
<1> QED BY <1>1, <1>2, <1>3, <1>4

\* Operations of the list and of the panel are told apart by their fields.
LEMMA WriteKinds ==
    /\ NoWrite \notin PanelWrite /\ NoWrite \notin Write
    /\ \A x \in Write : x \notin PanelWrite
BY DEF NoWrite, PanelWrite, Write

LEMMA TypeStarts ==
    ASSUME TypeInv, Acts, NEW w \in Writes,
           \/ \E kind \in {"save", "delete", "opis"} : StartWrite(w, kind)
           \/ StartPanelWrite(w)
    PROVE  TypeInv'
<1>1. CASE \E kind \in {"save", "delete", "opis"} : StartWrite(w, kind)
  <2>1. PICK kind \in {"save", "delete", "opis"} : StartWrite(w, kind)
    BY <1>1
  <2> DEFINE op == [pc |-> "sent", kind |-> kind, at |-> 0]
  <2>2. Starts(w, op)
    BY <2>1 DEF StartWrite
  <2>3. op \in Write /\ op.at =< revision
    BY WebEducationAssumption DEF Write, TypeInv, WebEducationTypeOK
  <2> HIDE DEF op
  <2>4. op \notin PanelWrite
    BY <2>3, WriteKinds
  <2>5. /\ writes' = [writes EXCEPT ![w] = op]
        /\ UNCHANGED <<serverVars, listVars, pageVars, panelVars>>
    BY <2>2 DEF Starts
  <2> QED
    BY <2>3, <2>4, <2>5 DEF TypeInv, Acts, WebEducationTypeOK, PanelHasRecord,
       WritesHappened, serverVars, listVars, pageVars, panelVars
<1>2. CASE StartPanelWrite(w)
  <2> DEFINE op == [pc |-> "sent", kind |-> "panel", form |-> panelForm, to |-> <<selected, relation>>]
  <2>1. selected \in Records /\ selected # NoRecord /\ panelForm \in Form
    BY <1>2 DEF StartPanelWrite, TypeInv, WebEducationTypeOK, PanelHasRecord
  <2>2. op \in PanelWrite
    BY <2>1 DEF PanelWrite, Key, TypeInv, WebEducationTypeOK
  <2>3. Starts(w, op)
    BY <1>2 DEF StartPanelWrite
  <2> HIDE DEF op
  <2>4. op \notin Write
    BY <2>2, WriteKinds
  <2>5. /\ writes' = [writes EXCEPT ![w] = op]
        /\ UNCHANGED <<serverVars, listVars, pageVars, panelVars>>
    BY <2>3 DEF Starts
  <2> QED
    BY <2>1, <2>2, <2>4, <2>5 DEF TypeInv, Acts, WebEducationTypeOK, PanelHasRecord,
       WritesHappened, serverVars, listVars, pageVars, panelVars
<1> QED BY <1>1, <1>2

LEMMA TypeOthersWrite ==
    ASSUME TypeInv, Acts, OthersWrite
    PROVE  TypeInv'
<1>1. /\ revision \in Nat /\ revision' \in 0 .. MaxRevision
      /\ revision' = revision + 1 /\ acked' \in 0 .. revision'
      /\ UNCHANGED <<listVars, pageVars, panelVars, writes>>
  BY WebEducationAssumption DEF OthersWrite, TypeInv, WebEducationTypeOK
<1>2. \A x \in Writes : writes[x] \in Write => writes[x].at \in 0 .. MaxRevision
  BY DEF Write
<1>3. WritesHappened'
  BY <1>1, <1>2, WebEducationAssumption DEF TypeInv, WritesHappened
<1> QED
  BY <1>1, <1>3 DEF TypeInv, Acts, WebEducationTypeOK, PanelHasRecord, listVars, pageVars, panelVars

LEMMA TypeCommit ==
    ASSUME TypeInv, Acts, NEW w \in Writes, Commit(w)
    PROVE  TypeInv'
<1> DEFINE op == [writes[w] EXCEPT !.pc = "committed", !.at = revision + 1]
<1>1. /\ revision \in Nat /\ revision' \in 0 .. MaxRevision
      /\ revision' = revision + 1 /\ acked' \in 0 .. revision'
      /\ UNCHANGED <<listVars, pageVars, panelVars>>
  BY WebEducationAssumption DEF Commit, TypeInv, WebEducationTypeOK
<1>2. op \in Write /\ op.at = revision'
  BY <1>1 DEF Commit, Write
<1>3. writes' = [writes EXCEPT ![w] = op]
  BY DEF Commit, TypeInv, WebEducationTypeOK
<1> HIDE DEF op
<1>4. op \notin PanelWrite
  BY <1>2, WriteKinds
<1>5. \A x \in Writes : writes[x] \in Write => writes[x].at \in 0 .. MaxRevision
  BY DEF Write
<1>6. ASSUME NEW x \in Writes, writes'[x] \in Write PROVE writes'[x].at =< revision'
  <2>1. CASE x = w
    BY <1>1, <1>2, <1>3, <2>1, WebEducationAssumption DEF TypeInv, WebEducationTypeOK
  <2>2. CASE x # w
    BY <1>1, <1>3, <1>5, <1>6, <2>2, WebEducationAssumption
       DEF TypeInv, WebEducationTypeOK, WritesHappened
  <2> QED BY <2>1, <2>2
<1> QED
  BY <1>1, <1>2, <1>3, <1>4, <1>6 DEF TypeInv, Acts, WebEducationTypeOK, PanelHasRecord,
     WritesHappened, listVars, pageVars, panelVars

LEMMA TypeCommitPanel ==
    ASSUME TypeInv, Acts, NEW w \in Writes, CommitPanel(w) \/ WriteFails(w)
    PROVE  TypeInv'
<1>1. UNCHANGED <<serverVars, listVars, pageVars, panelVars>>
  BY DEF CommitPanel, WriteFails
<1>2. CASE CommitPanel(w)
  <2> DEFINE op == [writes[w] EXCEPT !.pc = "committed"]
  <2>1. op \in PanelWrite /\ writes[w] \in PanelWrite
    BY <1>2 DEF CommitPanel, PanelWrite
  <2>2. writes' = [writes EXCEPT ![w] = op]
    BY <1>2 DEF CommitPanel, TypeInv, WebEducationTypeOK
  <2> HIDE DEF op
  <2>3. op \notin Write
    BY <2>1, WriteKinds
  <2> QED
    BY <1>1, <2>1, <2>2, <2>3 DEF TypeInv, Acts, WebEducationTypeOK, PanelHasRecord,
       WritesHappened, serverVars, listVars, pageVars, panelVars
<1>3. CASE WriteFails(w)
  BY <1>1, <1>3, WriteKinds DEF WriteFails, TypeInv, Acts, WebEducationTypeOK, PanelHasRecord,
     WritesHappened, serverVars, listVars, pageVars, panelVars
<1> QED BY <1>2, <1>3

LEMMA TypeWriteSucceeds ==
    ASSUME TypeInv, Acts, NEW w \in Writes, NEW l \in Loads, WriteSucceeds(w, l)
    PROVE  TypeInv' /\ acked' \in 0 .. revision
<1>1. acked' \in 0 .. revision
  <2>1. writes[w].at \in 0 .. MaxRevision /\ writes[w].at =< revision
    BY DEF WriteSucceeds, TypeInv, WritesHappened, Write
  <2> QED
    BY <2>1, WebEducationAssumption DEF WriteSucceeds, TypeInv, WebEducationTypeOK
<1>2. BeginLoad(l, controls) /\ controls \in Controls
  BY DEF WriteSucceeds, Reload, TypeInv, WebEducationTypeOK
<1>3. writes' = [writes EXCEPT ![w] = NoWrite] /\ dialogs' \subseteq Dialogs
  BY DEF WriteSucceeds, TypeInv, WebEducationTypeOK
<1>4. UNCHANGED <<revision, controls, timer, details, selected, panelVars>>
  BY DEF WriteSucceeds
<1> QED
  BY <1>1, <1>2, <1>3, <1>4, BeginLoadType, WriteKinds
     DEF TypeInv, Acts, WebEducationTypeOK, PanelHasRecord, WritesHappened, panelVars

LEMMA TypePanelWriteSucceeds ==
    ASSUME TypeInv, Acts, NEW w \in Writes, NEW p \in PanelLoads, PanelWriteSucceeds(w, p)
    PROVE  TypeInv'
<1>1. selected \in Records /\ selected # NoRecord
  BY DEF PanelWriteSucceeds, TypeInv, WebEducationTypeOK, PanelHasRecord
<1>2. <<selected, relation>> \in Key /\ BeginPanelLoad(p, <<selected, relation>>)
  BY <1>1 DEF PanelWriteSucceeds, TypeInv, WebEducationTypeOK, Key
<1>3. /\ writes' = [writes EXCEPT ![w] = NoWrite]
      /\ panelForm' \in Form \cup {NoForm}
      /\ UNCHANGED <<serverVars, listVars, pageVars, relation, panel, panelTimer>>
  BY DEF PanelWriteSucceeds, TypeInv, WebEducationTypeOK
<1> QED
  BY <1>1, <1>2, <1>3, BeginPanelLoadType, WriteKinds
     DEF TypeInv, Acts, WebEducationTypeOK, PanelHasRecord, WritesHappened,
         serverVars, listVars, pageVars

-----------------------------------------------------------------------------
(* The list.                                                                *)

\* The newest request decides the spinner, asks for the filter on the screen unless
\* the timer is about to, and was sent after everything confirmed so far.
NewestDecides ==
    /\ loading <=> loads[newest] # NoLoad
    /\ loading /\ timer = NoTimer => loads[newest].request.filter = controls.filter
    /\ loading => loads[newest].since >= acked

ListInv == NewestDecides /\ ListShowsControls /\ SavedIsListed

LEMMA ListInit == Init => ListInv
<1> SUFFICES ASSUME Init PROVE ListInv
  OBVIOUS
<1>1. controls \in Controls
  BY WebEducationAssumption DEF Init, Controls
<1>2. loads[newest] = [request |-> controls, since |-> 0] /\ loads[newest] # NoLoad
  BY <1>1, WebEducationAssumption DEF Init, Controls
<1> QED
  BY <1>2 DEF Init, ListInv, NewestDecides, ListShowsControls, SavedIsListed

\* A new request for the filter on the screen restarts the list.
LEMMA ListBegun ==
    ASSUME TypeInv, NEW l \in Loads, NEW request \in Controls, BeginLoad(l, request),
           controls'.filter = request.filter, acked' \in 0 .. revision
    PROVE  ListInv'
<1>1. /\ loads'[l] = [request |-> request, since |-> revision]
      /\ newest' = l /\ loading' = TRUE
  BY DEF BeginLoad, TypeInv, WebEducationTypeOK
<1>2. loads'[l] # NoLoad
  BY <1>1, WebEducationAssumption DEF TypeInv, WebEducationTypeOK, Controls
<1> QED
  BY <1>1, <1>2, WebEducationAssumption
     DEF ListInv, NewestDecides, ListShowsControls, SavedIsListed, TypeInv, WebEducationTypeOK

LEMMA ListUnchanged ==
    ASSUME ListInv, UNCHANGED <<listVars, acked>>
    PROVE  ListInv'
BY DEF ListInv, NewestDecides, ListShowsControls, SavedIsListed, listVars

LEMMA ListListAnswered ==
    ASSUME TypeInv, ListInv, NEW l \in Loads, ListAnswered(l)
    PROVE  ListInv'
<1>1. /\ loads[l] # NoLoad /\ loads' = [loads EXCEPT ![l] = NoLoad]
      /\ UNCHANGED <<acked, timer, newest>>
  BY DEF ListAnswered, serverVars
<1>2. loads[l] \in [request : Controls, since : 0 .. MaxRevision] /\ loads'[l] = NoLoad
  BY <1>1 DEF TypeInv, WebEducationTypeOK
<1>3. CASE newest # l
  <2>1. loads'[newest] = loads[newest]
    BY <1>1, <1>3 DEF TypeInv, WebEducationTypeOK
  <2>2. UNCHANGED <<loading, rows, controls, error>>
    BY <1>3 DEF ListAnswered, CurrentLoad
  <2> QED
    BY <1>1, <2>1, <2>2 DEF ListInv, NewestDecides, ListShowsControls, SavedIsListed
<1>4. CASE newest = l
  <2>1. loading /\ loads[l].since >= acked
        /\ (timer = NoTimer => loads[l].request.filter = controls.filter)
    BY <1>1, <1>4 DEF ListInv, NewestDecides
  <2>2. loading' = FALSE
    BY <1>4 DEF ListAnswered, CurrentLoad, SpinnerAfter
  <2>3. NewestDecides'
    BY <1>1, <1>2, <1>4, <2>2 DEF NewestDecides
  <2>4. CASE error' = TRUE
    BY <2>3, <2>4 DEF ListInv, ListShowsControls, SavedIsListed
  <2>5. CASE /\ \E seen \in loads[l].since .. revision :
                   rows' = [request |-> loads[l].request, seen |-> seen]
             /\ controls' = [controls EXCEPT !.page = loads[l].request.page,
                                             !.size = loads[l].request.size]
    <3>1. PICK seen \in loads[l].since .. revision :
             rows' = [request |-> loads[l].request, seen |-> seen]
      BY <2>5
    <3>2. /\ controls'.page = loads[l].request.page
          /\ controls'.size = loads[l].request.size
          /\ controls'.filter = controls.filter
      BY <2>5 DEF TypeInv, WebEducationTypeOK, Controls
    <3>3. seen \in 0 .. MaxRevision /\ seen >= acked
      BY <1>2, <2>1, <3>1, WebEducationAssumption DEF TypeInv, WebEducationTypeOK
    <3>4. rows' # NoLoad
      BY <1>2, <3>1, <3>3, <2>3, WebEducationAssumption DEF Controls
    <3>5. rows'.request = loads[l].request /\ rows'.seen = seen
      BY <3>1
    <3> QED
      BY <1>1, <2>1, <2>3, <3>2, <3>3, <3>4, <3>5 DEF ListInv, ListShowsControls, SavedIsListed
  <2> QED BY <1>4, <2>4, <2>5 DEF ListAnswered, CurrentLoad
<1> QED BY <1>3, <1>4

LEMMA ListUserActs ==
    ASSUME TypeInv, ListInv, Acts, UserActs
    PROVE  TypeInv' /\ ListInv'
<1>1. ASSUME NEW l \in Loads, NEW request \in Controls, AsksWith(l, request)
      PROVE  TypeInv' /\ ListInv'
  <2>1. acked' \in 0 .. revision
    BY <1>1 DEF AsksWith, serverVars, TypeInv, WebEducationTypeOK
  <2>2. BeginLoad(l, request) /\ controls'.filter = request.filter
    BY <1>1 DEF AsksWith
  <2> QED BY <1>1, <2>1, <2>2, TypeAsksWith, ListBegun
<1>2. CASE \E f \in Filters : TypeFilter(f)
  <2>1. PICK f \in Filters : TypeFilter(f)
    BY <1>2
  <2>2. timer' # NoTimer
    BY <2>1, WebEducationAssumption DEF TypeFilter, TypeInv, WebEducationTypeOK, Controls
  <2>3. controls'.page = controls.page /\ controls'.size = controls.size
    BY <2>1 DEF TypeFilter, TypeInv, WebEducationTypeOK, Controls
  <2>4. ListInv'
    BY <2>1, <2>2, <2>3
       DEF TypeFilter, serverVars, ListInv, NewestDecides, ListShowsControls, SavedIsListed
  <2> QED BY <2>1, <2>4, TypeTypeFilter
<1>3. CASE \E l \in Loads : \/ \E o \in Orders : ChangeOrder(l, o)
                            \/ \E n \in Sizes : ChangeSize(l, n)
                            \/ \E p \in 1 .. MaxPage : TurnPage(l, p)
  BY <1>1, <1>3, ControlsRequest DEF ChangeOrder, ChangeSize, TurnPage
<1>4. CASE \/ \E d \in {"form", "delete"} : OpenDialog(d)
           \/ \E s \in Details, r \in Records : AskDetail(s, r)
  BY <1>4, TypeDialogs, ListUnchanged DEF OpenDialog, AskDetail, serverVars
<1>5. CASE \E p \in PanelLoads : RefreshPanel(p) \/ \E x \in Relations : SwitchRelation(p, x)
  <2>1. PICK p \in PanelLoads : RefreshPanel(p) \/ \E x \in Relations : SwitchRelation(p, x)
    BY <1>5
  <2>2. UNCHANGED <<listVars, acked>>
    BY <2>1 DEF RefreshPanel, AskPanel, SwitchRelation, serverVars
  <2> QED BY <2>1, <2>2, TypePanelLoads, ListUnchanged
<1>6. CASE FilterPanel \/ \E kind \in {"add", "edit", "delete"} : OpenPanelForm(kind)
  BY <1>6, TypePanelForm, ListUnchanged DEF FilterPanel, OpenPanelForm, serverVars
<1>7. CASE \E w \in Writes : \/ StartPanelWrite(w)
                             \/ \E kind \in {"save", "delete", "opis"} : StartWrite(w, kind)
  BY <1>7, TypeStarts, ListUnchanged DEF StartPanelWrite, StartWrite, Starts, serverVars
<1> QED
  BY <1>2, <1>3, <1>4, <1>5, <1>6, <1>7 DEF UserActs

LEMMA ListClientActs ==
    ASSUME TypeInv, ListInv, Acts, ClientActs
    PROVE  TypeInv' /\ ListInv'
<1>1. ASSUME NEW l \in Loads, ListAnswered(l) PROVE TypeInv' /\ ListInv'
  BY <1>1, TypeListAnswered, ListListAnswered
<1>2. ASSUME NEW l \in Loads, TimerFires(l) PROVE TypeInv' /\ ListInv'
  <2>1. TimerRequest \in Controls /\ BeginLoad(l, TimerRequest)
    BY <1>2, TimerRequestType DEF TimerFires
  <2>2. controls'.filter = TimerRequest.filter
    BY <1>2 DEF TimerFires, TimerRequest, TypeInv, WebEducationTypeOK, Controls
  <2>3. acked' \in 0 .. revision
    BY <1>2 DEF TimerFires, serverVars, TypeInv, WebEducationTypeOK
  <2> QED BY <1>2, <2>1, <2>2, <2>3, TypeTimerFires, ListBegun
<1>3. CASE \/ \E d \in Dialogs : CloseDialog(d)
           \/ \E s \in Details : DetailFails(s)
  BY <1>3, TypeDialogs, ListUnchanged DEF CloseDialog, DetailFails, serverVars
<1>4. ASSUME NEW s \in Details, NEW p \in PanelLoads, DetailArrives(s, p)
      PROVE  TypeInv' /\ ListInv'
  BY <1>4, TypeDetailArrives, ListUnchanged DEF DetailArrives, serverVars
<1>5. ASSUME NEW p \in PanelLoads, PanelTimerFires(p) PROVE TypeInv' /\ ListInv'
  BY <1>5, TypePanelLoads, ListUnchanged DEF PanelTimerFires, AskPanel, serverVars
<1>6. CASE ClosePanelForm \/ \E p \in PanelLoads : PanelAnswered(p)
  BY <1>6, TypePanelForm, ListUnchanged DEF ClosePanelForm, PanelAnswered, serverVars
<1>7. ASSUME NEW w \in Writes, Commit(w) PROVE TypeInv' /\ ListInv'
  BY <1>7, TypeCommit, ListUnchanged DEF Commit
<1>8. ASSUME NEW w \in Writes, CommitPanel(w) \/ WriteFails(w) PROVE TypeInv' /\ ListInv'
  BY <1>8, TypeCommitPanel, ListUnchanged DEF CommitPanel, WriteFails, serverVars
<1>9. ASSUME NEW w \in Writes, NEW l \in Loads, WriteSucceeds(w, l) PROVE TypeInv' /\ ListInv'
  <2>1. BeginLoad(l, controls) /\ controls \in Controls /\ controls' = controls
    BY <1>9 DEF WriteSucceeds, Reload, TypeInv, WebEducationTypeOK
  <2> QED BY <1>9, <2>1, TypeWriteSucceeds, ListBegun
<1>10. ASSUME NEW w \in Writes, NEW p \in PanelLoads, PanelWriteSucceeds(w, p)
       PROVE  TypeInv' /\ ListInv'
  BY <1>10, TypePanelWriteSucceeds, ListUnchanged DEF PanelWriteSucceeds, serverVars
<1>11. CASE OthersWrite
  BY <1>11, TypeOthersWrite, ListUnchanged DEF OthersWrite
<1> QED
  BY <1>1, <1>2, <1>3, <1>4, <1>5, <1>6, <1>7, <1>8, <1>9, <1>10, <1>11 DEF ClientActs

LEMMA ListNext ==
    ASSUME TypeInv, ListInv, [Next]_educationVars
    PROVE  TypeInv' /\ ListInv'
<1>1. CASE ClientActs /\ UNCHANGED acts
  BY <1>1, ListClientActs DEF Acts, TypeInv, WebEducationTypeOK
<1>2. CASE acts < MaxActs /\ UserActs /\ acts' = acts + 1
  BY <1>2, ListUserActs, WebEducationAssumption DEF Acts, TypeInv, WebEducationTypeOK
<1>3. CASE UNCHANGED educationVars
  <2>1. UNCHANGED <<serverVars, listVars, pageVars, panelVars, writes, acts>>
    BY <1>3 DEF educationVars, screenVars
  <2>2. TypeInv'
    BY <2>1 DEF TypeInv, WebEducationTypeOK, PanelHasRecord, WritesHappened,
       serverVars, listVars, pageVars, panelVars
  <2> QED BY <2>1, <2>2, ListUnchanged DEF serverVars
<1> QED BY <1>1, <1>2, <1>3 DEF Next

LEMMA ListAlways == EducationSpec => [](TypeInv /\ ListInv)
BY TypeInit, ListInit, ListNext, PTL DEF EducationSpec

\* The types of the page, in particular that no operation was confirmed with a
\* revision the server does not have.
THEOREM WebEducationTypes == EducationSpec => []WebEducationTypeOK
BY ListAlways, PTL DEF TypeInv

\* Whatever requests overlap, a list at rest shows what its controls show.
THEOREM ListAgreesWithControls == EducationSpec => []ListShowsControls
BY ListAlways, PTL DEF ListInv

\* Rows are never older than what the server confirmed to this page.
THEOREM SavedRecordsAreListed == EducationSpec => []SavedIsListed
BY ListAlways, PTL DEF ListInv
-----------------------------------------------------------------------------
(* Where the forms of the panel are saved.                                  *)

\* While a form of the panel is open, no details of another record are under way.
NoLateDetail == panelForm # NoForm => \A s \in Details : details[s] \in {NoRecord, selected}

\* The form of a new record is for what the panel shows.
FormAtHome == panelForm # NoForm /\ panelForm.kind = "add" => panelForm.of = <<selected, relation>>

LEMMA PanelWriteKind == NoWrite \notin PanelWrite /\ \A x \in Write : x \notin PanelWrite
BY DEF NoWrite, Write, PanelWrite

\* Operations that go on keep where they save.
LEMMA WritesStay ==
    ASSUME TypeInv, RelatedStaysWithParent, NEW w \in Writes, NEW new,
           writes' = [writes EXCEPT ![w] = new],
           new \in PanelWrite /\ new.form.kind = "add" => new.form.of = new.to
    PROVE  RelatedStaysWithParent'
<1>1. \A v \in Writes : writes'[v] = IF v = w THEN new ELSE writes[v]
  BY DEF TypeInv, WebEducationTypeOK
<1> QED BY <1>1 DEF RelatedStaysWithParent

LEMMA HomeUnchanged ==
    ASSUME RelatedStaysWithParent, FormAtHome,
           UNCHANGED <<selected, relation, writes>>, panelForm' = panelForm \/ panelForm' = NoForm
    PROVE  FormAtHome' /\ RelatedStaysWithParent'
BY DEF FormAtHome, RelatedStaysWithParent

LEMMA HomeUserActs ==
    ASSUME TypeInv, FormAtHome, RelatedStaysWithParent, UserActs
    PROVE  FormAtHome' /\ RelatedStaysWithParent'
<1>1. CASE \/ \E f \in Filters : TypeFilter(f)
           \/ \E l \in Loads : \/ \E o \in Orders : ChangeOrder(l, o)
                               \/ \E n \in Sizes : ChangeSize(l, n)
                               \/ \E p \in 1 .. MaxPage : TurnPage(l, p)
           \/ \E d \in {"form", "delete"} : OpenDialog(d)
           \/ \E s \in Details, r \in Records : AskDetail(s, r)
           \/ FilterPanel \/ \E p \in PanelLoads : RefreshPanel(p)
  <2>1. UNCHANGED <<selected, relation, writes, panelForm>>
    BY <1>1 DEF TypeFilter, ChangeOrder, ChangeSize, TurnPage, AsksWith, OpenDialog, AskDetail,
       FilterPanel, RefreshPanel, AskPanel, pageVars, panelVars
  <2> QED BY <2>1, HomeUnchanged
<1>2. ASSUME NEW p \in PanelLoads, NEW x \in Relations, SwitchRelation(p, x)
      PROVE  FormAtHome' /\ RelatedStaysWithParent'
  BY <1>2 DEF SwitchRelation, PanelUsable, Uncovered, PanelFor, FormAtHome, RelatedStaysWithParent
<1>3. ASSUME NEW kind \in {"add", "edit", "delete"}, OpenPanelForm(kind)
      PROVE  FormAtHome' /\ RelatedStaysWithParent'
  <2>1. /\ panelForm'.kind = kind /\ (kind = "add" => panelForm'.of = <<selected, relation>>)
        /\ UNCHANGED <<selected, relation, writes>>
    BY <1>3 DEF OpenPanelForm, pageVars
  <2> QED BY <2>1 DEF FormAtHome, RelatedStaysWithParent
<1>4. ASSUME NEW w \in Writes, NEW kind \in {"save", "delete", "opis"}, StartWrite(w, kind)
      PROVE  FormAtHome' /\ RelatedStaysWithParent'
  <2> DEFINE new == [pc |-> "sent", kind |-> kind, at |-> 0]
  <2>1. writes' = [writes EXCEPT ![w] = new] /\ UNCHANGED <<selected, relation, panelForm>>
    BY <1>4 DEF StartWrite, Starts, pageVars, panelVars
  <2>2. new \notin PanelWrite
    BY DEF PanelWrite
  <2> HIDE DEF new
  <2> QED BY <2>1, <2>2, WritesStay DEF FormAtHome
<1>5. ASSUME NEW w \in Writes, StartPanelWrite(w)
      PROVE  FormAtHome' /\ RelatedStaysWithParent'
  <2> DEFINE new == [pc |-> "sent", kind |-> "panel", form |-> panelForm, to |-> <<selected, relation>>]
  <2>1. /\ writes' = [writes EXCEPT ![w] = new] /\ UNCHANGED <<selected, relation, panelForm>>
        /\ panelForm # NoForm
    BY <1>5 DEF StartPanelWrite, Starts, pageVars, panelVars
  <2>2. new.form.kind = "add" => new.form.of = new.to
    BY <2>1 DEF FormAtHome
  <2> HIDE DEF new
  <2> QED BY <2>1, <2>2, WritesStay DEF FormAtHome
<1> QED
  BY <1>1, <1>2, <1>3, <1>4, <1>5 DEF UserActs

LEMMA HomeClientActs ==
    ASSUME TypeInv, FormAtHome, RelatedStaysWithParent, NoLateDetail, ClientActs
    PROVE  FormAtHome' /\ RelatedStaysWithParent'
<1>1. CASE \/ \E l \in Loads : ListAnswered(l) \/ TimerFires(l)
           \/ \E d \in Dialogs : CloseDialog(d)
           \/ ClosePanelForm
           \/ \E s \in Details : DetailFails(s)
           \/ \E p \in PanelLoads : PanelTimerFires(p) \/ PanelAnswered(p)
           \/ OthersWrite
  <2>1. /\ UNCHANGED <<selected, relation, writes>>
        /\ panelForm' = panelForm \/ panelForm' = NoForm
    BY <1>1 DEF ListAnswered, TimerFires, CloseDialog, ClosePanelForm, DetailFails, PanelTimerFires,
       AskPanel, PanelAnswered, OthersWrite, pageVars, panelVars
  <2> QED BY <2>1, HomeUnchanged
<1>2. ASSUME NEW s \in Details, NEW p \in PanelLoads, DetailArrives(s, p)
      PROVE  FormAtHome' /\ RelatedStaysWithParent'
  <2>1. /\ details[s] # NoRecord /\ selected' = details[s]
        /\ UNCHANGED <<relation, panelForm, writes>>
    BY <1>2 DEF DetailArrives, PanelFor, panelVars
  <2> QED BY <2>1 DEF NoLateDetail, FormAtHome, RelatedStaysWithParent
<1>3. ASSUME NEW w \in Writes, Commit(w)
      PROVE  FormAtHome' /\ RelatedStaysWithParent'
  <2> DEFINE new == [writes[w] EXCEPT !.pc = "committed", !.at = revision + 1]
  <2>1. /\ writes[w] \in Write /\ UNCHANGED <<selected, relation, panelForm>>
        /\ writes' = [writes EXCEPT ![w] = new]
    BY <1>3 DEF Commit, pageVars, panelVars, TypeInv, WebEducationTypeOK
  <2>2. new.kind # "panel"
    BY <2>1 DEF Write
  <2>3. new \notin PanelWrite
    BY <2>2 DEF PanelWrite
  <2> HIDE DEF new
  <2> QED BY <2>1, <2>3, WritesStay DEF FormAtHome
<1>4. ASSUME NEW w \in Writes, CommitPanel(w)
      PROVE  FormAtHome' /\ RelatedStaysWithParent'
  <2> DEFINE new == [writes[w] EXCEPT !.pc = "committed"]
  <2>1. /\ writes[w] \in PanelWrite /\ UNCHANGED <<selected, relation, panelForm>>
        /\ writes' = [writes EXCEPT ![w] = new]
    BY <1>4 DEF CommitPanel, pageVars, panelVars, TypeInv, WebEducationTypeOK
  <2>2. new.form = writes[w].form /\ new.to = writes[w].to
    BY <2>1 DEF PanelWrite
  <2> HIDE DEF new
  <2> QED BY <2>1, <2>2, WritesStay DEF FormAtHome, RelatedStaysWithParent
<1>5. ASSUME NEW w \in Writes, WriteFails(w) \/ \E l \in Loads : WriteSucceeds(w, l)
      PROVE  FormAtHome' /\ RelatedStaysWithParent'
  BY <1>5, PanelWriteKind, WritesStay DEF WriteFails, WriteSucceeds, FormAtHome, pageVars, panelVars
<1>6. ASSUME NEW w \in Writes, NEW p \in PanelLoads, PanelWriteSucceeds(w, p)
      PROVE  FormAtHome' /\ RelatedStaysWithParent'
  <2>1. /\ writes' = [writes EXCEPT ![w] = NoWrite] /\ UNCHANGED <<selected, relation>>
        /\ panelForm' = panelForm \/ panelForm' = NoForm
    BY <1>6 DEF PanelWriteSucceeds, pageVars
  <2> QED BY <2>1, PanelWriteKind, WritesStay DEF FormAtHome
<1> QED
  BY <1>1, <1>2, <1>3, <1>4, <1>5, <1>6 DEF ClientActs

LEMMA HomeNext ==
    ASSUME TypeInv, FormAtHome, RelatedStaysWithParent, NoLateDetail, [Next]_educationVars
    PROVE  FormAtHome' /\ RelatedStaysWithParent'
<1>1. CASE UNCHANGED educationVars
  BY <1>1, HomeUnchanged DEF educationVars, screenVars, pageVars, panelVars
<1> QED BY <1>1, HomeUserActs, HomeClientActs DEF Next

\* What is entered for a record is saved to that record, as long as no details of
\* another one are under way while a form of the panel is open: that RelatedStaysWithParent
\* is violated is due to such a late answer alone, and holding the form back until
\* the details have arrived restores it.
THEOREM LateDetailsAloneMisplace ==
    EducationSpec /\ []NoLateDetail => []RelatedStaysWithParent
<1>1. Init => FormAtHome /\ RelatedStaysWithParent
  BY PanelWriteKind DEF Init, FormAtHome, RelatedStaysWithParent
<1>2. EducationSpec => []TypeInv
  BY ListAlways, PTL
<1> QED BY <1>1, <1>2, HomeNext, PTL DEF EducationSpec
-----------------------------------------------------------------------------
(* In which order the rows are.                                             *)

\* The order is not changed while a typed filter waits for its timer.
NoLateTimer == timer # NoTimer => timer.order = controls.order

\* The newest request asks for the order of the headers, as its rows show.
OrderInv ==
    /\ loading => loads[newest].request.order = controls.order
    /\ ~loading /\ ~error => rows.request.order = controls.order

LEMMA OrderBegun ==
    ASSUME TypeInv, NEW l \in Loads, NEW request \in Controls, BeginLoad(l, request),
           controls'.order = request.order
    PROVE  OrderInv'
<1>1. loads'[l] = [request |-> request, since |-> revision] /\ newest' = l /\ loading' = TRUE
  BY DEF BeginLoad, TypeInv, WebEducationTypeOK
<1> QED BY <1>1 DEF OrderInv

LEMMA OrderUnchanged ==
    ASSUME OrderInv, UNCHANGED listVars
    PROVE  OrderInv'
BY DEF OrderInv, listVars

LEMMA OrderNext ==
    ASSUME TypeInv, ListInv, OrderInv, NoLateTimer, [Next]_educationVars
    PROVE  OrderInv'
<1>1. ASSUME NEW l \in Loads, ListAnswered(l) PROVE OrderInv'
  <2>1. loads[l] # NoLoad /\ loads' = [loads EXCEPT ![l] = NoLoad] /\ UNCHANGED newest
    BY <1>1 DEF ListAnswered
  <2>2. CASE newest # l
    <3>1. loads'[newest] = loads[newest]
      BY <2>1, <2>2 DEF TypeInv, WebEducationTypeOK
    <3> QED
      BY <1>1, <2>1, <2>2, <3>1 DEF ListAnswered, CurrentLoad, OrderInv
  <2>3. CASE newest = l
    <3>1. loading /\ loading' = FALSE
      BY <1>1, <2>1, <2>3 DEF ListAnswered, CurrentLoad, SpinnerAfter, ListInv, NewestDecides
    <3>2. CASE error' = TRUE
      BY <3>1, <3>2 DEF OrderInv
    <3>3. CASE /\ \E seen \in loads[l].since .. revision :
                     rows' = [request |-> loads[l].request, seen |-> seen]
               /\ controls' = [controls EXCEPT !.page = loads[l].request.page,
                                               !.size = loads[l].request.size]
      <4>1. controls'.order = controls.order /\ rows'.request = loads[l].request
        BY <3>3 DEF TypeInv, WebEducationTypeOK, Controls
      <4> QED BY <2>3, <3>1, <4>1 DEF OrderInv
    <3> QED BY <1>1, <2>3, <3>2, <3>3 DEF ListAnswered, CurrentLoad
  <2> QED BY <2>2, <2>3
<1>2. ASSUME NEW l \in Loads, TimerFires(l) PROVE OrderInv'
  <2>1. TimerRequest \in Controls /\ BeginLoad(l, TimerRequest)
    BY <1>2, TimerRequestType DEF TimerFires
  <2>2. controls'.order = TimerRequest.order
    BY <1>2 DEF TimerFires, TimerRequest, NoLateTimer, TypeInv, WebEducationTypeOK, Controls
  <2> QED BY <2>1, <2>2, OrderBegun
<1>3. ASSUME NEW w \in Writes, NEW l \in Loads, WriteSucceeds(w, l) PROVE OrderInv'
  <2>1. BeginLoad(l, controls) /\ controls \in Controls /\ controls' = controls
    BY <1>3 DEF WriteSucceeds, Reload, TypeInv, WebEducationTypeOK
  <2> QED BY <2>1, OrderBegun
<1>4. CASE ClientActs
  <2>1. CASE \/ \E d \in Dialogs : CloseDialog(d)
             \/ ClosePanelForm
             \/ \E s \in Details : DetailFails(s) \/ \E p \in PanelLoads : DetailArrives(s, p)
             \/ \E p \in PanelLoads : PanelTimerFires(p) \/ PanelAnswered(p)
             \/ \E w \in Writes : \/ Commit(w) \/ CommitPanel(w) \/ WriteFails(w)
                                  \/ \E p \in PanelLoads : PanelWriteSucceeds(w, p)
             \/ OthersWrite
    BY <2>1, OrderUnchanged DEF CloseDialog, ClosePanelForm, DetailFails, DetailArrives,
       PanelTimerFires, AskPanel, PanelAnswered, Commit, CommitPanel, WriteFails,
       PanelWriteSucceeds, OthersWrite
  <2> QED BY <1>1, <1>2, <1>3, <1>4, <2>1 DEF ClientActs
<1>5. CASE UserActs
  <2>1. CASE \E f \in Filters : TypeFilter(f)
    <3>1. controls'.order = controls.order /\ UNCHANGED <<rows, loading, error, loads, newest>>
      BY <2>1 DEF TypeFilter, TypeInv, WebEducationTypeOK, Controls
    <3> QED BY <3>1 DEF OrderInv
  <2>2. ASSUME NEW l \in Loads, NEW request \in Controls, AsksWith(l, request) PROVE OrderInv'
    BY <2>2, OrderBegun DEF AsksWith
  <2>3. CASE \E l \in Loads : \/ \E o \in Orders : ChangeOrder(l, o)
                              \/ \E n \in Sizes : ChangeSize(l, n)
                              \/ \E p \in 1 .. MaxPage : TurnPage(l, p)
    BY <2>2, <2>3, ControlsRequest DEF ChangeOrder, ChangeSize, TurnPage
  <2>4. CASE \/ \E d \in {"form", "delete"} : OpenDialog(d)
             \/ \E s \in Details, r \in Records : AskDetail(s, r)
             \/ \E p \in PanelLoads : RefreshPanel(p) \/ \E x \in Relations : SwitchRelation(p, x)
             \/ FilterPanel
             \/ \E kind \in {"add", "edit", "delete"} : OpenPanelForm(kind)
             \/ \E w \in Writes : \/ StartPanelWrite(w)
                                  \/ \E kind \in {"save", "delete", "opis"} : StartWrite(w, kind)
    BY <2>4, OrderUnchanged DEF OpenDialog, AskDetail, RefreshPanel, AskPanel, SwitchRelation,
       FilterPanel, OpenPanelForm, StartPanelWrite, StartWrite, Starts
  <2> QED BY <1>5, <2>1, <2>3, <2>4 DEF UserActs
<1>6. CASE UNCHANGED educationVars
  BY <1>6, OrderUnchanged DEF educationVars, screenVars
<1> QED BY <1>4, <1>5, <1>6 DEF Next

\* Rows at rest are in the order of the headers, as long as the order is left alone
\* while a typed filter waits for its timer: nothing but such a timer, which asks with
\* the order of the render that set it, violates ListShowsOrder.
THEOREM LateTimersAloneMisorder ==
    EducationSpec /\ []NoLateTimer => []ListShowsOrder
<1>1. Init => OrderInv
  <2> SUFFICES ASSUME Init PROVE OrderInv
    OBVIOUS
  <2>1. loads[newest] = [request |-> controls, since |-> 0]
    BY DEF Init
  <2> QED BY <2>1 DEF Init, OrderInv
<1>2. EducationSpec => [](TypeInv /\ ListInv)
  BY ListAlways
<1>3. OrderInv => ListShowsOrder
  BY DEF OrderInv, ListShowsOrder
<1> QED BY <1>1, <1>2, <1>3, OrderNext, PTL DEF EducationSpec
=============================================================================
