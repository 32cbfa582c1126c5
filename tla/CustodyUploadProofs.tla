------------------------- MODULE CustodyUploadProofs -------------------------
(***************************************************************************)
(* Theorems about CustodyUpload, for any number of keys, requests, workers *)
(* and operations: what upload and recovery adopt, and that together they  *)
(* take only the steps that CustodyAdoption allows.                        *)
(***************************************************************************)
EXTENDS CustodyUpload, TLAPS

-----------------------------------------------------------------------------
(* Rows.                                                                   *)

FormRow == [data : Data \cup {NoData}, key : Keys \cup {NoKey},
            waits : Requests \cup {NoRequest}, document : Keys \cup {NoKey},
            error : {"none", "unconfirmed", "conflict", "revoked"}, revoked : BOOLEAN]
RequestRow == [at : HandlerSteps, key : Keys \cup {NoKey}, data : Data \cup {NoData}]
IntentRow == [status : {"none", "reserved", "stored", "committed"},
              disposition : Dispositions \cup {"none"}, data : Data \cup {NoData}]
DocumentRow == [disposition : Dispositions \cup {"none"}, key : Keys \cup {NoKey}]
OperationRow == [key : Keys \cup {NoKey}, disposition : Dispositions \cup {"none"},
                 status : Statuses, attempts : 0..MaxAttempts, owner : Workers \cup {NoWorker},
                 expired : BOOLEAN, error : Causes]
WorkerRow == [at : {"idle", "verify", "adopt", "failing"},
              op : Operations \cup {NoOperation},
              cause : Causes]

LEMMA TypeRows ==
    UploadTypeOK <=>
        /\ form \in FormRow
        /\ request \in [Requests -> RequestRow]
        /\ intent \in [Keys -> IntentRow]
        /\ flying \subseteq Keys /\ held \subseteq Keys
        /\ document \in [Keys -> DocumentRow]
        /\ open \in BOOLEAN
        /\ operation \in [Operations -> OperationRow]
        /\ worker \in [Workers -> WorkerRow]
BY DEF UploadTypeOK, FormRow, RequestRow, IntentRow, DocumentRow, OperationRow, WorkerRow

-----------------------------------------------------------------------------
(* The inductive invariant.                                                *)

\* A request in the handler has a key and data.
RequestsHaveKeys ==
    \A r \in Requests :
        \/ request[r] = IdleRequest
        \/ request[r].key \in Keys /\ request[r].data \in Data

\* The form waits for a request of its own key.
FormAwaits ==
    form.waits # NoRequest => form.key # NoKey /\ request[form.waits].key = form.key

\* What the form holds is what its key stands for.
FormKeyIdentifiesData ==
    form.key # NoKey =>
        /\ intent[form.key].status # "none" => intent[form.key].data = form.data
        /\ \A r \in Requests : request[r].key = form.key => request[r].data = form.data

\* Only a verified version is marked as stored.
MarksHeld == \A r \in Requests : request[r].at = "mark" => request[r].key \in held

RequestInv ==
    /\ form \in FormRow /\ request \in [Requests -> RequestRow]
    /\ RequestsHaveKeys /\ FormAwaits /\ KeyIdentifiesData /\ FormKeyIdentifiesData
    /\ MarksHeld /\ ReceivedIsAdopted

\* A document an upload inserted gives the teacher her grant.
UploadsGrant ==
    \A k \in Keys : /\ document[k].key = k => document[k].disposition = "teacher_access"
                    /\ document[k].disposition = "none" => document[k] = NoDocument

StoreInv ==
    /\ intent \in [Keys -> IntentRow] /\ document \in [Keys -> DocumentRow]
    /\ flying \subseteq Keys /\ held \subseteq Keys /\ open \in BOOLEAN
    /\ AdoptedAsDisposed /\ UploadsGrant

\* An operation is for an upload whose version is stored.
OperationsHaveUploads ==
    \A o \in Operations : operation[o].status # "none" =>
        /\ operation[o].key \in Keys /\ operation[o].disposition \in Dispositions
        /\ intent[operation[o].key].status \in {"stored", "committed"}

WorkersHaveOperations == \A w \in Workers : worker[w].at # "idle" => worker[w].op \in Operations

\* A worker that still has the lease lost its provenance to an adoption.
ProvenanceLost ==
    \A w \in Workers :
        LET o == operation[worker[w].op] IN
        /\ worker[w].at = "failing" /\ worker[w].cause = "provenance"
        /\ o.status = "leased" /\ o.owner = w
        => intent[o.key].status = "committed"

RecoveryInv ==
    /\ operation \in [Operations -> OperationRow] /\ worker \in [Workers -> WorkerRow]
    /\ OperationsHaveUploads /\ WorkersHaveOperations /\ ProvenanceLost /\ LostProvenanceWasAdopted

Inv == RequestInv /\ StoreInv /\ RecoveryInv

LEMMA InitInv == Init => Inv
<1> SUFFICES ASSUME Init PROVE Inv
  OBVIOUS
<1>1. form \in FormRow /\ request \in [Requests -> RequestRow]
  BY DEF Init, EmptyForm, IdleRequest, FormRow, RequestRow, HandlerSteps
<1>2. intent \in [Keys -> IntentRow] /\ document \in [Keys -> DocumentRow]
  BY DEF Init, NoIntent, NoDocument, IntentRow, DocumentRow
<1>3. operation \in [Operations -> OperationRow] /\ worker \in [Workers -> WorkerRow]
  BY UploadAssumption DEF Init, EmptyOperation, IdleWorker, OperationRow, WorkerRow, Statuses,
     Causes
<1>4. RequestInv
  <2>1. form.key = NoKey /\ form.waits = NoRequest /\ form.document = NoKey
    BY DEF Init, EmptyForm
  <2>2. \A r \in Requests : request[r] = IdleRequest /\ request[r].key = NoKey /\ request[r].at = "idle"
    BY DEF Init, IdleRequest
  <2> QED
    BY <1>1, <2>1, <2>2 DEF RequestInv, RequestsHaveKeys, FormAwaits, KeyIdentifiesData,
       FormKeyIdentifiesData, MarksHeld, ReceivedIsAdopted
<1>5. StoreInv
  <2>1. AdoptedAsDisposed
    BY DEF Init, AdoptedAsDisposed, NoIntent, NoDocument
  <2>2. UploadsGrant
    BY UploadAssumption DEF Init, UploadsGrant, NoDocument
  <2> QED BY <1>2, <2>1, <2>2 DEF Init, StoreInv
<1>6. RecoveryInv
  BY <1>3 DEF Init, RecoveryInv, OperationsHaveUploads, WorkersHaveOperations, ProvenanceLost,
     LostProvenanceWasAdopted, EmptyOperation, IdleWorker
<1> QED BY <1>4, <1>5, <1>6 DEF Inv

-----------------------------------------------------------------------------
(* What a step may do to the store without disturbing requests or workers. *)

StoreStep ==
    /\ held \subseteq held'
    /\ \A k \in Keys :
         /\ intent'[k].status # "none" =>
              intent[k].status # "none" /\ intent'[k].data = intent[k].data
         /\ intent[k].status \in {"stored", "committed"} =>
              intent'[k].status \in {"stored", "committed"}
         /\ intent[k].status = "committed" => intent'[k] = intent[k]
         /\ document[k].disposition # "none" => document'[k] = document[k]

LEMMA StoreUnchanged == UNCHANGED <<intent, held, document>> => StoreStep
BY DEF StoreStep

LEMMA StoreInvUnchanged ==
    ASSUME StoreInv, UNCHANGED <<intent, flying, held, document, open>>
    PROVE  StoreInv'
BY DEF StoreInv, AdoptedAsDisposed, UploadsGrant

LEMMA RequestsKept ==
    ASSUME RequestInv, StoreInv, StoreStep, UNCHANGED <<form, request>>
    PROVE  RequestInv'
<1>1. RequestsHaveKeys' /\ FormAwaits' /\ MarksHeld'
  BY DEF RequestInv, RequestsHaveKeys, FormAwaits, MarksHeld, StoreStep
<1>2. KeyIdentifiesData'
  BY UploadAssumption DEF RequestInv, KeyIdentifiesData, RequestsHaveKeys, IdleRequest, StoreStep
<1>3. FormKeyIdentifiesData'
  BY DEF RequestInv, FormKeyIdentifiesData, FormRow, StoreStep
<1>4. ReceivedIsAdopted'
  <2>1. form.document \in Keys \cup {NoKey}
    BY DEF RequestInv, FormRow
  <2> QED BY <2>1 DEF RequestInv, ReceivedIsAdopted, StoreStep
<1> QED BY <1>1, <1>2, <1>3, <1>4 DEF RequestInv

LEMMA RecoveryKept ==
    ASSUME RecoveryInv, StoreStep, UNCHANGED recoveryVars
    PROVE  RecoveryInv'
<1>1. OperationsHaveUploads' /\ WorkersHaveOperations'
  BY DEF RecoveryInv, OperationsHaveUploads, WorkersHaveOperations, StoreStep, recoveryVars
<1>2. \A o \in Operations : operation[o].status # "none" =>
         (intent[operation[o].key].status = "committed" => intent'[operation[o].key].status = "committed")
  BY DEF RecoveryInv, OperationsHaveUploads, StoreStep
<1>3. ProvenanceLost' /\ LostProvenanceWasAdopted'
  BY <1>2 DEF RecoveryInv, ProvenanceLost, WorkersHaveOperations, LostProvenanceWasAdopted, recoveryVars
<1> QED BY <1>1, <1>3 DEF RecoveryInv, recoveryVars

\* The handler goes on to its next step.
LEMMA GoKept ==
    ASSUME RequestInv, StoreInv, StoreStep, NEW r \in Requests, request[r].at # "idle",
           NEW step \in HandlerSteps, Go(r, step), step = "mark" => request[r].key \in held'
    PROVE  RequestInv'
<1> DEFINE next == [request[r] EXCEPT !.at = step]
<1>1. request[r] \in RequestRow /\ request[r].key \in Keys /\ request[r].data \in Data
  BY DEF RequestInv, RequestsHaveKeys, IdleRequest
<1>2. next \in RequestRow /\ next.key = request[r].key /\ next.data = request[r].data /\ next.at = step
  BY <1>1 DEF RequestRow
<1>3. request' = [request EXCEPT ![r] = next] /\ form' = form
  BY DEF Go
<1> HIDE DEF next
<1>4. request' \in [Requests -> RequestRow]
  BY <1>2, <1>3 DEF RequestInv
<1>5. /\ \A s \in Requests : /\ request'[s].key = request[s].key
                             /\ request'[s].data = request[s].data
                             /\ s # r => request'[s] = request[s]
      /\ request'[r].at = step
  BY <1>2, <1>3 DEF RequestInv
<1>6. RequestsHaveKeys'
  BY <1>1, <1>5 DEF RequestInv, RequestsHaveKeys
<1>7. MarksHeld'
  BY <1>5 DEF RequestInv, MarksHeld, StoreStep
<1>8. KeyIdentifiesData'
  BY <1>5, UploadAssumption DEF RequestInv, KeyIdentifiesData, RequestsHaveKeys, IdleRequest, StoreStep
<1>9. FormKeyIdentifiesData'
  BY <1>3, <1>5 DEF RequestInv, FormKeyIdentifiesData, FormRow, StoreStep
<1>11. FormAwaits'
  BY <1>3, <1>5 DEF RequestInv, FormAwaits, FormRow
<1>10. ReceivedIsAdopted'
  BY <1>3 DEF RequestInv, ReceivedIsAdopted, StoreStep, FormRow
<1> QED BY <1>3, <1>4, <1>6, <1>7, <1>8, <1>9, <1>10, <1>11 DEF RequestInv

Answers == {"ok", "unconfirmed", "conflict", "revoked"}

\* The handler ends.  What it reports as received is adopted with its data.
LEMMA AnswerKept ==
    ASSUME RequestInv, StoreInv, StoreStep, NEW r \in Requests, request[r].at # "idle",
           NEW answer \in Answers, Answer(r, answer),
           answer = "ok" =>
             /\ document'[request[r].key].disposition = "teacher_access"
             /\ intent'[request[r].key].status = "committed"
             /\ intent'[request[r].key].data = request[r].data
    PROVE  RequestInv'
<1>1. request[r].key \in Keys /\ request[r].data \in Data
  BY DEF RequestInv, RequestsHaveKeys, IdleRequest
<1>2. request' = [request EXCEPT ![r] = IdleRequest] /\ IdleRequest \in RequestRow
  BY DEF Answer, IdleRequest, RequestRow, HandlerSteps
<1>3. /\ request' \in [Requests -> RequestRow] /\ request'[r] = IdleRequest
      /\ \A s \in Requests : s # r => request'[s] = request[s]
  BY <1>2 DEF RequestInv
<1>4. RequestsHaveKeys' /\ MarksHeld'
  <2>1. RequestsHaveKeys'
    BY <1>3 DEF RequestInv, RequestsHaveKeys
  <2>2. request'[r].at # "mark"
    BY <1>3 DEF IdleRequest
  <2> QED BY <1>3, <2>1, <2>2 DEF RequestInv, MarksHeld, StoreStep
<1>5. KeyIdentifiesData'
  BY <1>3, UploadAssumption DEF RequestInv, KeyIdentifiesData, RequestsHaveKeys, IdleRequest, StoreStep
<1>6. /\ form' \in FormRow /\ form'.data = form.data /\ form'.key = form.key
      /\ form'.waits = IF form.waits = r THEN NoRequest ELSE form.waits
      /\ form'.document = IF form.waits = r /\ answer = "ok" THEN request[r].key ELSE form.document
  BY <1>1, UploadAssumption DEF Answer, Told, FormRow, RequestInv, Answers
<1>7. FormKeyIdentifiesData'
  BY <1>3, <1>6, UploadAssumption
     DEF RequestInv, FormKeyIdentifiesData, FormRow, StoreStep, IdleRequest
<1>8. FormAwaits'
  BY <1>3, <1>6 DEF RequestInv, FormAwaits, FormRow
<1>9. ReceivedIsAdopted'
  <2>1. CASE form.waits = r /\ answer = "ok"
    <3>1. form.key = request[r].key /\ form.key # NoKey
      BY <2>1, UploadAssumption DEF RequestInv, FormAwaits
    <3>2. request[r].data = form.data
      BY <3>1 DEF RequestInv, FormKeyIdentifiesData
    <3> QED BY <1>6, <2>1, <3>2 DEF ReceivedIsAdopted
  <2>2. CASE ~(form.waits = r /\ answer = "ok")
    BY <1>6, <2>2 DEF RequestInv, ReceivedIsAdopted, StoreStep, FormRow
  <2> QED BY <2>1, <2>2
<1> QED BY <1>3, <1>4, <1>5, <1>6, <1>7, <1>8, <1>9 DEF RequestInv

-----------------------------------------------------------------------------
(* The form.                                                                *)

LEMMA FormSteps ==
    ASSUME Inv, (\E d \in Data : Choose(d)) \/ LoseAnswer
    PROVE  Inv'
<1> USE DEF Inv
<1>1. UNCHANGED <<request, serverVars>>
  BY DEF Choose, LoseAnswer
<1>2. StoreInv' /\ RecoveryInv'
  BY <1>1, StoreInvUnchanged, StoreUnchanged, RecoveryKept DEF serverVars, recoveryVars
<1>3. RequestsHaveKeys' /\ KeyIdentifiesData' /\ MarksHeld'
  BY <1>1 DEF RequestInv, RequestsHaveKeys, KeyIdentifiesData, MarksHeld, serverVars
<1>4. CASE \E d \in Data : Choose(d)
  <2>1. form' \in FormRow /\ form'.key = NoKey /\ form'.document = NoKey /\ form'.waits = NoRequest
    BY <1>4 DEF Choose, Reset, RequestInv, FormRow
  <2> QED
    BY <1>1, <1>2, <1>3, <2>1 DEF RequestInv, FormAwaits, FormKeyIdentifiesData, ReceivedIsAdopted
<1>5. CASE LoseAnswer
  <2>1. /\ form' \in FormRow /\ form'.waits = NoRequest
        /\ form'.key = form.key /\ form'.data = form.data /\ form'.document = form.document
    BY <1>5 DEF LoseAnswer, Told, RequestInv, FormRow
  <2> QED
    BY <1>1, <1>2, <1>3, <2>1
       DEF RequestInv, FormAwaits, FormKeyIdentifiesData, ReceivedIsAdopted, serverVars
<1> QED BY <1>4, <1>5

LEMMA UploadStep ==
    ASSUME Inv, NEW r \in Requests, Upload(r)
    PROVE  Inv'
<1> USE DEF Inv
<1>1. /\ form.data \in Data /\ form.waits = NoRequest /\ form.document = NoKey
      /\ request[r] = IdleRequest /\ UNCHANGED serverVars
  BY DEF Upload, RequestInv, FormRow
<1>2. PICK k \in KeyOf(form) :
         /\ form' = [form EXCEPT !.key = k, !.waits = r, !.error = "none"]
         /\ request' = [request EXCEPT ![r] = [at |-> "lookup", key |-> k, data |-> form.data]]
  BY DEF Upload
<1>3. k \in Keys
  BY DEF KeyOf, FreshKeys, RequestInv, FormRow
<1>4. /\ form' \in FormRow /\ form'.key = k /\ form'.waits = r
      /\ form'.data = form.data /\ form'.document = NoKey
  BY <1>1, <1>2, <1>3 DEF RequestInv, FormRow
<1> DEFINE sent == [at |-> "lookup", key |-> k, data |-> form.data]
<1>5. sent \in RequestRow /\ sent.key = k /\ sent.data = form.data /\ sent.at = "lookup"
  BY <1>1, <1>3 DEF RequestRow, HandlerSteps
<1>6. request' = [request EXCEPT ![r] = sent]
  BY <1>2
<1> HIDE DEF sent
<1>7. /\ request' \in [Requests -> RequestRow] /\ request'[r] = sent
      /\ \A s \in Requests : s # r => request'[s] = request[s]
  BY <1>5, <1>6 DEF RequestInv
<1>8. RequestsHaveKeys' /\ MarksHeld'
  <2>1. RequestsHaveKeys'
    BY <1>1, <1>3, <1>5, <1>7 DEF RequestInv, RequestsHaveKeys
  <2> QED
    BY <1>1, <1>5, <1>7, <2>1 DEF RequestInv, MarksHeld, serverVars
<1>9. /\ intent[k].status # "none" => intent[k].data = form.data
      /\ \A s \in Requests : request[s].key = k => request[s].data = form.data
  <2>1. CASE form.key = NoKey
    BY <1>2, <2>1 DEF KeyOf, FreshKeys, NoIntent
  <2>2. CASE form.key # NoKey
    BY <1>2, <2>2 DEF KeyOf, RequestInv, FormKeyIdentifiesData
  <2> QED BY <2>1, <2>2
<1>10. KeyIdentifiesData' /\ FormKeyIdentifiesData'
  <2>1. \A s \in Requests : request'[s].key = k => request'[s].data = form.data
    BY <1>5, <1>7, <1>9
  <2>2. FormKeyIdentifiesData'
    BY <1>1, <1>4, <1>9, <2>1 DEF FormKeyIdentifiesData, serverVars
  <2>3. ASSUME NEW s \in Requests, request'[s].key # NoKey
        PROVE  LET c == request'[s].key IN
               /\ intent[c].status # "none" => intent[c].data = request'[s].data
               /\ \A q \in Requests : request'[q].key = c => request'[q].data = request'[s].data
    <3>1. CASE request'[s].key = k
      BY <1>9, <2>1, <3>1
    <3>2. CASE request'[s].key # k
      <4>1. s # r /\ request'[s] = request[s]
        BY <1>5, <1>7, <3>2
      <4>2. \A q \in Requests : request'[q].key = request[s].key => q # r /\ request'[q] = request[q]
        BY <1>5, <1>7, <3>2, <4>1
      <4> QED BY <2>3, <4>1, <4>2 DEF RequestInv, KeyIdentifiesData
    <3> QED BY <3>1, <3>2
  <2> QED
    BY <1>1, <2>2, <2>3 DEF KeyIdentifiesData, serverVars
<1>11. FormAwaits' /\ ReceivedIsAdopted'
  BY <1>3, <1>4, <1>5, <1>7, UploadAssumption DEF FormAwaits, ReceivedIsAdopted
<1> QED
  BY <1>1, <1>4, <1>7, <1>8, <1>10, <1>11, StoreInvUnchanged, StoreUnchanged, RecoveryKept
     DEF RequestInv, serverVars, recoveryVars

-----------------------------------------------------------------------------
(* The upload handler.                                                      *)

\* A step of the handler that changes nothing at the server.
LEMMA QuietHandler ==
    ASSUME Inv, NEW r \in Requests, request[r].at # "idle", UNCHANGED serverVars,
           \/ \E step \in HandlerSteps : Go(r, step) /\ (step = "mark" => request[r].key \in held)
           \/ \E answer \in Answers \ {"ok"} : Answer(r, answer)
           \/ Answer(r, Replay(r)) /\ ByUpload(request[r].key)
    PROVE  Inv'
<1> USE DEF Inv
<1>1. StoreStep /\ StoreInv' /\ RecoveryInv' /\ held' = held
  BY StoreInvUnchanged, StoreUnchanged, RecoveryKept DEF serverVars, recoveryVars
<1>2. CASE \E step \in HandlerSteps : Go(r, step) /\ (step = "mark" => request[r].key \in held)
  BY <1>1, <1>2, GoKept
<1>3. CASE \E answer \in Answers \ {"ok"} : Answer(r, answer)
  BY <1>1, <1>3, AnswerKept
<1>4. CASE Answer(r, Replay(r)) /\ ByUpload(request[r].key)
  <2>1. request[r].key \in Keys
    BY DEF RequestInv, RequestsHaveKeys, IdleRequest
  <2>2. Replay(r) \in Answers
    BY DEF Replay, Answers
  <2>3. Replay(r) = "ok" =>
          /\ document'[request[r].key].disposition = "teacher_access"
          /\ intent'[request[r].key].status = "committed"
          /\ intent'[request[r].key].data = request[r].data
    BY <1>4, <2>1 DEF Replay, ByUpload, StoreInv, UploadsGrant, AdoptedAsDisposed, serverVars
  <2> QED BY <1>1, <1>4, <2>2, <2>3, AnswerKept
<1> QED BY <1>2, <1>3, <1>4

LEMMA FindIntentStep ==
    ASSUME Inv, NEW r \in Requests, FindIntent(r)
    PROVE  Inv'
<1>1. request[r].at # "idle" /\ UNCHANGED serverVars
  BY DEF FindIntent
<1>2. CASE ByUpload(request[r].key)
  BY <1>1, <1>2, QuietHandler DEF FindIntent, HandlerSteps, Answers
<1>3. CASE ~ByUpload(request[r].key)
  <2>1. Replay(r) = "conflict"
    BY <1>3 DEF Replay
  <2> QED BY <1>1, <2>1, QuietHandler DEF FindIntent, HandlerSteps, Answers
<1> QED BY <1>2, <1>3

LEMMA QuietSteps ==
    ASSUME Inv, NEW r \in Requests,
           Discover(r) \/ PutAnswered(r) \/ Rediscover(r) \/ HandlerFails(r)
    PROVE  Inv'
BY QuietHandler DEF Discover, PutAnswered, Rediscover, HandlerFails, HandlerSteps, Answers

LEMMA HandlerHasKey ==
    ASSUME RequestInv, NEW r \in Requests, request[r].at # "idle"
    PROVE  request[r] \in RequestRow /\ request[r].key \in Keys /\ request[r].data \in Data
BY DEF RequestInv, RequestsHaveKeys, IdleRequest

LEMMA ReserveStep ==
    ASSUME Inv, NEW r \in Requests, Reserve(r)
    PROVE  Inv'
<1> USE DEF Inv
<1> DEFINE k == request[r].key
<1>1. request[r] \in RequestRow /\ k \in Keys /\ request[r].data \in Data /\ request[r].at # "idle"
  BY HandlerHasKey DEF Reserve
<1>2. UNCHANGED <<held, document, open, recoveryVars>>
  BY DEF Reserve
<1>3. CASE intent[k].status = "none"
  <2> DEFINE new == [status |-> "reserved", disposition |-> "none", data |-> request[r].data]
             next == [request[r] EXCEPT !.at = "putting"]
  <2>1. new \in IntentRow /\ new.status = "reserved" /\ new.disposition = "none"
        /\ new.data = request[r].data
    BY <1>1 DEF IntentRow
  <2>2. next \in RequestRow /\ next.key = k /\ next.data = request[r].data /\ next.at = "putting"
    BY <1>1 DEF RequestRow, HandlerSteps
  <2>3. /\ intent' = [intent EXCEPT ![k] = new] /\ flying' = flying \cup {k}
        /\ request' = [request EXCEPT ![r] = next] /\ form' = form
    BY <1>3 DEF Reserve, Go
  <2> HIDE DEF new, next, k
  <2>4. /\ intent' \in [Keys -> IntentRow] /\ intent'[k] = new
        /\ \A c \in Keys : c # k => intent'[c] = intent[c]
    BY <1>1, <2>1, <2>3 DEF StoreInv
  <2>5. /\ request' \in [Requests -> RequestRow] /\ request'[r].at = "putting"
        /\ \A s \in Requests : /\ request'[s].key = request[s].key
                               /\ request'[s].data = request[s].data
                               /\ s # r => request'[s] = request[s]
    BY <2>2, <2>3 DEF RequestInv, k
  <2>6. document[k].disposition = "none"
    BY <1>1, <1>3 DEF StoreInv, AdoptedAsDisposed
  <2>7. StoreInv'
    BY <1>1, <1>2, <1>3, <2>1, <2>3, <2>4, <2>6 DEF StoreInv, AdoptedAsDisposed, UploadsGrant
  <2>8. RecoveryInv'
    <3>1. \A o \in Operations : operation[o].status # "none" =>
             operation[o].key \in Keys /\ operation[o].key # k
      BY <1>3 DEF RecoveryInv, OperationsHaveUploads
    <3> QED
      BY <1>2, <2>4, <3>1 DEF RecoveryInv, OperationsHaveUploads, WorkersHaveOperations,
         ProvenanceLost, LostProvenanceWasAdopted, recoveryVars
  <2>9. RequestsHaveKeys' /\ MarksHeld' /\ FormAwaits'
    BY <1>1, <1>2, <2>3, <2>5 DEF RequestInv, RequestsHaveKeys, MarksHeld, FormAwaits, FormRow, k
  <2>10. \A s \in Requests : request[s].key = k => request[s].data = request[r].data
    BY <1>1, UploadAssumption DEF RequestInv, KeyIdentifiesData, k
  <2>11. KeyIdentifiesData'
    <3>1. ASSUME NEW s \in Requests, request[s].key # NoKey
          PROVE  intent'[request[s].key].status # "none" => intent'[request[s].key].data = request[s].data
      <4>1. CASE request[s].key = k
        BY <2>1, <2>4, <2>10, <4>1
      <4>2. CASE request[s].key # k
        <5>1. request[s].key \in Keys
          BY <3>1 DEF RequestInv, RequestRow
        <5> QED BY <2>4, <3>1, <4>2, <5>1 DEF RequestInv, KeyIdentifiesData
      <4> QED BY <4>1, <4>2
    <3> QED BY <2>5, <3>1 DEF RequestInv, KeyIdentifiesData
  <2>12. FormKeyIdentifiesData'
    <3>1. CASE form.key = k
      BY <1>1, <2>1, <2>3, <2>4, <2>5, <3>1, UploadAssumption
         DEF RequestInv, FormKeyIdentifiesData, k
    <3>2. CASE form.key # k
      BY <2>3, <2>4, <2>5, <3>2 DEF RequestInv, FormKeyIdentifiesData, FormRow
    <3> QED BY <3>1, <3>2
  <2>13. ReceivedIsAdopted'
    BY <1>2, <1>3, <2>3, <2>4 DEF RequestInv, ReceivedIsAdopted, FormRow
  <2> QED
    BY <2>3, <2>5, <2>7, <2>8, <2>9, <2>11, <2>12, <2>13 DEF RequestInv
<1>4. CASE intent[k].status # "none"
  <2>1. Answer(r, "unconfirmed") /\ UNCHANGED serverVars
    BY <1>2, <1>4 DEF Reserve, serverVars, recoveryVars
  <2> QED BY <1>1, <2>1, QuietHandler DEF Answers
<1> QED BY <1>3, <1>4

LEMMA StorageSteps ==
    ASSUME Inv, (\E k \in Keys : Lands(k)) \/ OpenOrClose
    PROVE  Inv'
<1>1. /\ StoreInv' /\ StoreStep
      /\ UNCHANGED <<form, request, recoveryVars>>
  BY DEF Lands, OpenOrClose, Inv, StoreInv, AdoptedAsDisposed, UploadsGrant, StoreStep
<1> QED BY <1>1, RequestsKept, RecoveryKept DEF Inv

LEMMA MarkStoredStep ==
    ASSUME Inv, NEW r \in Requests, MarkStored(r)
    PROVE  Inv'
<1> USE DEF Inv
<1> DEFINE k == request[r].key
<1>1. k \in Keys /\ request[r].at = "mark" /\ k \in held
  BY HandlerHasKey DEF MarkStored, RequestInv, MarksHeld
<1>2. UNCHANGED <<flying, held, document, open, recoveryVars>>
  BY DEF MarkStored
<1>3. CASE intent[k].status = "reserved"
  <2> DEFINE next == [intent[k] EXCEPT !.status = "stored"]
  <2>1. /\ next \in IntentRow /\ next.status = "stored"
        /\ next.data = intent[k].data /\ next.disposition = intent[k].disposition
    BY <1>1 DEF StoreInv, IntentRow
  <2>2. intent' = [intent EXCEPT ![k] = next] /\ Go(r, "persist")
    BY <1>3 DEF MarkStored
  <2> HIDE DEF next, k
  <2>3. /\ intent' \in [Keys -> IntentRow] /\ intent'[k] = next
        /\ \A c \in Keys : c # k => intent'[c] = intent[c]
    BY <1>1, <2>1, <2>2 DEF StoreInv
  <2>4. StoreStep
    BY <1>2, <1>3, <2>1, <2>3 DEF StoreStep
  <2>5. StoreInv'
    <3>1. document[k].disposition = "none"
      BY <1>1, <1>3 DEF StoreInv, AdoptedAsDisposed
    <3> QED
      BY <1>1, <1>2, <1>3, <2>1, <2>3, <3>1 DEF StoreInv, AdoptedAsDisposed, UploadsGrant
  <2> QED
    BY <1>1, <1>2, <2>2, <2>4, <2>5, GoKept, RecoveryKept DEF HandlerSteps
<1>4. CASE intent[k].status # "reserved"
  <2>1. Go(r, "persist") \/ Answer(r, "unconfirmed")
    BY <1>4 DEF MarkStored
  <2>2. UNCHANGED serverVars
    BY <1>2, <1>4 DEF MarkStored, serverVars, recoveryVars
  <2> QED BY <1>1, <2>1, <2>2, QuietHandler DEF HandlerSteps, Answers
<1> QED BY <1>3, <1>4

\* The transaction that adopts a version, for the upload or for a recovery.
LEMMA AdoptedStep ==
    ASSUME StoreInv, NEW k \in Keys, NEW d \in Dispositions, NEW by \in {k, NoKey},
           Adopted(k, d, by), by = k => d = "teacher_access",
           UNCHANGED <<flying, held, open>>
    PROVE  /\ StoreInv' /\ StoreStep
           /\ document' = [document EXCEPT ![k] = [disposition |-> d, key |-> by]]
           /\ document[k] = NoDocument /\ document'[k].disposition = d
           /\ intent'[k].status = "committed" /\ intent'[k].data = intent[k].data
<1> DEFINE next == [intent[k] EXCEPT !.status = "committed", !.disposition = d]
           new  == [disposition |-> d, key |-> by]
<1>1. /\ next \in IntentRow /\ next.status = "committed" /\ next.disposition = d
      /\ next.data = intent[k].data
  BY DEF StoreInv, IntentRow
<1>2. new \in DocumentRow /\ new.disposition = d /\ new.key = by
  BY DEF DocumentRow
<1>3. intent' = [intent EXCEPT ![k] = next] /\ document' = [document EXCEPT ![k] = new]
  BY DEF Adopted, StoreInv
<1>4. intent[k].status = "stored" /\ document[k] = NoDocument /\ document[k].disposition = "none"
  BY DEF Adopted, NoDocument
<1>5. d # "none"
  BY DEF Dispositions
<1> HIDE DEF next, new
<1>6. /\ intent' \in [Keys -> IntentRow] /\ intent'[k] = next
      /\ document' \in [Keys -> DocumentRow] /\ document'[k] = new
      /\ \A c \in Keys : c # k => intent'[c] = intent[c] /\ document'[c] = document[c]
  BY <1>1, <1>2, <1>3 DEF StoreInv
<1>7. StoreStep
  BY <1>1, <1>4, <1>6 DEF StoreStep
<1>8. AdoptedAsDisposed'
  BY <1>1, <1>2, <1>4, <1>5, <1>6 DEF StoreInv, AdoptedAsDisposed
<1>9. UploadsGrant'
  BY <1>2, <1>5, <1>6, UploadAssumption DEF StoreInv, UploadsGrant
<1> QED
  BY <1>1, <1>2, <1>3, <1>4, <1>6, <1>7, <1>8, <1>9 DEF StoreInv, new

LEMMA PersistStep ==
    ASSUME Inv, NEW r \in Requests, Persist(r)
    PROVE  Inv'
<1> USE DEF Inv
<1> DEFINE k == request[r].key
<1>1. k \in Keys /\ request[r].at # "idle"
  BY HandlerHasKey DEF Persist
<1>2. UNCHANGED <<flying, held, open, recoveryVars>>
  BY DEF Persist
<1>3. CASE Adopted(k, "teacher_access", k) /\ (Answer(r, "ok") \/ Answer(r, "unconfirmed"))
  <2>1. /\ StoreInv' /\ StoreStep /\ document'[k].disposition = "teacher_access"
        /\ intent'[k].status = "committed" /\ intent'[k].data = intent[k].data
    BY <1>1, <1>2, <1>3, AdoptedStep DEF Dispositions
  <2>2. intent[k].data = request[r].data
    BY <1>1, <1>3, UploadAssumption DEF RequestInv, KeyIdentifiesData, Adopted
  <2>3. RequestInv'
    BY <1>1, <1>3, <2>1, <2>2, AnswerKept DEF Answers
  <2> QED BY <1>2, <2>1, <2>3, RecoveryKept
<1>4. CASE /\ UNCHANGED <<intent, document>>
           /\ \/ \E answer \in Answers \ {"ok"} : Answer(r, answer)
              \/ Answer(r, Replay(r)) /\ ByUpload(k)
  <2>1. UNCHANGED serverVars
    BY <1>2, <1>4 DEF serverVars, recoveryVars
  <2> QED BY <1>1, <1>4, <2>1, QuietHandler
<1> QED BY <1>3, <1>4 DEF Persist, Answers

-----------------------------------------------------------------------------
(* Recovery.                                                                *)

\* Steps of the recovery that leave uploads alone.
LEMMA UploadsKept ==
    ASSUME Inv, UNCHANGED <<form, request, intent, flying, held, document, open>>
    PROVE  RequestInv' /\ StoreInv' /\ StoreStep
BY StoreInvUnchanged, StoreUnchanged, RequestsKept DEF Inv

LEMMA RequestRecoveryStep ==
    ASSUME Inv, NEW o \in Operations, NEW k \in Keys, NEW d \in Dispositions,
           RequestRecovery(o, k, d)
    PROVE  Inv'
<1> DEFINE next == [operation[o] EXCEPT !.key = k, !.disposition = d, !.status = "queued"]
<1>1. next \in OperationRow /\ next.key = k /\ next.disposition = d /\ next.status = "queued"
  BY DEF Inv, RecoveryInv, OperationRow, Statuses
<1>2. operation' = [operation EXCEPT ![o] = next]
  BY DEF RequestRecovery
<1> HIDE DEF next
<1>3. /\ operation' \in [Operations -> OperationRow] /\ operation'[o] = next
      /\ \A p \in Operations : p # o => operation'[p] = operation[p]
  BY <1>1, <1>2 DEF Inv, RecoveryInv
<1>4. /\ UNCHANGED <<form, request, intent, flying, held, document, open, worker>>
      /\ intent[k].status = "stored"
  BY DEF RequestRecovery
<1>5. ProvenanceLost'
  BY <1>1, <1>3, <1>4 DEF Inv, RecoveryInv, ProvenanceLost, WorkersHaveOperations
<1>6. OperationsHaveUploads' /\ WorkersHaveOperations' /\ LostProvenanceWasAdopted'
  BY <1>1, <1>3, <1>4 DEF Inv, RecoveryInv, OperationsHaveUploads, WorkersHaveOperations, LostProvenanceWasAdopted
<1> QED
  BY <1>3, <1>4, <1>5, <1>6, UploadsKept DEF Inv, RecoveryInv

LEMMA LeaseExpiresStep ==
    ASSUME Inv, NEW o \in Operations, LeaseExpires(o)
    PROVE  Inv'
<1> DEFINE next == [operation[o] EXCEPT !.expired = TRUE]
<1>1. /\ next \in OperationRow /\ next.key = operation[o].key
      /\ next.disposition = operation[o].disposition /\ next.status = operation[o].status
      /\ next.owner = operation[o].owner /\ next.error = operation[o].error
  BY DEF Inv, RecoveryInv, OperationRow
<1>2. operation' = [operation EXCEPT ![o] = next]
  BY DEF LeaseExpires
<1> HIDE DEF next
<1>3. /\ operation' \in [Operations -> OperationRow]
      /\ \A p \in Operations : /\ operation'[p].key = operation[p].key
                               /\ operation'[p].disposition = operation[p].disposition
                               /\ operation'[p].status = operation[p].status
                               /\ operation'[p].owner = operation[p].owner
                               /\ operation'[p].error = operation[p].error
  BY <1>1, <1>2 DEF Inv, RecoveryInv
<1>4. UNCHANGED <<form, request, intent, flying, held, document, open, worker>>
  BY DEF LeaseExpires
<1>5. ProvenanceLost'
  BY <1>3, <1>4 DEF Inv, RecoveryInv, ProvenanceLost, WorkersHaveOperations
<1>6. OperationsHaveUploads' /\ WorkersHaveOperations' /\ LostProvenanceWasAdopted'
  BY <1>3, <1>4 DEF Inv, RecoveryInv, OperationsHaveUploads, WorkersHaveOperations, LostProvenanceWasAdopted
<1> QED
  BY <1>3, <1>4, <1>5, <1>6, UploadsKept DEF Inv, RecoveryInv

\* The sweep only takes expired leases back.
LEMMA ReclaimedRows ==
    ASSUME operation \in [Operations -> OperationRow]
    PROVE  /\ Reclaimed \in [Operations -> OperationRow]
           /\ \A o \in Operations :
                /\ Reclaimed[o].key = operation[o].key
                /\ Reclaimed[o].disposition = operation[o].disposition
                /\ Reclaimed[o].error = operation[o].error
                /\ \/ Reclaimed[o] = operation[o]
                   \/ operation[o].status = "leased" /\ Reclaimed[o].status = "queued"
<1> SUFFICES ASSUME NEW o \in Operations
             PROVE  LET row == Reclaimed[o] IN
                    /\ row \in OperationRow /\ row.key = operation[o].key
                    /\ row.disposition = operation[o].disposition /\ row.error = operation[o].error
                    /\ \/ row = operation[o]
                       \/ operation[o].status = "leased" /\ row.status = "queued"
  BY DEF Reclaimed
<1>1. /\ Requeued(operation[o]) \in OperationRow
      /\ Requeued(operation[o]).key = operation[o].key
      /\ Requeued(operation[o]).disposition = operation[o].disposition
      /\ Requeued(operation[o]).error = operation[o].error
      /\ Requeued(operation[o]).status = "queued"
  BY DEF Requeued, OperationRow, Statuses
<1> QED BY <1>1 DEF Reclaimed

\* What a claim leaves of the operations.
LEMMA ClaimRows ==
    ASSUME RecoveryInv, NEW w \in Workers, Claim(w)
    PROVE  \E o \in Operations :
              /\ Reclaimed[o].status = "queued"
              /\ worker' = [worker EXCEPT ![w] = [at |-> "verify", op |-> o, cause |-> "none"]]
              /\ operation' \in [Operations -> OperationRow]
              /\ operation'[o].status = "leased" /\ operation'[o].owner = w
              /\ \A p \in Operations : /\ operation'[p].key = operation[p].key
                                       /\ operation'[p].disposition = operation[p].disposition
                                       /\ operation'[p].error = operation[p].error
                                       /\ p # o => operation'[p] = Reclaimed[p]
<1>1. PICK o \in Operations :
         /\ Reclaimed[o].status = "queued"
         /\ operation' = [Reclaimed EXCEPT ![o].status = "leased", ![o].owner = w,
                                           ![o].attempts = Attempt(@)]
         /\ worker' = [worker EXCEPT ![w] = [at |-> "verify", op |-> o, cause |-> "none"]]
  BY DEF Claim
<1> DEFINE next == [Reclaimed[o] EXCEPT !.status = "leased", !.owner = w, !.attempts = Attempt(@)]
<1>2. Reclaimed \in [Operations -> OperationRow]
  BY ReclaimedRows DEF RecoveryInv
<1>3. Attempt(Reclaimed[o].attempts) \in 0 .. MaxAttempts
  BY <1>2, UploadAssumption DEF Attempt, OperationRow
<1>4. /\ next \in OperationRow /\ next.status = "leased" /\ next.owner = w
      /\ next.key = Reclaimed[o].key /\ next.disposition = Reclaimed[o].disposition
      /\ next.error = Reclaimed[o].error
  BY <1>2, <1>3 DEF OperationRow, Statuses
<1>5. operation' = [Reclaimed EXCEPT ![o] = next]
  BY <1>1, <1>2
<1> HIDE DEF next
<1>6. /\ operation' \in [Operations -> OperationRow] /\ operation'[o] = next
      /\ \A p \in Operations : p # o => operation'[p] = Reclaimed[p]
  BY <1>2, <1>4, <1>5
<1>7. \A p \in Operations : /\ Reclaimed[p].key = operation[p].key
                            /\ Reclaimed[p].disposition = operation[p].disposition
                            /\ Reclaimed[p].error = operation[p].error
  BY ReclaimedRows DEF RecoveryInv
<1>8. \A p \in Operations : /\ operation'[p].key = operation[p].key
                            /\ operation'[p].disposition = operation[p].disposition
                            /\ operation'[p].error = operation[p].error
  BY <1>4, <1>6, <1>7
<1>9. operation'[o].status = "leased" /\ operation'[o].owner = w
  BY <1>4, <1>6
<1> WITNESS o \in Operations
<1> QED BY <1>1, <1>6, <1>8, <1>9

LEMMA ClaimStep ==
    ASSUME Inv, NEW w \in Workers, Claim(w)
    PROVE  Inv'
<1> USE DEF Inv
<1>1. PICK o \in Operations :
         /\ Reclaimed[o].status = "queued"
         /\ worker' = [worker EXCEPT ![w] = [at |-> "verify", op |-> o, cause |-> "none"]]
         /\ operation' \in [Operations -> OperationRow]
         /\ operation'[o].status = "leased" /\ operation'[o].owner = w
         /\ \A p \in Operations : /\ operation'[p].key = operation[p].key
                                  /\ operation'[p].disposition = operation[p].disposition
                                  /\ operation'[p].error = operation[p].error
                                  /\ p # o => operation'[p] = Reclaimed[p]
  BY ClaimRows
<1>2. UNCHANGED <<form, request, intent, flying, held, document, open>>
  BY DEF Claim, WorkerUnchanged
<1> DEFINE mine == [at |-> "verify", op |-> o, cause |-> "none"]
<1>3. mine \in WorkerRow /\ mine.at = "verify" /\ mine.op = o
  BY DEF WorkerRow, Causes
<1> HIDE DEF mine
<1>4. /\ worker' \in [Workers -> WorkerRow] /\ worker'[w] = mine
      /\ \A x \in Workers : x # w => worker'[x] = worker[x]
  BY <1>1, <1>3 DEF RecoveryInv, mine
<1>5. \A p \in Operations :
         \/ operation[p].status \in {"leased", "queued"}
         \/ operation'[p] = operation[p]
  <2>1. \A p \in Operations : \/ Reclaimed[p] = operation[p]
                              \/ operation[p].status = "leased" /\ Reclaimed[p].status = "queued"
    BY ReclaimedRows DEF RecoveryInv
  <2> QED BY <1>1, <2>1
<1>6. OperationsHaveUploads' /\ WorkersHaveOperations'
  BY <1>1, <1>2, <1>3, <1>4, <1>5 DEF RecoveryInv, OperationsHaveUploads, WorkersHaveOperations
<1>7. LostProvenanceWasAdopted'
  <2>1. \A p \in Operations : operation'[p].status = "blocked" => operation'[p] = operation[p]
    <3>1. \A p \in Operations : \/ Reclaimed[p] = operation[p]
                                \/ operation[p].status = "leased" /\ Reclaimed[p].status = "queued"
      BY ReclaimedRows DEF RecoveryInv
    <3> QED BY <1>1, <3>1
  <2> QED BY <1>2, <2>1 DEF RecoveryInv, LostProvenanceWasAdopted
<1>8. ProvenanceLost'
  <2>1. ASSUME NEW x \in Workers, worker'[x].at = "failing", worker'[x].cause = "provenance",
               operation'[worker'[x].op].status = "leased", operation'[worker'[x].op].owner = x
        PROVE  intent'[operation'[worker'[x].op].key].status = "committed"
    <3>1. x # w /\ worker'[x] = worker[x] /\ worker[x].op \in Operations
      BY <1>3, <1>4, <2>1 DEF RecoveryInv, WorkersHaveOperations
    <3>2. worker[x].op # o
      BY <1>1, <2>1, <3>1
    <3>3. operation'[worker[x].op] = operation[worker[x].op]
      <4>1. \/ Reclaimed[worker[x].op] = operation[worker[x].op]
            \/ Reclaimed[worker[x].op].status = "queued"
        BY <3>1, ReclaimedRows DEF RecoveryInv
      <4> QED BY <1>1, <2>1, <3>1, <3>2, <4>1
    <3> QED BY <1>2, <2>1, <3>1, <3>3 DEF RecoveryInv, ProvenanceLost
  <2> QED BY <2>1 DEF ProvenanceLost
<1> QED
  BY <1>1, <1>2, <1>4, <1>6, <1>7, <1>8, UploadsKept DEF RecoveryInv


\* A worker moves on, and may end an attempt.
LEMMA WorkerMoves ==
    ASSUME RecoveryInv, StoreStep, NEW w \in Workers, NEW row \in WorkerRow,
           worker' = [worker EXCEPT ![w] = row],
           row.at # "idle" => row.op \in Operations,
           operation' \in [Operations -> OperationRow],
           \A o \in Operations :
              /\ operation'[o].key = operation[o].key
              /\ operation'[o].disposition = operation[o].disposition
              /\ \/ operation'[o] = operation[o]
                 \/ /\ operation[o].status # "none" /\ operation'[o].status # "leased"
                    /\ operation'[o].status = "blocked" /\ operation'[o].error = "provenance"
                         => intent'[operation[o].key].status = "committed",
           /\ row.at = "failing" /\ row.cause = "provenance"
           /\ operation'[row.op].status = "leased" /\ operation'[row.op].owner = w
           => intent'[operation'[row.op].key].status = "committed"
    PROVE  RecoveryInv'
<1>1. /\ worker' \in [Workers -> WorkerRow] /\ worker'[w] = row
      /\ \A x \in Workers : x # w => worker'[x] = worker[x]
  BY DEF RecoveryInv
<1>2. WorkersHaveOperations'
  BY <1>1 DEF RecoveryInv, WorkersHaveOperations
<1>3. \A o \in Operations : operation[o].status # "none" =>
        /\ operation[o].key \in Keys /\ operation[o].disposition \in Dispositions
        /\ intent'[operation[o].key].status \in {"stored", "committed"}
        /\ intent[operation[o].key].status = "committed" => intent'[operation[o].key].status = "committed"
  BY DEF RecoveryInv, OperationsHaveUploads, StoreStep
<1>4. OperationsHaveUploads'
  BY <1>3 DEF OperationsHaveUploads
<1>5. LostProvenanceWasAdopted'
  BY <1>3 DEF RecoveryInv, LostProvenanceWasAdopted
<1>6. ProvenanceLost'
  <2>1. ASSUME NEW x \in Workers, worker'[x].at = "failing", worker'[x].cause = "provenance",
               operation'[worker'[x].op].status = "leased", operation'[worker'[x].op].owner = x
        PROVE  intent'[operation'[worker'[x].op].key].status = "committed"
    <3>1. CASE x = w
      BY <1>1, <2>1, <3>1
    <3>2. CASE x # w
      <4>1. worker'[x] = worker[x] /\ worker[x].op \in Operations
        BY <1>1, <2>1, <3>2 DEF RecoveryInv, WorkersHaveOperations
      <4>2. operation'[worker[x].op] = operation[worker[x].op]
        BY <2>1, <4>1
      <4>3. intent[operation[worker[x].op].key].status = "committed"
        BY <2>1, <4>1, <4>2 DEF RecoveryInv, ProvenanceLost
      <4> QED BY <1>3, <2>1, <4>1, <4>2, <4>3
    <3> QED BY <3>1, <3>2
  <2> QED BY <2>1 DEF ProvenanceLost
<1> QED BY <1>1, <1>2, <1>4, <1>5, <1>6 DEF RecoveryInv

\* A worker that fails the query while its lease lasts comes after an adoption.
LEMMA NotHeldIsAdopted ==
    ASSUME Inv, NEW w \in Workers, worker[w].at # "idle", ~Holds(w),
           operation[worker[w].op].status = "leased", operation[worker[w].op].owner = w
    PROVE  intent[operation[worker[w].op].key].status = "committed"
<1>1. worker[w].op \in Operations
  BY DEF Inv, RecoveryInv, WorkersHaveOperations
<1>2. intent[operation[worker[w].op].key].status \in {"stored", "committed"}
      /\ operation[worker[w].op].key \in Keys
  BY <1>1 DEF Inv, RecoveryInv, OperationsHaveUploads
<1> QED BY <1>2 DEF Holds, Inv, StoreInv, AdoptedAsDisposed

\* A worker moves, and the operations stay as they are.
LEMMA QuietWorker ==
    ASSUME Inv, NEW w \in Workers, worker[w].at # "idle", UNCHANGED <<operation, intent, document>>,
           WorkerUnchanged,
           \/ Proceeds(w, "adopt") \/ GoesIdle(w)
           \/ Refuses(w, "transient") \/ Refuses(w, "authority") \/ Refuses(w, "verification")
           \/ ~Holds(w) /\ Refuses(w, "provenance")
    PROVE  Inv'
<1>1. UNCHANGED <<form, request, intent, flying, held, document, open>>
  BY DEF WorkerUnchanged
<1>2. RequestInv' /\ StoreInv' /\ StoreStep /\ RecoveryInv
  BY <1>1, UploadsKept DEF Inv
<1>3. worker[w] \in WorkerRow /\ worker[w].op \in Operations
  BY <1>2 DEF RecoveryInv, WorkersHaveOperations
<1>4. ASSUME NEW row \in WorkerRow, worker' = [worker EXCEPT ![w] = row],
             row.at # "idle" => row.op = worker[w].op,
             row.at = "failing" /\ row.cause = "provenance" => ~Holds(w)
      PROVE  Inv'
  <2>1. /\ row.at = "failing" /\ row.cause = "provenance"
        /\ operation[row.op].status = "leased" /\ operation[row.op].owner = w
        => intent[operation[row.op].key].status = "committed"
    <3> SUFFICES ASSUME row.at = "failing", row.cause = "provenance",
                        operation[row.op].status = "leased", operation[row.op].owner = w
                 PROVE  intent[operation[row.op].key].status = "committed"
      OBVIOUS
    <3>1. ~Holds(w) /\ row.op = worker[w].op
      BY <1>4
    <3> QED BY <3>1, NotHeldIsAdopted
  <2>2. operation' = operation /\ intent' = intent
    OBVIOUS
  <2>3. operation' \in [Operations -> OperationRow]
    BY <1>2, <2>2 DEF RecoveryInv
  <2>4. RecoveryInv'
    <3>1. row.at # "idle" => row.op \in Operations
      BY <1>3, <1>4
    <3>2. \A o \in Operations : /\ operation'[o].key = operation[o].key
                               /\ operation'[o].disposition = operation[o].disposition
                               /\ operation'[o] = operation[o]
      BY <2>2
    <3>3. /\ row.at = "failing" /\ row.cause = "provenance"
          /\ operation'[row.op].status = "leased" /\ operation'[row.op].owner = w
          => intent'[operation'[row.op].key].status = "committed"
      BY <2>1, <2>2
    <3> QED BY <1>2, <1>4, <2>3, <3>1, <3>2, <3>3, WorkerMoves
  <2> QED BY <1>2, <2>4 DEF Inv
<1>5. CASE GoesIdle(w)
  <2>1. IdleWorker \in WorkerRow /\ IdleWorker.at = "idle" /\ IdleWorker.cause = "none"
    BY DEF IdleWorker, WorkerRow, Causes
  <2> QED BY <1>4, <1>5, <2>1 DEF GoesIdle
<1>6. CASE Proceeds(w, "adopt")
  <2> DEFINE row == [worker[w] EXCEPT !.at = "adopt"]
  <2>1. row \in WorkerRow /\ row.op = worker[w].op /\ row.at = "adopt"
    BY <1>3 DEF WorkerRow
  <2>2. worker' = [worker EXCEPT ![w] = row]
    BY <1>6 DEF Proceeds
  <2> QED BY <1>4, <1>6, <2>1, <2>2
<1>7. ASSUME NEW cause \in Causes \ {"none"}, Refuses(w, cause),
             cause = "provenance" => ~Holds(w)
      PROVE  Inv'
  <2> DEFINE row == [worker[w] EXCEPT !.at = "failing", !.cause = cause]
  <2>1. row \in WorkerRow /\ row.op = worker[w].op /\ row.cause = cause
    BY <1>3 DEF WorkerRow
  <2>2. worker' = [worker EXCEPT ![w] = row]
    BY <1>7 DEF Refuses
  <2> QED BY <1>4, <1>7, <2>1, <2>2
<1> QED BY <1>5, <1>6, <1>7 DEF Causes


LEMMA VerifyStep ==
    ASSUME Inv, NEW w \in Workers, Verify(w) \/ Stumbles(w) \/ Crash(w)
    PROVE  Inv'
<1>1. worker[w].at # "idle" \/ (Crash(w) /\ worker[w].at = "idle")
  BY DEF Verify, Stumbles
<1>2. CASE worker[w].at # "idle"
  BY <1>2, QuietWorker DEF Verify, Stumbles, Crash
<1>3. CASE Crash(w) /\ worker[w].at = "idle"
  <2>1. IdleWorker \in WorkerRow /\ IdleWorker.at = "idle"
    BY DEF IdleWorker, WorkerRow, Causes
  <2>2. /\ RequestInv' /\ StoreInv' /\ StoreStep /\ RecoveryInv
        /\ operation' = operation /\ intent' = intent
        /\ worker' = [worker EXCEPT ![w] = IdleWorker]
    BY <1>3, UploadsKept DEF Crash, WorkerUnchanged, GoesIdle, Inv
  <2>3. /\ operation' \in [Operations -> OperationRow]
        /\ \A o \in Operations : /\ operation'[o].key = operation[o].key
                                 /\ operation'[o].disposition = operation[o].disposition
                                 /\ operation'[o] = operation[o]
    BY <2>2 DEF RecoveryInv
  <2>4. RecoveryInv'
    BY <2>1, <2>2, <2>3, WorkerMoves
  <2> QED BY <2>2, <2>4 DEF Inv
<1> QED BY <1>1, <1>2, <1>3

\* What the end of an attempt makes of its operation.
LEMMA EndingRows ==
    ASSUME RecoveryInv, NEW id \in Operations, operation[id].status = "leased",
           NEW cause \in Causes
    PROVE  LET next == [Requeued(operation[id]) EXCEPT !.status = Ending(operation[id], cause),
                                                       !.error = cause]
           IN  /\ next \in OperationRow /\ next.key = operation[id].key
               /\ next.disposition = operation[id].disposition
               /\ next.status \in {"queued", "blocked", "deadletter"}
               /\ next.error = cause
<1>1. Ending(operation[id], cause) \in {"queued", "blocked", "deadletter"}
  BY DEF Ending
<1>2. operation[id] \in OperationRow
  BY DEF RecoveryInv
<1> DEFINE o == Requeued(operation[id])
<1>3. o \in OperationRow /\ o.key = operation[id].key /\ o.disposition = operation[id].disposition
  BY <1>2 DEF Requeued, OperationRow, Statuses
<1> HIDE DEF o
<1>4. [o EXCEPT !.status = Ending(operation[id], cause), !.error = cause] \in OperationRow
  BY <1>1, <1>3 DEF OperationRow, Statuses
<1> QED
  BY <1>1, <1>3, <1>4 DEF o, OperationRow

LEMMA FailStep ==
    ASSUME Inv, NEW w \in Workers, Fail(w)
    PROVE  Inv'
<1> DEFINE id == worker[w].op
           o  == operation[id]
           cause == worker[w].cause
<1>1. worker[w].at = "failing" /\ id \in Operations /\ worker[w] \in WorkerRow
  BY DEF Fail, Inv, RecoveryInv, WorkersHaveOperations
<1>2. UNCHANGED <<form, request, intent, flying, held, document, open>> /\ GoesIdle(w)
  BY DEF Fail, WorkerUnchanged
<1>3. RequestInv' /\ StoreInv' /\ StoreStep /\ RecoveryInv
  BY <1>2, UploadsKept DEF Inv
<1>4. IdleWorker \in WorkerRow /\ IdleWorker.at = "idle"
  BY DEF IdleWorker, WorkerRow, Causes
<1>5. worker' = [worker EXCEPT ![w] = IdleWorker]
  BY <1>2 DEF GoesIdle
<1>6. CASE o.status = "leased" /\ o.owner = w
  <2> DEFINE next == [Requeued(o) EXCEPT !.status = Ending(o, cause), !.error = cause]
  <2>1. cause \in Causes
    BY <1>1, <1>6 DEF WorkerRow
  <2>2. /\ next \in OperationRow /\ next.key = o.key /\ next.disposition = o.disposition
        /\ next.status \in {"queued", "blocked", "deadletter"} /\ next.error = cause
    BY <1>1, <1>3, <1>6, <2>1, EndingRows
  <2>3. operation' = [operation EXCEPT ![id] = next]
    BY <1>6 DEF Fail
  <2> HIDE DEF next
  <2>4. /\ operation' \in [Operations -> OperationRow] /\ operation'[id] = next
        /\ \A p \in Operations : p # id => operation'[p] = operation[p]
    BY <1>1, <1>3, <2>2, <2>3 DEF RecoveryInv
  <2>5. cause = "provenance" => intent'[o.key].status = "committed"
    BY <1>1, <1>2, <1>3, <1>6 DEF RecoveryInv, ProvenanceLost
  <2>6. \A p \in Operations :
          /\ operation'[p].key = operation[p].key
          /\ operation'[p].disposition = operation[p].disposition
          /\ \/ operation'[p] = operation[p]
             \/ /\ operation[p].status # "none" /\ operation'[p].status # "leased"
                /\ operation'[p].status = "blocked" /\ operation'[p].error = "provenance"
                     => intent'[operation[p].key].status = "committed"
    BY <1>6, <2>2, <2>4, <2>5
  <2>7. RecoveryInv'
    BY <1>3, <1>4, <1>5, <2>4, <2>6, WorkerMoves
  <2> QED BY <1>3, <2>7 DEF Inv
<1>7. CASE ~(o.status = "leased" /\ o.owner = w)
  <2>1. UNCHANGED <<operation, intent, document>> /\ WorkerUnchanged
    BY <1>2, <1>7 DEF Fail, WorkerUnchanged
  <2> HIDE DEF o
  <2> QED BY <1>1, <1>2, <2>1, QuietWorker
<1> QED BY <1>6, <1>7

LEMMA AdoptStep ==
    ASSUME Inv, NEW w \in Workers, Adopt(w)
    PROVE  Inv'
<1> DEFINE id == worker[w].op
           o  == operation[id]
<1>1. worker[w].at = "adopt" /\ id \in Operations /\ worker[w] \in WorkerRow
  BY DEF Adopt, Inv, RecoveryInv, WorkersHaveOperations
<1>2. CASE /\ UNCHANGED <<operation, intent, document>>
           /\ Refuses(w, "authority") \/ (~Holds(w) /\ Refuses(w, "provenance"))
  BY <1>1, <1>2, QuietWorker DEF Adopt
<1>3. CASE /\ Holds(w) /\ Adopted(o.key, o.disposition, NoKey)
           /\ operation' = [operation EXCEPT ![id].status = "committed", ![id].owner = NoWorker,
                              ![id].expired = FALSE, ![id].error = "none"]
           /\ GoesIdle(w) \/ Refuses(w, "transient")
  <2> DEFINE next == [o EXCEPT !.status = "committed", !.owner = NoWorker,
                               !.expired = FALSE, !.error = "none"]
  <2>1. o.key \in Keys /\ o.disposition \in Dispositions /\ o.status = "leased"
    BY <1>1, <1>3 DEF Inv, RecoveryInv, OperationsHaveUploads, Holds
  <2>2. UNCHANGED <<form, request, flying, held, open>>
    BY DEF Adopt, WorkerUnchanged
  <2>3. StoreInv' /\ StoreStep
    BY <1>3, <2>1, <2>2, UploadAssumption, AdoptedStep DEF Inv
  <2>4. RequestInv'
    BY <2>2, <2>3, RequestsKept DEF Inv
  <2>5. /\ next \in OperationRow /\ next.key = o.key /\ next.disposition = o.disposition
        /\ next.status = "committed"
    <3> HIDE DEF id
    <3> QED BY <1>1, UploadAssumption DEF Inv, RecoveryInv, OperationRow, Statuses, Causes
  <2>6. operation' = [operation EXCEPT ![id] = next]
    BY <1>3
  <2> HIDE DEF next
  <2>7. /\ operation' \in [Operations -> OperationRow] /\ operation'[id] = next
        /\ \A p \in Operations : p # id => operation'[p] = operation[p]
    BY <1>1, <2>5, <2>6 DEF Inv, RecoveryInv
  <2>8. \A p \in Operations :
          /\ operation'[p].key = operation[p].key
          /\ operation'[p].disposition = operation[p].disposition
          /\ \/ operation'[p] = operation[p]
             \/ /\ operation[p].status # "none" /\ operation'[p].status # "leased"
                /\ operation'[p].status = "blocked" /\ operation'[p].error = "provenance"
                     => intent'[operation[p].key].status = "committed"
    BY <2>1, <2>5, <2>7
  <2> DEFINE row == [worker[w] EXCEPT !.at = "failing", !.cause = "transient"]
  <2>9. /\ IdleWorker \in WorkerRow /\ IdleWorker.at = "idle"
        /\ row \in WorkerRow /\ row.op = id /\ row.cause = "transient"
    BY <1>1 DEF IdleWorker, WorkerRow, Causes
  <2>10. PICK moved \in {IdleWorker, row} : worker' = [worker EXCEPT ![w] = moved]
    BY <1>3 DEF GoesIdle, Refuses
  <2> HIDE DEF row
  <2>11. /\ moved \in WorkerRow /\ (moved.at # "idle" => moved.op \in Operations)
         /\ moved.at = "idle" \/ moved.cause = "transient"
    BY <1>1, <2>9, <2>10
  <2>12. RecoveryInv'
    BY <2>3, <2>7, <2>8, <2>10, <2>11, WorkerMoves DEF Inv
  <2> QED BY <2>3, <2>4, <2>12 DEF Inv
<1> QED BY <1>2, <1>3 DEF Adopt

-----------------------------------------------------------------------------
(* The invariant of the specification.                                      *)

LEMMA InvNext == Inv /\ [Next]_vars => Inv'
<1> SUFFICES ASSUME Inv, [Next]_vars PROVE Inv'
  OBVIOUS
<1>1. CASE UNCHANGED vars
  BY <1>1, UploadsKept, RecoveryKept DEF vars, recoveryVars, Inv
<1>2. CASE \E r \in Requests : Upload(r) \/ Handler(r) \/ HandlerFails(r)
  BY <1>2, UploadStep, FindIntentStep, QuietSteps, ReserveStep, MarkStoredStep, PersistStep DEF Handler
<1>3. CASE \E w \in Workers : Recovers(w) \/ Stumbles(w) \/ Crash(w)
  BY <1>3, ClaimStep, VerifyStep, AdoptStep, FailStep DEF Recovers
<1> QED
  BY <1>1, <1>2, <1>3, FormSteps, StorageSteps, LeaseExpiresStep, RequestRecoveryStep DEF Next

THEOREM UploadInvariant == Spec => []Inv
<1>1. Init => Inv
  BY InitInv
<1>2. Inv /\ [Next]_vars => Inv'
  BY InvNext
<1> QED BY <1>1, <1>2, PTL DEF Spec


\* The types of the form, the handlers, the tables and the workers.
THEOREM UploadTypes == Spec => []UploadTypeOK
<1>1. Inv => UploadTypeOK
  BY TypeRows DEF Inv, RequestInv, StoreInv, RecoveryInv
<1> QED BY <1>1, UploadInvariant, PTL

\* Requests and intents that share an idempotency key share the data the
\* form drew it for: no retry adopts another upload's file.
THEOREM KeysIdentifyData == Spec => []KeyIdentifiesData
<1>1. Inv => KeyIdentifiesData
  BY DEF Inv, RequestInv
<1> QED BY <1>1, UploadInvariant, PTL

\* What the teacher is told was received is adopted, with her data.
THEOREM ReceivedUploadsAreAdopted == Spec => []ReceivedIsAdopted
<1>1. Inv => ReceivedIsAdopted
  BY DEF Inv, RequestInv
<1> QED BY <1>1, UploadInvariant, PTL

\* Documents, dispositions and held objects agree, however uploads, their
\* retries and recovery workers interleave.
THEOREM AdoptionsAgree == Spec => []AdoptedAsDisposed
<1>1. Inv => AdoptedAsDisposed
  BY DEF Inv, StoreInv
<1> QED BY <1>1, UploadInvariant, PTL

\* An operation blocked for a lost lease or intent came after an adoption, also
\* when reads of the object break off, authority queries fail, and leases are lost.
THEOREM LostProvenanceIsAdoption == Spec => []LostProvenanceWasAdopted
<1>1. Inv => LostProvenanceWasAdopted
  BY DEF Inv, RecoveryInv
<1> QED BY <1>1, UploadInvariant, PTL

-----------------------------------------------------------------------------
(* What a conflict tells the teacher.                                       *)

\* A document that was inserted is never changed.
LEMMA DocumentsStay ==
    ASSUME Inv, [Next]_vars, NEW k \in Keys, document[k].disposition # "none"
    PROVE  document'[k] = document[k]
<1>1. document \in [Keys -> DocumentRow]
  BY DEF Inv, StoreInv
<1>2. ASSUME NEW c, NEW d, NEW by, Adopted(c, d, by) PROVE document'[k] = document[k]
  BY <1>1, <1>2 DEF Adopted, NoDocument
<1>3. CASE \E r \in Requests : Upload(r) \/ Handler(r) \/ HandlerFails(r)
  BY <1>2, <1>3 DEF Upload, Handler, HandlerFails, FindIntent, Discover, Reserve, PutAnswered,
     Rediscover, MarkStored, Persist, serverVars
<1>4. CASE \E w \in Workers : Recovers(w) \/ Stumbles(w) \/ Crash(w)
  BY <1>2, <1>4 DEF Recovers, Claim, Verify, Adopt, Fail, Stumbles, Crash
<1> QED
  BY <1>3, <1>4 DEF Next, vars, Choose, LoseAnswer, OpenOrClose, Lands, LeaseExpires,
     RequestRecovery, serverVars

\* What an answer may make the form say: a conflict is answered only when the
\* document of the key is there, because a retry carries the data of its key.
LEMMA ConflictAnswered ==
    ASSUME Inv, NEW r \in Requests, Handler(r) \/ HandlerFails(r),
           form'.error = "conflict", form.error # "conflict"
    PROVE  form.waits = r /\ document[request[r].key].disposition # "none"
<1>1. request[r].at # "idle"
  BY DEF Handler, HandlerFails, FindIntent, Discover, Reserve, PutAnswered, Rediscover,
     MarkStored, Persist
<1>2. request[r].key \in Keys /\ request[r].key # NoKey
  BY <1>1, HandlerHasKey, UploadAssumption DEF Inv
<1>3. intent[request[r].key].status # "none" => intent[request[r].key].data = request[r].data
  BY <1>2 DEF Inv, RequestInv, KeyIdentifiesData
<1>4. document[request[r].key].disposition # "none" => intent[request[r].key].status # "none"
  BY <1>2 DEF Inv, StoreInv, AdoptedAsDisposed
<1>5. form' # form
  OBVIOUS
<1>6. ASSUME NEW answer \in Answers, Answer(r, answer)
      PROVE  form.waits = r /\ answer = "conflict"
  BY <1>5, <1>6 DEF Answer, Told, Inv, RequestInv, FormRow
<1>7. ASSUME NEW step, Go(r, step) PROVE FALSE
  BY <1>5, <1>7 DEF Go
<1>8. Replay(r) \in Answers /\ {"ok", "unconfirmed", "conflict", "revoked"} = Answers
  BY DEF Replay, Answers
<1>9. ByUpload(request[r].key) => document[request[r].key].disposition # "none"
  BY <1>2, UploadAssumption DEF ByUpload, Inv, StoreInv, UploadsGrant, NoDocument
<1>10. CASE FindIntent(r)
  BY <1>3, <1>6, <1>7, <1>8, <1>10 DEF FindIntent
<1>11. CASE Persist(r)
  BY <1>6, <1>8, <1>9, <1>11 DEF Persist
<1>12. CASE HandlerFails(r)
  BY <1>6, <1>8, <1>9, <1>12 DEF HandlerFails
<1>13. CASE Discover(r) \/ Reserve(r) \/ PutAnswered(r) \/ Rediscover(r) \/ MarkStored(r)
  BY <1>6, <1>7, <1>8, <1>13 DEF Discover, Reserve, PutAnswered, Rediscover, MarkStored
<1> QED BY <1>10, <1>11, <1>12, <1>13 DEF Handler

LEMMA ConflictStep == ASSUME Inv, ConflictIsAdopted, [Next]_vars PROVE ConflictIsAdopted'
<1> SUFFICES ASSUME form'.error = "conflict" PROVE ConflictIsAdopted'
  BY DEF ConflictIsAdopted
<1>1. Inv'
  BY InvNext
<1>2. form \in FormRow
  BY DEF Inv, RequestInv
<1>3. /\ form'.key = form.key
      /\ form.key \in Keys /\ document[form.key].disposition # "none"
  <2>1. CASE form' = form
    BY <2>1 DEF ConflictIsAdopted
  <2>2. CASE (\E d \in Data : Choose(d)) \/ LoseAnswer \/ \E r \in Requests : Upload(r)
    BY <1>2, <2>2 DEF Choose, Reset, LoseAnswer, Told, Upload, FormRow
  <2>3. CASE form' # form /\ \E r \in Requests : Handler(r) \/ HandlerFails(r)
    <3>1. PICK r \in Requests : Handler(r) \/ HandlerFails(r)
      BY <2>3
    <3>2. form'.key = form.key
      BY <1>2, <2>3, <3>1
         DEF Handler, HandlerFails, FindIntent, Discover, Reserve, PutAnswered, Rediscover,
             MarkStored, Persist, Go, Answer, Told, FormRow
    <3>3. CASE form.error = "conflict"
      BY <3>2, <3>3 DEF ConflictIsAdopted
    <3>4. CASE form.error # "conflict"
      <4>1. form.waits = r /\ document[request[r].key].disposition # "none"
        BY <3>1, <3>4, ConflictAnswered
      <4>2. form.key = request[r].key /\ form.key # NoKey
        BY <4>1, UploadAssumption DEF Inv, RequestInv, FormAwaits
      <4>3. form.key \in Keys
        BY <1>2, <4>2 DEF FormRow
      <4> QED BY <3>2, <4>1, <4>2, <4>3
    <3> QED BY <3>3, <3>4
  <2> QED
    BY <2>1, <2>2, <2>3 DEF Next, vars, OpenOrClose, Lands, LeaseExpires, RequestRecovery,
       Recovers, Claim, Verify, Adopt, Fail, Stumbles, Crash, WorkerUnchanged
<1>4. document'[form.key] = document[form.key]
  BY <1>3, DocumentsStay
<1>5. intent'[form'.key].data = form'.data
  <2>1. intent'[form'.key].status = "committed" /\ form'.key # NoKey
    BY <1>1, <1>3, <1>4, UploadAssumption DEF Inv, StoreInv, AdoptedAsDisposed
  <2> QED BY <1>1, <2>1 DEF Inv, RequestInv, FormKeyIdentifiesData
<1> QED BY <1>3, <1>4, <1>5 DEF ConflictIsAdopted

\* Whatever made the handler answer with a conflict, the version of the form's
\* key is adopted, with the data the form still shows.
THEOREM ConflictsAreAdopted == Spec => []ConflictIsAdopted
<1>1. Init => ConflictIsAdopted
  BY DEF Init, EmptyForm, ConflictIsAdopted
<1>2. Inv /\ ConflictIsAdopted /\ [Next]_vars => ConflictIsAdopted'
  BY ConflictStep
<1> QED BY <1>1, <1>2, UploadInvariant, PTL DEF Spec

-----------------------------------------------------------------------------
(* Upload and recovery take the steps of CustodyAdoption.                   *)

\* What the promise sees of an operation.
Seen(row) == [upload |-> row.key, disposition |-> row.disposition,
              status |-> IF row.status \in {"queued", "leased"} THEN "active" ELSE row.status]

Adoptions  == [k \in Keys |-> document[k].disposition]
Recoveries == [o \in Operations |-> Seen(operation[o])]

LEMMA PromiseVars == Promise!vars = <<Adoptions, Recoveries>>
BY DEF Promise!vars, Adoptions, Recoveries, Seen, Running

LEMMA PromiseInit == Init => Promise!Init
<1> SUFFICES ASSUME Init PROVE Promise!Init
  OBVIOUS
<1>1. \A k \in Keys : document[k].disposition = "none"
  BY DEF Init, NoDocument
<1>2. \A o \in Operations : Seen(operation[o]) = Promise!Unrequested
  BY DEF Init, EmptyOperation, Seen, Promise!Unrequested
<1> QED BY <1>1, <1>2 DEF Promise!Init, Promise!Unrequested, Seen, Running

\* A step that the promise does not see.
LEMMA Stutters ==
    ASSUME \A k \in Keys : document'[k].disposition = document[k].disposition,
           \A o \in Operations : Seen(operation'[o]) = Seen(operation[o])
    PROVE  UNCHANGED Promise!vars
BY PromiseVars DEF Adoptions, Recoveries, Promise!vars, Seen, Running


\* The actions of the promise, in the terms of this module.
LEMMA PromiseActions ==
    /\ \A k \in Keys :
         /\ Adoptions[k] = "none" /\ Adoptions' = [Adoptions EXCEPT ![k] = "teacher_access"]
         /\ Recoveries' = Recoveries
         => Promise!AdoptByUpload(k)
    /\ \A o \in Operations, k \in Keys, d \in Dispositions :
         /\ Recoveries[o].status = "none" /\ Adoptions[k] = "none"
         /\ \A p \in Operations : Recoveries[p].upload = k => Recoveries[p].status # "active"
         /\ Recoveries' = [Recoveries EXCEPT ![o] =
                             [upload |-> k, disposition |-> d, status |-> "active"]]
         /\ Adoptions' = Adoptions
         => Promise!Request(o, k, d)
    /\ \A o \in Operations :
         /\ Recoveries[o].status = "active" /\ Adoptions[Recoveries[o].upload] = "none"
         /\ Adoptions' = [Adoptions EXCEPT ![Recoveries[o].upload] = Recoveries[o].disposition]
         /\ Recoveries' = [Recoveries EXCEPT ![o].status = "committed"]
         => Promise!AdoptByOperation(o)
    /\ \A o \in Operations, s \in {"blocked", "deadletter"} :
         /\ Recoveries[o].status = "active" /\ Recoveries' = [Recoveries EXCEPT ![o].status = s]
         /\ Adoptions' = Adoptions
         => Promise!GiveUp(o)
<1> DEFINE shown == [o \in Operations |->
                       [upload |-> operation[o].key, disposition |-> operation[o].disposition,
                        status |-> IF Running(o) THEN "active" ELSE operation[o].status]]
<1>1. Recoveries = shown /\ Recoveries' = shown'
  BY DEF Recoveries, Seen, Running
<1>2. /\ Adoptions = [k \in Keys |-> document[k].disposition]
      /\ Adoptions' = [k \in Keys |-> document[k].disposition]'
  BY DEF Adoptions
<1>3. \A k \in Keys :
        /\ Adoptions[k] = "none" /\ Adoptions' = [Adoptions EXCEPT ![k] = "teacher_access"]
        /\ Recoveries' = Recoveries
        => Promise!AdoptByUpload(k)
  BY <1>1, <1>2 DEF Promise!AdoptByUpload
<1>4. \A o \in Operations, k \in Keys, d \in Dispositions :
        /\ Recoveries[o].status = "none" /\ Adoptions[k] = "none"
        /\ \A p \in Operations : Recoveries[p].upload = k => Recoveries[p].status # "active"
        /\ Recoveries' = [Recoveries EXCEPT ![o] =
                            [upload |-> k, disposition |-> d, status |-> "active"]]
        /\ Adoptions' = Adoptions
        => Promise!Request(o, k, d)
  BY <1>1, <1>2 DEF Promise!Request
<1>5. \A o \in Operations :
        /\ Recoveries[o].status = "active" /\ Adoptions[Recoveries[o].upload] = "none"
        /\ Adoptions' = [Adoptions EXCEPT ![Recoveries[o].upload] = Recoveries[o].disposition]
        /\ Recoveries' = [Recoveries EXCEPT ![o].status = "committed"]
        => Promise!AdoptByOperation(o)
  BY <1>1, <1>2 DEF Promise!AdoptByOperation
<1>6. \A o \in Operations, s \in {"blocked", "deadletter"} :
        /\ Recoveries[o].status = "active" /\ Recoveries' = [Recoveries EXCEPT ![o].status = s]
        /\ Adoptions' = Adoptions
        => Promise!GiveUp(o)
  BY <1>1, <1>2 DEF Promise!GiveUp
<1> QED BY <1>3, <1>4, <1>5, <1>6

\* Steps that touch neither documents nor operations.
LEMMA QuietPromise ==
    UNCHANGED <<document, operation>> => UNCHANGED Promise!vars
BY Stutters


LEMMA PersistKeepsPromise ==
    ASSUME Inv, NEW r \in Requests, Persist(r)
    PROVE  Promise!Next \/ UNCHANGED Promise!vars
<1> DEFINE k == request[r].key
<1>1. k \in Keys /\ UNCHANGED operation
  BY HandlerHasKey DEF Persist, Inv, recoveryVars
<1>2. CASE UNCHANGED document
  BY <1>1, <1>2, QuietPromise
<1>3. CASE Adopted(k, "teacher_access", k)
  <2> DEFINE new == [disposition |-> "teacher_access", key |-> k]
  <2>1. document' = [document EXCEPT ![k] = new] /\ document[k].disposition = "none"
    BY <1>3 DEF Adopted, NoDocument
  <2>2. new.disposition = "teacher_access"
    OBVIOUS
  <2> HIDE DEF new
  <2>3. \A c \in Keys : document'[c] = IF c = k THEN new ELSE document[c]
    BY <1>1, <2>1 DEF Inv, StoreInv
  <2>4. Adoptions[k] = "none" /\ Adoptions' = [Adoptions EXCEPT ![k] = "teacher_access"]
    BY <1>1, <2>1, <2>2, <2>3 DEF Adoptions
  <2>5. Recoveries' = Recoveries
    BY <1>1 DEF Recoveries, Seen
  <2> QED BY <1>1, <2>4, <2>5, PromiseActions DEF Promise!Next
<1> QED BY <1>2, <1>3 DEF Persist

LEMMA RequestKeepsPromise ==
    ASSUME Inv, NEW o \in Operations, NEW k \in Keys, NEW d \in Dispositions,
           RequestRecovery(o, k, d)
    PROVE  Promise!Next
<1> DEFINE next == [operation[o] EXCEPT !.key = k, !.disposition = d, !.status = "queued"]
<1>1. operation[o] \in OperationRow /\ operation \in [Operations -> OperationRow]
  BY DEF Inv, RecoveryInv
<1>2. next.key = k /\ next.disposition = d /\ next.status = "queued"
  BY <1>1 DEF OperationRow
<1>3. operation' = [operation EXCEPT ![o] = next]
  BY DEF RequestRecovery
<1> HIDE DEF next
<1>4. \A p \in Operations : operation'[p] = IF p = o THEN next ELSE operation[p]
  BY <1>1, <1>3
<1>5. Seen(next) = [upload |-> k, disposition |-> d, status |-> "active"]
  BY <1>2 DEF Seen
<1>6. Recoveries' = [Recoveries EXCEPT ![o] = [upload |-> k, disposition |-> d, status |-> "active"]]
  BY <1>4, <1>5 DEF Recoveries
<1>7. Recoveries[o].status = "none"
  BY DEF RequestRecovery, EmptyOperation, Recoveries, Seen
<1>8. Adoptions[k] = "none" /\ Adoptions' = Adoptions
  BY DEF RequestRecovery, Adoptions, Inv, StoreInv, AdoptedAsDisposed
<1>9. \A p \in Operations : Recoveries[p].upload = k => Recoveries[p].status # "active"
  <2>1. \A p \in Operations : operation[p].key = k => operation[p].status \notin {"queued", "leased"}
    BY DEF RequestRecovery, Running
  <2>2. ASSUME NEW p \in Operations, operation[p].status \notin {"queued", "leased"}
        PROVE  Recoveries[p].status # "active"
    <3>1. Recoveries[p].status = operation[p].status
      BY <2>2 DEF Recoveries, Seen
    <3>2. operation[p].status \in Statuses
      BY <1>1 DEF OperationRow
    <3> QED BY <3>1, <3>2 DEF Statuses
  <2>3. \A p \in Operations : Recoveries[p].upload = operation[p].key
    BY DEF Recoveries, Seen
  <2> QED BY <2>1, <2>2, <2>3
<1> QED BY <1>6, <1>7, <1>8, <1>9, PromiseActions DEF Promise!Next, Dispositions, Promise!Dispositions

\* Leases come and go without the promise noticing.
LEMMA LeasesStutter ==
    ASSUME Inv, (\E o \in Operations : LeaseExpires(o)) \/ (\E w \in Workers : Claim(w))
    PROVE  UNCHANGED Promise!vars
<1>1. CASE \E o \in Operations : LeaseExpires(o)
  <2>1. PICK o \in Operations : LeaseExpires(o)
    BY <1>1
  <2> DEFINE next == [operation[o] EXCEPT !.expired = TRUE]
  <2>2. /\ next.key = operation[o].key /\ next.disposition = operation[o].disposition
        /\ next.status = operation[o].status
    BY DEF Inv, RecoveryInv, OperationRow
  <2>3. operation' = [operation EXCEPT ![o] = next] /\ document' = document
    BY <2>1 DEF LeaseExpires
  <2> HIDE DEF next
  <2>4. \A p \in Operations : operation'[p] = IF p = o THEN next ELSE operation[p]
    BY <2>3 DEF Inv, RecoveryInv
  <2> QED BY <2>2, <2>3, <2>4, Stutters DEF Seen
<1>2. CASE \E w \in Workers : Claim(w)
  <2>1. PICK w \in Workers : Claim(w)
    BY <1>2
  <2>2. PICK o \in Operations :
           /\ Reclaimed[o].status = "queued" /\ operation'[o].status = "leased"
           /\ \A p \in Operations : /\ operation'[p].key = operation[p].key
                                    /\ operation'[p].disposition = operation[p].disposition
                                    /\ p # o => operation'[p] = Reclaimed[p]
    BY <2>1, ClaimRows DEF Inv
  <2>3. \A p \in Operations : \/ Reclaimed[p] = operation[p]
                              \/ operation[p].status = "leased" /\ Reclaimed[p].status = "queued"
    BY ReclaimedRows DEF Inv, RecoveryInv
  <2>4. ASSUME NEW p \in Operations PROVE Seen(operation'[p]) = Seen(operation[p])
    BY <2>2, <2>3 DEF Seen
  <2>5. document' = document
    BY <2>1 DEF Claim
  <2> QED BY <2>4, <2>5, Stutters
<1> QED BY <1>1, <1>2

LEMMA AdoptKeepsPromise ==
    ASSUME Inv, NEW w \in Workers, Adopt(w)
    PROVE  Promise!Next \/ UNCHANGED Promise!vars
<1> DEFINE id == worker[w].op
           o  == operation[id]
<1>1. id \in Operations /\ o \in OperationRow /\ operation \in [Operations -> OperationRow]
  BY DEF Adopt, Inv, RecoveryInv, WorkersHaveOperations
<1>2. CASE UNCHANGED <<operation, document>>
  BY <1>2, QuietPromise
<1>3. CASE /\ Holds(w) /\ Adopted(o.key, o.disposition, NoKey)
           /\ operation' = [operation EXCEPT ![id].status = "committed", ![id].owner = NoWorker,
                              ![id].expired = FALSE, ![id].error = "none"]
  <2> DEFINE next == [o EXCEPT !.status = "committed", !.owner = NoWorker,
                               !.expired = FALSE, !.error = "none"]
             new  == [disposition |-> o.disposition, key |-> NoKey]
  <2>1. o.key \in Keys /\ o.status = "leased"
    BY <1>1, <1>3 DEF Inv, RecoveryInv, OperationsHaveUploads, Holds
  <2>2. next.key = o.key /\ next.disposition = o.disposition /\ next.status = "committed"
    BY <1>1 DEF OperationRow
  <2>3. operation' = [operation EXCEPT ![id] = next]
    BY <1>3
  <2>4. document' = [document EXCEPT ![o.key] = new] /\ document[o.key].disposition = "none"
    <3> HIDE DEF o
    <3> QED BY <1>3 DEF Adopted, NoDocument
  <2>5. new.disposition = o.disposition
    OBVIOUS
  <2> HIDE DEF next, new, id
  <2>6. /\ \A p \in Operations : operation'[p] = IF p = id THEN next ELSE operation[p]
        /\ \A c \in Keys : document'[c] = IF c = o.key THEN new ELSE document[c]
    BY <1>1, <2>1, <2>3, <2>4 DEF Inv, StoreInv
  <2>7. Seen(next) = [Seen(o) EXCEPT !.status = "committed"]
    BY <2>2 DEF Seen
  <2>8. Recoveries' = [Recoveries EXCEPT ![id].status = "committed"]
    BY <1>1, <2>6, <2>7 DEF Recoveries
  <2>9. /\ Recoveries[id].status = "active" /\ Recoveries[id].upload = o.key
        /\ Recoveries[id].disposition = o.disposition
    BY <1>1, <2>1 DEF Recoveries, Seen
  <2> HIDE DEF o
  <2>10. Adoptions[o.key] = "none" /\ Adoptions' = [Adoptions EXCEPT ![o.key] = o.disposition]
    BY <2>1, <2>4, <2>5, <2>6 DEF Adoptions
  <2> QED BY <1>1, <2>8, <2>9, <2>10, PromiseActions DEF Promise!Next
<1> QED BY <1>2, <1>3 DEF Adopt

LEMMA FailKeepsPromise ==
    ASSUME Inv, NEW w \in Workers, Fail(w)
    PROVE  Promise!Next \/ UNCHANGED Promise!vars
<1> DEFINE id == worker[w].op
           o  == operation[id]
           cause == worker[w].cause
<1>1. /\ id \in Operations /\ operation \in [Operations -> OperationRow]
      /\ cause \in Causes
  BY DEF Fail, Inv, RecoveryInv, WorkersHaveOperations, WorkerRow
<1>2. document' = document
  BY DEF Fail
<1>3. CASE o.status = "leased" /\ o.owner = w
  <2> DEFINE next == [Requeued(o) EXCEPT !.status = Ending(o, cause), !.error = cause]
  <2>1. /\ next.key = o.key /\ next.disposition = o.disposition
        /\ next.status \in {"queued", "blocked", "deadletter"}
    BY <1>1, <1>3, EndingRows DEF Inv
  <2>2. operation' = [operation EXCEPT ![id] = next]
    BY <1>3 DEF Fail
  <2> HIDE DEF next, id
  <2>3. \A p \in Operations : operation'[p] = IF p = id THEN next ELSE operation[p]
    BY <1>1, <2>2
  <2>4. CASE next.status = "queued"
    <3>1. Seen(next) = Seen(o)
      BY <1>3, <2>1, <2>4 DEF Seen
    <3> QED BY <1>2, <2>3, <3>1, Stutters
  <2>5. CASE next.status # "queued"
    <3> DEFINE s == next.status
    <3>1. Seen(next) = [Seen(o) EXCEPT !.status = s] /\ s \in {"blocked", "deadletter"}
      BY <2>1, <2>5 DEF Seen
    <3> HIDE DEF s
    <3>2. Recoveries' = [Recoveries EXCEPT ![id].status = s]
      BY <1>1, <2>3, <3>1 DEF Recoveries
    <3>3. Recoveries[id].status = "active" /\ Adoptions' = Adoptions
      BY <1>1, <1>2, <1>3 DEF Recoveries, Seen, Adoptions
    <3> QED BY <1>1, <3>1, <3>2, <3>3, PromiseActions DEF Promise!Next
  <2> QED BY <2>4, <2>5
<1>4. CASE ~(o.status = "leased" /\ o.owner = w)
  <2>1. operation' = operation
    BY <1>4 DEF Fail
  <2> QED BY <1>2, <2>1, QuietPromise
<1> QED BY <1>3, <1>4

LEMMA StepKeepsPromise ==
    ASSUME Inv, [Next]_vars
    PROVE  [Promise!Next]_(Promise!vars)
<1>1. CASE UNCHANGED vars
  BY <1>1, QuietPromise DEF vars
<1>2. CASE (\E d \in Data : Choose(d)) \/ LoseAnswer \/ OpenOrClose \/ (\E k \in Keys : Lands(k))
  BY <1>2, QuietPromise DEF Choose, LoseAnswer, OpenOrClose, Lands, serverVars, recoveryVars
<1>3. CASE \E r \in Requests : Upload(r) \/ Handler(r) \/ HandlerFails(r)
  <2>1. PICK r \in Requests : Upload(r) \/ Handler(r) \/ HandlerFails(r)
    BY <1>3
  <2>2. CASE Persist(r)
    BY <2>2, PersistKeepsPromise
  <2>3. CASE ~Persist(r)
    BY <2>1, <2>3, QuietPromise
       DEF Upload, Handler, HandlerFails, FindIntent, Discover, Reserve, PutAnswered, Rediscover,
           MarkStored, serverVars, recoveryVars
  <2> QED BY <2>2, <2>3
<1>4. CASE \E w \in Workers : Recovers(w) \/ Stumbles(w) \/ Crash(w)
  <2>1. PICK w \in Workers : Recovers(w) \/ Stumbles(w) \/ Crash(w)
    BY <1>4
  <2>2. CASE Verify(w) \/ Stumbles(w) \/ Crash(w)
    BY <2>2, QuietPromise DEF Verify, Stumbles, Crash
  <2> QED BY <2>1, <2>2, LeasesStutter, AdoptKeepsPromise, FailKeepsPromise DEF Recovers
<1>5. CASE \E o \in Operations, k \in Keys, d \in Dispositions : RequestRecovery(o, k, d)
  BY <1>5, RequestKeepsPromise
<1>6. CASE \E o \in Operations : LeaseExpires(o)
  BY <1>6, LeasesStutter
<1> QED BY <1>1, <1>2, <1>3, <1>4, <1>5, <1>6 DEF Next

\* Upload and recovery together take only the steps that the custody promise
\* allows: each version is adopted once, by an upload or by one operation,
\* with a disposition that stays, and operations end once.  (That every
\* requested operation ends is left to the run.)
THEOREM CustodyPromiseIsKept == Spec => Promise!Init /\ [][Promise!Next]_(Promise!vars)
<1>1. Init => Promise!Init
  BY PromiseInit
<1>2. Inv /\ [Next]_vars => [Promise!Next]_(Promise!vars)
  BY StepKeepsPromise
<1> QED BY <1>1, <1>2, UploadInvariant, PTL DEF Spec
=============================================================================
