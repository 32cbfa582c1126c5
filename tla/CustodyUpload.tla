---------------------------- MODULE CustodyUpload ----------------------------
(***************************************************************************)
(* The upload of a teacher's PDF into the archive, from the browser form   *)
(* to the adopted version, and the recovery of an upload that broke off.   *)
(*                                                                         *)
(* The form (PortfolioOwnUpload) gives one upload one idempotency key. The *)
(* handler (uploadDocument) reserves an intent, writes the file once into  *)
(* object storage under a legal hold, marks the intent stored, and adopts  *)
(* the version in one transaction that inserts the document, the teacher's *)
(* grant and the intent's disposition. A retry with the same key meets     *)
(* whatever an earlier request left behind. An administrator may ask that  *)
(* a stored intent be recovered; recovery workers lease the operation,     *)
(* verify the object and adopt the version instead of the teacher.         *)
(***************************************************************************)
EXTENDS Naturals, FiniteSets

CONSTANTS Keys,          \* idempotency keys the form may draw
          Requests,      \* HTTP requests under way at once
          Workers,       \* recovery workers
          Operations,    \* recovery operations
          Data,          \* what a form may hold: file, title and date
          MaxAttempts,   \* attempts before the dead letter
          NoData, NoKey, NoRequest, NoWorker, NoOperation

ASSUME UploadAssumption ==
    /\ MaxAttempts \in Nat \ {0}
    /\ NoData \notin Data /\ NoKey \notin Keys /\ NoRequest \notin Requests
    /\ NoWorker \notin Workers /\ NoOperation \notin Operations

VARIABLES form,       \* the upload form of the browser
          request,    \* where each request is in the handler
          intent,     \* portfolio_custody_upload_intents, by key
          flying,     \* keys whose PUT is on its way to object storage
          held,       \* keys whose object exists, under legal hold
          document,   \* the archive document of each intent's reserved id
          open,       \* the teacher may still write to the portfolio
          operation,  \* portfolio_custody_recovery_operations
          worker      \* where each recovery worker is

serverVars == <<intent, flying, held, document, open, operation, worker>>
recoveryVars == <<operation, worker>>
vars == <<form, request, intent, flying, held, document, open, operation, worker>>

Dispositions == {"teacher_access", "institution_archive_only"}
Statuses     == {"none", "queued", "leased", "committed", "blocked", "deadletter"}
Causes       == {"none", "transient", "authority", "provenance", "verification"}
HandlerSteps == {"idle", "lookup", "discover", "reserve", "putting",
                 "rediscover", "mark", "persist"}

EmptyForm      == [data |-> NoData, key |-> NoKey, waits |-> NoRequest,
                   document |-> NoKey, error |-> "none", revoked |-> FALSE]
NoIntent       == [status |-> "none", disposition |-> "none", data |-> NoData]
NoDocument     == [disposition |-> "none", key |-> NoKey]
EmptyOperation == [key |-> NoKey, disposition |-> "none", status |-> "none",
                   attempts |-> 0, owner |-> NoWorker, expired |-> FALSE, error |-> "none"]
IdleWorker     == [at |-> "idle", op |-> NoOperation, cause |-> "none"]
IdleRequest    == [at |-> "idle", key |-> NoKey, data |-> NoData]

Init ==
    /\ form = EmptyForm
    /\ request = [r \in Requests |-> IdleRequest]
    /\ intent = [k \in Keys |-> NoIntent]
    /\ flying = {} /\ held = {}
    /\ document = [k \in Keys |-> NoDocument]
    /\ open = TRUE
    /\ operation = [o \in Operations |-> EmptyOperation]
    /\ worker = [w \in Workers |-> IdleWorker]

(***************************************************************************)
(* The form.                                                               *)
(***************************************************************************)
Reset(f) == [f EXCEPT !.key = NoKey, !.document = NoKey, !.error = "none"]

(* The teacher chooses a file, the same or another, or edits the title or  *)
(* the date. The file chooser stays enabled after an upload was received.  *)
Choose(d) ==
    /\ form.waits = NoRequest /\ ~form.revoked
    /\ form' = [Reset(form) EXCEPT !.data = d]
    /\ UNCHANGED <<request, serverVars>>

FreshKeys == {k \in Keys : /\ intent[k] = NoIntent
                           /\ \A r \in Requests : request[r].key # k}

KeyOf(f) == IF f.key = NoKey THEN FreshKeys ELSE {f.key}

(* "Încarcă": the key is drawn once and kept for every retry.              *)
Upload(r) ==
    /\ form.data # NoData /\ form.waits = NoRequest
    /\ form.document = NoKey /\ ~form.revoked
    /\ request[r] = IdleRequest
    /\ \E k \in KeyOf(form) :
         /\ form' = [form EXCEPT !.key = k, !.waits = r, !.error = "none"]
         /\ request' = [request EXCEPT ![r] = [at |-> "lookup", key |-> k, data |-> form.data]]
    /\ UNCHANGED serverVars

(* What the form makes of an answer.                                       *)
Told(f, answer, k) ==
    [f EXCEPT !.waits = NoRequest,
              !.document = IF answer = "ok" THEN k ELSE f.document,
              !.error = IF answer = "ok" THEN f.error ELSE answer,
              !.revoked = (answer = "revoked")]

(* The connection breaks: the form is told nothing, the handler goes on.   *)
LoseAnswer ==
    /\ form.waits # NoRequest
    /\ form' = Told(form, "unconfirmed", NoKey)
    /\ UNCHANGED <<request, serverVars>>

(***************************************************************************)
(* The upload handler. Each action ends with the next storage or database  *)
(* call still to be made.                                                  *)
(***************************************************************************)
Go(r, step) == /\ request' = [request EXCEPT ![r].at = step]
               /\ UNCHANGED form

Answer(r, answer) ==
    /\ request' = [request EXCEPT ![r] = IdleRequest]
    /\ form' = IF form.waits = r THEN Told(form, answer, request[r].key) ELSE form

(* portfolioUploadReplayMatches: a document that an upload inserted keeps  *)
(* the key and the fingerprint; one a recovery inserted has neither.       *)
ByUpload(k) == document[k].key = k
ReplayAnyDocument(r) == IF document[request[r].key].disposition # "none" THEN "ok" ELSE "conflict"
Replay(r)   == IF ByUpload(request[r].key) /\ intent[request[r].key].data = request[r].data
               THEN "ok" ELSE "conflict"

(* Authority is checked after the file was staged; then the document and   *)
(* the intent of the key are looked up. What a recovery or another request *)
(* commits between the two reads is answered alike by both. A stored       *)
(* version is read and verified before it is adopted.                      *)
FindIntent(r) ==
    LET k == request[r].key
        i == intent[k] IN
    /\ request[r].at = "lookup"
    /\ \/ ~open /\ Answer(r, "revoked")
       \/ /\ open /\ document[k].disposition # "none"
          /\ Answer(r, Replay(r))
       \/ /\ open /\ document[k].disposition = "none"
          /\ \/ i.status = "none" /\ Go(r, "reserve")
             \/ i.status # "none" /\ i.data # request[r].data /\ Answer(r, "conflict")
             \/ i.status = "reserved" /\ i.data = request[r].data /\ Go(r, "discover")
             \/ i.status = "stored" /\ i.data = request[r].data /\ Go(r, "persist")
    /\ UNCHANGED serverVars

DiscoverNothing(r) ==
    /\ request[r].at = "discover"
    /\ Answer(r, "unconfirmed")
    /\ UNCHANGED serverVars

DiscoverConflicts(r) ==
    /\ request[r].at = "discover"
    /\ IF request[r].key \in held THEN Go(r, "mark") ELSE Answer(r, "conflict")
    /\ UNCHANGED serverVars

(* A reserved intent is an upload that broke off around its PUT. When no   *)
(* version is found the code leaves the status "reserved" and so answers   *)
(* that a recovery is required.                                            *)
Discover(r) ==
    /\ request[r].at = "discover"
    /\ IF request[r].key \in held THEN Go(r, "mark") ELSE Answer(r, "unconfirmed")
    /\ UNCHANGED serverVars

(* The unique key lets one request reserve.                                *)
Reserve(r) ==
    LET k == request[r].key IN
    /\ request[r].at = "reserve"
    /\ IF intent[k].status = "none"
       THEN /\ intent' = [intent EXCEPT ![k] = [status |-> "reserved", disposition |-> "none",
                                                data |-> request[r].data]]
            /\ flying' = flying \cup {k}
            /\ Go(r, "putting")
       ELSE /\ Answer(r, "unconfirmed")
            /\ UNCHANGED <<intent, flying>>
    /\ UNCHANGED <<held, document, open, recoveryVars>>

(* Object storage takes the PUT or never sees it, with or without a        *)
(* handler that still waits.                                               *)
Lands(k) ==
    /\ k \in flying
    /\ flying' = flying \ {k}
    /\ \/ held' = held \cup {k}
       \/ UNCHANGED held
    /\ UNCHANGED <<form, request, intent, document, open, recoveryVars>>

PutTrusted(r) ==
    /\ request[r].at = "putting"
    /\ Go(r, "mark")
    /\ UNCHANGED serverVars

(* The PUT is answered and verified, or fails without saying whether the   *)
(* object was written; then the exact version is looked for.               *)
PutAnswered(r) ==
    /\ request[r].at = "putting"
    /\ \/ request[r].key \in held /\ Go(r, "mark")
       \/ Go(r, "rediscover")
    /\ UNCHANGED serverVars

Rediscover(r) ==
    /\ request[r].at = "rediscover"
    /\ IF request[r].key \in held THEN Go(r, "mark") ELSE Answer(r, "unconfirmed")
    /\ UNCHANGED serverVars

(* markPortfolioCustodyIntentStored. When another request marked first,    *)
(* the intent is read again and must still be stored.                      *)
MarkStored(r) ==
    LET k == request[r].key IN
    /\ request[r].at = "mark"
    /\ CASE intent[k].status = "reserved" ->
              /\ intent' = [intent EXCEPT ![k].status = "stored"]
              /\ Go(r, "persist")
         [] intent[k].status = "stored" -> Go(r, "persist") /\ UNCHANGED intent
         [] OTHER -> Answer(r, "unconfirmed") /\ UNCHANGED intent
    /\ UNCHANGED <<flying, held, document, open, recoveryVars>>

AdoptedBlindly(k, d, by) ==
    /\ intent' = [intent EXCEPT ![k].status = "committed", ![k].disposition = d]
    /\ document' = [document EXCEPT ![k] = [disposition |-> d, key |-> by]]

(* The document, its version and the intent's disposition, in one          *)
(* transaction. The reserved document id can be inserted once.             *)
Adopted(k, d, by) ==
    /\ intent[k].status = "stored" /\ intent[k].disposition = "none"
    /\ document[k] = NoDocument
    /\ intent' = [intent EXCEPT ![k].status = "committed", ![k].disposition = d]
    /\ document' = [document EXCEPT ![k] = [disposition |-> d, key |-> by]]

(* The final transaction: authority, replay, adoption. The answer to a     *)
(* commit may be lost, and then the handler reports a failure.             *)
Persist(r) ==
    LET k == request[r].key IN
    /\ request[r].at = "persist"
    /\ \/ ~open /\ Answer(r, "revoked") /\ UNCHANGED <<intent, document>>
       \/ open /\ ByUpload(k) /\ Answer(r, Replay(r)) /\ UNCHANGED <<intent, document>>
       \/ /\ open /\ ~ByUpload(k)
          /\ Adopted(k, "teacher_access", k)
          /\ Answer(r, "ok") \/ Answer(r, "unconfirmed")
       \/ /\ open /\ document[k].disposition # "none" /\ ~ByUpload(k)
          /\ Answer(r, "unconfirmed")
          /\ UNCHANGED <<intent, document>>
    /\ UNCHANGED <<flying, held, open, recoveryVars>>

(* A call fails, the database rolls back or the server stops: the request  *)
(* ends where it is. Two failures are answered as something else: a query  *)
(* of the authority as a lost one, and a version that is adopted but whose *)
(* details cannot be read as a conflict.                                   *)
HandlerFails(r) ==
    LET k == request[r].key IN
    /\ \/ request[r].at # "idle" /\ Answer(r, "unconfirmed")
       \/ request[r].at \in {"lookup", "persist"} /\ Answer(r, "revoked")
       \/ request[r].at = "lookup" /\ document[k].disposition # "none" /\ Answer(r, "conflict")
       \/ request[r].at = "persist" /\ ByUpload(k) /\ Answer(r, "conflict")
    /\ UNCHANGED serverVars

Handler(r) == \/ FindIntent(r) \/ Discover(r) \/ Reserve(r) \/ PutAnswered(r)
              \/ Rediscover(r) \/ MarkStored(r) \/ Persist(r)

(* The portfolio is submitted or put under legal hold, or given back.      *)
OpenOrClose == /\ open' = ~open
               /\ UNCHANGED <<form, request, intent, flying, held, document, recoveryVars>>

(***************************************************************************)
(* The administrator's request: one running recovery for a stored intent.  *)
(* The same request again is answered with the running operation.          *)
(***************************************************************************)
Running(o) == operation[o].status \in {"queued", "leased"}

RequestRecovery(o, k, d) ==
    /\ operation[o] = EmptyOperation
    /\ intent[k].status = "stored" /\ intent[k].disposition = "none"
    /\ \A p \in Operations : operation[p].key = k => ~Running(p)
    /\ operation' = [operation EXCEPT ![o].key = k, ![o].disposition = d, ![o].status = "queued"]
    /\ UNCHANGED <<form, request, intent, flying, held, document, open, worker>>

(***************************************************************************)
(* The recovery worker.                                                    *)
(***************************************************************************)
Proceeds(w, step)    == worker' = [worker EXCEPT ![w].at = step]
Refuses(w, cause)    == worker' = [worker EXCEPT ![w].at = "failing", ![w].cause = cause]
GoesIdle(w)          == worker' = [worker EXCEPT ![w] = IdleWorker]
WorkerUnchanged      == UNCHANGED <<form, request, flying, held, open>>

(* Five minutes pass without an end.                                       *)
LeaseExpires(o) ==
    /\ operation[o].status = "leased" /\ ~operation[o].expired
    /\ operation' = [operation EXCEPT ![o].expired = TRUE]
    /\ UNCHANGED <<form, request, intent, flying, held, document, open, worker>>

Requeued(op) == [op EXCEPT !.status = "queued", !.owner = NoWorker, !.expired = FALSE]

Attempt(n) == IF n < MaxAttempts THEN n + 1 ELSE n

(* claim: every expired lease goes back to the queue, then one queued      *)
(* operation is leased. Attempts count only up to the limit they are       *)
(* compared with.                                                          *)
Reclaimed == [o \in Operations |->
                IF operation[o].status = "leased" /\ operation[o].expired
                THEN Requeued(operation[o]) ELSE operation[o]]

Claim(w) ==
    /\ worker[w] = IdleWorker
    /\ \E o \in Operations :
         /\ Reclaimed[o].status = "queued"
         /\ operation' = [Reclaimed EXCEPT
                ![o].status = "leased", ![o].owner = w,
                ![o].attempts = Attempt(@)]
         /\ worker' = [worker EXCEPT ![w] = [at |-> "verify", op |-> o, cause |-> "none"]]
    /\ UNCHANGED <<intent, document>> /\ WorkerUnchanged

(* The query of process, run before the object is read and again under     *)
(* row locks: this worker's lease, and an intent nobody has adopted.       *)
Holds(w) ==
    LET o == operation[worker[w].op] IN
    /\ o.status = "leased" /\ o.owner = w
    /\ intent[o.key].status = "stored" /\ intent[o.key].disposition = "none"

(* ReconcileCustodyHeldObject then reads the exact version, outside any    *)
(* transaction, and never writes. The object under hold is what was stored *)
(* but its body may break off or take longer than the 30 seconds, and then *)
(* the answer is "content mismatch" as for another content.                *)
Verify(w) ==
    /\ worker[w].at = "verify"
    /\ \/ Holds(w) /\ operation[worker[w].op].key \in held /\ Proceeds(w, "adopt")
       \/ Holds(w) /\ Refuses(w, "verification")
       \/ ~Holds(w) /\ Refuses(w, "provenance")
    /\ UNCHANGED <<operation, intent, document>> /\ WorkerUnchanged

(* The adopting transaction. For the teacher it needs her authority, and a *)
(* failed query of the authority counts as none. The worker may not hear   *)
(* of its commit, and then it reports a failure.                           *)
Adopt(w) ==
    LET id == worker[w].op
        o  == operation[id] IN
    /\ worker[w].at = "adopt"
    /\ \/ ~Holds(w) /\ Refuses(w, "provenance") /\ UNCHANGED <<operation, intent, document>>
       \/ /\ Holds(w) /\ o.disposition = "teacher_access"
          /\ Refuses(w, "authority") /\ UNCHANGED <<operation, intent, document>>
       \/ /\ Holds(w) /\ (o.disposition = "teacher_access" => open)
          /\ Adopted(o.key, o.disposition, NoKey)
          /\ operation' = [operation EXCEPT ![id].status = "committed", ![id].owner = NoWorker,
                              ![id].expired = FALSE, ![id].error = "none"]
          /\ GoesIdle(w) \/ Refuses(w, "transient")
    /\ WorkerUnchanged

(* A query, the commit, or the HEAD or GET before the body fails: these    *)
(* are worth retrying.                                                     *)
Stumbles(w) ==
    /\ worker[w].at \in {"verify", "adopt"}
    /\ Refuses(w, "transient")
    /\ UNCHANGED <<operation, intent, document>> /\ WorkerUnchanged

(* recoveryFailureCode: a lease or intent that changed, a teacher without  *)
(* authority and an object that was not verified are permanent.            *)
Ending(op, cause) == IF cause # "transient" THEN "blocked"
                     ELSE IF op.attempts >= MaxAttempts THEN "deadletter" ELSE "queued"

FailUnfenced(w) ==
    LET id == worker[w].op
        o  == operation[id] IN
    /\ worker[w].at = "failing"
    /\ operation' = IF o.status = "leased"
                    THEN [operation EXCEPT ![id] =
                            [Requeued(o) EXCEPT !.status = Ending(o, worker[w].cause),
                                                !.error = worker[w].cause]]
                    ELSE operation
    /\ GoesIdle(w)
    /\ UNCHANGED <<intent, document>> /\ WorkerUnchanged

(* fail: only the worker that still holds the lease ends the attempt.      *)
Fail(w) ==
    LET id == worker[w].op
        o  == operation[id] IN
    /\ worker[w].at = "failing"
    /\ operation' = IF o.status = "leased" /\ o.owner = w
                    THEN [operation EXCEPT ![id] =
                            [Requeued(o) EXCEPT !.status = Ending(o, worker[w].cause),
                                                !.error = worker[w].cause]]
                    ELSE operation
    /\ GoesIdle(w)
    /\ UNCHANGED <<intent, document>> /\ WorkerUnchanged

(* The worker's process stops, or its failure cannot be recorded: the      *)
(* lease has to run out.                                                   *)
Crash(w) ==
    /\ worker[w] # IdleWorker
    /\ GoesIdle(w)
    /\ UNCHANGED <<operation, intent, document>> /\ WorkerUnchanged

Recovers(w) == Claim(w) \/ Verify(w) \/ Adopt(w) \/ Fail(w)

Next ==
    \/ \E d \in Data : Choose(d)
    \/ \E r \in Requests : Upload(r) \/ Handler(r) \/ HandlerFails(r)
    \/ LoseAnswer \/ OpenOrClose
    \/ \E k \in Keys : Lands(k)
    \/ \E o \in Operations : LeaseExpires(o)
    \/ \E o \in Operations, k \in Keys, d \in Dispositions : RequestRecovery(o, k, d)
    \/ \E w \in Workers : Recovers(w) \/ Stumbles(w) \/ Crash(w)

Spec == Init /\ [][Next]_vars

(***************************************************************************)
(* Fairness. Handlers and workers take the steps they can take, and a      *)
(* lease that nobody ends runs out. Faults are transient: from some point  *)
(* on handlers do not die, workers do not stop, and no lease runs out      *)
(* under a worker that is busy with it (the object is read within 30       *)
(* seconds and a lease lasts five minutes). Transient failures of a worker *)
(* need no such assumption, their number is limited by the code. (A        *)
(* handler that answers a failure, and a worker that lost its lease, take  *)
(* the same step as one that dies; these steps are not excluded.)          *)
(***************************************************************************)
BusyWith(o)    == \E w \in Workers : worker[w].op = o /\ operation[o].owner = w
UnderBusyWorker == \E o \in Operations : BusyWith(o) /\ LeaseExpires(o)

WorkersFair ==
    /\ \A w \in Workers : WF_vars(Recovers(w))
    /\ \A o \in Operations : WF_vars(LeaseExpires(o))
    /\ <>[][\A w \in Workers : Crash(w) => Recovers(w)]_vars
    /\ <>[][~UnderBusyWorker]_vars

(* The teacher follows the form's advice and tries again with the same     *)
(* file for as long as the form lets her.                                  *)
TeacherFair ==
    /\ WF_vars(\E r \in Requests : Upload(r))
    /\ \A r \in Requests : WF_vars(Handler(r))
    /\ <>[][\A r \in Requests : HandlerFails(r) => Handler(r)]_vars

FairSpec == Spec /\ WorkersFair /\ TeacherFair

(***************************************************************************)
(* Properties.                                                             *)
(***************************************************************************)
(* The types of the form, the handlers, the tables and the workers.        *)
UploadTypeOK ==
    /\ form \in [data : Data \cup {NoData}, key : Keys \cup {NoKey},
                 waits : Requests \cup {NoRequest}, document : Keys \cup {NoKey},
                 error : {"none", "unconfirmed", "conflict", "revoked"}, revoked : BOOLEAN]
    /\ request \in [Requests -> [at : HandlerSteps, key : Keys \cup {NoKey},
                                 data : Data \cup {NoData}]]
    /\ intent \in [Keys -> [status : {"none", "reserved", "stored", "committed"},
                            disposition : Dispositions \cup {"none"},
                            data : Data \cup {NoData}]]
    /\ flying \subseteq Keys /\ held \subseteq Keys
    /\ document \in [Keys -> [disposition : Dispositions \cup {"none"},
                              key : Keys \cup {NoKey}]]
    /\ open \in BOOLEAN
    /\ operation \in [Operations ->
            [key : Keys \cup {NoKey}, disposition : Dispositions \cup {"none"},
             status : Statuses, attempts : 0..MaxAttempts, owner : Workers \cup {NoWorker},
             expired : BOOLEAN, error : Causes]]
    /\ worker \in [Workers ->
            [at : {"idle", "verify", "adopt", "failing"},
             op : Operations \cup {NoOperation},
             cause : Causes]]

(* PortfolioOwnUpload draws a new key whenever the file, the title or the  *)
(* date changes: two requests, or a request and an intent, that share a    *)
(* key carry the same data, so a retry can never be taken for another      *)
(* upload nor adopt another upload's file.                                 *)
KeyIdentifiesData ==
    \A r \in Requests :
        LET k == request[r].key IN
        k # NoKey =>
          /\ intent[k].status # "none" => intent[k].data = request[r].data
          /\ \A s \in Requests : request[s].key = k => request[s].data = request[r].data

(* "PDF primit": what the form reports as received is adopted with the     *)
(* teacher's grant, and with the data the form still shows.                *)
ReceivedIsAdopted ==
    form.document # NoKey =>
        /\ document[form.document].disposition = "teacher_access"
        /\ intent[form.document].status = "committed"
        /\ intent[form.document].data = form.data

(* A document, its intent's disposition and the object it points to agree: *)
(* the version is adopted only when the exact object exists under hold and *)
(* nobody adopted it before, whichever of upload and recovery came first.  *)
AdoptedAsDisposed ==
    \A k \in Keys :
        /\ document[k].disposition = intent[k].disposition
        /\ intent[k].status = "committed" <=> document[k].disposition # "none"
        /\ intent[k].status \in {"stored", "committed"} => k \in held

(* An operation is blocked for a lost lease or intent (the codes           *)
(* recovery_provenance_missing and recovery_lease_or_provenance_changed)   *)
(* only when another way of adopting the version came first: then nothing  *)
(* is left to recover. A worker that lost its lease must not pass its own  *)
(* failure on to the operation.                                            *)
LostProvenanceWasAdopted ==
    \A o \in Operations :
        operation[o].status = "blocked" /\ operation[o].error = "provenance"
            => intent[operation[o].key].status = "committed"

(* What the form calls a conflict is about a version that is adopted, with *)
(* the data the form still shows: nothing of the upload is lost, whether   *)
(* the answer comes from a recovery that adopted the version or from a     *)
(* document whose details could not be read.                               *)
ConflictIsAdopted ==
    form.error = "conflict" =>
        /\ form.key \in Keys
        /\ document[form.key].disposition # "none"
        /\ intent[form.key].data = form.data

(* Upload and recovery together keep the custody promise: one adoption per *)
(* version, final operations, and every requested recovery ends, under     *)
(* fair workers.                                                           *)
Promise == INSTANCE CustodyAdoption WITH
    Uploads    <- Keys,
    NoUpload   <- NoKey,
    adopted    <- [k \in Keys |-> document[k].disposition],
    operations <- [o \in Operations |->
                     [upload |-> operation[o].key, disposition |-> operation[o].disposition,
                      status |-> IF Running(o) THEN "active" ELSE operation[o].status]]

KeepsCustodyPromise == Promise!Spec

(* A file that reached object storage is not lost to a teacher who keeps   *)
(* trying: whatever broke off before, one of the retries, or a recovery,   *)
(* adopts it.                                                              *)
Persistent(k) == form.key = k /\ open /\ ~form.revoked

HeldFileIsAdopted ==
    \A k \in Keys : <>[](k \in held /\ Persistent(k)) => <>(document[k] # NoDocument)

(* archive_documents.go:1018 and PortfolioOwnUpload.tsx:20 promise more:   *)
(* when no version exists the handler writes it, and the teacher is told   *)
(* to try again with the same file. So a teacher who does gets her         *)
(* document, wherever the first request broke off.                         *)
RetryWithSameFileSucceeds ==
    \A k \in Keys : <>[](intent[k].status # "none" /\ Persistent(k))
                        => <>(document[k] # NoDocument)

(* portfolio_custody_recovery_worker.go:279 says of the recovery that a    *)
(* timed-out read is retryable. What is under legal hold never changes, so *)
(* when the object is there a failed verification is a failed read, and it *)
(* does not end the operation.                                             *)
TimedOutReadIsRetried ==
    \A o \in Operations :
        operation[o].status = "blocked" /\ operation[o].key \in held
            => operation[o].error # "verification"

(* PortfolioOwnUpload.tsx:18 tells the teacher that her data differ from   *)
(* the first upload: the answer that makes it say so is given only when    *)
(* they do.                                                                *)
ConflictMeansOtherData ==
    form.error = "conflict" => intent[form.key].data # form.data
=============================================================================
