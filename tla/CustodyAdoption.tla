--------------------------- MODULE CustodyAdoption ---------------------------
(***************************************************************************)
(* What the custody of a portfolio upload promises, whatever happens to    *)
(* requests, workers and object storage: the version an upload left in the *)
(* archive is adopted at most once, with one disposition that never        *)
(* changes; an operation that recovers it ends once and for all, and ends  *)
(* as committed exactly in the step that adopts the version for it.        *)
(* CustodyUpload implements this specification.                            *)
(***************************************************************************)
CONSTANTS Uploads,      \* the portfolio uploads, each with its own version
          Operations,   \* the recovery operations
          NoUpload      \* the upload of an operation nobody requested

VARIABLES adopted,      \* the disposition of each upload's version
          operations    \* each recovery operation

vars == <<adopted, operations>>

Dispositions == {"teacher_access", "institution_archive_only"}

Unrequested == [upload |-> NoUpload, disposition |-> "none", status |-> "none"]

Init == /\ adopted = [k \in Uploads |-> "none"]
        /\ operations = [o \in Operations |-> Unrequested]

(* The teacher's own upload, or a retry of it, adopts the version.         *)
AdoptByUpload(k) ==
    /\ adopted[k] = "none"
    /\ adopted' = [adopted EXCEPT ![k] = "teacher_access"]
    /\ UNCHANGED operations

(* A recovery is requested: one at a time, while nobody adopted.           *)
Request(o, k, d) ==
    /\ operations[o].status = "none"
    /\ adopted[k] = "none"
    /\ \A p \in Operations : operations[p].upload = k => operations[p].status # "active"
    /\ operations' = [operations EXCEPT ![o] =
                        [upload |-> k, disposition |-> d, status |-> "active"]]
    /\ UNCHANGED adopted

(* The operation adopts the version, with the disposition it was given.    *)
AdoptByOperation(o) ==
    /\ operations[o].status = "active"
    /\ adopted[operations[o].upload] = "none"
    /\ adopted' = [adopted EXCEPT ![operations[o].upload] = operations[o].disposition]
    /\ operations' = [operations EXCEPT ![o].status = "committed"]

(* The operation is given up, and adopts nothing.                          *)
GiveUp(o) ==
    /\ operations[o].status = "active"
    /\ \E s \in {"blocked", "deadletter"} :
         operations' = [operations EXCEPT ![o].status = s]
    /\ UNCHANGED adopted

Next == \/ \E k \in Uploads : AdoptByUpload(k)
        \/ \E o \in Operations, k \in Uploads, d \in Dispositions : Request(o, k, d)
        \/ \E o \in Operations : AdoptByOperation(o) \/ GiveUp(o)

(* Every operation ends.                                                   *)
OperationsEnd == \A o \in Operations : operations[o].status = "active"
                                         ~> operations[o].status # "active"

Spec == Init /\ [][Next]_vars /\ OperationsEnd
=============================================================================
