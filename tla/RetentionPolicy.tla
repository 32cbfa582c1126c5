--------------------------- MODULE RetentionPolicy ---------------------------
(***************************************************************************)
(* The retention policy of portfolio documents, without any of the         *)
(* machinery that carries it out: no requests, approvals, queues, leases,  *)
(* locks or workers.  The object of a version is on hold until, at one     *)
(* instant, nobody who references it is active or under legal hold, every  *)
(* deadline has passed, and storage has retained it up to the last of      *)
(* them.  Retention is only ever extended, to the latest deadline of its   *)
(* references, ahead of time.                                              *)
(* PortfolioDisposition implements this specification.                     *)
(***************************************************************************)
EXTENDS Integers

CONSTANTS Portfolios, Versions,
          InitRefs,   \* who references which version at the start
          Retention   \* from cessation to the deadline

VARIABLES today,       \* the day
          ceasedOn,    \* when the activity of a portfolio ended
          legalHold,   \* the portfolios under legal hold
          refs,        \* the portfolios that reference a version
          hold,        \* the versions whose object cannot be deleted
          retainUntil  \* the day up to which storage retains an object

vars == <<today, ceasedOn, legalHold, refs, hold, retainUntil>>

NoDate == -1
Deadline(p) == IF ceasedOn[p] = NoDate THEN NoDate ELSE ceasedOn[p] + Retention

Init ==
    /\ today = 0
    /\ ceasedOn = [p \in Portfolios |-> NoDate]
    /\ legalHold = [p \in Portfolios |-> FALSE]
    /\ refs = InitRefs
    /\ hold = [v \in Versions |-> TRUE]
    /\ retainUntil = [v \in Versions |-> NoDate]

DayPasses ==
    /\ today' = today + 1
    /\ UNCHANGED <<ceasedOn, legalHold, refs, hold, retainUntil>>

(* The activity of a portfolio ends once, today or earlier.                *)
Cease(p) ==
    /\ ceasedOn[p] = NoDate
    /\ \E day \in 0 .. today : ceasedOn' = [ceasedOn EXCEPT ![p] = day]
    /\ UNCHANGED <<today, legalHold, refs, hold, retainUntil>>

Suspend(p) ==
    /\ \E want \in BOOLEAN : legalHold' = [legalHold EXCEPT ![p] = want]
    /\ UNCHANGED <<today, ceasedOn, refs, hold, retainUntil>>

(* An active portfolio that is not under legal hold takes up a version, in *)
(* addition to its others or in place of one of them.                      *)
Refer(p, v) ==
    /\ ceasedOn[p] = NoDate
    /\ ~legalHold[p]
    /\ p \notin refs[v]
    /\ \/ refs' = [refs EXCEPT ![v] = @ \cup {p}]
       \/ \E u \in Versions : /\ p \in refs[u]
                              /\ refs' = [refs EXCEPT ![u] = @ \ {p}, ![v] = @ \cup {p}]
    /\ UNCHANGED <<today, ceasedOn, legalHold, hold, retainUntil>>

(* The latest deadline of a version, still to come, is given to storage.   *)
Extension(v) ==
    \E p \in refs[v] :
        /\ \A q \in refs[v] : Deadline(q) =< Deadline(p)
        /\ today < Deadline(p)
        /\ retainUntil[v] < Deadline(p)
        /\ retainUntil' = [retainUntil EXCEPT ![v] = Deadline(p)]

Protect(v) ==
    /\ Extension(v) \/ UNCHANGED retainUntil
    /\ hold' = [hold EXCEPT ![v] = TRUE] \/ UNCHANGED hold
    /\ UNCHANGED <<today, ceasedOn, legalHold, refs>>

(* The object is given free: nobody objects now, and storage retained it   *)
(* for as long as anybody asked.                                           *)
GiveFree(v) ==
    /\ \A p \in refs[v] : /\ ~legalHold[p]
                          /\ ceasedOn[p] # NoDate
                          /\ Deadline(p) =< retainUntil[v]
    /\ retainUntil[v] # NoDate
    /\ retainUntil[v] =< today
    /\ hold' = [hold EXCEPT ![v] = FALSE]
    /\ UNCHANGED <<today, ceasedOn, legalHold, refs, retainUntil>>

Next ==
    \/ DayPasses
    \/ \E p \in Portfolios : Cease(p) \/ Suspend(p) \/ \E v \in Versions : Refer(p, v)
    \/ \E v \in Versions : Protect(v) \/ GiveFree(v)

Spec == Init /\ [][Next]_vars
=============================================================================
