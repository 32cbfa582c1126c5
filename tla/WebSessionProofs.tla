-------------------------- MODULE WebSessionProofs --------------------------
(***************************************************************************)
(* Theorems about WebSession, for any number of calls, revalidations,      *)
(* tokens and delegations: the token, the session and the permissions on   *)
(* display belong together whatever flows interleave.                      *)
(***************************************************************************)
EXTENDS WebSession, TLAPS

-----------------------------------------------------------------------------
(* The inductive invariant: what each flow carries, what is on display, and *)
(* what the newest revalidation may still bring.                            *)

\* A flow validates a real token, loads grants for a real session, and carries
\* an evaluation of the past.
RowOK(f, row, rev) ==
    /\ row \in FlowRow /\ row.pc \in Places(f)
    /\ row.pc = "me" => row.tok \in Tokens
    /\ row.pc \in {"grants", "evaluated"} => row.of \in Session
    /\ row.revision =< rev

FlowInv ==
    /\ revision \in 0 .. MaxRevision
    /\ flow \in [Flows -> FlowRow]
    /\ \A f \in Flows : RowOK(f, flow[f], revision)

PageInv ==
    /\ issued \in 0 .. MaxTokens /\ page \in {"app", "callback"}
    /\ pkce \in BOOLEAN /\ ready \in BOOLEAN /\ refreshing \in BOOLEAN

DisplayInv ==
    /\ tokensRef \in Tokens \cup {NoToken} /\ session \in Session \cup {NoSession}
    /\ grants \in Snapshot \cup {NoGrants} /\ authorizationReady \in BOOLEAN
    /\ newest \in Refreshers \cup {NoNewest}
    /\ SessionHasItsToken /\ GrantsOfDisplayedSession
    /\ grants.revision =< revision

\* The newest revalidation began after whatever revalidation is on display.
NewestIsAhead ==
    /\ newest # NoNewest /\ flow[newest].pc = "evaluated" /\ grants.source = "refresh"
    => flow[newest].revision >= grants.revision

Inv == FlowInv /\ PageInv /\ DisplayInv /\ NewestIsAhead

LEMMA TypesFollow == Inv => WebSessionTypeOK
BY DEF Inv, FlowInv, PageInv, DisplayInv, RowOK, WebSessionTypeOK

-----------------------------------------------------------------------------
(* Rows of flows.                                                          *)

LEMMA PlacesOf ==
    /\ Places("boot") = {"idle", "refreshing", "me", "grants", "evaluated"}
    /\ Places("complete") = {"idle", "exchanging", "me", "grants", "evaluated", "failed"}
    /\ Places("logout") = {"idle", "closing", "closed"}
    /\ \A c \in Calls : Places(c) = {"idle", "refreshing", "me", "grants", "evaluated", "sent", "resent"}
    /\ \A r \in Refreshers : Places(r) = {"idle", "grants", "evaluated"}
BY WebSessionAssumption DEF Places

LEMMA FlowKinds ==
    /\ {"boot", "complete", "logout"} \subseteq Flows
    /\ Calls \subseteq Flows /\ Refreshers \subseteq Flows /\ Appliers \subseteq Flows
    /\ Refreshers \cap Appliers = {} /\ NoNewest \notin Flows
    /\ \A f \in Flows : f \in {"boot", "complete", "logout"} \/ f \in Calls \/ f \in Refreshers
    /\ \A f \in Appliers : f \in {"boot", "complete"} \/ f \in Calls
BY WebSessionAssumption DEF Flows, Appliers, NoNewest

LEMMA SomePlace == \A f \in Flows : Places(f) \subseteq UNION {Places(g) : g \in Flows}
OBVIOUS

LEMMA IdlePlace == \A f \in Flows : "idle" \in Places(f)
BY PlacesOf, FlowKinds

LEMMA RowAt ==
    ASSUME NEW f \in Flows, NEW p \in Places(f), p \notin {"me", "grants", "evaluated"},
           NEW rev \in Nat
    PROVE  /\ RowOK(f, At(p), rev) /\ At(p).pc = p /\ At(p).retry = FALSE
           /\ RowOK(f, [At(p) EXCEPT !.retry = TRUE], rev)
           /\ [At(p) EXCEPT !.retry = TRUE].pc = p
<1>1. p \in UNION {Places(g) : g \in Flows}
  OBVIOUS
<1>2. NoSession \in Session \cup {NoSession} /\ NoToken \in Tokens \cup {NoToken}
      /\ 0 \in 0 .. MaxRevision /\ 0 =< rev
  BY WebSessionAssumption
<1> QED BY <1>1, <1>2 DEF RowOK, At, Idle, FlowRow

LEMMA RowIdle ==
    ASSUME NEW f \in Flows, NEW rev \in Nat
    PROVE  RowOK(f, Idle, rev) /\ Idle.pc = "idle"
<1>1. "idle" \in Places(f) /\ "idle" \in UNION {Places(g) : g \in Flows}
  BY IdlePlace
<1>2. NoSession \in Session \cup {NoSession} /\ NoToken \in Tokens \cup {NoToken}
      /\ 0 \in 0 .. MaxRevision /\ 0 =< rev
  BY WebSessionAssumption
<1> QED BY <1>1, <1>2 DEF RowOK, Idle, FlowRow

\* Loading grants for a session.
LEMMA RowLoading ==
    ASSUME NEW f \in Flows, "grants" \in Places(f), NEW s \in Session, NEW again \in BOOLEAN,
           NEW rev \in Nat
    PROVE  LET row == [At("grants") EXCEPT !.of = s, !.retry = again] IN
           RowOK(f, row, rev) /\ row.pc = "grants"
<1> DEFINE base == At("grants")
           row  == [base EXCEPT !.of = s, !.retry = again]
<1>1. "grants" \in UNION {Places(g) : g \in Flows}
  OBVIOUS
<1>2. NoSession \in Session \cup {NoSession} /\ NoToken \in Tokens \cup {NoToken}
      /\ 0 \in 0 .. MaxRevision /\ 0 =< rev
  BY WebSessionAssumption
<1>3. base \in FlowRow /\ base.pc = "grants" /\ base.revision = 0
  BY <1>1, <1>2 DEF At, Idle, FlowRow
<1> HIDE DEF base
<1>4. /\ row \in FlowRow /\ row.pc = "grants" /\ row.revision = 0
      /\ row.of = s
  BY <1>3 DEF FlowRow
<1>5. RowOK(f, row, rev)
  BY <1>2, <1>4 DEF RowOK
<1> QED BY <1>4, <1>5 DEF base

LEMMA SessionsAreReal == NoSession \notin Session /\ NoToken \notin Tokens
BY DEF NoSession, Session, NoToken, Tokens

\* One flow moves on.
LEMMA OneFlow ==
    ASSUME FlowInv, NEW f \in Flows, NEW row, RowOK(f, row, revision),
           flow' = [flow EXCEPT ![f] = row], revision' = revision
    PROVE  /\ FlowInv' /\ flow'[f] = row
           /\ \A g \in Flows : g # f => flow'[g] = flow[g]
<1>1. /\ flow' \in [Flows -> FlowRow] /\ flow'[f] = row
      /\ \A g \in Flows : g # f => flow'[g] = flow[g]
  BY DEF FlowInv, RowOK
<1>2. \A g \in Flows : RowOK(g, flow'[g], revision')
  BY <1>1 DEF FlowInv
<1> QED BY <1>1, <1>2 DEF FlowInv

\* All flows of a new page.
LEMMA MountedRows ==
    ASSUME NEW p \in {"app", "callback"}, NEW rev \in Nat
    PROVE  \A f \in Flows : RowOK(f, Mounted(p)[f], rev)
<1> SUFFICES ASSUME NEW f \in Flows PROVE RowOK(f, Mounted(p)[f], rev)
  OBVIOUS
<1>1. CASE f = "boot"
  BY <1>1, RowAt, PlacesOf DEF Mounted
<1>2. CASE f = "complete" /\ p = "callback"
  BY <1>2, RowAt, PlacesOf DEF Mounted
<1>3. CASE f # "boot" /\ ~(f = "complete" /\ p = "callback")
  BY <1>3, RowIdle DEF Mounted
<1> QED BY <1>1, <1>2, <1>3

-----------------------------------------------------------------------------
(* What is on display.                                                      *)

DisplayVars == <<tokensRef, session, grants, authorizationReady>>

LEMMA DisplayKept ==
    ASSUME DisplayInv, UNCHANGED DisplayVars, newest' \in Refreshers \cup {NoNewest},
           revision \in Nat, revision' \in Nat, revision' >= revision
    PROVE  DisplayInv'
<1>1. grants.revision \in Nat
  BY WebSessionAssumption DEF DisplayInv, Snapshot, NoGrants
<1>2. SessionHasItsToken' /\ GrantsOfDisplayedSession'
  BY DEF DisplayInv, DisplayVars, SessionHasItsToken, GrantsOfDisplayedSession
<1> QED BY <1>1, <1>2 DEF DisplayInv, DisplayVars

LEMMA EmptySnapshot ==
    NoGrants.revision = 0 /\ NoGrants.of = NoSession /\ NoGrants.source = "none"
BY DEF NoGrants

\* Nothing is on display, and whoever is signed in stays, or goes.
LEMMA Cleared ==
    ASSUME DisplayInv, ClearAuthorization, revision' \in Nat,
           \/ UNCHANGED <<tokensRef, session>>
           \/ session' = NoSession /\ tokensRef' \in Tokens \cup {NoToken}
    PROVE  DisplayInv' /\ NewestIsAhead'
<1>1. grants' = NoGrants /\ authorizationReady' = TRUE /\ newest' = NoNewest
  BY DEF ClearAuthorization
<1>2. SessionHasItsToken' /\ GrantsOfDisplayedSession'
  BY <1>1, EmptySnapshot DEF DisplayInv, SessionHasItsToken, GrantsOfDisplayedSession
<1> QED BY <1>1, <1>2, EmptySnapshot DEF DisplayInv, NewestIsAhead

LEMMA SignedOut ==
    ASSUME DisplayInv, SignOut, revision' \in Nat
    PROVE  DisplayInv' /\ NewestIsAhead'
BY Cleared DEF SignOut

\* Flows move, but the newest revalidation is not evaluated in this step.
LEMMA NewestKept ==
    ASSUME NewestIsAhead, FlowInv, UNCHANGED grants, newest' \in {newest, NoNewest},
           newest \in Refreshers \cup {NoNewest},
           \A r \in Refreshers : flow'[r] = flow[r] \/ flow'[r].pc # "evaluated"
    PROVE  NewestIsAhead'
BY DEF NewestIsAhead


-----------------------------------------------------------------------------
(* Pages.                                                                   *)

LEMMA InitInv == Init => Inv
<1> SUFFICES ASSUME Init PROVE Inv
  OBVIOUS
<1>1. revision = 0 /\ revision \in 0 .. MaxRevision
  BY WebSessionAssumption DEF Init
<1>2. flow = Mounted("app") /\ \A f \in Flows : RowOK(f, Mounted("app")[f], revision)
  BY <1>1, MountedRows DEF Init
<1>3. flow \in [Flows -> FlowRow]
  BY <1>2 DEF RowOK, Mounted
<1>4. FlowInv
  BY <1>1, <1>2, <1>3 DEF FlowInv
<1>5. PageInv
  <2>1. issued \in 0 .. MaxTokens
    BY WebSessionAssumption DEF Init
  <2> QED BY <2>1 DEF Init, PageInv
<1>6. /\ tokensRef = NoToken /\ session = NoSession /\ grants = NoGrants
      /\ newest = NoNewest /\ authorizationReady = FALSE
  BY DEF Init
<1>7. DisplayInv
  <2>1. grants.revision =< revision
    BY <1>1, <1>6, EmptySnapshot
  <2>2. SessionHasItsToken /\ GrantsOfDisplayedSession
    BY <1>6 DEF SessionHasItsToken, GrantsOfDisplayedSession
  <2> QED BY <1>6, <2>1, <2>2 DEF DisplayInv
<1>8. NewestIsAhead
  BY <1>6 DEF NewestIsAhead
<1> QED BY <1>4, <1>5, <1>7, <1>8 DEF Inv

LEMMA LoadStep ==
    ASSUME Inv, NEW p \in {"app", "callback"}, Load(p), pkce' \in BOOLEAN, UNCHANGED revision
    PROVE  Inv'
<1>1. revision \in 0 .. MaxRevision /\ revision \in Nat
  BY WebSessionAssumption DEF Inv, FlowInv
<1>2. flow' = Mounted(p) /\ \A f \in Flows : RowOK(f, Mounted(p)[f], revision)
  BY <1>1, MountedRows DEF Load
<1>3. flow' \in [Flows -> FlowRow]
  BY <1>2 DEF RowOK, Mounted
<1>4. FlowInv'
  BY <1>1, <1>2, <1>3 DEF FlowInv
<1>5. PageInv'
  <2>1. issued' \in 0 .. MaxTokens
    BY WebSessionAssumption DEF Load
  <2> QED BY <2>1 DEF Load, PageInv
<1>6. /\ tokensRef' = NoToken /\ session' = NoSession /\ grants' = NoGrants
      /\ newest' = NoNewest /\ authorizationReady' = FALSE
  BY DEF Load
<1>7. DisplayInv'
  <2>1. grants'.revision =< revision'
    BY <1>1, <1>6, EmptySnapshot
  <2>2. SessionHasItsToken' /\ GrantsOfDisplayedSession'
    BY <1>6 DEF SessionHasItsToken, GrantsOfDisplayedSession
  <2> QED BY <1>6, <2>1, <2>2 DEF DisplayInv
<1>8. NewestIsAhead'
  BY <1>6 DEF NewestIsAhead
<1> QED BY <1>4, <1>5, <1>7, <1>8 DEF Inv

LEMMA PageSteps ==
    ASSUME Inv, PageLoads
    PROVE  Inv'
BY LoadStep DEF PageLoads, Login, Reload, LogoutLeaves, Inv, PageInv

-----------------------------------------------------------------------------
(* Steps of one flow that leave the display alone.                          *)

LEMMA QuietFlow ==
    ASSUME Inv, NEW f \in Flows, NEW row, RowOK(f, row, revision), row.pc # "evaluated",
           flow' = [flow EXCEPT ![f] = row], UNCHANGED <<revision, stateVars>>, PageInv'
    PROVE  Inv'
<1>1. FlowInv' /\ flow'[f] = row /\ \A g \in Flows : g # f => flow'[g] = flow[g]
  BY OneFlow DEF Inv
<1>2. DisplayInv'
  BY DisplayKept DEF Inv, FlowInv, DisplayInv, DisplayVars, stateVars
<1>3. \A r \in Refreshers : flow'[r] = flow[r] \/ flow'[r].pc # "evaluated"
  BY <1>1, FlowKinds
<1>4. NewestIsAhead'
  BY <1>3, NewestKept DEF Inv, DisplayInv, stateVars
<1> QED BY <1>1, <1>2, <1>4 DEF Inv

LEMMA RowValidating ==
    ASSUME NEW f \in Flows, "me" \in Places(f), NEW t \in Tokens, NEW rev \in Nat
    PROVE  LET row == [At("me") EXCEPT !.tok = t] IN RowOK(f, row, rev) /\ row.pc = "me"
<1> DEFINE base == At("me")
           row  == [base EXCEPT !.tok = t]
<1>1. "me" \in UNION {Places(g) : g \in Flows}
  OBVIOUS
<1>2. NoSession \in Session \cup {NoSession} /\ NoToken \in Tokens \cup {NoToken}
      /\ 0 \in 0 .. MaxRevision /\ 0 =< rev
  BY WebSessionAssumption
<1>3. base \in FlowRow /\ base.pc = "me" /\ base.revision = 0
  BY <1>1, <1>2 DEF At, Idle, FlowRow
<1> HIDE DEF base
<1>4. /\ row \in FlowRow /\ row.pc = "me" /\ row.revision = 0 /\ row.tok = t
  BY <1>3 DEF FlowRow
<1>5. RowOK(f, row, rev)
  BY <1>2, <1>4 DEF RowOK
<1> QED BY <1>4, <1>5 DEF base

LEMMA CallSteps ==
    ASSUME Inv, NEW c \in Calls,
           CallSends(c) \/ CallRefreshesFirst(c) \/ CallEnds(c) \/ CallUnauthorized(c)
    PROVE  Inv'
<1>1. c \in Flows /\ revision \in Nat /\ {"idle", "sent", "refreshing"} \subseteq Places(c)
  BY FlowKinds, PlacesOf, WebSessionAssumption DEF Inv, FlowInv
<1>2. UNCHANGED <<revision, stateVars>> /\ PageInv'
  BY DEF CallSends, CallRefreshesFirst, CallEnds, CallUnauthorized, Inv, PageInv, pageVars
<1>3. CASE CallSends(c)
  BY <1>1, <1>2, <1>3, RowAt, QuietFlow DEF CallSends
<1>4. CASE CallRefreshesFirst(c)
  BY <1>1, <1>2, <1>4, RowAt, QuietFlow DEF CallRefreshesFirst
<1>5. CASE CallEnds(c)
  BY <1>1, <1>2, <1>5, RowIdle, QuietFlow DEF CallEnds
<1>6. CASE CallUnauthorized(c)
  BY <1>1, <1>2, <1>6, RowAt, QuietFlow DEF CallUnauthorized
<1> QED BY <1>3, <1>4, <1>5, <1>6

LEMMA ExchangeSteps ==
    ASSUME Inv, ExchangeSucceeds \/ ExchangeRefused \/ ExchangeUnreachable \/ BackHome
    PROVE  Inv'
<1>1. /\ "complete" \in Flows /\ revision \in Nat
      /\ {"idle", "failed", "me"} \subseteq Places("complete")
  BY FlowKinds, PlacesOf, WebSessionAssumption DEF Inv, FlowInv
<1>2. UNCHANGED <<revision, stateVars>> /\ PageInv'
  <2>1. CASE ExchangeSucceeds
    <3>1. issued' \in 0 .. MaxTokens
      BY <2>1, WebSessionAssumption DEF ExchangeSucceeds, Inv, PageInv
    <3> QED BY <2>1, <3>1 DEF ExchangeSucceeds, Inv, PageInv
  <2>2. CASE ExchangeRefused
    BY <2>2 DEF ExchangeRefused, Inv, PageInv
  <2>3. CASE ExchangeUnreachable
    BY <2>3 DEF ExchangeUnreachable, Inv, PageInv, pageVars
  <2>4. CASE BackHome
    BY <2>4 DEF BackHome, Inv, PageInv
  <2> QED BY <2>1, <2>2, <2>3, <2>4
<1>3. CASE ExchangeSucceeds
  <2>1. issued + 1 \in Tokens
    BY <1>3, WebSessionAssumption DEF ExchangeSucceeds, Inv, PageInv, Tokens
  <2> QED BY <1>1, <1>2, <1>3, <2>1, RowValidating, QuietFlow DEF ExchangeSucceeds
<1>4. CASE ExchangeRefused \/ ExchangeUnreachable
  BY <1>1, <1>2, <1>4, RowAt, QuietFlow DEF ExchangeRefused, ExchangeUnreachable
<1>5. CASE BackHome
  BY <1>1, <1>2, <1>5, RowIdle, QuietFlow DEF BackHome
<1> QED BY <1>3, <1>4, <1>5

LEMMA LogoutSteps ==
    ASSUME Inv, LogoutStart \/ LogoutClears \/ LogoutStays
    PROVE  Inv'
<1>1. /\ "logout" \in Flows /\ "logout" \notin Refreshers /\ revision \in Nat
      /\ {"idle", "closing", "closed"} \subseteq Places("logout")
  BY FlowKinds, PlacesOf, WebSessionAssumption DEF Inv, FlowInv
<1>2. UNCHANGED revision /\ PageInv'
  BY DEF LogoutStart, LogoutClears, LogoutStays, Inv, PageInv, pageVars
<1>3. CASE LogoutStart
  BY <1>1, <1>2, <1>3, RowAt, QuietFlow DEF LogoutStart
<1>4. CASE LogoutStays
  BY <1>1, <1>2, <1>4, RowIdle, QuietFlow DEF LogoutStays
<1>5. CASE LogoutClears
  <2>1. RowOK("logout", At("closed"), revision)
    BY <1>1, RowAt
  <2>2. FlowInv'
    BY <1>1, <1>2, <1>5, <2>1, OneFlow DEF LogoutClears, Inv
  <2>3. DisplayInv' /\ NewestIsAhead'
    BY <1>1, <1>2, <1>5, SignedOut DEF LogoutClears, Inv
  <2> QED BY <1>2, <2>2, <2>3 DEF Inv
<1> QED BY <1>3, <1>4, <1>5


-----------------------------------------------------------------------------
(* The refresh of the token.                                                *)

\* A revision of the past.
LEMMA RevisionIsNat == ASSUME FlowInv PROVE revision \in Nat /\ \A f \in Flows : flow[f].revision \in Nat
BY WebSessionAssumption DEF FlowInv, FlowRow

LEMMA WaitingPlaces ==
    ASSUME FlowInv, NEW f \in Waiting
    PROVE  f \in Flows /\ f \notin Refreshers /\ {"idle", "me"} \subseteq Places(f)
<1>1. f \in Flows /\ "refreshing" \in Places(f)
  BY DEF FlowInv, RowOK, Waiting
<1> QED BY <1>1, PlacesOf, FlowKinds

LEMMA RefreshGrantedStep ==
    ASSUME Inv, RefreshGranted
    PROVE  Inv'
<1>1. issued + 1 \in Tokens /\ issued' \in 0 .. MaxTokens
  <2>1. issued \in 0 .. MaxTokens
    BY DEF Inv, PageInv
  <2>2. issued < MaxTokens /\ issued' = issued + 1
    BY DEF RefreshGranted
  <2> QED BY <2>1, <2>2, WebSessionAssumption DEF Tokens
<1>2. UNCHANGED <<revision, stateVars>> /\ PageInv'
  BY <1>1 DEF RefreshGranted, Inv, PageInv
<1>3. \A f \in Flows : flow'[f] = IF f \in Waiting
                                  THEN [flow[f] EXCEPT !.pc = "me", !.tok = issued + 1] ELSE flow[f]
  BY DEF RefreshGranted
<1>4. ASSUME NEW f \in Waiting
      PROVE  LET row == [flow[f] EXCEPT !.pc = "me", !.tok = issued + 1] IN RowOK(f, row, revision)
  <2>1. f \in Flows /\ "me" \in Places(f)
    BY <1>4, WaitingPlaces DEF Inv
  <2>2. "me" \in UNION {Places(g) : g \in Flows}
    BY <2>1
  <2>3. flow[f] \in FlowRow /\ flow[f].revision =< revision
    BY <2>1 DEF Inv, FlowInv, RowOK
  <2> DEFINE row == [flow[f] EXCEPT !.pc = "me", !.tok = issued + 1]
  <2>4. row \in FlowRow /\ row.pc = "me" /\ row.tok = issued + 1 /\ row.revision = flow[f].revision
    BY <1>1, <2>2, <2>3 DEF FlowRow
  <2> QED BY <1>1, <2>1, <2>3, <2>4 DEF RowOK
<1>5. \A f \in Flows : RowOK(f, flow'[f], revision)
  BY <1>3, <1>4 DEF Inv, FlowInv
<1>6. FlowInv'
  <2>1. flow' \in [Flows -> FlowRow]
    BY <1>5 DEF RefreshGranted, RowOK
  <2> QED BY <1>2, <1>5, <2>1 DEF FlowInv, Inv
<1>7. DisplayInv'
  BY <1>2, RevisionIsNat, DisplayKept DEF Inv, DisplayInv, DisplayVars, stateVars
<1>8. \A r \in Refreshers : flow'[r] = flow[r]
  BY <1>3, WaitingPlaces, FlowKinds DEF Inv
<1>9. NewestIsAhead'
  BY <1>2, <1>8, NewestKept DEF Inv, DisplayInv, stateVars
<1> QED BY <1>2, <1>6, <1>7, <1>9 DEF Inv

LEMMA RefreshRefusedStep ==
    ASSUME Inv, RefreshRefused
    PROVE  Inv'
<1>1. revision' = revision /\ revision \in Nat
  BY RevisionIsNat DEF RefreshRefused, Inv
<1>2. PageInv'
  BY DEF RefreshRefused, BootEnds, Inv, PageInv
<1>3. \A f \in Flows : flow'[f] = IF f \in Waiting THEN Idle ELSE flow[f]
  BY DEF RefreshRefused
<1>4. \A f \in Flows : RowOK(f, flow'[f], revision)
  BY <1>1, <1>3, RowIdle DEF Inv, FlowInv
<1>5. FlowInv'
  BY <1>1, <1>4 DEF RefreshRefused, FlowInv, RowOK, Inv
<1>6. DisplayInv' /\ NewestIsAhead'
  BY <1>1, Cleared, SignedOut DEF RefreshRefused, Inv
<1> QED BY <1>2, <1>5, <1>6 DEF Inv

-----------------------------------------------------------------------------
(* Sessions and their grants.                                               *)

LEMMA MeValidStep ==
    ASSUME Inv, NEW f \in Appliers, MeValid(f)
    PROVE  Inv'
<1>1. f \in Flows /\ f \notin Refreshers /\ "grants" \in Places(f)
  BY FlowKinds, PlacesOf
<1>2. flow[f].tok \in Tokens /\ flow[f] \in FlowRow /\ flow[f].retry \in BOOLEAN
  BY <1>1 DEF MeValid, Inv, FlowInv, RowOK, FlowRow
<1>3. session' = [tok |-> flow[f].tok, by |-> f] /\ session' \in Session /\ session' # NoSession
      /\ session'.tok = flow[f].tok /\ tokensRef' = flow[f].tok
  BY <1>2, SessionsAreReal DEF MeValid, Session
<1>4. /\ UNCHANGED <<revision, pageVars, grants, newest, ready, refreshing>>
      /\ authorizationReady' = FALSE
  BY DEF MeValid
<1> DEFINE row == [At("grants") EXCEPT !.of = session', !.retry = flow[f].retry]
<1>5. revision \in Nat
  BY RevisionIsNat DEF Inv
<1>6. RowOK(f, row, revision) /\ row.pc = "grants" /\ flow' = [flow EXCEPT ![f] = row]
  BY <1>1, <1>2, <1>3, <1>5, RowLoading DEF MeValid
<1> HIDE DEF row
<1>7. /\ FlowInv' /\ flow'[f] = row
      /\ \A g \in Flows : g # f => flow'[g] = flow[g]
  BY <1>1, <1>4, <1>6, OneFlow DEF Inv
<1>8. PageInv'
  BY <1>4 DEF Inv, PageInv, pageVars
<1>9. grants'.revision =< revision'
  BY <1>4 DEF Inv, DisplayInv
<1>10. SessionHasItsToken' /\ GrantsOfDisplayedSession'
  BY <1>3, <1>4 DEF SessionHasItsToken, GrantsOfDisplayedSession
<1>11. DisplayInv'
  BY <1>2, <1>3, <1>4, <1>9, <1>10 DEF Inv, DisplayInv
<1>12. NewestIsAhead'
  BY <1>1, <1>4, <1>7, FlowKinds, NewestKept DEF Inv, DisplayInv
<1> QED BY <1>7, <1>8, <1>11, <1>12 DEF Inv

LEMMA MeInvalidStep ==
    ASSUME Inv, NEW f \in Appliers, MeInvalid(f)
    PROVE  Inv'
<1>1. f \in Flows /\ f \notin Refreshers /\ (f = "complete" => "failed" \in Places(f))
  BY FlowKinds, PlacesOf
<1>2. revision' = revision /\ revision \in Nat
  BY RevisionIsNat DEF MeInvalid, Inv
<1> DEFINE row == IF f = "complete" THEN At("failed") ELSE Idle
<1>3. RowOK(f, row, revision) /\ row.pc # "evaluated"
  BY <1>1, <1>2, RowAt, RowIdle
<1>4. flow' = [flow EXCEPT ![f] = row]
  BY DEF MeInvalid
<1> HIDE DEF row
<1>5. FlowInv' /\ \A g \in Flows : g # f => flow'[g] = flow[g]
  BY <1>1, <1>2, <1>3, <1>4, OneFlow DEF Inv
<1>6. PageInv'
  BY DEF MeInvalid, BootEnds, Inv, PageInv, pageVars
<1>7. DisplayInv' /\ NewestIsAhead'
  <2>1. CASE f = "boot"
    BY <1>2, <2>1, Cleared DEF MeInvalid, Inv, DisplayInv
  <2>2. CASE f = "complete"
    <3>1. UNCHANGED stateVars
      BY <2>2 DEF MeInvalid
    <3>2. DisplayInv'
      BY <1>2, <3>1, DisplayKept DEF Inv, DisplayInv, DisplayVars, stateVars
    <3> QED BY <1>1, <1>5, <3>1, <3>2, FlowKinds, NewestKept DEF Inv, DisplayInv, stateVars
  <2>3. CASE f \notin {"boot", "complete"}
    BY <1>2, <2>3, SignedOut DEF MeInvalid, Inv
  <2> QED BY <2>1, <2>2, <2>3
<1> QED BY <1>5, <1>6, <1>7 DEF Inv

LEMMA GrantsEvaluatedStep ==
    ASSUME Inv, NEW f \in Flows, GrantsEvaluated(f)
    PROVE  Inv'
<1>1. /\ flow[f] \in FlowRow /\ flow[f].pc = "grants" /\ "grants" \in Places(f)
      /\ flow[f].of \in Session
  BY DEF GrantsEvaluated, Inv, FlowInv, RowOK
<1>2. "evaluated" \in Places(f) /\ "evaluated" \in UNION {Places(g) : g \in Flows}
  BY <1>1, PlacesOf, FlowKinds
<1>3. UNCHANGED <<revision, pageVars, stateVars, ready, refreshing>>
  BY DEF GrantsEvaluated
<1>4. revision \in 0 .. MaxRevision /\ revision \in Nat
  BY RevisionIsNat DEF Inv, FlowInv
<1> DEFINE row == [flow[f] EXCEPT !.pc = "evaluated", !.revision = revision]
<1>5. /\ row \in FlowRow /\ row.pc = "evaluated" /\ row.of = flow[f].of
      /\ row.revision = revision
  BY <1>1, <1>2, <1>4 DEF FlowRow
<1>6. flow' = [flow EXCEPT ![f] = row]
  BY DEF GrantsEvaluated
<1> HIDE DEF row
<1>7. RowOK(f, row, revision)
  BY <1>1, <1>2, <1>4, <1>5 DEF RowOK
<1>8. /\ FlowInv' /\ flow'[f] = row
      /\ \A g \in Flows : g # f => flow'[g] = flow[g]
  BY <1>3, <1>6, <1>7, OneFlow DEF Inv
<1>9. PageInv'
  BY <1>3 DEF Inv, PageInv, pageVars
<1>10. DisplayInv'
  BY <1>3, <1>4, DisplayKept DEF Inv, DisplayInv, DisplayVars, stateVars
<1>11. grants.revision =< revision /\ UNCHANGED <<grants, newest>>
  BY <1>3 DEF Inv, DisplayInv, stateVars
<1>12. NewestIsAhead'
  <2>1. CASE newest = f
    BY <1>5, <1>8, <1>11, <2>1 DEF NewestIsAhead
  <2>2. CASE newest # f
    BY <1>8, <1>11, <2>2, FlowKinds DEF Inv, DisplayInv, NewestIsAhead
  <2> QED BY <2>1, <2>2
<1> QED BY <1>8, <1>9, <1>10, <1>12 DEF Inv


\* Grants go on display, or what was there goes.
LEMMA Published ==
    ASSUME Inv, NEW f \in Flows, flow[f].pc \in {"grants", "evaluated"},
           NEW snapshot \in Snapshot \cup {NoGrants}, Publish(f, snapshot),
           \/ snapshot = NoGrants
           \/ /\ snapshot.of = flow[f].of /\ snapshot.revision =< revision
              /\ snapshot.source = "refresh" => f \in Refreshers
    PROVE  Inv'
<1>1. /\ revision' = revision /\ revision \in Nat /\ flow[f] \in FlowRow
      /\ flow[f].of \in Session /\ flow[f].of # NoSession
  BY RevisionIsNat, SessionsAreReal DEF Publish, Inv, FlowInv, RowOK
<1>2. AfterGrants(f) = IF f \in Calls THEN At(IF flow[f].retry THEN "resent" ELSE "sent") ELSE Idle
  BY DEF AfterGrants
<1>3. RowOK(f, AfterGrants(f), revision) /\ AfterGrants(f).pc # "evaluated"
  <2>1. CASE f \in Calls
    <3>1. {"sent", "resent"} \subseteq Places(f)
      BY <2>1, PlacesOf
    <3>2. RowOK(f, At("sent"), revision) /\ At("sent").pc = "sent"
      BY <1>1, <3>1, RowAt
    <3>3. RowOK(f, At("resent"), revision) /\ At("resent").pc = "resent"
      BY <1>1, <3>1, RowAt
    <3> QED BY <1>2, <2>1, <3>2, <3>3
  <2>2. CASE f \notin Calls
    BY <1>1, <1>2, <2>2, RowIdle
  <2> QED BY <2>1, <2>2
<1>4. /\ FlowInv' /\ flow'[f] = AfterGrants(f)
      /\ \A g \in Flows : g # f => flow'[g] = flow[g]
  BY <1>1, <1>3, OneFlow DEF Publish, Inv
<1>5. PageInv'
  BY DEF Publish, BootEnds, Inv, PageInv
<1>6. UNCHANGED <<tokensRef, session, newest>>
  BY DEF Publish
<1>7. CASE Current(f)
  <2>1. grants' = snapshot /\ authorizationReady' = TRUE
    BY <1>7 DEF Publish, Show
  <2>2. session = flow[f].of
    BY <1>7 DEF Current
  <2>3. grants'.revision =< revision'
    BY <1>1, <2>1, EmptySnapshot
  <2>4. SessionHasItsToken' /\ GrantsOfDisplayedSession'
    BY <1>1, <1>6, <2>1, <2>2, EmptySnapshot
       DEF Inv, DisplayInv, SessionHasItsToken, GrantsOfDisplayedSession
  <2>5. DisplayInv'
    BY <1>6, <2>1, <2>3, <2>4 DEF Inv, DisplayInv
  <2>6. NewestIsAhead'
    <3>1. CASE grants'.source = "refresh"
      <4>1. newest' = f /\ flow'[f].pc # "evaluated"
        BY <1>3, <1>4, <1>6, <1>7, <2>1, <3>1, EmptySnapshot DEF Current
      <4> QED BY <4>1 DEF NewestIsAhead
    <3>2. CASE grants'.source # "refresh"
      BY <3>2 DEF NewestIsAhead
    <3> QED BY <3>1, <3>2
  <2> QED BY <1>4, <1>5, <2>5, <2>6 DEF Inv
<1>8. CASE ~Current(f)
  <2>1. UNCHANGED <<grants, authorizationReady>>
    BY <1>8 DEF Publish
  <2>2. DisplayInv'
    BY <1>1, <1>6, <2>1, DisplayKept DEF Inv, DisplayInv, DisplayVars
  <2>3. \A r \in Refreshers : flow'[r] = flow[r] \/ flow'[r].pc # "evaluated"
    BY <1>3, <1>4, FlowKinds
  <2>4. NewestIsAhead'
    BY <1>6, <2>1, <2>3, NewestKept DEF Inv, DisplayInv
  <2> QED BY <1>4, <1>5, <2>2, <2>4 DEF Inv
<1> QED BY <1>7, <1>8

LEMMA GrantsSteps ==
    ASSUME Inv, NEW f \in Flows, GrantsArrive(f) \/ GrantsFail(f)
    PROVE  Inv'
<1>1. CASE GrantsFail(f)
  BY <1>1, Published DEF GrantsFail
<1>2. CASE GrantsArrive(f)
  <2> DEFINE snapshot == [of |-> flow[f].of, revision |-> flow[f].revision,
                          source |-> IF f \in Refreshers THEN "refresh" ELSE "apply"]
  <2>1. flow[f].of \in Session /\ flow[f].revision \in 0 .. MaxRevision
        /\ flow[f].revision =< revision
    BY <1>2 DEF GrantsArrive, Inv, FlowInv, RowOK, FlowRow
  <2>2. snapshot \in Snapshot
    BY <2>1 DEF Snapshot
  <2>3. /\ snapshot.of = flow[f].of /\ snapshot.revision =< revision
        /\ snapshot.source = "refresh" => f \in Refreshers
    BY <2>1
  <2>4. flow[f].pc \in {"grants", "evaluated"} /\ Publish(f, snapshot)
    BY <1>2 DEF GrantsArrive
  <2> HIDE DEF snapshot
  <2> QED BY <2>2, <2>3, <2>4, Published
<1> QED BY <1>1, <1>2

-----------------------------------------------------------------------------
(* Revalidation.                                                            *)

LEMMA Revalidated ==
    ASSUME Inv, NEW r \in Refreshers, NEW fl, Revalidate(r, fl),
           fl \in [Flows -> FlowRow], \A f \in Flows : RowOK(f, fl[f], revision),
           UNCHANGED <<revision, pageVars, tokensRef, session, ready, refreshing>>
    PROVE  Inv'
<1>1. revision \in Nat /\ r \in Flows /\ "grants" \in Places(r)
  BY RevisionIsNat, FlowKinds, PlacesOf DEF Inv
<1>2. PageInv'
  BY DEF Inv, PageInv, pageVars
<1>3. CASE tokensRef = NoToken \/ session = NoSession
  <2>1. ClearAuthorization /\ flow' = fl
    BY <1>3 DEF Revalidate
  <2>2. FlowInv'
    BY <2>1 DEF Inv, FlowInv
  <2>3. DisplayInv' /\ NewestIsAhead'
    BY <1>1, <2>1, Cleared DEF Inv
  <2> QED BY <1>2, <2>2, <2>3 DEF Inv
<1>4. CASE ~(tokensRef = NoToken \/ session = NoSession)
  <2> DEFINE base == At("grants")
             row  == [base EXCEPT !.of = session]
  <2>1. newest' = r /\ flow' = [fl EXCEPT ![r] = row] /\ UNCHANGED <<grants, authorizationReady>>
    BY <1>4 DEF Revalidate
  <2>2. session \in Session
    BY <1>4 DEF Inv, DisplayInv
  <2>3. base \in FlowRow /\ base.pc = "grants" /\ base.revision = 0
    <3>1. "grants" \in UNION {Places(g) : g \in Flows}
      BY <1>1
    <3>2. NoSession \in Session \cup {NoSession} /\ NoToken \in Tokens \cup {NoToken}
          /\ 0 \in 0 .. MaxRevision
      BY WebSessionAssumption
    <3> QED BY <3>1, <3>2 DEF At, Idle, FlowRow
  <2> HIDE DEF base
  <2>4. row \in FlowRow /\ row.pc = "grants" /\ row.revision = 0 /\ row.of = session
    BY <2>2, <2>3 DEF FlowRow
  <2> HIDE DEF row
  <2>5. RowOK(r, row, revision)
    BY <1>1, <2>2, <2>4 DEF RowOK
  <2>6. /\ flow' \in [Flows -> FlowRow] /\ flow'[r] = row
        /\ \A g \in Flows : g # r => flow'[g] = fl[g]
    BY <1>1, <2>1, <2>4
  <2>7. FlowInv'
    BY <2>5, <2>6 DEF Inv, FlowInv
  <2>8. DisplayInv'
    BY <1>1, <2>1, DisplayKept DEF Inv, DisplayVars
  <2>9. NewestIsAhead'
    BY <2>1, <2>4, <2>6 DEF NewestIsAhead
  <2> QED BY <1>2, <2>7, <2>8, <2>9 DEF Inv
<1> QED BY <1>3, <1>4

LEMMA RevalidateStep ==
    ASSUME Inv, NEW r \in Refreshers, RevalidateInBackground(r)
    PROVE  Inv'
BY Revalidated DEF RevalidateInBackground, Inv, FlowInv

LEMMA ForbiddenStep ==
    ASSUME Inv, NEW c \in Calls, NEW r \in Refreshers, CallForbidden(c, r)
    PROVE  Inv'
<1> DEFINE fl == [flow EXCEPT ![c] = Idle]
<1>1. c \in Flows /\ RowOK(c, Idle, revision)
  BY RowIdle, RevisionIsNat, FlowKinds DEF Inv
<1>2. fl \in [Flows -> FlowRow] /\ \A f \in Flows : RowOK(f, fl[f], revision)
  BY <1>1 DEF Inv, FlowInv, RowOK
<1>3. /\ Revalidate(r, fl)
      /\ UNCHANGED <<revision, pageVars, tokensRef, session, ready, refreshing>>
  BY DEF CallForbidden
<1> HIDE DEF fl
<1> QED BY <1>2, <1>3, Revalidated

LEMMA DelegationStep ==
    ASSUME Inv, DelegationChanges
    PROVE  Inv'
<1>1. /\ revision \in Nat /\ revision' \in Nat /\ revision' >= revision
      /\ revision' \in 0 .. MaxRevision
  BY RevisionIsNat, WebSessionAssumption DEF DelegationChanges, Inv, FlowInv
<1>2. UNCHANGED <<pageVars, stateVars, ready, refreshing, flow>>
  BY DEF DelegationChanges
<1>3. \A f \in Flows : flow[f].revision \in Nat /\ RowOK(f, flow[f], revision)
  BY RevisionIsNat DEF Inv, FlowInv
<1>4. \A f \in Flows : RowOK(f, flow[f], revision')
  BY <1>1, <1>3 DEF RowOK
<1>5. FlowInv'
  BY <1>1, <1>2, <1>4 DEF Inv, FlowInv
<1>6. PageInv'
  BY <1>2 DEF Inv, PageInv, pageVars
<1>7. DisplayInv'
  BY <1>1, <1>2, DisplayKept DEF Inv, DisplayInv, DisplayVars, stateVars
<1>8. NewestIsAhead'
  BY <1>2 DEF Inv, NewestIsAhead, stateVars
<1> QED BY <1>5, <1>6, <1>7, <1>8 DEF Inv

-----------------------------------------------------------------------------
(* The theorems.                                                            *)

LEMMA UnchangedStep == Inv /\ UNCHANGED webVars => Inv'
BY DEF Inv, FlowInv, PageInv, DisplayInv, NewestIsAhead, SessionHasItsToken,
       GrantsOfDisplayedSession, RowOK, webVars, pageVars, stateVars

LEMMA InvNext == Inv /\ [Next]_webVars => Inv'
<1> SUFFICES ASSUME Inv, [Next]_webVars PROVE Inv'
  OBVIOUS
<1>1. CASE UNCHANGED webVars
  BY <1>1, UnchangedStep
<1>2. CASE \E f \in Appliers : MeValid(f) \/ MeInvalid(f)
  BY <1>2, MeValidStep, MeInvalidStep
<1>3. CASE \E f \in Flows : GrantsEvaluated(f) \/ GrantsArrive(f) \/ GrantsFail(f)
  BY <1>3, GrantsEvaluatedStep, GrantsSteps
<1>4. CASE \E c \in Calls : \/ CallSends(c) \/ CallRefreshesFirst(c) \/ CallEnds(c)
                            \/ CallUnauthorized(c)
                            \/ \E r \in Refreshers : CallForbidden(c, r)
  BY <1>4, CallSteps, ForbiddenStep
<1>5. CASE RefreshGranted \/ RefreshRefused \/ DelegationChanges
           \/ (\E r \in Refreshers : RevalidateInBackground(r))
  BY <1>5, RefreshGrantedStep, RefreshRefusedStep, DelegationStep, RevalidateStep
<1>6. CASE \/ Login \/ ExchangeSucceeds \/ ExchangeRefused \/ ExchangeUnreachable
           \/ BackHome \/ Reload
           \/ LogoutStart \/ LogoutClears \/ LogoutStays \/ LogoutLeaves
  BY <1>6, PageSteps, ExchangeSteps, LogoutSteps DEF PageLoads
<1> QED BY <1>1, <1>2, <1>3, <1>4, <1>5, <1>6 DEF Next

THEOREM WebSessionInvariant == WebSpec => []Inv
<1>1. Init => Inv
  BY InitInv
<1>2. Inv /\ [Next]_webVars => Inv'
  BY InvNext
<1> QED BY <1>1, <1>2, PTL DEF WebSpec

\* Flows are where their kind of flow can be, and carry what they may carry.
THEOREM WebSessionTypes == WebSpec => []WebSessionTypeOK
BY TypesFollow, WebSessionInvariant, PTL

\* Requests carry the token of the session on display, whatever flows end in
\* whatever order.
THEOREM TokenOfSession == WebSpec => []SessionHasItsToken
<1>1. Inv => SessionHasItsToken
  BY DEF Inv, DisplayInv
<1> QED BY <1>1, WebSessionInvariant, PTL

\* Permissions on display are those of the session on display.
THEOREM GrantsOfSession == WebSpec => []GrantsOfDisplayedSession
<1>1. Inv => GrantsOfDisplayedSession
  BY DEF Inv, DisplayInv
<1> QED BY <1>1, WebSessionInvariant, PTL


\* No revalidation puts an older evaluation over that of another one.
LEMMA RegressionStep ==
    ASSUME Inv, [Next]_webVars,
           grants.source = "refresh", grants'.source = "refresh", grants'.of = grants.of
    PROVE  grants'.revision >= grants.revision
<1>1. grants.revision \in Nat
  BY WebSessionAssumption DEF Inv, DisplayInv, Snapshot, NoGrants
<1>2. CASE UNCHANGED grants
  BY <1>1, <1>2
<1>3. CASE ClearAuthorization \/ grants' = NoGrants
  BY <1>3, EmptySnapshot DEF ClearAuthorization
<1>4. CASE \E f \in Flows : GrantsArrive(f) \/ GrantsFail(f)
  <2>1. PICK f \in Flows : GrantsArrive(f) \/ GrantsFail(f)
    BY <1>4
  <2>2. CASE ~Current(f)
    BY <1>2, <2>1, <2>2 DEF GrantsArrive, GrantsFail, Publish
  <2>3. CASE Current(f) /\ GrantsFail(f)
    BY <2>3, EmptySnapshot DEF GrantsFail, Publish, Show
  <2>4. CASE Current(f) /\ GrantsArrive(f)
    <3>1. /\ grants'.source = IF f \in Refreshers THEN "refresh" ELSE "apply"
          /\ grants'.revision = flow[f].revision /\ flow[f].pc = "evaluated"
      BY <2>4 DEF GrantsArrive, Publish, Show
    <3>2. newest = f /\ newest # NoNewest
      BY <2>4, <3>1, FlowKinds DEF Current
    <3> QED BY <3>1, <3>2 DEF Inv, NewestIsAhead
  <2> QED BY <2>1, <2>2, <2>3, <2>4
<1> QED
  <2>1. CASE UNCHANGED webVars
    BY <1>2, <2>1 DEF webVars, stateVars
  <2>2. CASE RefreshGranted \/ RefreshRefused \/ DelegationChanges
    BY <1>2, <1>3, <2>2 DEF RefreshGranted, RefreshRefused, DelegationChanges, SignOut, stateVars
  <2>3. CASE \E f \in Appliers : MeValid(f) \/ MeInvalid(f)
    BY <1>2, <1>3, <2>3 DEF MeValid, MeInvalid, SignOut, stateVars
  <2>4. CASE \E f \in Flows : GrantsEvaluated(f)
    BY <1>2, <2>4 DEF GrantsEvaluated, stateVars
  <2>5. CASE \/ \E r \in Refreshers : RevalidateInBackground(r)
             \/ \E c \in Calls, r \in Refreshers : CallForbidden(c, r)
    BY <1>2, <1>3, <2>5 DEF RevalidateInBackground, CallForbidden, Revalidate
  <2>6. CASE \E c \in Calls : CallSends(c) \/ CallRefreshesFirst(c) \/ CallEnds(c) \/ CallUnauthorized(c)
    BY <1>2, <2>6 DEF CallSends, CallRefreshesFirst, CallEnds, CallUnauthorized, stateVars
  <2>7. CASE ExchangeSucceeds \/ ExchangeRefused \/ ExchangeUnreachable \/ BackHome
    BY <1>2, <2>7 DEF ExchangeSucceeds, ExchangeRefused, ExchangeUnreachable, BackHome, stateVars
  <2>8. CASE Login \/ Reload \/ LogoutLeaves
    BY <1>3, <2>8 DEF Login, Reload, LogoutLeaves, Load
  <2>9. CASE LogoutStart \/ LogoutClears \/ LogoutStays
    BY <1>2, <1>3, <2>9 DEF LogoutStart, LogoutClears, LogoutStays, SignOut, stateVars
  <2> QED
    BY <1>4, <2>1, <2>2, <2>3, <2>4, <2>5, <2>6, <2>7, <2>8, <2>9 DEF Next

\* However revalidations overlap, what is on display never goes back in time.
THEOREM RevalidationsOnlyAdvance == WebSpec => RevalidationsNeverRegress
<1>1. Inv /\ [Next]_webVars =>
        [(/\ grants.source = "refresh" /\ grants'.source = "refresh"
          /\ grants'.of = grants.of)
         => grants'.revision >= grants.revision]_webVars
  BY RegressionStep
<1> QED BY <1>1, WebSessionInvariant, PTL DEF WebSpec, RevalidationsNeverRegress
-----------------------------------------------------------------------------
(* What unmounts a workspace.                                               *)

\* A page is ready after its start has ended, and a redirect is completed on the
\* page it returns to.
StartInv ==
    /\ ready => flow["boot"].pc = "idle"
    /\ flow["complete"].pc # "idle" => page = "callback"

LEMMA StartInit == Init => StartInv
BY FlowKinds DEF Init, StartInv, Mounted, At, Idle

LEMMA StartNext ==
    ASSUME Inv, StartInv, [Next]_webVars
    PROVE  StartInv'
<1> USE DEF StartInv
<1>0. /\ {"boot", "complete", "logout"} \subseteq Flows
      /\ {"boot", "complete", "logout"} \cap (Calls \cup Refreshers) = {}
      /\ flow \in [Flows -> FlowRow] /\ Idle.pc = "idle"
  BY FlowKinds, WebSessionAssumption DEF Inv, FlowInv, Flows, Appliers, Idle
<1>1. CASE UNCHANGED webVars
  BY <1>1 DEF webVars, pageVars
<1>2. CASE RefreshGranted
  <2>1. /\ "boot" \in Waiting => ~ready
        /\ "complete" \notin Waiting \/ page = "callback"
        /\ UNCHANGED <<ready, page>>
    BY <1>0, <1>2 DEF RefreshGranted, Waiting
  <2>2. /\ "boot" \notin Waiting => flow'["boot"] = flow["boot"]
        /\ "complete" \notin Waiting => flow'["complete"] = flow["complete"]
    BY <1>0, <1>2 DEF RefreshGranted
  <2> QED BY <2>1, <2>2
<1>3. CASE RefreshRefused
  <2>1. /\ flow'["boot"].pc = "idle" \/ (flow'["boot"] = flow["boot"] /\ "boot" \notin Waiting)
        /\ flow'["complete"].pc = "idle" \/ flow'["complete"] = flow["complete"]
        /\ ready' = (ready \/ "boot" \in Waiting) /\ page' = page
    BY <1>0, <1>3 DEF RefreshRefused, BootEnds
  <2> QED BY <2>1
<1>4. ASSUME NEW f \in Appliers, MeValid(f) \/ MeInvalid(f) PROVE StartInv'
  <2>1. CASE MeValid(f)
    <3>1. /\ flow[f].pc = "me" /\ UNCHANGED <<ready, page>>
          /\ \A g \in Flows \ {f} : flow'[g] = flow[g]
      BY <1>0, <2>1 DEF MeValid, pageVars
    <3> QED BY <1>0, <3>1
  <2>2. CASE MeInvalid(f)
    <3>1. /\ flow[f].pc = "me" /\ page' = page /\ ready' = (ready \/ "boot" = f)
          /\ \A g \in Flows \ {f} : flow'[g] = flow[g]
          /\ f # "complete" => flow'[f].pc = "idle"
      BY <1>0, <1>4, <2>2 DEF MeInvalid, pageVars, BootEnds, Flows
    <3> QED BY <1>0, <3>1
  <2> QED BY <1>4, <2>1, <2>2
<1>5. ASSUME NEW f \in Flows, GrantsEvaluated(f) PROVE StartInv'
  <2>1. /\ flow[f].pc = "grants" /\ UNCHANGED <<ready, page>>
        /\ \A g \in Flows \ {f} : flow'[g] = flow[g]
    BY <1>0, <1>5 DEF GrantsEvaluated, pageVars
  <2> QED BY <1>0, <2>1
<1>6. ASSUME NEW f \in Flows, NEW snapshot, Publish(f, snapshot) PROVE StartInv'
  <2>1. /\ ready' = (ready \/ "boot" = f)
        /\ page' = IF f = "complete" THEN "app" ELSE page
        /\ \A g \in Flows \ {f} : flow'[g] = flow[g]
        /\ flow'[f] = AfterGrants(f)
    BY <1>0, <1>6 DEF Publish, BootEnds
  <2>2. f \in {"boot", "complete"} => AfterGrants(f) = Idle
    BY <1>0 DEF AfterGrants
  <2> QED BY <1>0, <2>1, <2>2
<1>7. ASSUME NEW r \in Refreshers, NEW fl, Revalidate(r, fl), fl \in [Flows -> FlowRow],
             fl["boot"] = flow["boot"], fl["complete"] = flow["complete"], UNCHANGED <<pageVars, ready>>
      PROVE  StartInv'
  <2>1. flow'["boot"] = fl["boot"] /\ flow'["complete"] = fl["complete"]
    BY <1>0, <1>7 DEF Revalidate
  <2> QED BY <1>7, <2>1 DEF pageVars
<1>8. ASSUME NEW r \in Refreshers, RevalidateInBackground(r) PROVE StartInv'
  BY <1>0, <1>7, <1>8 DEF RevalidateInBackground
<1>9. ASSUME NEW c \in Calls, NEW r \in Refreshers, CallForbidden(c, r) PROVE StartInv'
  <2> DEFINE fl == [flow EXCEPT ![c] = Idle]
  <2>1. Idle \in FlowRow
    BY RowIdle, RevisionIsNat, FlowKinds DEF Inv, RowOK
  <2>2. fl \in [Flows -> FlowRow] /\ fl["boot"] = flow["boot"] /\ fl["complete"] = flow["complete"]
    BY <1>0, <2>1
  <2>3. Revalidate(r, fl) /\ UNCHANGED <<pageVars, ready>>
    BY <1>9 DEF CallForbidden
  <2> HIDE DEF fl
  <2> QED BY <1>7, <2>2, <2>3
<1>10. ASSUME NEW c \in Calls, CallSends(c) \/ CallRefreshesFirst(c) \/ CallEnds(c) \/ CallUnauthorized(c)
       PROVE  StartInv'
  <2>1. /\ flow'["boot"] = flow["boot"] /\ flow'["complete"] = flow["complete"]
        /\ UNCHANGED <<ready, page>>
    BY <1>0, <1>10 DEF CallSends, CallRefreshesFirst, CallEnds, CallUnauthorized, pageVars
  <2> QED BY <2>1
<1>11. CASE ExchangeSucceeds \/ ExchangeRefused \/ ExchangeUnreachable
  <2>1. /\ flow["complete"].pc = "exchanging" /\ flow'["boot"] = flow["boot"]
        /\ UNCHANGED <<ready, page>>
    BY <1>0, <1>11 DEF ExchangeSucceeds, ExchangeRefused, ExchangeUnreachable, pageVars
  <2> QED BY <2>1
<1>12. CASE BackHome
  <2>1. flow'["boot"] = flow["boot"] /\ flow'["complete"] = Idle /\ ready' = ready
    BY <1>0, <1>12 DEF BackHome
  <2> QED BY <1>0, <2>1
<1>13. ASSUME NEW p \in {"app", "callback"}, Load(p) PROVE StartInv'
  <2>1. /\ ready' = FALSE /\ page' = p
        /\ flow'["complete"] = IF p = "callback" THEN At("exchanging") ELSE Idle
    BY <1>0, <1>13 DEF Load, Mounted
  <2> QED BY <1>0, <2>1
<1>14. CASE LogoutStart \/ LogoutClears \/ LogoutStays
  <2>1. /\ flow'["boot"] = flow["boot"] /\ flow'["complete"] = flow["complete"]
        /\ UNCHANGED <<ready, page>>
    BY <1>0, <1>14 DEF LogoutStart, LogoutClears, LogoutStays, pageVars
  <2> QED BY <2>1
<1>15. CASE DelegationChanges
  BY <1>15 DEF DelegationChanges, pageVars
<1>16. page \in {"app", "callback"}
  BY DEF Inv, PageInv
<1> QED
  <2>1. CASE Login \/ Reload \/ LogoutLeaves
    BY <1>13, <1>16, <2>1 DEF Login, Reload, LogoutLeaves
  <2>2. CASE \E f \in Flows : GrantsEvaluated(f) \/ GrantsArrive(f) \/ GrantsFail(f)
    BY <1>5, <1>6, <2>2 DEF GrantsArrive, GrantsFail
  <2> QED
    BY <1>1, <1>2, <1>3, <1>4, <1>8, <1>9, <1>10, <1>11, <1>12, <1>14, <1>15, <2>1, <2>2 DEF Next

LEMMA StartAlways == WebSpec => []StartInv
BY StartInit, StartNext, WebSessionInvariant, PTL DEF WebSpec

\* A page of the application loses its workspace, although a session stays on display.
WorkspaceUnmounts ==
    /\ page = "app" /\ ready /\ authorizationReady /\ session # NoSession
    /\ session' # NoSession /\ ~PageLoads /\ ~authorizationReady'

\* On a page of the application nothing takes a workspace away from a user who
\* stays signed in, but a call that brings a new token: revalidations, answers
\* that arrive late and failures leave it.  What breaks WorkspaceStaysMounted is
\* the refresh on behalf of a call, and nothing else.
THEOREM OnlyCallsUnmount == WebSpec => [][WorkspaceUnmounts => \E c \in Calls : MeValid(c)]_webVars
<1>1. ASSUME Inv, StartInv, [Next]_webVars, WorkspaceUnmounts
      PROVE  \E c \in Calls : MeValid(c)
  <2> USE DEF WorkspaceUnmounts
  <2>1. authorizationReady /\ ~authorizationReady'
    BY <1>1
  <2>2. ~(UNCHANGED webVars) /\ ~RefreshGranted /\ ~DelegationChanges
    BY <2>1 DEF webVars, stateVars, RefreshGranted, DelegationChanges
  <2>3. ~RefreshRefused
    BY <2>1 DEF RefreshRefused, SignOut, ClearAuthorization
  <2>4. ASSUME NEW f \in Flows PROVE ~(GrantsEvaluated(f) \/ GrantsArrive(f) \/ GrantsFail(f))
    BY <2>1 DEF GrantsEvaluated, GrantsArrive, GrantsFail, Publish, Show, stateVars
  <2>5. ASSUME NEW r \in Refreshers
        PROVE  ~RevalidateInBackground(r) /\ \A c \in Calls : ~CallForbidden(c, r)
    BY <2>1 DEF RevalidateInBackground, CallForbidden, Revalidate, ClearAuthorization
  <2>6. ASSUME NEW c \in Calls
        PROVE  ~(CallSends(c) \/ CallRefreshesFirst(c) \/ CallEnds(c) \/ CallUnauthorized(c))
    BY <2>1 DEF CallSends, CallRefreshesFirst, CallEnds, CallUnauthorized, stateVars
  <2>7. ~(ExchangeSucceeds \/ ExchangeRefused \/ ExchangeUnreachable \/ BackHome)
    BY <2>1 DEF ExchangeSucceeds, ExchangeRefused, ExchangeUnreachable, BackHome, stateVars
  <2>8. ~(LogoutStart \/ LogoutClears \/ LogoutStays)
    BY <2>1 DEF LogoutStart, LogoutClears, LogoutStays, SignOut, ClearAuthorization, stateVars
  <2>9. ~(Login \/ Reload \/ LogoutLeaves)
    BY <1>1 DEF PageLoads
  <2>10. ASSUME NEW f \in Appliers PROVE ~MeInvalid(f)
    BY <2>1, <1>1 DEF MeInvalid, SignOut, ClearAuthorization, stateVars
  <2>11. PICK f \in Appliers : MeValid(f)
    BY <1>1, <2>2, <2>3, <2>4, <2>5, <2>6, <2>7, <2>8, <2>9, <2>10 DEF Next
  <2>12. f # "boot" /\ f # "complete"
    BY <1>1, <2>11 DEF MeValid, StartInv
  <2> QED BY <2>11, <2>12 DEF Appliers
<1>2. Inv /\ StartInv /\ [Next]_webVars => [WorkspaceUnmounts => \E c \in Calls : MeValid(c)]_webVars
  BY <1>1
<1> QED BY <1>2, WebSessionInvariant, StartAlways, PTL DEF WebSpec
=============================================================================
