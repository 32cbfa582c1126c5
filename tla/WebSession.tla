----------------------------- MODULE WebSession -----------------------------
(***************************************************************************)
(* The session of one browser tab of the React client: AuthProvider and    *)
(* its OIDC client.  Several asynchronous flows share the token and session *)
(* references, the snapshot of education grants and one refresh request:   *)
(* the start of the page, the return from the identity provider, API calls *)
(* that refresh and retry, and the revalidation of grants every 15 seconds, *)
(* on focus and after a 403.  Every await is a place where another flow,   *)
(* another tab or the server may act.  An access token may expire at any   *)
(* moment, so "too old" for the client and "refused" by the server are     *)
(* outcomes that are always possible.  The refresh cookie is shared by all *)
(* tabs: any refresh may be refused, or bring a token of another user, so  *)
(* sessions are told apart by their tokens.                                *)
(***************************************************************************)
EXTENDS Integers, FiniteSets

CONSTANTS
    Calls,       \* concurrent apiFetch calls
    Refreshers,  \* concurrent revalidations of the grants
    MaxTokens,   \* bound: access tokens issued to one page
    MaxRevision  \* bound: changes of the granted delegations

ASSUME WebSessionAssumption ==
    /\ MaxTokens \in Nat /\ MaxRevision \in Nat
    /\ Calls \cap Refreshers = {}
    /\ {"boot", "complete", "logout", "none"} \cap (Calls \cup Refreshers) = {}

VARIABLES
    revision,  \* revision of the delegations at the server
    issued,    \* tokens issued to this page
    page,      \* the kind of page that is loaded
    pkce,      \* there is an authorization transaction in sessionStorage
    tokensRef, \* AuthProvider: the token in memory
    session,   \* the validated session, identified by token and flow
    grants,    \* the snapshot of grants on display
    ready,
    authorizationReady,
    newest,    \* the revalidation with the current authorizationRefreshGeneration
    refreshing,\* oidc-client: refreshPromise is pending
    flow       \* the asynchronous flows

pageVars   == <<issued, page, pkce>>
stateVars  == <<tokensRef, session, grants, authorizationReady, newest>>
webVars    == <<revision, pageVars, stateVars, ready, refreshing, flow>>

-----------------------------------------------------------------------------
NoToken   == 0
Tokens    == 1 .. MaxTokens
Appliers  == {"boot", "complete"} \cup Calls
Flows     == Appliers \cup Refreshers \cup {"logout"}
NoNewest  == "none"

\* A session is one object: two flows that validate the same token make two.
Session   == [tok : Tokens, by : Appliers]
NoSession == [tok |-> NoToken, by |-> "boot"]
\* A snapshot, the session it was evaluated for, and the kind of flow that shows it.
Snapshot  == [of : Session, revision : 0 .. MaxRevision, source : {"apply", "refresh"}]
NoGrants  == [of |-> NoSession, revision |-> 0, source |-> "none"]

\* Where each kind of flow can be.
Places(f) ==
    CASE f = "boot"        -> {"idle", "refreshing", "me", "grants", "evaluated"}
      [] f = "complete"    -> {"idle", "exchanging", "me", "grants", "evaluated", "failed"}
      [] f = "logout"      -> {"idle", "closing", "closed"}
      [] f \in Calls       -> {"idle", "refreshing", "me", "grants", "evaluated", "sent", "resent"}
      [] f \in Refreshers  -> {"idle", "grants", "evaluated"}

FlowRow == [pc : UNION {Places(f) : f \in Flows},
            tok : Tokens \cup {NoToken},      \* the token it applies
            of : Session \cup {NoSession},    \* the session it loads grants for
            retry : BOOLEAN,                  \* apiFetch: after the 401
            revision : 0 .. MaxRevision]      \* of the delegations, when evaluated
Idle == [pc |-> "idle", tok |-> NoToken, of |-> NoSession, retry |-> FALSE, revision |-> 0]
At(p) == [Idle EXCEPT !.pc = p]

WebSessionTypeOK ==
    /\ revision \in 0 .. MaxRevision
    /\ issued \in 0 .. MaxTokens
    /\ page \in {"app", "callback"}
    /\ pkce \in BOOLEAN
    /\ tokensRef \in Tokens \cup {NoToken}
    /\ session \in Session \cup {NoSession}
    /\ grants \in Snapshot \cup {NoGrants}
    /\ ready \in BOOLEAN /\ authorizationReady \in BOOLEAN
    /\ newest \in Refreshers \cup {NoNewest}
    /\ refreshing \in BOOLEAN
    /\ flow \in [Flows -> FlowRow]
    /\ \A f \in Flows : flow[f].pc \in Places(f)

\* AuthProvider mounts: its first effect asks for a refresh, the effect of
\* CallbackPage completes the authorization.
Mounted(p) == [f \in Flows |-> CASE f = "boot" -> At("refreshing")
                                 [] f = "complete" /\ p = "callback" -> At("exchanging")
                                 [] OTHER -> Idle]

Init ==
    /\ revision = 0 /\ issued = 0
    /\ page = "app" /\ pkce = FALSE
    /\ tokensRef = NoToken /\ session = NoSession /\ grants = NoGrants
    /\ authorizationReady = FALSE /\ newest = NoNewest /\ ready = FALSE
    /\ refreshing = TRUE
    /\ flow = Mounted("app")

-----------------------------------------------------------------------------
\* Changes of the provider's state that several flows share.

\* clearAuthorization: whoever revalidates now is no longer the newest.
ClearAuthorization ==
    /\ newest' = NoNewest
    /\ grants' = NoGrants
    /\ authorizationReady' = TRUE

\* Mutant: the token is forgotten, the session stays on display.
SignOutToken ==
    /\ tokensRef' = NoToken
    /\ ClearAuthorization
    /\ UNCHANGED session

SignOut ==
    /\ tokensRef' = NoToken
    /\ session' = NoSession
    /\ ClearAuthorization

\* Mutant: ready only when the start ended with a session.
BootEndsSignedIn(fs) == ready' = (ready \/ ("boot" \in fs /\ session' # NoSession))

\* The first effect's finally: ready, however the start of the page ended.
BootEnds(fs) == ready' = (ready \/ "boot" \in fs)

Waiting == {f \in Flows : flow[f].pc = "refreshing"}

\* The page is replaced: everything in memory is lost, AuthProvider mounts again.
Load(p) ==
    /\ page' = p /\ issued' = 0
    /\ tokensRef' = NoToken /\ session' = NoSession /\ grants' = NoGrants
    /\ authorizationReady' = FALSE /\ newest' = NoNewest /\ ready' = FALSE
    /\ refreshing' = TRUE
    /\ flow' = Mounted(p)

-----------------------------------------------------------------------------
\* The refresh of the access token.

\* The provider accepts the cookie; all who wait go on to validate the new token.
RefreshGranted ==
    /\ refreshing /\ issued < MaxTokens
    /\ issued' = issued + 1
    /\ refreshing' = FALSE
    /\ flow' = [f \in Flows |-> IF f \in Waiting
                                THEN [flow[f] EXCEPT !.pc = "me", !.tok = issued + 1]
                                ELSE flow[f]]
    /\ UNCHANGED <<revision, page, pkce, stateVars, ready>>

\* Refused, or the request failed in any other way: the answer is null.  At the
\* start of the page that only ends the wait; a call ends the session.
RefreshRefused ==
    /\ refreshing
    /\ refreshing' = FALSE
    /\ flow' = [f \in Flows |-> IF f \in Waiting THEN Idle ELSE flow[f]]
    /\ IF Waiting \cap Calls # {} THEN SignOut
       ELSE ClearAuthorization /\ UNCHANGED <<tokensRef, session>>
    /\ BootEnds(Waiting)
    /\ UNCHANGED <<revision, issued, page, pkce>>

-----------------------------------------------------------------------------
\* apply(): validate the token with /api/me, then load the grants.

\* The token, the session object and the flag change together.
MeValid(f) ==
    /\ flow[f].pc = "me"
    /\ tokensRef' = flow[f].tok
    /\ session' = [tok |-> flow[f].tok, by |-> f]
    /\ authorizationReady' = FALSE
    /\ flow' = [flow EXCEPT ![f] = [At("grants") EXCEPT !.of = session', !.retry = flow[f].retry]]
    /\ UNCHANGED <<revision, pageVars, grants, newest, ready, refreshing>>

\* /api/me refuses, fails or breaks its contract.  The start of the page forgets
\* the session but not the token; the callback page shows the error.
MeInvalid(f) ==
    /\ flow[f].pc = "me"
    /\ CASE f = "boot" -> /\ session' = NoSession /\ ClearAuthorization
                          /\ UNCHANGED tokensRef
         [] f = "complete" -> UNCHANGED stateVars
         [] OTHER -> SignOut
    /\ BootEnds({f})
    /\ flow' = [flow EXCEPT ![f] = IF f = "complete" THEN At("failed") ELSE Idle]
    /\ UNCHANGED <<revision, pageVars, refreshing>>

\* The server evaluates the delegations now; the answer is still under way.
GrantsEvaluated(f) ==
    /\ flow[f].pc = "grants"
    /\ flow' = [flow EXCEPT ![f].pc = "evaluated", ![f].revision = revision]
    /\ UNCHANGED <<revision, pageVars, stateVars, ready, refreshing>>

\* Mutants: overlapping revalidations, or sessions, are not told apart.
CurrentAnyRefresh(f) == session = flow[f].of
CurrentAnySession(f) == f \in Refreshers => newest = f

\* An answer counts while its session object is the current one; a revalidation
\* also has to be the newest.
Current(f) ==
    /\ session = flow[f].of
    /\ f \in Refreshers => newest = f

\* Where the flow continues when its grants have arrived.
AfterGrants(f) ==
    IF f \in Calls THEN At(IF flow[f].retry THEN "resent" ELSE "sent") ELSE Idle

\* Mutants: the flag is set only for an answer; a failure leaves what was there.
ShowAnswer(snapshot) ==
    grants' = snapshot /\ authorizationReady' = (authorizationReady \/ snapshot # NoGrants)
ShowFailingOpen(snapshot) ==
    grants' = (IF snapshot = NoGrants THEN grants ELSE snapshot) /\ authorizationReady' = TRUE

\* The flag is set in a finally, for an answer as for a failure.
Show(snapshot) == grants' = snapshot /\ authorizationReady' = TRUE

Publish(f, snapshot) ==
    /\ IF Current(f) THEN Show(snapshot)
       ELSE UNCHANGED <<grants, authorizationReady>>
    /\ flow' = [flow EXCEPT ![f] = AfterGrants(f)]
    /\ UNCHANGED session
    /\ BootEnds({f})
    /\ page' = IF f = "complete" THEN "app" ELSE page
    /\ UNCHANGED <<revision, issued, pkce, tokensRef, newest, refreshing>>

GrantsArrive(f) ==
    /\ flow[f].pc = "evaluated"
    /\ Publish(f, [of |-> flow[f].of, revision |-> flow[f].revision,
                   source |-> IF f \in Refreshers THEN "refresh" ELSE "apply"])

\* The request failed or the answer is malformed or of another institution.
GrantsFail(f) ==
    /\ flow[f].pc \in {"grants", "evaluated"}
    /\ Publish(f, NoGrants)

-----------------------------------------------------------------------------
\* refreshEducationAuthorization: every 15 seconds, on focus, on visibility and
\* after a 403.  fl is what the caller makes of the flows.
Revalidate(r, fl) ==
    IF tokensRef = NoToken \/ session = NoSession
    THEN ClearAuthorization /\ flow' = fl
    ELSE /\ newest' = r
         /\ flow' = [fl EXCEPT ![r] = [At("grants") EXCEPT !.of = session]]
         /\ UNCHANGED <<grants, authorizationReady>>

\* The interval and the listeners exist while a session is on display.
RevalidateInBackground(r) ==
    /\ session # NoSession
    /\ flow[r].pc = "idle"
    /\ Revalidate(r, flow)
    /\ UNCHANGED <<revision, pageVars, tokensRef, session, ready, refreshing>>

-----------------------------------------------------------------------------
\* apiFetch.

\* Sent at once with the token in memory, unless it is missing or about to expire.
CallSends(c) ==
    /\ page = "app" /\ ready /\ flow[c].pc = "idle"
    /\ tokensRef # NoToken
    /\ flow' = [flow EXCEPT ![c] = At("sent")]
    /\ UNCHANGED <<revision, pageVars, stateVars, ready, refreshing>>

CallRefreshesFirst(c) ==
    /\ page = "app" /\ ready /\ flow[c].pc = "idle"
    /\ refreshing' = TRUE   \* one request at a time, shared
    /\ flow' = [flow EXCEPT ![c] = At("refreshing")]
    /\ UNCHANGED <<revision, pageVars, stateVars, ready>>

\* Any answer but a 401, or a failed request, goes back to the caller.
CallEnds(c) ==
    /\ flow[c].pc \in {"sent", "resent"}
    /\ flow' = [flow EXCEPT ![c] = Idle]
    /\ UNCHANGED <<revision, pageVars, stateVars, ready, refreshing>>

\* A 403 of an education route also revalidates; only the first answer is asked.
CallForbidden(c, r) ==
    /\ flow[c].pc = "sent"
    /\ flow[r].pc = "idle"
    /\ Revalidate(r, [flow EXCEPT ![c] = Idle])
    /\ UNCHANGED <<revision, pageVars, tokensRef, session, ready, refreshing>>

\* The first 401: refresh, apply, send again.
CallUnauthorized(c) ==
    /\ flow[c].pc = "sent" /\ ~flow[c].retry
    /\ refreshing' = TRUE   \* one request at a time, shared
    /\ flow' = [flow EXCEPT ![c] = [At("refreshing") EXCEPT !.retry = TRUE]]
    /\ UNCHANGED <<revision, pageVars, stateVars, ready>>

-----------------------------------------------------------------------------
\* Login and the return from the identity provider.

\* prepareAuthorization stores the transaction and leaves for the provider,
\* which redirects to the callback page.
Login ==
    /\ page = "app" /\ ready /\ session = NoSession
    /\ pkce' = TRUE
    /\ Load("callback")
    /\ UNCHANGED revision

\* The code is redeemed: a token, and the transaction is used up.
ExchangeSucceeds ==
    /\ flow["complete"].pc = "exchanging"
    /\ pkce /\ issued < MaxTokens
    /\ issued' = issued + 1
    /\ pkce' = FALSE
    /\ flow' = [flow EXCEPT !["complete"] = [At("me") EXCEPT !.tok = issued + 1]]
    /\ UNCHANGED <<revision, page, stateVars, ready, refreshing>>

\* A missing or old transaction, or a protocol error: no way to retry.
ExchangeRefused ==
    /\ flow["complete"].pc = "exchanging"
    /\ pkce' = FALSE
    /\ flow' = [flow EXCEPT !["complete"] = At("failed")]
    /\ UNCHANGED <<revision, issued, page, stateVars, ready, refreshing>>

\* A network failure keeps the transaction for another try.
ExchangeUnreachable ==
    /\ flow["complete"].pc = "exchanging" /\ pkce
    /\ flow' = [flow EXCEPT !["complete"] = At("failed")]
    /\ UNCHANGED <<revision, pageVars, stateVars, ready, refreshing>>

\* The link on the error page.
BackHome ==
    /\ page = "callback" /\ flow["complete"].pc = "failed"
    /\ page' = "app"
    /\ flow' = [flow EXCEPT !["complete"] = Idle]
    /\ UNCHANGED <<revision, issued, pkce, stateVars, ready, refreshing>>

Reload == Load(page) /\ UNCHANGED <<revision, pkce>>

-----------------------------------------------------------------------------
\* Logout.

LogoutStart ==
    /\ page = "app" /\ session # NoSession /\ flow["logout"].pc = "idle"
    /\ flow' = [flow EXCEPT !["logout"] = At("closing")]
    /\ UNCHANGED <<revision, pageVars, stateVars, ready, refreshing>>

\* The answer of the server, or a failure, after which the local state goes anyway.
LogoutClears ==
    /\ flow["logout"].pc = "closing"
    /\ SignOut
    /\ flow' = [flow EXCEPT !["logout"] = At("closed")]
    /\ UNCHANGED <<revision, pageVars, ready, refreshing>>

\* Without an ID token the page stays; with one it leaves for the provider, which
\* ends its session and comes back to a new page.
LogoutStays ==
    /\ flow["logout"].pc = "closed"
    /\ flow' = [flow EXCEPT !["logout"] = Idle]
    /\ UNCHANGED <<revision, pageVars, stateVars, ready, refreshing>>
LogoutLeaves ==
    /\ flow["logout"].pc = "closed"
    /\ Load("app")
    /\ UNCHANGED <<revision, pkce>>

-----------------------------------------------------------------------------
\* A delegation is granted or revoked at the server.
DelegationChanges ==
    /\ revision < MaxRevision
    /\ revision' = revision + 1
    /\ UNCHANGED <<pageVars, stateVars, ready, refreshing, flow>>

Next ==
    \/ RefreshGranted \/ RefreshRefused
    \/ \E f \in Appliers : MeValid(f) \/ MeInvalid(f)
    \/ \E f \in Flows : GrantsEvaluated(f) \/ GrantsArrive(f) \/ GrantsFail(f)
    \/ \E r \in Refreshers : RevalidateInBackground(r)
    \/ \E c \in Calls : \/ CallSends(c) \/ CallRefreshesFirst(c) \/ CallEnds(c)
                        \/ CallUnauthorized(c)
                        \/ \E r \in Refreshers : CallForbidden(c, r)
    \/ Login \/ ExchangeSucceeds \/ ExchangeRefused \/ ExchangeUnreachable
    \/ BackHome \/ Reload
    \/ LogoutStart \/ LogoutClears \/ LogoutStays \/ LogoutLeaves
    \/ DelegationChanges

\* The steps that replace the page.
PageLoads == Login \/ Reload \/ LogoutLeaves

WebSpec == Init /\ [][Next]_webVars

\* The next step of one flow, when the request it waits for ends.
Answered(f) ==
    \/ MeValid(f) \/ MeInvalid(f) \/ GrantsEvaluated(f) \/ GrantsArrive(f) \/ GrantsFail(f)
    \/ f \in Calls /\ (CallEnds(f) \/ CallUnauthorized(f) \/ \E r \in Refreshers : CallForbidden(f, r))

\* Every request ends with an answer or an error, the interval keeps firing, and
\* the user does not load pages for ever.  The last conjunct: now and then a
\* revalidation is answered before the next one begins.
FairWebSpec ==
    /\ WebSpec
    /\ <>[][~PageLoads]_webVars
    /\ WF_webVars(RefreshGranted \/ RefreshRefused)
    /\ \A f \in Flows : WF_webVars(Answered(f))
    /\ WF_webVars(ExchangeSucceeds \/ ExchangeRefused \/ ExchangeUnreachable)
    /\ \A r \in Refreshers : WF_webVars(RevalidateInBackground(r))
    /\ \A r \in Refreshers :
         SF_webVars(newest = r /\ (GrantsArrive(r) \/ GrantsFail(r)))

-----------------------------------------------------------------------------
\* Permissions on display are those evaluated for the session on display, even
\* when the user changes under a request in flight; nobody signed in has any.
GrantsOfDisplayedSession ==
    /\ session = NoSession => grants = NoGrants
    /\ authorizationReady => grants.of \in {NoSession, session}

\* A request starts with the very token the session on display was validated for (the
\* retry of a request answered 401 sends the renewed token from a local variable).
SessionHasItsToken == session # NoSession => tokensRef = session.tok

\* However revalidations overlap, none puts an older evaluation over a newer one.
RevalidationsNeverRegress ==
    [][(/\ grants.source = "refresh" /\ grants'.source = "refresh"
        /\ grants'.of = grants.of)
       => grants'.revision >= grants.revision]_webVars

\* A page does not wait for its start for ever.
PageBecomesReady == ~ready ~> ready

\* Nor does a workspace for its permissions: whoever resets authorizationReady
\* has it set again, though session and tokens may be replaced meanwhile.
AuthorizationSettles ==
    (ready /\ ~authorizationReady) ~> (authorizationReady \/ ~ready)

\* What is on display is brought up to date again and again, also when an answer
\* of apply() that was evaluated earlier arrived late, or requests failed.
RevocationReachesScreen == []<>(grants = NoGrants \/ grants.revision = revision)

\* "Route guards must not unmount the active workspace (and discard unsaved UI
\* state)": while somebody stays signed in on a page, what was shown stays mounted.
WorkspaceStaysMounted ==
    [][(/\ ready /\ authorizationReady /\ session # NoSession
        /\ session' # NoSession /\ ~PageLoads)
       => authorizationReady']_webVars
=============================================================================
