------------------------------ MODULE Session ------------------------------
(***************************************************************************)
(* The browser session: documents of one browser that share the session    *)
(* cookie and localStorage, each with an AuthProvider, a query cache and   *)
(* the pages that sign in, sign out and edit the account.                  *)
(*                                                                         *)
(* A JavaScript task is one action.  What awaits (an identity check, an    *)
(* authentication call, a query) is a record that is sent, served by the   *)
(* server and answered in three separate actions; the cookie changes when  *)
(* the response reaches the browser, before the task that awaits it runs.  *)
(* A check whose sessionGeneration is no longer current does nothing when  *)
(* it is answered: raising the generation drops the pending check.         *)
(* The stored JSON of the user is a projection [id, rev]; rev grows when   *)
(* the account is edited.                                                  *)
(***************************************************************************)
EXTENDS Naturals, FiniteSets

CONSTANTS
    Tabs,          \* documents open on the application
    Users,         \* accounts
    None,          \* no user, no cookie, no answer yet
    MaxSessions,   \* logins the server answers positively
    MaxUpsets,     \* lost answers, unconfirmed revocations, sessions that end
                   \* on the server alone, reloads, visibilitychange events
                   \* and edits of the account, taken together
    Slots          \* authentication calls pending in a document

ASSUME BoundsAreNaturals == MaxSessions \in Nat /\ MaxUpsets \in Nat
ASSUME SlotsAreNumbered == Slots \in SUBSET Nat /\ IsFiniteSet(Slots)

VARIABLES
    live,      \* access_tokens: the login token of a user, at most one each
    cookie,    \* litradar_session, shared by the documents
    rev,       \* rev[u]: the server's version of the account u
    stored,    \* localStorage litradar:v1:user
    storedWarn,\* localStorage litradar:v1:logout_revocation_unconfirmed
    signal,    \* signal[t]: storage events document t has not handled
    shown,     \* shown[t]: AuthProvider's user (and verifiedUser)
    loading,   \* AuthProvider's loading
    warn,      \* AuthProvider's logoutWarning
    check,     \* check[t]: the pending getCurrentUser of this generation
    call,      \* call[t][s]: pending authentication calls
    cache,     \* cache[t]: accounts whose private answers the cache holds
    fetch,     \* fetch[t]: the account of a private answer under way
    doubt,     \* tokens whose revocation a document was told is unconfirmed
    logins,    \* logins served
    upsets,    \* upsets so far
    kept       \* no answer was lost, no session ended on the server alone

server  == <<live, cookie, rev>>
browser == <<stored, storedWarn, signal>>
view    == <<shown, loading, warn>>
data    == <<cache, fetch>>
used    == <<logins, upsets, kept>>
vars    == <<server, browser, view, check, call, data, doubt, used>>

Token == [user : Users, n : 1..MaxSessions]
User  == [id : Users, rev : 0..MaxUpsets]

\* Calls a document makes.  Registration signs nobody in before the login it
\* continues with; recovery is a login and then a logout-all.
Kinds == {"login", "recoverLogin", "recoverRevoke", "logout", "password", "edit"}
\* waiting: in setTimeout; sent; then what came back (401 is "denied")
States == {"waiting", "sent", "ok", "denied", "failed"}
Call  == [kind : Kinds, user : Users, state : States,
          got : User \union {None}]
Check == [answered : BOOLEAN, got : User \union {None}]

ASSUME NoneIsNoValue == None \notin Users \union Token \union User \union Call \union Check

Upset == upsets < MaxUpsets /\ upsets' = upsets + 1 /\ UNCHANGED logins
Fault == Upset /\ kept' = FALSE
Event == Upset /\ UNCHANGED kept

NoCalls == [s \in Slots |-> None]

\* What requireUser makes of a request: the account of a live token.
Holder(c) == IF c \in live THEN c.user ELSE None
\* Seeded fault: the account's name is kept where its projection belongs.
NamesOnly(u) == u
Projection(u) == [id |-> u, rev |-> rev[u]]

----------------------------------------------------------------------------
\* localStorage.  Another document gets an event when the value changes; a
\* new warning carries a new time and is always a change.

Changed(t, isChange) ==
    signal' = [s \in Tabs |-> IF s # t /\ isChange
                              THEN IF signal[s] < 2 THEN signal[s] + 1 ELSE 2
                              ELSE signal[s]]

\* Seeded fault: an account already stored is not replaced.
WriteOnce(t, p) ==
    /\ stored' = IF stored = None THEN p ELSE stored
    /\ UNCHANGED storedWarn
    /\ Changed(t, stored = None)
\* Seeded fault: the stored value carries a time, every write is a change.
WriteStamped(t, p) ==
    /\ stored' = p
    /\ UNCHANGED storedWarn
    /\ Changed(t, TRUE)
WriteStoredUser(t, p) ==
    /\ stored' = p
    /\ UNCHANGED storedWarn
    /\ Changed(t, stored # p)

\* Seeded fault: the removal of the warning is told to nobody.
ForgetSilently(t, warning) ==
    /\ stored' = None
    /\ storedWarn' = IF warning = "kept" THEN storedWarn ELSE warning = "written"
    /\ Changed(t, stored # None \/ warning = "written")
\* clearStoredSession with the warning written, removed or left alone
ClearStored(t, warning) ==
    /\ stored' = None
    /\ storedWarn' = IF warning = "kept" THEN storedWarn ELSE warning = "written"
    /\ Changed(t, \/ stored # None
                  \/ warning = "written"
                  \/ warning = "removed" /\ storedWarn)

----------------------------------------------------------------------------
\* AuthProvider

\* sessionGeneration.current += 1
Outdate(t) == check' = [check EXCEPT ![t] = None]

\* Seeded fault: the cache survives, only its requests are cancelled.
CancelOnly(t) ==
    /\ cache' = cache
    /\ fetch' = [fetch EXCEPT ![t] = None]
\* clearPrivateState's cancelQueries and clear
ClearPrivateData(t) ==
    /\ cache' = [cache EXCEPT ![t] = {}]
    /\ fetch' = [fetch EXCEPT ![t] = None]

ShowUser(t, p) == shown' = [shown EXCEPT ![t] = p]

\* restoreSession up to its await
BeginCheck(t) ==
    check' = [check EXCEPT ![t] = [answered |-> FALSE, got |-> None]]

\* Seeded fault: the removal of the stored account is taken for a sign-out.
TrustsRemoval(t) ==
    /\ signal[t] > 0
    /\ signal' = [signal EXCEPT ![t] = @ - 1]
    /\ IF stored = None THEN Outdate(t) ELSE BeginCheck(t)
    /\ ShowUser(t, None)
    /\ loading' = [loading EXCEPT ![t] = stored # None]
    /\ warn' = [warn EXCEPT ![t] = storedWarn]
    /\ ClearPrivateData(t)
    /\ UNCHANGED <<server, stored, storedWarn, call, doubt, used>>
\* handleSessionStorage
HandleStorage(t) ==
    /\ signal[t] > 0
    /\ signal' = [signal EXCEPT ![t] = @ - 1]
    /\ BeginCheck(t)
    /\ ShowUser(t, None)
    /\ loading' = [loading EXCEPT ![t] = TRUE]
    /\ warn' = [warn EXCEPT ![t] = storedWarn]
    /\ ClearPrivateData(t)
    /\ UNCHANGED <<server, stored, storedWarn, call, doubt, used>>

\* handleSessionVisibility: nothing is hidden while the check is pending.
HandleVisibility(t) ==
    /\ Event
    /\ BeginCheck(t)
    /\ warn' = [warn EXCEPT ![t] = storedWarn]
    /\ UNCHANGED <<server, browser, shown, loading, call, data, doubt>>

\* GET /api/auth/me, or its answer is lost
ServeCheck(t) ==
    /\ check[t] # None /\ ~check[t].answered
    /\ \E lost \in BOOLEAN :
        /\ IF lost THEN Fault ELSE UNCHANGED used
        /\ check' = [check EXCEPT ![t] =
             [answered |-> TRUE,
              got |-> IF lost \/ Holder(cookie) = None THEN None
                      ELSE Projection(Holder(cookie))]]
    /\ UNCHANGED <<server, browser, view, call, data, doubt>>

\* restoreSession after its await
FinishCheck(t) ==
    /\ check[t] # None /\ check[t].answered
    /\ Outdate(t)
    /\ LET p == check[t].got IN
        /\ ShowUser(t, p)
        /\ \/ /\ p # None
              /\ WriteStoredUser(t, p)
              /\ IF shown[t] # None /\ shown[t].id # p.id
                 THEN ClearPrivateData(t) ELSE UNCHANGED data
           \/ /\ p = None
              /\ ClearStored(t, "kept")
              /\ ClearPrivateData(t)
    /\ loading' = [loading EXCEPT ![t] = FALSE]
    /\ UNCHANGED <<server, warn, call, doubt, used>>

----------------------------------------------------------------------------
\* Pages

\* ProtectedLayout renders the application for a verified user only.  Where a
\* document navigates is its user's choice.
ShowsApp(t) == ~loading[t] /\ shown[t] # None

\* renderLoginPage: no form while loading, nor for a signed-in user unless
\* the page is the one that recovers from an unconfirmed logout
ShowsForm(t, recovers) == ~loading[t] /\ (shown[t] = None \/ recovers)

\* UserMenu and LoginClient show the warning of an unconfirmed logout.
ShowsWarning(t) == ~loading[t] /\ warn[t]

----------------------------------------------------------------------------
\* Authentication calls

Free(t) == {s \in Slots : call[t][s] = None}
Send(t, kind, u, state) ==
    \E s \in Free(t) :
        /\ \A r \in Free(t) : s <= r
        /\ call' = [call EXCEPT ![t][s] =
                      [kind |-> kind, user |-> u, state |-> state,
                       got |-> None]]
Pending(t, kinds) == \E s \in Slots : call[t][s] # None /\ call[t][s].kind \in kinds

\* renderLoginSubmit: isSubmitting keeps the button from a second submission.
CanSubmit(t) == ~Pending(t, {"login", "recoverLogin", "recoverRevoke"})

\* handleSubmit up to its first await, for any credentials
Submit(t) ==
    /\ CanSubmit(t)
    /\ \E u \in Users, recovers \in BOOLEAN :
        /\ ShowsForm(t, recovers)
        /\ Send(t, IF recovers THEN "recoverLogin" ELSE "login", u, "sent")
    /\ UNCHANGED <<server, browser, view, check, data, doubt, used>>

\* The account menu's logout; nothing keeps it from a second use.
ClickLogout(t) ==
    /\ ShowsApp(t)
    /\ Send(t, "logout", shown[t].id, "sent")
    /\ UNCHANGED <<server, browser, view, check, data, doubt, used>>

\* PasswordCard: the button waits for the mutation, not for the timer.
ChangePassword(t) ==
    /\ ShowsApp(t) /\ ~Pending(t, {"password"})
    /\ Send(t, "password", shown[t].id, "sent")
    /\ UNCHANGED <<server, browser, view, check, data, doubt, used>>

\* AccountSignInCard: a new email address or the end of single sign-on
EditAccount(t) ==
    /\ ShowsApp(t) /\ ~Pending(t, {"edit"})
    /\ upsets < MaxUpsets
    /\ Send(t, "edit", shown[t].id, "sent")
    /\ UNCHANGED <<server, browser, view, check, data, doubt, used>>

\* PasswordCard's timer fires, whatever became of the card.
TimerFires(t) ==
    \E s \in Slots :
        /\ call[t][s] # None /\ call[t][s].state = "waiting"
        /\ call' = [call EXCEPT ![t][s].state = "sent"]
        /\ UNCHANGED <<server, browser, view, check, data, doubt, used>>

Answer(t, s, state, got) ==
    call' = [call EXCEPT ![t][s].state = state, ![t][s].got = got]

\* POST /api/auth/login: the account's login token is replaced.
ServeLogin(t, s) ==
    LET u == call[t][s].user
        k == [user |-> u, n |-> logins + 1]
    IN
    /\ call[t][s].kind \in {"login", "recoverLogin"}
    /\ logins < MaxSessions
    /\ logins' = logins + 1 /\ UNCHANGED <<upsets, kept>>
    /\ live' = {l \in live : l.user # u} \union {k}
    /\ cookie' = k
    /\ Answer(t, s, "ok", Projection(u))
    /\ UNCHANGED rev

\* POST /api/auth/logout and logout-all: every answer clears the cookie.
ServeRevoke(t, s) ==
    /\ call[t][s].kind \in {"logout", "recoverRevoke"}
    /\ cookie' = None
    /\ \/ /\ Holder(cookie) = None
          /\ Answer(t, s, "denied", None)
          /\ UNCHANGED <<live, used>>
       \/ /\ Holder(cookie) # None
          /\ live' = IF call[t][s].kind = "logout" THEN live \ {cookie}
                     ELSE {l \in live : l.user # cookie.user}
          /\ Answer(t, s, "ok", None)
          /\ UNCHANGED used
       \/ /\ Holder(cookie) # None
          /\ Fault
          /\ Answer(t, s, "failed", None)
          /\ UNCHANGED live
    /\ UNCHANGED rev

\* POST change-password, PUT email, DELETE oidc link, for the cookie's user
ServeAccount(t, s) ==
    /\ call[t][s].kind \in {"password", "edit"}
    /\ UNCHANGED cookie
    /\ \/ /\ Holder(cookie) = None
          /\ Answer(t, s, "denied", None)
          /\ UNCHANGED <<live, rev, used>>
       \/ /\ Holder(cookie) # None /\ call[t][s].kind = "password"
          /\ live' = {l \in live : l.user # cookie.user}
          /\ Answer(t, s, "ok", None)
          /\ UNCHANGED <<rev, used>>
       \/ /\ Holder(cookie) # None /\ call[t][s].kind = "edit"
          /\ Event
          /\ rev' = [rev EXCEPT ![cookie.user] = @ + 1]
          /\ Answer(t, s, "ok", [id |-> cookie.user, rev |-> rev[cookie.user] + 1])
          /\ UNCHANGED live

\* Refused credentials, an email address in use; or a request that never
\* reached the server
ServeFailure(t, s) ==
    /\ \/ call[t][s].kind \notin {"logout", "recoverRevoke"} /\ UNCHANGED used
       \/ Fault
    /\ Answer(t, s, "failed", None)
    /\ UNCHANGED server

\* The server revoked, but its answer and its Set-Cookie are lost.
ServeLost(t, s) ==
    /\ call[t][s].kind \in {"logout", "recoverRevoke", "password"}
    /\ Holder(cookie) # None
    /\ Fault
    /\ live' = {l \in live : l.user # cookie.user}
    /\ Answer(t, s, "failed", None)
    /\ UNCHANGED <<cookie, rev>>

Serve(t) ==
    \E s \in Slots :
        /\ call[t][s] # None /\ call[t][s].state = "sent"
        /\ \/ ServeLogin(t, s) \/ ServeRevoke(t, s)
           \/ ServeAccount(t, s) \/ ServeFailure(t, s) \/ ServeLost(t, s)
        /\ doubt' = live' \intersect
             (IF /\ call[t][s].kind \in {"logout", "recoverRevoke"}
                 /\ call'[t][s].state = "failed"
              THEN doubt \union {cookie} ELSE doubt)
        /\ UNCHANGED <<browser, view, check, data>>

----------------------------------------------------------------------------
\* Continuations of authentication calls

Done(t, s) == call' = [call EXCEPT ![t][s] = None]
Follow(t, s, kind, state) ==
    call' = [call EXCEPT ![t][s].kind = kind, ![t][s].state = state, ![t][s].got = None]
Ready(t, s, kinds) ==
    /\ call[t][s] # None
    /\ call[t][s].kind \in kinds
    /\ call[t][s].state \notin {"waiting", "sent"}

\* login after its await
FinishLogin(t, s) ==
    /\ Ready(t, s, {"login"})
    /\ Done(t, s)
    /\ IF call[t][s].state = "ok"
       THEN /\ Outdate(t)
            /\ ClearPrivateData(t)
            /\ WriteStoredUser(t, call[t][s].got)
            /\ ShowUser(t, call[t][s].got)
            /\ loading' = [loading EXCEPT ![t] = FALSE]
            /\ UNCHANGED warn
       ELSE UNCHANGED <<check, data, browser, view>>
    /\ UNCHANGED <<server, doubt, used>>

\* recoverLogout goes on with logout-all; the login is told to nobody.
FinishRecoverLogin(t, s) ==
    /\ Ready(t, s, {"recoverLogin"})
    /\ IF call[t][s].state = "ok" THEN Follow(t, s, "recoverRevoke", "sent")
       ELSE Done(t, s)
    /\ UNCHANGED <<server, browser, view, check, data, doubt, used>>

\* logoutUser takes 401 for an idempotent logout, logoutAllSessions does not.
Confirmed(c) == c.state = "ok" \/ (c.kind = "logout" /\ c.state = "denied")

\* logout and recoverLogout after the revocation, with clearSession
FinishRevoke(t, s) ==
    LET c == call[t][s] IN
    /\ Ready(t, s, {"logout", "recoverRevoke"})
    /\ Done(t, s)
    /\ Outdate(t)
    /\ ClearStored(t, IF Confirmed(c) THEN "removed" ELSE "written")
    /\ ShowUser(t, None)
    /\ loading' = [loading EXCEPT ![t] = FALSE]
    /\ warn' = [warn EXCEPT ![t] = ~Confirmed(c)]
    /\ ClearPrivateData(t)
    /\ UNCHANGED <<server, doubt, used>>

\* changePassword's onSuccess starts the timer of a logout.
FinishPassword(t, s) ==
    /\ Ready(t, s, {"password"})
    /\ IF call[t][s].state = "ok" THEN Follow(t, s, "logout", "waiting")
       ELSE Done(t, s)
    /\ UNCHANGED <<server, browser, view, check, data, doubt, used>>

\* updateUser adopts a projection of the verified user only.
FinishEdit(t, s) ==
    LET p == call[t][s].got IN
    /\ Ready(t, s, {"edit"})
    /\ Done(t, s)
    /\ IF p # None /\ shown[t] # None /\ shown[t].id = p.id
       THEN /\ WriteStoredUser(t, p)
            /\ ShowUser(t, p)
       ELSE UNCHANGED <<browser, shown>>
    /\ UNCHANGED <<server, loading, warn, check, data, doubt, used>>

Continue(t) ==
    \E s \in Slots :
        \/ FinishLogin(t, s) \/ FinishRecoverLogin(t, s) \/ FinishRevoke(t, s)
        \/ FinishPassword(t, s) \/ FinishEdit(t, s)

----------------------------------------------------------------------------
\* Private queries of the application's pages

\* The server answers for the cookie's account, whoever the page shows.  A
\* query is cancelled when the shown account changes, so that its start and
\* its service are one action.
ServeQuery(t) ==
    /\ ShowsApp(t) /\ fetch[t] = None
    /\ Holder(cookie) # None
    /\ fetch' = [fetch EXCEPT ![t] = Holder(cookie)]
    /\ UNCHANGED <<server, browser, view, check, call, cache, doubt, used>>

FinishQuery(t) ==
    /\ fetch[t] # None
    /\ cache' = [cache EXCEPT ![t] = @ \union {fetch[t]}]
    /\ fetch' = [fetch EXCEPT ![t] = None]
    /\ UNCHANGED <<server, browser, view, check, call, doubt, used>>

----------------------------------------------------------------------------
\* The environment

\* The seven days end, an administrator resets the password, another device
\* signs the account in again.
Expire ==
    /\ Fault
    /\ \E k \in live : live' = live \ {k}
    /\ UNCHANGED <<cookie, rev, browser, view, check, call, data, doubt>>

\* A reload drops every task and every pending call of the document.
Reload(t) ==
    /\ Event
    /\ ShowUser(t, None)
    /\ loading' = [loading EXCEPT ![t] = TRUE]
    /\ warn' = [warn EXCEPT ![t] = storedWarn]
    /\ BeginCheck(t)
    /\ call' = [call EXCEPT ![t] = NoCalls]
    /\ ClearPrivateData(t)
    /\ signal' = [signal EXCEPT ![t] = 0]
    /\ UNCHANGED <<server, stored, storedWarn, doubt>>

Init ==
    /\ live = {} /\ cookie = None /\ rev = [u \in Users |-> 0]
    /\ stored = None /\ storedWarn = FALSE /\ signal = [t \in Tabs |-> 0]
    /\ shown = [t \in Tabs |-> None]
    /\ loading = [t \in Tabs |-> TRUE]
    /\ warn = [t \in Tabs |-> FALSE]
    /\ check = [t \in Tabs |-> [answered |-> FALSE, got |-> None]]
    /\ call = [t \in Tabs |-> NoCalls]

    /\ cache = [t \in Tabs |-> {}] /\ fetch = [t \in Tabs |-> None]
    /\ doubt = {}
    /\ logins = 0 /\ upsets = 0 /\ kept = TRUE

\* What runs by itself once it can: tasks, timers and the server
Progress(t) ==
    \/ HandleStorage(t) \/ ServeCheck(t) \/ FinishCheck(t)
    \/ TimerFires(t) \/ Serve(t) \/ Continue(t) \/ FinishQuery(t)

\* What a person does
Choice(t) ==
    \/ HandleVisibility(t) \/ Submit(t)
    \/ ClickLogout(t) \/ ChangePassword(t) \/ EditAccount(t) \/ ServeQuery(t) \/ Reload(t)

Next == Expire \/ \E t \in Tabs : Progress(t) \/ Choice(t)

Spec == Init /\ [][Next]_vars

=============================================================================
