------------------------------ MODULE LoginForm ------------------------------
(***************************************************************************)
(* The page /login of one document: its forms for signing in, registering  *)
(* and recovering from an unconfirmed logout, and what becomes of their    *)
(* answers.                                                                *)
(*                                                                         *)
(* The session behind it is module Session; here it is a reader who is     *)
(* signed in or not, in this document or, told by a storage event, in      *)
(* another.  The tree is mounted under the identity of the reader, so that *)
(* a change of it begins the page anew; a change of the URL does not.      *)
(***************************************************************************)
EXTENDS Naturals, Page

CONSTANTS
    Pages,          \* the protected pages a reader may be sent back to
    Home,           \* the page without a wish, one of them
    MaxLoginSteps   \* bound on submissions, links, failures and changes elsewhere

ASSUME LoginConstants == Home \in Pages /\ None \notin Pages /\ MaxLoginSteps \in Nat

VARIABLES
    lgPage,      \* the URL: [recover, next], or the protected page that is shown
    lgSignedIn,  \* user # null
    lgLoading,   \* the session is being restored
    lgWarning,   \* an unconfirmed logout is known
    lgMode,      \* mode, "login" or "register"
    lgError,     \* the submission the error is about, or None
    lgDone,      \* isRecoveryComplete
    lgSent,      \* isSubmitting: the submission under way, or None
    lgOrphan,    \* a submission of an earlier mount that is still under way
    lgNeeds,     \* inviteRequired, bootstrapRequired and the providers: unread, due or read
    lgServer,    \* what the server holds: bootstrap needed, the reader's account
    lgSpent

lgForm == <<lgMode, lgError, lgDone, lgSent, lgOrphan, lgNeeds>>
lgVars == <<lgPage, lgSignedIn, lgLoading, lgWarning, lgForm, lgServer, lgSpent>>

LoginUrls == [recover : BOOLEAN, next : Pages \union {None}]
ASSUME PagesApart == \A page \in Pages : page \notin LoginUrls
Submissions == [kind : {"login", "register", "recover"}, next : Pages, stage : {"first", "second"}]
Unread == [bootstrap |-> FALSE, state |-> "unread"]
LgStep == lgSpent < MaxLoginSteps /\ lgSpent' = lgSpent + 1

OnLogin == lgPage \in LoginUrls
\* A wish that is absent or no path of the application leads home.
ReturnPath(url) == IF url.next = None THEN Home ELSE url.next
\* The URL a protected page turns to without a reader
ReturnUrl(page) == [recover |-> FALSE, next |-> page]

\* The effects of a mount or of another reader: with nobody signed in and no
\* recovery, the requirement and the providers are read again.
Needs(url, loading, signedIn) ==
    IF loading \/ signedIn \/ url.recover THEN [lgNeeds EXCEPT !.state = IF @ = "due" THEN "unread" ELSE @]
    ELSE [lgNeeds EXCEPT !.state = "due"]

\* A new mount: nothing is typed, shown or awaited, but a request of the
\* mount before goes on.
Mounted(url, loading, signedIn) ==
    /\ lgMode' = "login" /\ lgError' = None /\ lgDone' = FALSE /\ lgSent' = None
    /\ lgOrphan' = IF lgSent # None THEN lgSent ELSE lgOrphan
    /\ lgNeeds' = [Unread EXCEPT !.state = IF loading \/ signedIn \/ url.recover THEN "unread" ELSE "due"]

\* The identity changes: the page is mounted again, and one who is signed in
\* leaves the forms but the one of the recovery.
Turned(signedIn, url) ==
    /\ lgSignedIn' = signedIn /\ lgLoading' = FALSE
    /\ lgPage' = IF signedIn /\ ~url.recover THEN ReturnPath(url) ELSE url
    /\ IF signedIn = lgSignedIn
       THEN lgNeeds' = Needs(url, FALSE, signedIn) /\ UNCHANGED <<lgMode, lgError, lgDone, lgSent, lgOrphan>>
       ELSE Mounted(url, FALSE, signedIn)

----------------------------------------------------------------------------
\* What is shown

\* renderLoginPage
FormsShow == OnLogin /\ ~lgLoading /\ (~lgSignedIn \/ lgPage.recover)
\* renderLoginCardContent: the form, or that the recovery is complete
FormShows == FormsShow /\ ~lgDone
Bootstraps == lgMode = "register" /\ lgNeeds.bootstrap

LgInit ==
    /\ lgPage \in LoginUrls /\ lgSignedIn = FALSE /\ lgLoading = TRUE
    /\ lgWarning \in BOOLEAN
    /\ lgMode = "login" /\ lgError = None /\ lgDone = FALSE /\ lgSent = None /\ lgOrphan = None
    /\ lgNeeds = Unread
    /\ lgServer \in [bootstrap : BOOLEAN, account : BOOLEAN]
    /\ lgServer.bootstrap => ~lgServer.account
    /\ lgSpent = 0

----------------------------------------------------------------------------
\* The forms

\* The identity is read when the document begins.
Restore ==
    /\ OnLogin /\ lgLoading
    /\ \E signedIn \in BOOLEAN :
         /\ signedIn => lgServer.account
         /\ Turned(signedIn, lgPage)
    /\ UNCHANGED <<lgWarning, lgServer, lgSpent>>

\* getInviteRequirement and getAuthProviders; a failure is not told.
ReadNeeds ==
    /\ FormsShow /\ lgNeeds.state = "due"
    /\ \/ lgNeeds' = [bootstrap |-> lgServer.bootstrap, state |-> "read"]
       \/ lgNeeds' = [lgNeeds EXCEPT !.state = "read"]
    /\ UNCHANGED <<lgPage, lgSignedIn, lgLoading, lgWarning, lgMode, lgError, lgDone, lgSent, lgOrphan, lgServer, lgSpent>>

\* The mode may change while a submission is under way.
SwitchMode ==
    /\ LgStep /\ FormShows /\ ~lgPage.recover
    /\ lgMode' = IF lgMode = "login" THEN "register" ELSE "login"
    /\ lgError' = None
    /\ UNCHANGED <<lgPage, lgSignedIn, lgLoading, lgWarning, lgDone, lgSent, lgOrphan, lgNeeds, lgServer>>

\* handleSubmit
SubmitForm ==
    /\ LgStep /\ FormShows /\ lgSent = None
    /\ ~lgPage.recover => ~Bootstraps
    /\ lgSent' = [kind |-> IF lgPage.recover THEN "recover" ELSE lgMode, next |-> ReturnPath(lgPage), stage |-> "first"]
    /\ lgError' = None /\ lgDone' = FALSE
    /\ UNCHANGED <<lgPage, lgSignedIn, lgLoading, lgWarning, lgMode, lgOrphan, lgNeeds, lgServer>>

----------------------------------------------------------------------------
\* Answers

\* The login of a submission, or the login after a registration, went
\* through: both the new mount and the submission go to the page.
SignsIn(sent) ==
    /\ IF lgSignedIn THEN lgOrphan' = None /\ UNCHANGED <<lgMode, lgError, lgDone, lgSent, lgNeeds>>
                     ELSE /\ lgMode' = "login" /\ lgError' = None /\ lgDone' = FALSE /\ lgNeeds' = Unread
                          /\ lgSent' = None /\ lgOrphan' = IF sent = lgSent THEN None ELSE lgSent
    /\ lgSignedIn' = TRUE /\ lgLoading' = FALSE
    /\ lgPage' = sent.next
    /\ UNCHANGED lgWarning

\* The revocation of all sessions was answered: nobody is signed in.  Only
\* the mount that asked tells of it.
Revoked(confirmed) ==
    /\ lgSignedIn' = FALSE /\ lgLoading' = FALSE /\ lgWarning' = ~confirmed
    /\ UNCHANGED lgPage
    /\ IF lgSignedIn THEN /\ lgMode' = "login" /\ lgError' = None /\ lgDone' = FALSE
                          /\ lgSent' = None /\ lgOrphan' = None
                          /\ lgNeeds' = [Unread EXCEPT !.state = IF lgPage.recover THEN "unread" ELSE "due"]
       ELSE /\ lgDone' = confirmed /\ lgError' = IF confirmed THEN None ELSE lgSent
            /\ lgSent' = None /\ UNCHANGED <<lgMode, lgOrphan, lgNeeds>>

\* The submission under way is refused or lost.
RefuseSubmit ==
    /\ LgStep /\ OnLogin /\ lgSent # None
    /\ IF lgSent.kind = "recover" /\ lgSent.stage = "second"
       THEN Revoked(FALSE)
       ELSE /\ lgError' = lgSent /\ lgSent' = None
            /\ UNCHANGED <<lgPage, lgSignedIn, lgLoading, lgWarning, lgMode, lgDone, lgOrphan, lgNeeds>>
    /\ UNCHANGED lgServer

\* A registration makes the account and goes on with its login; a recovery
\* signs in and goes on with the revocation.
GoOn ==
    /\ OnLogin /\ lgSent # None /\ lgSent.stage = "first" /\ lgSent.kind # "login"
    /\ IF lgSent.kind = "register"
       THEN ~lgServer.bootstrap /\ ~lgServer.account /\ lgServer' = [lgServer EXCEPT !.account = TRUE]
       ELSE lgServer.account /\ UNCHANGED lgServer
    /\ lgSent' = [lgSent EXCEPT !.stage = "second"]
    /\ UNCHANGED <<lgPage, lgSignedIn, lgLoading, lgWarning, lgMode, lgError, lgDone, lgOrphan, lgNeeds, lgSpent>>

\* The last request of the submission went through.
CompleteSubmit ==
    /\ OnLogin /\ lgSent # None /\ (lgSent.stage = "second" \/ lgSent.kind = "login")
    /\ lgServer.account
    /\ IF lgSent.kind = "recover" THEN Revoked(TRUE) ELSE SignsIn(lgSent)
    /\ UNCHANGED <<lgServer, lgSpent>>

\* A submission whose mount is gone: a login still signs in and moves the
\* page, the rest is left to module Session.
CompleteOrphan ==
    /\ lgOrphan # None /\ lgOrphan.kind = "login" /\ lgServer.account
    /\ IF OnLogin THEN SignsIn(lgOrphan) ELSE lgOrphan' = None /\ lgPage' = lgOrphan.next
          /\ lgSignedIn' = TRUE /\ UNCHANGED <<lgLoading, lgWarning, lgMode, lgError, lgDone, lgSent, lgNeeds>>
    /\ UNCHANGED <<lgServer, lgSpent>>

ForgetOrphan ==
    /\ lgOrphan # None /\ lgOrphan' = None
    /\ UNCHANGED <<lgPage, lgSignedIn, lgLoading, lgWarning, lgMode, lgError, lgDone, lgSent, lgNeeds, lgServer, lgSpent>>

----------------------------------------------------------------------------
\* Links, and changes elsewhere

\* The URL changes and the page stays mounted.
Turns(url) ==
    /\ lgPage' = url /\ lgNeeds' = Needs(url, lgLoading, lgSignedIn)
    /\ UNCHANGED <<lgSignedIn, lgLoading, lgWarning, lgMode, lgError, lgDone, lgSent, lgOrphan, lgServer>>

\* renderLoginLogoutWarning: the link to the recovery
FollowWarning ==
    /\ LgStep /\ FormsShow /\ lgWarning /\ ~lgDone /\ ~lgPage.recover
    /\ Turns([recover |-> TRUE, next |-> None])

\* The link back to the login once everything is revoked
ReturnToLogin ==
    /\ LgStep /\ FormsShow /\ lgDone
    /\ Turns(ReturnUrl(None))

\* Another document signs in or out, which the storage event tells.
ChangeSessionElsewhere ==
    /\ LgStep /\ OnLogin /\ ~lgLoading
    /\ lgServer.account
    /\ Turned(~lgSignedIn, lgPage)
    /\ UNCHANGED <<lgWarning, lgServer>>

\* The reader leaves a protected page without a session, which may be a
\* logout nobody confirmed, or the administrator has been set up.
LoseSession ==
    /\ LgStep /\ ~OnLogin
    /\ lgSignedIn' = FALSE /\ lgWarning' \in BOOLEAN /\ lgPage' = ReturnUrl(lgPage)
    /\ Mounted(ReturnUrl(lgPage), FALSE, FALSE)
    /\ UNCHANGED <<lgLoading, lgServer>>

Bootstrap ==
    /\ LgStep /\ lgServer.bootstrap
    /\ lgServer' = [lgServer EXCEPT !.bootstrap = FALSE]
    /\ UNCHANGED <<lgPage, lgSignedIn, lgLoading, lgWarning, lgForm>>

LgNext ==
    \/ Restore \/ ReadNeeds \/ SwitchMode \/ SubmitForm
    \/ RefuseSubmit \/ GoOn \/ CompleteSubmit \/ CompleteOrphan \/ ForgetOrphan
    \/ FollowWarning \/ ReturnToLogin
    \/ ChangeSessionElsewhere \/ LoseSession \/ Bootstrap

LgSpec == LgInit /\ [][LgNext]_lgVars

----------------------------------------------------------------------------
\* What the page /login keeps.

\* Types: what the forms show fits what is under way: an error or the end of
\* a recovery only without a submission, the end of a recovery without an
\* error, and nobody who is signed in before a form but the recovery's.
LgTypeOK ==
    /\ lgPage \in LoginUrls \union Pages
    /\ lgSignedIn \in BOOLEAN /\ lgLoading \in BOOLEAN /\ lgWarning \in BOOLEAN
    /\ lgMode \in {"login", "register"} /\ lgDone \in BOOLEAN
    /\ {lgError, lgSent, lgOrphan} \subseteq Submissions \union {None}
    /\ lgNeeds \in [bootstrap : BOOLEAN, state : {"unread", "due", "read"}]
    /\ lgServer \in [bootstrap : BOOLEAN, account : BOOLEAN]
    /\ lgServer.bootstrap => ~lgServer.account
    /\ lgSpent \in 0..MaxLoginSteps
    /\ lgSent # None => lgError = None /\ ~lgDone
    /\ lgDone => lgError = None
    /\ lgSignedIn /\ OnLogin => lgPage.recover
    /\ lgSignedIn => ~lgLoading
=============================================================================
