---------------------------- MODULE ArticleDetail ----------------------------
(***************************************************************************)
(* One article in the desk or the sheet: how it may be read, which is asked *)
(* anew each time it is opened and may be answered from a CNKI session that *)
(* ends at any time; the related articles below it; and the copy buttons,   *)
(* whose mark a timer takes away.                                           *)
(***************************************************************************)
EXTENDS Naturals, FiniteSets, Page

CONSTANTS
    Opened,         \* articles that are opened
    MaxTimers       \* bound on copies under way and their timers

ASSUME DetailConstants == MaxTimers \in Nat \ {0} /\ None \notin Opened

VARIABLES
    adShown,     \* the article open
    adSession,   \* the CNKI session is valid
    adAccess,    \* the last answer of each article: None, "login" or "link"
    adFailed,    \* articles whose last request failed
    adFetch,     \* the request of the open article: "none", "sent" or its answer
    adFresh,     \* the open article's answer was given since it was opened
    adRelated,   \* its related articles: "unseen", "loading", "failed" or "shown"
    adMark,      \* the copy mark: None, "title", "info" or "failed"
    adCopying,   \* copies under way
    adTimers,    \* timers that will take the mark away
    adHeld       \* the last of them can still be cleared

accessVars == <<adSession, adAccess, adFailed, adFetch, adFresh>>
copyVars   == <<adMark, adCopying, adTimers, adHeld>>
adVars     == <<adShown, accessVars, adRelated, copyVars>>

AdInit ==
    /\ adShown = None /\ adSession \in BOOLEAN
    /\ adAccess = [a \in Opened |-> None] /\ adFailed = {} /\ adFetch = "none" /\ adFresh = FALSE
    /\ adRelated = "unseen"
    /\ adMark = None /\ adCopying = {} /\ adTimers = 0 /\ adHeld = FALSE

----------------------------------------------------------------------------
\* Access

IsFetching == adFetch # "none"

\* Full text and login are offered only from an answer that is not being
\* asked again; the abstract is kept through refreshes.
CanShowAccess == ~IsFetching /\ adShown \notin adFailed

Known(answer) == adShown # None /\ adAccess[adShown] = answer
ShowsFullText == CanShowAccess /\ Known("link")
ShowsLogin    == CanShowAccess /\ Known("login")

\* An article is opened, left for a related one or come back to, or closed:
\* its view is a new one, and a request under way is given up.
ShowArticle(a) ==
    /\ a # adShown
    /\ adShown' = a
    /\ adFetch' = IF a = None THEN "none" ELSE "sent"
    /\ adFresh' = FALSE
    /\ adRelated' = "unseen"
    /\ adMark' = None /\ adCopying' = {} /\ adTimers' = 0 /\ adHeld' = FALSE
    /\ UNCHANGED <<adSession, adAccess, adFailed>>

\* The page regains the focus: what is stale is asked again.
Refocus ==
    /\ adShown # None /\ adFetch = "none"
    /\ adFetch' = "sent"
    /\ UNCHANGED <<adShown, adSession, adAccess, adFailed, adFresh, adRelated, copyVars>>

\* The server answers from the session it has.
ServeAccess ==
    /\ adFetch = "sent"
    /\ adFetch' = IF adSession THEN "link" ELSE "login"
    /\ UNCHANGED <<adShown, adSession, adAccess, adFailed, adFresh, adRelated, copyVars>>

AnswerAccess ==
    /\ adFetch \in {"link", "login"}
    /\ adAccess' = [adAccess EXCEPT ![adShown] = adFetch]
    /\ adFailed' = adFailed \ {adShown}
    /\ adFetch' = "none" /\ adFresh' = TRUE
    /\ UNCHANGED <<adShown, adSession, adRelated, copyVars>>

FailAccess ==
    /\ IsFetching
    /\ adFailed' = adFailed \union {adShown}
    /\ adFetch' = "none"
    /\ UNCHANGED <<adShown, adSession, adAccess, adFresh, adRelated, copyVars>>

SessionTurns ==
    /\ adSession' = ~adSession
    /\ UNCHANGED <<adShown, adAccess, adFailed, adFetch, adFresh, adRelated, copyVars>>

----------------------------------------------------------------------------
\* Related articles: asked when the section nears the viewport

SeeRelated ==
    /\ adShown # None /\ adRelated = "unseen"
    /\ adRelated' = "loading"
    /\ UNCHANGED <<adShown, accessVars, copyVars>>

AnswerRelated ==
    /\ adRelated = "loading"
    /\ adRelated' \in {"shown", "failed"}
    /\ UNCHANGED <<adShown, accessVars, copyVars>>

\* Opening one shows it in place of the article, until the reader comes back.
ReadRelated(a) == adRelated = "shown" /\ a # None /\ ShowArticle(a)

----------------------------------------------------------------------------
\* Copying

ClearTimer == IF adHeld THEN adTimers - 1 ELSE adTimers

Copy(target) ==
    /\ adShown # None /\ target \notin adCopying
    /\ adTimers + Cardinality(adCopying) < MaxTimers
    /\ adTimers' = ClearTimer /\ adHeld' = FALSE
    /\ adCopying' = adCopying \union {target}
    /\ UNCHANGED <<adShown, accessVars, adRelated, adMark>>

\* The clipboard answers: the mark is shown and its timer started.
Marked(target, mark) ==
    /\ adMark' = mark
    /\ adTimers' = adTimers + 1 /\ adHeld' = TRUE

Copied(target) ==
    /\ target \in adCopying
    /\ adCopying' = adCopying \ {target}
    /\ \E mark \in {target, "failed"} : Marked(target, mark)
    /\ UNCHANGED <<adShown, accessVars, adRelated>>

TimerFires ==
    /\ adTimers > 0
    /\ adTimers' = adTimers - 1 /\ adHeld' = FALSE
    /\ adMark' = None
    /\ UNCHANGED <<adShown, accessVars, adRelated, adCopying>>

AdNext ==
    \/ \E a \in Opened \union {None} : ShowArticle(a) \/ ReadRelated(a)
    \/ Refocus \/ ServeAccess \/ AnswerAccess \/ FailAccess \/ SessionTurns
    \/ SeeRelated \/ AnswerRelated
    \/ \E target \in {"title", "info"} : Copy(target) \/ Copied(target)
    \/ TimerFires

AdSpec == AdInit /\ [][AdNext]_adVars

----------------------------------------------------------------------------
\* What the view of one article promises.

\* Types: the parts of the view have the states of the code.
AdTypeOK ==
    /\ adShown \in Opened \union {None} /\ adSession \in BOOLEAN
    /\ adAccess \in [Opened -> {None, "login", "link"}] /\ adFailed \subseteq Opened
    /\ adFetch \in {"none", "sent", "login", "link"} /\ adFresh \in BOOLEAN
    /\ adRelated \in {"unseen", "loading", "failed", "shown"}
    /\ adMark \in {None, "title", "info", "failed"} /\ adCopying \subseteq {"title", "info"}
    /\ adTimers \in 0..MaxTimers /\ (adHeld => adTimers > 0)

\* Full text and the way to log in are offered only from an answer the server
\* gave since the article was opened, never from the one kept when it was
\* open before, which may be of another CNKI session.
FullTextIsFresh == ShowsFullText \/ ShowsLogin => adFresh
=============================================================================
