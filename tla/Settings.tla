------------------------------ MODULE Settings ------------------------------
(***************************************************************************)
(* The settings centre of one browser document: a dialog that follows the  *)
(* settings parameter of the URL, and the draft of the recommendation      *)
(* preferences that lives in it while one of the tracking sections shows.  *)
(*                                                                         *)
(* The router changes the URL some time after it is asked to; browser      *)
(* history changes it at any time.  The preferences are read and saved     *)
(* through requests that are sent, served and answered apart.              *)
(***************************************************************************)
EXTENDS Naturals, FiniteSets, Page

CONSTANTS
    Words,             \* keywords a reader may enter
    Databases,         \* article databases
    MaxSettingsSteps   \* bound on edits, saves, focus reads, failed
                       \* requests and changes elsewhere, together

ASSUME SettingsConstants ==
    /\ IsFiniteSet(Words) /\ IsFiniteSet(Databases) /\ None \notin Words \union Databases
    /\ MaxSettingsSteps \in Nat

VARIABLES
    setUrl,      \* the section the URL asks for, or None
    setGoing,    \* where router.replace is going: {} or one section or None
    setCentre,   \* the mounted session of the dialog
    setDraft,    \* the tracking draft
    setStored,   \* the preferences of the server; key: one is stored
    setCatalog,  \* the databases of the server
    setCache,    \* the preferences query
    setKnown,    \* the databases query
    setRead,     \* the preferences request under way
    setSave,     \* the save under way
    setUnread,   \* the server may hold what no read has been sure to bring
    setStrayed,  \* the URL moved while the dialog could not follow, or
                 \* one replacement of it overtook another
    setSteps     \* what MaxSettingsSteps bounds

setScreen == <<setUrl, setGoing, setCentre, setStrayed>>
setServer == <<setStored, setCatalog>>
setVars   == <<setScreen, setServer, setDraft, setCache, setKnown, setRead, setSave, setUnread, setSteps>>

\* Account stands for every section without a draft of its own.
TrackingSections == {"tracking", "notifications"}
Sections == TrackingSections \union {"account"}

SettingsStep == setSteps < MaxSettingsSteps /\ setSteps' = setSteps + 1

----------------------------------------------------------------------------
\* Preferences: what the draft holds is a full copy, but for the key, which
\* it keeps, clears or replaces.

Normalised(stored) == [words |-> stored.words, dbs |-> stored.dbs, key |-> "keep"]
Form == IF setDraft # None THEN setDraft ELSE Normalised(setCache)
Unavailable == IF setKnown = None THEN {} ELSE Form.dbs \ setKnown

Resolved(stored, sent) ==
    [words |-> sent.words, dbs |-> sent.dbs,
     key |-> CASE sent.key = "keep" -> stored.key [] sent.key = "clear" -> FALSE [] sent.key = "set" -> TRUE]

\* An empty selection stands for all databases.
Chosen(dbs, known, d, checked) ==
    LET base == IF dbs = {} THEN known ELSE dbs
        next == IF checked THEN base \union {d} ELSE base \ {d}
    IN  IF next = {} THEN dbs ELSE next

----------------------------------------------------------------------------
\* The dialog

Shows(centre) == centre # None /\ centre.open /\ centre.active \in TrackingSections
NoQuestion(centre) == centre # None /\ centre.question = None

Session(section) ==
    [active |-> section, open |-> TRUE, closing |-> FALSE, restoring |-> FALSE, question |-> None]

Ask(centre, kind, restore, target) ==
    [centre EXCEPT !.question = [kind |-> kind, restore |-> restore, target |-> target]]

\* Seeded fault: a draft is not asked about when history closes the dialog.
FollowedShut(centre, url, unsaved) ==
    IF centre.restoring THEN [centre EXCEPT !.restoring = url # centre.active]
    ELSE IF centre.question # None THEN centre
    ELSE IF url = None THEN [centre EXCEPT !.open = FALSE, !.closing = centre.open]
    ELSE [centre EXCEPT !.active = url, !.open = TRUE, !.closing = FALSE]

\* synchronizeSessionState
Followed(centre, url, unsaved) ==
    IF centre.restoring THEN [centre EXCEPT !.restoring = url # centre.active]
    ELSE IF centre.question # None THEN centre
    ELSE IF url = None
         THEN IF unsaved THEN Ask(centre, "close", TRUE, None)
              ELSE [centre EXCEPT !.open = FALSE, !.closing = centre.open]
    ELSE IF unsaved /\ centre.active \in TrackingSections /\ url \notin TrackingSections
         THEN Ask(centre, "section", TRUE, url)
    ELSE [centre EXCEPT !.active = url, !.open = TRUE, !.closing = FALSE]

\* The tracking content lives while it shows, and the draft in it; mounted
\* anew it reads the preferences.
Enter(centre) ==
    /\ setCentre' = centre
    /\ setDraft' = IF Shows(centre) THEN setDraft ELSE None
    /\ setRead' = IF Shows(centre) /\ ~Shows(setCentre) /\ setRead = None
                  THEN [state |-> "sent", got |-> None] ELSE setRead

\* The URL changes: the dialog follows, or asks first.
UrlBecomes(url) ==
    /\ setUrl' = url
    /\ IF url = setUrl THEN UNCHANGED <<setCentre, setDraft, setRead, setStrayed>>
       ELSE /\ Enter(IF setCentre # None THEN Followed(setCentre, url, setDraft # None)
                     ELSE IF url = None THEN None ELSE Session(url))
            /\ setStrayed' = (setCentre # None
                                /\ (setCentre.question # None \/ (setCentre.restoring /\ url # setCentre.active)))

\* router.replace drops a replacement it overtakes.
ReplaceUrl(to) ==
    /\ setGoing' = IF to = {} THEN setGoing ELSE to
    /\ setStrayed' = (setStrayed \/ (setGoing # {} /\ to # {}))

----------------------------------------------------------------------------
SetInit ==
    /\ setUrl = None
    /\ setGoing = {}
    /\ setCentre = None
    /\ setDraft = None
    /\ setStored \in [words : {{}}, dbs : {{}, Databases}, key : BOOLEAN]
    /\ setCatalog \in {known \in SUBSET Databases : Cardinality(Databases \ known) <= 1}
    /\ setCache = None
    /\ setKnown = None
    /\ setRead = None
    /\ setSave = None
    /\ setUnread = FALSE
    /\ setStrayed = FALSE
    /\ setSteps = 0

\* A link, or browser history; it drops a replacement under way.
Navigate(url) ==
    /\ url # setUrl
    /\ setGoing' = {}
    /\ UrlBecomes(url)
    /\ UNCHANGED <<setServer, setCache, setKnown, setSave, setUnread, setSteps>>

Arrive ==
    /\ \E url \in setGoing : UrlBecomes(url)
    /\ setGoing' = {}
    /\ UNCHANGED <<setServer, setCache, setKnown, setSave, setUnread, setSteps>>

\* A category is picked in the dialog, or the dialog is closed.
RequestSection(section) ==
    /\ NoQuestion(setCentre) /\ setCentre.open /\ ~setCentre.restoring /\ section # setCentre.active
    /\ IF setDraft # None /\ setCentre.active \in TrackingSections /\ section \notin TrackingSections
       THEN setCentre' = Ask(setCentre, "section", FALSE, section) /\ UNCHANGED <<setGoing, setStrayed>>
       ELSE ReplaceUrl({section}) /\ UNCHANGED setCentre
    /\ UNCHANGED <<setUrl, setServer, setDraft, setCache, setKnown, setRead, setSave, setUnread, setSteps>>

RequestClose ==
    /\ NoQuestion(setCentre) /\ setCentre.open /\ ~setCentre.restoring
    /\ IF setDraft # None
       THEN setCentre' = Ask(setCentre, "close", FALSE, None) /\ UNCHANGED <<setGoing, setStrayed, setDraft, setRead>>
       ELSE ReplaceUrl({None}) /\ Enter([setCentre EXCEPT !.open = FALSE, !.closing = TRUE])
    /\ UNCHANGED <<setUrl, setServer, setCache, setKnown, setSave, setUnread, setSteps>>

\* Seeded fault: the URL is left where history has put it.
LeftThere(url, question, active) == {}

\* Where "keep editing" sends the URL.
Back(url, question, active) == IF question.restore THEN {active} ELSE {}

CancelQuestion ==
    /\ setCentre # None /\ setCentre.question # None /\ setSave = None
    /\ LET question == setCentre.question
           back == Back(setUrl, question, setCentre.active)
       IN  /\ ReplaceUrl(back)
           /\ setCentre' = [setCentre EXCEPT !.restoring = question.restore, !.question = None]
    /\ UNCHANGED <<setUrl, setServer, setDraft, setCache, setKnown, setRead, setSave, setUnread, setSteps>>

\* The draft is given up, the dialog goes where it was asked to.
ConfirmQuestion ==
    /\ setCentre # None /\ setCentre.question # None /\ setSave = None
    /\ LET question == setCentre.question
           closes == question.kind = "close"
           centre == [setCentre EXCEPT !.question = None,
                                       !.open = ~closes /\ @,
                                       !.closing = closes \/ @,
                                       !.active = IF closes THEN @ ELSE question.target]
       IN  /\ ReplaceUrl(IF question.restore THEN {} ELSE {question.target})
           /\ setCentre' = centre
           /\ setDraft' = None
    /\ UNCHANGED <<setUrl, setServer, setCache, setKnown, setRead, setSave, setUnread, setSteps>>

\* The closed dialog has left the screen: the session ends with its URL.
CloseSession ==
    /\ setCentre # None /\ setCentre.closing
    /\ setCentre' = IF setUrl = None THEN None ELSE [setCentre EXCEPT !.closing = FALSE]
    /\ UNCHANGED <<setUrl, setGoing, setStrayed, setServer, setDraft, setCache, setKnown, setRead, setSave, setUnread, setSteps>>

----------------------------------------------------------------------------
\* The form: shown with data or a draft, disabled while saving.

CanEdit == Shows(setCentre) /\ NoQuestion(setCentre) /\ setSave = None /\ (setCache # None \/ setDraft # None)

UpdateDraft(draft) ==
    /\ setDraft' = draft
    /\ SettingsStep
    /\ UNCHANGED <<setScreen, setServer, setCache, setKnown, setRead, setSave, setUnread>>

\* A keyword is added or taken out.
ToggleWord(w) ==
    /\ CanEdit /\ setCentre.active = "tracking"
    /\ UpdateDraft([Form EXCEPT !.words = IF w \in @ THEN @ \ {w} ELSE @ \union {w}])

\* The checkbox of an available database, the removal of another.  Asked to
\* take the only one out, the form shows a notice.
SetDatabaseSelected(d) ==
    LET checked == Form.dbs = {} \/ d \in Form.dbs
        chosen == Chosen(Form.dbs, setKnown, d, ~checked)
    IN  /\ CanEdit /\ setCentre.active = "tracking" /\ setKnown # None
        /\ d \in setKnown \/ (d \in Unavailable /\ Cardinality(Form.dbs) # 1)
        /\ chosen # Form.dbs
        /\ UpdateDraft([Form EXCEPT !.dbs = chosen])

SelectAllDatabases ==
    /\ CanEdit /\ setCentre.active = "tracking" /\ setKnown # None
    /\ setKnown # {} \/ Unavailable # {}
    /\ UpdateDraft([Form EXCEPT !.dbs = {}])

\* The secret field: typing replaces, the toggle of a stored key clears or keeps.
EditKey(mark) ==
    /\ CanEdit /\ mark # Form.key
    /\ \/ mark = "set"
       \/ mark = "clear" /\ setCache # None /\ setCache.key
       \/ mark = "keep" /\ setCache # None /\ setCache.key /\ Form.key = "clear"
    /\ UpdateDraft([Form EXCEPT !.key = mark])

DiscardDraft ==
    /\ Shows(setCentre) /\ NoQuestion(setCentre) /\ setSave = None /\ setDraft # None
    /\ setDraft' = None
    /\ UNCHANGED <<setScreen, setServer, setCache, setKnown, setRead, setSave, setUnread, setSteps>>

----------------------------------------------------------------------------
\* Saving

SaveDraft ==
    /\ Shows(setCentre) /\ NoQuestion(setCentre)
    /\ setSave = None /\ setDraft # None /\ Unavailable = {}
    /\ setSave' = [state |-> "sent", sent |-> setDraft, got |-> None]
    /\ SettingsStep
    /\ UNCHANGED <<setScreen, setServer, setDraft, setCache, setKnown, setRead, setUnread>>

ServeSave ==
    /\ setSave # None /\ setSave.state = "sent"
    /\ setStored' = Resolved(setStored, setSave.sent)
    /\ setSave' = [setSave EXCEPT !.state = "ok", !.got = Resolved(setStored, setSave.sent)]
    /\ UNCHANGED <<setScreen, setCatalog, setDraft, setCache, setKnown, setRead, setUnread, setSteps>>

\* The server refuses, or no answer comes.
FailSave ==
    /\ setSave # None
    /\ setUnread' = (setUnread \/ setSave.state = "ok")
    /\ setSave' = None
    /\ SettingsStep
    /\ UNCHANGED <<setScreen, setServer, setDraft, setCache, setKnown, setRead>>

\* Seeded fault: the read under way is taken for the one that is wanted.
Joined(read, shows) == IF read = None THEN [state |-> "sent", got |-> None] ELSE read

\* invalidateQueries: a shown query drops its read and starts another.
Invalidated(read, shows) == IF shows THEN [state |-> "sent", got |-> None] ELSE read

AnswerSave ==
    /\ setSave # None /\ setSave.state = "ok"
    /\ setCache' = setSave.got
    /\ setDraft' = None
    /\ setSave' = None
    /\ setRead' = Invalidated(setRead, Shows(setCentre))
    /\ UNCHANGED <<setScreen, setServer, setKnown, setUnread, setSteps>>

----------------------------------------------------------------------------
\* Reading

\* The window is focused.
FocusSettings ==
    /\ Shows(setCentre) /\ setRead = None
    /\ setRead' = [state |-> "sent", got |-> None]
    /\ SettingsStep
    /\ UNCHANGED <<setScreen, setServer, setDraft, setCache, setKnown, setSave, setUnread>>

ServePreferences ==
    /\ setRead # None /\ setRead.state = "sent"
    /\ setRead' = [state |-> "served", got |-> setStored]
    /\ setUnread' = FALSE
    /\ UNCHANGED <<setScreen, setServer, setDraft, setCache, setKnown, setSave, setSteps>>

AnswerPreferences ==
    /\ setRead # None /\ setRead.state = "served"
    /\ setCache' = setRead.got
    /\ setRead' = None
    /\ UNCHANGED <<setScreen, setServer, setDraft, setKnown, setSave, setUnread, setSteps>>

FailPreferences ==
    /\ setRead # None
    /\ setRead' = None
    /\ setUnread' = TRUE
    /\ SettingsStep
    /\ UNCHANGED <<setScreen, setServer, setDraft, setCache, setKnown, setSave>>

\* The list of databases is read at once.
ReadCatalog ==
    /\ Shows(setCentre)
    /\ setKnown' = setCatalog
    /\ UNCHANGED <<setScreen, setServer, setDraft, setCache, setRead, setSave, setUnread, setSteps>>

\* Another device saves other keywords or another key.
ChangeSettingsElsewhere ==
    /\ \/ \E w \in Words : setStored' = [setStored EXCEPT !.words = IF w \in @ THEN @ \ {w} ELSE @ \union {w}]
       \/ setStored' = [setStored EXCEPT !.key = ~@]
    /\ setUnread' = TRUE
    /\ SettingsStep
    /\ UNCHANGED <<setScreen, setCatalog, setDraft, setCache, setKnown, setRead, setSave>>

\* A database goes or comes.
ChangeCatalog(d) ==
    /\ setCatalog' = IF d \in setCatalog THEN setCatalog \ {d} ELSE setCatalog \union {d}
    /\ SettingsStep
    /\ UNCHANGED <<setScreen, setStored, setDraft, setCache, setKnown, setRead, setSave, setUnread>>

SetNext ==
    \/ \E url \in Sections \union {None} : Navigate(url)
    \/ Arrive \/ RequestClose \/ CancelQuestion \/ ConfirmQuestion \/ CloseSession
    \/ \E section \in Sections : RequestSection(section)
    \/ \E w \in Words : ToggleWord(w)
    \/ \E d \in Databases : SetDatabaseSelected(d) \/ ChangeCatalog(d)
    \/ SelectAllDatabases
    \/ \E mark \in {"keep", "clear", "set"} : EditKey(mark)
    \/ DiscardDraft \/ SaveDraft \/ ServeSave \/ FailSave \/ AnswerSave
    \/ FocusSettings \/ ServePreferences \/ AnswerPreferences \/ FailPreferences
    \/ ReadCatalog \/ ChangeSettingsElsewhere

SetSpec == SetInit /\ [][SetNext]_setVars

----------------------------------------------------------------------------
\* What the settings centre keeps true.

Preferences == [words : SUBSET Words, dbs : SUBSET Databases, key : BOOLEAN]
Drafts == [words : SUBSET Words, dbs : SUBSET Databases, key : {"keep", "clear", "set"}]
Questions == [kind : {"close", "section"}, restore : BOOLEAN, target : Sections \union {None}]
Sessions == [active : Sections, open : BOOLEAN, closing : BOOLEAN, restoring : BOOLEAN,
             question : Questions \union {None}]
Reads == [state : {"sent"}, got : {None}] \union [state : {"served"}, got : Preferences]
Saves == [state : {"sent"}, sent : Drafts, got : {None}] \union [state : {"ok"}, sent : Drafts, got : Preferences]

ASSUME NoneIsNoSetting == None \notin Sections \union Questions \union Sessions \union Drafts \union Reads \union Saves

\* Types: the URL, the dialog's state machine, drafts and requests have the
\* shapes of the code's types; a draft lives only in a tracking section.
SetTypeOK ==
    /\ setUrl \in Sections \union {None}
    /\ setGoing \in {{}} \union {{s} : s \in Sections \union {None}}
    /\ setCentre \in Sessions \union {None}
    /\ setDraft \in Drafts \union {None} /\ (setDraft # None => Shows(setCentre))
    /\ setStored \in Preferences /\ setCache \in Preferences \union {None}
    /\ setCatalog \subseteq Databases /\ setKnown \in (SUBSET Databases) \union {None}
    /\ setRead \in Reads \union {None} /\ setSave \in Saves \union {None}
    /\ setUnread \in BOOLEAN /\ setStrayed \in BOOLEAN /\ setSteps \in 0..MaxSettingsSteps

\* Whatever the reader, the router, browser history and late answers do, a
\* draft disappears only because the reader discards it, confirms giving it
\* up, or a save of exactly what it holds is answered.
DraftsAreNotLost ==
    [][setDraft # None /\ setDraft' = None =>
        \/ DiscardDraft
        \/ ConfirmQuestion
        \/ AnswerSave /\ setSave.sent = setDraft]_setVars

\* The dialog ends up where the URL is: once the router has arrived and no
\* question is open, the section the URL names is the one shown, nothing is
\* shown without one, and the dialog is not left waiting for the URL; unless
\* the URL moved while a question was open or it was being put back.
UrlAgrees ==
    setGoing = {} /\ ~setStrayed /\ (setCentre = None \/ setCentre.question = None) =>
        /\ (setUrl # None) = (setCentre # None /\ setCentre.open)
        /\ setUrl # None => setCentre.active = setUrl
        /\ setCentre # None => ~setCentre.restoring

\* A save is not undone on the screen by a read that was under way: with no
\* request left, the preferences shown without a draft are the server's,
\* unless they changed there after the last read or an answer was lost.
CacheAgrees ==
    setRead = None /\ setSave = None /\ ~setUnread /\ setCache # None => setCache = setStored
=============================================================================
