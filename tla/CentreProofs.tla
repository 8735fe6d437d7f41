---------------------------- MODULE CentreProofs ----------------------------
(***************************************************************************)
(* What the two centres keep for any number of words, databases, tasks,    *)
(* rows and keys: the draft of the preferences against the URL and the     *)
(* server, the editor of scheduled tasks, the cards with their late        *)
(* answers, the merge of the runtime settings, the CNKI session, which     *)
(* stays that of the newest login whatever overlaps, is lost or cut off,   *)
(* the notices of a journal, which are pages of one reading, the AI        *)
(* fields, which the form shows as the draft beneath it has them, the      *)
(* orders of providers and the forms of the login page.                    *)
(***************************************************************************)
EXTENDS MCCentre, SequenceTheorems, WellFoundedInduction, TLAPS

----------------------------------------------------------------------------
\* The settings centre

\* The dialog: what it asks or restores leaves it open, and a question is
\* about going where the dialog is not.
CentreFits(centre) ==
    /\ centre.question # None \/ centre.restoring => centre.open
    /\ centre.restoring => centre.question = None
    /\ centre.closing => ~centre.open
    /\ centre.question # None =>
         /\ (centre.question.kind = "close") = (centre.question.target = None)
         /\ centre.question.target # centre.active

DialogFits == setCentre # None => CentreFits(setCentre)

\* A save under way is of the draft.
SaveIsOfDraft == setSave # None => setDraft # None /\ setSave.sent = setDraft

\* Where the URL is against the dialog, and where the router takes it.
UrlFits ==
    ~setStrayed =>
        /\ \A to \in setGoing : to # setUrl
        /\ setCentre # None /\ setCentre.question # None =>
             IF setCentre.question.restore THEN setGoing = {} /\ setUrl = setCentre.question.target
             ELSE setGoing = {} => setUrl = setCentre.active
        /\ setCentre # None /\ setCentre.restoring => setGoing = {setCentre.active}
        /\ UrlAgrees

\* What was read, and what is in the cache once it was, is what is stored,
\* unless a save that was served is still to be answered.
ReadsFit ==
    ~setUnread /\ (setSave = None \/ setSave.state = "sent") =>
        /\ setRead = None /\ setCache # None => setCache = setStored
        /\ setRead # None /\ setRead.state = "served" => setRead.got = setStored

SettingsInv == SetTypeOK /\ DialogFits /\ SaveIsOfDraft /\ UrlFits /\ ReadsFit

\* Following the URL: an unsaved draft keeps showing, and a dialog that was
\* not asking ends up where the URL is, or asks about going there.
LEMMA FollowedFits ==
  ASSUME NEW c \in Sessions, NEW url \in Sections \union {None}, NEW unsaved \in BOOLEAN,
         CentreFits(c), unsaved => Shows(c)
  PROVE  LET f == Followed(c, url, unsaved) IN
         /\ f \in Sessions /\ CentreFits(f)
         /\ unsaved => Shows(f)
         /\ c.question = None /\ (c.restoring => url = c.active) =>
              /\ ~f.restoring
              /\ IF f.question = None THEN (url # None) = f.open /\ (url # None => f.active = url)
                 ELSE f.question.restore /\ f.question.target = url
  <1>. DEFINE f == Followed(c, url, unsaved)
  <1>1. CASE c.restoring
    <2>1. f = [c EXCEPT !.restoring = url # c.active]
      BY <1>1 DEF Followed
    <2>. QED
      BY <1>1, <2>1, NoneIsNoSetting DEF Sessions, CentreFits, Shows
  <1>2. CASE ~c.restoring /\ c.question # None
    <2>1. f = c
      BY <1>2 DEF Followed
    <2>. QED
      BY <1>2, <2>1
  <1>3. CASE ~c.restoring /\ c.question = None /\ url = None /\ unsaved
    <2>. DEFINE q == [kind |-> "close", restore |-> TRUE, target |-> None]
    <2>1. f = [c EXCEPT !.question = q]
      BY <1>3 DEF Followed, Ask
    <2>2. q \in Questions
      BY DEF Questions
    <2>3. q # None
      BY <2>2, NoneIsNoSetting
    <2>. QED
      <3>1. q.restore /\ q.target = url /\ q.kind = "close"
        BY <1>3
      <3>. HIDE DEF q
      <3>2. f \in Sessions /\ f # None
        BY <2>1, <2>2, NoneIsNoSetting DEF Sessions
      <3>3. c.active # None /\ c.open /\ ~c.closing
        BY <1>3, NoneIsNoSetting DEF Sessions, CentreFits, Shows
      <3>4. /\ f.question = q /\ f.open = c.open /\ f.active = c.active
            /\ f.restoring = c.restoring /\ f.closing = c.closing
        BY <2>1 DEF Sessions
      <3>. QED
        BY <1>3, <2>3, <3>1, <3>2, <3>3, <3>4 DEF CentreFits, Shows
  <1>4. CASE ~c.restoring /\ c.question = None /\ url = None /\ ~unsaved
    <2>1. f = [c EXCEPT !.open = FALSE, !.closing = c.open]
      BY <1>4 DEF Followed
    <2>. QED
      BY <1>4, <2>1 DEF Sessions, CentreFits
  <1>5. CASE /\ ~c.restoring /\ c.question = None /\ url # None
             /\ unsaved /\ c.active \in TrackingSections /\ url \notin TrackingSections
    <2>. DEFINE q == [kind |-> "section", restore |-> TRUE, target |-> url]
    <2>1. f = [c EXCEPT !.question = q]
      BY <1>5 DEF Followed, Ask
    <2>2. q \in Questions
      BY DEF Questions
    <2>3. q # None
      BY <2>2, NoneIsNoSetting
    <2>. QED
      <3>1. q.restore /\ q.target = url /\ q.kind = "section"
        BY <1>5
      <3>. HIDE DEF q
      <3>2. f \in Sessions /\ f # None
        BY <2>1, <2>2, NoneIsNoSetting DEF Sessions
      <3>. QED
        BY <1>5, <2>1, <2>3, <3>1, <3>2 DEF Sessions, CentreFits, Shows
  <1>6. CASE /\ ~c.restoring /\ c.question = None /\ url # None
             /\ ~(unsaved /\ c.active \in TrackingSections /\ url \notin TrackingSections)
    <2>1. f = [c EXCEPT !.active = url, !.open = TRUE, !.closing = FALSE]
      BY <1>6 DEF Followed
    <2>2. url \in Sections /\ (unsaved => url \in TrackingSections)
      BY <1>6 DEF Shows
    <2>. QED
      BY <1>6, <2>1, <2>2, NoneIsNoSetting DEF Sessions, CentreFits, Shows
  <1>. QED
    BY <1>1, <1>2, <1>3, <1>4, <1>5, <1>6

\* A session begins with the URL.
LEMMA SessionFits ==
  ASSUME NEW url \in Sections
  PROVE  /\ Session(url) \in Sessions /\ Session(url) # None /\ CentreFits(Session(url))
         /\ Session(url).question = None /\ Session(url).open /\ Session(url).active = url /\ ~Session(url).restoring
  <1>1. Session(url) \in Sessions
    BY DEF Session, Sessions
  <1>2. Session(url) # None
    BY <1>1, NoneIsNoSetting
  <1>. QED
    BY <1>1, <1>2 DEF Session, CentreFits

\* The content that appears reads anew; a draft goes with the content.
LEMMA EnterFits ==
  ASSUME SetTypeOK, NEW centre \in Sessions \union {None}, Enter(centre)
  PROVE  /\ setDraft' = (IF Shows(centre) THEN setDraft ELSE None)
         /\ setDraft' # None => Shows(setCentre')
         /\ setRead' \in Reads \union {None}
         /\ setRead' = setRead \/ (setRead = None /\ setRead' # None /\ setRead'.state = "sent")
  <1>. DEFINE fresh == [state |-> "sent", got |-> None]
  <1>1. fresh \in Reads /\ fresh # None /\ fresh.state = "sent"
    BY NoneIsNoSetting DEF Reads
  <1>2. /\ setCentre' = centre
        /\ setDraft' = IF Shows(centre) THEN setDraft ELSE None
        /\ setRead' = IF Shows(centre) /\ ~Shows(setCentre) /\ setRead = None THEN fresh ELSE setRead
    BY DEF Enter
  <1>. HIDE DEF fresh
  <1>. QED
    BY <1>1, <1>2 DEF SetTypeOK

\* What a change of the URL does: it keeps the draft, and the dialog follows
\* the URL unless it could not.
LEMMA UrlStep ==
  ASSUME SettingsInv, NEW url \in Sections \union {None}, url # setUrl, setGoing' = {}, UrlBecomes(url)
  PROVE  /\ setUrl' = url /\ setCentre' \in Sessions \union {None} /\ DialogFits'
         /\ setDraft' = setDraft /\ (setDraft' # None => Shows(setCentre'))
         /\ setStrayed' \in BOOLEAN /\ UrlFits'
         /\ setRead' \in Reads \union {None}
         /\ setRead' = setRead \/ (setRead = None /\ setRead' # None /\ setRead'.state = "sent")
  <1>. DEFINE next == IF setCentre # None THEN Followed(setCentre, url, setDraft # None)
                      ELSE IF url = None THEN None ELSE Session(url)
  <1>1. /\ setUrl' = url /\ Enter(next) /\ setCentre' = next
        /\ setStrayed' = (setCentre # None
                            /\ (setCentre.question # None \/ (setCentre.restoring /\ url # setCentre.active)))
    BY DEF UrlBecomes, Enter
  <1>2. CASE setCentre = None
    <2>1. setDraft = None
      BY <1>2 DEF SettingsInv, SetTypeOK, Shows
    <2>2. next \in Sessions \union {None} /\ (next # None => CentreFits(next))
          /\ (url = None => next = None)
          /\ (url # None => /\ next # None /\ next.question = None /\ next.open
                            /\ next.active = url /\ ~next.restoring)
      BY <1>2, SessionFits
    <2>. HIDE DEF next
    <2>3. UrlFits'
      BY <1>1, <2>2 DEF UrlFits, UrlAgrees
    <2>. QED
      BY <1>1, <1>2, <2>1, <2>2, <2>3, EnterFits DEF SettingsInv, DialogFits
  <1>3. CASE setCentre # None
    <2>1. setCentre \in Sessions /\ CentreFits(setCentre) /\ (setDraft # None => Shows(setCentre))
      BY <1>3 DEF SettingsInv, SetTypeOK, DialogFits
    <2>2. next = Followed(setCentre, url, setDraft # None)
      BY <1>3
    <2>3. /\ next \in Sessions /\ CentreFits(next)
          /\ setDraft # None => Shows(next)
          /\ setCentre.question = None /\ (setCentre.restoring => url = setCentre.active) =>
               /\ ~next.restoring
               /\ IF next.question = None THEN (url # None) = next.open /\ (url # None => next.active = url)
                  ELSE next.question.restore /\ next.question.target = url
      <3>. DEFINE unsaved == setDraft # None
      <3>1. unsaved \in BOOLEAN
        OBVIOUS
      <3>2. unsaved => Shows(setCentre)
        BY <2>1
      <3>3. next = Followed(setCentre, url, unsaved)
        BY <2>2
      <3>. HIDE DEF unsaved, next
      <3>4. next \in Sessions /\ CentreFits(next) /\ (unsaved => Shows(next))
        BY <2>1, <3>1, <3>2, <3>3, FollowedFits
      <3>5. setCentre.question = None /\ (setCentre.restoring => url = setCentre.active) =>
               /\ ~next.restoring
               /\ IF next.question = None THEN (url # None) = next.open /\ (url # None => next.active = url)
                  ELSE next.question.restore /\ next.question.target = url
        BY <2>1, <3>1, <3>2, <3>3, FollowedFits
      <3>. QED
        BY <3>4, <3>5 DEF unsaved
    <2>4. next # None
      BY <2>3, NoneIsNoSetting
    <2>. HIDE DEF next
    <2>5. UrlFits'
      BY <1>1, <1>3, <2>3, <2>4 DEF UrlFits, UrlAgrees
    <2>6. setDraft' = setDraft
      BY <1>1, <2>3, EnterFits DEF SettingsInv
    <2>. QED
      BY <1>1, <1>3, <2>3, <2>4, <2>5, <2>6, EnterFits DEF SettingsInv, DialogFits
  <1>. QED
    BY <1>2, <1>3

LEMMA StepsStay ==
  ASSUME SetTypeOK, SettingsStep
  PROVE  setSteps' \in 0..MaxSettingsSteps
  BY SettingsConstants DEF SetTypeOK, SettingsStep

\* What leaves the screen alone keeps dialog and URL together; what leaves
\* the requests alone keeps what was read.
LEMMA ScreenStays ==
  ASSUME DialogFits, UrlFits, UNCHANGED setScreen
  PROVE  DialogFits' /\ UrlFits'
  BY DEF setScreen, DialogFits, UrlFits, UrlAgrees

\* A read that begins outdates nothing.
LEMMA ReadsStay ==
  ASSUME ReadsFit, UNCHANGED <<setStored, setCache, setSave, setUnread>>,
         setRead' = setRead \/ (setRead = None /\ setRead' # None /\ setRead'.state = "sent")
  PROVE  ReadsFit'
  BY DEF ReadsFit

LEMMA NavigationFits ==
  ASSUME SettingsInv, Arrive \/ \E url \in Sections \union {None} : Navigate(url)
  PROVE  SettingsInv'
  <1>1. ASSUME NEW url \in Sections \union {None}, url # setUrl, setGoing' = {}, UrlBecomes(url),
               UNCHANGED <<setServer, setCache, setKnown, setSave, setUnread, setSteps>>
        PROVE  SettingsInv'
    <2>1. SetTypeOK' /\ DialogFits' /\ UrlFits' /\ SaveIsOfDraft'
      BY <1>1, UrlStep DEF SettingsInv, SetTypeOK, setServer, SaveIsOfDraft
    <2>2. ReadsFit'
      BY <1>1, UrlStep, ReadsStay DEF SettingsInv, setServer
    <2>. QED
      BY <2>1, <2>2 DEF SettingsInv
  <1>2. CASE \E url \in Sections \union {None} : Navigate(url)
    BY <1>1, <1>2 DEF Navigate
  <1>3. CASE Arrive
    <2>1. PICK url \in setGoing : UrlBecomes(url)
      BY <1>3 DEF Arrive
    <2>2. url \in Sections \union {None} /\ setGoing' = {}
          /\ UNCHANGED <<setServer, setCache, setKnown, setSave, setUnread, setSteps>>
      BY <1>3, <2>1 DEF Arrive, SettingsInv, SetTypeOK
    <2>3. CASE url # setUrl
      BY <1>1, <2>1, <2>2, <2>3
    <2>4. CASE url = setUrl
      <3>1. UNCHANGED <<setUrl, setCentre, setDraft, setRead, setStrayed>>
        BY <2>1, <2>4 DEF UrlBecomes
      <3>2. setStrayed
        BY <2>1, <2>4 DEF SettingsInv, UrlFits, SetTypeOK
      <3>. QED
        BY <2>2, <3>1, <3>2, ReadsStay
           DEF SettingsInv, SetTypeOK, DialogFits, UrlFits, SaveIsOfDraft, setServer
    <2>. QED
      BY <2>3, <2>4
  <1>. QED
    BY <1>2, <1>3

\* Asking leaves the dialog, and the URL, where they are.
LEMMA AskStep ==
  ASSUME SettingsInv, NoQuestion(setCentre), setCentre.open, ~setCentre.restoring,
         NEW kind \in {"close", "section"}, NEW target \in Sections \union {None},
         kind = "close" <=> target = None, target # setCentre.active,
         setCentre' = Ask(setCentre, kind, FALSE, target),
         UNCHANGED <<setUrl, setGoing, setStrayed, setServer, setDraft, setCache, setKnown, setRead,
                     setSave, setUnread, setSteps>>
  PROVE  SettingsInv'
  <1>. DEFINE q == [kind |-> kind, restore |-> FALSE, target |-> target]
  <1>1. q \in Questions /\ q.kind = kind /\ ~q.restore /\ q.target = target
    BY DEF Questions
  <1>2. setCentre' = [setCentre EXCEPT !.question = q]
    BY DEF Ask
  <1>. HIDE DEF q
  <1>3. q # None
    BY <1>1, NoneIsNoSetting
  <1>4. setCentre \in Sessions /\ setCentre # None /\ CentreFits(setCentre)
    BY DEF SettingsInv, SetTypeOK, DialogFits, NoQuestion
  <1>5. setCentre' \in Sessions
    BY <1>1, <1>2, <1>4 DEF Sessions
  <1>6. setCentre' # None
    BY <1>5, NoneIsNoSetting
  <1>7. /\ setCentre'.question = q /\ setCentre'.open /\ setCentre'.active = setCentre.active
        /\ ~setCentre'.restoring /\ setCentre'.closing = setCentre.closing
    BY <1>2, <1>4 DEF Sessions
  <1>8. DialogFits'
    BY <1>1, <1>3, <1>4, <1>6, <1>7 DEF CentreFits, DialogFits
  <1>9. UrlFits'
    BY <1>1, <1>3, <1>4, <1>6, <1>7 DEF SettingsInv, UrlFits, UrlAgrees, NoQuestion
  <1>10. SetTypeOK'
    BY <1>4, <1>5, <1>6, <1>7 DEF SettingsInv, SetTypeOK, Shows, setServer
  <1>. QED
    BY <1>8, <1>9, <1>10 DEF SettingsInv, ReadsFit, SaveIsOfDraft, setServer

LEMMA RequestSectionFits ==
  ASSUME SettingsInv, NEW section \in Sections, RequestSection(section)
  PROVE  SettingsInv'
  <1>1. /\ setCentre \in Sessions /\ setCentre # None /\ CentreFits(setCentre)
        /\ setCentre.question = None /\ setCentre.open /\ ~setCentre.restoring /\ section # setCentre.active
        /\ section # None
    BY NoneIsNoSetting DEF SettingsInv, SetTypeOK, DialogFits, RequestSection, NoQuestion
  <1>2. CASE setCentre' = Ask(setCentre, "section", FALSE, section) /\ UNCHANGED <<setGoing, setStrayed>>
    <2>. DEFINE kind == "section"
    <2>1. /\ kind \in {"close", "section"} /\ (kind = "close" <=> section = None)
          /\ setCentre' = Ask(setCentre, kind, FALSE, section)
      BY <1>1, <1>2
    <2>. HIDE DEF kind
    <2>. QED
      BY <1>1, <1>2, <2>1, AskStep DEF RequestSection
  <1>3. CASE ReplaceUrl({section}) /\ UNCHANGED setCentre
    <2>1. setGoing' = {section} /\ setStrayed' = (setStrayed \/ setGoing # {})
      BY <1>3 DEF ReplaceUrl
    <2>2. UrlFits'
      BY <1>1, <1>3, <2>1 DEF RequestSection, SettingsInv, UrlFits, UrlAgrees
    <2>3. SetTypeOK'
      BY <1>1, <1>3, <2>1 DEF RequestSection, SettingsInv, SetTypeOK, setServer
    <2>. QED
      BY <1>3, <2>2, <2>3 DEF RequestSection, SettingsInv, DialogFits, ReadsFit, SaveIsOfDraft, setServer
  <1>. QED
    BY <1>2, <1>3 DEF RequestSection

LEMMA RequestCloseFits ==
  ASSUME SettingsInv, RequestClose
  PROVE  SettingsInv'
  <1>1. /\ setCentre \in Sessions /\ setCentre # None /\ CentreFits(setCentre)
        /\ setCentre.question = None /\ setCentre.open /\ ~setCentre.restoring /\ setCentre.active # None
    BY NoneIsNoSetting DEF SettingsInv, SetTypeOK, DialogFits, RequestClose, NoQuestion, Sessions
  <1>2. CASE setDraft # None
    <2>. DEFINE kind == "close"
    <2>1. /\ kind \in {"close", "section"} /\ kind = "close"
          /\ setCentre' = Ask(setCentre, kind, FALSE, None)
      BY <1>2 DEF RequestClose
    <2>. HIDE DEF kind
    <2>. QED
      BY <1>1, <1>2, <2>1, AskStep DEF RequestClose
  <1>3. CASE setDraft = None
    <2>. DEFINE centre == [setCentre EXCEPT !.open = FALSE, !.closing = TRUE]
    <2>1. Enter(centre) /\ setCentre' = centre
          /\ setGoing' = {None} /\ setStrayed' = (setStrayed \/ setGoing # {})
      BY <1>3 DEF RequestClose, ReplaceUrl, Enter
    <2>2. /\ centre \in Sessions /\ ~centre.open /\ centre.question = None /\ ~centre.restoring
      BY <1>1 DEF Sessions
    <2>. HIDE DEF centre
    <2>3. setDraft' = None /\ setRead' \in Reads \union {None}
          /\ (setRead' = setRead \/ (setRead = None /\ setRead' # None /\ setRead'.state = "sent"))
      BY <1>3, <2>1, <2>2, EnterFits DEF SettingsInv
    <2>4. DialogFits'
      BY <2>1, <2>2 DEF DialogFits, CentreFits
    <2>5. UrlFits'
      BY <1>1, <2>1, <2>2 DEF RequestClose, SettingsInv, UrlFits, UrlAgrees
    <2>6. SetTypeOK'
      BY <2>1, <2>2, <2>3 DEF RequestClose, SettingsInv, SetTypeOK, setServer
    <2>7. ReadsFit'
      BY <2>3, ReadsStay DEF RequestClose, SettingsInv, setServer
    <2>. QED
      BY <1>3, <2>3, <2>4, <2>5, <2>6, <2>7 DEF RequestClose, SettingsInv, SaveIsOfDraft
  <1>. QED
    BY <1>2, <1>3

LEMMA CancelQuestionFits ==
  ASSUME SettingsInv, CancelQuestion
  PROVE  SettingsInv'
  <1>. DEFINE q == setCentre.question
  <1>1. /\ setCentre \in Sessions /\ setCentre # None /\ CentreFits(setCentre)
        /\ q \in Questions /\ q # None /\ setCentre.open /\ ~setCentre.restoring
        /\ setCentre.active \in Sections /\ q.target # setCentre.active
    BY DEF SettingsInv, SetTypeOK, DialogFits, CancelQuestion, Sessions, CentreFits
  <1>2. /\ setCentre' = [setCentre EXCEPT !.restoring = q.restore, !.question = None]
        /\ ReplaceUrl(IF q.restore THEN {setCentre.active} ELSE {})
    BY DEF CancelQuestion, Back
  <1>3. /\ setCentre' \in Sessions /\ setCentre'.question = None /\ setCentre'.open
        /\ setCentre'.restoring = q.restore /\ setCentre'.active = setCentre.active
        /\ setCentre'.closing = setCentre.closing
    BY <1>1, <1>2 DEF Sessions, Questions
  <1>4. DialogFits'
    BY <1>1, <1>3 DEF DialogFits, CentreFits
  <1>5. setCentre' # None
    BY <1>3, NoneIsNoSetting
  <1>6. UrlFits' /\ setGoing' \in {{}} \union {{s} : s \in Sections \union {None}} /\ setStrayed' \in BOOLEAN
    <2>1. CASE q.restore
      <3>1. setGoing' = {setCentre.active} /\ setStrayed' = (setStrayed \/ setGoing # {})
        BY <1>2, <2>1 DEF ReplaceUrl
      <3>. QED
        BY <1>1, <1>3, <1>5, <2>1, <3>1 DEF CancelQuestion, SettingsInv, SetTypeOK, UrlFits, UrlAgrees
    <2>2. CASE ~q.restore
      <3>1. setGoing' = setGoing /\ setStrayed' = setStrayed
        BY <1>2, <2>2 DEF ReplaceUrl, SettingsInv, SetTypeOK
      <3>2. setUrl' = setUrl /\ setCentre.active # None
        BY <1>1, NoneIsNoSetting DEF CancelQuestion
      <3>. QED
        BY <1>1, <1>3, <1>5, <2>2, <3>1, <3>2 DEF SettingsInv, SetTypeOK, UrlFits, UrlAgrees
    <2>. QED
      BY <2>1, <2>2
  <1>7. SetTypeOK'
    BY <1>1, <1>3, <1>5, <1>6 DEF CancelQuestion, SettingsInv, SetTypeOK, Shows, setServer
  <1>. QED
    BY <1>4, <1>6, <1>7 DEF CancelQuestion, SettingsInv, ReadsFit, SaveIsOfDraft, setServer

LEMMA ConfirmQuestionFits ==
  ASSUME SettingsInv, ConfirmQuestion
  PROVE  SettingsInv'
  <1>. DEFINE q == setCentre.question
              closes == q.kind = "close"
  <1>1. /\ setCentre \in Sessions /\ setCentre # None
        /\ q \in Questions /\ q # None /\ setCentre.open /\ ~setCentre.restoring /\ ~setCentre.closing
        /\ setCentre.active \in Sections /\ q.target # setCentre.active /\ q.target \in Sections \union {None}
        /\ closes <=> q.target = None
    BY DEF SettingsInv, SetTypeOK, DialogFits, ConfirmQuestion, Sessions, CentreFits, Questions
  <1>2. /\ setCentre' = [setCentre EXCEPT !.question = None, !.open = ~closes /\ @, !.closing = closes \/ @,
                                          !.active = IF closes THEN @ ELSE q.target]
        /\ ReplaceUrl(IF q.restore THEN {} ELSE {q.target})
        /\ setDraft' = None /\ setUrl' = setUrl
    BY DEF ConfirmQuestion
  <1>3. /\ setCentre' \in Sessions /\ setCentre'.question = None /\ ~setCentre'.restoring
        /\ setCentre'.open <=> ~closes
        /\ setCentre'.closing <=> closes
        /\ ~closes => setCentre'.active = q.target
    BY <1>1, <1>2 DEF Sessions
  <1>4. DialogFits'
    BY <1>3 DEF DialogFits, CentreFits
  <1>5. setCentre' # None
    BY <1>3, NoneIsNoSetting
  <1>6. UrlFits' /\ setGoing' \in {{}} \union {{s} : s \in Sections \union {None}} /\ setStrayed' \in BOOLEAN
    <2>1. CASE q.restore
      <3>1. setGoing' = setGoing /\ setStrayed' = setStrayed
        BY <1>2, <2>1 DEF ReplaceUrl, SettingsInv, SetTypeOK
      <3>. QED
        BY <1>1, <1>2, <1>3, <1>5, <2>1, <3>1 DEF SettingsInv, SetTypeOK, UrlFits, UrlAgrees
    <2>2. CASE ~q.restore
      <3>1. setGoing' = {q.target} /\ setStrayed' = (setStrayed \/ setGoing # {})
        BY <1>2, <2>2 DEF ReplaceUrl
      <3>. QED
        BY <1>1, <1>2, <1>3, <1>5, <2>2, <3>1 DEF SettingsInv, SetTypeOK, UrlFits, UrlAgrees
    <2>. QED
      BY <2>1, <2>2
  <1>7. SetTypeOK'
    BY <1>2, <1>3, <1>5, <1>6 DEF ConfirmQuestion, SettingsInv, SetTypeOK, setServer
  <1>. QED
    BY <1>4, <1>6, <1>7 DEF ConfirmQuestion, SettingsInv, ReadsFit, SaveIsOfDraft, setServer

LEMMA CloseSessionFits ==
  ASSUME SettingsInv, CloseSession
  PROVE  SettingsInv'
  <1>1. /\ setCentre \in Sessions /\ setCentre # None /\ setCentre.closing /\ ~setCentre.open
        /\ setCentre.question = None /\ ~setCentre.restoring /\ setDraft = None
    BY DEF SettingsInv, SetTypeOK, DialogFits, CloseSession, CentreFits, Shows
  <1>2. CASE setUrl = None
    <2>1. setCentre' = None
      BY <1>2 DEF CloseSession
    <2>2. UrlFits'
      BY <1>1, <1>2, <2>1 DEF CloseSession, SettingsInv, UrlFits, UrlAgrees
    <2>. QED
      BY <1>1, <2>1, <2>2 DEF CloseSession, SettingsInv, SetTypeOK, DialogFits, ReadsFit, SaveIsOfDraft, setServer
  <1>3. CASE setUrl # None
    <2>1. setCentre' = [setCentre EXCEPT !.closing = FALSE]
      BY <1>3 DEF CloseSession
    <2>2. /\ setCentre' \in Sessions /\ ~setCentre'.open /\ setCentre'.question = None /\ ~setCentre'.restoring
          /\ ~setCentre'.closing
      BY <1>1, <2>1 DEF Sessions
    <2>3. UrlFits'
      BY <1>1, <1>3, <2>2 DEF CloseSession, SettingsInv, UrlFits, UrlAgrees
    <2>. QED
      BY <1>1, <2>2, <2>3 DEF CloseSession, SettingsInv, SetTypeOK, DialogFits, CentreFits, ReadsFit,
         SaveIsOfDraft, setServer
  <1>. QED
    BY <1>2, <1>3

\* The form: what it shows may be a draft.
LEMMA FormIsDraft ==
  ASSUME SetTypeOK, setCache # None \/ setDraft # None
  PROVE  Form \in Drafts
  BY DEF SetTypeOK, Form, Normalised, Preferences, Drafts

LEMMA UpdateDraftFits ==
  ASSUME SettingsInv, CanEdit, NEW draft \in Drafts, UpdateDraft(draft)
  PROVE  SettingsInv'
  <1>1. DialogFits' /\ UrlFits'
    BY ScreenStays DEF UpdateDraft, SettingsInv
  <1>2. ReadsFit' /\ SaveIsOfDraft'
    BY DEF UpdateDraft, CanEdit, SettingsInv, ReadsFit, SaveIsOfDraft, setServer
  <1>3. SetTypeOK'
    BY StepsStay DEF UpdateDraft, CanEdit, SettingsInv, SetTypeOK, Shows, setScreen, setServer
  <1>. QED
    BY <1>1, <1>2, <1>3 DEF SettingsInv

\* Whatever is done in the form makes a draft.
FormActs ==
    \/ \E w \in Words : ToggleWord(w)
    \/ \E d \in Databases : SetDatabaseSelected(d)
    \/ SelectAllDatabases
    \/ \E mark \in {"keep", "clear", "set"} : EditKey(mark)

LEMMA FormFits ==
  ASSUME SettingsInv, FormActs
  PROVE  CanEdit /\ \E draft \in Drafts : UpdateDraft(draft)
  <1>1. CanEdit
    BY DEF FormActs, ToggleWord, SetDatabaseSelected, SelectAllDatabases, EditKey
  <1>2. Form \in Drafts
    BY <1>1, FormIsDraft DEF CanEdit, SettingsInv
  <1>3. ASSUME NEW w \in Words, ToggleWord(w)
        PROVE  \E draft \in Drafts : UpdateDraft(draft)
    <2>. DEFINE draft == [Form EXCEPT !.words = IF w \in @ THEN @ \ {w} ELSE @ \union {w}]
    <2>1. draft \in Drafts /\ UpdateDraft(draft)
      BY <1>2, <1>3 DEF ToggleWord, Drafts
    <2>. QED
      BY <2>1
  <1>4. ASSUME NEW d \in Databases, SetDatabaseSelected(d)
        PROVE  \E draft \in Drafts : UpdateDraft(draft)
    <2>1. setKnown \subseteq Databases /\ Form.dbs \subseteq Databases
      BY <1>2, <1>4 DEF SetDatabaseSelected, SettingsInv, SetTypeOK, Drafts
    <2>. DEFINE chosen == Chosen(Form.dbs, setKnown, d, ~(Form.dbs = {} \/ d \in Form.dbs))
                draft == [Form EXCEPT !.dbs = chosen]
    <2>2. chosen \subseteq Databases
      BY <2>1 DEF Chosen
    <2>3. UpdateDraft(draft)
      BY <1>4 DEF SetDatabaseSelected
    <2>4. draft \in Drafts
      <3>. HIDE DEF chosen
      <3>. QED
        BY <1>2, <2>2 DEF Drafts
    <2>. QED
      BY <2>3, <2>4
  <1>5. ASSUME SelectAllDatabases
        PROVE  \E draft \in Drafts : UpdateDraft(draft)
    <2>. DEFINE draft == [Form EXCEPT !.dbs = {}]
    <2>1. draft \in Drafts /\ UpdateDraft(draft)
      BY <1>2, <1>5 DEF SelectAllDatabases, Drafts
    <2>. QED
      BY <2>1
  <1>6. ASSUME NEW mark \in {"keep", "clear", "set"}, EditKey(mark)
        PROVE  \E draft \in Drafts : UpdateDraft(draft)
    <2>. DEFINE draft == [Form EXCEPT !.key = mark]
    <2>1. draft \in Drafts /\ UpdateDraft(draft)
      BY <1>2, <1>6 DEF EditKey, Drafts
    <2>. QED
      BY <2>1
  <1>. QED
    BY <1>1, <1>3, <1>4, <1>5, <1>6 DEF FormActs

\* Saving.  What the server keeps of a save are preferences again.
LEMMA SavingFits ==
  ASSUME SettingsInv, DiscardDraft \/ SaveDraft \/ ServeSave \/ FailSave \/ AnswerSave
  PROVE  SettingsInv'
  <1>1. DialogFits' /\ UrlFits'
    BY ScreenStays DEF SettingsInv, DiscardDraft, SaveDraft, ServeSave, FailSave, AnswerSave
  <1>2. CASE DiscardDraft
    BY <1>1, <1>2 DEF DiscardDraft, SettingsInv, SetTypeOK, ReadsFit, SaveIsOfDraft, setScreen, setServer
  <1>3. CASE SaveDraft
    <2>. DEFINE save == [state |-> "sent", sent |-> setDraft, got |-> None]
    <2>1. setDraft \in Drafts /\ setSave' = save
      BY <1>3 DEF SaveDraft, SettingsInv, SetTypeOK
    <2>2. save \in Saves
      BY <2>1 DEF Saves
    <2>3. save.state = "sent" /\ save.sent = setDraft
      OBVIOUS
    <2>. HIDE DEF save
    <2>4. SetTypeOK'
      BY <1>3, <2>1, <2>2, StepsStay DEF SaveDraft, SettingsInv, SetTypeOK, Shows, setScreen, setServer
    <2>. QED
      BY <1>1, <1>3, <2>1, <2>2, <2>3, <2>4 DEF SaveDraft, SettingsInv, ReadsFit, SaveIsOfDraft, setServer
  <1>4. CASE ServeSave
    <2>1. setSave \in Saves /\ setSave.state = "sent" /\ setSave.sent \in Drafts /\ setStored \in Preferences
      BY <1>4 DEF ServeSave, SettingsInv, SetTypeOK, Saves
    <2>2. Resolved(setStored, setSave.sent) \in Preferences
      BY <2>1 DEF Resolved, Preferences, Drafts
    <2>3. setSave' = [setSave EXCEPT !.state = "ok", !.got = Resolved(setStored, setSave.sent)]
          /\ setStored' = Resolved(setStored, setSave.sent)
      BY <1>4 DEF ServeSave
    <2>4. setSave' \in Saves /\ setSave'.state = "ok" /\ setSave'.sent = setSave.sent
      BY <2>1, <2>2, <2>3 DEF Saves
    <2>5. setSave' # None
      BY <2>4, NoneIsNoSetting
    <2>6. SetTypeOK'
      BY <1>4, <2>2, <2>3, <2>4 DEF ServeSave, SettingsInv, SetTypeOK, Shows, setScreen
    <2>. QED
      BY <1>1, <1>4, <2>4, <2>5, <2>6 DEF ServeSave, SettingsInv, ReadsFit, SaveIsOfDraft
  <1>5. CASE FailSave
    <2>1. SetTypeOK'
      BY <1>5, StepsStay DEF FailSave, SettingsInv, SetTypeOK, Shows, setScreen, setServer
    <2>2. ReadsFit'
      <3>1. setSave.state \in {"sent", "ok"}
        BY <1>5 DEF FailSave, SettingsInv, SetTypeOK, Saves
      <3>. QED
        BY <1>5, <3>1 DEF FailSave, SettingsInv, ReadsFit, SetTypeOK, setServer
    <2>. QED
      BY <1>1, <1>5, <2>1, <2>2 DEF FailSave, SettingsInv, SaveIsOfDraft
  <1>6. CASE AnswerSave
    <2>1. setSave \in Saves /\ setSave.state = "ok" /\ setSave.got \in Preferences /\ Shows(setCentre)
      BY <1>6 DEF AnswerSave, SettingsInv, SetTypeOK, SaveIsOfDraft, Saves
    <2>. DEFINE fresh == [state |-> "sent", got |-> None]
    <2>2. fresh \in Reads /\ fresh # None /\ fresh.state = "sent"
      BY NoneIsNoSetting DEF Reads
    <2>3. setRead' = fresh /\ setCache' = setSave.got /\ setDraft' = None /\ setSave' = None
      BY <1>6, <2>1 DEF AnswerSave, Invalidated
    <2>. HIDE DEF fresh
    <2>4. SetTypeOK'
      BY <1>6, <2>1, <2>2, <2>3 DEF AnswerSave, SettingsInv, SetTypeOK, setScreen, setServer
    <2>. QED
      BY <1>1, <2>2, <2>3, <2>4 DEF SettingsInv, ReadsFit, SaveIsOfDraft
  <1>. QED
    BY <1>2, <1>3, <1>4, <1>5, <1>6

LEMMA ReadingFits ==
  ASSUME SettingsInv, \/ FocusSettings \/ ServePreferences \/ AnswerPreferences \/ FailPreferences
                      \/ ReadCatalog \/ ChangeSettingsElsewhere \/ \E d \in Databases : ChangeCatalog(d)
  PROVE  SettingsInv'
  <1>1. DialogFits' /\ UrlFits'
    BY ScreenStays DEF SettingsInv, FocusSettings, ServePreferences, AnswerPreferences, FailPreferences,
       ReadCatalog, ChangeSettingsElsewhere, ChangeCatalog
  <1>2. SaveIsOfDraft'
    BY DEF SettingsInv, SaveIsOfDraft, FocusSettings, ServePreferences, AnswerPreferences, FailPreferences,
       ReadCatalog, ChangeSettingsElsewhere, ChangeCatalog
  <1>3. CASE FocusSettings
    <2>. DEFINE fresh == [state |-> "sent", got |-> None]
    <2>1. fresh \in Reads /\ fresh # None /\ fresh.state = "sent"
      BY NoneIsNoSetting DEF Reads
    <2>2. setRead = None /\ setRead' = fresh
      BY <1>3 DEF FocusSettings
    <2>. HIDE DEF fresh
    <2>3. SetTypeOK'
      BY <1>3, <2>1, <2>2, StepsStay DEF FocusSettings, SettingsInv, SetTypeOK, Shows, setScreen, setServer
    <2>. QED
      BY <1>1, <1>2, <1>3, <2>1, <2>2, <2>3, ReadsStay DEF FocusSettings, SettingsInv, setServer
  <1>4. CASE ServePreferences
    <2>. DEFINE served == [state |-> "served", got |-> setStored]
    <2>1. served \in Reads /\ served # None /\ served.got = setStored
      BY NoneIsNoSetting DEF Reads, SettingsInv, SetTypeOK
    <2>2. setRead' = served
      BY <1>4 DEF ServePreferences
    <2>. HIDE DEF served
    <2>3. SetTypeOK'
      BY <1>4, <2>1, <2>2 DEF ServePreferences, SettingsInv, SetTypeOK, Shows, setScreen, setServer
    <2>. QED
      BY <1>1, <1>2, <1>4, <2>1, <2>2, <2>3 DEF ServePreferences, SettingsInv, ReadsFit, setServer
  <1>5. CASE AnswerPreferences
    <2>1. setRead.got \in Preferences
      BY <1>5 DEF AnswerPreferences, SettingsInv, SetTypeOK, Reads
    <2>. QED
      BY <1>1, <1>2, <1>5, <2>1 DEF AnswerPreferences, SettingsInv, SetTypeOK, ReadsFit, Shows, setScreen, setServer
  <1>6. CASE FailPreferences
    <2>1. SetTypeOK'
      BY <1>6, StepsStay DEF FailPreferences, SettingsInv, SetTypeOK, Shows, setScreen, setServer
    <2>. QED
      BY <1>1, <1>2, <1>6, <2>1 DEF FailPreferences, SettingsInv, ReadsFit
  <1>7. CASE ReadCatalog
    BY <1>1, <1>2, <1>7 DEF ReadCatalog, SettingsInv, SetTypeOK, ReadsFit, Shows, setScreen, setServer
  <1>8. CASE ChangeSettingsElsewhere
    <2>1. setStored' \in Preferences
      BY <1>8 DEF ChangeSettingsElsewhere, SettingsInv, SetTypeOK, Preferences
    <2>2. SetTypeOK'
      BY <1>8, <2>1, StepsStay DEF ChangeSettingsElsewhere, SettingsInv, SetTypeOK, Shows, setScreen
    <2>. QED
      BY <1>1, <1>2, <1>8, <2>2 DEF ChangeSettingsElsewhere, SettingsInv, ReadsFit
  <1>9. ASSUME NEW d \in Databases, ChangeCatalog(d)
        PROVE  SettingsInv'
    <2>1. SetTypeOK'
      BY <1>9, StepsStay DEF ChangeCatalog, SettingsInv, SetTypeOK, Shows, setScreen
    <2>. QED
      BY <1>1, <1>2, <1>9, <2>1 DEF ChangeCatalog, SettingsInv, ReadsFit
  <1>. QED
    BY <1>3, <1>4, <1>5, <1>6, <1>7, <1>8, <1>9

LEMMA SettingsStay == SetSpec => []SettingsInv
  <1>1. SetInit => SettingsInv
    <2>. SUFFICES ASSUME SetInit
                  PROVE  SettingsInv
      OBVIOUS
    <2>1. setStored \in Preferences /\ setCatalog \subseteq Databases
      BY DEF SetInit, Preferences
    <2>2. setSteps \in 0..MaxSettingsSteps
      BY SettingsConstants DEF SetInit
    <2>3. SetTypeOK
      BY <2>1, <2>2 DEF SetInit, SetTypeOK
    <2>. QED
      BY <2>3 DEF SetInit, SettingsInv, DialogFits, SaveIsOfDraft, UrlFits, UrlAgrees, ReadsFit
  <1>2. SettingsInv /\ [SetNext]_setVars => SettingsInv'
    <2>. SUFFICES ASSUME SettingsInv, [SetNext]_setVars
                  PROVE  SettingsInv'
      OBVIOUS
    <2>1. CASE UNCHANGED setVars
      BY <2>1, ScreenStays DEF setVars, setScreen, setServer, SettingsInv, SetTypeOK, ReadsFit, SaveIsOfDraft, Shows
    <2>. QED
      BY <2>1, NavigationFits, RequestSectionFits, RequestCloseFits, CancelQuestionFits, ConfirmQuestionFits,
         CloseSessionFits, FormFits, UpdateDraftFits, SavingFits, ReadingFits DEF SetNext, FormActs
  <1>. QED
    BY <1>1, <1>2, PTL DEF SetSpec

\* The dialog's state machine, drafts and requests have the shapes of the
\* code's types; a draft lives only in a tracking section.
THEOREM SettingsTyped == SetSpec => []SetTypeOK
  <1>1. SettingsInv => SetTypeOK
    BY DEF SettingsInv
  <1>. QED
    BY <1>1, SettingsStay, PTL

\* Once the router has arrived and no question is open, the dialog shows the
\* section the URL names, and none without one.
THEOREM DialogFollowsUrl == SetSpec => []UrlAgrees
  <1>1. SettingsInv => UrlAgrees
    BY DEF SettingsInv, UrlFits, UrlAgrees
  <1>. QED
    BY <1>1, SettingsStay, PTL

\* With no request left, the preferences shown without a draft are the
\* server's.
THEOREM PreferencesAreRead == SetSpec => []CacheAgrees
  <1>1. SettingsInv => CacheAgrees
    BY DEF SettingsInv, ReadsFit, CacheAgrees
  <1>. QED
    BY <1>1, SettingsStay, PTL

\* A draft disappears only because the reader discards it or confirms giving
\* it up, or a save of exactly what it holds is answered.
THEOREM DraftsStay == SetSpec => DraftsAreNotLost
  <1>1. SettingsInv /\ [SetNext]_setVars =>
          (setDraft # None /\ setDraft' = None =>
             DiscardDraft \/ ConfirmQuestion \/ (AnswerSave /\ setSave.sent = setDraft))
    <2>. SUFFICES ASSUME SettingsInv, [SetNext]_setVars, setDraft # None, setDraft' = None
                  PROVE  DiscardDraft \/ ConfirmQuestion \/ (AnswerSave /\ setSave.sent = setDraft)
      OBVIOUS
    <2>1. CASE AnswerSave
      BY <2>1 DEF AnswerSave, SettingsInv, SaveIsOfDraft
    <2>2. ASSUME NEW url \in Sections \union {None}, UrlBecomes(url), setGoing' = {}
          PROVE  FALSE
      BY <2>2, UrlStep DEF UrlBecomes
    <2>3. CASE \E url \in Sections \union {None} : Navigate(url)
      BY <2>2, <2>3 DEF Navigate
    <2>4. CASE Arrive
      BY <2>2, <2>4 DEF Arrive, SettingsInv, SetTypeOK
    <2>5. CASE FormActs
      BY <2>5, FormFits, NoneIsNoSetting DEF UpdateDraft
    <2>6. CASE \/ RequestClose \/ CloseSession \/ SaveDraft \/ ServeSave \/ FailSave \/ FocusSettings
               \/ ServePreferences \/ AnswerPreferences \/ FailPreferences \/ ReadCatalog
               \/ ChangeSettingsElsewhere \/ CancelQuestion \/ UNCHANGED setVars
      <3>1. UNCHANGED setDraft
        BY <2>6 DEF RequestClose, CloseSession, SaveDraft, ServeSave, FailSave, FocusSettings, ServePreferences,
           AnswerPreferences, FailPreferences, ReadCatalog, ChangeSettingsElsewhere, CancelQuestion, setVars
      <3>. QED
        BY <3>1
    <2>7. CASE (\E section \in Sections : RequestSection(section)) \/ \E d \in Databases : ChangeCatalog(d)
      BY <2>7 DEF RequestSection, ChangeCatalog
    <2>. QED
      BY <2>1, <2>3, <2>4, <2>5, <2>6, <2>7 DEF SetNext, FormActs
  <1>. QED
    BY <1>1, SettingsStay, PTL DEF SetSpec, DraftsAreNotLost

----------------------------------------------------------------------------
\* Scheduled tasks

MaybeTask == TaskRecords \union {None}
TaskForms == [timing : Timings \union {Bad}, enabled : BOOLEAN, metadata : Files \union {None, Bad},
              database : Files \union {None, Bad}, limit : Limits \union {None, Bad}]
TaskFields == {"timing", "enabled", "metadata", "database", "limit", "preset"}

\* What is stored and listed, the editor and what is under way.  A legacy
\* task is off wherever it is seen.
TasksFit ==
    /\ tkTasks \in [TaskIds -> MaybeTask] /\ tkList \in [TaskIds -> MaybeTask]
    /\ \A t \in TaskIds : LegacyIsOff(tkTasks[t])
    /\ tkEditor \in [open : BOOLEAN, of : TaskIds \union {None}, form : TaskForms,
                     preset : JobPresets, from : MaybeTask]
    /\ (tkEditor.of = None) = (tkEditor.from = None)
    /\ tkEdited \subseteq TaskFields
    /\ tkSave \in [of : TaskIds \union {None}, stage : {"sent", "ok", "failed"}, from : MaybeTask,
                   edited : SUBSET TaskFields, task : TaskRecords] \union {None}
    /\ tkSwitch \in [of : TaskIds, to : BOOLEAN, stage : {"sent", "ok", "failed"}] \union {None}

\* The form shows what the editor was opened on, but for what was edited.
EditorShows(from, edited, form, preset) ==
    /\ \A field \in DOMAIN form \ edited : form[field] = TaskForm(from)[field]
    /\ "preset" \notin edited => preset = PresetForJob(from.job)

EditorKeeps == tkEditor.from # None => EditorShows(tkEditor.from, tkEdited, tkEditor.form, tkEditor.preset)

SaveKeeps ==
    tkSave # None =>
        /\ (tkSave.of = None) = (tkSave.from = None)
        /\ tkSave.task.job # None
        /\ tkSave.from # None => Keeps(tkSave.from, tkSave.edited, tkSave.task)

TasksInv == TasksFit /\ EditorKeeps /\ SaveKeeps

\* The form and the preset of a stored task are ones.
LEMMA FormOfTask ==
  ASSUME TaskConstants, NEW task \in TaskRecords
  PROVE  TaskForm(task) \in TaskForms /\ PresetForJob(task.job) \in JobPresets
  <1>1. task.job = None \/ task.job \in Jobs
    BY DEF TaskRecords
  <1>2. task.job # None => /\ task.job.kind \in {"index", "notify", "push"}
                           /\ task.job.file \in Files \union {None}
                           /\ task.job.limit \in Limits \union {None}
    BY <1>1 DEF Jobs, IndexJob, DeliveryJob
  <1>3. TaskForm(task) \in TaskForms
    BY <1>2 DEF TaskForm, TaskForms, TaskRecords
  <1>4. PresetForJob(task.job) \in JobPresets
    BY DEF PresetForJob, JobPresets, IndexPresets
  <1>. QED
    BY <1>3, <1>4

\* A form that may be sent becomes a job, and so a task.
LEMMA BuiltJobs ==
  /\ \A n, p \in BOOLEAN, f \in Files \union {None} : IndexJob(n, p, f) \in Jobs
  /\ \A k \in {"notify", "push"}, f \in Files \union {None}, l \in Limits \union {None} :
        DeliveryJob(k, f, l) \in Jobs
  BY DEF Jobs

LEMMA TaskOfForm ==
  ASSUME TaskConstants, NEW form \in TaskForms, NEW preset \in JobPresets, FormValid(form, preset)
  PROVE  /\ ScheduledJob(form, preset) \in Jobs
         /\ ScheduledJob(form, preset) # None
         /\ [timing |-> form.timing, enabled |-> form.enabled, job |-> ScheduledJob(form, preset)] \in TaskRecords
  <1>1. form.timing \in Timings /\ form.enabled \in BOOLEAN
    BY DEF FormValid, TaskForms
  <1>2. ScheduledJob(form, preset) \in Jobs
    <2>1. CASE preset \in IndexPresets
      <3>1. form.metadata \in Files \union {None}
        BY <2>1 DEF FormValid, TaskForms
      <3>. DEFINE notify == preset \in {"index-update-external", "index-update-both"}
                  push == preset \in {"index-update-folder", "index-update-both"}
      <3>2. ScheduledJob(form, preset) = IndexJob(notify, push, form.metadata)
        BY <2>1 DEF ScheduledJob
      <3>3. notify \in BOOLEAN /\ push \in BOOLEAN
        BY DEF JobPresets, IndexPresets
      <3>. QED
        <4>. HIDE DEF notify, push
        <4>. QED
          BY <3>1, <3>2, <3>3, BuiltJobs
    <2>2. CASE preset \notin IndexPresets
      <3>1. form.database \in Files \union {None} /\ form.limit \in Limits \union {None}
        BY <2>2 DEF FormValid, TaskForms
      <3>. QED
        BY <2>2, <3>1, BuiltJobs DEF ScheduledJob
    <2>. QED
      BY <2>1, <2>2
  <1>. QED
    BY <1>1, <1>2, NoneIsNoJob DEF TaskRecords

\* What was not edited goes into the job as it came out of it.
LEMMA JobKeeps ==
  ASSUME TaskConstants, NEW from \in TaskRecords, NEW edited, NEW form \in TaskForms, NEW preset \in JobPresets,
         EditorShows(from, edited, form, preset),
         NEW to, to = [timing |-> form.timing, enabled |-> form.enabled, job |-> ScheduledJob(form, preset)]
  PROVE  Keeps(from, edited, to)
  <1>. DEFINE shown == TaskForm(from)
              job == ScheduledJob(form, preset)
  <1>1. \A field \in {"timing", "enabled", "metadata", "database", "limit"} \ edited : form[field] = shown[field]
    BY DEF EditorShows, TaskForms
  <1>2. /\ to.timing = form.timing /\ to.enabled = form.enabled /\ to.job = job
        /\ shown.timing = from.timing /\ shown.enabled = from.enabled
    BY DEF TaskForm
  <1>3. ASSUME from.job # None, "preset" \notin edited
        PROVE  <<job.kind, job.notify, job.push>> = <<from.job.kind, from.job.notify, from.job.push>>
    <2>1. preset = PresetForJob(from.job)
      BY <1>3 DEF EditorShows
    <2>2. CASE \E n, p \in BOOLEAN, f \in Files \union {None} : from.job = IndexJob(n, p, f)
      <3>1. PICK n \in BOOLEAN, p \in BOOLEAN, f \in Files \union {None} : from.job = IndexJob(n, p, f)
        BY <2>2
      <3>2. preset = CASE n /\ p -> "index-update-both" [] p /\ ~n -> "index-update-folder"
                       [] n /\ ~p -> "index-update-external" [] OTHER -> "index-update"
        BY <1>3, <2>1, <3>1 DEF PresetForJob, IndexJob
      <3>3. preset \in IndexPresets /\ job.kind = "index"
        BY <3>2 DEF IndexPresets, ScheduledJob, IndexJob
      <3>4. /\ job.notify = (preset \in {"index-update-external", "index-update-both"})
            /\ job.push = (preset \in {"index-update-folder", "index-update-both"})
        BY <3>3 DEF ScheduledJob, IndexJob
      <3>5. job.notify = n /\ job.push = p
        BY <3>2, <3>4
      <3>. QED
        BY <3>1, <3>3, <3>5 DEF IndexJob
    <2>3. CASE \E k \in {"notify", "push"}, f \in Files \union {None}, l \in Limits \union {None} :
                 from.job = DeliveryJob(k, f, l)
      <3>1. PICK k \in {"notify", "push"}, f \in Files \union {None}, l \in Limits \union {None} :
                   from.job = DeliveryJob(k, f, l)
        BY <2>3
      <3>2. from.job.kind = k /\ from.job.notify = FALSE /\ from.job.push = FALSE
        BY <3>1 DEF DeliveryJob
      <3>3. preset = IF k = "notify" THEN "external-only" ELSE "folder-only"
        BY <1>3, <2>1, <3>2 DEF PresetForJob
      <3>4. job.kind = k /\ job.notify = FALSE /\ job.push = FALSE
        BY <3>3 DEF ScheduledJob, DeliveryJob, IndexPresets
      <3>. QED
        BY <3>2, <3>4
    <2>. QED
      BY <1>3, <2>2, <2>3 DEF TaskRecords, Jobs
  <1>4. ASSUME from.job # None, IsIndex(from.job) = IsIndex(job)
        PROVE  /\ (IF IsIndex(job) THEN "metadata" ELSE "database") \notin edited => job.file = from.job.file
               /\ "limit" \notin edited => job.limit = from.job.limit
    <2>1. CASE preset \in IndexPresets
      <3>1. job.kind = "index" /\ job.file = form.metadata /\ job.limit = None
        BY <2>1 DEF ScheduledJob, IndexJob
      <3>2. from.job.kind = "index"
        BY <1>4, <3>1 DEF IsIndex
      <3>3. from.job.limit = None
        BY <1>4, <3>2 DEF TaskRecords, Jobs, IndexJob, DeliveryJob
      <3>4. shown.metadata = from.job.file
        BY <1>4, <3>2 DEF TaskForm
      <3>. QED
        BY <1>1, <3>1, <3>3, <3>4 DEF IsIndex
    <2>2. CASE preset \notin IndexPresets
      <3>1. job.kind \in {"notify", "push"} /\ job.file = form.database /\ job.limit = form.limit
        BY <2>2 DEF ScheduledJob, DeliveryJob
      <3>2. from.job.kind \in {"notify", "push"}
        BY <1>4, <3>1 DEF IsIndex, TaskRecords, Jobs, IndexJob, DeliveryJob
      <3>4. shown.database = from.job.file /\ shown.limit = from.job.limit
        BY <1>4, <3>2 DEF TaskForm
      <3>. QED
        BY <1>1, <3>1, <3>4 DEF IsIndex
    <2>. QED
      BY <2>1, <2>2
  <1>. QED
    <2>. HIDE DEF shown, job
    <2>. QED
      BY <1>1, <1>2, <1>3, <1>4 DEF Keeps

\* The steps in the editor: it begins with the form of the task, and what is
\* typed or chosen is no longer what was left alone.
LEMMA OpenCreateKeeps ==
  ASSUME TaskConstants, TasksInv, OpenCreate
  PROVE  TasksInv'
  <1>1. Shut \in [open : BOOLEAN, of : TaskIds \union {None}, form : TaskForms, preset : JobPresets, from : MaybeTask]
    BY DEF Shut, DefaultForm, TaskForms, JobPresets, IndexPresets, MaybeTask
  <1>2. tkEditor'.of = None /\ tkEditor'.from = None
        /\ tkEditor' \in [open : BOOLEAN, of : TaskIds \union {None}, form : TaskForms,
                          preset : JobPresets, from : MaybeTask]
    BY <1>1 DEF OpenCreate, Shut
  <1>. QED
    BY <1>2 DEF OpenCreate, TasksInv, TasksFit, EditorKeeps, SaveKeeps

LEMMA OpenTaskKeeps ==
  ASSUME TaskConstants, TasksInv, NEW t \in TaskIds, OpenTask(t)
  PROVE  TasksInv'
  <1>1. tkList[t] \in TaskRecords
    BY DEF OpenTask, TasksInv, TasksFit, MaybeTask
  <1>2. TaskForm(tkList[t]) \in TaskForms /\ PresetForJob(tkList[t].job) \in JobPresets
    BY <1>1, FormOfTask
  <1>3. /\ tkEditor' \in [open : BOOLEAN, of : TaskIds \union {None}, form : TaskForms,
                          preset : JobPresets, from : MaybeTask]
        /\ tkEditor'.of # None /\ tkEditor'.from # None
    BY <1>1, <1>2 DEF OpenTask, MaybeTask, TaskConstants
  <1>4. EditorKeeps'
    BY DEF OpenTask, EditorKeeps, EditorShows
  <1>. QED
    BY <1>3, <1>4 DEF OpenTask, TasksInv, TasksFit, SaveKeeps

LEMMA TypingKeeps ==
  ASSUME TasksInv, NEW field \in {"timing", "enabled", "metadata", "database", "limit"}, NEW values,
         \A v \in values : [tkEditor.form EXCEPT ![field] = v] \in TaskForms,
         TypedInto(field, values), UNCHANGED <<tkTasks, tkList, tkSave, tkSwitch>>
  PROVE  TasksInv'
  <1>1. PICK v \in values : /\ tkEditor' = [tkEditor EXCEPT !.form[field] = v]
                            /\ tkEdited' = tkEdited \union {field}
    BY DEF TypedInto
  <1>2. /\ tkEditor' = [tkEditor EXCEPT !.form = [tkEditor.form EXCEPT ![field] = v]]
        /\ [tkEditor.form EXCEPT ![field] = v] \in TaskForms
    BY <1>1 DEF TasksInv, TasksFit, TaskForms
  <1>3. TasksFit'
    BY <1>1, <1>2 DEF TasksInv, TasksFit, TaskFields
  <1>4. EditorKeeps'
    BY <1>1, <1>2 DEF TasksInv, TasksFit, EditorKeeps, EditorShows, TaskForms
  <1>. QED
    BY <1>3, <1>4 DEF TasksInv, SaveKeeps

LEMMA EditTaskKeeps ==
  ASSUME TaskConstants, TasksInv, EditTask
  PROVE  TasksInv'
  <1>1. tkEditor.form \in TaskForms
    BY DEF TasksInv, TasksFit
  <1>2. ASSUME TypedInto("timing", Timings \union {Bad})
        PROVE  TasksInv'
    BY <1>1, <1>2, TypingKeeps DEF EditTask, TaskForms
  <1>3. ASSUME TypedInto("enabled", BOOLEAN)
        PROVE  TasksInv'
    BY <1>1, <1>3, TypingKeeps DEF EditTask, TaskForms
  <1>4. ASSUME TypedInto("metadata", Files \union {None, Bad})
        PROVE  TasksInv'
    BY <1>1, <1>4, TypingKeeps DEF EditTask, TaskForms
  <1>5. ASSUME TypedInto("database", Files \union {None, Bad})
        PROVE  TasksInv'
    BY <1>1, <1>5, TypingKeeps DEF EditTask, TaskForms
  <1>6. ASSUME TypedInto("limit", Limits \union {None, Bad})
        PROVE  TasksInv'
    BY <1>1, <1>6, TypingKeeps DEF EditTask, TaskForms
  <1>. QED
    BY <1>2, <1>3, <1>4, <1>5, <1>6 DEF EditTask

LEMMA ChoosePresetKeeps ==
  ASSUME TasksInv, ChoosePreset
  PROVE  TasksInv'
  <1>1. PICK preset \in JobPresets : /\ tkEditor' = [tkEditor EXCEPT !.preset = preset]
                                     /\ tkEdited' = tkEdited \union {"preset"}
    BY DEF ChoosePreset
  <1>2. TasksFit'
    BY <1>1 DEF ChoosePreset, TasksInv, TasksFit, TaskFields
  <1>3. EditorKeeps'
    BY <1>1 DEF TasksInv, TasksFit, EditorKeeps, EditorShows, TaskForms
  <1>. QED
    BY <1>2, <1>3 DEF ChoosePreset, TasksInv, SaveKeeps

LEMMA CloseEditorKeeps ==
  ASSUME TasksInv, tkEditor' = Shut, tkEdited' = {}
  PROVE  /\ tkEditor' \in [open : BOOLEAN, of : TaskIds \union {None}, form : TaskForms,
                           preset : JobPresets, from : MaybeTask]
         /\ (tkEditor'.of = None) = (tkEditor'.from = None)
         /\ tkEdited' \subseteq TaskFields
         /\ EditorKeeps'
  <1>1. Shut.of = None /\ Shut.from = None
        /\ Shut \in [open : BOOLEAN, of : TaskIds \union {None}, form : TaskForms, preset : JobPresets, from : MaybeTask]
    BY DEF Shut, DefaultForm, TaskForms, JobPresets, IndexPresets, MaybeTask
  <1>. QED
    BY <1>1 DEF EditorKeeps

\* What is saved keeps what was left alone, and so does what is stored of it.
LEMMA SaveTaskKeeps ==
  ASSUME TaskConstants, TasksInv, SaveTask
  PROVE  TasksInv'
  <1>. DEFINE task == [timing |-> tkEditor.form.timing, enabled |-> tkEditor.form.enabled,
                       job |-> ScheduledJob(tkEditor.form, tkEditor.preset)]
  <1>1. /\ tkEditor.form \in TaskForms /\ tkEditor.preset \in JobPresets /\ tkEditor.from \in MaybeTask
        /\ tkEditor.of \in TaskIds \union {None}
    BY DEF TasksInv, TasksFit
  <1>2. task \in TaskRecords /\ task.job # None
    BY <1>1, TaskOfForm DEF SaveTask
  <1>3. tkEditor.from # None => Keeps(tkEditor.from, tkEdited, task)
    BY <1>1, JobKeeps DEF TasksInv, EditorKeeps, MaybeTask
  <1>4. tkSave' = [of |-> tkEditor.of, stage |-> "sent", from |-> tkEditor.from, edited |-> tkEdited, task |-> task]
    BY DEF SaveTask
  <1>. QED
    <2>. HIDE DEF task
    <2>1. TasksFit'
      BY <1>1, <1>2, <1>4 DEF SaveTask, TasksInv, TasksFit
    <2>2. EditorKeeps'
      BY DEF SaveTask, TasksInv, EditorKeeps
    <2>3. SaveKeeps'
      BY <1>2, <1>3, <1>4 DEF TasksInv, TasksFit, SaveKeeps
    <2>. QED
      BY <2>1, <2>2, <2>3 DEF TasksInv

LEMMA SwitchTaskKeeps ==
  ASSUME TasksInv, NEW t \in TaskIds, SwitchTask(t)
  PROVE  TasksInv'
  <1>1. tkList[t] \in TaskRecords
    BY DEF SwitchTask, TasksInv, TasksFit, MaybeTask
  <1>2. tkSwitch' \in [of : TaskIds, to : BOOLEAN, stage : {"sent", "ok", "failed"}]
    BY <1>1 DEF SwitchTask
  <1>. QED
    BY <1>2 DEF SwitchTask, TasksInv, TasksFit, EditorKeeps, SaveKeeps

LEMMA ServeTaskSaveKeeps ==
  ASSUME TaskConstants, TasksInv, ServeTaskSave
  PROVE  TasksInv'
  <1>1. PICK stage \in {"ok", "failed"} : tkSave' = [tkSave EXCEPT !.stage = stage]
    BY DEF ServeTaskSave
  <1>2. /\ tkSave' \in [of : TaskIds \union {None}, stage : {"sent", "ok", "failed"}, from : MaybeTask,
                        edited : SUBSET TaskFields, task : TaskRecords]
        /\ tkSave.task \in TaskRecords
        /\ tkSave'.of = tkSave.of /\ tkSave'.from = tkSave.from /\ tkSave'.edited = tkSave.edited
        /\ tkSave'.task = tkSave.task
    BY <1>1 DEF ServeTaskSave, TasksInv, TasksFit
  <1>3. SaveKeeps'
    BY <1>2 DEF ServeTaskSave, TasksInv, SaveKeeps
  <1>4. tkTasks' \in [TaskIds -> MaybeTask] /\ \A t \in TaskIds : LegacyIsOff(tkTasks'[t])
    <2>1. CASE UNCHANGED tkTasks
      BY <2>1 DEF TasksInv, TasksFit
    <2>2. CASE \E t \in TaskIds : tkTasks' = [tkTasks EXCEPT ![t] = tkSave.task]
      BY <1>2, <2>2 DEF ServeTaskSave, TasksInv, TasksFit, SaveKeeps, MaybeTask, LegacyIsOff
    <2>. QED
      BY <2>1, <2>2 DEF ServeTaskSave
  <1>5. TasksFit'
    BY <1>2, <1>4 DEF ServeTaskSave, TasksInv, TasksFit
  <1>. QED
    BY <1>3, <1>5 DEF ServeTaskSave, TasksInv, EditorKeeps

LEMMA ServeSwitchKeeps ==
  ASSUME TaskConstants, TasksInv, ServeSwitch
  PROVE  TasksInv'
  <1>. DEFINE t == tkSwitch.of
  <1>1. /\ tkSwitch \in [of : TaskIds, to : BOOLEAN, stage : {"sent", "ok", "failed"}]
        /\ \E stage \in {"ok", "failed"} : tkSwitch' = [tkSwitch EXCEPT !.stage = stage]
    BY DEF ServeSwitch, TasksInv, TasksFit
  <1>2. tkTasks' \in [TaskIds -> MaybeTask] /\ \A s \in TaskIds : LegacyIsOff(tkTasks'[s])
    <2>1. CASE UNCHANGED tkTasks
      BY <2>1 DEF TasksInv, TasksFit
    <2>2. CASE /\ tkTasks[t] # None /\ (tkTasks[t].job # None \/ ~tkSwitch.to)
               /\ tkTasks' = [tkTasks EXCEPT ![t].enabled = tkSwitch.to]
      <3>1. tkTasks[t] \in TaskRecords
        BY <1>1, <2>2 DEF TasksInv, TasksFit, MaybeTask
      <3>2. tkTasks' = [tkTasks EXCEPT ![t] = [tkTasks[t] EXCEPT !.enabled = tkSwitch.to]]
        BY <1>1, <2>2 DEF TasksInv, TasksFit
      <3>3. /\ [tkTasks[t] EXCEPT !.enabled = tkSwitch.to] \in TaskRecords
            /\ LegacyIsOff([tkTasks[t] EXCEPT !.enabled = tkSwitch.to])
        BY <1>1, <2>2, <3>1 DEF TaskRecords, LegacyIsOff
      <3>. QED
        BY <1>1, <3>2, <3>3 DEF TasksInv, TasksFit, MaybeTask
    <2>. QED
      BY <2>1, <2>2 DEF ServeSwitch
  <1>3. TasksFit'
    BY <1>1, <1>2 DEF ServeSwitch, TasksInv, TasksFit
  <1>. QED
    BY <1>3 DEF ServeSwitch, TasksInv, EditorKeeps, SaveKeeps

\* Replacing the command of a legacy task does not start it.
LEMMA ChangeElsewhereKeeps ==
  ASSUME TaskConstants, TasksInv, NEW t \in TaskIds, ChangeTaskElsewhere(t)
  PROVE  TasksInv' /\ LegacyIsOff(tkTasks'[t])
  <1>1. tkTasks[t] \in TaskRecords
    BY DEF ChangeTaskElsewhere, TasksInv, TasksFit, MaybeTask
  <1>2. PICK task : tkTasks' = [tkTasks EXCEPT ![t] = task]
                    /\ (task = None \/ task = [tkTasks[t] EXCEPT !.job = IndexJob(FALSE, FALSE, None)])
    BY <1>1 DEF ChangeTaskElsewhere, TasksInv, TasksFit
  <1>3. IndexJob(FALSE, FALSE, None) \in Jobs
    BY BuiltJobs
  <1>4. task \in MaybeTask /\ LegacyIsOff(task)
    BY <1>1, <1>2, <1>3, NoneIsNoJob DEF MaybeTask, TaskRecords, LegacyIsOff
  <1>5. /\ tkTasks' \in [TaskIds -> MaybeTask] /\ \A s \in TaskIds : LegacyIsOff(tkTasks'[s])
    BY <1>2, <1>4 DEF TasksInv, TasksFit
  <1>. QED
    BY <1>5 DEF ChangeTaskElsewhere, TasksInv, TasksFit, EditorKeeps, SaveKeeps

LEMMA AnswersKeep ==
  ASSUME TaskConstants, TasksInv, AnswerTaskSave \/ AnswerSwitch \/ ReadTasks
  PROVE  TasksInv'
  <1>1. CASE AnswerTaskSave
    <2>1. CASE tkSave.stage = "ok"
      BY <1>1, <2>1, CloseEditorKeeps DEF AnswerTaskSave, TasksInv, TasksFit, SaveKeeps
    <2>2. CASE tkSave.stage # "ok"
      BY <1>1, <2>2 DEF AnswerTaskSave, TasksInv, TasksFit, EditorKeeps, SaveKeeps
    <2>. QED
      BY <2>1, <2>2
  <1>2. CASE AnswerSwitch
    BY <1>2 DEF AnswerSwitch, TasksInv, TasksFit, EditorKeeps, SaveKeeps
  <1>3. CASE ReadTasks
    BY <1>3 DEF ReadTasks, TasksInv, TasksFit, EditorKeeps, SaveKeeps
  <1>. QED
    BY <1>1, <1>2, <1>3

SpentFits == tkSpent \in Nat

LEMMA TasksStay == TkSpec => [](TasksInv /\ SpentFits)
  <1>1. TkInit => TasksInv /\ SpentFits
    <2>. SUFFICES ASSUME TkInit
                  PROVE  TasksInv /\ SpentFits
      OBVIOUS
    <2>1. /\ Shut \in [open : BOOLEAN, of : TaskIds \union {None}, form : TaskForms,
                       preset : JobPresets, from : MaybeTask]
          /\ Shut.of = None /\ Shut.from = None
      BY DEF Shut, DefaultForm, TaskForms, JobPresets, IndexPresets, MaybeTask
    <2>. QED
      BY <2>1 DEF TkInit, TasksInv, TasksFit, EditorKeeps, SaveKeeps, MaybeTask, TaskRecords, SpentFits
  <1>2. TasksInv /\ [TkNext]_tkVars => TasksInv'
    <2>. SUFFICES ASSUME TasksInv, [TkNext]_tkVars
                  PROVE  TasksInv'
      OBVIOUS
    <2>1. CASE CloseEditor
      BY <2>1, CloseEditorKeeps DEF CloseEditor, TasksInv, TasksFit, SaveKeeps
    <2>2. CASE UNCHANGED tkVars
      BY <2>2 DEF tkVars, TasksInv, TasksFit, EditorKeeps, SaveKeeps
    <2>. QED
      BY <2>1, <2>2, TaskConstants, OpenCreateKeeps, OpenTaskKeeps, EditTaskKeeps, ChoosePresetKeeps,
         SaveTaskKeeps, SwitchTaskKeeps, ServeTaskSaveKeeps, ServeSwitchKeeps, ChangeElsewhereKeeps, AnswersKeep
         DEF TkNext
  <1>3. SpentFits /\ [TkNext]_tkVars => SpentFits'
    <2>1. ASSUME SpentFits, TaskStep
          PROVE  SpentFits'
      BY <2>1 DEF TaskStep, SpentFits
    <2>2. [TkNext]_tkVars => TaskStep \/ UNCHANGED tkSpent
      BY DEF TkNext, tkVars, OpenCreate, EditTask, ChoosePreset, CloseEditor, SaveTask, OpenTask,
         SwitchTask, ServeTaskSave, ServeSwitch, ChangeTaskElsewhere, AnswerTaskSave, AnswerSwitch, ReadTasks
    <2>. QED
      BY <2>1, <2>2 DEF SpentFits
  <1>. QED
    BY <1>1, <1>2, <1>3, PTL DEF TkSpec

\* A save writes only what was edited over what the editor was opened on, a
\* switch changes nothing but itself, and a legacy task is never on.
THEOREM SavesKeepUnedited == TkSpec => TasksKeepUnedited
  <1>. DEFINE Stored(t) ==
         tkTasks'[t] # tkTasks[t] /\ tkTasks'[t] # None =>
            /\ LegacyIsOff(tkTasks'[t])
            /\ \/ tkTasks[t] = None
               \/ tkSwitch # tkSwitch' /\ tkTasks'[t] = [tkTasks[t] EXCEPT !.enabled = tkSwitch.to]
               \/ tkSpent' # tkSpent
               \/ tkSave # tkSave' /\ Keeps(tkSave.from, tkSave.edited, tkTasks'[t])
  <1>1. TasksInv /\ TasksInv' /\ SpentFits /\ [TkNext]_tkVars => \A t \in TaskIds : Stored(t)
    <2>. SUFFICES ASSUME TasksInv, TasksInv', SpentFits, [TkNext]_tkVars,
                         NEW t \in TaskIds, tkTasks'[t] # tkTasks[t], tkTasks'[t] # None
                  PROVE  Stored(t)
      BY Zenon
    <2>1. LegacyIsOff(tkTasks'[t])
      BY DEF TasksInv, TasksFit
    <2>2. CASE ServeTaskSave
      <3>1. PICK s \in TaskIds : /\ IF tkSave.of = None THEN tkTasks[s] = None ELSE s = tkSave.of
                                 /\ tkTasks' = [tkTasks EXCEPT ![s] = tkSave.task]
        BY <2>2 DEF ServeTaskSave
      <3>2. t = s /\ tkTasks'[t] = tkSave.task
        BY <3>1 DEF TasksInv, TasksFit
      <3>3. tkSave # None /\ tkSave.stage = "sent" /\ tkSave' # tkSave
        BY <2>2, <3>1 DEF ServeTaskSave, TasksInv, TasksFit
      <3>. QED
        BY <2>1, <3>1, <3>2, <3>3 DEF TasksInv, SaveKeeps
    <2>3. CASE ServeSwitch
      <3>1. tkTasks' = [tkTasks EXCEPT ![tkSwitch.of].enabled = tkSwitch.to]
        BY <2>3 DEF ServeSwitch
      <3>2. t = tkSwitch.of /\ tkTasks'[t] = [tkTasks[t] EXCEPT !.enabled = tkSwitch.to]
        BY <3>1 DEF TasksInv, TasksFit
      <3>3. tkSwitch' # tkSwitch
        BY <2>3 DEF ServeSwitch, TasksInv, TasksFit
      <3>. QED
        BY <2>1, <3>2, <3>3
    <2>4. CASE \E s \in TaskIds : ChangeTaskElsewhere(s)
      BY <2>1, <2>4 DEF ChangeTaskElsewhere, TaskStep, SpentFits
    <2>5. CASE UNCHANGED tkTasks
      BY <2>5
    <2>. QED
      BY <2>2, <2>3, <2>4, <2>5 DEF TkNext, tkVars, OpenCreate, EditTask, ChoosePreset, CloseEditor, SaveTask,
         OpenTask, SwitchTask, AnswerTaskSave, AnswerSwitch, ReadTasks
  <1>. QED
    BY <1>1, TasksStay, PTL DEF TkSpec, TasksKeepUnedited

----------------------------------------------------------------------------
\* The cards

CardWrites == [kind : Writes, of : Targets, to : {"absent", "off", "on"},
               stage : {"sent", "done", "refused", "ok", "failed"}, ours : BOOLEAN]

WritesFit == cdWrites \in Seq(CardWrites) /\ cdSeen \in [Writes -> 0..Len(cdWrites)]

\* What the card observes of deletions is about the row it asks about.
AskedIsSeen == cdAsk # None /\ cdSeen["delete"] # 0 => cdWrites[cdSeen["delete"]].of = cdAsk

CardsInv == CardTypeOK /\ WritesFit /\ AskedIsSeen /\ ViewsFollowWrites

\* A write begun comes last; earlier ones stay, and so does what was seen of
\* them unless it is forgotten.
LEMMA BeginFits ==
  ASSUME WritesFit, NEW kind \in Writes, NEW of \in Targets, NEW to \in {"absent", "off", "on"},
         NEW forgotten, Begin(kind, of, to, forgotten)
  PROVE  /\ WritesFit'
         /\ Len(cdWrites') = Len(cdWrites) + 1
         /\ \A i \in 1..Len(cdWrites) : cdWrites'[i] = cdWrites[i]
         /\ cdWrites'[Len(cdWrites) + 1].of = of
         /\ cdSeen'[kind] = Len(cdWrites) + 1
         /\ \A k \in Writes \ {kind} : cdSeen'[k] \in {0, cdSeen[k]}
  <1>. DEFINE w == [kind |-> kind, of |-> of, to |-> to, stage |-> "sent", ours |-> TRUE]
  <1>1. w \in CardWrites /\ w.of = of
    BY DEF CardWrites
  <1>2. /\ cdWrites' = Append(cdWrites, w)
        /\ cdSeen' = [Unseen(forgotten) EXCEPT ![kind] = Len(cdWrites) + 1]
    BY DEF Begin
  <1>. HIDE DEF w
  <1>3. /\ cdWrites' \in Seq(CardWrites) /\ Len(cdWrites') = Len(cdWrites) + 1
        /\ \A i \in 1..Len(cdWrites) : cdWrites'[i] = cdWrites[i]
        /\ cdWrites'[Len(cdWrites) + 1] = w
    BY <1>1, <1>2 DEF WritesFit
  <1>4. Len(cdWrites) \in Nat
    BY DEF WritesFit
  <1>5. /\ cdSeen' \in [Writes -> 0..(Len(cdWrites) + 1)]
        /\ cdSeen'[kind] = Len(cdWrites) + 1
        /\ \A k \in Writes \ {kind} : cdSeen'[k] \in {0, cdSeen[k]}
    BY <1>2, <1>4 DEF WritesFit, Unseen
  <1>. QED
    BY <1>1, <1>3, <1>5 DEF WritesFit

\* The stage of a write changes and nothing else of the writes does.
LEMMA StageFits ==
  ASSUME WritesFit, NEW i \in DOMAIN cdWrites, NEW stage \in {"sent", "done", "refused", "ok", "failed"},
         cdWrites' = [cdWrites EXCEPT ![i].stage = stage], UNCHANGED cdSeen
  PROVE  /\ WritesFit'
         /\ DOMAIN cdWrites' = DOMAIN cdWrites
         /\ cdWrites'[i].stage = stage
         /\ \A j \in DOMAIN cdWrites : /\ cdWrites'[j].of = cdWrites[j].of
                                       /\ cdWrites'[j].kind = cdWrites[j].kind
                                       /\ j # i => cdWrites'[j] = cdWrites[j]
  <1>1. cdWrites[i] \in CardWrites
    BY DEF WritesFit
  <1>2. [cdWrites[i] EXCEPT !.stage = stage] \in CardWrites
    BY <1>1 DEF CardWrites
  <1>3. cdWrites' = [cdWrites EXCEPT ![i] = [cdWrites[i] EXCEPT !.stage = stage]]
    BY DEF WritesFit
  <1>4. cdWrites' \in Seq(CardWrites) /\ Len(cdWrites') = Len(cdWrites)
    BY <1>2, <1>3 DEF WritesFit
  <1>. QED
    BY <1>1, <1>2, <1>3, <1>4 DEF WritesFit, CardWrites

\* A card that is left disowns its writes.
LEMMA DisownFits ==
  ASSUME WritesFit, cdWrites' = [i \in DOMAIN cdWrites |-> [cdWrites[i] EXCEPT !.ours = FALSE]],
         cdSeen' = Unseen(Writes)
  PROVE  /\ WritesFit' /\ DOMAIN cdWrites' = DOMAIN cdWrites
         /\ \A j \in DOMAIN cdWrites : /\ cdWrites'[j].stage = cdWrites[j].stage
                                       /\ cdWrites'[j].kind = cdWrites[j].kind
         /\ cdSeen'["delete"] = 0
  <1>1. DOMAIN cdWrites = 1..Len(cdWrites) /\ Len(cdWrites) \in Nat
    BY DEF WritesFit
  <1>2. \A j \in DOMAIN cdWrites : [cdWrites[j] EXCEPT !.ours = FALSE] \in CardWrites
    <2>. SUFFICES ASSUME NEW j \in DOMAIN cdWrites
                  PROVE  [cdWrites[j] EXCEPT !.ours = FALSE] \in CardWrites
      OBVIOUS
    <2>1. cdWrites[j] \in CardWrites
      BY DEF WritesFit
    <2>. QED
      BY <2>1 DEF CardWrites
  <1>3. cdWrites' \in Seq(CardWrites) /\ Len(cdWrites') = Len(cdWrites)
    BY <1>1, <1>2
  <1>4. cdSeen' = [kind \in Writes |-> 0]
    BY DEF Unseen
  <1>. QED
    BY <1>1, <1>2, <1>3, <1>4 DEF WritesFit, Writes, CardWrites

\* What shows an outdated view stays excused while the rows, the views and
\* the excuses do, and no write that was done is taken back.
LEMMA ViewsStay ==
  ASSUME ViewsFollowWrites, UNCHANGED <<cdCard, cdRows, cdList, cdOld>>,
         cdDue \subseteq cdDue', cdUnsure \subseteq cdUnsure', DOMAIN cdWrites \subseteq DOMAIN cdWrites',
         \A i \in DOMAIN cdWrites : cdWrites[i].stage = "done" =>
            /\ cdWrites'[i].stage = "done" \/ Outdated(cdCard, cdWrites[i].kind) \subseteq cdDue'
            /\ cdWrites'[i].kind = cdWrites[i].kind
  PROVE  ViewsFollowWrites'
  <1>. SUFFICES ASSUME NEW q \in cdOld \union (IF cdList = cdRows THEN {} ELSE {"list"}),
                       q \notin cdDue' \union cdUnsure'
                PROVE  \E i \in DOMAIN cdWrites' :
                          cdWrites'[i].stage = "done" /\ q \in Outdated(cdCard, cdWrites'[i].kind)
    BY DEF ViewsFollowWrites, Outdated, Queries
  <1>1. PICK i \in DOMAIN cdWrites : cdWrites[i].stage = "done" /\ q \in Outdated(cdCard, cdWrites[i].kind)
    BY DEF ViewsFollowWrites
  <1>. QED
    BY <1>1

\* An empty editor is closed.
LEMMA BlankFits ==
  /\ Blank \in [open : BOOLEAN, of : Targets \union {None}, ok : BOOLEAN]
  /\ ~Blank.open
  <1>1. (cdCard \in {"tokens", "invites"}) \in BOOLEAN
    OBVIOUS
  <1>. QED
    BY <1>1 DEF Blank

\* Opening, editing and closing an editor leave the writes alone.
LEMMA EditorsFit ==
  ASSUME CardsInv, OpenNew \/ EditForm \/ CloseForm \/ \E t \in Targets : OpenEdit(t)
  PROVE  CardsInv'
  <1>. DEFINE Kept ==
                /\ UNCHANGED <<cdShape, cdServer, cdQueries, cdAsk, cdWrites>>
                /\ cdForm' \in [open : BOOLEAN, of : Targets \union {None}, ok : BOOLEAN] /\ cdMade' \in BOOLEAN
                /\ cdPanel = "shown"
                /\ \A kind \in Writes : cdSeen'[kind] \in {0, cdSeen[kind]}
                /\ cdSeen' \in [Writes -> 0..Len(cdWrites)]
  <1>1. Kept
    <2>0. /\ cdForm \in [open : BOOLEAN, of : Targets \union {None}, ok : BOOLEAN] /\ cdMade \in BOOLEAN
          /\ cdSeen \in [Writes -> 0..Len(cdWrites)] /\ Len(cdWrites) \in Nat
          /\ Asking => cdPanel = "shown"
      BY DEF CardsInv, CardTypeOK, WritesFit
    <2>1. CASE OpenNew
      BY <2>0, <2>1 DEF OpenNew, Reachable
    <2>2. CASE EditForm
      BY <2>0, <2>2 DEF EditForm, Sends, Asking, Reachable, cdDialogs
    <2>3. CASE CloseForm
      BY <2>0, <2>3 DEF CloseForm, Asking
    <2>4. ASSUME NEW t \in Targets, OpenEdit(t)
          PROVE  Kept
      <3>1. /\ cdSeen' = Unseen(IF cdCard = "users" THEN {"save"} ELSE {})
            /\ cdForm' = [open |-> TRUE, of |-> t, ok |-> cdCard # "users"]
            /\ UNCHANGED <<cdShape, cdServer, cdQueries, cdAsk, cdWrites, cdMade>> /\ cdPanel = "shown"
        BY <2>4 DEF OpenEdit, Reachable
      <3>. QED
        BY <2>0, <3>1 DEF Unseen
    <2>. QED
      BY <2>1, <2>2, <2>3, <2>4
  <1>2. CardTypeOK' /\ WritesFit'
    BY <1>1 DEF CardsInv, CardTypeOK, WritesFit, CardWrites, cdShape, cdServer, cdQueries, Asking,
       RowStates, Queries
  <1>3. AskedIsSeen'
    BY <1>1 DEF CardsInv, AskedIsSeen, Writes
  <1>4. ViewsFollowWrites'
    BY <1>1 DEF CardsInv, ViewsFollowWrites, Outdated, Queries, cdShape, cdServer, cdQueries
  <1>. QED
    BY <1>2, <1>3, <1>4 DEF CardsInv

\* Sending from an editor, switching a row and confirming a deletion begin a
\* write about a row.
LEMMA SendingFits ==
  ASSUME CardsInv, \/ MakeInvite \/ Confirm \/ \E t \in Targets : SendForm(t) \/ Switch(t)
  PROVE  CardsInv'
  <1>1. ASSUME NEW kind \in Writes, NEW of \in Targets, NEW to \in {"absent", "off", "on"}, NEW forgotten,
               Begin(kind, of, to, forgotten), cdAsk = None \/ kind # "delete" \/ of = cdAsk,
               UNCHANGED <<cdShape, cdServer, cdQueries, cdDialogs>>
        PROVE  CardsInv'
    <2>1. /\ WritesFit /\ WritesFit'
          /\ Len(cdWrites') = Len(cdWrites) + 1
          /\ \A i \in 1..Len(cdWrites) : cdWrites'[i] = cdWrites[i]
          /\ cdWrites'[Len(cdWrites) + 1].of = of
          /\ cdSeen'[kind] = Len(cdWrites) + 1
          /\ \A k \in Writes \ {kind} : cdSeen'[k] \in {0, cdSeen[k]}
      BY <1>1, BeginFits DEF CardsInv
    <2>2. /\ DOMAIN cdWrites = 1..Len(cdWrites) /\ DOMAIN cdWrites' = 1..Len(cdWrites') /\ Len(cdWrites) \in Nat
          /\ cdSeen["delete"] \in 0..Len(cdWrites)
      BY <2>1 DEF WritesFit, Writes
    <2>3. CardTypeOK'
      <3>1. \A i \in DOMAIN cdWrites' : cdWrites'[i] \in CardWrites
        BY <2>1 DEF WritesFit
      <3>2. cdSeen' \in [Writes -> 0..Len(cdWrites')]
        BY <2>1 DEF WritesFit
      <3>. QED
        BY <1>1, <3>1, <3>2 DEF CardsInv, CardTypeOK, CardWrites, cdShape, cdServer, cdQueries, cdDialogs, Asking,
           Queries
    <2>4. AskedIsSeen'
      BY <1>1, <2>1, <2>2 DEF CardsInv, AskedIsSeen, cdDialogs, Writes
    <2>5. ViewsFollowWrites'
      BY <1>1, <2>1, <2>2, ViewsStay DEF CardsInv, cdShape, cdServer, cdQueries
    <2>. QED
      BY <2>1, <2>3, <2>4, <2>5 DEF CardsInv
  <1>2. CASE MakeInvite
    <2>. DEFINE kind == IF Self \in Listed THEN "toggle" ELSE "save"
    <2>1. kind \in Writes /\ Self \in Targets /\ cdAsk = None
      BY <1>2, CardConstants DEF MakeInvite, Writes, Reachable, Asking
    <2>2. Begin(kind, Self, "on", Writes) /\ UNCHANGED <<cdShape, cdServer, cdQueries, cdDialogs>>
      BY <1>2 DEF MakeInvite
    <2>. HIDE DEF kind
    <2>. QED
      BY <1>1, <2>1, <2>2
  <1>3. CASE Confirm
    <2>. DEFINE to == IF cdCard \in Revocable THEN "off" ELSE "absent"
                kind == "delete"
    <2>1. to \in {"absent", "off", "on"} /\ kind \in Writes /\ cdAsk \in Targets
      BY <1>3 DEF Confirm, CardsInv, CardTypeOK, Writes
    <2>2. Begin(kind, cdAsk, to, {}) /\ UNCHANGED <<cdShape, cdServer, cdQueries, cdDialogs>>
      BY <1>3 DEF Confirm
    <2>. HIDE DEF to, kind
    <2>. QED
      BY <1>1, <2>1, <2>2
  <1>4. ASSUME NEW t \in Targets, SendForm(t)
        PROVE  CardsInv'
    <2>. DEFINE kind == "save"
    <2>1. kind \in Writes /\ kind # "delete"
      BY DEF Writes
    <2>2. Begin(kind, t, "on", {}) /\ UNCHANGED <<cdShape, cdServer, cdQueries, cdDialogs>>
      BY <1>4 DEF SendForm
    <2>. HIDE DEF kind
    <2>. QED
      BY <1>1, <2>1, <2>2
  <1>5. ASSUME NEW t \in Targets, Switch(t)
        PROVE  CardsInv'
    <2>. DEFINE kind == "toggle"
                to == IF cdList[t] = "on" THEN "off" ELSE "on"
    <2>1. kind \in Writes /\ kind # "delete" /\ to \in {"absent", "off", "on"}
      BY DEF Writes
    <2>2. Begin(kind, t, to, {}) /\ UNCHANGED <<cdShape, cdServer, cdQueries, cdDialogs>>
      BY <1>5 DEF Switch
    <2>. HIDE DEF kind, to
    <2>. QED
      BY <1>1, <2>1, <2>2
  <1>. QED
    BY <1>2, <1>3, <1>4, <1>5

\* Asking for a deletion forgets the one before.
LEMMA AskingFits ==
  ASSUME CardsInv, Dismiss \/ \E t \in Targets : AskDelete(t)
  PROVE  CardsInv'
  <1>1. CASE Dismiss
    BY <1>1 DEF Dismiss, CardsInv, CardTypeOK, WritesFit, AskedIsSeen, ViewsFollowWrites, Outdated, Queries,
       cdShape, cdServer, cdQueries, Asking
  <1>2. ASSUME NEW t \in Targets, AskDelete(t)
        PROVE  CardsInv'
    <2>1. /\ cdSeen \in [Writes -> 0..Len(cdWrites)] /\ Len(cdWrites) \in Nat
      BY DEF CardsInv, WritesFit
    <2>2. cdSeen' \in [Writes -> 0..Len(cdWrites)] /\ cdSeen'["delete"] = 0
      BY <1>2, <2>1 DEF AskDelete, Unseen, OnAsking, Writes
    <2>3. cdPanel = "shown"
      BY <1>2 DEF AskDelete, Reachable
    <2>4. CardTypeOK'
      BY <1>2, <2>2, <2>3 DEF AskDelete, CardsInv, CardTypeOK, cdShape, cdServer, cdQueries, Asking, Queries
    <2>5. ViewsFollowWrites'
      BY <1>2 DEF AskDelete, CardsInv, ViewsFollowWrites, Outdated, Queries, cdShape, cdServer, cdQueries
    <2>. QED
      BY <1>2, <2>2, <2>4, <2>5 DEF AskDelete, CardsInv, WritesFit, AskedIsSeen
  <1>. QED
    BY <1>1, <1>2

\* The server carries a write out, which outdates what shows it, or not.
LEMMA ServeWriteFits ==
  ASSUME CardsInv, NEW i \in DOMAIN cdWrites, ServeWrite(i)
  PROVE  CardsInv'
  <1>. DEFINE w == cdWrites[i]
              secret == cdCard = "users" /\ w.kind = "save"
  <1>1. w \in CardWrites /\ w.stage = "sent" /\ UNCHANGED <<cdShape, cdList, cdDue, cdDialogs, cdSeen>>
    BY DEF ServeWrite, CardsInv, WritesFit
  <1>2. PICK stage \in {"done", "refused"} : cdWrites' = [cdWrites EXCEPT ![i].stage = stage]
    BY DEF ServeWrite
  <1>3. /\ WritesFit' /\ DOMAIN cdWrites' = DOMAIN cdWrites /\ cdWrites'[i].stage = stage
        /\ \A j \in DOMAIN cdWrites : /\ cdWrites'[j].of = cdWrites[j].of
                                      /\ cdWrites'[j].kind = cdWrites[j].kind
                                      /\ j # i => cdWrites'[j] = cdWrites[j]
    BY <1>1, <1>2, StageFits DEF CardsInv
  <1>4. cdUnsure \subseteq cdUnsure' /\ cdUnsure' \subseteq Queries(cdCard)
    BY DEF ServeWrite, CardsInv, CardTypeOK, Outdated, cdServer
  <1>5. /\ cdRows' \in RowStates /\ cdOld' \subseteq Queries(cdCard)
        /\ \/ UNCHANGED <<cdRows, cdOld>>
           \/ stage = "done" /\ ~secret
           \/ ~secret /\ cdUnsure' = cdUnsure \union Outdated(cdCard, w.kind)
    <2>1. CASE UNCHANGED <<cdServer, cdOld>>
      BY <2>1 DEF CardsInv, CardTypeOK, cdServer
    <2>2. CASE secret
      <3>1. UNCHANGED <<cdRows, cdOld>>
        BY <2>2 DEF ServeWrite, cdServer
      <3>. QED
        BY <3>1 DEF CardsInv, CardTypeOK
    <2>3. CASE ~secret /\ ~UNCHANGED <<cdServer, cdOld>>
      <3>1. cdRows' = [cdRows EXCEPT ![w.of] = w.to] /\ cdOld' = Queries(cdCard)
        BY <2>3 DEF ServeWrite
      <3>2. \/ cdWrites' = [cdWrites EXCEPT ![i].stage = "done"]
            \/ cdUnsure' = cdUnsure \union Outdated(cdCard, w.kind)
        BY <2>3 DEF ServeWrite
      <3>3. stage = "done" \/ cdUnsure' = cdUnsure \union Outdated(cdCard, w.kind)
        BY <1>1, <1>2, <1>3, <3>2 DEF CardsInv, WritesFit, CardWrites
      <3>4. cdRows' \in RowStates
        BY <1>1, <3>1 DEF CardsInv, CardTypeOK, RowStates, CardWrites
      <3>. QED
        BY <2>3, <3>1, <3>3, <3>4
    <2>. QED
      BY <2>1, <2>2, <2>3
  <1>6. CardTypeOK'
    <2>1. (\A j \in DOMAIN cdWrites' : cdWrites'[j] \in CardWrites) /\ cdSeen' \in [Writes -> 0..Len(cdWrites')]
      BY <1>3 DEF WritesFit
    <2>. QED
      BY <1>1, <1>4, <1>5, <2>1
         DEF CardsInv, CardTypeOK, CardWrites, cdShape, cdDialogs, Asking, Queries
  <1>7. AskedIsSeen'
    <2>1. cdSeen["delete"] # 0 => cdSeen["delete"] \in DOMAIN cdWrites
      BY DEF CardsInv, WritesFit, Writes
    <2>. QED
      BY <1>1, <1>3, <2>1 DEF CardsInv, AskedIsSeen, cdDialogs
  <1>8. ViewsFollowWrites'
    <2>1. CASE UNCHANGED <<cdRows, cdOld>>
      BY <1>1, <1>3, <1>4, <2>1, ViewsStay DEF CardsInv, cdShape
    <2>2. CASE ~secret /\ (stage = "done" \/ cdUnsure' = cdUnsure \union Outdated(cdCard, w.kind))
      <3>1. Outdated(cdCard, w.kind) = Queries(cdCard) /\ cdCard' = cdCard
        BY <1>1, <2>2 DEF Outdated, cdShape
      <3>2. \A q \in cdOld' \union (IF cdList' = cdRows' THEN {} ELSE {"list"}) : q \in Queries(cdCard)
        BY <1>5 DEF Queries
      <3>3. cdWrites'[i].kind = w.kind
        BY <1>3
      <3>. QED
        BY <1>3, <2>2, <3>1, <3>2, <3>3 DEF ViewsFollowWrites
    <2>. QED
      BY <1>5, <2>1, <2>2
  <1>. QED
    BY <1>3, <1>6, <1>7, <1>8 DEF CardsInv

\* An answer closes what it closes, and what it outdates is to be read.
LEMMA AnswerWriteFits ==
  ASSUME CardsInv, NEW i \in DOMAIN cdWrites, AnswerWrite(i)
  PROVE  CardsInv'
  <1>. DEFINE w == cdWrites[i]
  <1>1. w \in CardWrites /\ UNCHANGED <<cdShape, cdServer, cdList, cdOld, cdSeen>>
    BY DEF AnswerWrite, CardsInv, WritesFit, cdQueries
  <1>2. PICK stage \in {"ok", "failed"} :
          /\ cdWrites' = [cdWrites EXCEPT ![i].stage = stage]
          /\ \/ w.stage = "done" /\ cdDue' = cdDue \union Outdated(cdCard, w.kind) /\ Closed(w)
             \/ w.stage = "refused" /\ UNCHANGED <<cdDue, cdDialogs>>
    BY DEF AnswerWrite, cdQueries
  <1>3. /\ WritesFit' /\ DOMAIN cdWrites' = DOMAIN cdWrites
        /\ \A j \in DOMAIN cdWrites : /\ cdWrites'[j].of = cdWrites[j].of
                                      /\ cdWrites'[j].kind = cdWrites[j].kind
                                      /\ j # i => cdWrites'[j] = cdWrites[j]
    BY <1>1, <1>2, StageFits DEF CardsInv
  <1>4. /\ cdForm' \in [open : BOOLEAN, of : Targets \union {None}, ok : BOOLEAN] /\ cdMade' \in BOOLEAN
        /\ cdAsk' \in {None, cdAsk}
        /\ cdForm'.open => cdForm.open
    <2>1. CASE Closed(w)
      <3>1. \/ cdForm' = [open |-> FALSE, of |-> None, ok |-> FALSE] /\ UNCHANGED <<cdMade, cdAsk>>
            \/ cdMade' = TRUE /\ cdForm' = [cdForm EXCEPT !.ok = TRUE] /\ UNCHANGED cdAsk
            \/ cdAsk' = None /\ UNCHANGED <<cdForm, cdMade>>
            \/ UNCHANGED cdDialogs
        BY <2>1 DEF Closed
      <3>2. /\ cdForm \in [open : BOOLEAN, of : Targets \union {None}, ok : BOOLEAN] /\ cdMade \in BOOLEAN
        BY DEF CardsInv, CardTypeOK
      <3>3. [open |-> FALSE, of |-> None, ok |-> FALSE] \in [open : BOOLEAN, of : Targets \union {None}, ok : BOOLEAN]
        OBVIOUS
      <3>. QED
        BY <3>1, <3>2, <3>3 DEF cdDialogs
    <2>2. CASE UNCHANGED cdDialogs
      BY <2>2 DEF CardsInv, CardTypeOK, cdDialogs
    <2>. QED
      BY <1>2, <2>1, <2>2 DEF cdDialogs
  <1>5. cdDue \subseteq cdDue' /\ cdDue' \subseteq Queries(cdCard)
        /\ (w.stage = "done" => Outdated(cdCard, w.kind) \subseteq cdDue')
    BY <1>2 DEF CardsInv, CardTypeOK, Outdated
  <1>6. CardTypeOK'
    <2>1. (\A j \in DOMAIN cdWrites' : cdWrites'[j] \in CardWrites) /\ cdSeen' \in [Writes -> 0..Len(cdWrites')]
      BY <1>3 DEF WritesFit
    <2>. QED
      BY <1>1, <1>4, <1>5, <2>1
         DEF CardsInv, CardTypeOK, CardWrites, cdShape, cdServer, Asking, Queries
  <1>7. AskedIsSeen'
    <2>1. cdSeen["delete"] # 0 => cdSeen["delete"] \in DOMAIN cdWrites
      BY DEF CardsInv, WritesFit, Writes
    <2>. QED
      BY <1>1, <1>3, <1>4, <2>1 DEF CardsInv, AskedIsSeen
  <1>8. ViewsFollowWrites'
    BY <1>1, <1>3, <1>5, ViewsStay DEF CardsInv, cdShape, cdServer
  <1>. QED
    BY <1>3, <1>6, <1>7, <1>8 DEF CardsInv

\* A query read again shows the rows.
LEMMA ReadFits ==
  ASSUME CardsInv, NEW queries, Read(queries)
  PROVE  CardsInv'
  <1>1. CardTypeOK'
    BY DEF Read, CardsInv, CardTypeOK, cdShape, cdDialogs, Asking, Queries
  <1>2. ViewsFollowWrites'
    BY DEF Read, CardsInv, ViewsFollowWrites, cdShape, Outdated, Queries
  <1>. QED
    BY <1>1, <1>2 DEF Read, CardsInv, WritesFit, AskedIsSeen, cdDialogs

\* A panel is left only with nothing open in it.
LEMMA PanelsFit ==
  ASSUME CardsInv, HidePanel \/ LeaveCentre \/ ShowPanel
  PROVE  CardsInv'
  <1>1. CASE ShowPanel
    <2>1. /\ cdForm' \in [open : BOOLEAN, of : Targets \union {None}, ok : BOOLEAN]
          /\ cdDue \subseteq cdDue' /\ cdDue' \subseteq Queries(cdCard)
          /\ UNCHANGED <<cdCard, cdServer, cdList, cdOld, cdMade, cdAsk, cdWrites, cdSeen>>
          /\ cdPanel' = "shown"
      BY <1>1, BlankFits DEF ShowPanel, CardsInv, CardTypeOK, Queries
    <2>2. CardTypeOK'
      BY <2>1 DEF CardsInv, CardTypeOK, cdServer, Asking, Queries
    <2>3. ViewsFollowWrites'
      BY <2>1 DEF CardsInv, ViewsFollowWrites, cdServer, Outdated, Queries
    <2>. QED
      BY <2>1, <2>2, <2>3 DEF CardsInv, WritesFit, AskedIsSeen
  <1>2. CASE HidePanel \/ LeaveCentre
    <2>1. /\ ~Asking /\ cdPanel' \in {"hidden", "gone"}
          /\ UNCHANGED <<cdCard, cdServer, cdQueries, cdDialogs>>
      BY <1>2 DEF HidePanel, LeaveCentre, Reachable, CardsInv, CardTypeOK
    <2>2. \/ UNCHANGED <<cdWrites, cdSeen>>
          \/ /\ cdWrites' = [i \in DOMAIN cdWrites |-> [cdWrites[i] EXCEPT !.ours = FALSE]]
             /\ cdSeen' = Unseen(Writes)
      BY <1>2 DEF HidePanel, LeaveCentre
    <2>3. /\ WritesFit' /\ DOMAIN cdWrites' = DOMAIN cdWrites
          /\ \A j \in DOMAIN cdWrites : /\ cdWrites'[j].stage = cdWrites[j].stage
                                        /\ cdWrites'[j].kind = cdWrites[j].kind
      BY <2>2, DisownFits DEF CardsInv, WritesFit
    <2>4. CardTypeOK'
      <3>1. (\A j \in DOMAIN cdWrites' : cdWrites'[j] \in CardWrites) /\ cdSeen' \in [Writes -> 0..Len(cdWrites')]
        BY <2>3 DEF WritesFit
      <3>. QED
        BY <2>1, <3>1 DEF CardsInv, CardTypeOK, CardWrites, cdServer, cdQueries, cdDialogs, Asking, Queries
    <2>5. AskedIsSeen'
      BY <2>1 DEF Asking, AskedIsSeen, cdDialogs
    <2>6. ViewsFollowWrites'
      BY <2>1, <2>3, ViewsStay DEF CardsInv, cdServer, cdQueries
    <2>. QED
      BY <2>3, <2>4, <2>5, <2>6 DEF CardsInv
  <1>. QED
    BY <1>1, <1>2

LEMMA CardsStay == CardSpec => []CardsInv
  <1>1. CardInit => CardsInv
    <2>. SUFFICES ASSUME CardInit
                  PROVE  CardsInv
      OBVIOUS
    <2>1. cdRows \in RowStates /\ cdForm \in [open : BOOLEAN, of : Targets \union {None}, ok : BOOLEAN]
      BY BlankFits DEF CardInit, RowStates
    <2>2. cdWrites \in Seq(CardWrites) /\ Len(cdWrites) = 0 /\ cdSeen \in [Writes -> 0..Len(cdWrites)]
      BY DEF CardInit
    <2>3. CardTypeOK
      <3>1. DOMAIN cdWrites = {}
        BY DEF CardInit
      <3>2. ~cdForm.open /\ cdAsk = None /\ cdList = cdRows
        BY BlankFits DEF CardInit
      <3>. QED
        BY <2>1, <2>2, <3>1, <3>2 DEF CardInit, CardTypeOK, Asking
    <2>. QED
      BY <2>2, <2>3 DEF CardInit, CardsInv, WritesFit, AskedIsSeen, ViewsFollowWrites
  <1>2. CardsInv /\ [CardNext]_cdVars => CardsInv'
    <2>. SUFFICES ASSUME CardsInv, [CardNext]_cdVars
                  PROVE  CardsInv'
      OBVIOUS
    <2>1. CASE UNCHANGED cdVars
      BY <2>1 DEF cdVars, cdShape, cdServer, cdQueries, cdDialogs, CardsInv, CardTypeOK, WritesFit, AskedIsSeen,
         ViewsFollowWrites, Outdated, Queries, Asking
    <2>. QED
      BY <2>1, EditorsFit, SendingFits, AskingFits, ServeWriteFits, AnswerWriteFits, ReadFits, PanelsFit
         DEF CardNext, ReadAgain, LookAgain
  <1>. QED
    BY <1>1, <1>2, PTL DEF CardSpec

\* The failure shown under a question is that of the row the question names.
THEOREM FailuresAreTold == CardSpec => []FailureNamesItsRow
  <1>1. CardsInv => FailureNamesItsRow
    BY DEF CardsInv, AskedIsSeen, FailureNamesItsRow, Failed
  <1>. QED
    BY <1>1, CardsStay, PTL

\* A view differs from the server only while it is to be read again, a write
\* is to be answered, or an answer was lost.
THEOREM ViewsAreCurrent == CardSpec => []ViewsFollowWrites
  <1>1. CardsInv => ViewsFollowWrites
    BY DEF CardsInv
  <1>. QED
    BY <1>1, CardsStay, PTL

----------------------------------------------------------------------------
\* The runtime settings

\* Drafts and saves are records of these fields.
IsDraft(d) == DOMAIN d = {"orders", "secret", "clear", "add", "marked"}
IsSave(s) == DOMAIN s = {"stage", "sent", "of", "back", "ours"}

\* What a draft holds was edited, and so was what a save sends.
DraftIsTouched ==
    /\ IsDraft(rtDraft)
    /\ rtDraft.orders # None => "orders" \in rtTouched
    /\ rtDraft.secret # None \/ "secret" \in rtDraft.clear => "secret" \in rtTouched
    /\ "pool" \in rtDraft.clear \/ rtDraft.add # {} \/ rtDraft.marked # {} => "pool" \in rtTouched

SaveIsTouched ==
    rtSave # None =>
        /\ IsSave(rtSave)
        /\ rtSave.sent.orders # None => "orders" \in rtSave.of
        /\ rtSave.sent.secret # None => "secret" \in rtSave.of
        /\ rtSave.sent.clear \/ rtSave.sent.add # {} \/ rtSave.sent.remove # {} => "pool" \in rtSave.of

RuntimeInv == DraftIsTouched /\ SaveIsTouched

\* An edit keeps a draft one, and marks its setting.
LEMMA DraftStep ==
  ASSUME RuntimeInv, NEW draft, NEW field, Draft(draft, field), IsDraft(draft),
         draft.orders # rtDraft.orders => field = "orders",
         draft.secret # rtDraft.secret => field = "secret",
         "secret" \in draft.clear /\ "secret" \notin rtDraft.clear => field = "secret",
         \/ field = "pool"
         \/ draft.add = rtDraft.add /\ draft.marked = rtDraft.marked /\ ("pool" \in draft.clear <=> "pool" \in rtDraft.clear)
  PROVE  RuntimeInv'
  BY DEF RuntimeInv, DraftIsTouched, SaveIsTouched, Draft

LEMMA RuntimeStays == RtSpec => []RuntimeInv
  <1>1. RtInit => RuntimeInv
    BY DEF RtInit, RuntimeInv, DraftIsTouched, SaveIsTouched, IsDraft, Untouched
  <1>2. RuntimeInv /\ [RtNext]_rtVars => RuntimeInv'
    <2>. SUFFICES ASSUME RuntimeInv, [RtNext]_rtVars
                  PROVE  RuntimeInv'
      OBVIOUS
    <2>1. IsDraft(rtDraft)
      BY DEF RuntimeInv, DraftIsTouched
    <2>2. CASE EditOrders
      <3>1. PICK orders : Draft([rtDraft EXCEPT !.orders = orders], "orders")
        BY <2>2 DEF EditOrders
      <3>. QED
        BY <2>1, <3>1, DraftStep DEF IsDraft
    <2>3. CASE TypeSecret
      <3>1. PICK v : Draft([rtDraft EXCEPT !.secret = v, !.clear = rtDraft.clear \ {"secret"}], "secret")
        BY <2>3 DEF TypeSecret
      <3>. QED
        BY <2>1, <3>1, DraftStep DEF IsDraft
    <2>4. ASSUME NEW field \in {"secret", "pool"}, ToggleSecretClear(field)
          PROVE  RuntimeInv'
      <3>. DEFINE clear == IF field \in rtDraft.clear THEN rtDraft.clear \ {field} ELSE rtDraft.clear \union {field}
      <3>1. Draft([rtDraft EXCEPT !.clear = clear], field)
        BY <2>1, <2>4 DEF ToggleSecretClear, IsDraft
      <3>. QED
        BY <2>1, <3>1, DraftStep DEF IsDraft
    <2>5. CASE TypeAddition
      <3>1. PICK add : Draft([rtDraft EXCEPT !.add = add], "pool")
        BY <2>5 DEF TypeAddition
      <3>. QED
        BY <2>1, <3>1, DraftStep DEF IsDraft
    <2>6. ASSUME NEW k \in Keys, ToggleRemoval(k)
          PROVE  RuntimeInv'
      <3>. DEFINE marked == IF ToRemove(k) THEN rtDraft.marked \ {<<k, rtCache.age>>}
                            ELSE rtDraft.marked \union {<<k, rtCache.age>>}
      <3>1. Draft([rtDraft EXCEPT !.marked = marked], "pool")
        BY <2>1, <2>6 DEF ToggleRemoval, IsDraft
      <3>. HIDE DEF marked
      <3>. QED
        BY <2>1, <3>1, DraftStep DEF IsDraft
    <2>7. CASE SaveRuntime
      BY <2>7 DEF SaveRuntime, RuntimeInv, DraftIsTouched, SaveIsTouched, IsSave, Payload
    <2>8. CASE ServeRuntime
      <3>1. /\ IsSave(rtSave) /\ SaveIsTouched /\ DraftIsTouched /\ rtSave # None
            /\ UNCHANGED <<rtDraft, rtTouched>>
        BY <2>8 DEF ServeRuntime, RuntimeInv, SaveIsTouched
      <3>2. \/ rtSave' = [rtSave EXCEPT !.stage = "done", !.back = rtStored']
            \/ rtSave' = [rtSave EXCEPT !.stage = "failed"]
        BY <2>8 DEF ServeRuntime
      <3>3. IsSave(rtSave') /\ rtSave'.sent = rtSave.sent /\ rtSave'.of = rtSave.of
        BY <3>1, <3>2 DEF IsSave
      <3>. QED
        BY <3>1, <3>3 DEF RuntimeInv, DraftIsTouched, SaveIsTouched
    <2>9. CASE AnswerRuntime
      BY <2>9 DEF AnswerRuntime, RuntimeInv, DraftIsTouched, SaveIsTouched, IsDraft, Untouched
    <2>10. CASE LeaveRuntime
      BY <2>10 DEF LeaveRuntime, RuntimeInv, DraftIsTouched, SaveIsTouched, IsDraft, IsSave, Untouched
    <2>11. CASE ReadRuntime \/ ReturnRuntime \/ OthersSave \/ UNCHANGED rtVars
      BY <2>11 DEF ReadRuntime, ReturnRuntime, OthersSave, rtVars, RuntimeInv, DraftIsTouched, SaveIsTouched
    <2>. QED
      BY <2>2, <2>3, <2>4, <2>5, <2>6, <2>7, <2>8, <2>9, <2>10, <2>11 DEF RtNext
  <1>. QED
    BY <1>1, <1>2, PTL DEF RtSpec

\* A save changes what its draft changed and nothing else, and a pool loses
\* only what was marked, unless it was cleared.
THEOREM SavesChangeEdits == RtSpec => SavesTouchOnlyEdits
  <1>1. RuntimeInv =>
          (ServeRuntime =>
            /\ \A f \in {"orders", "secret", "pool"} : rtStored'[f] # rtStored[f] => f \in rtSave.of
            /\ ~rtSave.sent.clear => rtStored.pool \ rtStored'.pool \subseteq rtSave.sent.remove)
    <2>. SUFFICES ASSUME RuntimeInv, ServeRuntime
                  PROVE  /\ \A f \in {"orders", "secret", "pool"} : rtStored'[f] # rtStored[f] => f \in rtSave.of
                         /\ ~rtSave.sent.clear => rtStored.pool \ rtStored'.pool \subseteq rtSave.sent.remove
      OBVIOUS
    <2>1. CASE UNCHANGED rtStored
      BY <2>1
    <2>2. CASE rtStored' = Merged(rtStored, rtSave.sent)
      <3>1. /\ rtStored'.orders = IF rtSave.sent.orders = None THEN rtStored.orders ELSE rtSave.sent.orders
            /\ rtSave.sent.secret = None => rtStored'.secret = rtStored.secret
            /\ rtStored'.pool = IF rtSave.sent.clear THEN {}
                                ELSE (rtStored.pool \ rtSave.sent.remove) \union rtSave.sent.add
        BY <2>2, NoneIsNoSecret DEF Merged
      <3>2. SaveIsTouched /\ rtSave # None
        BY DEF ServeRuntime, RuntimeInv
      <3>. QED
        BY <3>1, <3>2 DEF SaveIsTouched
    <2>. QED
      BY <2>1, <2>2 DEF ServeRuntime
  <1>. QED
    BY <1>1, RuntimeStays, PTL DEF SavesTouchOnlyEdits

----------------------------------------------------------------------------
\* The CNKI session

\* What the requests are; only orphans are not waited for, and an answer has
\* a status.
JobsFit(jobs) ==
    /\ jobs \in [CnkiSlots -> Requests]
    /\ \A id \in CnkiSlots : jobs[id].stage \in {"ok", "bad"} => jobs[id].by # None
    /\ \A id \in CnkiSlots : jobs[id].stage = "ok" => jobs[id].status \in CnkiStates

\* A request that holds a generation in jobs holds it in cnJobs too.
HoldsNoMore(jobs) ==
    \A id \in CnkiSlots :
        jobs[id].stage = "held" =>
            /\ cnJobs[id].stage = "held" /\ jobs[id].kind = cnJobs[id].kind
            /\ jobs[id].gen = cnJobs[id].gen /\ jobs[id].login = cnJobs[id].login

\* The part of the invariant about the server.
ServerFits ==
    /\ cnRow \in [status : CnkiStates, qr : Nat \union {None}, gen : Nat, login : Nat]
    /\ cnLogins \in Nat /\ cnNewest \in Nat /\ cnBarrier \in Nat
    /\ cnNewest <= cnLogins /\ cnBarrier <= cnLogins
    /\ cnRow.qr # None => cnRow.status # "empty"
    /\ SessionIsCurrent

\* The part about the cards.
CnkiCardsFit ==
    /\ cnSpent \in Nat
    /\ cnQr \in [CnkiCards -> Nat \union {None}] /\ cnStatus \in [CnkiCards -> CnkiStates]
    /\ cnMessage \in [CnkiCards -> {None, "confirming", "done", "cleared", "failed"}]
    /\ cnAsking \subseteq CnkiCards

\* The invariant is its parts.
LEMMA Parts == CnkiInv <=> ServerFits /\ JobsFit(cnJobs) /\ HeldFits /\ CnkiCardsFit
  BY DEF CnkiInv, CnTypeOK, ServerFits, JobsFit, CnkiCardsFit

LEMMA PartsNext == CnkiInv' <=> ServerFits' /\ JobsFit(cnJobs') /\ HeldFits' /\ CnkiCardsFit'
  BY DEF CnkiInv, CnTypeOK, ServerFits, JobsFit, CnkiCardsFit

\* The requests

\* A request that has not begun is one, and holds nothing.
LEMMA FreshRequests ==
  /\ NoRequest \in Requests /\ NoRequest.stage = None /\ None \notin {"held", "ok", "bad"}
  /\ \A c \in CnkiCards, kind \in Kinds :
        Request(c, kind) \in Requests /\ Request(c, kind).stage = "sent"
  BY CnkiConstants DEF NoRequest, Requests, Request, Kinds, Stages

\* Sending a request begins one that holds nothing.
LEMMA RequestFits ==
  ASSUME JobsFit(cnJobs), NEW c \in CnkiCards, NEW kind \in Kinds, GoesOut(c, kind)
  PROVE  JobsFit(cnJobs') /\ HoldsNoMore(cnJobs')
  BY FreshRequests DEF GoesOut, JobsFit, HoldsNoMore

\* Asking for the status again takes the place of what was under way.
LEMMA PollingFits ==
  ASSUME NEW jobs, JobsFit(jobs), HoldsNoMore(jobs), NEW c \in CnkiCards
  PROVE  JobsFit(StatusAsked(jobs, c)) /\ HoldsNoMore(StatusAsked(jobs, c))
  <1> DEFINE asked == StatusAsked(jobs, c)
  <1>1. Request(c, "status") \in Requests /\ Request(c, "status").stage = "sent"
    BY FreshRequests DEF Kinds
  <1>2. \A id \in CnkiSlots : asked[id] \in {Request(c, "status"), NoRequest, jobs[id]}
    BY DEF StatusAsked
  <1>3. asked \in [CnkiSlots -> Requests]
    <2>1. asked = [id \in CnkiSlots |-> asked[id]]
      BY DEF StatusAsked
    <2> QED  BY <1>1, <1>2, <2>1, FreshRequests DEF JobsFit
  <1> QED  BY <1>1, <1>2, <1>3, FreshRequests DEF JobsFit, HoldsNoMore

\* An answered request, and one that ends without waiting, holds nothing.
LEMMA OutcomeFits ==
  ASSUME JobsFit(cnJobs), NEW id \in CnkiSlots, NEW stage \in {"ok", "bad"},
         NEW status \in CnkiStates \union {None}, stage = "ok" => status \in CnkiStates, cnJobs' = Outcome(id, stage, status)
  PROVE  JobsFit(cnJobs') /\ HoldsNoMore(cnJobs')
  <1>1. [cnJobs[id] EXCEPT !.stage = stage, !.status = status] \in Requests
    BY DEF JobsFit, Requests, Stages
  <1>2. /\ cnJobs'[id].stage \in {"ok", "bad"} => cnJobs'[id].by # None
        /\ cnJobs'[id].stage = "ok" => cnJobs'[id].status \in CnkiStates
    BY FreshRequests DEF Outcome, JobsFit, Requests
  <1>3. cnJobs'[id].stage # "held"
    BY FreshRequests DEF Outcome, JobsFit, Requests
  <1>4. \A other \in CnkiSlots \ {id} : cnJobs'[other] = cnJobs[other]
    BY DEF Outcome, JobsFit
  <1> QED  BY <1>1, <1>2, <1>3, <1>4, FreshRequests DEF Outcome, JobsFit, HoldsNoMore

LEMMA EndingFits ==
  ASSUME JobsFit(cnJobs), NEW id \in CnkiSlots
  PROVE  LET jobs == [cnJobs EXCEPT ![id] = NoRequest]
         IN  JobsFit(jobs) /\ HoldsNoMore(jobs)
  BY FreshRequests DEF JobsFit, HoldsNoMore

\* A request left behind holds what it held.
LEMMA LeavingFits ==
  ASSUME JobsFit(cnJobs), NEW jobs, jobs \in [CnkiSlots -> Requests],
         \A id \in CnkiSlots : jobs[id] \in {cnJobs[id], LeftBehind(cnJobs[id])}
  PROVE  JobsFit(jobs) /\ HoldsNoMore(jobs)
  BY FreshRequests DEF LeftBehind, JobsFit, HoldsNoMore, Requests

LEMMA LeftBehindType ==
  ASSUME NEW job \in Requests
  PROVE  LeftBehind(job) \in Requests
  BY FreshRequests DEF LeftBehind, Requests

\* The steps by what they touch

\* Nothing begins to hold a generation, and the server stays.
LEMMA HeldStays ==
  ASSUME HeldFits, UNCHANGED cnServer, HoldsNoMore(cnJobs')
  PROVE  HeldFits'
  BY DEF HeldFits, HoldsNoMore, cnServer

\* The generation passes what is held.
LEMMA HeldIsPassed ==
  ASSUME ServerFits, JobsFit(cnJobs), HeldFits, HoldsNoMore(cnJobs'), cnRow'.gen = cnRow.gen + 1
  PROVE  HeldFits'
  BY DEF HeldFits, HoldsNoMore, ServerFits, JobsFit, Requests

\* A step of the cards that leaves the server alone.
LEMMA CardStep ==
  ASSUME CnkiInv, UNCHANGED cnServer, JobsFit(cnJobs'), HoldsNoMore(cnJobs'), CnkiCardsFit'
  PROVE  CnkiInv'
  <1>1. ServerFits'  BY Parts DEF ServerFits, SessionIsCurrent, cnServer
  <1>2. HeldFits'    BY Parts, HeldStays
  <1> QED  BY <1>1, <1>2, PartsNext

\* A step of the server that leaves the cards alone.
LEMMA ServerStep ==
  ASSUME CnkiInv, ServerFits', JobsFit(cnJobs'), HeldFits', UNCHANGED <<cnCard, cnSpent>>
  PROVE  CnkiInv'
  <1>1. CnkiCardsFit'  BY Parts DEF CnkiCardsFit, cnCard
  <1> QED  BY <1>1, PartsNext

\* The server's steps

LEMMA ReserveKeeps ==
  ASSUME CnkiInv, NEW id \in CnkiSlots, Reserve(id)
  PROVE  CnkiInv'
  <1>1. ServerFits /\ JobsFit(cnJobs) /\ HeldFits
    BY Parts
  <1>2. ServerFits'
    <2>1. cnRow' = [cnRow EXCEPT !.qr = None, !.gen = cnRow.gen + 1]
      BY DEF Reserve
    <2>2. cnRow' \in [status : CnkiStates, qr : Nat \union {None}, gen : Nat, login : Nat]
      <3>1. cnRow.gen + 1 \in Nat /\ None \in Nat \union {None}
        BY <1>1 DEF ServerFits
      <3> QED  BY <1>1, <2>1, <3>1, Zenon DEF ServerFits
    <2>3. cnRow'.status = cnRow.status /\ cnRow'.login = cnRow.login /\ cnRow'.qr = None
      BY <1>1, <2>1 DEF ServerFits
    <2>4. cnLogins' = cnLogins + 1 /\ UNCHANGED <<cnNewest, cnBarrier>>
      BY DEF Reserve
    <2> QED  BY <1>1, <2>2, <2>3, <2>4 DEF ServerFits, SessionIsCurrent
  <1>3. cnJobs' = [cnJobs EXCEPT ![id] = [cnJobs[id] EXCEPT !.stage = "held", !.gen = cnRow.gen + 1, !.login = cnLogins + 1]]
    BY DEF Reserve
  <1>4. cnJobs[id].kind = "start" /\ cnRow'.gen = cnRow.gen + 1 /\ cnLogins' = cnLogins + 1 /\ cnBarrier' = cnBarrier
    BY <1>1 DEF Reserve, Stands, ServerFits
  <1>5. JobsFit(cnJobs')
    <2>1. [cnJobs[id] EXCEPT !.stage = "held", !.gen = cnRow.gen + 1, !.login = cnLogins + 1] \in Requests
      <3>1. cnJobs[id] \in Requests /\ cnRow.gen + 1 \in Nat /\ cnLogins + 1 \in Nat /\ "held" \in Stages
        BY <1>1 DEF JobsFit, ServerFits, Stages
      <3> QED  BY <3>1, Zenon DEF Requests
    <2> QED  BY <1>1, <1>3, <2>1 DEF JobsFit, Requests
  <1>6. HeldFits'
    <2> SUFFICES ASSUME NEW other \in CnkiSlots, cnJobs'[other].stage = "held"
                 PROVE  /\ cnJobs'[other].gen <= cnRow'.gen /\ cnJobs'[other].kind \in {"start", "poll"}
                        /\ cnJobs'[other].kind = "start" /\ cnJobs'[other].gen = cnRow'.gen
                              => cnJobs'[other].login = cnLogins' /\ cnJobs'[other].login > cnBarrier'
                        /\ cnJobs'[other].kind = "poll" /\ cnJobs'[other].gen = cnRow'.gen
                              => cnRow'.status # "empty"
      BY DEF HeldFits
    <2>1. CASE other = id
      BY <1>1, <1>3, <1>4, <2>1 DEF JobsFit, Requests, ServerFits
    <2>2. CASE other # id
      BY <1>1, <1>3, <1>4, <2>2 DEF JobsFit, Requests, ServerFits, HeldFits
    <2> QED  BY <2>1, <2>2
  <1> QED  BY <1>2, <1>5, <1>6, ServerStep DEF Reserve

LEMMA StoreKeeps ==
  ASSUME CnkiInv, NEW id \in CnkiSlots, StoreCode(id)
  PROVE  CnkiInv'
  <1>1. ServerFits /\ JobsFit(cnJobs) /\ HeldFits
    BY Parts
  <1>2. CASE Fenced(cnJobs[id])
    <2>1. cnJobs[id].login = cnLogins /\ cnJobs[id].login > cnBarrier /\ cnRow.gen \in Nat
      BY <1>1, <1>2 DEF StoreCode, Stands, Fenced, HeldFits, ServerFits
    <2>2. cnRow' = [status |-> "waiting", qr |-> cnJobs[id].login, gen |-> cnRow.gen + 1, login |-> cnJobs[id].login]
      BY <1>2 DEF StoreCode
    <2>3. cnNewest' = cnLogins /\ cnLogins' = cnLogins /\ cnBarrier' = cnBarrier
      BY <1>1, <1>2, <2>1 DEF StoreCode, ServerFits
    <2>4. ServerFits'
      BY <1>1, <2>1, <2>2, <2>3 DEF ServerFits, SessionIsCurrent, CnkiStates
    <2>5. JobsFit(cnJobs') /\ HoldsNoMore(cnJobs')
      <3>1. cnJobs' = Outcome(id, "ok", "waiting")  BY <1>2 DEF StoreCode
      <3> QED  BY <1>1, <3>1, OutcomeFits DEF CnkiStates
    <2>6. HeldFits'
      BY <1>1, <2>2, <2>5, HeldIsPassed
    <2> QED  BY <2>4, <2>5, <2>6, ServerStep DEF StoreCode
  <1>3. CASE ~Fenced(cnJobs[id])
    <2>1. JobsFit(cnJobs') /\ HoldsNoMore(cnJobs')
      <3>1. cnJobs' = Outcome(id, "bad", None)  BY <1>3 DEF StoreCode
      <3> QED  BY <1>1, <3>1, OutcomeFits
    <2>2. UNCHANGED cnServer
      BY <1>3 DEF StoreCode, cnServer
    <2>3. CnkiCardsFit'  BY Parts DEF CnkiCardsFit, StoreCode, cnCard
    <2> QED  BY <2>1, <2>2, <2>3, CardStep
  <1> QED  BY <1>2, <1>3

LEMMA CnkiReadKeeps ==
  ASSUME CnkiInv, NEW id \in CnkiSlots, ReadCode(id)
  PROVE  CnkiInv'
  <1>1. ServerFits /\ JobsFit(cnJobs) /\ HeldFits
    BY Parts
  <1>2. UNCHANGED cnServer /\ CnkiCardsFit'
    BY Parts DEF ReadCode, CnkiCardsFit, cnCard, cnServer
  <1>3. CASE cnRow.qr = None
    <2>1. cnJobs' = Outcome(id, "bad", None)  BY <1>3 DEF ReadCode
    <2>2. JobsFit(cnJobs') /\ HoldsNoMore(cnJobs')
      BY <1>1, <2>1, OutcomeFits
    <2> QED  BY <1>2, <2>2, CardStep
  <1>4. CASE cnRow.qr # None
    <2>1. cnJobs' = [cnJobs EXCEPT ![id] = [cnJobs[id] EXCEPT !.stage = "held", !.gen = cnRow.gen, !.login = cnRow.qr]]
      BY <1>4 DEF ReadCode
    <2>2. cnJobs[id].kind = "poll" /\ cnRow.status # "empty" /\ cnRow.gen \in Nat /\ cnRow.qr \in Nat
      BY <1>1, <1>4 DEF ReadCode, Stands, ServerFits
    <2>3. JobsFit(cnJobs')
      BY <1>1, <2>1, <2>2 DEF JobsFit, Requests, Stages
    <2>4. ServerFits'
      BY <1>1, <1>2 DEF ServerFits, SessionIsCurrent, cnServer
    <2>5. HeldFits'
      <3> SUFFICES ASSUME NEW other \in CnkiSlots, cnJobs'[other].stage = "held"
                   PROVE  /\ cnJobs'[other].gen <= cnRow.gen /\ cnJobs'[other].kind \in {"start", "poll"}
                          /\ cnJobs'[other].kind = "start" /\ cnJobs'[other].gen = cnRow.gen
                                => cnJobs'[other].login = cnLogins /\ cnJobs'[other].login > cnBarrier
                          /\ cnJobs'[other].kind = "poll" /\ cnJobs'[other].gen = cnRow.gen
                                => cnRow.status # "empty"
        BY <1>2 DEF HeldFits, cnServer
      <3>1. CASE other = id
        BY <1>1, <2>1, <2>2, <3>1 DEF JobsFit, Requests
      <3>2. CASE other # id
        BY <1>1, <2>1, <3>2 DEF JobsFit, HeldFits
      <3> QED  BY <3>1, <3>2
    <2> QED  BY <1>2, <2>3, <2>4, <2>5, PartsNext
  <1> QED  BY <1>3, <1>4

LEMMA ActivateKeeps ==
  ASSUME CnkiInv, NEW id \in CnkiSlots, Activate(id)
  PROVE  CnkiInv'
  <1>1. ServerFits /\ JobsFit(cnJobs) /\ HeldFits
    BY Parts
  <1>2. CASE Fenced(cnJobs[id])
    <2>1. cnRow.status # "empty"
      BY <1>1, <1>2 DEF Activate, Stands, Fenced, HeldFits
    <2>2. cnRow' = [cnRow EXCEPT !.status = "active", !.gen = @ + 1]
      BY <1>2 DEF Activate
    <2>3. ServerFits' /\ cnRow'.gen = cnRow.gen + 1
      <3>1. cnRow' \in [status : CnkiStates, qr : Nat \union {None}, gen : Nat, login : Nat]
        <4>1. cnRow.gen + 1 \in Nat /\ "active" \in CnkiStates
          BY <1>1 DEF ServerFits, CnkiStates
        <4> QED  BY <1>1, <2>2, <4>1, Zenon DEF ServerFits
      <3>2. cnRow'.login = cnRow.login /\ cnRow'.status = "active" /\ cnRow'.gen = cnRow.gen + 1
        BY <1>1, <2>2 DEF ServerFits
      <3> QED  BY <1>1, <2>1, <3>1, <3>2 DEF Activate, ServerFits, SessionIsCurrent
    <2>4. JobsFit(cnJobs') /\ HoldsNoMore(cnJobs')
      <3>1. cnJobs' = Outcome(id, "ok", "active")  BY <1>2 DEF Activate
      <3> QED  BY <1>1, <3>1, OutcomeFits DEF CnkiStates
    <2>5. HeldFits'
      BY <1>1, <2>3, <2>4, HeldIsPassed
    <2> QED  BY <2>3, <2>4, <2>5, ServerStep DEF Activate
  <1>3. CASE ~Fenced(cnJobs[id])
    <2>1. JobsFit(cnJobs') /\ HoldsNoMore(cnJobs')
      <3>1. cnJobs' = Outcome(id, "bad", None)  BY <1>3 DEF Activate
      <3> QED  BY <1>1, <3>1, OutcomeFits
    <2>2. UNCHANGED cnServer /\ CnkiCardsFit'
      BY <1>3, Parts DEF Activate, CnkiCardsFit, cnCard, cnServer
    <2> QED  BY <2>1, <2>2, CardStep
  <1> QED  BY <1>2, <1>3

LEMMA ClearKeeps ==
  ASSUME CnkiInv, NEW id \in CnkiSlots, ServeClear(id)
  PROVE  CnkiInv'
  <1>1. ServerFits /\ JobsFit(cnJobs) /\ HeldFits
    BY Parts
  <1>2. ServerFits' /\ cnRow'.gen = cnRow.gen + 1
    BY <1>1 DEF ServeClear, ServerFits, SessionIsCurrent, CnkiStates
  <1>3. JobsFit(cnJobs') /\ HoldsNoMore(cnJobs')
    BY <1>1, OutcomeFits DEF ServeClear, CnkiStates
  <1>4. HeldFits'
    BY <1>1, <1>2, <1>3, HeldIsPassed
  <1> QED  BY <1>2, <1>3, <1>4, ServerStep DEF ServeClear

LEMMA ServingKeeps ==
  ASSUME CnkiInv, NEW id \in CnkiSlots, CnServes(id)
  PROVE  CnkiInv'
  <1>1. ASSUME FailUpstream(id) \/ ServeStatus(id)  PROVE CnkiInv'
    <2>1. JobsFit(cnJobs) /\ ServerFits
      BY Parts
    <2>2. JobsFit(cnJobs') /\ HoldsNoMore(cnJobs')
      <3>1. CASE FailUpstream(id)  BY <2>1, <3>1, OutcomeFits DEF FailUpstream
      <3>2. CASE ServeStatus(id)   BY <2>1, <3>2, OutcomeFits DEF ServeStatus, ServerFits
      <3> QED  BY <1>1, <3>1, <3>2
    <2>3. UNCHANGED cnServer /\ CnkiCardsFit'
      BY <1>1, Parts DEF FailUpstream, ServeStatus, CnkiCardsFit, cnCard, cnServer
    <2> QED  BY <2>2, <2>3, CardStep
  <1> QED  BY <1>1, ReserveKeeps, StoreKeeps, CnkiReadKeeps, ActivateKeeps, ClearKeeps DEF CnServes

\* The token runs out; the session is of the same login.
LEMMA ExpiryKeeps ==
  ASSUME CnkiInv, ExpireToken
  PROVE  CnkiInv'
  <1>1. ServerFits /\ JobsFit(cnJobs) /\ HeldFits /\ CnkiCardsFit
    BY Parts
  <1>2. ServerFits'
    BY <1>1 DEF ExpireToken, ServerFits, SessionIsCurrent, CnkiStates
  <1>3. HeldFits'
    BY <1>1 DEF ExpireToken, HeldFits, ServerFits
  <1>4. JobsFit(cnJobs') /\ CnkiCardsFit'
    BY <1>1 DEF ExpireToken, CnkiStep, CnkiCardsFit, cnCard
  <1> QED  BY <1>2, <1>3, <1>4, PartsNext

\* A restart drops what waits and leaves what is stored.
LEMMA RestartKeeps ==
  ASSUME CnkiInv, CrashServer
  PROVE  CnkiInv'
  <1>1. JobsFit(cnJobs)
    BY Parts
  <1>2. \A id \in CnkiSlots : [cnJobs[id] EXCEPT !.stage = "bad"] \in Requests
    BY <1>1 DEF JobsFit, Requests, Stages
  <1>3. JobsFit(cnJobs') /\ HoldsNoMore(cnJobs')
    BY <1>1, <1>2, FreshRequests DEF CrashServer, JobsFit, HoldsNoMore, Requests
  <1>4. UNCHANGED cnServer /\ CnkiCardsFit'
    BY Parts DEF CrashServer, CnkiStep, CnkiCardsFit, cnCard
  <1> QED  BY <1>3, <1>4, CardStep

\* The cards' steps

LEMMA CnkiAnswersKeep ==
  ASSUME CnkiInv, NEW id \in CnkiSlots, CnAnswers(id)
  PROVE  CnkiInv'
  <1> DEFINE c == cnJobs[id].by
             ended == [cnJobs EXCEPT ![id] = NoRequest]
  <1>1. JobsFit(cnJobs) /\ CnkiCardsFit
    BY Parts
  <1>2. UNCHANGED cnServer
    BY DEF CnAnswers, AnswerStart, AnswerPoll, AnswerClear, AnswerStatus, AnswerFailure, LoseRequest, cnServer
  <1>3. c \in CnkiCards /\ cnJobs[id].login \in Nat
    <2>1. CASE LoseRequest(id)
      BY <1>1, <2>1 DEF LoseRequest, JobsFit, Requests
    <2>2. CASE cnJobs[id].stage \in {"ok", "bad"}
      BY <1>1, <2>2 DEF JobsFit, Requests
    <2>3. LoseRequest(id) \/ cnJobs[id].stage \in {"ok", "bad"}
      BY DEF CnAnswers, AnswerStart, AnswerPoll, AnswerClear, AnswerStatus, AnswerFailure, Stands
    <2> QED  BY <2>1, <2>2, <2>3
  <1>4. cnJobs[id].stage = "ok" => cnJobs[id].status \in CnkiStates
    BY <1>1 DEF JobsFit
  <1>5. JobsFit(ended) /\ HoldsNoMore(ended)
    BY <1>1, EndingFits
  <1>6. JobsFit(StatusAsked(ended, c)) /\ HoldsNoMore(StatusAsked(ended, c))
    BY <1>3, <1>5, PollingFits
  <1>7. JobsFit(cnJobs') /\ HoldsNoMore(cnJobs')
    <2>1. CASE LoseRequest(id)
      <3>1. LeftBehind(cnJobs[id]) \in Requests
        BY <1>1, LeftBehindType DEF JobsFit
      <3>2. cnJobs' \in [CnkiSlots -> Requests]
        BY <1>1, <2>1, <3>1 DEF LoseRequest, JobsFit
      <3>3. \A other \in CnkiSlots : cnJobs'[other] \in {cnJobs[other], LeftBehind(cnJobs[other])}
        BY <1>1, <2>1 DEF LoseRequest, JobsFit
      <3> QED  BY <1>1, <3>2, <3>3, LeavingFits
    <2>2. CASE cnJobs' = ended
      BY <1>5, <2>2
    <2>3. CASE cnJobs' = StatusAsked(ended, c)
      BY <1>6, <2>3
    <2> QED  BY <2>1, <2>2, <2>3 DEF CnAnswers, AnswerStart, AnswerPoll, AnswerClear, AnswerStatus, AnswerFailure
  <1>8. CnkiCardsFit'
    <2>1. CASE AnswerStart(id)
      BY <1>1, <1>3, <1>4, <2>1 DEF AnswerStart, Stands, CnkiCardsFit
    <2>2. CASE AnswerPoll(id)
      BY <1>1, <1>3, <1>4, <2>2 DEF AnswerPoll, Stands, CnkiCardsFit
    <2>3. CASE AnswerClear(id)
      BY <1>1, <1>3, <1>4, <2>3 DEF AnswerClear, Stands, CnkiCardsFit
    <2>4. CASE AnswerStatus(id)
      BY <1>1, <1>3, <1>4, <2>4 DEF AnswerStatus, Stands, CnkiCardsFit
    <2>5. CASE AnswerFailure(id)
      BY <1>1, <1>3, <2>5 DEF AnswerFailure, Told, CnkiCardsFit
    <2>6. CASE LoseRequest(id)
      BY <1>1, <1>3, <2>6 DEF LoseRequest, CnkiStep, Told, CnkiCardsFit
    <2> QED  BY <2>1, <2>2, <2>3, <2>4, <2>5, <2>6 DEF CnAnswers
  <1> QED  BY <1>2, <1>7, <1>8, CardStep

LEMMA ReaderKeeps ==
  ASSUME CnkiInv, NEW c \in CnkiCards, CnReader(c)
  PROVE  CnkiInv'
  <1>1. JobsFit(cnJobs) /\ CnkiCardsFit /\ ServerFits
    BY Parts
  <1>2. UNCHANGED cnServer
    BY DEF CnReader, StartLogin, PollLogin, AskClear, KeepSession, ConfirmClear, RefreshStatus, ReloadCard, cnServer
  <1>3. JobsFit(cnJobs') /\ HoldsNoMore(cnJobs')
    <2>1. CASE StartLogin(c) \/ PollLogin(c) \/ ConfirmClear(c)
      <3>1. \E kind \in Kinds : GoesOut(c, kind)
        BY <2>1 DEF StartLogin, PollLogin, ConfirmClear, Kinds
      <3> QED  BY <1>1, <3>1, RequestFits
    <2>2. CASE AskClear(c) \/ KeepSession(c)
      BY <1>1, <2>2 DEF AskClear, KeepSession, HoldsNoMore
    <2>3. CASE RefreshStatus(c)
      <3>1. HoldsNoMore(cnJobs)
        BY DEF HoldsNoMore
      <3> QED  BY <1>1, <2>3, <3>1, PollingFits DEF RefreshStatus
    <2>4. CASE ReloadCard(c)
      <3>1. \A id \in CnkiSlots : LeftBehind(cnJobs[id]) \in Requests
        BY <1>1, LeftBehindType DEF JobsFit
      <3>2. cnJobs' \in [CnkiSlots -> Requests]
        BY <1>1, <2>4, <3>1 DEF ReloadCard, JobsFit
      <3>3. \A id \in CnkiSlots : cnJobs'[id] \in {cnJobs[id], LeftBehind(cnJobs[id])}
        BY <2>4 DEF ReloadCard
      <3> QED  BY <1>1, <3>2, <3>3, LeavingFits
    <2> QED  BY <2>1, <2>2, <2>3, <2>4 DEF CnReader
  <1>4. CnkiCardsFit'
    <2>1. CASE StartLogin(c)
      BY <1>1, <2>1 DEF StartLogin, CnkiCardsFit, cnCard
    <2>2. CASE PollLogin(c)
      BY <1>1, <2>2 DEF PollLogin, CnkiCardsFit
    <2>3. CASE AskClear(c)
      BY <1>1, <2>3 DEF AskClear, CnkiCardsFit
    <2>4. CASE KeepSession(c)
      BY <1>1, <2>4 DEF KeepSession, CnkiCardsFit
    <2>5. CASE ConfirmClear(c) \/ RefreshStatus(c)
      BY <1>1, <2>5 DEF ConfirmClear, RefreshStatus, CnkiStep, CnkiCardsFit, cnCard
    <2>6. CASE ReloadCard(c)
      BY <1>1, <2>6 DEF ReloadCard, CnkiStep, CnkiCardsFit, ServerFits
    <2> QED  BY <2>1, <2>2, <2>3, <2>4, <2>5, <2>6 DEF CnReader
  <1> QED  BY <1>2, <1>3, <1>4, CardStep

\* The theorems

\* The invariant holds at first.
LEMMA CnkiStarts == CnInit => CnkiInv
  <1> SUFFICES ASSUME CnInit PROVE CnkiInv
    OBVIOUS
  <1>1. ServerFits /\ CnkiCardsFit
    BY DEF CnInit, ServerFits, CnkiCardsFit, SessionIsCurrent, CnkiStates
  <1>2. JobsFit(cnJobs) /\ HeldFits
    BY FreshRequests DEF CnInit, JobsFit, HeldFits
  <1> QED  BY <1>1, <1>2, Parts

\* Every step keeps it.
LEMMA CnkiKept == CnkiInv /\ [CnNext]_cnVars => CnkiInv'
  <1> SUFFICES ASSUME CnkiInv, [CnNext]_cnVars PROVE CnkiInv'
    OBVIOUS
  <1>1. CASE CnNext
    BY <1>1, ServingKeeps, CnkiAnswersKeep, ReaderKeeps, ExpiryKeeps, RestartKeeps DEF CnNext
  <1>2. CASE UNCHANGED cnVars
    <2>1. UNCHANGED cnServer /\ cnJobs' = cnJobs /\ UNCHANGED <<cnCard, cnSpent>>
      BY <1>2 DEF cnVars
    <2>2. JobsFit(cnJobs') /\ HoldsNoMore(cnJobs') /\ CnkiCardsFit'
      BY <2>1, Parts DEF HoldsNoMore, CnkiCardsFit, cnCard
    <2> QED  BY <2>1, <2>2, CardStep
  <1> QED  BY <1>1, <1>2

\* In every state the stored session, the requests that hold a generation
\* and the cards fit together (storage/auth/cnki.go, api/cnki.go).
THEOREM CnkiInvariant == CnSpec => []CnkiInv
  BY CnkiStarts, CnkiKept, PTL DEF CnSpec

\* No late answer brings back a session that was cleared, and none takes the
\* place of a newer login (storage/auth/cnki.go:179, 210).
THEOREM CnkiSessionIsCurrent == CnSpec => []SessionIsCurrent
  <1>1. CnkiInv => SessionIsCurrent
    BY DEF CnkiInv
  <1> QED  BY <1>1, CnkiInvariant, PTL

----------------------------------------------------------------------------
\* The calls for papers

\* Pages of one evaluation of one state of a journal
Uniform(pages) == \A i \in DOMAIN pages : pages[i] = pages[1]

Fetches == [kind : {"all", "next"}, got : Seq(Nat)]
QueryRecords == [pages : Seq(Nat), more : BOOLEAN, error : {None, "other", "conflict"}, fetch : Fetches \union {None}]

\* What is read of a query and what is on its way are of one reading each.
QueryFits(q) ==
  /\ Uniform(q.pages) /\ Len(q.pages) <= MaxPages
  /\ q.more => q.pages # <<>> /\ Len(q.pages) < MaxPages
  /\ q.fetch # None => /\ Uniform(q.fetch.got) /\ Len(q.fetch.got) < MaxPages
                       /\ q.fetch.kind = "next" => Len(q.pages) < MaxPages

\* A query that was begun again and has not been read since: no cursor it
\* could send is one that is refused.
Anew(q) ==
  /\ q.error # "conflict" /\ Len(q.pages) <= 1
  /\ q.fetch # None => q.fetch.kind = "all" /\ q.fetch.got = <<>>

QueriesFit(queries) == queries \in [NoticeKeys -> QueryRecords] /\ \A key \in NoticeKeys : QueryFits(queries[key])

Begun(queries, again) == again \in NoticeKeys \union {None} /\ (again # None => Anew(queries[again]))

\* The query that is shown is not refused, and one begun again is forgotten
\* when it succeeds.
ShownFits(queries, again, key) ==
  key # None => queries[key].error # "conflict" /\ (again = key => ~Succeeded(queries[key]))

CfpTyped ==
  /\ cfTurn \in [Journals -> Nat] /\ cfNames \in {"none", "failed", "read"}
  /\ cfUrl \in Urls /\ cfClosed \in BOOLEAN /\ cfSearch \in Journals \union {None} /\ cfFolds \subseteq GroupIds
  /\ cfAged \subseteq NoticeKeys /\ cfIntent \in NoticeKeys \union {None}

CfpInv ==
  /\ CfpTyped /\ QueriesFit(cfQueries)
  /\ Begun(cfQueries, cfRecovery) /\ ShownFits(cfQueries, cfRecovery, NoticeKey)

\* With what the page begins again, everything still fits.
AllFits(queries, again, key) == QueriesFit(queries) /\ Begun(queries, again) /\ ShownFits(queries, again, key)

LEMMA BelowWF == IsWellFoundedOn({ss \in Nat \X Nat : ss[1] < ss[2]}, Nat)
  BY NatLessThanWellFounded DEF OpToRel

LEMMA LeastNat ==
  ASSUME NEW T, T \in SUBSET Nat, T # {}
  PROVE  \E n \in T : \A m \in T : n <= m
  <1>. DEFINE Below == {ss \in Nat \X Nat : ss[1] < ss[2]}
  <1>0. T \subseteq Nat
    OBVIOUS
  <1>1. \A a, b \in Nat : a < b => <<a, b>> \in Below
    OBVIOUS
  <1>2. IsWellFoundedOn(Below, Nat)
    BY BelowWF
  <1>. HIDE DEF Below
  <1>3. PICK x \in T : \A y \in T : ~(<<y, x>> \in Below)
    BY <1>0, <1>2, WFMin, T # {}, Zenon
  <1>4. \A m \in T : ~(m < x)
    BY <1>0, <1>1, <1>3
  <1>. QED BY <1>0, <1>4

\* The journal listed first is one of those that are looked for.
LEMMA FirstIs ==
  ASSUME NEW d \in CfpDatabases, NEW some, some \subseteq ToSet(CatalogOf[d])
  PROVE  FirstOf(d, some) \in some \union {None}
  <1>1. CASE some = {}
    BY <1>1 DEF FirstOf
  <1>2. CASE some # {}
    <2>. DEFINE list == CatalogOf[d]
                T == {i \in DOMAIN list : list[i] \in some}
    <2>1. T \in SUBSET Nat /\ T # {}
      <3>1. list \in Seq(Journals)
        BY CfpConstants
      <3>2. \E j \in some : j \in ToSet(list)
        BY <1>2
      <3>3. T # {}
        BY <3>2 DEF ToSet
      <3>. QED BY <3>1, <3>3
    <2>2. PICK i \in T : \A k \in T : i <= k
      <3>. HIDE DEF T
      <3>. QED BY <2>1, LeastNat
    <2>3. list[i] \in some /\ i \in DOMAIN list /\ i \in Nat
      BY <2>1, <2>2
    <2>4. \A k \in 1..(i - 1) : list[k] \notin some
      <3>. SUFFICES ASSUME NEW k \in 1..(i - 1), list[k] \in some PROVE FALSE
        OBVIOUS
      <3>1. list \in Seq(Journals)
        BY CfpConstants
      <3>2. k \in DOMAIN list /\ ~(i <= k)
        BY <2>3, <3>1
      <3>. QED BY <2>2, <3>2
    <2>. QED BY <1>2, <2>3, <2>4 DEF FirstOf
  <1>. QED BY <1>1, <1>2

LEMMA KeyIs ==
  ASSUME NEW names, NEW lists, NEW url, NEW closed \in BOOLEAN
  PROVE  KeyOf(names, lists, url, closed) \in NoticeKeys \union {None}
  <1>1. DatabaseOf(names, url) \in CfpDatabases \union {None}
    BY CfpConstants DEF DatabaseOf
  <1>2. ASSUME NEW d \in CfpDatabases, NEW current, NEW id PROVE CatalogPick(d, current, id) \in Journals \union {None}
    <2>1. ToSet(CatalogOf[d]) \subseteq Journals
      BY DEF Journals
    <2>2. \A g : Members(d, current, g) \subseteq ToSet(CatalogOf[d])
      BY DEF Members
    <2>3. \A g : FirstOf(d, Members(d, current, g)) \in Journals \union {None}
      BY <2>1, <2>2, FirstIs
    <2>. QED BY <2>1, <2>3 DEF CatalogPick
  <1>3. CASE DatabaseOf(names, url) = None \/ lists[DatabaseOf(names, url)] = None
             \/ CatalogPick(DatabaseOf(names, url), lists[DatabaseOf(names, url)], url.journal) = None
    BY <1>3 DEF KeyOf
  <1>4. CASE ~(DatabaseOf(names, url) = None \/ lists[DatabaseOf(names, url)] = None
               \/ CatalogPick(DatabaseOf(names, url), lists[DatabaseOf(names, url)], url.journal) = None)
    <2>1. CatalogPick(DatabaseOf(names, url), lists[DatabaseOf(names, url)], url.journal) \in Journals
      BY <1>1, <1>2, <1>4
    <2>2. DatabaseOf(names, url) \in CfpDatabases
      BY <1>1, <1>4
    <2>. QED BY <1>4, <2>1, <2>2 DEF KeyOf, NoticeKeys
  <1>. QED BY <1>3, <1>4

LEMMA AskedFits ==
  ASSUME NEW q \in QueryRecords, QueryFits(q)
  PROVE  /\ Refetched(q) \in QueryRecords /\ QueryFits(Refetched(q)) /\ (Anew(q) => Anew(Refetched(q)))
         /\ [q EXCEPT !.fetch = None] \in QueryRecords /\ QueryFits([q EXCEPT !.fetch = None])
         /\ Anew(q) => Anew([q EXCEPT !.fetch = None])
  <1>. DEFINE r == Refetched(q)
              c == [q EXCEPT !.fetch = None]
  <1>1. Fetching("all") \in Fetches /\ Fetching("all").kind = "all" /\ Fetching("all").got = <<>>
    BY DEF Fetching, Fetches
  <1>2. /\ r \in QueryRecords /\ r.pages = q.pages /\ r.more = q.more /\ r.fetch = Fetching("all")
        /\ r.error = IF q.pages = <<>> THEN None ELSE q.error
    BY <1>1 DEF Refetched, QueryRecords
  <1>3. c \in QueryRecords /\ c.pages = q.pages /\ c.more = q.more /\ c.fetch = None /\ c.error = q.error
    BY DEF QueryRecords
  <1>4. Uniform(<<>>) /\ Len(<<>>) = 0 /\ 0 < MaxPages
    BY CfpConstants DEF Uniform
  <1>. HIDE DEF r, c
  <1>5. QueryFits(r)
    BY <1>1, <1>2, <1>4 DEF QueryFits
  <1>6. QueryFits(c)
    BY <1>3 DEF QueryFits
  <1>7. Anew(q) => Anew(r) /\ Anew(c)
    BY <1>1, <1>2, <1>3, CfpConstants DEF Anew
  <1>. QED BY <1>2, <1>3, <1>5, <1>6, <1>7 DEF r, c

LEMMA NoQueryFits == NoQuery \in QueryRecords /\ QueryFits(NoQuery) /\ Anew(NoQuery) /\ ~Succeeded(NoQuery)
  <1>1. /\ NoQuery \in QueryRecords /\ NoQuery.pages = <<>> /\ NoQuery.more = FALSE /\ NoQuery.error = None
        /\ NoQuery.fetch = None
    BY DEF NoQuery, QueryRecords
  <1>2. Uniform(<<>>) /\ Len(<<>>) = 0 /\ 0 <= MaxPages
    BY CfpConstants DEF Uniform
  <1>. QED BY <1>1, <1>2, CfpConstants DEF QueryFits, Anew, Succeeded

\* The effect of the page leaves no refused query shown.
LEMMA NotedKeeps ==
  ASSUME NEW queries, QueriesFit(queries), Begun(queries, cfRecovery),
         NEW key \in NoticeKeys \union {None}, Noted(queries, key)
  PROVE  AllFits(cfQueries', cfRecovery', key)
  <1>1. CASE key = None
    BY <1>1 DEF Noted, AllFits, ShownFits
  <1>2. CASE key # None
    <2>. DEFINE q == queries[key]
                new == Refetched(NoQuery)
    <2>0. key \in NoticeKeys /\ q \in QueryRecords /\ QueryFits(q)
      BY <1>2 DEF QueriesFit
    <2>1. new \in QueryRecords /\ QueryFits(new) /\ Anew(new) /\ new.pages = <<>>
      <3>1. new.pages = NoQuery.pages
        BY NoQueryFits DEF Refetched, QueryRecords
      <3>. QED BY <3>1, NoQueryFits, AskedFits DEF NoQuery
    <2>2. /\ cfQueries' = [queries EXCEPT ![key] = Recovers(key, q, cfRecovery).query]
          /\ cfRecovery' = Recovers(key, q, cfRecovery).recovery
      BY <1>2 DEF Noted
    <2>. HIDE DEF q, new
    <2>3. CASE q.error = "conflict" /\ cfRecovery # key
      <3>1. Recovers(key, q, cfRecovery) = [query |-> new, recovery |-> key]
        BY <2>3 DEF Recovers, new
      <3>2. cfQueries' = [queries EXCEPT ![key] = new] /\ cfRecovery' = key
        BY <2>2, <3>1
      <3>3. cfQueries'[key] = new /\ QueriesFit(cfQueries')
        BY <2>0, <2>1, <3>2 DEF QueriesFit
      <3>4. ~Succeeded(new) /\ new.error # "conflict"
        BY <2>1 DEF Succeeded, Anew
      <3>. QED BY <2>0, <2>1, <3>2, <3>3, <3>4 DEF AllFits, Begun, ShownFits
    <2>4. CASE ~(q.error = "conflict" /\ cfRecovery # key)
      <3>1. Recovers(key, q, cfRecovery) = [query |-> q, recovery |-> IF Succeeded(q) THEN None ELSE cfRecovery]
        BY <2>4 DEF Recovers
      <3>2. cfQueries' = queries
        BY <2>2, <3>1 DEF QueriesFit, q
      <3>3. cfRecovery' = IF Succeeded(q) THEN None ELSE cfRecovery
        BY <2>2, <3>1
      <3>4. q.error # "conflict"
        BY <1>2, <2>4 DEF Begun, Anew, q
      <3>. QED BY <1>2, <3>2, <3>3, <3>4 DEF AllFits, Begun, ShownFits, q
    <2>. QED BY <2>3, <2>4
  <1>. QED BY <1>1, <1>2

\* A query that is changed and still fits, and is as it was if it was begun
\* again
LEMMA ChangedFits ==
  ASSUME NEW queries, NEW again, QueriesFit(queries), Begun(queries, again), NEW key \in NoticeKeys,
         NEW q \in QueryRecords, QueryFits(q), Anew(queries[key]) => Anew(q)
  PROVE  QueriesFit([queries EXCEPT ![key] = q]) /\ Begun([queries EXCEPT ![key] = q], again)
  BY DEF QueriesFit, Begun

LEMMA TurnsKeep ==
  ASSUME CfpInv, NEW key \in NoticeKeys \union {None}, TurnsTo(key), NoticeKey \in NoticeKeys \union {None}
  PROVE  AllFits(cfQueries', cfRecovery', key) /\ cfAged' = cfAged
  <1>1. CASE key = NoticeKey
    BY <1>1 DEF TurnsTo, cfNotices, CfpInv, AllFits
  <1>2. CASE key # NoticeKey
    <2>. DEFINE left == IF NoticeKey = None \/ NoticeKey = key THEN cfQueries ELSE [cfQueries EXCEPT ![NoticeKey].fetch = None]
                sent == IF key # None /\ DueAgain(left, key) THEN [left EXCEPT ![key] = Refetched(@)] ELSE left
    <2>1. QueriesFit(left) /\ Begun(left, cfRecovery)
      <3>1. CASE NoticeKey = None
        BY <3>1 DEF CfpInv
      <3>2. CASE NoticeKey # None
        <4>. DEFINE q == cfQueries[NoticeKey]
                    c == [q EXCEPT !.fetch = None]
        <4>1. NoticeKey \in NoticeKeys /\ q \in QueryRecords /\ QueryFits(q)
          BY <3>2 DEF CfpInv, QueriesFit
        <4>2. c \in QueryRecords /\ QueryFits(c) /\ (Anew(q) => Anew(c))
          BY <4>1, AskedFits
        <4>3. left = [cfQueries EXCEPT ![NoticeKey] = c]
          BY <1>2, <3>2
        <4>. HIDE DEF c, left
        <4>. QED BY <4>1, <4>2, <4>3, ChangedFits DEF CfpInv
      <3>. QED BY <3>1, <3>2
    <2>. HIDE DEF left
    <2>2. QueriesFit(sent) /\ Begun(sent, cfRecovery)
      <3>1. CASE key # None /\ DueAgain(left, key)
        <4>1. key \in NoticeKeys /\ left[key] \in QueryRecords /\ QueryFits(left[key])
          BY <2>1, <3>1 DEF QueriesFit
        <4>2. Refetched(left[key]) \in QueryRecords /\ QueryFits(Refetched(left[key]))
              /\ (Anew(left[key]) => Anew(Refetched(left[key])))
          BY <4>1, AskedFits
        <4>3. sent = [left EXCEPT ![key] = Refetched(left[key])]
          BY <3>1
        <4>. HIDE DEF sent
        <4>. QED BY <2>1, <4>1, <4>2, <4>3, ChangedFits
      <3>2. CASE ~(key # None /\ DueAgain(left, key))
        BY <2>1, <3>2
      <3>. QED BY <3>1, <3>2
    <2>3. Noted(sent, key) /\ cfAged' = cfAged
      BY <1>2 DEF TurnsTo, left
    <2>. HIDE DEF sent
    <2>. QED BY <2>2, <2>3, NotedKeeps
  <1>. QED BY <1>1, <1>2

LEMMA NoticeKeyIs == CfpInv => NoticeKey \in NoticeKeys \union {None}
  BY KeyIs DEF NoticeKey, CfpInv, CfpTyped

\* The query shown is read again.
LEMMA RefetchKeeps ==
  ASSUME CfpInv, NEW key \in NoticeKeys, Noted([cfQueries EXCEPT ![key] = Refetched(@)], NoticeKey)
  PROVE  AllFits(cfQueries', cfRecovery', NoticeKey)
  <1>. DEFINE q == cfQueries[key]
              sent == [cfQueries EXCEPT ![key] = Refetched(q)]
  <1>1. q \in QueryRecords /\ QueryFits(q)
    BY DEF CfpInv, QueriesFit
  <1>2. Refetched(q) \in QueryRecords /\ QueryFits(Refetched(q)) /\ (Anew(q) => Anew(Refetched(q)))
    BY <1>1, AskedFits
  <1>3. QueriesFit(sent) /\ Begun(sent, cfRecovery)
    BY <1>2, ChangedFits DEF CfpInv
  <1>4. Noted(sent, NoticeKey)
    OBVIOUS
  <1>. HIDE DEF sent
  <1>. QED BY <1>3, <1>4, NoticeKeyIs, NotedKeeps

LEMMA NextPageKeeps ==
  ASSUME CfpInv, NEW key \in NoticeKeys, cfQueries[key].fetch # None, NextPage(key)
  PROVE  AllFits(cfQueries', cfRecovery', NoticeKey) /\ cfAged' \subseteq NoticeKeys
  <1>. DEFINE query == cfQueries[key]
              before == IF query.fetch.kind = "next" THEN query.pages ELSE query.fetch.got
              now == cfTurn[key.of]
              pages == Append(before, now)
  <1>1. query \in QueryRecords /\ QueryFits(query) /\ query.fetch \in Fetches
    BY DEF CfpInv, QueriesFit, QueryRecords
  <1>2. now \in Nat
    BY DEF CfpInv, CfpTyped, NoticeKeys
  <1>3. before \in Seq(Nat) /\ Uniform(before) /\ Len(before) < MaxPages /\ MaxPages \in Nat
    BY <1>1, CfpConstants DEF QueryRecords, Fetches, QueryFits
  <1>4. Anew(query) => before = <<>>
    BY <1>1 DEF Anew
  <1>5. PICK more \in IF Len(pages) < MaxPages /\ key.of \notin Unadapted THEN BOOLEAN ELSE {FALSE} :
          IF before # <<>> /\ ~Resumes(Last(before), now)
          THEN Noted([cfQueries EXCEPT ![key].fetch = None, ![key].error = "conflict"], NoticeKey) /\ UNCHANGED cfAged
          ELSE IF query.fetch.kind = "all" /\ more /\ Len(pages) < Len(query.pages)
          THEN cfQueries' = [cfQueries EXCEPT ![key].fetch.got = pages] /\ UNCHANGED <<cfAged, cfRecovery>>
          ELSE /\ Noted([cfQueries EXCEPT ![key] = [NoQuery EXCEPT !.pages = pages, !.more = more]], NoticeKey)
               /\ cfAged' = cfAged \ {key}
    BY DEF NextPage
  <1>6. pages \in Seq(Nat) /\ Len(pages) = Len(before) + 1 /\ pages # <<>> /\ Len(pages) <= MaxPages
    BY <1>2, <1>3
  <1>7. ASSUME before = <<>> \/ Resumes(Last(before), now) PROVE Uniform(pages)
    <2>1. \A i \in 1..Len(before) : before[i] = now
      <3>1. CASE before = <<>>
        BY <3>1
      <3>2. CASE before # <<>>
        <4>1. before[Len(before)] = now
          BY <1>7, <3>2 DEF Resumes, Last
        <4>2. Len(before) \in DOMAIN before /\ DOMAIN before = 1..Len(before) /\ 1 \in DOMAIN before
          BY <1>3, <3>2
        <4>. QED BY <1>3, <4>1, <4>2 DEF Uniform
      <3>. QED BY <3>1, <3>2
    <2>2. \A i \in 1..(Len(before) + 1) : pages[i] = now
      BY <1>2, <1>3, <2>1
    <2>3. DOMAIN pages = 1..(Len(before) + 1) /\ 1 \in 1..(Len(before) + 1)
      BY <1>3, <1>6
    <2>. QED BY <2>2, <2>3 DEF Uniform
  <1>8. NoticeKey \in NoticeKeys \union {None} /\ cfAged \subseteq NoticeKeys
    BY NoticeKeyIs DEF CfpInv, CfpTyped
  <1>. HIDE DEF query, before, now, pages
  <1>9. CASE before # <<>> /\ ~Resumes(Last(before), now)
    <2>. DEFINE q == [[query EXCEPT !.fetch = None] EXCEPT !.error = "conflict"]
                sent == [cfQueries EXCEPT ![key] = q]
    <2>1. /\ q \in QueryRecords /\ q.pages = query.pages /\ q.more = query.more /\ q.fetch = None
      BY <1>1 DEF QueryRecords
    <2>2. QueryFits(q) /\ ~Anew(query)
      BY <1>1, <1>4, <1>9, <2>1 DEF QueryFits
    <2>3. sent = [cfQueries EXCEPT ![key].fetch = None, ![key].error = "conflict"]
      BY DEF query, CfpInv, QueriesFit
    <2>4. Noted(sent, NoticeKey) /\ UNCHANGED cfAged
      BY <1>5, <1>9, <2>3
    <2>5. QueriesFit(sent) /\ Begun(sent, cfRecovery)
      <3>. HIDE DEF q
      <3>. QED BY <2>1, <2>2, ChangedFits DEF CfpInv, query
    <2>. HIDE DEF sent
    <2>. QED BY <1>8, <2>4, <2>5, NotedKeeps
  <1>10. CASE ~(before # <<>> /\ ~Resumes(Last(before), now)) /\ query.fetch.kind = "all" /\ more /\ Len(pages) < Len(query.pages)
    <2>. DEFINE f == [query.fetch EXCEPT !.got = pages]
                q == [query EXCEPT !.fetch = f]
                sent == [cfQueries EXCEPT ![key] = q]
    <2>1. f \in Fetches /\ f.kind = "all" /\ f.got = pages
      BY <1>1, <1>6, <1>10 DEF Fetches
    <2>2. q \in QueryRecords /\ q.pages = query.pages /\ q.more = query.more /\ q.fetch = f /\ q.error = query.error
      BY <1>1, <2>1 DEF QueryRecords
    <2>3. Len(query.pages) \in Nat /\ Len(pages) \in Nat /\ Len(pages) >= 1
      BY <1>1, <1>3, <1>6 DEF QueryRecords
    <2>4. QueryFits(q)
      BY <1>1, <1>3, <1>7, <1>10, <2>1, <2>2, <2>3 DEF QueryFits
    <2>5. ~Anew(query)
      BY <1>10, <2>3 DEF Anew
    <2>6. cfQueries' = sent /\ UNCHANGED <<cfAged, cfRecovery>>
      BY <1>5, <1>10 DEF query
    <2>7. QueriesFit(sent) /\ Begun(sent, cfRecovery)
      <3>. HIDE DEF q
      <3>. QED BY <2>2, <2>4, <2>5, ChangedFits DEF CfpInv, query
    <2>8. \A other \in NoticeKeys : sent[other].error = cfQueries[other].error /\ sent[other].pages = cfQueries[other].pages
      <3>. HIDE DEF q
      <3>. QED BY <2>2 DEF CfpInv, QueriesFit, query
    <2>9. ShownFits(sent, cfRecovery, NoticeKey)
      BY <1>8, <2>8 DEF CfpInv, ShownFits, Succeeded
    <2>. QED BY <1>8, <2>6, <2>7, <2>9 DEF AllFits
  <1>11. CASE ~(before # <<>> /\ ~Resumes(Last(before), now)) /\ ~(query.fetch.kind = "all" /\ more /\ Len(pages) < Len(query.pages))
    <2>. DEFINE q == [NoQuery EXCEPT !.pages = pages, !.more = more]
                sent == [cfQueries EXCEPT ![key] = q]
    <2>1. more \in BOOLEAN /\ (more => Len(pages) < MaxPages)
      BY <1>5
    <2>2. q \in QueryRecords /\ q.pages = pages /\ q.more = more /\ q.fetch = None /\ q.error = None
      BY <1>6, <2>1 DEF QueryRecords, NoQuery
    <2>3. QueryFits(q)
      BY <1>6, <1>7, <1>11, <2>1, <2>2 DEF QueryFits
    <2>4. Anew(query) => Anew(q)
      BY <1>4, <1>6, <2>2, CfpConstants DEF Anew
    <2>5. Noted(sent, NoticeKey) /\ cfAged' = cfAged \ {key}
      BY <1>5, <1>11
    <2>6. QueriesFit(sent) /\ Begun(sent, cfRecovery)
      <3>. HIDE DEF q
      <3>. QED BY <2>2, <2>3, <2>4, ChangedFits DEF CfpInv, query
    <2>. HIDE DEF sent
    <2>. QED BY <1>8, <2>5, <2>6, NotedKeeps
  <1>. QED BY <1>9, <1>10, <1>11

\* What the page begins again fits the query that is shown then.
LEMMA InvFrom ==
  ASSUME CfpTyped', AllFits(cfQueries', cfRecovery', NoticeKey')
  PROVE  CfpInv'
  BY DEF CfpInv, AllFits

LEMMA StartKeeps == CfInit => CfpInv
  <1>. SUFFICES ASSUME CfInit PROVE CfpInv
    OBVIOUS
  <1>1. CfpTyped
    BY DEF CfInit, CfpTyped, Unfolded, GroupIds
  <1>2. QueriesFit(cfQueries) /\ Begun(cfQueries, cfRecovery)
    BY NoQueryFits DEF CfInit, QueriesFit, Begun
  <1>3. NoticeKey = None
    BY DEF CfInit, NoticeKey, KeyOf, DatabaseOf
  <1>. QED BY <1>1, <1>2, <1>3 DEF CfpInv, ShownFits

\* Requests and their answers
LEMMA NoticeSteps ==
  ASSUME CfpInv, AnswerNotices \/ FailNotices \/ LoadMoreNotices \/ RetryNotices \/ FocusNotices \/ PrefetchNotices
  PROVE  CfpInv'
  <1>0. NoticeKey \in NoticeKeys \union {None}
    BY NoticeKeyIs
  <1>1. UNCHANGED <<cfTurn, cfNames, cfLists, cfUrl, cfClosed, cfSearch, cfFolds>> /\ cfIntent' \in {cfIntent, None}
    BY DEF AnswerNotices, FailNotices, LoadMoreNotices, RetryNotices, FocusNotices, PrefetchNotices,
           cfServer, cfDirectory, cfPanel
  <1>2. NoticeKey' = NoticeKey
    BY <1>1 DEF NoticeKey
  <1>3. ASSUME AllFits(cfQueries', cfRecovery', NoticeKey), cfAged' \subseteq NoticeKeys PROVE CfpInv'
    <2>1. CfpTyped'
      BY <1>1, <1>3 DEF CfpInv, CfpTyped, Urls
    <2>. QED BY <1>2, <1>3, <2>1, InvFrom
  <1>4. cfAged \subseteq NoticeKeys
    BY DEF CfpInv, CfpTyped
  <1>5. CASE AnswerNotices
    <2>1. PICK key \in NoticeKeys : cfQueries[key].fetch # None /\ NextPage(key)
      BY <1>5 DEF AnswerNotices
    <2>. QED BY <1>3, <2>1, NextPageKeeps
  <1>6. CASE FailNotices
    <2>1. PICK key \in NoticeKeys : Noted([cfQueries EXCEPT ![key].fetch = None, ![key].error = "other"], NoticeKey)
      BY <1>6 DEF FailNotices
    <2>. DEFINE query == cfQueries[key]
                q == [[query EXCEPT !.fetch = None] EXCEPT !.error = "other"]
                sent == [cfQueries EXCEPT ![key] = q]
    <2>2. query \in QueryRecords /\ QueryFits(query)
      BY DEF CfpInv, QueriesFit
    <2>3. q \in QueryRecords /\ q.pages = query.pages /\ q.more = query.more /\ q.fetch = None /\ q.error = "other"
      BY <2>2 DEF QueryRecords
    <2>4. QueryFits(q) /\ (Anew(query) => Anew(q))
      BY <2>2, <2>3 DEF QueryFits, Anew
    <2>5. sent = [cfQueries EXCEPT ![key].fetch = None, ![key].error = "other"]
      BY DEF CfpInv, QueriesFit
    <2>6. Noted(sent, NoticeKey) /\ cfAged' = cfAged
      BY <1>6, <2>1, <2>5 DEF FailNotices
    <2>7. QueriesFit(sent) /\ Begun(sent, cfRecovery)
      <3>. HIDE DEF q
      <3>. QED BY <2>3, <2>4, ChangedFits DEF CfpInv
    <2>. HIDE DEF sent
    <2>. QED BY <1>0, <1>3, <1>4, <2>6, <2>7, NotedKeeps
  <1>7. CASE LoadMoreNotices
    <2>. DEFINE key == NoticeKey
                query == cfQueries[key]
                q == [query EXCEPT !.fetch = Fetching("next")]
    <2>1. key # None /\ query.error = None /\ query.more
      BY <1>7 DEF LoadMoreNotices, NoticesShow, CfpDesk
    <2>2. key \in NoticeKeys /\ query \in QueryRecords /\ QueryFits(query)
      BY <1>0, <2>1 DEF CfpInv, QueriesFit
    <2>3. Fetching("next") \in Fetches /\ Fetching("next").got = <<>>
      BY DEF Fetching, Fetches
    <2>4. q \in QueryRecords /\ q.pages = query.pages /\ q.more = query.more /\ q.fetch = Fetching("next") /\ q.error = query.error
      BY <2>2, <2>3 DEF QueryRecords
    <2>5. QueryFits(q)
      <3>1. Uniform(<<>>) /\ Len(<<>>) < MaxPages
        BY CfpConstants DEF Uniform
      <3>. QED BY <2>1, <2>2, <2>3, <2>4, <3>1 DEF QueryFits
    <2>6. Succeeded(query)
      BY <2>1, <2>2 DEF QueryFits, Succeeded
    <2>7. cfRecovery # key
      BY <2>1, <2>6 DEF CfpInv, ShownFits
    <2>8. cfQueries' = [cfQueries EXCEPT ![key] = q] /\ UNCHANGED <<cfAged, cfRecovery>>
      BY <1>7 DEF LoadMoreNotices
    <2>. HIDE DEF q
    <2>9. cfQueries' \in [NoticeKeys -> QueryRecords] /\ cfQueries'[key] = q
          /\ \A other \in NoticeKeys \ {key} : cfQueries'[other] = cfQueries[other]
      BY <2>2, <2>4, <2>8 DEF CfpInv, QueriesFit
    <2>10. QueriesFit(cfQueries') /\ Begun(cfQueries', cfRecovery')
      BY <2>5, <2>7, <2>8, <2>9 DEF CfpInv, QueriesFit, Begun
    <2>11. ShownFits(cfQueries', cfRecovery', key)
      BY <2>4, <2>7, <2>8, <2>9 DEF CfpInv, ShownFits
    <2>. QED BY <1>3, <1>4, <2>8, <2>10, <2>11 DEF AllFits
  <1>8. CASE RetryNotices \/ FocusNotices
    <2>1. NoticeKey \in NoticeKeys /\ Noted([cfQueries EXCEPT ![NoticeKey] = Refetched(@)], NoticeKey) /\ cfAged' = cfAged
      BY <1>0, <1>8 DEF RetryNotices, FocusNotices, CfpDesk
    <2>. QED BY <1>3, <1>4, <2>1, RefetchKeeps
  <1>9. CASE PrefetchNotices
    <2>1. cfIntent \in NoticeKeys /\ cfAged' = cfAged
      BY <1>9 DEF PrefetchNotices, CfpInv, CfpTyped
    <2>2. CASE DueAgain(cfQueries, cfIntent)
      <3>1. Noted([cfQueries EXCEPT ![cfIntent] = Refetched(@)], NoticeKey)
        BY <1>9, <2>2 DEF PrefetchNotices
      <3>. QED BY <1>3, <1>4, <2>1, <3>1, RefetchKeeps
    <2>3. CASE ~DueAgain(cfQueries, cfIntent)
      <3>1. Noted(cfQueries, NoticeKey)
        BY <1>9, <2>3 DEF PrefetchNotices
      <3>. QED BY <1>0, <1>3, <1>4, <2>1, <3>1, NotedKeeps DEF CfpInv
    <2>. QED BY <2>2, <2>3
  <1>. QED BY <1>5, <1>6, <1>7, <1>8, <1>9

\* Nothing is asked, and the same query is shown.
LEMMA QuietKeeps ==
  ASSUME CfpInv, CfpTyped', UNCHANGED <<cfQueries, cfRecovery>>, NoticeKey' = NoticeKey
  PROVE  CfpInv'
  BY DEF CfpInv, QueriesFit, Begun, ShownFits

\* Another query is shown, or the same.
LEMMA TurnKeeps ==
  ASSUME CfpInv, CfpTyped', NEW key, TurnsTo(key), key = NoticeKey'
  PROVE  CfpInv'
  <1>1. NoticeKey \in NoticeKeys \union {None}
    BY NoticeKeyIs
  <1>2. key \in NoticeKeys \union {None}
    <2>1. cfClosed' \in BOOLEAN
      BY DEF CfpTyped
    <2>2. key = KeyOf(cfNames', cfLists', cfUrl', cfClosed')
      BY DEF NoticeKey
    <2>. QED BY <2>1, <2>2, KeyIs
  <1>3. AllFits(cfQueries', cfRecovery', key)
    BY <1>1, <1>2, TurnsKeep
  <1>. QED BY <1>3, InvFrom

\* What the reader does, but for requests
LEMMA ReaderSteps ==
  ASSUME CfpInv,
         \/ Age \/ \E closed \in BOOLEAN : ShowClosed(closed)
         \/ \E j \in Journals : HoverJournal(j) \/ SelectJournal(j) \/ Break(j)
         \/ \E j \in Journals \union {None} : SearchJournals(j)
         \/ \E g \in GroupIds : ToggleGroup(g)
  PROVE  CfpInv'
  <1>0. CfpTyped
    BY DEF CfpInv
  <1>1. \A searching : Unfolded(searching) \subseteq GroupIds
    BY DEF Unfolded, GroupIds
  <1>2. CASE Age
    <2>1. cfAged' \subseteq NoticeKeys
      BY <1>2 DEF Age
    <2>2. UNCHANGED <<cfTurn, cfNames, cfLists, cfUrl, cfClosed, cfSearch, cfFolds, cfQueries, cfRecovery, cfIntent>>
      BY <1>2 DEF Age, cfServer, cfDirectory, cfPanel
    <2>3. CfpTyped'
      BY <1>0, <2>1, <2>2 DEF CfpTyped, Urls
    <2>. QED BY <2>2, <2>3, QuietKeeps DEF NoticeKey
  <1>3. ASSUME NEW closed \in BOOLEAN, ShowClosed(closed) PROVE CfpInv'
    <2>. DEFINE key == KeyOf(cfNames, cfLists, cfUrl, closed)
    <2>1. /\ UNCHANGED <<cfTurn, cfNames, cfLists, cfUrl, cfSearch, cfFolds, cfIntent>> /\ cfClosed' = closed
          /\ TurnsTo(key)
      BY <1>3 DEF ShowClosed, cfServer, cfDirectory, cfPanel
    <2>2. cfAged' = cfAged
      BY <2>1 DEF TurnsTo, cfNotices
    <2>3. CfpTyped'
      BY <1>0, <2>1, <2>2 DEF CfpTyped, Urls
    <2>4. key = NoticeKey'
      BY <2>1 DEF NoticeKey
    <2>. HIDE DEF key
    <2>. QED BY <2>1, <2>3, <2>4, TurnKeeps
  <1>4. ASSUME NEW j \in Journals, HoverJournal(j) PROVE CfpInv'
    <2>1. /\ UNCHANGED <<cfTurn, cfNames, cfLists, cfUrl, cfClosed, cfSearch, cfFolds, cfQueries, cfAged, cfRecovery>>
          /\ cfIntent' = [db |-> ShownDatabase, of |-> j, closed |-> cfClosed]
      BY <1>4 DEF HoverJournal, cfServer, cfDirectory, cfPanel, cfNotices
    <2>2. ShownDatabase \in CfpDatabases
      <3>1. ShownDatabase # None
        BY <1>4 DEF HoverJournal, JournalShown, ListShows
      <3>. QED BY <3>1, CfpConstants DEF ShownDatabase, DatabaseOf
    <2>3. cfIntent' \in NoticeKeys
      BY <1>0, <2>1, <2>2 DEF NoticeKeys, CfpTyped
    <2>4. CfpTyped'
      BY <1>0, <2>1, <2>3 DEF CfpTyped, Urls
    <2>. QED BY <2>1, <2>4, QuietKeeps DEF NoticeKey
  <1>5. ASSUME NEW j \in Journals, SelectJournal(j) PROVE CfpInv'
    <2>. DEFINE key == KeyOf(cfNames, cfLists, cfUrl', cfClosed)
    <2>1. /\ UNCHANGED <<cfTurn, cfNames, cfLists, cfClosed, cfSearch, cfFolds, cfIntent>>
          /\ cfUrl' = [cfUrl EXCEPT !.journal = j] /\ TurnsTo(key)
      BY <1>5 DEF SelectJournal, cfServer, cfDirectory, cfPanel
    <2>2. cfAged' = cfAged /\ cfUrl' \in Urls
      BY <1>0, <2>1 DEF TurnsTo, cfNotices, CfpTyped, Urls
    <2>3. CfpTyped'
      BY <1>0, <2>1, <2>2 DEF CfpTyped, Urls
    <2>4. key = NoticeKey'
      BY <2>1 DEF NoticeKey
    <2>. HIDE DEF key
    <2>. QED BY <2>1, <2>3, <2>4, TurnKeeps
  <1>6. ASSUME NEW j \in Journals, Break(j) PROVE CfpInv'
    <2>1. /\ UNCHANGED <<cfNames, cfLists, cfUrl, cfClosed, cfSearch, cfFolds, cfQueries, cfAged, cfRecovery, cfIntent>>
          /\ cfTurn' = [cfTurn EXCEPT ![j] = @ + 1]
      BY <1>6 DEF Break, cfDirectory, cfPanel, cfNotices
    <2>2. cfTurn' \in [Journals -> Nat]
      BY <1>0, <2>1 DEF CfpTyped
    <2>3. CfpTyped'
      BY <1>0, <2>1, <2>2 DEF CfpTyped, Urls
    <2>. QED BY <2>1, <2>3, QuietKeeps DEF NoticeKey
  <1>7. ASSUME NEW j \in Journals \union {None}, SearchJournals(j) PROVE CfpInv'
    <2>1. /\ UNCHANGED <<cfTurn, cfNames, cfLists, cfUrl, cfClosed, cfQueries, cfAged, cfRecovery, cfIntent>>
          /\ cfSearch' = j
      BY <1>7 DEF SearchJournals, cfServer, cfDirectory, cfNotices
    <2>2. cfFolds' \subseteq GroupIds
      BY <1>0, <1>1, <1>7 DEF SearchJournals, CfpTyped
    <2>3. CfpTyped'
      BY <1>0, <2>1, <2>2 DEF CfpTyped, Urls
    <2>. QED BY <2>1, <2>3, QuietKeeps DEF NoticeKey
  <1>8. ASSUME NEW g \in GroupIds, ToggleGroup(g) PROVE CfpInv'
    <2>1. UNCHANGED <<cfTurn, cfNames, cfLists, cfUrl, cfClosed, cfSearch, cfQueries, cfAged, cfRecovery, cfIntent>>
      BY <1>8 DEF ToggleGroup, cfServer, cfDirectory, cfNotices
    <2>2. cfFolds' \subseteq GroupIds
      BY <1>0, <1>8 DEF ToggleGroup, CfpTyped
    <2>3. CfpTyped'
      BY <1>0, <2>1, <2>2 DEF CfpTyped, Urls
    <2>. QED BY <2>1, <2>3, QuietKeeps DEF NoticeKey
  <1>. QED BY <1>2, <1>3, <1>4, <1>5, <1>6, <1>7, <1>8

\* The directory is read or fails.
LEMMA DirectorySteps ==
  ASSUME CfpInv, ReadDatabases \/ ReadList \/ FailDirectory \/ RetryDirectory
  PROVE  CfpInv'
  <1>0. CfpTyped
    BY DEF CfpInv
  <1>1. CASE ReadDatabases
    <2>. DEFINE key == KeyOf("read", cfLists, cfUrl, cfClosed)
    <2>1. /\ UNCHANGED <<cfTurn, cfLists, cfUrl, cfClosed, cfSearch, cfFolds, cfIntent>> /\ cfNames' = "read"
          /\ TurnsTo(key)
      BY <1>1 DEF ReadDatabases, cfServer, cfPanel
    <2>2. cfAged' = cfAged
      BY <2>1 DEF TurnsTo, cfNotices
    <2>3. CfpTyped'
      BY <1>0, <2>1, <2>2 DEF CfpTyped, Urls
    <2>4. key = NoticeKey'
      BY <2>1 DEF NoticeKey
    <2>. HIDE DEF key
    <2>. QED BY <2>1, <2>3, <2>4, TurnKeeps
  <1>2. CASE ReadList
    <2>. DEFINE key == KeyOf(cfNames, cfLists', cfUrl, cfClosed)
    <2>1. UNCHANGED <<cfTurn, cfNames, cfUrl, cfClosed, cfSearch, cfFolds, cfIntent>> /\ TurnsTo(key)
      BY <1>2 DEF ReadList, cfServer, cfPanel
    <2>2. cfAged' = cfAged
      BY <2>1 DEF TurnsTo, cfNotices
    <2>3. CfpTyped'
      BY <1>0, <2>1, <2>2 DEF CfpTyped, Urls
    <2>4. key = NoticeKey'
      BY <2>1 DEF NoticeKey
    <2>. HIDE DEF key
    <2>. QED BY <2>1, <2>3, <2>4, TurnKeeps
  <1>3. CASE FailDirectory
    <2>1. UNCHANGED <<cfTurn, cfLists, cfUrl, cfClosed, cfSearch, cfQueries, cfAged, cfRecovery, cfIntent>>
          /\ (cfNames' = cfNames \/ (cfNames = "none" /\ cfNames' = "failed")) /\ cfFolds' \subseteq GroupIds
      BY <1>3 DEF FailDirectory, cfServer, cfNotices, Unfolded, GroupIds
    <2>2. CfpTyped'
      BY <1>0, <2>1 DEF CfpTyped, Urls
    <2>3. NoticeKey' = NoticeKey
      BY <2>1 DEF NoticeKey, KeyOf, DatabaseOf
    <2>. QED BY <2>1, <2>2, <2>3, QuietKeeps
  <1>4. CASE cfNames = "failed" /\ cfNames' = "none"
             /\ UNCHANGED <<cfServer, cfLists, cfFailed, cfUrl, cfClosed, cfPanel, cfNotices, cfIntent, cfSpent>>
    <2>1. UNCHANGED <<cfTurn, cfLists, cfUrl, cfClosed, cfSearch, cfFolds, cfQueries, cfAged, cfRecovery, cfIntent>>
      BY <1>4 DEF cfServer, cfPanel, cfNotices
    <2>2. CfpTyped'
      BY <1>0, <1>4, <2>1 DEF CfpTyped, Urls
    <2>3. NoticeKey' = NoticeKey
      BY <1>4, <2>1 DEF NoticeKey, KeyOf, DatabaseOf
    <2>. QED BY <2>1, <2>2, <2>3, QuietKeeps
  <1>. QED BY <1>1, <1>2, <1>3, <1>4 DEF RetryDirectory

LEMMA ArrivesKeeps ==
  ASSUME CfpInv, NEW url \in Urls, NEW closed \in BOOLEAN, NEW search \in Journals \union {None},
         Arrives(url, closed, search)
  PROVE  CfpInv'
  <1>. DEFINE key == KeyOf(cfNames, cfLists, url, closed)
  <1>1. /\ UNCHANGED <<cfTurn, cfNames, cfLists, cfIntent>>
        /\ cfUrl' = url /\ cfClosed' = closed /\ cfSearch' = search /\ TurnsTo(key)
    BY DEF Arrives, cfServer
  <1>2. cfFolds' \subseteq GroupIds
    BY DEF Arrives, Unfolded, GroupIds, CfpInv, CfpTyped
  <1>3. cfAged' = cfAged
    BY <1>1 DEF TurnsTo, cfNotices
  <1>4. CfpTyped'
    BY <1>1, <1>2, <1>3 DEF CfpInv, CfpTyped, Urls
  <1>5. key = NoticeKey'
    BY <1>1 DEF NoticeKey
  <1>. HIDE DEF key
  <1>. QED BY <1>1, <1>4, <1>5, TurnKeeps

LEMMA CfpMoves == CfpInv /\ [CfNext]_cfVars => CfpInv'
  <1>. SUFFICES ASSUME CfpInv, [CfNext]_cfVars PROVE CfpInv'
    OBVIOUS
  <1>1. ASSUME NEW d \in CfpDatabases, ChooseDatabase(d) PROVE CfpInv'
    <2>1. [db |-> d, journal |-> None] \in Urls /\ FALSE \in BOOLEAN /\ None \in Journals \union {None}
      BY DEF Urls
    <2>2. Arrives([db |-> d, journal |-> None], FALSE, None)
      BY <1>1 DEF ChooseDatabase
    <2>. QED BY <2>1, <2>2, ArrivesKeeps
  <1>2. ASSUME NEW url \in Urls, VisitCfp(url) PROVE CfpInv'
    <2>1. cfClosed \in BOOLEAN /\ cfSearch \in Journals \union {None}
      BY DEF CfpInv, CfpTyped
    <2>2. Arrives(url, cfClosed, cfSearch)
      BY <1>2 DEF VisitCfp
    <2>. QED BY <2>1, <2>2, ArrivesKeeps
  <1>3. CASE UNCHANGED cfVars
    <2>1. UNCHANGED <<cfTurn, cfNames, cfLists, cfUrl, cfClosed, cfSearch, cfFolds, cfQueries, cfAged, cfRecovery, cfIntent>>
      BY <1>3 DEF cfVars, cfServer, cfDirectory, cfPanel, cfNotices
    <2>2. CfpTyped'
      BY <2>1 DEF CfpInv, CfpTyped, Urls
    <2>. QED BY <2>1, <2>2, QuietKeeps DEF NoticeKey
  <1>. QED BY <1>1, <1>2, <1>3, NoticeSteps, ReaderSteps, DirectorySteps DEF CfNext

\* Whatever is prefetched, paged, cancelled, refused and read again, the
\* notices on the screen are pages of one evaluation of one state of the
\* journal, and a refused cursor never leaves the reader with its error: a
\* query that was begun again holds no cursor until it succeeds, and then it
\* may be begun again (cfp-tracking-view.tsx:133 and :180).
THEOREM NoticesOfOneReading == CfSpec => [](CfTypeOK /\ NoticesAreOneReading)
  <1>1. CfpInv => CfTypeOK
    BY NoticeKeyIs DEF CfpInv, CfpTyped, CfTypeOK, QueriesFit, QueryFits, QueryRecords, Begun
  <1>2. CfpInv => NoticesAreOneReading
    <2>. SUFFICES ASSUME CfpInv PROVE NoticesAreOneReading
      OBVIOUS
    <2>1. Uniform(VisibleNotices)
      <3>1. CASE CfpDesk = "journal" /\ cfQueries[NoticeKey].error = None
        <4>1. NoticeKey \in NoticeKeys
          BY <3>1, NoticeKeyIs DEF CfpDesk
        <4>. QED BY <3>1, <4>1 DEF VisibleNotices, CfpInv, QueriesFit, QueryFits
      <3>2. CASE ~(CfpDesk = "journal" /\ cfQueries[NoticeKey].error = None)
        BY <3>2 DEF VisibleNotices, Uniform
      <3>. QED BY <3>1, <3>2
    <2>. QED BY <2>1 DEF NoticesAreOneReading, Uniform, CfpInv, ShownFits
  <1>. QED BY <1>1, <1>2, StartKeeps, CfpMoves, PTL DEF CfSpec

----------------------------------------------------------------------------
\* The AI fields of the preferences

LEMMA FormIs == AiTypeOK /\ CanEditAi => AiForm \in AiDrafts
  <1>. SUFFICES ASSUME AiTypeOK, CanEditAi PROVE AiForm \in AiDrafts
    OBVIOUS
  <1>1. CASE aiDraft # None
    BY <1>1 DEF AiTypeOK, AiForm
  <1>2. CASE aiDraft = None
    <2>1. aiCache \in AiSettings
      BY DEF AiTypeOK, CanEditAi
    <2>2. Redacted(aiCache) \in AiDrafts
      BY <2>1 DEF Redacted, AiSettings, AiDrafts, Configurations
    <2>. QED BY <1>2, <2>2 DEF AiForm
  <1>. QED BY <1>1, <1>2

\* An edit that keeps the form's types keeps all types.
LEMMA DraftKeeps ==
  ASSUME AiTypeOK, NEW draft \in AiDrafts, AiKeeps(draft)
  PROVE  AiTypeOK'
  BY AiConstants DEF AiTypeOK, AiKeeps, AiStep

LEMMA EditSteps ==
  ASSUME AiTypeOK,
         \/ \E n \in Attempts : SetTries(n)
         \/ \E r \in Roles : \/ \E e \in Endpoints \union {Default} : ChooseEndpoint(r, e)
                             \/ \E text \in BOOLEAN : EditAiText(r, text)
                             \/ \E mark \in {"set", "clear", "keep"} : EditAiKey(r, mark)
  PROVE  AiTypeOK'
  <1>1. CanEditAi => AiForm \in AiDrafts
    BY FormIs
  <1>2. ASSUME NEW n \in Attempts, SetTries(n) PROVE AiTypeOK'
    <2>1. Clamped(n) \in 1..MaxTries
      BY AiConstants DEF Clamped
    <2>2. [AiForm EXCEPT !.tries = Clamped(n)] \in AiDrafts
      BY <1>1, <1>2, <2>1 DEF SetTries, AiDrafts
    <2>. QED BY <1>2, <2>2, DraftKeeps DEF SetTries
  <1>3. ASSUME NEW r \in Roles, NEW e \in Endpoints \union {Default}, ChooseEndpoint(r, e) PROVE AiTypeOK'
    <2>1. [AiForm EXCEPT !.roles[r].url = e] \in AiDrafts
      BY <1>1, <1>3 DEF ChooseEndpoint, AiDrafts
    <2>. QED BY <1>3, <2>1, DraftKeeps DEF ChooseEndpoint
  <1>4. ASSUME NEW r \in Roles, NEW text \in BOOLEAN, EditAiText(r, text) PROVE AiTypeOK'
    <2>1. [AiForm EXCEPT !.roles[r].text = text] \in AiDrafts
      BY <1>1, <1>4 DEF EditAiText, AiDrafts
    <2>. QED BY <1>4, <2>1, DraftKeeps DEF EditAiText
  <1>5. ASSUME NEW r \in Roles, NEW mark \in {"set", "clear", "keep"}, EditAiKey(r, mark) PROVE AiTypeOK'
    <2>1. [AiForm EXCEPT !.roles[r].key = mark] \in AiDrafts
      BY <1>1, <1>5 DEF EditAiKey, AiDrafts
    <2>. QED BY <1>5, <2>1, DraftKeeps DEF EditAiKey
  <1>. QED BY <1>2, <1>3, <1>4, <1>5

LEMMA SavedEndpoints == AiTypeOK /\ SendAi => AiTypeOK'
  <1>. SUFFICES ASSUME AiTypeOK, SendAi PROVE AiTypeOK'
    OBVIOUS
  <1>. DEFINE sent == [AiForm EXCEPT !.roles = [r \in Roles |-> [@[r] EXCEPT !.url = SentEndpoint(r)]]]
  <1>1. AiForm \in AiDrafts
    BY FormIs DEF SendAi
  <1>2. \A r \in Roles : SentEndpoint(r) \in Endpoints \union {Default}
    BY <1>1 DEF SentEndpoint, AiDrafts
  <1>3. sent \in AiDrafts
    BY <1>1, <1>2 DEF AiDrafts
  <1>4. /\ aiSave' = [sent |-> sent, state |-> "sent", got |-> None]
        /\ UNCHANGED <<aiApproved, aiStored, aiCache, aiList, aiDraft, aiSpent>>
    BY DEF SendAi
  <1>. HIDE DEF sent
  <1>. QED BY <1>3, <1>4 DEF AiTypeOK

LEMMA ServedSave == AiTypeOK /\ ServeAi => AiTypeOK'
  <1>. SUFFICES ASSUME AiTypeOK, ServeAi PROVE AiTypeOK'
    OBVIOUS
  <1>. DEFINE stored == [roles |-> [r \in Roles |->
                                [url |-> aiSave.sent.roles[r].url, text |-> aiSave.sent.roles[r].text,
                                 key |-> KeyAfter(aiStored.roles[r].key, aiSave.sent.roles[r].key)]],
                         tries |-> aiSave.sent.tries]
  <1>1. aiSave # None /\ aiSave.sent \in AiDrafts /\ aiSave.state = "sent" /\ aiSave.got = None
    BY DEF ServeAi, AiTypeOK
  <1>2. stored \in AiSettings
    <2>1. \A r \in Roles : KeyAfter(aiStored.roles[r].key, aiSave.sent.roles[r].key) \in BOOLEAN
      BY DEF KeyAfter, AiTypeOK, AiSettings, Configurations
    <2>. QED BY <1>1, <2>1 DEF AiSettings, AiDrafts, Configurations
  <1>3. UNCHANGED <<aiApproved, aiCache, aiList, aiDraft, aiSpent>>
    BY DEF ServeAi
  <1>4. CASE aiStored' = stored /\ aiSave' = [aiSave EXCEPT !.state = "served", !.got = aiStored']
    <2>. HIDE DEF stored
    <2>1. aiStored' \in AiSettings /\ aiStored' # None
      BY <1>2, <1>4, NoneIsNoAnswer
    <2>2. aiSave' = [sent |-> aiSave.sent, state |-> "served", got |-> aiStored']
      BY <1>1, <1>4 DEF AiTypeOK
    <2>. QED BY <1>1, <1>3, <2>1, <2>2 DEF AiTypeOK
  <1>5. CASE aiSave' = [aiSave EXCEPT !.state = "refused"] /\ UNCHANGED aiStored
    <2>1. aiSave' = [sent |-> aiSave.sent, state |-> "refused", got |-> None]
      BY <1>1, <1>5 DEF AiTypeOK
    <2>. QED BY <1>1, <1>3, <1>5, <2>1 DEF AiTypeOK
  <1>. QED BY <1>4, <1>5 DEF ServeAi

LEMMA AiMoves == AiTypeOK /\ [AiNext]_aiVars => AiTypeOK'
  <1>. SUFFICES ASSUME AiTypeOK, [AiNext]_aiVars PROVE AiTypeOK'
    OBVIOUS
  <1>1. CASE AnswerAi
    <2>1. aiSave.state # "refused" => aiSave.got \in AiSettings
      BY <1>1 DEF AnswerAi, AiTypeOK
    <2>. QED BY <1>1, <2>1 DEF AnswerAi, AiTypeOK
  <1>2. CASE DiscardAi \/ LoseAi \/ ReadPreferences
    BY <1>2, AiConstants DEF DiscardAi, LoseAi, ReadPreferences, AiStep, AiTypeOK
  <1>3. CASE ReadEndpoints \/ FailEndpoints
    <2>1. aiApproved \in SUBSET Endpoints /\ aiList \in [data : (SUBSET Endpoints) \union {None}, ok : BOOLEAN]
      BY DEF AiTypeOK
    <2>2. [data |-> aiApproved, ok |-> TRUE] \in [data : (SUBSET Endpoints) \union {None}, ok : BOOLEAN]
      BY <2>1
    <2>3. [aiList EXCEPT !.ok = FALSE] \in [data : (SUBSET Endpoints) \union {None}, ok : BOOLEAN]
      BY <2>1
    <2>4. aiList' \in [data : (SUBSET Endpoints) \union {None}, ok : BOOLEAN]
      BY <1>3, <2>2, <2>3 DEF ReadEndpoints, FailEndpoints
    <2>5. UNCHANGED <<aiApproved, aiStored, aiCache, aiDraft, aiSave>> /\ aiSpent' \in 0..MaxAiSteps
      BY <1>3, AiConstants DEF ReadEndpoints, FailEndpoints, AiStep, AiTypeOK
    <2>. QED BY <2>4, <2>5 DEF AiTypeOK
  <1>4. ASSUME NEW endpoints \in SUBSET Endpoints, ApproveEndpoints(endpoints) PROVE AiTypeOK'
    BY <1>4, AiConstants DEF ApproveEndpoints, AiStep, AiTypeOK
  <1>5. CASE UNCHANGED aiVars
    BY <1>5 DEF aiVars, AiTypeOK
  <1>. QED BY <1>1, <1>2, <1>3, <1>4, <1>5, SavedEndpoints, ServedSave, EditSteps DEF AiNext

\* The settings centre agrees with what is around it: its dialog is where the
\* URL is, with no request left what it shows without a draft is the server's,
\* and the endpoints that are saved are those on the screen, with retries in
\* the form's range, whatever is read again, withdrawn or refused
\* (settings-center-dialog.tsx:325, use-tracking-page.tsx:252).
THEOREM SettingsCentreAgrees == SetSpec /\ AiSpec => [](SettingsAgree /\ AiTypeOK)
  <1>1. AiInit => AiTypeOK
    BY AiConstants DEF AiInit, AiTypeOK, AiSettings, Configurations
  <1>2. AiTypeOK => EndpointsAreSavedAsShown
    BY DEF EndpointsAreSavedAsShown, SentEndpoint, ShownEndpoint
  <1>3. UrlAgrees /\ CacheAgrees /\ EndpointsAreSavedAsShown => SettingsAgree
    BY DEF SettingsAgree
  <1>. QED BY <1>1, <1>2, <1>3, AiMoves, DialogFollowsUrl, PreferencesAreRead, PTL DEF AiSpec

----------------------------------------------------------------------------
\* No provider is named twice

\* An order of providers: a sequence that names none twice
Order(s) == s \in Seq(Providers) /\ IsInjective(s)

LEMMA OrderIs ==
  ASSUME NEW s, NEW n \in Nat, s \in Seq(Providers), Len(s) = n,
         \A i, j \in 1..n : s[i] = s[j] => i = j
  PROVE  Order(s)
  <1>1. DOMAIN s = 1..n
    BY LenProperties
  <1>. QED
    BY <1>1 DEF Order, IsInjective

LEMMA OrderHas ==
  ASSUME NEW s, Order(s)
  PROVE  /\ s \in Seq(Providers) /\ Len(s) \in Nat /\ DOMAIN s = 1..Len(s)
         /\ \A i \in 1..Len(s) : s[i] \in Providers
         /\ \A i, j \in 1..Len(s) : s[i] = s[j] => i = j
  <1>1. s \in Seq(Providers)
    BY DEF Order
  <1>2. Len(s) \in Nat /\ DOMAIN s = 1..Len(s) /\ \A i \in 1..Len(s) : s[i] \in Providers
    BY <1>1, LenProperties, ElementOfSeq
  <1>. QED
    BY <1>1, <1>2 DEF Order, IsInjective

LEMMA ShortOrders ==
  /\ Order(<<>>)
  /\ \A p \in Providers : Order(<<p>>)
  /\ Order(<<Head(Catalog)>>)
  <1>1. Order(<<>>)
    BY DEF Order, IsInjective
  <1>2. ASSUME NEW p \in Providers PROVE Order(<<p>>)
    BY <1>2 DEF Order, IsInjective
  <1>3. Head(Catalog) \in Providers
    BY RuntimeConstants, HeadTailProperties DEF Providers
  <1>. QED
    BY <1>1, <1>2, <1>3

LEMMA SwapKeepsOrder ==
  ASSUME NEW s, Order(s), NEW i \in 1..Len(s), NEW j \in 1..Len(s)
  PROVE  Order(MoveProvider(s, i, j))
  <1>. DEFINE t == MoveProvider(s, i, j)
              first == [s EXCEPT ![i] = s[j]]
  <1>1. /\ first \in Seq(Providers) /\ Len(first) = Len(s)
        /\ \A k \in 1..Len(s) : first[k] = IF k = i THEN s[j] ELSE s[k]
    BY OrderHas, ExceptSeq
  <1>2. t = [first EXCEPT ![j] = s[i]]
    BY OrderHas DEF MoveProvider
  <1>3. /\ t \in Seq(Providers) /\ Len(t) = Len(s)
        /\ \A k \in 1..Len(s) : t[k] = IF k = j THEN s[i] ELSE first[k]
    <2>. HIDE DEF first, t
    <2>. QED
      BY <1>1, <1>2, OrderHas, ExceptSeq
  <1>. HIDE DEF first, t
  <1>4. \A k, l \in 1..Len(s) : t[k] = t[l] => k = l
    BY <1>1, <1>3, OrderHas
  <1>. QED
    BY <1>3, <1>4, OrderHas, OrderIs DEF t

LEMMA RemovalKeepsOrder ==
  ASSUME NEW s, Order(s), NEW i \in 1..Len(s)
  PROVE  Order(RemoveAt(s, i))
  <1>. DEFINE n == Len(s)
              a == SubSeq(s, 1, i - 1)
              b == SubSeq(s, i + 1, n)
              t == RemoveAt(s, i)
  <1>0. n \in Nat /\ i \in 1..n
    BY OrderHas
  <1>. HIDE DEF n
  <1>1. /\ a \in Seq(Providers) /\ Len(a) = i - 1
        /\ \A k \in 1..(i - 1) : a[k] = s[k]
    <2>1. \A k \in 1..(i - 1) : s[k] \in Providers
      BY <1>0, OrderHas DEF n
    <2>. QED
      BY <1>0, <2>1, SubSeqProperties
  <1>2. /\ b \in Seq(Providers) /\ Len(b) = n - i
        /\ \A k \in 1..(n - i) : b[k] = s[k + i]
    <2>1. \A k \in (i + 1)..n : s[k] \in Providers
      BY <1>0, OrderHas DEF n
    <2>2. /\ b \in Seq(Providers) /\ Len(b) = IF i + 1 <= n THEN n - (i + 1) + 1 ELSE 0
          /\ \A k \in 1..(n - (i + 1) + 1) : b[k] = s[i + 1 + k - 1]
      BY <1>0, <2>1, SubSeqProperties
    <2>3. n - (i + 1) + 1 = n - i /\ \A k \in 1..(n - i) : i + 1 + k - 1 = k + i
      BY <1>0
    <2>. HIDE DEF b
    <2>. QED
      BY <1>0, <2>2, <2>3
  <1>3. t = a \o b
    BY DEF RemoveAt, n
  <1>. HIDE DEF a, b, t
  <1>4. /\ t \in Seq(Providers) /\ Len(t) = n - 1
        /\ \A k \in 1..(n - 1) : t[k] = IF k <= i - 1 THEN a[k] ELSE b[k - (i - 1)]
    <2>1. Len(a) + Len(b) = n - 1
      BY <1>0, <1>1, <1>2
    <2>2. /\ t \in Seq(Providers) /\ Len(t) = Len(a) + Len(b)
          /\ \A k \in 1..Len(a) + Len(b) : t[k] = IF k <= Len(a) THEN a[k] ELSE b[k - Len(a)]
      BY <1>1, <1>2, <1>3, ConcatProperties
    <2>. QED
      BY <1>1, <2>1, <2>2
  <1>5. \A k \in 1..(n - 1) : t[k] = IF k < i THEN s[k] ELSE s[k + 1]
    <2>. SUFFICES ASSUME NEW k \in 1..(n - 1) PROVE t[k] = IF k < i THEN s[k] ELSE s[k + 1]
      OBVIOUS
    <2>1. CASE k < i
      BY <1>0, <1>1, <1>4, <2>1
    <2>2. CASE ~(k < i)
      <3>1. k - (i - 1) \in 1..(n - i) /\ (k - (i - 1)) + i = k + 1
        BY <1>0, <2>2
      <3>2. t[k] = b[k - (i - 1)]
        BY <1>0, <1>4, <2>2
      <3>3. b[k - (i - 1)] = s[(k - (i - 1)) + i]
        BY <1>2, <3>1
      <3>. QED
        BY <2>2, <3>1, <3>2, <3>3
    <2>. QED
      BY <2>1, <2>2
  <1>6. \A k, l \in 1..(n - 1) : t[k] = t[l] => k = l
    BY <1>0, <1>5, OrderHas DEF n
  <1>. QED
    BY <1>0, <1>4, <1>6, OrderIs DEF t

\* A provider the order does not have yet keeps it one.
LEMMA NewKeepsOrder ==
  ASSUME NEW s, Order(s), NEW p \in Available(s)
  PROVE  /\ \A i \in 1..Len(s) : Order([s EXCEPT ![i] = p])
         /\ Order(Append(s, p))
  <1>1. p \in Providers /\ \A k \in 1..Len(s) : s[k] # p
    BY OrderHas DEF Available, ToSet
  <1>2. ASSUME NEW i \in 1..Len(s) PROVE Order([s EXCEPT ![i] = p])
    <2>. DEFINE t == [s EXCEPT ![i] = p]
    <2>1. /\ t \in Seq(Providers) /\ Len(t) = Len(s)
          /\ \A k \in 1..Len(s) : t[k] = IF k = i THEN p ELSE s[k]
      BY <1>1, OrderHas, ExceptSeq
    <2>. HIDE DEF t
    <2>2. \A k, l \in 1..Len(s) : t[k] = t[l] => k = l
      BY <1>1, <2>1, OrderHas
    <2>3. Order(t)
      BY <2>1, <2>2, OrderHas, OrderIs
    <2>. QED
      BY <2>3 DEF t
  <1>3. Order(Append(s, p))
    <2>. DEFINE t == Append(s, p)
    <2>1. /\ t \in Seq(Providers) /\ Len(t) = Len(s) + 1
          /\ \A k \in 1..Len(s) : t[k] = s[k]
          /\ t[Len(s) + 1] = p
      BY <1>1, OrderHas, AppendProperties
    <2>. HIDE DEF t
    <2>2. \A k, l \in 1..(Len(s) + 1) : t[k] = t[l] => k = l
      <3>. SUFFICES ASSUME NEW k \in 1..(Len(s) + 1), NEW l \in 1..(Len(s) + 1), t[k] = t[l] PROVE k = l
        OBVIOUS
      <3>1. Len(s) \in Nat
        BY OrderHas
      <3>. DEFINE n == Len(s)
      <3>2. k \in 1..n \/ k = n + 1
        BY <3>1
      <3>3. l \in 1..n \/ l = n + 1
        BY <3>1
      <3>. HIDE DEF n
      <3>. QED
        BY <1>1, <2>1, <3>1, <3>2, <3>3, OrderHas DEF n
    <2>3. Len(s) + 1 \in Nat
      BY OrderHas
    <2>4. Order(t)
      BY <2>1, <2>2, <2>3, OrderIs
    <2>. QED
      BY <2>4 DEF t
  <1>. QED
    BY <1>2, <1>3

\* The provider that is added is one the order lacks.
LEMMA FirstIsAvailable ==
  ASSUME NEW s, Available(s) # {}
  PROVE  FirstAvailable(s) \in Available(s)
  <1>. DEFINE T == {i \in DOMAIN Catalog : Catalog[i] \in Available(s)}
  <1>1. Catalog \in Seq(Providers) /\ DOMAIN Catalog = 1..Len(Catalog) /\ Len(Catalog) \in Nat
    BY RuntimeConstants, LenProperties DEF Providers
  <1>2. T \in SUBSET Nat
    BY <1>1
  <1>3. T # {}
    <2>1. PICK p \in Available(s) : p \in ToSet(Catalog)
      BY DEF Available, Providers
    <2>. QED
      BY <2>1 DEF ToSet
  <1>4. PICK i \in T : \A k \in T : i <= k
    <2>. HIDE DEF T
    <2>. QED
      BY <1>2, <1>3, LeastNat
  <1>5. \A k \in 1..(i - 1) : Catalog[k] \notin Available(s)
    <2>. SUFFICES ASSUME NEW k \in 1..(i - 1), Catalog[k] \in Available(s) PROVE FALSE
      OBVIOUS
    <2>1. k \in DOMAIN Catalog /\ ~(i <= k)
      BY <1>1, <1>4
    <2>. QED
      BY <1>4, <2>1
  <1>. QED
    BY <1>4, <1>5 DEF FirstAvailable

LEMMA ReorderedAreOrders ==
  ASSUME NEW s, Order(s), NEW t \in Reordered(s)
  PROVE  Order(t)
  <1>1. CASE t \in {MoveProvider(s, i, i + 1) : i \in 1..(Len(s) - 1)}
    <2>1. PICK i \in 1..(Len(s) - 1) : t = MoveProvider(s, i, i + 1)
      BY <1>1
    <2>2. i \in 1..Len(s) /\ i + 1 \in 1..Len(s)
      BY OrderHas
    <2>. QED
      BY <2>1, <2>2, SwapKeepsOrder
  <1>2. CASE t \in {RemoveAt(s, i) : i \in DOMAIN s}
    BY <1>2, OrderHas, RemovalKeepsOrder
  <1>3. CASE t \in {[s EXCEPT ![i] = p] : i \in DOMAIN s, p \in Available(s)}
    BY <1>3, OrderHas, NewKeepsOrder
  <1>4. CASE Available(s) # {} /\ t = Append(s, FirstAvailable(s))
    BY <1>4, FirstIsAvailable, NewKeepsOrder
  <1>. QED
    BY <1>1, <1>2, <1>3, <1>4 DEF Reordered

\* What the editors show and send, and what the server holds
OrdersFit(orders) == orders \in Orders /\ OrderedOnce(orders)

LEMMA EditsAreOrders ==
  ASSUME NEW orders, OrdersFit(orders), NEW edited \in EditedOrders(orders)
  PROVE  OrdersFit(edited)
  <1>1. /\ Order(orders.default) /\ (orders.own # None => Order(orders.own))
        /\ orders = [default |-> orders.default, own |-> orders.own]
    BY DEF OrdersFit, OrderedOnce, Orders, Order
  <1>2. ASSUME NEW order, Order(order), edited = [orders EXCEPT !.default = order]
        PROVE  OrdersFit(edited)
    BY <1>2 DEF OrdersFit, OrderedOnce, Orders, Order
  <1>3. ASSUME NEW order, Order(order) \/ order = None, edited = [orders EXCEPT !.own = order]
        PROVE  OrdersFit(edited)
    BY <1>3 DEF OrdersFit, OrderedOnce, Orders, Order
  <1>4. \A order \in DefaultOrders(orders.default) : Order(order)
    <2>. SUFFICES ASSUME NEW order \in DefaultOrders(orders.default) PROVE Order(order)
      OBVIOUS
    <2>1. order = <<Head(Catalog)>> \/ order = <<>> \/ order \in Reordered(orders.default)
      BY DEF DefaultOrders
    <2>. QED
      BY <1>1, <2>1, ShortOrders, ReorderedAreOrders
  <1>5. \A order \in OwnOrders(orders.own, orders.default) : Order(order) \/ order = None
    <2>. SUFFICES ASSUME NEW order \in OwnOrders(orders.own, orders.default)
                  PROVE  Order(order) \/ order = None
      OBVIOUS
    <2>1. \/ order \in {None, <<>>, <<Head(Catalog)>>, orders.default}
          \/ orders.own # None /\ order \in Reordered(orders.own)
      BY DEF OwnOrders
    <2>2. ASSUME orders.own # None, order \in Reordered(orders.own)
          PROVE  Order(order)
      BY <1>1, <2>2, ReorderedAreOrders
    <2>. QED
      BY <1>1, <2>1, <2>2, ShortOrders
  <1>6. \/ \E order \in DefaultOrders(orders.default) : edited = [orders EXCEPT !.default = order]
        \/ \E order \in OwnOrders(orders.own, orders.default) : edited = [orders EXCEPT !.own = order]
    BY DEF EditedOrders
  <1>. QED
    BY <1>2, <1>3, <1>4, <1>5, <1>6

StoredFits(stored) == stored \in SettingsStored /\ OrderedOnce(stored.orders)
CacheFits ==
    /\ OrdersFit(rtCache.orders) /\ rtCache.hasSecret \in BOOLEAN
    /\ rtCache.items \subseteq Keys /\ rtCache.age \in Nat
RtDraftFits ==
    /\ rtDraft.orders # None => OrdersFit(rtDraft.orders)
    /\ rtDraft.secret \in SecretValues \union {None} /\ rtDraft.clear \subseteq {"secret", "pool"}
    /\ rtDraft.add \subseteq Keys
    /\ \A m \in rtDraft.marked : m[1] \in Keys /\ m[2] \in Nat /\ m[2] <= rtCache.age
SentFits(sent) ==
    /\ sent.orders # None => OrdersFit(sent.orders)
    /\ sent.secret \in SecretValues \union {None, "null"}
    /\ sent.add \subseteq Keys
RtSaveFits ==
    rtSave # None =>
        /\ rtSave.stage \in {"sent", "done", "failed"}
        /\ SentFits(rtSave.sent)
        /\ rtSave.stage = "done" => StoredFits(rtSave.back)

\* The draft and the save are those of RuntimeInv, with their values.
RtTyped ==
    /\ StoredFits(rtStored) /\ CacheFits /\ RtDraftFits /\ RtSaveFits
    /\ rtTouched \subseteq {"orders", "secret", "pool"} /\ rtOpen \in BOOLEAN

LEMMA MergedFits ==
  ASSUME NEW stored, StoredFits(stored), NEW sent, SentFits(sent)
  PROVE  StoredFits(Merged(stored, sent))
  <1>1. /\ OrdersFit(stored.orders) /\ stored.secret \in SecretValues /\ stored.pool \subseteq Keys
    BY DEF StoredFits, SettingsStored, OrdersFit
  <1>2. /\ OrdersFit(Merged(stored, sent).orders)
        /\ Merged(stored, sent).secret \in SecretValues
        /\ Merged(stored, sent).pool \subseteq Keys
    BY <1>1 DEF Merged, SentFits, SecretValues
  <1>3. Merged(stored, sent) = [orders |-> Merged(stored, sent).orders, secret |-> Merged(stored, sent).secret,
                               pool |-> Merged(stored, sent).pool]
    BY DEF Merged
  <1>. QED
    BY <1>2, <1>3 DEF StoredFits, SettingsStored, OrdersFit

LEMMA ProjectedFits ==
  ASSUME NEW stored, StoredFits(stored), rtCache.age \in Nat,
         rtCache' = Projected(stored, rtCache.age + 1)
  PROVE  CacheFits' /\ rtCache'.age = rtCache.age + 1
  <1>1. /\ rtCache'.orders = stored.orders /\ rtCache'.hasSecret \in BOOLEAN
        /\ rtCache'.items = stored.pool /\ rtCache'.age = rtCache.age + 1
    BY DEF Projected
  <1>2. OrdersFit(stored.orders) /\ stored.pool \subseteq Keys
    BY DEF StoredFits, SettingsStored, OrdersFit
  <1>3. OrdersFit(rtCache'.orders) <=> OrdersFit(rtCache.orders)'
    BY DEF OrdersFit, OrderedOnce
  <1>4. OrdersFit(rtCache'.orders) /\ rtCache'.age \in Nat
    BY <1>1, <1>2
  <1>. QED
    BY <1>1, <1>2, <1>3, <1>4 DEF CacheFits

\* An edit changes one part of the draft.
LEMMA DraftStaysTyped ==
  ASSUME RtTyped, IsDraft(rtDraft), NEW draft, NEW field \in {"orders", "secret", "pool"}, Draft(draft, field),
         draft.orders # None => OrdersFit(draft.orders),
         draft.secret \in SecretValues \union {None}, draft.clear \subseteq {"secret", "pool"},
         draft.add \subseteq Keys,
         \A m \in draft.marked : m[1] \in Keys /\ m[2] \in Nat /\ m[2] <= rtCache.age
  PROVE  RtTyped'
  <1>1. /\ rtDraft' = draft /\ rtTouched' = rtTouched \union {field}
        /\ UNCHANGED <<rtStored, rtCache, rtSave, rtOpen>>
    BY DEF Draft
  <1>2. CacheFits' /\ RtSaveFits' /\ StoredFits(rtStored)'
    BY <1>1 DEF RtTyped, CacheFits, RtSaveFits
  <1>3. RtDraftFits'
    BY <1>1 DEF RtDraftFits
  <1>. QED
    BY <1>1, <1>2, <1>3 DEF RtTyped

LEMMA RuntimeTyped == RtSpec => []RtTypeOK
  <1>1. RtInit => RtTyped
    <2>. SUFFICES ASSUME RtInit PROVE RtTyped
      OBVIOUS
    <2>1. PICK p \in Providers, pool \in SUBSET Keys :
             rtStored = [orders |-> [default |-> <<p>>, own |-> None], secret |-> "key", pool |-> pool]
      BY DEF RtInit
    <2>2. Order(<<p>>)
      BY ShortOrders
    <2>3. StoredFits(rtStored)
      BY <2>1, <2>2 DEF StoredFits, SettingsStored, OrderedOnce, Orders, Order, SecretValues
    <2>4. rtCache = Projected(rtStored, 0)
      BY DEF RtInit
    <2>5. CacheFits
      BY <2>3, <2>4 DEF StoredFits, SettingsStored, CacheFits, OrdersFit, Projected
    <2>. QED
      BY <2>3, <2>5 DEF RtInit, RtTyped, RtDraftFits, RtSaveFits, Untouched
  <1>2. RuntimeInv /\ RtTyped /\ [RtNext]_rtVars => RtTyped'
    <2>. SUFFICES ASSUME RuntimeInv, RtTyped, [RtNext]_rtVars
                  PROVE  RtTyped'
      OBVIOUS
    <2>1. IsDraft(rtDraft) /\ (rtSave # None => IsSave(rtSave))
      BY DEF RuntimeInv, DraftIsTouched, SaveIsTouched
    <2>2. RtDraftFits /\ CacheFits /\ RtSaveFits /\ StoredFits(rtStored)
      BY DEF RtTyped
    <2>3. CASE EditOrders
      <3>1. PICK orders \in EditedOrders(ShownOrders) : Draft([rtDraft EXCEPT !.orders = orders], "orders")
        BY <2>3 DEF EditOrders
      <3>2. OrdersFit(ShownOrders)
        BY <2>2 DEF ShownOrders, RtDraftFits, CacheFits
      <3>3. OrdersFit(orders)
        BY <3>2, EditsAreOrders
      <3>. QED
        BY <2>1, <2>2, <3>1, <3>3, DraftStaysTyped DEF IsDraft, RtDraftFits
    <2>4. CASE TypeSecret
      <3>1. PICK v \in SecretValues : Draft([rtDraft EXCEPT !.secret = v, !.clear = rtDraft.clear \ {"secret"}], "secret")
        BY <2>4 DEF TypeSecret
      <3>. QED
        BY <2>1, <2>2, <3>1, DraftStaysTyped DEF IsDraft, RtDraftFits
    <2>5. ASSUME NEW field \in {"secret", "pool"}, ToggleSecretClear(field)
          PROVE  RtTyped'
      <3>. DEFINE clear == IF field \in rtDraft.clear THEN rtDraft.clear \ {field} ELSE rtDraft.clear \union {field}
      <3>1. Draft([rtDraft EXCEPT !.clear = clear], field)
        BY <2>1, <2>5 DEF ToggleSecretClear, IsDraft
      <3>2. clear \subseteq {"secret", "pool"}
        BY <2>2 DEF RtDraftFits
      <3>. HIDE DEF clear
      <3>. QED
        BY <2>1, <2>2, <3>1, <3>2, DraftStaysTyped DEF IsDraft, RtDraftFits
    <2>6. CASE TypeAddition
      <3>1. PICK add \in SUBSET Keys : Draft([rtDraft EXCEPT !.add = add], "pool")
        BY <2>6 DEF TypeAddition
      <3>. QED
        BY <2>1, <2>2, <3>1, DraftStaysTyped DEF IsDraft, RtDraftFits
    <2>7. ASSUME NEW k \in Keys, ToggleRemoval(k)
          PROVE  RtTyped'
      <3>. DEFINE marked == IF ToRemove(k) THEN rtDraft.marked \ {<<k, rtCache.age>>}
                            ELSE rtDraft.marked \union {<<k, rtCache.age>>}
      <3>1. Draft([rtDraft EXCEPT !.marked = marked], "pool")
        BY <2>1, <2>7 DEF ToggleRemoval, IsDraft
      <3>2. \A m \in marked : m[1] \in Keys /\ m[2] \in Nat /\ m[2] <= rtCache.age
        <4>1. \A m \in marked : m \in rtDraft.marked \/ m = <<k, rtCache.age>>
          OBVIOUS
        <4>2. <<k, rtCache.age>>[1] = k /\ <<k, rtCache.age>>[2] = rtCache.age
          OBVIOUS
        <4>3. rtCache.age \in Nat /\ rtCache.age <= rtCache.age
          BY <2>2 DEF CacheFits
        <4>. HIDE DEF marked
        <4>. QED
          BY <2>2, <4>1, <4>2, <4>3 DEF RtDraftFits
      <3>. HIDE DEF marked
      <3>. QED
        BY <2>1, <2>2, <3>1, <3>2, DraftStaysTyped DEF IsDraft, RtDraftFits
    <2>8. CASE SaveRuntime
      <3>1. SentFits(Payload)
        BY <2>2 DEF Payload, SentFits, RtDraftFits
      <3>2. rtSave'.stage = "sent" /\ rtSave'.sent = Payload
        BY <2>8 DEF SaveRuntime
      <3>3. RtSaveFits'
        BY <3>1, <3>2 DEF RtSaveFits, SentFits
      <3>. QED
        BY <2>2, <2>8, <3>3 DEF SaveRuntime, RtTyped, CacheFits, RtDraftFits, StoredFits
    <2>9. CASE ServeRuntime
      <3>1. SentFits(rtSave.sent) /\ rtSave # None /\ IsSave(rtSave)
        BY <2>1, <2>2, <2>9 DEF ServeRuntime, RtSaveFits
      <3>2. StoredFits(rtStored')
        BY <2>2, <2>9, <3>1, MergedFits DEF ServeRuntime
      <3>3. \/ rtSave' = [rtSave EXCEPT !.stage = "done", !.back = rtStored']
            \/ rtSave' = [rtSave EXCEPT !.stage = "failed"]
        BY <2>9 DEF ServeRuntime
      <3>4. \/ rtSave'.stage = "done" /\ rtSave'.back = rtStored' /\ rtSave'.sent = rtSave.sent
            \/ rtSave'.stage = "failed" /\ rtSave'.sent = rtSave.sent
        BY <3>1, <3>3 DEF IsSave
      <3>5. RtSaveFits'
        BY <3>1, <3>2, <3>4 DEF RtSaveFits, SentFits
      <3>. QED
        BY <2>2, <2>9, <3>2, <3>5 DEF ServeRuntime, RtTyped, CacheFits, RtDraftFits
    <2>10. CASE AnswerRuntime
      <3>1. RtSaveFits' /\ rtStored' = rtStored /\ rtOpen' = rtOpen
        BY <2>10 DEF AnswerRuntime, RtSaveFits
      <3>2. CASE rtSave.stage = "failed"
        BY <2>2, <2>10, <3>1, <3>2 DEF AnswerRuntime, RtTyped, CacheFits, RtDraftFits
      <3>3. CASE rtSave.stage = "done"
        <4>1. StoredFits(rtSave.back) /\ rtCache' = Projected(rtSave.back, rtCache.age + 1) /\ rtCache.age \in Nat
          BY <2>2, <2>10, <3>3 DEF AnswerRuntime, RtSaveFits, CacheFits
        <4>2. CacheFits' /\ rtCache'.age = rtCache.age + 1
          BY <4>1, ProjectedFits
        <4>3. \/ rtDraft' = rtDraft /\ rtTouched' = rtTouched
              \/ rtDraft' = Untouched /\ rtTouched' = {}
          BY <2>10, <3>3 DEF AnswerRuntime
        <4>4. RtDraftFits'
          BY <2>2, <4>1, <4>2, <4>3 DEF RtDraftFits, Untouched
        <4>. QED
          BY <2>2, <3>1, <4>2, <4>3, <4>4 DEF RtTyped
      <3>. QED
        BY <2>10, <3>2, <3>3 DEF AnswerRuntime
    <2>11. CASE ReadRuntime
      <3>1. rtCache' = Projected(rtStored, rtCache.age + 1) /\ rtCache.age \in Nat
        BY <2>2, <2>11 DEF ReadRuntime, CacheFits
      <3>2. CacheFits' /\ rtCache'.age = rtCache.age + 1
        BY <2>2, <3>1, ProjectedFits
      <3>3. RtDraftFits'
        BY <2>2, <2>11, <3>1, <3>2 DEF ReadRuntime, RtDraftFits
      <3>. QED
        BY <2>2, <2>11, <3>2, <3>3 DEF ReadRuntime, RtTyped, RtSaveFits
    <2>12. CASE LeaveRuntime
      <3>1. RtDraftFits'
        BY <2>12 DEF LeaveRuntime, RtDraftFits, Untouched
      <3>2. rtSave' = IF rtSave = None THEN None ELSE [rtSave EXCEPT !.ours = FALSE]
        BY <2>12 DEF LeaveRuntime
      <3>3. RtSaveFits'
        BY <2>1, <2>2, <3>2 DEF RtSaveFits, IsSave
      <3>. QED
        BY <2>2, <2>12, <3>1, <3>3 DEF LeaveRuntime, RtTyped, CacheFits
    <2>13. CASE OthersSave
      <3>1. StoredFits(rtStored')
        <4>1. CASE \E orders \in EditedOrders(rtStored.orders) : rtStored' = [rtStored EXCEPT !.orders = orders]
          <5>1. PICK orders \in EditedOrders(rtStored.orders) : rtStored' = [rtStored EXCEPT !.orders = orders]
            BY <4>1
          <5>2. OrdersFit(rtStored.orders)
            BY <2>2 DEF StoredFits, SettingsStored, OrdersFit
          <5>3. OrdersFit(orders)
            BY <5>2, EditsAreOrders
          <5>. QED
            BY <2>2, <5>1, <5>3 DEF StoredFits, SettingsStored, OrdersFit
        <4>2. CASE \E pool \in SUBSET Keys \ {rtStored.pool} : rtStored' = [rtStored EXCEPT !.pool = pool]
          BY <2>2, <4>2 DEF StoredFits, SettingsStored
        <4>. QED
          BY <2>13, <4>1, <4>2 DEF OthersSave
      <3>. QED
        BY <2>2, <2>13, <3>1 DEF OthersSave, RtTyped, CacheFits, RtDraftFits, RtSaveFits
    <2>14. CASE ReturnRuntime \/ UNCHANGED rtVars
      BY <2>2, <2>14 DEF ReturnRuntime, rtVars, RtTyped, CacheFits, RtDraftFits, RtSaveFits
    <2>. QED
      BY <2>3, <2>4, <2>5, <2>6, <2>7, <2>8, <2>9, <2>10, <2>11, <2>12, <2>13, <2>14 DEF RtNext
  <1>3. RtTyped => RtTypeOK
    BY DEF RtTyped, RtTypeOK, StoredFits, CacheFits, RtDraftFits, RtSaveFits, OrdersFit, ShownOrders
  <1>. QED
    BY <1>1, <1>2, <1>3, RuntimeStays, PTL DEF RtSpec

----------------------------------------------------------------------------
\* The login page

\* What is under way and shown, piece by piece
LgSubmissions ==
    /\ lgError \in Submissions \union {None} /\ lgSent \in Submissions \union {None}
    /\ lgOrphan \in Submissions \union {None}
    /\ lgSent # None => lgError = None /\ ~lgDone
    /\ lgDone => lgError = None
LgNeedsFit == lgNeeds \in [bootstrap : BOOLEAN, state : {"unread", "due", "read"}]
LgServerFits ==
    /\ lgServer \in [bootstrap : BOOLEAN, account : BOOLEAN]
    /\ lgServer.bootstrap => ~lgServer.account

\* The recovery is complete only while nobody is signed in, and the session is
\* restored only on the page /login.
LgReader ==
    /\ lgPage \in LoginUrls \union Pages
    /\ lgSignedIn \in BOOLEAN /\ lgLoading \in BOOLEAN
    /\ lgSignedIn /\ OnLogin => lgPage.recover
    /\ lgSignedIn \/ ~OnLogin => ~lgLoading /\ ~lgDone

LgInv ==
    /\ LgReader /\ LgSubmissions /\ LgNeedsFit /\ LgServerFits
    /\ lgWarning \in BOOLEAN /\ lgMode \in {"login", "register"} /\ lgDone \in BOOLEAN
    /\ lgSpent \in 0..MaxLoginSteps

\* The URLs of the page, and where they lead
LEMMA Ways ==
  ASSUME NEW url \in LoginUrls
  PROVE  /\ url.recover \in BOOLEAN /\ ReturnPath(url) \in Pages /\ ReturnPath(url) \notin LoginUrls
         /\ \A page \in Pages \union {None} : ReturnUrl(page) \in LoginUrls /\ ~ReturnUrl(page).recover
  BY LoginConstants, PagesApart DEF LoginUrls, ReturnPath, ReturnUrl

\* A new reading of what the forms need keeps its shape.
LEMMA NeedsStay ==
  ASSUME LgNeedsFit, NEW url \in LoginUrls, NEW loading \in BOOLEAN, NEW signedIn \in BOOLEAN
  PROVE  /\ Needs(url, loading, signedIn) \in [bootstrap : BOOLEAN, state : {"unread", "due", "read"}]
         /\ \A state \in {"unread", "due"} :
               [Unread EXCEPT !.state = state] \in [bootstrap : BOOLEAN, state : {"unread", "due", "read"}]
  BY DEF LgNeedsFit, Needs, Unread

\* A mount shows and awaits nothing.
LEMMA MountedFits ==
  ASSUME LgInv, NEW url \in LoginUrls, NEW loading, NEW signedIn, Mounted(url, loading, signedIn)
  PROVE  /\ LgSubmissions' /\ LgNeedsFit' /\ lgMode' \in {"login", "register"}
         /\ lgDone' = FALSE
  <1>1. LgSubmissions' /\ lgMode' \in {"login", "register"} /\ lgDone' = FALSE
    BY DEF Mounted, LgInv, LgSubmissions
  <1>2. lgNeeds' = [Unread EXCEPT !.state = "unread"] \/ lgNeeds' = [Unread EXCEPT !.state = "due"]
    BY DEF Mounted
  <1>. QED
    BY <1>1, <1>2 DEF LgNeedsFit, Unread

\* The reader changes, here or elsewhere.
LEMMA TurnedFits ==
  ASSUME LgInv, OnLogin, NEW signedIn \in BOOLEAN, Turned(signedIn, lgPage),
         UNCHANGED <<lgWarning, lgServer>>, lgSpent' \in 0..MaxLoginSteps
  PROVE  LgInv'
  <1>1. /\ lgPage \in LoginUrls /\ lgPage.recover \in BOOLEAN
        /\ ReturnPath(lgPage) \in Pages /\ ReturnPath(lgPage) \notin LoginUrls
    BY Ways DEF OnLogin
  <1>2. /\ lgSignedIn' = signedIn /\ lgLoading' = FALSE
        /\ lgPage' = IF signedIn /\ ~lgPage.recover THEN ReturnPath(lgPage) ELSE lgPage
    BY DEF Turned
  <1>3. /\ LgSubmissions' /\ LgNeedsFit' /\ lgMode' \in {"login", "register"} /\ lgDone' \in BOOLEAN
        /\ signedIn => ~lgDone'
    <2>1. CASE signedIn = lgSignedIn
      <3>1. lgNeeds' = Needs(lgPage, FALSE, signedIn) /\ UNCHANGED <<lgMode, lgError, lgDone, lgSent, lgOrphan>>
        BY <2>1 DEF Turned
      <3>2. LgNeedsFit'
        BY <1>1, <3>1, NeedsStay DEF LgInv, LgNeedsFit
      <3>. QED
        BY <2>1, <3>1, <3>2 DEF LgInv, LgReader, LgSubmissions
    <2>2. CASE signedIn # lgSignedIn
      <3>1. Mounted(lgPage, FALSE, signedIn)
        BY <2>2 DEF Turned
      <3>. QED
        BY <1>1, <3>1, MountedFits
    <2>. QED
      BY <2>1, <2>2
  <1>4. LgReader'
    BY <1>1, <1>2, <1>3 DEF LgReader, OnLogin
  <1>. QED
    BY <1>3, <1>4 DEF LgInv, LgServerFits

\* A login goes through.
LEMMA SignsInFits ==
  ASSUME LgInv, NEW sent \in Submissions, SignsIn(sent), UNCHANGED <<lgServer, lgSpent>>
  PROVE  LgInv'
  <1>1. sent.next \in Pages /\ sent.next \notin LoginUrls
    BY PagesApart DEF Submissions
  <1>2. lgSignedIn' = TRUE /\ lgLoading' = FALSE /\ lgPage' = sent.next /\ lgWarning' = lgWarning
    BY DEF SignsIn
  <1>3. /\ LgSubmissions' /\ LgNeedsFit' /\ lgMode' \in {"login", "register"} /\ ~lgDone' /\ lgDone' \in BOOLEAN
    <2>1. CASE lgSignedIn
      BY <2>1 DEF SignsIn, LgInv, LgReader, LgSubmissions, LgNeedsFit
    <2>2. CASE ~lgSignedIn
      <3>1. /\ lgMode' = "login" /\ lgError' = None /\ lgDone' = FALSE /\ lgNeeds' = Unread
            /\ lgSent' = None /\ lgOrphan' \in {None, lgSent}
        BY <2>2 DEF SignsIn
      <3>2. LgNeedsFit'
        BY <3>1 DEF LgNeedsFit, Unread
      <3>. QED
        BY <3>1, <3>2 DEF LgInv, LgSubmissions
    <2>. QED
      BY <2>1, <2>2
  <1>4. LgReader'
    BY <1>1, <1>2, <1>3 DEF LgReader, OnLogin
  <1>. QED
    BY <1>2, <1>3, <1>4 DEF LgInv, LgServerFits

\* All sessions were revoked, or nobody knows.
LEMMA RevokedFits ==
  ASSUME LgInv, OnLogin, lgSent # None, NEW confirmed \in BOOLEAN, Revoked(confirmed),
         UNCHANGED lgServer, lgSpent' \in 0..MaxLoginSteps
  PROVE  LgInv'
  <1>1. lgSignedIn' = FALSE /\ lgLoading' = FALSE /\ lgPage' = lgPage /\ lgWarning' = ~confirmed
    BY DEF Revoked
  <1>2. LgSubmissions' /\ LgNeedsFit' /\ lgMode' \in {"login", "register"} /\ lgDone' \in BOOLEAN
    <2>1. CASE lgSignedIn
      <3>1. lgNeeds' = [Unread EXCEPT !.state = "unread"] \/ lgNeeds' = [Unread EXCEPT !.state = "due"]
        BY <2>1 DEF Revoked
      <3>2. LgNeedsFit'
        BY <3>1 DEF LgNeedsFit, Unread
      <3>. QED
        BY <2>1, <3>2 DEF Revoked, LgInv, LgSubmissions
    <2>2. CASE ~lgSignedIn
      BY <2>2 DEF Revoked, LgInv, LgSubmissions, LgNeedsFit
    <2>. QED
      BY <2>1, <2>2
  <1>3. LgReader'
    BY <1>1 DEF LgInv, LgReader, OnLogin
  <1>. QED
    BY <1>1, <1>2, <1>3 DEF LgInv, LgServerFits

LEMMA LoginTyped == LgSpec => []LgTypeOK
  <1>1. LgInit => LgInv
    <2>. SUFFICES ASSUME LgInit PROVE LgInv
      OBVIOUS
    <2>1. LgReader
      BY DEF LgInit, LgReader, OnLogin
    <2>2. LgSubmissions /\ LgServerFits /\ lgSpent \in 0..MaxLoginSteps
      BY LoginConstants DEF LgInit, LgSubmissions, LgServerFits
    <2>3. LgNeedsFit
      BY DEF LgInit, LgNeedsFit, Unread
    <2>. QED
      BY <2>1, <2>2, <2>3 DEF LgInit, LgInv
  <1>2. LgInv /\ [LgNext]_lgVars => LgInv'
    <2>. SUFFICES ASSUME LgInv, [LgNext]_lgVars PROVE LgInv'
      OBVIOUS
    <2>1. LgReader /\ LgSubmissions /\ LgNeedsFit /\ LgServerFits /\ lgSpent \in 0..MaxLoginSteps
      BY DEF LgInv
    <2>2. LgStep => lgSpent' \in 0..MaxLoginSteps
      BY <2>1, LoginConstants DEF LgStep
    <2>3. CASE Restore
      <3>1. PICK signedIn \in BOOLEAN : Turned(signedIn, lgPage)
        BY <2>3 DEF Restore
      <3>2. OnLogin /\ ~lgSignedIn /\ UNCHANGED <<lgWarning, lgServer, lgSpent>>
        BY <2>1, <2>3 DEF Restore, LgReader
      <3>. QED
        BY <2>1, <3>1, <3>2, TurnedFits
    <2>4. CASE ReadNeeds
      <3>1. LgNeedsFit'
        BY <2>1, <2>4 DEF ReadNeeds, LgNeedsFit, LgServerFits
      <3>. QED
        BY <2>4, <3>1 DEF ReadNeeds, LgInv, LgReader, LgSubmissions, LgServerFits, OnLogin
    <2>5. CASE SwitchMode
      BY <2>2, <2>5 DEF SwitchMode, LgInv, LgReader, LgSubmissions, LgServerFits, LgNeedsFit, OnLogin
    <2>6. CASE SubmitForm
      <3>1. lgPage \in LoginUrls
        BY <2>6 DEF SubmitForm, FormShows, FormsShow, OnLogin
      <3>2. ReturnPath(lgPage) \in Pages
        BY <3>1, Ways
      <3>3. lgSent' \in Submissions
        BY <2>6, <3>2 DEF SubmitForm, Submissions, LgInv
      <3>4. LgSubmissions'
        BY <2>1, <2>6, <3>3 DEF SubmitForm, LgSubmissions
      <3>. QED
        BY <2>1, <2>2, <2>6, <3>4 DEF SubmitForm, LgInv, LgReader, LgServerFits, LgNeedsFit, OnLogin
    <2>7. CASE RefuseSubmit
      <3>1. CASE Revoked(FALSE)
        BY <2>2, <2>7, <3>1, RevokedFits DEF RefuseSubmit
      <3>2. CASE /\ lgError' = lgSent /\ lgSent' = None
                 /\ UNCHANGED <<lgPage, lgSignedIn, lgLoading, lgWarning, lgMode, lgDone, lgOrphan, lgNeeds>>
        BY <2>2, <2>7, <3>2 DEF RefuseSubmit, LgInv, LgReader, LgSubmissions, LgServerFits, LgNeedsFit, OnLogin
      <3>. QED
        BY <2>7, <3>1, <3>2 DEF RefuseSubmit
    <2>8. CASE GoOn
      <3>1. lgSent \in Submissions /\ lgSent # None /\ lgSent' = [lgSent EXCEPT !.stage = "second"]
        BY <2>1, <2>8 DEF GoOn, LgSubmissions
      <3>2. lgSent' \in Submissions
        BY <3>1 DEF Submissions
      <3>3. LgSubmissions'
        BY <2>1, <2>8, <3>1, <3>2 DEF GoOn, LgSubmissions
      <3>4. LgServerFits'
        BY <2>1, <2>8 DEF GoOn, LgServerFits
      <3>. QED
        BY <2>1, <2>8, <3>3, <3>4 DEF GoOn, LgInv, LgReader, LgNeedsFit, OnLogin
    <2>9. CASE CompleteSubmit
      <3>1. lgSent \in Submissions /\ lgSent # None /\ OnLogin /\ UNCHANGED <<lgServer, lgSpent>>
        BY <2>1, <2>9 DEF CompleteSubmit, LgSubmissions
      <3>2. Revoked(TRUE) \/ SignsIn(lgSent)
        BY <2>9 DEF CompleteSubmit
      <3>. QED
        BY <2>1, <3>1, <3>2, RevokedFits, SignsInFits
    <2>10. CASE CompleteOrphan
      <3>1. lgOrphan \in Submissions /\ UNCHANGED <<lgServer, lgSpent>>
        BY <2>1, <2>10 DEF CompleteOrphan, LgSubmissions
      <3>2. CASE OnLogin
        BY <2>10, <3>1, <3>2, SignsInFits DEF CompleteOrphan
      <3>3. CASE ~OnLogin
        <4>1. /\ lgOrphan' = None /\ lgPage' = lgOrphan.next /\ lgSignedIn' = TRUE
              /\ UNCHANGED <<lgLoading, lgWarning, lgMode, lgError, lgDone, lgSent, lgNeeds>>
          BY <2>10, <3>3 DEF CompleteOrphan
        <4>2. lgOrphan.next \in Pages /\ lgOrphan.next \notin LoginUrls
          BY <3>1, PagesApart DEF Submissions
        <4>3. LgReader'
          BY <2>1, <3>3, <4>1, <4>2 DEF LgReader, OnLogin
        <4>. QED
          BY <2>1, <3>1, <4>1, <4>3 DEF LgInv, LgSubmissions, LgServerFits, LgNeedsFit
      <3>. QED
        BY <3>2, <3>3
    <2>11. CASE ForgetOrphan
      BY <2>11 DEF ForgetOrphan, LgInv, LgReader, LgSubmissions, LgServerFits, LgNeedsFit, OnLogin
    <2>12. CASE FollowWarning \/ ReturnToLogin
      <3>1. PICK url \in LoginUrls : Turns(url) /\ (~lgSignedIn \/ url.recover)
        <4>1. [recover |-> TRUE, next |-> None] \in LoginUrls /\ ReturnUrl(None) \in LoginUrls
          BY DEF LoginUrls, ReturnUrl
        <4>2. lgDone => ~lgSignedIn
          BY <2>1 DEF LgReader
        <4>. QED
          BY <2>12, <4>1, <4>2 DEF FollowWarning, ReturnToLogin
      <3>2. /\ lgPage' = url /\ lgNeeds' = Needs(url, lgLoading, lgSignedIn)
            /\ UNCHANGED <<lgSignedIn, lgLoading, lgWarning, lgMode, lgError, lgDone, lgSent, lgOrphan, lgServer>>
        BY <3>1 DEF Turns
      <3>3. LgNeedsFit'
        BY <2>1, <3>2, NeedsStay DEF LgReader, LgNeedsFit
      <3>4. LgReader'
        BY <2>1, <3>1, <3>2 DEF LgReader, OnLogin
      <3>5. lgSpent' \in 0..MaxLoginSteps
        BY <2>2, <2>12 DEF FollowWarning, ReturnToLogin
      <3>. QED
        BY <3>2, <3>3, <3>4, <3>5 DEF LgInv, LgSubmissions, LgServerFits
    <2>13. CASE ChangeSessionElsewhere
      <3>1. Turned(~lgSignedIn, lgPage) /\ OnLogin /\ UNCHANGED <<lgWarning, lgServer>>
        BY <2>13 DEF ChangeSessionElsewhere
      <3>2. (~lgSignedIn) \in BOOLEAN
        OBVIOUS
      <3>3. lgSpent' \in 0..MaxLoginSteps
        BY <2>2, <2>13 DEF ChangeSessionElsewhere
      <3>. QED
        BY <3>1, <3>2, <3>3, TurnedFits
    <2>14. CASE LoseSession
      <3>1. lgPage \in Pages
        BY <2>1, <2>14 DEF LoseSession, LgReader, OnLogin
      <3>2. ReturnUrl(lgPage) \in LoginUrls
        BY <3>1 DEF ReturnUrl, LoginUrls
      <3>3. Mounted(ReturnUrl(lgPage), FALSE, FALSE)
        BY <2>14 DEF LoseSession
      <3>4. LgSubmissions' /\ LgNeedsFit' /\ lgMode' \in {"login", "register"} /\ lgDone' = FALSE
        BY <3>2, <3>3, MountedFits
      <3>5. LgReader'
        BY <2>1, <2>14, <3>2, <3>4 DEF LoseSession, LgReader, OnLogin
      <3>. QED
        BY <2>1, <2>2, <2>14, <3>4, <3>5 DEF LoseSession, LgInv, LgServerFits
    <2>15. CASE Bootstrap
      <3>1. LgServerFits'
        BY <2>1, <2>15 DEF Bootstrap, LgServerFits
      <3>. QED
        BY <2>1, <2>2, <2>15, <3>1 DEF Bootstrap, lgForm, LgInv, LgReader, LgSubmissions, LgNeedsFit, OnLogin
    <2>16. CASE UNCHANGED lgVars
      BY <2>16 DEF lgVars, lgForm, LgInv, LgReader, LgSubmissions, LgServerFits, LgNeedsFit, OnLogin
    <2>. QED
      BY <2>3, <2>4, <2>5, <2>6, <2>7, <2>8, <2>9, <2>10, <2>11, <2>12, <2>13, <2>14, <2>15, <2>16 DEF LgNext
  <1>3. LgInv => LgTypeOK
    BY DEF LgInv, LgReader, LgSubmissions, LgServerFits, LgNeedsFit, LgTypeOK
  <1>. QED
    BY <1>1, <1>2, <1>3, PTL DEF LgSpec

LEMMA TasksTyped == TkSpec => []TkTypeOK
  <1>1. TasksInv => TkTypeOK
    BY DEF TasksInv, TasksFit, TkTypeOK, TaskForms, TaskFields, MaybeTask
  <1>. QED
    BY <1>1, TasksStay, PTL

\* Whichever part moves keeps its shapes.  Those of the runtime settings name no
\* provider twice, however orders are moved, cut, inherited and disabled; those
\* of the login page show an error or a completed recovery only with nothing
\* under way, and its forms to a reader only for a recovery
\* (provider-configuration-editor.tsx:299, login-client.tsx:268).
THEOREM CentreTyped == CentreSpec => []CentreTypeOK
  <1>1. CentreInit => SetInit /\ CardInit /\ RtInit /\ CnInit /\ TkInit /\ LgInit /\ CfInit /\ AiInit
    BY DEF CentreInit
  <1>2. [CentreNext]_centreVars =>
           /\ [SetNext]_setVars /\ [CardNext]_cdVars /\ [RtNext]_rtVars /\ [CnNext]_cnVars
           /\ [TkNext]_tkVars /\ [LgNext]_lgVars /\ [CfNext]_cfVars /\ [AiNext]_aiVars
    BY DEF CentreNext, centreVars, OnSettings, OnCards, OnRuntime, OnCnki, OnTasks, OnLoginPage, OnCfp, OnAiFields
  <1>3. CentreSpec => SetSpec /\ CardSpec /\ RtSpec /\ CnSpec /\ TkSpec /\ LgSpec /\ CfSpec /\ AiSpec
    BY <1>1, <1>2, PTL DEF CentreSpec, SetSpec, CardSpec, RtSpec, CnSpec, TkSpec, LgSpec, CfSpec, AiSpec
  <1>4. CardsInv /\ CnkiInv => CardTypeOK /\ CnTypeOK
    BY DEF CardsInv, CnkiInv
  <1>5. []SetTypeOK /\ []CardTypeOK /\ []RtTypeOK /\ []CnTypeOK /\ []TkTypeOK /\ []LgTypeOK
            /\ []CfTypeOK /\ []AiTypeOK => []CentreTypeOK
    <2>1. SetTypeOK /\ CardTypeOK /\ RtTypeOK /\ CnTypeOK /\ TkTypeOK /\ LgTypeOK /\ CfTypeOK /\ AiTypeOK
            => CentreTypeOK
      BY DEF CentreTypeOK
    <2>. QED
      BY <2>1, PTL
  <1>. QED
    BY <1>3, <1>4, <1>5, SettingsTyped, CardsStay, RuntimeTyped, CnkiInvariant, TasksTyped, LoginTyped,
       NoticesOfOneReading, SettingsCentreAgrees, PTL

=============================================================================
