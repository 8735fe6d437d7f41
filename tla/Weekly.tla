-------------------------------- MODULE Weekly --------------------------------
(***************************************************************************)
(* The weekly updates: a summary of the week that ends when it is read,    *)
(* with the journals that have news in each database, and the articles of  *)
(* the selected journal, read page by page for that very week.             *)
(*                                                                         *)
(* A page is what it was asked for: the articles themselves are left out.  *)
(* The week is the number of its reading.                                  *)
(***************************************************************************)
EXTENDS Naturals, SequencesExt, Page

CONSTANTS
    WeeklyOrder,     \* the databases in the order they are listed
    WeeklyJournals,  \* the journals of every database
    WeeklyWords,     \* what the reader searches for
    MaxWeeks,        \* bound on the readings of the summary
    MaxWeeklyPages,  \* bound on the pages of a journal
    MaxWeeklySteps   \* bound on what is published, grows old and fails, and on
                     \* what the reader does but for paging, in a behaviour

WeeklyDbs == ToSet(WeeklyOrder)

ASSUME WeeklyConstants ==
    /\ WeeklyOrder \in Seq(WeeklyDbs) \ {<<>>} /\ None \notin WeeklyDbs \union WeeklyJournals \union WeeklyWords
    /\ {MaxWeeks, MaxWeeklyPages} \subseteq Nat \ {0} /\ MaxWeeklySteps \in Nat

VARIABLES
    wkNews,      \* the databases with news, the latest first
    wkOf,        \* of each database, its journals with news, most news first
    wkWeeks,     \* how often the summary was read
    wkSummary,   \* the summary: its week and the news in it, or None
    wkAsked,     \* the summary is asked for
    wkFailed,    \* it failed last
    wkListed,    \* the databases were read
    wkUrl,       \* db, journal and weekly_q
    wkQueries,   \* of each key, its pages, whether more follow, its failure and
                 \* the request under way
    wkVisible,   \* visiblePageState: the list and its revealed pages
    wkSpent

wkServer == <<wkNews, wkOf>>
wkSummaryVars == <<wkWeeks, wkSummary, wkAsked, wkFailed>>
wkVars == <<wkServer, wkSummaryVars, wkListed, wkUrl, wkQueries, wkVisible, wkSpent>>

WeeklyQueries == WeeklyWords \union {None}
WeeklyKeys == [db : WeeklyDbs, journal : WeeklyJournals, q : WeeklyQueries, week : 1..MaxWeeks]
WeeklyUrls == [db : WeeklyDbs \union {None}, journal : WeeklyJournals \union {None}, q : WeeklyQueries]
WeeklyStep == wkSpent < MaxWeeklySteps /\ wkSpent' = wkSpent + 1

----------------------------------------------------------------------------
\* What is selected

\* availableDatabases: the databases read, then those only the summary names.
AvailableDbs(summary, listed) ==
    LET news == IF summary = None THEN <<>> ELSE summary.news
    IN  IF listed THEN WeeklyOrder ELSE news

\* selectDefaultDatabase
EffectiveDb(summary, listed, url) ==
    LET available == AvailableDbs(summary, listed)
        preferred == IF summary = None \/ summary.news = <<>> THEN None ELSE Head(summary.news)
    IN  IF available = <<>> THEN None
        ELSE IF url.db \in ToSet(available) THEN url.db
        ELSE IF preferred \in ToSet(available) THEN preferred ELSE Head(available)

JournalsIn(summary, d) == IF summary = None \/ d = None THEN <<>> ELSE summary.of[d]

\* selectDefaultJournal
EffectiveJournal(summary, listed, url) ==
    LET journals == JournalsIn(summary, EffectiveDb(summary, listed, url))
    IN  IF journals = <<>> THEN None
        ELSE IF url.journal \in ToSet(journals) THEN url.journal ELSE Head(journals)

\* Seeded fault: the key leaves out the week, the first one read stands.
KeyOfAnyWeek(summary, listed, url) ==
    IF EffectiveJournal(summary, listed, url) = None THEN None
    ELSE [db |-> EffectiveDb(summary, listed, url), journal |-> EffectiveJournal(summary, listed, url),
          q |-> url.q, week |-> 1]

\* getWeeklyArticleQueryKey, None as long as the query is disabled
WeeklyKey(summary, listed, url) ==
    IF EffectiveJournal(summary, listed, url) = None THEN None
    ELSE [db |-> EffectiveDb(summary, listed, url), journal |-> EffectiveJournal(summary, listed, url),
          q |-> url.q, week |-> summary.week]

ShownKey == WeeklyKey(wkSummary, wkListed, wkUrl)
ShownJournal == EffectiveJournal(wkSummary, wkListed, wkUrl)

\* getWeeklyState: a failure hides a summary that is there.
WeeklyState == IF wkFailed THEN "error" ELSE IF wkSummary = None THEN "loading" ELSE "ready"

\* getWeeklyArticleState
ArticleState ==
    IF ShownJournal = None THEN "no-journal"
    ELSE IF wkQueries[ShownKey].failed THEN "error"
    ELSE IF wkQueries[ShownKey].pages = <<>> THEN "loading" ELSE "results"

\* renderWeeklyArticlePanel, under the state of the summary
ArticlePanel == IF WeeklyState = "ready" THEN ArticleState ELSE WeeklyState

\* useVisiblePageList: another list begins with one page.
RevealedPages == IF wkVisible.list = ShownKey THEN wkVisible.count ELSE 1

\* flattenWeeklyArticlePages
WeeklyRows ==
    IF ArticlePanel # "results" THEN <<>>
    ELSE LET pages == wkQueries[ShownKey].pages
         IN  SubSeq(pages, 1, IF RevealedPages < Len(pages) THEN RevealedPages ELSE Len(pages))

----------------------------------------------------------------------------
\* The requests

NoPages == [pages |-> <<>>, more |-> FALSE, failed |-> FALSE, fetch |-> None]

\* The request goes out for what the page shows now.
AskPages(query, kind, summary, listed, url) ==
    [query EXCEPT !.fetch = [kind |-> kind, week |-> summary.week, q |-> url.q,
                             db |-> EffectiveDb(summary, listed, url),
                             journal |-> EffectiveJournal(summary, listed, url)],
                  !.failed = @ /\ query.pages # <<>>]

\* The page turns to another list: the request of the one it leaves is
\* given up, and the other is read unless it was.
Turns(summary, listed, url) ==
    LET key == WeeklyKey(summary, listed, url)
        left == IF ShownKey = None \/ ShownKey = key THEN wkQueries ELSE [wkQueries EXCEPT ![ShownKey].fetch = None]
    IN  wkQueries' = IF key # None /\ key # ShownKey /\ (left[key].pages = <<>> \/ left[key].failed)
                     THEN [left EXCEPT ![key] = AskPages(@, "all", summary, listed, url)] ELSE left

\* getWeeklyUpdateArticles: the next page after those that are there, or all
\* of them again.
AnswerWeekly ==
    \E key \in WeeklyKeys, more \in BOOLEAN :
        LET query == wkQueries[key]
            asked == [db |-> query.fetch.db, journal |-> query.fetch.journal, q |-> query.fetch.q, week |-> query.fetch.week]
            pages == IF query.fetch.kind = "next" THEN Append(query.pages, asked)
                     ELSE [i \in 1..(IF Len(query.pages) > 1 /\ more THEN Len(query.pages) ELSE 1) |-> asked]
        IN  /\ query.fetch # None /\ (more => Len(pages) < MaxWeeklyPages)
            /\ wkQueries' = [wkQueries EXCEPT ![key] = [pages |-> pages, more |-> more, failed |-> FALSE, fetch |-> None]]
            /\ UNCHANGED <<wkServer, wkSummaryVars, wkListed, wkUrl, wkVisible, wkSpent>>

FailWeekly ==
    /\ WeeklyStep
    /\ \E key \in WeeklyKeys : wkQueries[key].fetch # None /\ wkQueries' = [wkQueries EXCEPT ![key].failed = TRUE, ![key].fetch = None]
    /\ UNCHANGED <<wkServer, wkSummaryVars, wkListed, wkUrl, wkVisible>>

\* onFetchNextPage; a refetch is dropped for it.
NextWeekly ==
    /\ wkQueries[ShownKey].more
    /\ ~(wkQueries[ShownKey].fetch # None /\ wkQueries[ShownKey].fetch.kind = "next")
    /\ wkQueries' = [wkQueries EXCEPT ![ShownKey] = AskPages(@, "next", wkSummary, wkListed, wkUrl)]

\* The reader comes near the end of the rows.
NearEnd ==
    /\ WeeklyRows # <<>> /\ Len(wkQueries[ShownKey].pages) <= RevealedPages
    /\ NextWeekly
    /\ UNCHANGED <<wkServer, wkSummaryVars, wkListed, wkUrl, wkVisible, wkSpent>>

\* The reader comes to the end: a page that is there is revealed, else the
\* next is asked for.
ReachEnd ==
    /\ WeeklyRows # <<>>
    /\ IF RevealedPages < Len(wkQueries[ShownKey].pages)
       THEN wkVisible' = [list |-> ShownKey, count |-> RevealedPages + 1] /\ UNCHANGED wkQueries
       ELSE NextWeekly /\ UNCHANGED wkVisible
    /\ UNCHANGED <<wkServer, wkSummaryVars, wkListed, wkUrl, wkSpent>>

----------------------------------------------------------------------------
\* The summary and the databases

\* The summary is read for the week that ends now.
AnswerSummary ==
    /\ wkAsked /\ wkWeeks < MaxWeeks
    /\ wkWeeks' = wkWeeks + 1
    /\ wkSummary' = [week |-> wkWeeks', news |-> wkNews, of |-> wkOf]
    /\ wkAsked' = FALSE /\ wkFailed' = FALSE
    /\ Turns(wkSummary', wkListed, wkUrl)
    /\ UNCHANGED <<wkServer, wkListed, wkUrl, wkVisible, wkSpent>>

FailSummary ==
    /\ WeeklyStep
    /\ wkAsked /\ wkAsked' = FALSE /\ wkFailed' = TRUE
    /\ UNCHANGED <<wkServer, wkWeeks, wkSummary, wkListed, wkUrl, wkQueries, wkVisible>>

\* The window is focused when the articles, or both, are old or failed.
FocusWeekly ==
    /\ WeeklyStep
    /\ wkAsked' \in {wkAsked, TRUE} /\ wkFailed' = (wkFailed /\ (wkSummary # None \/ ~wkAsked'))
    /\ IF ShownKey # None /\ wkQueries[ShownKey].fetch = None
       THEN wkQueries' = [wkQueries EXCEPT ![ShownKey] = AskPages(@, "all", wkSummary, wkListed, wkUrl)]
       ELSE UNCHANGED wkQueries
    /\ UNCHANGED <<wkServer, wkWeeks, wkSummary, wkListed, wkUrl, wkVisible>>

\* The databases are read; a failure leaves those of the summary.
ListDatabases ==
    /\ ~wkListed /\ wkListed' = TRUE
    /\ Turns(wkSummary, TRUE, wkUrl)
    /\ UNCHANGED <<wkServer, wkSummaryVars, wkUrl, wkVisible, wkSpent>>

\* A list of different entries without one of them
Without(list, e) ==
    IF e \in ToSet(list) THEN RemoveAt(list, CHOOSE i \in DOMAIN list : list[i] = e) ELSE list

\* An index run publishes articles of a journal, or they leave the week.
Publish(d, j) ==
    /\ WeeklyStep
    /\ wkNews' = <<d>> \o Without(wkNews, d)
    /\ wkOf' = [wkOf EXCEPT ![d] = <<j>> \o Without(@, j)]
    /\ UNCHANGED <<wkSummaryVars, wkListed, wkUrl, wkQueries, wkVisible>>

Leave(d, j) ==
    /\ WeeklyStep /\ j \in ToSet(wkOf[d])
    /\ wkOf' = [wkOf EXCEPT ![d] = Without(@, j)]
    /\ wkNews' = IF wkOf'[d] = <<>> THEN Without(wkNews, d) ELSE wkNews
    /\ UNCHANGED <<wkSummaryVars, wkListed, wkUrl, wkQueries, wkVisible>>

----------------------------------------------------------------------------
\* The reader

\* The search field, a link, Back and Forward too.
VisitWeekly(url) ==
    /\ WeeklyStep /\ url # wkUrl
    /\ wkUrl' = url
    /\ Turns(wkSummary, wkListed, url)
    /\ UNCHANGED <<wkServer, wkSummaryVars, wkListed, wkVisible>>

\* handleDatabaseChange
ChooseWeeklyDatabase(d) ==
    /\ WeeklyState # "loading" /\ d \in ToSet(AvailableDbs(wkSummary, wkListed))
    /\ VisitWeekly([wkUrl EXCEPT !.db = d, !.journal = None])

\* WeeklyJournalFacet
ChooseWeeklyJournal(j) ==
    /\ WeeklyState # "loading" /\ j \in ToSet(JournalsIn(wkSummary, EffectiveDb(wkSummary, wkListed, wkUrl)))
    /\ VisitWeekly([wkUrl EXCEPT !.journal = j])

WkInit ==
    /\ wkNews = <<>> /\ wkOf = [d \in WeeklyDbs |-> <<>>]
    /\ wkWeeks = 0 /\ wkSummary = None /\ wkAsked = TRUE /\ wkFailed = FALSE /\ wkListed = FALSE
    /\ wkUrl \in WeeklyUrls
    /\ wkQueries = [key \in WeeklyKeys |-> NoPages]
    /\ wkVisible = [list |-> None, count |-> 1] /\ wkSpent = 0

WkNext ==
    \/ AnswerWeekly \/ FailWeekly \/ NearEnd \/ ReachEnd
    \/ AnswerSummary \/ FailSummary \/ FocusWeekly \/ ListDatabases
    \/ \E d \in WeeklyDbs, j \in WeeklyJournals : Publish(d, j) \/ Leave(d, j)
    \/ \E d \in WeeklyDbs : ChooseWeeklyDatabase(d)
    \/ \E j \in WeeklyJournals : ChooseWeeklyJournal(j)
    \/ \E url \in WeeklyUrls : VisitWeekly(url)

WkSpec == WkInit /\ [][WkNext]_wkVars

----------------------------------------------------------------------------
\* What the weekly updates promise.

\* Types: the URL and the queries hold what the code puts in them, and a list
\* never reveals more pages than it has.
WkTypeOK ==
    /\ wkUrl \in WeeklyUrls /\ wkWeeks \in 0..MaxWeeks
    /\ wkSummary # None => /\ wkSummary.week \in 1..wkWeeks
                           /\ \A d \in WeeklyDbs : d \in ToSet(wkSummary.news) <=> wkSummary.of[d] # <<>>
    /\ ShownKey \in WeeklyKeys \union {None}
    /\ \A key \in WeeklyKeys : /\ wkQueries[key].pages \in Seq(WeeklyKeys)
                               /\ Len(wkQueries[key].pages) <= MaxWeeklyPages

\* The rows on the screen were asked for the database, the journal and the
\* search on the screen, in the very week whose summary is above them, however
\* summaries, links, selections and pages of an earlier view are answered
\* (weekly-updates-view.tsx:917); and what is on the screen has news that week.
RowsFitTheirWeek ==
    /\ \A i \in DOMAIN WeeklyRows :
          WeeklyRows[i] = [db |-> EffectiveDb(wkSummary, wkListed, wkUrl), journal |-> ShownJournal,
                           q |-> wkUrl.q, week |-> wkSummary.week]
    /\ WeeklyRows # <<>> => EffectiveDb(wkSummary, wkListed, wkUrl) \in ToSet(wkSummary.news)
=============================================================================
