--------------------------------- MODULE Cfp ---------------------------------
(***************************************************************************)
(* The tracking of calls for papers: the directory of the journals of a    *)
(* database, and the notices of the selected journal, which are read page  *)
(* by page and kept for five minutes.                                      *)
(*                                                                         *)
(* The server goes on with a cursor as long as the journal's data are the  *)
(* ones the cursor was made for and the cursor is not too old; a turn is   *)
(* the time between two such breaks.  A page is the turn it was read in.   *)
(* An identity of a journal stands for its aliases too, and a search for   *)
(* the one journal it finds.                                               *)
(***************************************************************************)
EXTENDS Naturals, SequencesExt, Page

CONSTANTS
    CatalogOf,     \* of each database, in the order they are listed, its journals
    CfpOrder,      \* the databases in the order they are listed
    Unadapted,     \* the journals whose notices no source brings
    MaxPages,      \* bound on the pages of a journal
    MaxCfpSteps    \* bound on what changes, fails and grows old, and on
                   \* what the reader does but for paging, in a behaviour

CfpDatabases == ToSet(CfpOrder)
Journals == UNION {ToSet(CatalogOf[d]) : d \in CfpDatabases}

ASSUME CfpConstants ==
    /\ CfpOrder \in Seq(CfpDatabases) \ {<<>>} /\ CfpDatabases = DOMAIN CatalogOf
    /\ \A d \in CfpDatabases : CatalogOf[d] \in Seq(Journals)
    /\ None \notin CfpDatabases \union Journals \union {"other", "conflict"}
    /\ Unadapted \subseteq Journals /\ MaxPages \in Nat \ {0} /\ MaxCfpSteps \in Nat

VARIABLES
    cfCurrent,   \* the journals the server counts current notices of
    cfTurn,      \* of each journal, the turn it is
    cfNames,     \* the databases query: "none", "failed" or "read"
    cfLists,     \* of each database, the current journals as last read, or None
    cfFailed,    \* the databases whose journals query has failed last
    cfUrl,       \* cfp_db and cfp_journal
    cfClosed,    \* shouldShowClosed
    cfSearch,    \* the journal that is searched for, or None
    cfFolds,     \* the groups that are expanded
    cfQueries,   \* of each journal, with or without closed notices, its pages
    cfAged,      \* the queries that were read five minutes ago
    cfRecovery,  \* cursorRecovery: the query that was begun again last, or None
    cfIntent,    \* the query that is prefetched when the pointer stays, or None
    cfSpent

cfServer == <<cfCurrent, cfTurn>>
cfDirectory == <<cfNames, cfLists, cfFailed>>
cfPanel == <<cfSearch, cfFolds>>
cfNotices == <<cfQueries, cfAged, cfRecovery>>
cfVars == <<cfServer, cfDirectory, cfUrl, cfClosed, cfPanel, cfNotices, cfIntent, cfSpent>>

GroupIds == {"current", "inactive", "unadapted"}
NoticeKeys == [db : CfpDatabases, of : Journals, closed : BOOLEAN]
CfpStep == cfSpent < MaxCfpSteps /\ cfSpent' = cfSpent + 1

----------------------------------------------------------------------------
\* What is selected

\* getCfpDatabase, of the databases read
DatabaseOf(names, url) ==
    IF names # "read" THEN None ELSE IF url.db \in CfpDatabases THEN url.db ELSE Head(CfpOrder)

\* groupCfpJournals
GroupOf(current, j) == IF j \in Unadapted THEN "unadapted" ELSE IF j \in current THEN "current" ELSE "inactive"
Members(d, current, g) == {j \in ToSet(CatalogOf[d]) : GroupOf(current, j) = g}

\* The journal of some that is listed first, none if there is none
FirstOf(d, some) ==
    IF some = {} THEN None
    ELSE CHOOSE j \in some : \E i \in DOMAIN CatalogOf[d] :
             CatalogOf[d][i] = j /\ \A k \in 1..(i - 1) : CatalogOf[d][k] \notin some

\* getCfpCatalog: the journal of the URL, or the first of the first group
\* that has any.
CatalogPick(d, current, id) ==
    LET in(g) == Members(d, current, g)
    IN  IF id \in ToSet(CatalogOf[d]) THEN id
        ELSE FirstOf(d, IF in("current") # {} THEN in("current")
                        ELSE IF in("inactive") # {} THEN in("inactive") ELSE in("unadapted"))

\* noticeQueryKey, None as long as the query is disabled
KeyOf(names, lists, url, closed) ==
    LET d == DatabaseOf(names, url) IN
    IF d = None \/ lists[d] = None \/ CatalogPick(d, lists[d], url.journal) = None THEN None
    ELSE [db |-> d, of |-> CatalogPick(d, lists[d], url.journal), closed |-> closed]

ShownDatabase == DatabaseOf(cfNames, cfUrl)
NoticeKey == KeyOf(cfNames, cfLists, cfUrl, cfClosed)

\* renderCfpWorkspace: what the reader is shown.
DirectoryFails == cfNames = "failed" \/ ShownDatabase \in cfFailed
CfpLoading == cfNames = "none" \/ (ShownDatabase # None /\ cfLists[ShownDatabase] = None)
CfpDesk == IF CfpLoading /\ ~DirectoryFails THEN "loading" ELSE IF DirectoryFails THEN "error"
        ELSE IF NoticeKey = None THEN "none" ELSE "journal"

----------------------------------------------------------------------------
\* Notice queries

NoQuery == [pages |-> <<>>, more |-> FALSE, error |-> None, fetch |-> None]
Fetching(kind) == [kind |-> kind, got |-> <<>>]
Succeeded(query) == query.error = None /\ query.pages # <<>>

\* Without pages the first one is read, else as many as there are.
Refetched(query) == [query EXCEPT !.fetch = Fetching("all"), !.error = IF query.pages = <<>> THEN None ELSE @]

\* Seeded fault: a query that was begun again never is again.
RecoversOnce(key, query, recovery) ==
    IF query.error = "conflict" /\ recovery # key THEN [query |-> Refetched(NoQuery), recovery |-> key]
    ELSE [query |-> query, recovery |-> recovery]

\* The effect of the page: a refused cursor begins the query again, once
\* without a success in between.
Recovers(key, query, recovery) ==
    IF query.error = "conflict" /\ recovery # key THEN [query |-> Refetched(NoQuery), recovery |-> key]
    ELSE [query |-> query, recovery |-> IF Succeeded(query) THEN None ELSE recovery]

Noted(queries, key) ==
    IF key = None THEN cfQueries' = queries /\ UNCHANGED cfRecovery
    ELSE LET after == Recovers(key, queries[key], cfRecovery)
         IN  cfQueries' = [queries EXCEPT ![key] = after.query] /\ cfRecovery' = after.recovery

DueAgain(queries, key) == (queries[key].pages = <<>> \/ key \in cfAged) /\ queries[key].fetch = None

\* The page turns to another query: the request of the one it leaves is
\* cancelled, the other is read unless it is fresh or under way.
TurnsTo(key) ==
    LET left == IF NoticeKey = None \/ NoticeKey = key THEN cfQueries ELSE [cfQueries EXCEPT ![NoticeKey].fetch = None]
    IN  IF key = NoticeKey THEN UNCHANGED cfNotices
        ELSE /\ Noted(IF key # None /\ DueAgain(left, key)
                       THEN [left EXCEPT ![key] = Refetched(@)] ELSE left, key)
             /\ UNCHANGED cfAged

\* resumeCfpCursor
Resumes(made, now) == made = now

\* The server's answer to the next request of a fetch.  The first page and
\* the page after an unbroken cursor come; another cursor is refused.
NextPage(key) ==
    LET query == cfQueries[key]
        before == IF query.fetch.kind = "next" THEN query.pages ELSE query.fetch.got
        now == cfTurn[key.of]
        pages == Append(before, now)
    IN  \E more \in IF Len(pages) < MaxPages /\ key.of \notin Unadapted THEN BOOLEAN ELSE {FALSE} :
          IF before # <<>> /\ ~Resumes(Last(before), now)
          THEN Noted([cfQueries EXCEPT ![key].fetch = None, ![key].error = "conflict"], NoticeKey) /\ UNCHANGED cfAged
          ELSE IF query.fetch.kind = "all" /\ more /\ Len(pages) < Len(query.pages)
          THEN cfQueries' = [cfQueries EXCEPT ![key].fetch.got = pages] /\ UNCHANGED <<cfAged, cfRecovery>>
          ELSE /\ Noted([cfQueries EXCEPT ![key] = [NoQuery EXCEPT !.pages = pages, !.more = more]], NoticeKey)
               /\ cfAged' = cfAged \ {key}

AnswerNotices ==
    /\ \E key \in NoticeKeys : cfQueries[key].fetch # None /\ NextPage(key)
    /\ UNCHANGED <<cfServer, cfDirectory, cfUrl, cfClosed, cfPanel, cfIntent, cfSpent>>

\* A request fails otherwise, and is not tried again.
FailNotices ==
    /\ CfpStep
    /\ \E key \in NoticeKeys :
        /\ cfQueries[key].fetch # None
        /\ Noted([cfQueries EXCEPT ![key].fetch = None, ![key].error = "other"], NoticeKey)
    /\ UNCHANGED <<cfServer, cfDirectory, cfUrl, cfClosed, cfPanel, cfAged, cfIntent>>

\* The notices of the desk, hidden by an error.
NoticesShow == CfpDesk = "journal" /\ cfQueries[NoticeKey].error = None /\ NoticeKey.of \notin Unadapted
VisibleNotices == IF CfpDesk = "journal" /\ cfQueries[NoticeKey].error = None THEN cfQueries[NoticeKey].pages ELSE <<>>

\* renderCfpNotices: a refetch is dropped for the next page.
LoadMoreNotices ==
    /\ NoticesShow /\ cfQueries[NoticeKey].more
    /\ ~(cfQueries[NoticeKey].fetch # None /\ cfQueries[NoticeKey].fetch.kind = "next")
    /\ cfQueries' = [cfQueries EXCEPT ![NoticeKey].fetch = Fetching("next")]
    /\ UNCHANGED <<cfServer, cfDirectory, cfUrl, cfClosed, cfPanel, cfAged, cfRecovery, cfIntent, cfSpent>>

\* renderCfpNoticeState
RetryNotices ==
    /\ CfpDesk = "journal" /\ cfQueries[NoticeKey].error # None
    /\ Noted([cfQueries EXCEPT ![NoticeKey] = Refetched(@)], NoticeKey)
    /\ UNCHANGED <<cfServer, cfDirectory, cfUrl, cfClosed, cfPanel, cfAged, cfIntent, cfSpent>>

ShowClosed(closed) ==
    /\ CfpStep /\ NoticesShow /\ closed # cfClosed
    /\ cfClosed' = closed
    /\ TurnsTo(KeyOf(cfNames, cfLists, cfUrl, closed))
    /\ UNCHANGED <<cfServer, cfDirectory, cfUrl, cfPanel, cfIntent>>

\* The window is focused: what is old is read again.
FocusNotices ==
    /\ NoticeKey # None /\ DueAgain(cfQueries, NoticeKey)
    /\ Noted([cfQueries EXCEPT ![NoticeKey] = Refetched(@)], NoticeKey)
    /\ UNCHANGED <<cfServer, cfDirectory, cfUrl, cfClosed, cfPanel, cfAged, cfIntent, cfSpent>>

----------------------------------------------------------------------------
\* The directory

ReadDatabases ==
    /\ cfNames = "none" /\ cfNames' = "read"
    /\ TurnsTo(KeyOf("read", cfLists, cfUrl, cfClosed))
    /\ UNCHANGED <<cfServer, cfLists, cfFailed, cfUrl, cfClosed, cfPanel, cfIntent, cfSpent>>

\* The journals of the database are read, and again when they are old.
ReadList ==
    /\ ShownDatabase # None /\ (cfLists[ShownDatabase] # cfCurrent \/ ShownDatabase \in cfFailed)
    /\ cfLists' = [cfLists EXCEPT ![ShownDatabase] = cfCurrent]
    /\ cfFailed' = cfFailed \ {ShownDatabase}
    /\ TurnsTo(KeyOf(cfNames, cfLists', cfUrl, cfClosed))
    /\ UNCHANGED <<cfServer, cfNames, cfUrl, cfClosed, cfPanel, cfIntent, cfSpent>>

\* The list begins folded but for the current journals, and open to a search.
Unfolded(searching) == IF searching THEN GroupIds ELSE {"current"}

\* The failure takes the place of the list.
FailDirectory ==
    /\ CfpStep /\ ~DirectoryFails
    /\ \/ cfNames = "none" /\ cfNames' = "failed" /\ UNCHANGED cfFailed
       \/ ShownDatabase # None /\ cfFailed' = cfFailed \union {ShownDatabase} /\ UNCHANGED cfNames
    /\ cfFolds' = Unfolded(cfSearch # None)
    /\ UNCHANGED <<cfServer, cfLists, cfUrl, cfClosed, cfSearch, cfNotices, cfIntent>>

\* handleRetry: the databases are asked for again, or the journals read.
RetryDirectory ==
    \/ /\ cfNames = "failed" /\ cfNames' = "none"
       /\ UNCHANGED <<cfServer, cfLists, cfFailed, cfUrl, cfClosed, cfPanel, cfNotices, cfIntent, cfSpent>>
    \/ ShownDatabase \in cfFailed /\ ReadList

Matched(j) == cfSearch \in {None, j}
Unfolds(g) ==
    /\ g \in cfFolds
    /\ cfSearch = None \/ \E j \in Members(ShownDatabase, cfLists[ShownDatabase], g) : Matched(j)
ListShows == CfpDesk \in {"journal", "none"} /\ ShownDatabase # None /\ cfLists[ShownDatabase] # None
JournalShown(j) ==
    /\ ListShows /\ j \in ToSet(CatalogOf[ShownDatabase]) /\ Matched(j)
    /\ Unfolds(GroupOf(cfLists[ShownDatabase], j))

SearchJournals(j) ==
    /\ CfpStep /\ j # cfSearch
    /\ cfSearch' = j
    /\ cfFolds' = IF (j = None) = (cfSearch = None) THEN cfFolds ELSE Unfolded(j # None)
    /\ UNCHANGED <<cfServer, cfDirectory, cfUrl, cfClosed, cfNotices, cfIntent>>

ToggleGroup(g) ==
    /\ CfpStep /\ ListShows
    /\ cfFolds' = IF Unfolds(g) THEN cfFolds \ {g} ELSE cfFolds \union {g}
    /\ UNCHANGED <<cfServer, cfDirectory, cfUrl, cfClosed, cfSearch, cfNotices, cfIntent>>

\* handleJournalIntent: another row takes the timer over.
HoverJournal(j) ==
    /\ CfpStep /\ JournalShown(j)
    /\ cfIntent' = [db |-> ShownDatabase, of |-> j, closed |-> cfClosed]
    /\ UNCHANGED <<cfServer, cfDirectory, cfUrl, cfClosed, cfPanel, cfNotices>>

\* The pointer has stayed: what is not fresh is read, along with a request
\* that is under way.
PrefetchNotices ==
    /\ cfIntent # None /\ cfIntent' = None
    /\ LET query == cfQueries[cfIntent]
       IN  Noted(IF DueAgain(cfQueries, cfIntent) THEN [cfQueries EXCEPT ![cfIntent] = Refetched(query)] ELSE cfQueries, NoticeKey)
    /\ UNCHANGED <<cfServer, cfDirectory, cfUrl, cfClosed, cfPanel, cfAged, cfSpent>>

SelectJournal(j) ==
    /\ CfpStep /\ JournalShown(j) /\ cfUrl' = [cfUrl EXCEPT !.journal = j]
    /\ TurnsTo(KeyOf(cfNames, cfLists, cfUrl', cfClosed))
    /\ UNCHANGED <<cfServer, cfDirectory, cfClosed, cfPanel, cfIntent>>

\* Another database is shown: its list begins anew, and is asked for again
\* if it never came.
Arrives(url, closed, search) ==
    LET moved == DatabaseOf(cfNames, url) # ShownDatabase IN
    /\ cfUrl' = url /\ cfClosed' = closed /\ cfSearch' = search
    /\ cfFolds' = IF moved THEN Unfolded(search # None) ELSE cfFolds
    /\ cfFailed' = IF moved /\ cfLists[DatabaseOf(cfNames, url)] = None THEN cfFailed \ {DatabaseOf(cfNames, url)}
                   ELSE cfFailed
    /\ TurnsTo(KeyOf(cfNames, cfLists, url, closed))
    /\ UNCHANGED <<cfServer, cfNames, cfLists, cfIntent>>

\* handleDatabaseChange
ChooseDatabase(d) ==
    /\ CfpStep /\ cfNames = "read" /\ d # ShownDatabase
    /\ Arrives([db |-> d, journal |-> None], FALSE, None)

\* Back, Forward or a link
VisitCfp(url) ==
    /\ CfpStep /\ url # cfUrl
    /\ Arrives(url, cfClosed, cfSearch)

----------------------------------------------------------------------------
\* The server and time

\* The journal's data change, or the time its cursors are good for ends.
Break(j) ==
    /\ CfpStep
    /\ cfTurn' = [cfTurn EXCEPT ![j] = @ + 1]
    /\ cfCurrent' \in {cfCurrent \ {j}, cfCurrent \union ({j} \ Unadapted)}
    /\ UNCHANGED <<cfDirectory, cfUrl, cfClosed, cfPanel, cfNotices, cfIntent>>

Age ==
    /\ CfpStep
    /\ cfAged' = {key \in NoticeKeys : cfQueries[key].pages # <<>>}
    /\ cfAged' # cfAged
    /\ UNCHANGED <<cfServer, cfDirectory, cfUrl, cfClosed, cfPanel, cfQueries, cfRecovery, cfIntent>>

Urls == [db : CfpDatabases \union {None}, journal : Journals \union {None}]

CfInit ==
    /\ cfCurrent \in SUBSET (Journals \ Unadapted) /\ cfTurn = [j \in Journals |-> 0]
    /\ cfNames = "none" /\ cfLists = [d \in CfpDatabases |-> None] /\ cfFailed = {}
    /\ cfUrl \in Urls /\ cfClosed = FALSE
    /\ cfSearch = None /\ cfFolds = Unfolded(FALSE)
    /\ cfQueries = [key \in NoticeKeys |-> NoQuery] /\ cfAged = {} /\ cfRecovery = None
    /\ cfIntent = None /\ cfSpent = 0

CfNext ==
    \/ AnswerNotices \/ FailNotices \/ LoadMoreNotices \/ RetryNotices \/ FocusNotices \/ Age \/ PrefetchNotices
    \/ ReadDatabases \/ ReadList \/ FailDirectory \/ RetryDirectory
    \/ \E closed \in BOOLEAN : ShowClosed(closed)
    \/ \E j \in Journals : HoverJournal(j) \/ SelectJournal(j) \/ Break(j)
    \/ \E j \in Journals \union {None} : SearchJournals(j)
    \/ \E g \in GroupIds : ToggleGroup(g)
    \/ \E d \in CfpDatabases : ChooseDatabase(d)
    \/ \E url \in Urls : VisitCfp(url)

CfSpec == CfInit /\ [][CfNext]_cfVars

----------------------------------------------------------------------------
\* What the module promises

\* Types: the queries hold pages of the server's turns, and what is shown
\* comes from the lists that were read.
CfTypeOK ==
    /\ cfNames \in {"none", "failed", "read"}
    /\ cfUrl \in Urls /\ cfClosed \in BOOLEAN /\ cfSearch \in Journals \union {None} /\ cfFolds \subseteq GroupIds
    /\ cfAged \subseteq NoticeKeys /\ {cfRecovery, cfIntent, NoticeKey} \subseteq NoticeKeys \union {None}
    /\ \A key \in NoticeKeys :
        /\ Len(cfQueries[key].pages) <= MaxPages
        /\ cfQueries[key].error \in {None, "other", "conflict"}
        /\ cfQueries[key].fetch # None => Len(cfQueries[key].fetch.got) < MaxPages

\* The notices on the screen are pages of one evaluation of one state of the
\* journal, however they were prefetched, paged, refetched and cancelled
\* (cfp-tracking-view.tsx:133, internal/api/cfp.go:512); and a cursor the
\* server refuses never leaves the reader with its error: the pages are
\* dropped and begun again, each time it happens (cfp-tracking-view.tsx:180,
\* docs/reference/api.md:44).
NoticesAreOneReading ==
    /\ \A i \in DOMAIN VisibleNotices : VisibleNotices[i] = VisibleNotices[1]
    /\ NoticeKey # None => cfQueries[NoticeKey].error # "conflict"
=============================================================================
