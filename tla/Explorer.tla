------------------------------ MODULE Explorer ------------------------------
(***************************************************************************)
(* The page around a relation graph: the picker of a center article, and   *)
(* the explorer of one graph with its selected node, its two views, its    *)
(* reader beside or over it, and its message of failure.                   *)
(*                                                                         *)
(* What a graph is, how it is stored and saved, is module Relations; here  *)
(* a graph is its nodes, whatever an expansion brings and a collapse takes *)
(* away.  Every database finds the same articles.                          *)
(***************************************************************************)
EXTENDS Naturals, FiniteSets, Page

CONSTANTS
    Stems,            \* the databases
    Entries,          \* articles
    Phrases,          \* what a reader searches for
    MaxExplorerSteps  \* bound on what the reader does and what fails

ASSUME ExplorerConstants ==
    /\ None \notin Stems \union Entries \union Phrases /\ MaxExplorerSteps \in Nat

\* What the explorer of one center keeps
Explorers ==
    [graph : (SUBSET Entries) \union {None}, failed : BOOLEAN, selected : Entries, sheet : BOOLEAN,
     view : {"graph", "list"}, loading : SUBSET Entries, failure : {"related", None}]

ASSUME NoneIsNoGraph == (\A nodes \in SUBSET Entries : nodes # None) /\ None \notin Explorers

VARIABLES
    exDb,       \* useSelectedDatabase
    exPicker,   \* draft, the query submitted, and what the queries have answered
    exAsked,    \* the picker's request under way, or None
    exUrl,      \* the center: article and database, or None
    exDocked,   \* READER_DOCK_MEDIA_QUERY
    exPage,     \* the explorer mounted, or None
    exSpent

exVars == <<exDb, exPicker, exAsked, exUrl, exDocked, exPage, exSpent>>

Centers == [db : Stems, article : Entries]
Lookups == [db : Stems, query : Phrases]
ExStep == exSpent < MaxExplorerSteps /\ exSpent' = exSpent + 1

\* relation-root: the graph under construction, none until it is read
NewPage == [graph |-> None, failed |-> FALSE, selected |-> exUrl'.article, sheet |-> FALSE, view |-> "graph",
            loading |-> {}, failure |-> None]

\* The query of the picker, disabled without words
LookupOf(db, query) == IF query = None THEN None ELSE [db |-> db, query |-> query]
PickerShows == exUrl = None
Candidates ==
    LET lookup == LookupOf(exDb, exPicker.query)
    IN  IF ~PickerShows \/ lookup = None THEN {} ELSE IF exPicker.found[lookup] = None THEN {} ELSE exPicker.found[lookup]

\* Another lookup: the request of the one before is given up, and what was
\* read a minute ago is good enough.
LooksUp(db, query) ==
    LET lookup == LookupOf(db, query) IN
    IF lookup = LookupOf(exDb, exPicker.query) THEN UNCHANGED exAsked
    ELSE /\ exAsked' \in {lookup, None}
         /\ exAsked' = None => (IF lookup = None THEN TRUE ELSE exPicker.found[lookup] # None)

ExInit ==
    /\ exDb \in Stems /\ exDocked \in BOOLEAN /\ exUrl = None /\ exPage = None
    /\ exPicker = [draft |-> None, query |-> None, found |-> [l \in Lookups |-> None], failed |-> FALSE]
    /\ exAsked = None /\ exSpent = 0

----------------------------------------------------------------------------
\* The picker

TypePhrase(w) ==
    /\ ExStep /\ PickerShows /\ w # exPicker.draft
    /\ exPicker' = [exPicker EXCEPT !.draft = w]
    /\ UNCHANGED <<exDb, exAsked, exUrl, exDocked, exPage>>

SubmitPhrase ==
    /\ ExStep /\ PickerShows /\ exPicker.draft # exPicker.query
    /\ exPicker' = [exPicker EXCEPT !.query = exPicker.draft, !.failed = FALSE]
    /\ LooksUp(exDb, exPicker.draft)
    /\ UNCHANGED <<exDb, exUrl, exDocked, exPage>>

AnswerCandidates ==
    /\ exAsked # None /\ exAsked' = None
    /\ \E articles \in SUBSET Entries : exPicker' = [exPicker EXCEPT !.found[exAsked] = articles, !.failed = FALSE]
    /\ UNCHANGED <<exDb, exUrl, exDocked, exPage, exSpent>>

FailCandidates ==
    /\ ExStep /\ exAsked # None /\ exAsked' = None
    /\ exPicker' = [exPicker EXCEPT !.failed = TRUE]
    /\ UNCHANGED <<exDb, exUrl, exDocked, exPage>>

\* Another database is chosen, in another tab too.
ChooseStem(d) ==
    /\ ExStep /\ d # exDb
    /\ exDb' = d /\ exPicker' = [exPicker EXCEPT !.failed = FALSE]
    /\ IF PickerShows THEN LooksUp(d, exPicker.query) ELSE UNCHANGED exAsked
    /\ UNCHANGED <<exUrl, exDocked, exPage>>

\* The explorer is mounted anew for every center, the picker without one.
Opens(url) ==
    /\ exUrl' = url /\ url # exUrl
    /\ exPage' = IF url = None THEN None ELSE NewPage
    /\ exPicker' = [exPicker EXCEPT !.draft = None, !.query = None, !.failed = FALSE]
    /\ exAsked' = None

PickCenter(a) ==
    /\ ExStep /\ a \in Candidates
    /\ Opens([db |-> exDb, article |-> a])
    /\ UNCHANGED <<exDb, exDocked>>

\* The relation action of the reader, a link, Back and Forward
VisitCenter(url) ==
    /\ ExStep /\ Opens(url)
    /\ UNCHANGED <<exDb, exDocked>>

----------------------------------------------------------------------------
\* The explorer

ShownNodes == IF exPage = None THEN {} ELSE IF exPage.graph = None THEN {} ELSE exPage.graph

OnPage == exPage # None /\ UNCHANGED <<exDb, exPicker, exAsked, exUrl, exDocked>>

\* initialQuery; after a failure it is only asked again when the window is
\* focused.
ReadRoot ==
    /\ OnPage /\ exPage.graph = None
    /\ \E related \in SUBSET Entries : exPage' = [exPage EXCEPT !.graph = related \union {exUrl.article}]
    /\ UNCHANGED exSpent

FailRoot ==
    /\ OnPage /\ ExStep /\ exPage.graph = None /\ ~exPage.failed
    /\ exPage' = [exPage EXCEPT !.failed = TRUE]

SelectDot(n) ==
    /\ OnPage /\ ExStep /\ n \in ShownNodes
    /\ exPage' = [exPage EXCEPT !.selected = n, !.sheet = @ \/ ~exDocked]

CloseReader ==
    /\ OnPage /\ exPage.sheet
    /\ exPage' = [exPage EXCEPT !.sheet = FALSE]
    /\ UNCHANGED exSpent

SwitchView(view) ==
    /\ OnPage /\ ExStep /\ view # exPage.view
    /\ exPage' = [exPage EXCEPT !.view = view]

\* fetchRelated of a node, which its toggles wait for
AskRelated(n) ==
    /\ OnPage /\ ExStep /\ n \in ShownNodes \ exPage.loading
    /\ exPage' = [exPage EXCEPT !.loading = @ \union {n}, !.failure = None]

\* A node that has gone meanwhile brings nothing.
AnswerExpansion(n) ==
    /\ OnPage /\ n \in exPage.loading
    /\ \E related \in SUBSET Entries :
         exPage' = [exPage EXCEPT !.loading = @ \ {n}, !.graph = IF n \in @ THEN @ \union related ELSE @]
    /\ UNCHANGED exSpent

FailRelated(n) ==
    /\ OnPage /\ ExStep /\ n \in exPage.loading
    /\ exPage' = [exPage EXCEPT !.loading = @ \ {n}, !.failure = "related"]

\* A selected node that goes leaves the selection to another.
Reselected(nodes, fallback) == IF exPage.selected \in nodes THEN exPage.selected ELSE fallback

CollapseDot(n) ==
    /\ OnPage /\ ExStep /\ n \in ShownNodes \ exPage.loading
    /\ \E gone \in SUBSET (ShownNodes \ {n, exUrl.article}) :
         /\ gone # {}
         /\ exPage' = [exPage EXCEPT !.graph = @ \ gone, !.selected = Reselected(ShownNodes \ gone, n)]

\* resetToSaved
ResetExplorer ==
    /\ OnPage /\ ExStep /\ exPage.graph # None
    /\ \E saved \in {nodes \in SUBSET Entries : exUrl.article \in nodes} :
         exPage' = [exPage EXCEPT !.graph = saved, !.selected = Reselected(saved, exUrl.article), !.failure = None]

ResizeExplorer ==
    /\ ExStep /\ exDocked' = ~exDocked
    /\ UNCHANGED <<exDb, exPicker, exAsked, exUrl, exPage>>

\* The reader, or the reader's sheet where there is no room for it
ReaderOpens == exPage # None /\ (exDocked \/ exPage.sheet) /\ exPage.selected \in ShownNodes

ExNext ==
    \/ SubmitPhrase \/ AnswerCandidates \/ FailCandidates
    \/ ReadRoot \/ FailRoot \/ CloseReader \/ ResetExplorer \/ ResizeExplorer
    \/ \E w \in Phrases \union {None} : TypePhrase(w)
    \/ \E d \in Stems : ChooseStem(d)
    \/ \E url \in Centers \union {None} : VisitCenter(url)
    \/ \E view \in {"graph", "list"} : SwitchView(view)
    \/ \E a \in Entries : \/ PickCenter(a) \/ SelectDot(a) \/ AskRelated(a)
                          \/ AnswerExpansion(a) \/ FailRelated(a) \/ CollapseDot(a)

ExSpec == ExInit /\ [][ExNext]_exVars

----------------------------------------------------------------------------
\* What the page around a relation graph keeps.

\* Types: an explorer is mounted exactly where a center is, and its graph has
\* that center.
ExTypeOK ==
    /\ exDb \in Stems /\ exUrl \in Centers \union {None} /\ exDocked \in BOOLEAN
    /\ exPicker.draft \in Phrases \union {None} /\ exPicker.query \in Phrases \union {None}
    /\ exPicker.found \in [Lookups -> (SUBSET Entries) \union {None}] /\ exPicker.failed \in BOOLEAN
    /\ exAsked \in Lookups \union {None}
    /\ (exPage = None) = (exUrl = None)
    /\ exPage \in Explorers \union {None}
    /\ exPage # None /\ exPage.graph # None => exUrl.article \in exPage.graph
    /\ exSpent \in 0..MaxExplorerSteps

\* The selected article is a node of the graph, through collapses of the
\* branch it is in, resets to the saved graph and expansions answered late;
\* and an answer to the picker is shown for its own words and database only.
SelectionIsANode ==
    /\ ShownNodes # {} => exPage.selected \in ShownNodes
    /\ exAsked # None => PickerShows /\ exAsked = LookupOf(exDb, exPicker.query)
=============================================================================
