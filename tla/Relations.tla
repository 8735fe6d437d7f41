------------------------------ MODULE Relations ------------------------------
(***************************************************************************)
(* The relation graph workspace in one browser document: the graph grown   *)
(* from a root article, the canvas that holds its positions, the session's *)
(* stored graph, and the saved graphs of the server with the query cache   *)
(* that mirrors them.                                                      *)
(*                                                                         *)
(* A graph keeps what the reader shaped.  Coordinates are places: 0 is     *)
(* where the layout puts a node, the others are where it can be dropped.   *)
(* Reads and writes of saved graphs are sent, served and answered apart;   *)
(* related articles do not change and are given by RelatedTo.              *)
(***************************************************************************)
EXTENDS Naturals, Sequences, FiniteSets, Page

CONSTANTS
    Papers,       \* articles
    RelatedTo,    \* the related articles of each, most similar first
    Roots,        \* articles a link opens a graph for
    NodeLimit,    \* RELATION_NODE_LIMIT
    Places,       \* where a node can be dropped
    GraphIds,     \* ids the server can give to saved graphs
    MaxRevision,  \* bound on layout revisions
    MaxGestures   \* bound on toggles, drops, new layouts, writes,
                  \* reloads, changes elsewhere and lost answers, together

\* A graph of the code as a record, and a write of one.
PartialMaps(T) == UNION {[S -> T] : S \in SUBSET Papers}
GraphRecords ==
    [root : Papers, parent : PartialMaps(Papers \union {None}), depth : PartialMaps(Nat),
     kids : PartialMaps(SUBSET Papers), expanded : SUBSET Papers, cross : SUBSET (Papers \X Papers),
     at : PartialMaps(Places \union {0}), pinned : SUBSET Papers, revision : Nat]
RelationUrls == [page : BOOLEAN, article : Papers \union {None}, saved : GraphIds \union {None}]
WriteRecords ==
    [kind : {"create", "update", "delete"}, id : GraphIds \union {None}, graph : GraphRecords,
     leave : RelationUrls \union {None}, mine : BOOLEAN, state : {"sent", "ok", "gone", "failed"}]

ASSUME NoneIsNoWrite == None \notin WriteRecords
ASSUME PapersAreFinite == IsFiniteSet(Papers) /\ Roots \subseteq Papers /\ None \notin Papers
ASSUME RelatedIsListed == RelatedTo \in [Papers -> Seq(Papers)]
ASSUME LimitIsPositive == NodeLimit \in Nat \ {0}
ASSUME PlacesAreNumbers == Places \subseteq Nat \ {0}
ASSUME RelationBounds == MaxRevision \in Nat /\ MaxGestures \in Nat /\ None \notin GraphIds

VARIABLES
    relUrl,      \* the URL: on the relations page or not, its article, its saved graph
    relMount,    \* the URL of the graph stored when the page was mounted
    relKept,     \* sessionStorage: the last graph and the saved graph it belongs to
    relShown,    \* the mounted explorer
    relCanvas,   \* the places its force simulation holds
    relServer,   \* saved graphs
    relCache,    \* queries of saved graphs
    relWrite,    \* the pending create, update or delete
    relLeave,    \* where the leave dialog would go
    relUnsure,   \* saved graphs whose cached copy the page cannot know to be old
    relGestures  \* what MaxGestures bounds

relPage   == <<relUrl, relMount, relKept, relShown, relCanvas, relLeave>>
relRemote == <<relServer, relUnsure, relGestures>>
relVars   == <<relPage, relRemote, relCache, relWrite>>

----------------------------------------------------------------------------
\* Graphs

Nodes(g) == DOMAIN g.parent

NewGraph(r) ==
    [root |-> r, parent |-> [n \in {r} |-> None], depth |-> [n \in {r} |-> 0],
     kids |-> [n \in {r} |-> {}], expanded |-> {}, cross |-> {},
     at |-> [n \in {r} |-> 0], pinned |-> {}, revision |-> 0]

Linked(g, m, n) ==
    g.parent[m] = n \/ g.parent[n] = m \/ <<m, n>> \in g.cross \/ <<n, m>> \in g.cross

\* The related articles looked at before the limit stops the loop.
Looked(g, n) ==
    LET related == RelatedTo[n]
        New(i) == related[i] \notin Nodes(g)
        Full(i) == New(i) /\ Cardinality(Nodes(g) \union {related[j] : j \in 1..(i - 1)}) >= NodeLimit
    IN  {related[i] : i \in {k \in 1..Len(related) : \A j \in 1..k : ~Full(j)}} \ {n}

\* Seeded fault: a link to a parent or child is drawn again.
LinkedTwice(g, n) == {<<n, m>> : m \in Looked(g, n) \intersect Nodes(g)}

Crossed(g, n) == {<<n, m>> : m \in {m \in Looked(g, n) \intersect Nodes(g) : ~Linked(g, n, m)}}

\* Seeded fault: an expansion lays the whole graph out again.
Rearranged(g, n, turned) ==
    IF n \notin Nodes(g) THEN g
    ELSE LET all == Nodes(g) \union Looked(g, n)
             New(m) == m \notin Nodes(g)
         IN  [g EXCEPT
                !.parent = [m \in all |-> IF New(m) THEN n ELSE @[m]],
                !.depth = [m \in all |-> IF New(m) THEN @[n] + 1 ELSE @[m]],
                !.kids = [m \in all |-> IF New(m) THEN {} ELSE {k \in all : k \in @[m] \/ (m = n /\ New(k))}],
                !.at = [m \in all |-> 0],
                !.expanded = @ \union {n},
                !.cross = @ \union Crossed(g, n)]

\* New links may turn branches into another order: a new layout.  Turned
\* branches hold no pinned node, so no dropped node moves.
Expanded(g, n, turned) ==
    IF n \notin Nodes(g) THEN g
    ELSE LET added == Looked(g, n) \ Nodes(g)
             all == Nodes(g) \union added
         IN  [g EXCEPT
                !.parent = [m \in all |-> IF m \in added THEN n ELSE @[m]],
                !.depth = [m \in all |-> IF m \in added THEN @[n] + 1 ELSE @[m]],
                !.kids = [m \in all |-> IF m \in added THEN {} ELSE IF m = n THEN @[m] \union added ELSE @[m]],
                !.at = [m \in all |-> IF m \in added THEN 0 ELSE @[m]],
                !.expanded = @ \union {n},
                !.cross = @ \union Crossed(g, n),
                !.revision = IF turned /\ Crossed(g, n) # {} THEN @ + 1 ELSE @]

\* What a walk down the children of n reaches, n included.
Branch(g, n) ==
    {m \in Nodes(g) : \A S \in SUBSET Nodes(g) :
        (n \in S /\ \A p \in S : g.kids[p] \subseteq S) => m \in S}

\* Seeded fault: dropped nodes stay pinned when their branch is gone.
CollapsedOverPins(g, n) ==
    LET left == Nodes(g) \ (Branch(g, n) \ {n})
    IN  [g EXCEPT
           !.parent = [m \in left |-> @[m]],
           !.depth = [m \in left |-> @[m]],
           !.kids = [m \in left |-> IF m = n THEN {} ELSE @[m]],
           !.at = [m \in left |-> @[m]],
           !.expanded = (@ \intersect left) \ {n},
           !.cross = {c \in @ : c[1] \in left /\ c[2] \in left}]

Collapsed(g, n) ==
    LET left == Nodes(g) \ (Branch(g, n) \ {n})
    IN  [g EXCEPT
           !.parent = [m \in left |-> @[m]],
           !.depth = [m \in left |-> @[m]],
           !.kids = [m \in left |-> IF m = n THEN {} ELSE @[m]],
           !.at = [m \in left |-> @[m]],
           !.expanded = (@ \intersect left) \ {n},
           !.cross = {c \in @ : c[1] \in left /\ c[2] \in left},
           !.pinned = @ \intersect left]

Relaid(g) == [g EXCEPT !.at = [m \in Nodes(g) |-> 0], !.pinned = {}, !.revision = @ + 1]

\* Reported places of the nodes that are still there.
Stored(g, places, dropped) ==
    [g EXCEPT !.at = [m \in Nodes(g) |-> IF m \in DOMAIN places THEN places[m] ELSE @[m]],
              !.pinned = @ \union (dropped \intersect Nodes(g))]

\* What the reader deliberately shaped.
Signature(g) ==
    <<Nodes(g), g.expanded, g.cross, [m \in g.pinned |-> g.at[m]]>>

Renewed(g, revision) ==
    [g EXCEPT !.revision = IF @ > revision THEN @ + 1 ELSE revision + 1]

----------------------------------------------------------------------------
\* The canvas

\* syncSimulation: known nodes stay where they are unless the layout is new.
Synced(shown) ==
    IF shown = None \/ shown.graph = None THEN None
    ELSE LET g == shown.graph
             stays(m) == relCanvas # None /\ m \in DOMAIN relCanvas.at /\ relCanvas.revision = g.revision
         IN  [revision |-> g.revision,
              at |-> [m \in Nodes(g) |-> IF stays(m) THEN relCanvas.at[m] ELSE g.at[m]]]

\* The explorer's next state, with what its effects do.
Show(shown) ==
    /\ relShown' = shown
    /\ relCanvas' = Synced(shown)
    /\ relKept' = IF shown = None \/ shown.graph = None THEN relKept
                  ELSE [graph |-> shown.graph, saved |-> shown.saved]

\* A mounted explorer starts another simulation.
Mount(shown) ==
    /\ relShown' = shown
    /\ relCanvas' = IF shown = None \/ shown.graph = None THEN None
                    ELSE [revision |-> shown.graph.revision, at |-> shown.graph.at]
    /\ relKept' = IF shown = None \/ shown.graph = None THEN relKept
                  ELSE [graph |-> shown.graph, saved |-> shown.saved]
    /\ relLeave' = None

----------------------------------------------------------------------------
\* Queries of saved graphs

NoData == [data |-> None, err |-> FALSE, call |-> None]
IsPending(q) == q.data = None /\ ~q.err
ReadIn(id, states) == relCache[id].call # None /\ relCache[id].call.state \in states

\* An observer appears: without data the query is run, an error forgotten.
Asked(cache, id) ==
    IF id = None THEN cache
    ELSE [cache EXCEPT ![id] =
            IF @.data = None /\ @.call = None
            THEN [data |-> None, err |-> FALSE, call |-> [state |-> "sent", got |-> None]] ELSE @]

\* Seeded fault: an answered write leaves the cached copy alone.
Forgotten(cache, id, g) == cache

\* setQueryData; a read under way goes on and overwrites it later.
Remembered(cache, id, g) == [cache EXCEPT ![id].data = g, ![id].err = FALSE]
Removed(cache, id) == [cache EXCEPT ![id] = NoData]

----------------------------------------------------------------------------
\* The page

Away == [page |-> FALSE, article |-> None, saved |-> None]
Home == [Away EXCEPT !.page = TRUE]
Link(a, id) == [page |-> TRUE, article |-> a, saved |-> id]
LastLink == IF relKept = None THEN None ELSE Link(relKept.graph.root, relKept.saved)

\* resolveInitialRelationGraph
Initial(url, favorite) ==
    LET matches == relKept # None /\ relKept.graph.root = url.article
    IN  IF favorite # None
        THEN IF matches /\ relKept.saved = url.saved THEN relKept
             ELSE [graph |-> favorite, saved |-> url.saved]
        ELSE IF matches THEN relKept ELSE [graph |-> None, saved |-> None]

\* The explorer of a URL over the cache: none while the saved graph loads.
Explorer(url, cache) ==
    IF url.article = None \/ (url.saved # None /\ IsPending(cache[url.saved])) THEN None
    ELSE LET found == IF url.saved = None THEN None ELSE cache[url.saved].data
             favorite == IF found # None /\ found.root = url.article THEN found ELSE None
             start == Initial(url, favorite)
         IN  [graph |-> start.graph, saved |-> start.saved,
              loading |-> {}, asked |-> FALSE]

\* A write outlives the explorer that sent it, which is not told the answer.
Orphaned(write) == IF write = None THEN None ELSE [write EXCEPT !.mine = FALSE, !.leave = None]

\* Without an article in the URL the graph stored when the page was mounted
\* is restored.
Visit(dest, cache, write) ==
    LET mount == IF ~dest.page THEN None ELSE IF relUrl.page THEN relMount ELSE LastLink
        url == IF dest.page /\ dest.article = None /\ mount # None THEN mount ELSE dest
        asked == IF url.article = None THEN cache ELSE Asked(cache, url.saved)
    IN  /\ relUrl' = url
        /\ relMount' = mount
        /\ relCache' = asked
        /\ relWrite' = Orphaned(write)
        /\ Mount(Explorer(url, asked))

Saved == IF relShown = None THEN None ELSE relShown.saved
HasGraph == relShown # None /\ relShown.graph # None
Graph == relShown.graph
SavedGraph == IF Saved = None THEN None ELSE relCache[Saved].data
IsBusy == relWrite # None /\ relWrite.mine
IsDirty == HasGraph /\ SavedGraph # None /\ Signature(SavedGraph) # Signature(Graph)
\* The leave dialog is modal.
Usable == HasGraph /\ relLeave = None

\* Links of this page and of the pages around it.
Destinations ==
    {Away, Home} \union {Link(a, None) : a \in Roots}
        \union (IF relUrl.page THEN {}
                ELSE {Link(relServer[i].graph.root, i) : i \in {i \in GraphIds : relServer[i].state = "alive"}})

SameGraph(dest) == relUrl.page /\ dest.page /\ dest.article = relUrl.article

----------------------------------------------------------------------------
RelInit ==
    /\ relUrl = Away
    /\ relMount = None
    /\ relKept = None
    /\ relShown = None
    /\ relCanvas = None
    /\ relServer = [i \in GraphIds |-> [state |-> "free", graph |-> None]]
    /\ relCache = [i \in GraphIds |-> NoData]
    /\ relWrite = None
    /\ relLeave = None
    /\ relUnsure = {}
    /\ relGestures = 0

Gesture == relGestures < MaxGestures /\ relGestures' = relGestures + 1

\* A link is followed: a changed saved graph asks first.  Links to where the
\* page is are left out.
Follow(dest) ==
    /\ dest # relUrl /\ ~(dest = Home /\ relMount = relUrl)
    /\ relLeave = None
    /\ IF IsDirty /\ ~SameGraph(dest)
       THEN relLeave' = dest /\ UNCHANGED <<relUrl, relMount, relKept, relShown, relCanvas, relCache, relWrite>>
       ELSE Visit(dest, relCache, relWrite)
    /\ UNCHANGED relRemote

KeepEditing ==
    /\ relLeave # None /\ ~IsBusy
    /\ relLeave' = None
    /\ UNCHANGED <<relUrl, relMount, relKept, relShown, relCanvas, relCache, relWrite, relRemote>>

LeaveUnsaved ==
    /\ relLeave # None /\ ~IsBusy
    /\ Visit(relLeave, relCache, relWrite)
    /\ UNCHANGED relRemote

\* The document is loaded again, whatever beforeunload asks; not while a
\* write is under way.
ReloadGraph ==
    /\ relUrl.page /\ relWrite = None
    /\ LET url == IF relUrl.article = None /\ LastLink # None THEN LastLink ELSE relUrl
           asked == Asked([i \in GraphIds |-> NoData], url.saved)
       IN  /\ relUrl' = url
           /\ relMount' = LastLink
           /\ relCache' = asked
           /\ relUnsure' = {}
           /\ Mount(Explorer(url, asked))
    /\ Gesture
    /\ UNCHANGED <<relServer, relWrite>>

\* The fresh graph of a root that has none: its related articles around it.
AnswerRoot ==
    /\ relShown # None /\ relShown.graph = None
    /\ Show([relShown EXCEPT !.graph = Expanded(NewGraph(relUrl.article), relUrl.article, FALSE)])
    /\ UNCHANGED <<relUrl, relMount, relLeave, relRemote, relCache, relWrite>>

\* The branch toggle of a node.
ToggleNode(n) ==
    /\ Usable /\ n \in Nodes(Graph) /\ n \notin relShown.loading
    /\ IF n \in Graph.expanded
       THEN Show([relShown EXCEPT !.graph = Collapsed(@, n)])
       ELSE Show([relShown EXCEPT !.loading = @ \union {n}])
    /\ Gesture
    /\ UNCHANGED <<relUrl, relMount, relLeave, relServer, relUnsure, relCache, relWrite>>

\* The related articles of n arrive: they join the graph of now.
AnswerExpand(n) ==
    /\ relShown # None /\ n \in relShown.loading
    /\ \E turned \in BOOLEAN :
        LET g == Expanded(Graph, n, turned)
        IN  /\ g.revision <= MaxRevision
            /\ Show([relShown EXCEPT !.graph = g, !.loading = @ \ {n}])
    /\ UNCHANGED <<relUrl, relMount, relLeave, relRemote, relCache, relWrite>>

FailExpand(n) ==
    /\ relShown # None /\ n \in relShown.loading
    /\ Show([relShown EXCEPT !.loading = @ \ {n}])
    /\ UNCHANGED <<relUrl, relMount, relLeave, relRemote, relCache, relWrite>>

\* A node is dropped: held there from now on and reported with all places.
DropNode(n, p) ==
    /\ Usable /\ relCanvas # None /\ n \in Nodes(Graph)
    /\ LET places == [relCanvas.at EXCEPT ![n] = p]
           shown == [relShown EXCEPT !.graph = Stored(@, places, {n})]
       IN  /\ relShown' = shown
           /\ relKept' = [graph |-> shown.graph, saved |-> shown.saved]
           /\ relCanvas' = [relCanvas EXCEPT !.at = places]
    /\ Gesture
    /\ UNCHANGED <<relUrl, relMount, relLeave, relServer, relUnsure, relCache, relWrite>>

\* The simulation comes to rest and reports its places.
Rest ==
    /\ relCanvas # None
    /\ Show([relShown EXCEPT !.graph = Stored(@, relCanvas.at, {})])
    /\ UNCHANGED <<relUrl, relMount, relLeave, relRemote, relCache, relWrite>>

Relayout ==
    /\ Usable /\ Graph.revision < MaxRevision
    /\ Show([relShown EXCEPT !.graph = Relaid(@)])
    /\ Gesture
    /\ UNCHANGED <<relUrl, relMount, relLeave, relServer, relUnsure, relCache, relWrite>>

----------------------------------------------------------------------------
\* Saved graphs

\* The controls appear and look their saved graph up.  The page, when its
\* URL names the same one, shows nothing while it loads.
AskSaved ==
    /\ HasGraph /\ Saved # None /\ ~relShown.asked
    /\ LET cache == Asked(relCache, Saved)
       IN  /\ relCache' = cache
           /\ IF relUrl.saved = Saved /\ IsPending(cache[Saved])
              THEN Mount(None) /\ relWrite' = Orphaned(relWrite)
              ELSE Show([relShown EXCEPT !.asked = TRUE]) /\ UNCHANGED <<relLeave, relWrite>>
    /\ UNCHANGED <<relUrl, relMount, relRemote>>

ServeRead(id) ==
    /\ ReadIn(id, {"sent"})
    /\ relCache' = [relCache EXCEPT ![id].call = [state |-> "served", got |-> relServer[id].graph]]
    /\ UNCHANGED <<relPage, relRemote, relWrite>>

AnswerRead(id) ==
    /\ ReadIn(id, {"served"})
    /\ LET got == relCache[id].call.got
           data == IF got = None THEN relCache[id].data ELSE got
           cache == [relCache EXCEPT ![id] = [data |-> data, err |-> got = None, call |-> None]]
       IN  /\ relCache' = cache
           /\ IF relShown = None /\ relUrl.saved = id
              THEN Mount(Explorer(relUrl, cache))
              ELSE UNCHANGED <<relShown, relCanvas, relKept, relLeave>>
    /\ UNCHANGED <<relUrl, relMount, relRemote, relWrite>>

\* One write at a time, also of explorers that are gone and of the list.
Send(kind, leave) ==
    /\ relWrite = None
    /\ relWrite' = [kind |-> kind, id |-> IF kind = "create" THEN None ELSE Saved,
                    graph |-> Graph, leave |-> leave, mine |-> TRUE, state |-> "sent"]
    /\ Gesture
    /\ UNCHANGED <<relPage, relServer, relUnsure, relCache>>

\* Saving, also as a new graph; saving changes; giving the saved graph up.
SaveGraph   == Usable /\ (\E id \in GraphIds : relServer[id].state = "free") /\ Send("create", None)
UpdateGraph == Usable /\ Saved # None /\ Send("update", None)
ForgetGraph == Usable /\ Saved # None /\ Send("delete", None)
SaveAndLeave == relLeave # None /\ ~IsBusy /\ Saved # None /\ Send("update", relLeave)

ResetToSaved ==
    /\ Usable /\ ~IsBusy /\ IsDirty
    /\ LET g == Renewed(SavedGraph, Graph.revision)
       IN  /\ g.revision <= MaxRevision
           /\ Show([relShown EXCEPT !.graph = g])
    /\ UNCHANGED <<relUrl, relMount, relLeave, relRemote, relCache, relWrite>>

\* The server creates under an id it has never used, updates and deletes
\* only what is there.
ServeGraph ==
    /\ relWrite # None /\ relWrite.state = "sent"
    /\ \E id \in GraphIds :
        /\ IF relWrite.kind = "create" THEN relServer[id].state = "free" ELSE id = relWrite.id
        /\ LET ok == relWrite.kind = "create" \/ relServer[id].state = "alive"
           IN  /\ relWrite' = [relWrite EXCEPT !.id = id, !.state = IF ok THEN "ok" ELSE "gone"]
               /\ relServer' = IF ~ok THEN relServer
                               ELSE [relServer EXCEPT ![id] =
                                        IF relWrite.kind = "delete" THEN [state |-> "gone", graph |-> None]
                                        ELSE [state |-> "alive", graph |-> relWrite.graph]]
               /\ relUnsure' = IF ReadIn(id, {"served"}) THEN relUnsure \union {id} ELSE relUnsure
    /\ UNCHANGED <<relPage, relCache, relGestures>>

\* onSuccess and onError.
AnswerGraph ==
    /\ relWrite # None /\ relWrite.state # "sent"
    /\ LET id == relWrite.id
           ok == relWrite.state = "ok"
           cache == IF ~ok THEN relCache
                    ELSE IF relWrite.kind = "delete" THEN Removed(relCache, id)
                    ELSE Remembered(relCache, id, relWrite.graph)
           link == IF relWrite.state = "failed" THEN Saved
                   ELSE IF relWrite.kind = "delete" \/ ~ok THEN None ELSE id
           told == IF relWrite.mine THEN [relShown EXCEPT !.saved = link, !.asked = @ /\ link = relShown.saved]
                   ELSE IF ok /\ link = None /\ HasGraph /\ Saved = id THEN [relShown EXCEPT !.asked = FALSE]
                   ELSE relShown
       IN  /\ IF ok /\ relWrite.leave # None
              THEN Visit(relWrite.leave, cache, None)
              ELSE /\ relCache' = cache
                   /\ relWrite' = None
                   /\ relLeave' = IF relWrite.leave # None THEN None ELSE relLeave
                   /\ Show(told)
                   /\ UNCHANGED <<relUrl, relMount>>
    /\ UNCHANGED relRemote

\* The server refuses a write.
RefuseGraph ==
    /\ relWrite # None /\ relWrite.state = "sent"
    /\ relWrite' = [relWrite EXCEPT !.state = "failed"]
    /\ UNCHANGED <<relPage, relRemote, relCache>>

\* No answer comes, whether or not the server has written.
LoseGraph ==
    /\ relWrite # None
    /\ Gesture
    /\ relUnsure' = relUnsure \union ({relWrite.id} \ {None})
    /\ relWrite' = None
    /\ relLeave' = IF relWrite.leave # None THEN None ELSE relLeave
    /\ UNCHANGED <<relUrl, relMount, relKept, relShown, relCanvas, relServer, relCache>>

\* The list of saved graphs, on the favourites page: an answered rename
\* brings the graph along.
RenameListed(id) ==
    /\ relWrite = None /\ ~relUrl.page /\ relServer[id].state = "alive"
    /\ relCache' = Remembered(relCache, id, relServer[id].graph)
    /\ UNCHANGED <<relPage, relRemote, relWrite>>

DeleteListed(id) ==
    /\ relWrite = None /\ ~relUrl.page /\ relServer[id].state = "alive"
    /\ relServer' = [relServer EXCEPT ![id] = [state |-> "gone", graph |-> None]]
    /\ relCache' = Removed(relCache, id)
    /\ UNCHANGED <<relPage, relUnsure, relGestures, relWrite>>

\* Another device starts a saved graph afresh or deletes it.
ChangeElsewhere(id) ==
    /\ relServer[id].state = "alive"
    /\ Gesture
    /\ relUnsure' = IF relCache[id].data # None \/ ReadIn(id, {"served"}) \/ (relWrite # None /\ relWrite.id = id)
                    THEN relUnsure \union {id} ELSE relUnsure
    /\ relServer' \in {[relServer EXCEPT ![id] = [state |-> "gone", graph |-> None]],
                       [relServer EXCEPT ![id].graph = NewGraph(@.root)]}
    /\ UNCHANGED <<relPage, relCache, relWrite>>

RelNext ==
    \/ \E dest \in Destinations : Follow(dest)
    \/ KeepEditing \/ LeaveUnsaved \/ SaveAndLeave \/ ReloadGraph
    \/ AnswerRoot
    \/ \E n \in Papers : ToggleNode(n) \/ AnswerExpand(n) \/ FailExpand(n)
    \/ \E n \in Papers, p \in Places : DropNode(n, p)
    \/ Rest \/ Relayout
    \/ AskSaved
    \/ \E id \in GraphIds : ServeRead(id) \/ AnswerRead(id) \/ RenameListed(id) \/ DeleteListed(id) \/ ChangeElsewhere(id)
    \/ SaveGraph \/ UpdateGraph \/ ForgetGraph \/ ResetToSaved
    \/ ServeGraph \/ RefuseGraph \/ AnswerGraph \/ LoseGraph

RelSpec == RelInit /\ [][RelNext]_relVars

\* Every request under way is answered, and a mounted control asks.
RelFair ==
    /\ WF_relVars(AnswerRoot)
    /\ WF_relVars(AskSaved)
    /\ \A id \in GraphIds : WF_relVars(ServeRead(id)) /\ WF_relVars(AnswerRead(id))
RelFairSpec == RelSpec /\ RelFair
=============================================================================
