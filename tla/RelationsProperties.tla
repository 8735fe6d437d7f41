------------------------- MODULE RelationsProperties -------------------------
(* What the relation graph workspace keeps true. *)
EXTENDS Relations

IsGraph(g) ==
    /\ Nodes(g) \subseteq Papers /\ g.root \in Nodes(g)
    /\ g.parent \in [Nodes(g) -> Nodes(g) \union {None}]
    /\ g.depth \in [Nodes(g) -> Nat]
    /\ g.kids \in [Nodes(g) -> SUBSET Papers]
    /\ g.at \in [Nodes(g) -> Places \union {0}]
    /\ g.expanded \subseteq Papers /\ g.pinned \subseteq Nodes(g)
    /\ g.cross \subseteq Papers \X Papers
    /\ g.revision \in 0..MaxRevision

\* Every graph there is: shown, stored, saved, cached, on its way.
Graphs ==
    ({relServer[i].graph : i \in GraphIds} \union {relCache[i].data : i \in GraphIds}
      \union {relCache[i].call.got : i \in {i \in GraphIds : ReadIn(i, {"served"})}}
      \union (IF relShown = None THEN {} ELSE {relShown.graph})
      \union (IF relKept = None THEN {} ELSE {relKept.graph})
      \union (IF relWrite = None THEN {} ELSE {relWrite.graph})) \ {None}

\* Types: the shapes of the code's RelationGraph, queries and component state.
RelTypeOK ==
    /\ \A g \in Graphs : IsGraph(g)
    /\ relUrl \in RelationUrls
    /\ relShown # None =>
        /\ relShown.saved \in GraphIds \union {None}
        /\ relShown.loading \subseteq Papers
        /\ relShown.asked \in BOOLEAN
    /\ \A i \in GraphIds : relServer[i].state \in {"free", "alive", "gone"}
    /\ \A i \in GraphIds : (relServer[i].graph # None) = (relServer[i].state = "alive")
    /\ relWrite # None => relWrite.kind \in {"create", "update", "delete"}
    /\ relUnsure \subseteq GraphIds /\ relGestures \in 0..MaxGestures

\* However expansions, their late answers, collapses, resets and reloads
\* follow each other, a graph is one tree (parents, children and depths
\* agree), a node with children is one shown as expanded, a cross link joins
\* two of its nodes that nothing else joins, and no graph outgrows the limit.
IsTree(g) ==
    /\ {n \in Nodes(g) : g.parent[n] = None} = {g.root} /\ g.depth[g.root] = 0
    /\ \A n \in Nodes(g) : g.kids[n] = {m \in Nodes(g) : g.parent[m] = n}
    /\ \A n \in Nodes(g) \ {g.root} : g.depth[n] = g.depth[g.parent[n]] + 1
    /\ g.expanded \subseteq Nodes(g)
    /\ \A n \in Nodes(g) : g.kids[n] # {} => n \in g.expanded
    /\ \A c \in g.cross :
        /\ c[1] \in Nodes(g) /\ c[2] \in Nodes(g) /\ c[1] # c[2]
        /\ g.parent[c[1]] # c[2] /\ g.parent[c[2]] # c[1] /\ <<c[2], c[1]>> \notin g.cross
    /\ Cardinality(Nodes(g)) <= NodeLimit
GraphsAreTrees == \A g \in Graphs : IsTree(g)

\* The canvas holds exactly the graph's nodes, and every dropped node where
\* the graph says: a graph put in place of another one moves it, a layout
\* seen before does not move it back.
CanvasHoldsDrops ==
    relCanvas # None =>
        /\ DOMAIN relCanvas.at = Nodes(Graph)
        /\ \A n \in Graph.pinned : relCanvas.at[n] = Graph.at[n]

\* Both at once: what the canvas shows is one tree, with every drop in place.
CanvasShowsGraph == GraphsAreTrees /\ CanvasHoldsDrops

\* The reader is told the truth about unsaved changes: with nothing under
\* way, a saved graph shown without the unsaved mark is what the server has,
\* unless another device changed it or an answer crossed another or was lost.
CleanIsSaved ==
    HasGraph /\ SavedGraph # None /\ relWrite = None /\ ~IsDirty /\ Saved \notin relUnsure
        => relServer[Saved].graph # None /\ Signature(relServer[Saved].graph) = Signature(Graph)

\* A late expansion only adds: what the reader collapsed, dropped or reset in
\* the meantime stays as it is, and nothing is added to a node that is gone.
LateAnswersOnlyAdd ==
    [][\A n \in Papers : AnswerExpand(n) =>
        LET g == Graph
            h == Graph'
        IN  /\ Nodes(g) \subseteq Nodes(h) /\ g.expanded \subseteq h.expanded
            /\ h.expanded \subseteq g.expanded \union {n}
            /\ g.pinned = h.pinned /\ \A m \in g.pinned : h.at[m] = g.at[m]
            /\ \A m \in Nodes(h) \ Nodes(g) : h.parent[m] = n]_relVars

\* "The saved graph is missing or was deleted; a new graph is shown": a
\* reader who stays on the URL of a saved graph comes to see a graph for good.
SavedUrlIsShown == \A id \in GraphIds : <>[](relUrl.saved = id) => <>[](relShown # None)
=============================================================================
