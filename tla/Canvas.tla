------------------------------- MODULE Canvas -------------------------------
(***************************************************************************)
(* The canvas of one relation graph: the force simulation that holds the   *)
(* places of its nodes, dragging, panning, and the hover card.             *)
(*                                                                         *)
(* Module Relations has the graph, its places and the server; here is how  *)
(* the simulation, which ticks by itself, the pointer, the timer of the    *)
(* hover card and answered expansions meet.  A graph's version stands for  *)
(* the identity of its object, by which the card knows it.                 *)
(***************************************************************************)
EXTENDS Naturals, FiniteSets, Page

CONSTANTS
    Dots,           \* the nodes a graph may have beside its root
    Ground,         \* the root
    Corners,        \* places of the canvas
    Seed,           \* the place a layout gives
    MaxCanvasSteps  \* bound on changes of the graph, drags, pans and moves of the pointer

ASSUME CanvasConstants ==
    /\ IsFiniteSet(Dots) /\ Ground \notin Dots /\ None \notin Dots \union {Ground}
    /\ Seed \in Corners /\ MaxCanvasSteps \in Nat

VARIABLES
    cvGraph,   \* the graph shown: nodes, positions, pinnedIds, layoutRevision, identity
    cvSim,     \* the simulation: running, places, nodes with fx, the revision it follows
    cvDrag,    \* the node being dragged, or None
    cvPan,     \* isPanningRef
    cvTimer,   \* previewTimerRef: what it will show, or None
    cvCard,    \* preview
    cvSpent

cvVars == <<cvGraph, cvSim, cvDrag, cvPan, cvTimer, cvCard, cvSpent>>

Shapes == SUBSET Dots
AllOf(nodes) == nodes \union {Ground}
CvStep == cvSpent < MaxCanvasSteps /\ cvSpent' = cvSpent + 1

\* syncSimulation: nodes that are new, or all under a new layout, go to the
\* graph's places; only the pinned are held from now on, and the rest cools
\* down from where it is.
Synchronised(g) ==
    [running |-> TRUE,
     at |-> [n \in AllOf(g.nodes) |->
                IF n \in DOMAIN cvSim.at /\ cvSim.revision = g.revision THEN cvSim.at[n] ELSE g.at[n]],
     held |-> g.pinned \union {Ground}, revision |-> g.revision]

\* The graph changes in what the simulation follows.
Becomes(g) ==
    /\ cvGraph' = [g EXCEPT !.version = cvGraph.version + 1]
    /\ cvSim' = Synchronised(g)

\* onPositionsSettle: the places of the simulation are stored, a node that
\* was dropped is pinned.
Reported(at, dropped) ==
    [cvGraph EXCEPT !.at = at, !.pinned = @ \union dropped, !.version = @ + 1]

\* hidePreview
Hides == cvTimer' = None /\ cvCard' = None

CvInit ==
    /\ cvGraph = [nodes |-> {}, at |-> [n \in {Ground} |-> Seed], pinned |-> {}, revision |-> 0, version |-> 0]
    /\ cvSim = [running |-> TRUE, at |-> [n \in {Ground} |-> Seed], held |-> {Ground}, revision |-> 0]
    /\ cvDrag = None /\ cvPan = FALSE /\ cvTimer = None /\ cvCard = None /\ cvSpent = 0

----------------------------------------------------------------------------
\* The graph

\* An expansion is answered, whatever the pointer does; it may bring a new
\* layout.
GrowCanvas ==
    /\ CvStep
    /\ \E nodes \in Shapes \ {cvGraph.nodes}, revised \in {0, 1} :
         /\ cvGraph.nodes \subseteq nodes
         /\ Becomes([cvGraph EXCEPT !.nodes = nodes, !.revision = @ + revised,
                        !.at = [n \in AllOf(nodes) |->
                            IF n \in AllOf(cvGraph.nodes) /\ revised = 0 THEN @[n] ELSE Seed]])
    /\ UNCHANGED <<cvDrag, cvPan, cvTimer, cvCard>>

\* A branch is collapsed by its toggle, which hides the card.
ShrinkCanvas ==
    /\ CvStep /\ cvDrag = None
    /\ \E gone \in Shapes \ {{}} :
         /\ gone \subseteq cvGraph.nodes
         /\ Becomes([cvGraph EXCEPT !.nodes = @ \ gone, !.pinned = @ \ gone,
                        !.at = [n \in AllOf(cvGraph.nodes) \ gone |-> @[n]]])
    /\ Hides /\ UNCHANGED <<cvDrag, cvPan>>

\* The button that lays the graph out again
RelayCanvas ==
    /\ CvStep /\ cvDrag = None
    /\ Becomes([cvGraph EXCEPT !.at = [n \in AllOf(cvGraph.nodes) |-> Seed], !.pinned = {}, !.revision = @ + 1])
    /\ UNCHANGED <<cvDrag, cvPan, cvTimer, cvCard>>

----------------------------------------------------------------------------
\* The simulation

\* A tick moves what is not held.
MoveTick ==
    /\ cvSim.running
    /\ \E n \in DOMAIN cvSim.at \ cvSim.held, p \in Corners : cvSim' = [cvSim EXCEPT !.at[n] = p]
    /\ UNCHANGED <<cvGraph, cvDrag, cvPan, cvTimer, cvCard, cvSpent>>

\* It ends once it is cool, which it does not become during a drag, and its
\* places are reported.
EndTicks ==
    /\ cvSim.running /\ cvDrag = None
    /\ cvSim' = [cvSim EXCEPT !.running = FALSE]
    /\ cvGraph' = Reported(cvSim.at, {})
    /\ UNCHANGED <<cvDrag, cvPan, cvTimer, cvCard, cvSpent>>

----------------------------------------------------------------------------
\* The pointer

\* holdDraggedNode
HeldAt(sim, n, p) ==
    IF n \notin DOMAIN sim.at THEN sim
    ELSE [sim EXCEPT !.at[n] = p, !.held = @ \union {n}]

StartDrag(n) ==
    /\ CvStep /\ cvDrag = None /\ n \in AllOf(cvGraph.nodes)
    /\ cvDrag' = n
    /\ \E p \in Corners : cvSim' = [HeldAt(cvSim, n, p) EXCEPT !.running = TRUE]
    /\ Hides /\ UNCHANGED <<cvGraph, cvPan>>

DragOn ==
    /\ cvDrag # None
    /\ \E p \in Corners : cvSim' = HeldAt(cvSim, cvDrag, p)
    /\ UNCHANGED <<cvGraph, cvDrag, cvPan, cvTimer, cvCard, cvSpent>>

\* The node is dropped: reported with all places and pinned, which the
\* simulation follows if it was not.
DropDragged ==
    /\ cvDrag # None
    /\ cvDrag' = None
    /\ \E p \in Corners :
         LET sim == HeldAt(cvSim, cvDrag, p)
             g == Reported(sim.at, {cvDrag} \intersect AllOf(cvGraph.nodes))
         IN  /\ cvGraph' = g
             /\ cvSim' = [sim EXCEPT !.running = TRUE,
                                     !.held = IF g.pinned = cvGraph.pinned THEN @ ELSE g.pinned \union {Ground}]
    /\ UNCHANGED <<cvPan, cvTimer, cvCard, cvSpent>>

\* onMoveStart, onMoveEnd
StartPan == CvStep /\ ~cvPan /\ cvPan' = TRUE /\ Hides /\ UNCHANGED <<cvGraph, cvSim, cvDrag>>
EndPan == cvPan /\ cvPan' = FALSE /\ UNCHANGED <<cvGraph, cvSim, cvDrag, cvTimer, cvCard, cvSpent>>

----------------------------------------------------------------------------
\* The hover card

Shows(preview) == cvCard' = IF cvDrag = None /\ ~cvPan THEN preview ELSE cvCard

\* showPreview: keyboard focus shows it at once, the pointer after a delay.
EnterDot(n) ==
    /\ CvStep /\ n \in AllOf(cvGraph.nodes)
    /\ LET preview == [node |-> n, version |-> cvGraph.version]
       IN  \/ cvTimer' = None /\ Shows(preview)
           \/ cvTimer' = preview /\ UNCHANGED cvCard
    /\ UNCHANGED <<cvGraph, cvSim, cvDrag, cvPan>>

LeaveDot ==
    /\ ~(cvTimer = None /\ cvCard = None)
    /\ Hides /\ UNCHANGED <<cvGraph, cvSim, cvDrag, cvPan, cvSpent>>

FireTimer ==
    /\ cvTimer # None
    /\ cvTimer' = None /\ Shows(cvTimer)
    /\ UNCHANGED <<cvGraph, cvSim, cvDrag, cvPan, cvSpent>>

\* previewArticle: a card of the graph shown now
CardShows == IF cvCard = None THEN FALSE ELSE cvCard.version = cvGraph.version /\ cvCard.node \in AllOf(cvGraph.nodes)

CvNext ==
    \/ GrowCanvas \/ ShrinkCanvas \/ RelayCanvas
    \/ MoveTick \/ EndTicks
    \/ DragOn \/ DropDragged \/ StartPan \/ EndPan \/ LeaveDot \/ FireTimer
    \/ \E n \in Dots \union {Ground} : StartDrag(n) \/ EnterDot(n)

CvSpec == CvInit /\ [][CvNext]_cvVars

----------------------------------------------------------------------------
\* What the canvas of a relation graph keeps.

\* Types: the simulation has the nodes of the graph, its places are of the
\* canvas, and the root is always held.
CvTypeOK ==
    /\ cvGraph.nodes \subseteq Dots /\ cvGraph.pinned \subseteq AllOf(cvGraph.nodes)
    /\ cvGraph.at \in [AllOf(cvGraph.nodes) -> Corners]
    /\ cvSim.at \in [AllOf(cvGraph.nodes) -> Corners]
    /\ Ground \in cvSim.held /\ cvSim.held \subseteq Dots \union {Ground}
    /\ cvSim.revision = cvGraph.revision
    /\ cvDrag \in Dots \union {Ground, None} /\ cvPan \in BOOLEAN
    /\ cvSpent \in 0..MaxCanvasSteps

\* What stands still is stored: a graph that is saved or left once nothing
\* moves has the places the reader sees.
StillIsStored == ~cvSim.running => cvSim.at = cvGraph.at

\* The hover card never covers a node being dragged nor a canvas being
\* panned, whenever its timer was started and whatever shows it.
CardStaysAway == CardShows => cvDrag = None /\ ~cvPan
=============================================================================
