-------------------------- MODULE ReaderProperties --------------------------
(* What the reader is shown of the articles of a search and of the relation *)
(* graph around one.                                                        *)
EXTENDS Reading, ArticleDetail, RelationsProperties, Canvas, Explorer

\* The desk keeps no article whose row has gone, and the view of an article
\* offers full text only from an answer of now.
ReaderShowsNow == SelectionIsShown /\ FullTextIsFresh

\* What the reader sees of a relation graph is the graph: the canvas shows the
\* one that is saved and left, its places are stored once it stands still, no
\* card covers it while it is moved, and the article selected is one of its
\* nodes (relation-canvas.tsx, relations-workspace-view.tsx:425).
GraphHolds == CanvasShowsGraph /\ StillIsStored /\ CardStaysAway /\ SelectionIsANode
=============================================================================
