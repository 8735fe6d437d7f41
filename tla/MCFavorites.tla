---------------------------- MODULE MCFavorites ----------------------------
EXTENDS FavoritesProperties

CONSTANT MaxReads   \* bound on the reads under way at a time

\* Every article starts in the first folder and in no other: a behaviour
\* spends a step to have it in two.
FavTruthInit == FavInit /\ \A f \in Folders : f # Min(Folders) => holds[f] = {}

ReadsUnderWay ==
    Cardinality({a \in Articles : member[a].call # None})
    + Cardinality({f \in Folders : list[f].call})
    + (IF folders.call THEN 1 ELSE 0)
    + (IF batch.status = "pending" THEN 1 ELSE 0)

FavTruthSpec == FavTruthInit /\ [][FavNext /\ ReadsUnderWay' <= MaxReads]_favVars
=============================================================================
