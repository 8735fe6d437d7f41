------------------------------ MODULE Branches ------------------------------
(***************************************************************************)
(* The order of a relation graph's branches around its root: the sectors   *)
(* that the branches share, the order of siblings that their cross links   *)
(* ask for, and the turn of whole branches into another order.             *)
(*                                                                         *)
(* A node is its angle around the root, its distance is left out; nodes    *)
(* are numbered in the order they joined, 0 is the root.  Module Relations *)
(* leaves all of this to "turned": that no dropped node moves there is     *)
(* what this module is about.                                              *)
(***************************************************************************)
EXTENDS Integers, Sequences, SequencesExt, FiniteSetsExt, Page

CONSTANTS
    MaxBranches,    \* RELATION_NODE_LIMIT, without the root
    ChildLimit,     \* RELATION_CHILD_LIMIT
    Turn,           \* the angle of a full circle
    Spots,          \* angles a node drifts to or is dropped at
    MaxBranchSteps  \* bound on expansions, drifts, drops and new layouts

ASSUME BranchConstants ==
    /\ MaxBranches \in Nat /\ ChildLimit \in Nat /\ MaxBranchSteps \in Nat
    /\ Turn \in Nat \ {0} /\ Spots \subseteq 0..(Turn - 1)

VARIABLES
    brTree,    \* the nodes but the root: the path to each and its angle; crossLinks, pinnedIds
    brMoved,   \* nodes the last arrangement turned
    brSpent

brVars == <<brTree, brMoved, brSpent>>

\* normalizeAngle, relationAngleOffset: the signed way from a direction to
\* another, at most half a turn.
Normal(angle) == angle % Turn
Off(angle, reference) ==
    LET offset == Normal(angle - reference) IN IF offset > Turn \div 2 THEN offset - Turn ELSE offset
Magnitude(n) == IF n < 0 THEN -n ELSE n

Placed(t) == DOMAIN t.path
ParentOf(t, n) == t.path[n][Len(t.path[n]) - 1]
KidsOf(t, p) == {n \in Placed(t) : ParentOf(t, n) = p}

LeavesOf(t, n) == Cardinality({m \in Placed(t) : KidsOf(t, m) = {} /\ n \in ToSet(t.path[m])})
\* Ten times the square root of the leaves
WeightOf(t, n) ==
    LET squared == 100 * LeavesOf(t, n) IN CHOOSE w \in 10..squared : w * w <= squared /\ squared < (w + 1) * (w + 1)
WeightIn(t, S) == MapThenSumSet(LAMBDA n : WeightOf(t, n), S)

----------------------------------------------------------------------------
\* Pulls of the cross links

\* How much of their way from the root the ends of a link share
Shared(t, link) ==
    LET a == t.path[link[1]]
        b == t.path[link[2]]
    IN  Max({k \in 0..Min({Len(a), Len(b)}) : \A i \in 1..k : a[i] = b[i]})
PathTo(t, link, e) == t.path[link[e]]

\* A link from a node to its own ancestor pulls nothing.
Pulling(t) == {l \in t.cross : Shared(t, l) < Min({Len(PathTo(t, l, 1)), Len(PathTo(t, l, 2))})}

\* Children of p whose branches are linked
PairsOf(t, p) ==
    {[link |-> l, first |-> PathTo(t, l, 1)[Shared(t, l) + 1], second |-> PathTo(t, l, 2)[Shared(t, l) + 1]] :
        l \in {l \in Pulling(t) : PathTo(t, l, 1)[Shared(t, l)] = p}}

\* Children of p that lead to an end of a link that leaves the branch of p
FacingsOf(t, p) ==
    UNION {{[link |-> l, child |-> PathTo(t, l, e)[i + 1], target |-> l[3 - e]] :
                i \in {i \in (Shared(t, l) + 1)..(Len(PathTo(t, l, e)) - 1) : PathTo(t, l, e)[i] = p}} :
            l \in Pulling(t), e \in {1, 2}}

----------------------------------------------------------------------------
\* The order of siblings

Slot(n, order) == CHOOSE i \in DOMAIN order : order[i] = n

\* Siblings an order moves, a ring turned at will
Displaced(current, order, circular) ==
    LET k == Len(current)
    IN  Min({Cardinality({i \in 1..k : order[((i - 1 + shift) % k) + 1] # current[i]}) :
                shift \in IF circular THEN 0..(k - 1) ELSE {0}})

CostOf(order, pairs, wishes, circular) ==
    LET far(p) == LET d == Magnitude(Slot(p.first, order) - Slot(p.second, order))
                  IN  IF circular THEN Min({d, Len(order) - d}) ELSE d
        wrong(w) == Magnitude(Slot(w.child, order) - w.slot)
    IN  MapThenSumSet(far, pairs) + MapThenSumSet(wrong, wishes)

\* listPermutations, in the order it lists them
Earlier(a, b, current) ==
    \E i \in DOMAIN a : /\ \A j \in 1..(i - 1) : a[j] = b[j]
                        /\ Slot(a[i], current) < Slot(b[i], current)

Least(S, amount(_)) == LET least == Min({amount(o) : o \in S}) IN {o \in S : amount(o) = least}

\* chooseSiblingOrder: the least cost, then the fewest displaced
ChooseOrder(current, pairs, wishes, circular) ==
    LET cost(o) == CostOf(o, pairs, wishes, circular)
        moved(o) == Displaced(current, o, circular)
        best == Least(Least(SetToSeqs(ToSet(current)), cost), moved)
    IN  IF Len(current) \notin 2..ChildLimit \/ (pairs = {} /\ wishes = {}) THEN current
        ELSE CHOOSE o \in best : \A q \in best \ {o} : Earlier(o, q, current)

\* Seeded fault: only what leads to the pinned nodes.
AboveAlone(t) == UNION {ToSet(t.path[n]) \ {n} : n \in t.pinned}
\* The pinned nodes and all that leads to them
Anchored(t) == UNION {ToSet(t.path[n]) : n \in t.pinned}

\* orderSiblings: as they are if one is anchored, else as the links ask; a
\* target behind the branch pulls neither way.
OrderSiblings(t, p, current, middle) ==
    LET way(f) == Off(t.angle[f.target], middle)
        wishes == IF middle = None THEN {}
                  ELSE {[link |-> f.link, child |-> f.child, slot |-> IF way(f) < 0 THEN 1 ELSE Len(current)] :
                            f \in {f \in FacingsOf(t, p) : 20 * Magnitude(way(f)) <= 9 * Turn}}
    IN  IF ToSet(current) \intersect Anchored(t) # {} THEN current
        ELSE ChooseOrder(current, PairsOf(t, p), wishes, middle = None)

SortedBy(S, key(_)) == SetToSortSeq(S, LAMBDA a, b : key(a) < key(b) \/ (key(a) = key(b) /\ a < b))

----------------------------------------------------------------------------
\* Sectors

Middle(sector) == (sector.start + sector.end) \div 2

\* What a child gets of a sector shared in an order
ShareOf(t, sector, ordered, n) ==
    LET before == WeightIn(t, {ordered[i] : i \in 1..(Slot(n, ordered) - 1)})
        at(weight) == sector.start + ((sector.end - sector.start) * weight) \div WeightIn(t, ToSet(ordered))
    IN  [start |-> at(before), end |-> at(before + WeightOf(t, n))]

\* One value for each node, given those of the nodes before it; a singleton
\* binds what is given.
ForEach(t, Value(_, _)) ==
    LET extended(known, n) == CHOOSE all \in {Append(given, Value(given, n)) : given \in {known}} : TRUE
    IN  FoldLeft(extended, <<>>, [n \in Placed(t) |-> n])

\* computeRelationSectors: the first level shares the circle from the angle
\* that fits the current ones best, any here; each node's children its own.
Sectors(t, turned) ==
    LET round(c) == Normal(t.angle[c])
        first == OrderSiblings(t, 0, SortedBy(KidsOf(t, 0), round), None)
        sector(known, n) ==
            LET p == ParentOf(t, n)
                off(c) == Off(t.angle[c], Middle(known[p]))
            IN  IF p = 0 THEN ShareOf(t, [start |-> turned, end |-> turned + Turn], first, n)
                ELSE ShareOf(t, known[p], OrderSiblings(t, p, SortedBy(KidsOf(t, p), off), Middle(known[p])), n)
    IN  ForEach(t, sector)

\* arrangeRelationBranches: siblings in another order turn into their
\* sectors, with all that is in their branches.
Rotations(t, sectors) ==
    LET rotation(known, n) ==
            LET p == ParentOf(t, n)
                inherited == IF p = 0 THEN 0 ELSE known[p]
                reference == IF p = 0 THEN 0 ELSE Middle(sectors[p])
                now(c) == Off(t.angle[c] + inherited, reference)
                then(c) == Off(Middle(sectors[c]), reference)
                reordered == Displaced(SortedBy(KidsOf(t, p), now), SortedBy(KidsOf(t, p), then), p = 0) > 0
            IN  IF reordered THEN inherited + Off(Middle(sectors[n]), t.angle[n] + inherited) ELSE inherited
    IN  ForEach(t, rotation)

\* The branches of t are arranged, with a first level from turned.
Arranges(t, turned) ==
    LET rotations == Rotations(t, Sectors(t, turned))
    IN  /\ brTree' = [t EXCEPT !.angle = [n \in Placed(t) |-> Normal(@[n] + rotations[n])]]
        /\ brMoved' = {n \in Placed(t) : rotations[n] # 0}

----------------------------------------------------------------------------
BrStep == brSpent < MaxBranchSteps /\ brSpent' = brSpent + 1

\* placeRelationChildren: all around the root, or in a fan around where the
\* parent is; the turn to the side is what the fan shows from the root.
Fanned(p, at, k) ==
    [i \in 1..k |-> Normal(IF p = 0 THEN ((i - 1) * Turn) \div k - Turn \div 4
                                    ELSE at + ((2 * i - k - 1) * Turn) \div 24)]

Seeded(t, p, k) ==
    [t EXCEPT !.path = @ \o [i \in 1..k |-> (IF p = 0 THEN <<0>> ELSE @[p]) \o <<Len(@) + i>>],
              !.angle = @ \o Fanned(p, IF p = 0 THEN 0 ELSE @[p], k)]

\* A graph is first shown with the related articles of its root.
BrInit ==
    /\ \E k \in 0..Min({ChildLimit, MaxBranches}) :
         brTree = Seeded([path |-> <<>>, angle |-> <<>>, cross |-> {}, pinned |-> {}], 0, k)
    /\ brMoved = {} /\ brSpent = 0

\* expandRelationNode: the related articles that are new become children,
\* the others are linked; new links arrange the branches.
ExpandBranch(p) ==
    /\ BrStep /\ p \in Placed(brTree) /\ KidsOf(brTree, p) = {}
    /\ \E k \in 0..(MaxBranches - Len(brTree.path)), links \in SUBSET (Placed(brTree) \ {p}) :
         LET t == Seeded(brTree, p, k)
             linked == [t EXCEPT !.cross = @ \union {<<p, n>> : n \in links}]
         IN  /\ k <= ChildLimit
             /\ \A n \in links : ParentOf(t, n) # p /\ ParentOf(t, p) # n /\ {<<p, n>>, <<n, p>>} \intersect t.cross = {}
             /\ IF links = {} THEN brTree' = t /\ brMoved' = {}
                ELSE \E turned \in Spots : Arranges(linked, turned)

\* relayoutRelationGraph: every node is placed again and no pin is left.
RelayBranches ==
    /\ BrStep /\ Placed(brTree) # {}
    /\ LET t == brTree
           place(known, n) ==
             LET p == ParentOf(t, n)
                 kids == SortedBy(KidsOf(t, p), LAMBDA c : c)
             IN  Fanned(p, IF p = 0 THEN 0 ELSE known[p], Len(kids))[Slot(n, kids)]
       IN  \E turned \in Spots : Arranges([t EXCEPT !.angle = ForEach(t, place), !.pinned = {}], turned)

\* The simulation moves a node, or the reader drops it.
MoveBranch(n) ==
    /\ BrStep /\ n \in Placed(brTree)
    /\ \E at \in Spots \ {brTree.angle[n]}, pins \in BOOLEAN :
         /\ ~pins => n \notin brTree.pinned
         /\ brTree' = [brTree EXCEPT !.angle[n] = at, !.pinned = IF pins THEN @ \union {n} ELSE @]
    /\ brMoved' = {}

BrNext == RelayBranches \/ \E p \in 1..MaxBranches : ExpandBranch(p) \/ MoveBranch(p)

BrSpec == BrInit /\ [][BrNext]_brVars

----------------------------------------------------------------------------
\* What an arrangement of branches keeps.

\* Types: nodes hang on earlier ones or on the root and are on the circle;
\* links and pins are of nodes that are there.
BrTypeOK ==
    /\ Len(brTree.path) <= MaxBranches /\ Len(brTree.angle) = Len(brTree.path)
    /\ \A n \in Placed(brTree) :
         LET path == brTree.path[n]
             p == ParentOf(brTree, n)
         IN  /\ path = (IF p = 0 THEN <<0>> ELSE brTree.path[p]) \o <<n>> /\ p < n
             /\ brTree.angle[n] \in 0..(Turn - 1)
    /\ brTree.cross \subseteq Placed(brTree) \X Placed(brTree)
    /\ brTree.pinned \subseteq Placed(brTree) /\ brMoved \subseteq Placed(brTree)
    /\ brSpent \in 0..MaxBranchSteps

\* Where the reader has dropped a node it stays: no arrangement turns it, not
\* with its siblings, nor with a branch it is deep inside of.
DroppedStay == brMoved \intersect brTree.pinned = {}
=============================================================================
