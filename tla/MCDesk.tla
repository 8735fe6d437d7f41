------------------------------- MODULE MCDesk -------------------------------
(* The pages of the reading desk and the pushes of the week, one at a time: *)
(* each behaviour is one of the module named by live, the others stay as    *)
(* they start.                                                              *)
EXTENDS ManualPushProperties, ReaderProperties,
        Search, Filters, Weekly, Branches, Highlight, TLC

CONSTANTS n0, n1, n2, n3, d1, d2, w1, w2, o1, o2, j1, m0, m1, m2

Ring == (n0 :> <<n1>> @@ n1 :> <<n2, n3>> @@ n2 :> <<n1, n0, n3>> @@ n3 :> <<n0>>)

TwoDatabases == <<d1, d2>>
YearsApart == d1 :> <<1, 2>> @@ d2 :> <<2, 3>>

VARIABLE live   \* the part that moves

deskVars == <<live, relVars, pushVars, rdVars, adVars, srVars, flVars, wkVars, brVars, cvVars, exVars, hlVars>>

DeskInit ==
    /\ live \in {"relations", "push", "reading", "article", "search", "filters", "weekly", "branches", "canvas",
                 "explorer", "highlight"}
    /\ RelInit /\ PushInit
    /\ IF live = "reading" THEN RdInit ELSE RdInit /\ rdDocked
    /\ IF live = "article" THEN AdInit ELSE AdInit /\ adSession
    /\ IF live = "search" THEN SrInit /\ srQuery # Syntax /\ srKeeps = (srQuery # None)
                         ELSE SrInit /\ srQuery = None /\ srKeeps
    /\ IF live = "filters" THEN FlInit /\ flOffered[d1] # {} /\ flOffered[d2] = {}
                          ELSE FlInit /\ flSelected = None /\ \A d \in Sources : flOffered[d] = {}
    /\ WkInit /\ wkUrl = [db |-> None, journal |-> None, q |-> None]
    /\ IF live = "branches" THEN BrInit ELSE BrInit /\ Placed(brTree) = {}
    /\ CvInit
    /\ IF live = "explorer" THEN ExInit ELSE ExInit /\ exDb = d1 /\ exDocked
    /\ HlInit

\* The two children are alike: the first to be spawned is w1.
FirstChildFirst == pushChild'[w2] = Unborn \/ pushChild[w1] # Unborn

\* A step is one of the part that moves; what the others keep is grouped.
readerVars == <<rdVars, adVars, srVars, flVars, hlVars>>
graphVars == <<relVars, brVars, cvVars, exVars>>

OnRelations == live = "relations" /\ UNCHANGED <<live, pushVars, readerVars, wkVars, brVars, cvVars, exVars>> /\ RelNext
OnBranches  == live = "branches" /\ UNCHANGED <<live, pushVars, readerVars, wkVars, relVars, cvVars, exVars>> /\ BrNext
OnCanvas    == live = "canvas" /\ UNCHANGED <<live, pushVars, readerVars, wkVars, relVars, brVars, exVars>> /\ CvNext
OnExplorer  == live = "explorer" /\ UNCHANGED <<live, pushVars, readerVars, wkVars, relVars, brVars, cvVars>> /\ ExNext
OnPush      == live = "push" /\ UNCHANGED <<live, graphVars, readerVars, wkVars>> /\ PushNext /\ FirstChildFirst
OnReading   == live = "reading" /\ UNCHANGED <<live, adVars, srVars, flVars, hlVars, graphVars, pushVars, wkVars>> /\ RdNext
OnArticle   == live = "article" /\ UNCHANGED <<live, rdVars, srVars, flVars, hlVars, graphVars, pushVars, wkVars>> /\ AdNext
OnSearch    == live = "search" /\ UNCHANGED <<live, rdVars, adVars, flVars, hlVars, graphVars, pushVars, wkVars>> /\ SrNext
OnFilters   == live = "filters" /\ UNCHANGED <<live, rdVars, adVars, srVars, hlVars, graphVars, pushVars, wkVars>> /\ FlNext
OnHighlight == live = "highlight" /\ UNCHANGED <<live, rdVars, adVars, srVars, flVars, graphVars, pushVars, wkVars>> /\ HlNext
OnWeekly    == live = "weekly" /\ UNCHANGED <<live, graphVars, pushVars, readerVars>> /\ WkNext

DeskNext ==
    \/ OnRelations \/ OnBranches \/ OnCanvas \/ OnPush \/ OnReading
    \/ OnArticle \/ OnSearch \/ OnFilters \/ OnWeekly \/ OnExplorer \/ OnHighlight

DeskSpec == DeskInit /\ [][DeskNext]_deskVars

\* Types: the part that moves keeps the shapes its module states.
DeskTypeOK ==
    /\ live = "relations" => RelTypeOK
    /\ live = "push" => PushTypeOK
    /\ live = "reading" => RdTypeOK
    /\ live = "article" => AdTypeOK
    /\ live = "search" => SrTypeOK
    /\ live = "filters" => FlTypeOK
    /\ live = "weekly" => WkTypeOK
    /\ live = "branches" => BrTypeOK
    /\ live = "canvas" => CvTypeOK
    /\ live = "explorer" => ExTypeOK
    /\ live = "highlight" => HlTypeOK

\* The chips under the field say what the query finds, and the words marked in
\* the articles are those it looks for (search-builder.tsx:148,
\* fts-highlight.tsx:218).
SearchIsTold == ChipsTellTheQuery /\ MarksWhatIsSought
=============================================================================
