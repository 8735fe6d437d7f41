------------------------------ MODULE Filters ------------------------------
(***************************************************************************)
(* The filter pills of the search page: the database, which the browser    *)
(* keeps for all its tabs, and the filters of the URL, which are picked    *)
(* among what the metadata queries of that database offer.                 *)
(*                                                                         *)
(* A database offers one value of each kind, so that a value tells where   *)
(* it was picked.  Months are numbered from the first month of the year 0. *)
(* A metadata query that fails is one that is not answered.                *)
(***************************************************************************)
EXTENDS Naturals, SequencesExt, Page

CONSTANTS
    DatabaseOrder,   \* the databases, in the order they are listed
    YearsOf,         \* of each, the first and last year of its articles
    MonthsPerYear,   \* 12
    CurrentMonth,    \* the month it is
    RecentYears,     \* RECENT_YEAR_OPTIONS
    MaxFilterSteps   \* bound on what is picked, chosen and changed elsewhere

Sources == ToSet(DatabaseOrder)

ASSUME FilterConstants ==
    /\ DatabaseOrder \in Seq(Sources) /\ None \notin Sources /\ MonthsPerYear \in Nat \ {0} /\ CurrentMonth \in Nat
    /\ YearsOf \in [Sources -> Nat \X Nat] /\ \A d \in Sources : YearsOf[d][1] <= YearsOf[d][2]
    /\ RecentYears \subseteq Nat \ {0} /\ MaxFilterSteps \in Nat

VARIABLES
    flServed,    \* the databases the server has
    flNames,     \* the databases as last read, or None
    flSelected,  \* the database the browser keeps; None is a default nobody lists
    flOffered,   \* of each database, the metadata read
    flPicked,    \* of each kind of filter, the values in the URL
    flMonths,    \* month_range: first and last month, or None
    flCustom,    \* isCustomRequested
    flForeign,   \* filters stand that were not picked for this database here
    flSpent

flDatabase == <<flServed, flNames, flSelected>>
flUrl == <<flPicked, flMonths>>
flVars == <<flDatabase, flOffered, flUrl, flCustom, flForeign, flSpent>>

\* The research areas, the journals, and the grades of the rating systems
Facets == {"areas", "journals", "ratings"}
Step == flSpent < MaxFilterSteps /\ flSpent' = flSpent + 1

\* The one listed first
Leading(names) ==
    CHOOSE d \in names : \E i \in DOMAIN DatabaseOrder :
        DatabaseOrder[i] = d /\ \A j \in 1..(i - 1) : DatabaseOrder[j] \notin names

\* resolveAvailableSelectedDatabase
Offered(selected, names) ==
    IF names = None \/ names = {} \/ selected \in names THEN selected ELSE Leading(names)
Source == Offered(flSelected, flNames)

NothingPicked == [f \in Facets |-> {}]

\* Seeded fault: a change of the database forgets one group.
AllButRatings == [NothingPicked EXCEPT !["ratings"] = flPicked["ratings"]]
\* What a change of the database leaves of the filters.
LeftOver == NothingPicked

Filtered(picked, months) == picked # NothingPicked \/ months # None

----------------------------------------------------------------------------
\* Months

MinOf(a, b) == IF a <= b THEN a ELSE b
MaxOf(a, b) == IF a <= b THEN b ELSE a
MonthKey(year, month) == year * MonthsPerYear + month - 1
YearOf(m) == m \div MonthsPerYear
Full(years) == <<MonthKey(years[1], 1), MonthKey(years[2], MonthsPerYear)>>

Ordered(a, b) == <<MinOf(a, b), MaxOf(a, b)>>
ClampToYears(m, years) ==
    IF YearOf(m) < years[1] THEN MonthKey(years[1], 1)
    ELSE IF YearOf(m) > years[2] THEN MonthKey(years[2], MonthsPerYear) ELSE m

\* resolveMonthRangeForYears: the range as the panel shows it.
RangeFor(range, years) ==
    IF range = None THEN Full(years) ELSE Ordered(ClampToYears(range[1], years), ClampToYears(range[2], years))

\* buildRecentMonthRange ends with this month, or with a last year that is
\* over, and does not begin before the first year.
RecentRange(count, years) ==
    LET last == IF years[2] = YearOf(CurrentMonth) THEN CurrentMonth ELSE Full(years)[2]
        begin == Full(years)[1]
        span == count * MonthsPerYear
    IN  <<IF last + 1 < begin + span THEN begin ELSE last + 1 - span, last>>

----------------------------------------------------------------------------
\* Databases

\* reconcileSelectedDatabase runs whenever the names or the selection
\* change, and leaves the filters alone.
Reconciled(selected, names) ==
    /\ flNames' = names
    /\ flSelected' = Offered(selected, names)
    /\ flForeign' = (flForeign \/ (Offered(selected, names) # Source /\ Filtered(flPicked, flMonths)))

ReadNames ==
    /\ flNames # flServed
    /\ Reconciled(flSelected, flServed)
    /\ UNCHANGED <<flServed, flOffered, flUrl, flCustom, flSpent>>

ServerChanges(d) ==
    /\ Step
    /\ flServed' = IF d \in flServed THEN flServed \ {d} ELSE flServed \union {d}
    /\ UNCHANGED <<flNames, flSelected, flOffered, flUrl, flCustom, flForeign>>

\* handleDatabaseChange
ChooseSource(d) ==
    /\ Step /\ flNames # None /\ d \in flNames /\ d # Source
    /\ flSelected' = d
    /\ flPicked' = LeftOver /\ flMonths' = None /\ flForeign' = FALSE
    /\ UNCHANGED <<flServed, flNames, flOffered, flCustom>>

\* The event of a selection in another tab: the URL of this one stays.
OtherTabChooses(d) ==
    /\ Step /\ d # flSelected
    /\ Reconciled(d, flNames)
    /\ UNCHANGED <<flServed, flOffered, flUrl, flCustom>>

ReadMetadata(f) ==
    /\ Source \in flServed /\ f \notin flOffered[Source]
    /\ flOffered' = [flOffered EXCEPT ![Source] = @ \union {f}]
    /\ UNCHANGED <<flDatabase, flUrl, flCustom, flForeign, flSpent>>

----------------------------------------------------------------------------
\* Filters

Values(f) == IF f \in flOffered[Source] THEN {Source} ELSE {}

\* What is listed is toggled; what is picked and not listed stays.
Toggle(f) ==
    /\ Step /\ f \in Facets
    /\ \E v \in Values(f) :
        flPicked' = [flPicked EXCEPT ![f] = IF v \in @ THEN @ \ {v} ELSE @ \union {v}]
    /\ UNCHANGED <<flDatabase, flOffered, flMonths, flCustom, flForeign>>

ClearFacet(f) ==
    /\ Step /\ f \in Facets /\ flPicked[f] # {}
    /\ flPicked' = [flPicked EXCEPT ![f] = {}]
    /\ flForeign' = (flForeign /\ Filtered(flPicked', flMonths))
    /\ UNCHANGED <<flDatabase, flOffered, flMonths, flCustom>>

ClearFilters ==
    /\ Step /\ Filtered(flPicked, flMonths)
    /\ flPicked' = NothingPicked /\ flMonths' = None /\ flForeign' = FALSE
    /\ UNCHANGED <<flDatabase, flOffered, flCustom>>

Bounded == "years" \in flOffered[Source]
Shown == RangeFor(flMonths, YearsOf[Source])
IsRecent(range) == \E n \in RecentYears : range = RecentRange(n, YearsOf[Source])

Unlimit ==
    /\ Step /\ flMonths # None
    /\ flMonths' = None /\ flCustom' = FALSE
    /\ flForeign' = (flForeign /\ flPicked # NothingPicked)
    /\ UNCHANGED <<flDatabase, flOffered, flPicked>>

ChooseRecent(n) ==
    /\ Step /\ Bounded /\ n \in RecentYears
    /\ flMonths' = RecentRange(n, YearsOf[Source]) /\ flCustom' = FALSE
    /\ UNCHANGED <<flDatabase, flOffered, flPicked, flForeign>>

AskCustom ==
    /\ Bounded /\ flCustom' = TRUE
    /\ UNCHANGED <<flDatabase, flOffered, flUrl, flForeign, flSpent>>

\* handleMonthRangeCommit, for the end that was changed: the whole range of
\* the database is no filter.
SetMonth(range) ==
    LET kept == RangeFor(range, YearsOf[Source])
    IN  flMonths' = IF kept = Full(YearsOf[Source]) THEN None ELSE kept
CommitMonths(end) ==
    /\ Step /\ Bounded
    /\ flCustom \/ (flMonths # None /\ ~IsRecent(Shown))
    /\ \E year \in YearsOf[Source][1]..YearsOf[Source][2], month \in 1..MonthsPerYear :
        /\ year = YearOf(Shown[end]) \/ month = (Shown[end] % MonthsPerYear) + 1
        /\ SetMonth(Ordered(MonthKey(year, month), Shown[3 - end]))
    /\ UNCHANGED <<flDatabase, flOffered, flPicked, flCustom, flForeign>>

\* A link, which names no database, is followed.
FollowLink(d) ==
    /\ Step
    /\ flPicked' = [f \in Facets |-> IF f = "journals" THEN {d} ELSE {}] /\ flMonths' = Full(YearsOf[d])
    /\ flForeign' = TRUE
    /\ UNCHANGED <<flDatabase, flOffered, flCustom>>

FlInit ==
    /\ flServed = Sources /\ flNames = None /\ flSelected \in Sources \union {None}
    /\ \E kept \in SUBSET Sources :   \* what the cache still has
        flOffered = [d \in Sources \union {None} |-> IF d \in kept THEN Facets \union {"years"} ELSE {}]
    /\ flPicked = NothingPicked /\ flMonths = None
    /\ flCustom = FALSE /\ flForeign = FALSE /\ flSpent = 0

FlNext ==
    \/ ReadNames \/ ClearFilters \/ Unlimit \/ AskCustom
    \/ \E d \in Sources : ServerChanges(d) \/ ChooseSource(d) \/ OtherTabChooses(d) \/ FollowLink(d)
    \/ \E f \in Facets \union {"years"} : ReadMetadata(f) \/ Toggle(f) \/ ClearFacet(f)
    \/ \E n \in RecentYears : ChooseRecent(n)
    \/ \E end \in {1, 2} : CommitMonths(end)

FlSpec == FlInit /\ [][FlNext]_flVars

----------------------------------------------------------------------------
\* What the filters of the URL are filters of.

FlTypeOK ==
    /\ flServed \subseteq Sources
    /\ flNames # None => flNames \subseteq Sources
    /\ flSelected \in Sources \union {None}
    /\ flOffered \in [Sources \union {None} -> SUBSET (Facets \union {"years"})]
    /\ flPicked \in [Facets -> SUBSET Sources]
    /\ flMonths # None => flMonths \in Nat \X Nat
    /\ flCustom \in BOOLEAN /\ flForeign \in BOOLEAN /\ flSpent \in 0..MaxFilterSteps

\* Filters picked in this tab are offered by the database that is searched,
\* and the months lie in its years, first month first: through changes of
\* the database, shortcuts and months set one end at a time.  Filters that
\* came with a link, or that stayed when another tab or the server changed
\* the database, are left out until they are cleared.
FiltersFitDatabase ==
    ~flForeign =>
        /\ \A f \in Facets : flPicked[f] \subseteq Values(f)
        /\ flMonths # None =>
             /\ Bounded /\ flMonths[1] <= flMonths[2]
             /\ Full(YearsOf[Source])[1] <= flMonths[1] /\ flMonths[2] <= Full(YearsOf[Source])[2]
=============================================================================
