------------------------------- MODULE Search -------------------------------
(***************************************************************************)
(* The search field of the search page: the query of the URL, the text     *)
(* being typed, the panel of rewrites, history and the builder, and the    *)
(* builder's rows, which the tab remembers with the query they made and    *)
(* shows as chips while that query is the one of the URL.                  *)
(*                                                                         *)
(* A condition is its one term: field, match and quoting are left out.  A  *)
(* query made by the builder is the words and connectives of its text and  *)
(* the beginnings of it that are in parentheses.  Every query that is      *)
(* typed by hand in the syntax of the index stands for one.                *)
(***************************************************************************)
EXTENDS Naturals, SequencesExt, Page

CONSTANTS
    Terms,           \* a set of positive naturals, to search for and to name a row by
    FieldWords,           \* the terms that are typed into the field
    MaxConditions,   \* SEARCH_BUILDER_MAX_CONDITIONS
    MaxHistory,      \* MAX_HISTORY_ITEMS
    MaxMatches,      \* MAX_ASSIST_HISTORY_ITEMS
    MaxSearchSteps   \* bound on the searches, visits and edits of a behaviour

ASSUME SearchConstants ==
    /\ Terms \in SUBSET (Nat \ {0}) /\ None \notin Terms /\ FieldWords \subseteq Terms
    /\ MaxConditions \in 2..Cardinality(Terms)
    /\ MaxHistory \in Nat \ {0} /\ MaxMatches \in 1..MaxHistory /\ MaxSearchSteps \in Nat

VARIABLES
    srQuery,    \* q, the query of the URL, or None
    srDraft,    \* inputValue
    srStored,   \* the session's builder rows with the query they made, or None
    srShown,    \* storedBuilder, what the field last read or wrote of them
    srKeeps,    \* the session storage takes what is written
    srHistory,  \* the search history of the browser
    srListed,   \* searchHistory, what the field last read of it
    srOpen,     \* showHistory
    srAt,       \* the active option of the panel, 0 for none
    srRows,     \* the rows of the open builder, or None
    srSpent     \* searches, visits and edits so far

srText == <<srQuery, srDraft>>
srSession == <<srStored, srShown, srKeeps>>
srPast == <<srHistory, srListed>>
srPanel == <<srOpen, srAt>>
srVars == <<srText, srSession, srPast, srPanel, srRows, srSpent>>

Connectors == {"AND", "OR", "NOT"}
Row == [of : Terms, con : Connectors, on : BOOLEAN]

----------------------------------------------------------------------------
\* Queries

Typed(by, words) == [by |-> by, words |-> words, cons |-> <<>>, nested |-> {}]
Plain(w) == Typed("hand", <<w>>)
Syntax == Typed("syntax", <<>>)
IsPlain(text) == text.by = "hand"

\* Seeded fault: the first join is left bare.
NestedLate(n) == 3..(n - 1)

\* What was accumulated is put in parentheses before it is joined to a row
\* that is not the second.
Nested(n) == 2..(n - 1)

Active(rows) == SelectSeq(rows, LAMBDA row : row.on)

\* Nothing comes before an exclusion that it could exclude from.
Faulty(rows) == Active(rows) = <<>> \/ Active(rows)[1].con = "NOT"

Compiled(rows) ==
    LET of == Active(rows) IN
    [by |-> "builder", words |-> [i \in DOMAIN of |-> of[i].of],
     cons |-> [i \in DOMAIN of |-> IF i = 1 THEN "AND" ELSE of[i].con], nested |-> Nested(Len(of))]

\* The least terms that name no row yet.
Unused(rows) == {t \in Terms : \A i \in DOMAIN rows : rows[i].of # t}
Fresh(rows) == Append(rows, [of |-> CHOOSE t \in Unused(rows) : \A u \in Unused(rows) : t <= u,
                             con |-> "AND", on |-> FALSE])
TwoFresh == Fresh(Fresh(<<>>))

Remembers(snapshot, query) == snapshot # None /\ query # None /\ snapshot.query = query

\* appliedConditions
Chips == IF Remembers(srShown, srQuery) THEN srShown.rows ELSE <<>>

----------------------------------------------------------------------------
\* Searching

Spent == srSpent < MaxSearchSteps /\ srSpent' = srSpent + 1

\* saveSearchHistory
WithPast(text) ==
    LET all == <<text>> \o SelectSeq(srHistory, LAMBDA past : past # text)
    IN  SubSeq(all, 1, IF Len(all) < MaxHistory THEN Len(all) ELSE MaxHistory)

\* handleSearch with what the field keeps of the builder: another query in
\* the URL makes the field read it again.
SearchFor(text, shown, stored) ==
    /\ Spent
    /\ srQuery' = text /\ srDraft' = text
    /\ srStored' = stored /\ srShown' = IF text # srQuery THEN stored ELSE shown
    /\ srHistory' = IF text = None THEN srHistory ELSE WithPast(text)
    /\ srListed' = IF text = None THEN srListed ELSE WithPast(text)
    /\ srOpen' = FALSE /\ srAt' = 0

Submit ==
    /\ srRows = None
    /\ SearchFor(srDraft, srShown, srStored)
    /\ UNCHANGED <<srKeeps, srRows>>

\* Rows go to the session with the query they made, if it takes them.
SearchBuilt(text, rows) ==
    LET snapshot == [query |-> text, rows |-> rows]
    IN  SearchFor(text, snapshot, IF srKeeps THEN snapshot ELSE srStored)

\* A chip may go unless an exclusion would be left first.
RemoveChip(i) ==
    LET rest == RemoveAt(Chips, i) IN
    /\ srRows = None /\ i \in DOMAIN Chips
    /\ rest = <<>> \/ ~Faulty(rest)
    /\ SearchBuilt(IF rest = <<>> THEN None ELSE Compiled(rest), rest)
    /\ UNCHANGED <<srKeeps, srRows>>

----------------------------------------------------------------------------
\* The panel

\* buildAssistOptions: rewrites of the draft, all but the plain ones into
\* the syntax of the index; the past queries it is part of; the builder.
PartOf(past, text) ==
    \/ text = None
    \/ past # text /\ IsPlain(text) /\ Head(text.words) \in ToSet(past.words)
Matching(text, listed) ==
    LET all == SelectSeq(listed, LAMBDA past : PartOf(past, text))
        most == IF text = None THEN MaxHistory ELSE MaxMatches
    IN  SubSeq(all, 1, IF Len(all) < most THEN Len(all) ELSE most)
Options(listed) ==
    (IF srDraft = None THEN <<>> ELSE <<[kind |-> "rewrite", to |-> Syntax]>>)
    \o [i \in DOMAIN Matching(srDraft, listed) |-> [kind |-> "history", to |-> Matching(srDraft, listed)[i]]]
    \o <<[kind |-> "builder", to |-> None]>>

Type(text) ==
    /\ srRows = None /\ text # srDraft
    /\ srDraft' = text /\ srOpen' = TRUE /\ srAt' = 0
    /\ UNCHANGED <<srQuery, srSession, srPast, srRows, srSpent>>

\* The cross in the field.
ClearDraft ==
    /\ srRows = None /\ srDraft # None
    /\ srDraft' = None /\ srAt' = 0
    /\ UNCHANGED <<srQuery, srSession, srPast, srOpen, srRows, srSpent>>

ClickField ==
    /\ srRows = None
    /\ srListed' = srHistory /\ srOpen' = TRUE
    /\ UNCHANGED <<srText, srSession, srHistory, srAt, srRows, srSpent>>

\* The arrows read the history if the field has none, and stop at the ends.
Arrow(down) ==
    LET listed == IF srListed = <<>> THEN srHistory ELSE srListed
        last == Len(Options(listed))
    IN  /\ srRows = None
        /\ srListed' = listed /\ srOpen' = TRUE
        /\ srAt' = IF down THEN (IF srAt < last THEN srAt + 1 ELSE last)
                   ELSE IF srAt = 0 THEN last ELSE IF srAt > 1 THEN srAt - 1 ELSE 1
        /\ UNCHANGED <<srText, srSession, srHistory, srRows, srSpent>>

\* Escape, or a click elsewhere.
ClosePanel ==
    /\ srOpen /\ srOpen' = FALSE /\ srAt' = 0
    /\ UNCHANGED <<srText, srSession, srPast, srRows, srSpent>>

ClearHistory ==
    /\ srOpen /\ \E option \in ToSet(Options(srListed)) : option.kind = "history"
    /\ srHistory' = <<>> /\ srListed' = <<>> /\ srAt' = 0
    /\ UNCHANGED <<srText, srSession, srOpen, srRows, srSpent>>

\* getInitialConditions: the rows that made the query of the URL, a plain
\* query as the first row, or none of what was written by hand.
FirstRows ==
    IF Remembers(srStored, srQuery) THEN srStored.rows
    ELSE IF srQuery # None /\ IsPlain(srQuery)
    THEN Fresh(<<[of |-> Head(srQuery.words), con |-> "AND", on |-> TRUE]>>)
    ELSE TwoFresh

OpenBuilder ==
    /\ srRows = None
    /\ srRows' = FirstRows
    /\ srOpen' = FALSE /\ srAt' = 0
    /\ UNCHANGED <<srText, srSession, srPast, srSpent>>

\* applyOption, by a click or by Enter: a rewrite only changes the draft.
ChooseOption(i) ==
    LET option == Options(srListed)[i] IN
    /\ srOpen /\ i \in DOMAIN Options(srListed)
    /\ CASE option.kind = "history" -> SearchFor(option.to, srShown, srStored) /\ UNCHANGED <<srKeeps, srRows>>
         [] option.kind = "rewrite" -> /\ srDraft' = option.to /\ srAt' = 0
                                       /\ UNCHANGED <<srQuery, srSession, srPast, srOpen, srRows, srSpent>>
         [] OTHER -> OpenBuilder

\* Enter takes the active option, or else submits the draft.
PressEnter ==
    /\ srRows = None
    /\ IF srOpen /\ srAt \in DOMAIN Options(srListed) THEN ChooseOption(srAt) ELSE Submit

----------------------------------------------------------------------------
\* The builder

Building == srRows # None /\ UNCHANGED <<srText, srSession, srPast, srPanel>>

\* The connective of the first row shows only to take an exclusion back.
EditRow(i) ==
    /\ Building /\ Spent /\ i \in DOMAIN srRows
    /\ \/ \E on \in BOOLEAN : on # srRows[i].on /\ srRows' = [srRows EXCEPT ![i].on = on]
       \/ /\ i = 1 => srRows[1].con = "NOT"
          /\ \E con \in Connectors \ {srRows[i].con} : srRows' = [srRows EXCEPT ![i].con = con]
RemoveRow(i) ==
    /\ Building /\ Spent /\ i \in DOMAIN srRows
    /\ srRows' = IF Len(srRows) = 1 THEN Fresh(<<>>) ELSE RemoveAt(srRows, i)
AddRow == Building /\ Spent /\ Len(srRows) < MaxConditions /\ srRows' = Fresh(srRows)
ClearRows == Building /\ Spent /\ srRows' = TwoFresh
CloseBuilder == Building /\ srRows' = None /\ UNCHANGED srSpent

SubmitBuilder ==
    /\ srRows # None /\ ~Faulty(srRows)
    /\ SearchBuilt(Compiled(srRows), Active(srRows))
    /\ srRows' = None /\ UNCHANGED srKeeps

----------------------------------------------------------------------------
\* The URL and other tabs

\* Another query comes into the URL: a database was chosen, a link followed.
\* The page may also be mounted anew, as a reload does.
VisitUrl(text, anew) ==
    /\ Spent
    /\ anew \/ (text # srQuery /\ srRows = None)
    /\ srQuery' = text
    /\ srDraft' = text /\ srShown' = srStored
    /\ srListed' = IF anew THEN <<>> ELSE srListed
    /\ srOpen' = (srOpen /\ ~anew) /\ srAt' = IF anew THEN 0 ELSE srAt
    /\ srRows' = IF anew THEN None ELSE srRows
    /\ UNCHANGED <<srStored, srKeeps, srHistory>>

\* Another tab searches or clears the history they share.
OtherTab(text) ==
    /\ Spent
    /\ srHistory' = IF text = None THEN <<>> ELSE WithPast(text)
    /\ UNCHANGED <<srText, srSession, srListed, srPanel, srRows>>

HandTexts == {None, Syntax} \union {Plain(w) : w \in FieldWords}

SrInit ==
    /\ srQuery \in HandTexts /\ srDraft = srQuery
    /\ srStored = None /\ srShown = None /\ srKeeps \in BOOLEAN
    /\ srHistory = <<>> /\ srListed = <<>> /\ srOpen = FALSE /\ srAt = 0
    /\ srRows = None /\ srSpent = 0

SrNext ==
    \/ Submit \/ PressEnter \/ ClearDraft \/ ClickField \/ ClosePanel \/ ClearHistory
    \/ \E down \in BOOLEAN : Arrow(down)
    \/ \E text \in HandTexts : Type(text) \/ OtherTab(text)
    \/ \E i \in 1..(MaxHistory + 2) : ChooseOption(i)
    \/ \E i \in 1..MaxConditions : RemoveChip(i) \/ EditRow(i) \/ RemoveRow(i)
    \/ OpenBuilder \/ AddRow \/ ClearRows \/ CloseBuilder \/ SubmitBuilder
    \/ \E text \in {None} \union ToSet(srHistory), anew \in BOOLEAN : VisitUrl(text, anew)

SrSpec == SrInit /\ [][SrNext]_srVars

----------------------------------------------------------------------------
\* What the chips say and what the index answers.

IsText(text) ==
    /\ text.by \in {"hand", "syntax", "builder"}
    /\ ToSet(text.words) \subseteq Terms /\ ToSet(text.cons) \subseteq Connectors
    /\ text.nested \subseteq 1..MaxConditions
IsSnapshot(of) == IsText(of.query) /\ ToSet(of.rows) \subseteq Row

SrTypeOK ==
    /\ srQuery # None => IsText(srQuery)
    /\ srDraft # None => IsText(srDraft)
    /\ srStored # None => srStored.query = None \/ IsSnapshot(srStored)
    /\ srShown # None => srShown.query = None \/ IsSnapshot(srShown)
    /\ srKeeps \in BOOLEAN /\ srOpen \in BOOLEAN /\ srAt \in 0..(MaxHistory + 2)
    /\ Len(srHistory) <= MaxHistory /\ Len(srListed) <= MaxHistory
    /\ srRows # None => Len(srRows) \in 1..MaxConditions /\ ToSet(srRows) \subseteq Row
    /\ srSpent \in 0..MaxSearchSteps

\* The articles the index finds: an article is the set of terms it has.  OR
\* binds weaker than AND and NOT, so that a text without parentheses is the
\* union of its runs between ORs; a parenthesised beginning is one operand.
Library == SUBSET Terms
Found(text) ==
    LET upTo[k \in 1..Len(text.words)] ==
            LET inner == {j \in text.nested : j < k}
                first == IF inner = {} THEN 1 ELSE CHOOSE j \in inner : \A i \in inner : i <= j
                docs == [i \in first..k |->
                            IF i = first /\ inner # {} THEN upTo[first]
                            ELSE {x \in Library : text.words[i] \in x}]
                Starts == {i \in first..k : i = first \/ text.cons[i] = "OR"}
                Run(s) == {i \in s..k : \A t \in Starts : t <= s \/ i < t}
            IN  {x \in Library : \E s \in Starts : \A i \in Run(s) :
                    (i # s /\ text.cons[i] = "NOT") # (x \in docs[i])}
    IN  upTo[Len(text.words)]

\* What the chips say, one after the other: also, or else, but not.
Narrowed(found, row) ==
    LET these == {x \in Library : row.of \in x}
    IN  CASE row.con = "AND" -> found \intersect these
          [] row.con = "OR"  -> found \union these
          [] row.con = "NOT" -> found \ these
Said(rows) == FoldLeft(Narrowed, {x \in Library : rows[1].of \in x}, Tail(rows))

\* While conditions are shown under the field, the query of the URL finds
\* what they say one after the other: after searches, chips removed, other
\* queries visited, reloads, and when the session storage takes nothing.
ChipsTellTheQuery == Chips # <<>> => Found(srQuery) = Said(Chips)
=============================================================================
