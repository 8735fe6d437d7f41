------------------------------- MODULE Reading -------------------------------
(***************************************************************************)
(* The reading workspace of the search page: result pages loaded and       *)
(* revealed as the reader scrolls, the selected row in the docked desk or  *)
(* the sheet of a row on a narrow screen, and the related articles opened  *)
(* on top of it.  A search that was read before shows its cached pages.    *)
(***************************************************************************)
EXTENDS Naturals, SequencesExt, Page

CONSTANTS
    Articles,       \* articles a result page can hold
    Cursors,        \* cursors of the pages after the first
    TrailLimit      \* related articles kept on the way back

ASSUME ReadingConstants == TrailLimit \in Nat \ {0} /\ None \notin Articles \union Cursors

VARIABLES
    rdPages,      \* loaded pages of the search: cursor, next cursor and rows
    rdFetch,      \* the page requested: "none", "first" or "next"
    rdFailed,     \* the last request failed
    rdCount,      \* pages revealed for this URL
    rdDocked,     \* the screen is wide enough for the desk
    rdSelected,   \* the row selected in the desk
    rdOpen,       \* the row whose sheet is open
    rdTrail       \* related articles opened on top of it

rdVars == <<rdPages, rdFetch, rdFailed, rdCount, rdDocked, rdSelected, rdOpen, rdTrail>>

----------------------------------------------------------------------------
\* Rows

Revealed(pages, count) == SubSeq(pages, 1, IF count < Len(pages) THEN count ELSE Len(pages))

\* A failure, and a first page under way, hide the list.
RowsOf(pages, count, failed) ==
    IF failed THEN {} ELSE UNION {page.rows : page \in ToSet(Revealed(pages, count))}

Rows == RowsOf(rdPages, rdCount, rdFailed)
NextCursor == IF rdPages = <<>> THEN None ELSE Last(rdPages).next
HasNext == NextCursor # None

\* The cursors requested up to the page at a cursor.
Requested(at) == {page.at : page \in ToSet(rdPages)} \union {at}

\* Seeded fault: a row that goes keeps its selection.
StaysSelected(rows) == rdSelected

\* A row that is unmounted releases its selection.
Released(rows) == IF rdSelected \in rows THEN rdSelected ELSE None

\* What the rows become decides what stays selected, open and on the trail.
SheetShows(pages, count, failed) ==
    LET rows == RowsOf(pages, count, failed)
        shown == IF rdDocked THEN rdSelected ELSE rdOpen
    IN  /\ rdPages' = pages /\ rdCount' = count /\ rdFailed' = failed
        /\ rdSelected' = Released(rows)
        /\ rdOpen' = IF rdOpen \in rows THEN rdOpen ELSE None
        /\ rdTrail' = IF shown \in rows THEN rdTrail ELSE <<>>

\* The article in the desk or the sheet, and the one the reader sees.
Base == IF rdDocked THEN rdSelected ELSE rdOpen
Reader == IF rdTrail = <<>> THEN Base ELSE Last(rdTrail)

----------------------------------------------------------------------------
RdInit ==
    /\ rdPages = <<>> /\ rdFetch = "first" /\ rdFailed = FALSE /\ rdCount = 1
    /\ rdDocked \in BOOLEAN
    /\ rdSelected = None /\ rdOpen = None /\ rdTrail = <<>>

\* Another search: its first page is cached or requested, and the request
\* for the old one is given up.  Any other change of the URL, such as the
\* settings opening over the page, starts again from one revealed page.
Search ==
    /\ rdOpen = None \/ rdDocked
    /\ \/ /\ rdFetch' = "first" /\ SheetShows(<<>>, 1, FALSE)
       \/ \E rows \in SUBSET Articles, next \in Cursors \union {None} :
            /\ rdFetch' = "none"
            /\ SheetShows(<<[at |-> None, next |-> next, rows |-> rows]>>, 1, FALSE)
    /\ UNCHANGED rdDocked

ChangeUrl == SheetShows(rdPages, 1, rdFailed) /\ UNCHANGED <<rdFetch, rdDocked>>

\* A page arrives.  One whose next cursor was requested before is refused,
\* except the first.
AnswerPage ==
    \E rows \in SUBSET Articles, next \in Cursors \union {None} :
        LET at == IF rdFetch = "first" THEN None ELSE NextCursor
        IN  /\ rdFetch # "none" /\ rdFetch' = "none"
            /\ IF at # None /\ next # None /\ next \in Requested(at)
               THEN SheetShows(rdPages, rdCount, TRUE)
               ELSE SheetShows(Append(rdPages, [at |-> at, next |-> next, rows |-> rows]), rdCount, FALSE)
            /\ UNCHANGED rdDocked

FailPage ==
    /\ rdFetch # "none" /\ rdFetch' = "none"
    /\ SheetShows(rdPages, rdCount, TRUE)
    /\ UNCHANGED rdDocked

\* The sentinel near the end comes into view: the next page is requested
\* unless a loaded one waits to be revealed.
Prefetch ==
    /\ Rows # {} /\ HasNext /\ rdFetch = "none" /\ Len(rdPages) <= rdCount
    /\ rdFetch' = "next"
    /\ UNCHANGED <<rdPages, rdFailed, rdCount, rdDocked, rdSelected, rdOpen, rdTrail>>

\* The end comes into view: a loaded page is revealed, or one is requested.
LoadMore ==
    /\ Rows # {}
    /\ \/ /\ rdCount < Len(rdPages)
          /\ SheetShows(rdPages, rdCount + 1, rdFailed) /\ UNCHANGED <<rdFetch, rdDocked>>
       \/ rdCount >= Len(rdPages) /\ Prefetch

----------------------------------------------------------------------------
\* The reader

\* A click on a row, or J and K that move to one: the desk shows it; on a
\* narrow screen a click opens its sheet.
SelectRow(a) ==
    /\ rdDocked /\ a \in Rows
    /\ rdSelected' = a
    /\ rdTrail' = IF a = rdSelected THEN rdTrail ELSE <<>>
    /\ UNCHANGED <<rdPages, rdFetch, rdFailed, rdCount, rdDocked, rdOpen>>

\* The first row is selected whenever the desk is empty.
AutoSelect == rdSelected = None /\ \E a \in Rows : SelectRow(a)

OpenSheet(a) ==
    /\ ~rdDocked /\ rdOpen = None /\ a \in Rows
    /\ rdOpen' = a
    /\ UNCHANGED <<rdPages, rdFetch, rdFailed, rdCount, rdDocked, rdSelected, rdTrail>>

CloseSheet ==
    /\ ~rdDocked /\ rdOpen # None
    /\ rdOpen' = None /\ rdTrail' = <<>>
    /\ UNCHANGED <<rdPages, rdFetch, rdFailed, rdCount, rdDocked, rdSelected>>

\* The sheet of a row hides while the screen is wide and shows again after.
Resize ==
    /\ rdDocked' = ~rdDocked
    /\ rdTrail' = <<>>
    /\ UNCHANGED <<rdPages, rdFetch, rdFailed, rdCount, rdSelected, rdOpen>>

OpenRelated(a) ==
    /\ Base # None /\ a # Reader
    /\ rdTrail' = Append(SubSeq(rdTrail, IF Len(rdTrail) < TrailLimit THEN 1 ELSE Len(rdTrail) - TrailLimit + 2, Len(rdTrail)), a)
    /\ UNCHANGED <<rdPages, rdFetch, rdFailed, rdCount, rdDocked, rdSelected, rdOpen>>

CloseDetail ==
    /\ rdTrail # <<>>
    /\ rdTrail' = Front(rdTrail)
    /\ UNCHANGED <<rdPages, rdFetch, rdFailed, rdCount, rdDocked, rdSelected, rdOpen>>

RdNext ==
    \/ Search \/ ChangeUrl \/ AnswerPage \/ FailPage \/ Prefetch \/ LoadMore
    \/ \E a \in Articles : SelectRow(a) \/ OpenSheet(a) \/ OpenRelated(a)
    \/ AutoSelect \/ CloseSheet \/ Resize \/ CloseDetail

RdSpec == RdInit /\ [][RdNext]_rdVars

----------------------------------------------------------------------------
\* What the reading workspace promises.

\* Types: pages, requests and the reader have the shapes of the page; a chain
\* of pages follows its cursors, and the trail keeps to its limit.
RdTypeOK ==
    /\ rdPages \in Seq([at : Cursors \union {None}, next : Cursors \union {None}, rows : SUBSET Articles])
    /\ \A i \in DOMAIN rdPages : rdPages[i].at = IF i = 1 THEN None ELSE rdPages[i - 1].next
    /\ rdFetch \in {"none", "first", "next"} /\ rdFailed \in BOOLEAN /\ rdCount \in Nat \ {0}
    /\ rdDocked \in BOOLEAN
    /\ rdSelected \in Articles \union {None} /\ rdOpen \in Articles \union {None}
    /\ rdTrail \in Seq(Articles) /\ Len(rdTrail) <= TrailLimit

\* The desk and the sheet never show an article whose row has gone with
\* another search, a failed request or a list begun again, whatever was
\* selected, opened or hidden by a resize before.
SelectionIsShown ==
    /\ {rdSelected, rdOpen} \subseteq Rows \union {None}
    /\ rdTrail # <<>> => Base \in Rows
=============================================================================
