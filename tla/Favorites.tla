----------------------------- MODULE Favorites -----------------------------
(***************************************************************************)
(* Favourites in one browser document: the search results with their       *)
(* favourite buttons, the favourites page with its folders, and the query  *)
(* cache both read (memberships one by one and in batches, folders, the    *)
(* articles of a folder).                                                  *)
(*                                                                         *)
(* A membership read or a mutation is sent by one action, served by        *)
(* another and answered by a third; lists of folders and articles, which   *)
(* are only shown, are served as they are answered.  A mutation goes on in *)
(* its onSuccess: what follows the refresh it awaits is a fourth action,   *)
(* Settle.  Five minutes do not pass: only invalidation makes a membership *)
(* stale.  Folders are numbered in the order the server lists them.        *)
(***************************************************************************)
EXTENDS Naturals, FiniteSets, FiniteSetsExt

CONSTANTS
    Articles,
    Folders,       \* a set of positive naturals
    None,          \* no answer, no data, nothing selected
    Failed,        \* the answer of a read that failed
    Slots,         \* mutations that may be pending together
    MaxSteps       \* mutations sent, changes made by another device and
                   \* requests that fail, taken together

ASSUME FoldersAreNumbered == Folders \in SUBSET (Nat \ {0}) /\ IsFiniteSet(Folders)
ASSUME AnswersDiffer == None # Failed /\ \A ids \in SUBSET Folders : ids \notin {None, Failed}
ASSUME FavoriteBound == MaxSteps \in Nat

VARIABLES
    holds,     \* favorites: the articles of each folder
    alive,     \* folders that exist
    track,     \* the tracking folder, 0 if there is none
    route,     \* the page shown, "search" or "favorites"
    visible,   \* articles of the visible search results
    reader,    \* the article open in the reader
    open,      \* its folder picker is open
    button,    \* the mutation its favourite button waits for, 0 if none
    url,       \* the folder of the URL, 0 if none
    ticked,    \* selection keys ticked on the favourites page
    dialog,    \* the open confirmation with what it captured
    member,    \* fav-check queries
    batch,     \* the fav-check-batch query of the visible results
    folders,   \* the folders query
    list,      \* folder-articles queries
    write,     \* pending mutations
    spent,     \* what MaxSteps bounds
    foreign,   \* another device has changed something
    lost,      \* a mutation was served and its answer lost
    guessed,   \* memberships patched while nothing fresh was known
    marks      \* what the user ticked: folder and article

favServer == <<holds, alive, track>>
favPage   == <<route, visible, url>>
favButton == <<reader, open, button>>
favCache  == <<member, batch, folders, list>>
favGhost  == <<spent, foreign, lost>>
favVars   == <<favServer, favPage, favButton, ticked, dialog, favCache, write, favGhost, guessed, marks>>

Kinds == {"add", "remove", "create", "delete", "rename", "track", "bulkRemove", "bulkMove"}
Bulk  == {"bulkRemove", "bulkMove"}
\* Writes that renew every membership rather than one.
Sweeping == {"delete", "rename"} \union Bulk
Write == [kind : Kinds, folder : Folders \union {0}, target : Folders \union {0},
          articles : SUBSET Articles, from : Folders \union {0}, toggle : BOOLEAN,
          state : {"sent", "ok", "failed", "settling"}]
ASSUME NothingIsNoWrite == \A w \in Write : w # None

Call  == [by : Slots \union {0}, got : (SUBSET Folders) \union {None, Failed}]
Member == [data : (SUBSET Folders) \union {None}, fresh : BOOLEAN, err : BOOLEAN, call : Call \union {None}]
NoMember == [data |-> None, fresh |-> FALSE, err |-> FALSE, call |-> None]
NoBatch  == [status |-> "none", want |-> {}, by |-> 0, got |-> None]
NoQuery  == [data |-> None, call |-> FALSE]

\* What checkFavorite returns: the folders of an article.
FoldersOf(a) == {f \in alive : a \in holds[f]}

----------------------------------------------------------------------------
\* Queries

\* A fetch already under way is restarted only when there is data to show.
Refetched(q) ==
    IF q.call /\ q.data = None THEN q ELSE [q EXCEPT !.call = TRUE]

\* readFreshFavoriteCheck finds nothing for these visible articles.
Missing(m) == {a \in visible : ~m[a].fresh}
Stale(m, these) == [a \in Articles |-> [m[a] EXCEPT !.fresh = @ /\ a \notin these]]

\* The batch query run for slot s over the memberships m.
Fetching(m, s) ==
    IF Missing(m) = {} THEN [NoBatch EXCEPT !.status = "success"]
    ELSE [status |-> IF batch.status = "none" THEN "pending" ELSE batch.status,
          want |-> Missing(m), by |-> s, got |-> None]
IsFetching == batch.want # {}

\* invalidateQueries on the batch: only a mounted one runs again, and one
\* that had succeeded first outdates what is visible.
InvalidateBatch(m, s) ==
    LET old == IF batch.status = "success" THEN Stale(m, visible) ELSE m
    IN  IF route = "search" THEN member' = old /\ batch' = Fetching(old, s)
                            ELSE member' = m /\ batch' = NoBatch

\* The folder the page shows: that of the URL, the tracking one, the first.
FolderOn(page, q, wanted) ==
    IF page # "favorites" \/ q.data = None \/ q.data.ids = {} THEN 0
    ELSE IF wanted \in q.data.ids THEN wanted
    ELSE IF q.data.track \in q.data.ids THEN q.data.track
    ELSE Min(q.data.ids)
Active == FolderOn(route, folders, url)

\* folder-articles when the page shows folder f: its query is run, that of
\* any other folder is aborted.
ListOnly(f) == [g \in Folders |-> [list[g] EXCEPT !.call = g = f]]

FoldersObserved == route = "favorites" \/ open
InvalidateFolders == folders' = IF FoldersObserved THEN Refetched(folders) ELSE folders
\* Only the list on screen runs again; the others do when they are shown.
RenewedLists(these) ==
    [f \in Folders |-> IF f \in these /\ f = Active THEN Refetched(list[f]) ELSE list[f]]

\* The page over other folders or another URL.  The articles of a folder left
\* are unmounted, and with them the open article and its button.
Show(q, wanted, lists) ==
    /\ url' = wanted
    /\ IF FolderOn(route, q, wanted) = Active
       THEN list' = lists /\ UNCHANGED <<reader, open>>
       ELSE list' = ListOnly(FolderOn(route, q, wanted)) /\ reader' = None /\ open' = FALSE

----------------------------------------------------------------------------
\* Mutations

\* A confirmation covers the page; renaming shows only while its folder is listed.
Modal == dialog # None /\ (dialog.kind = "rename" => dialog.folder \in folders.data.ids)

FreeSlots == {s \in Slots : write[s] = None}
Plain == [kind |-> "create", folder |-> 0, target |-> 0, articles |-> {}, from |-> 0,
          toggle |-> FALSE, state |-> "sent"]
Pending(kinds) == \E s \in Slots : write[s] # None /\ write[s].kind \in kinds

Spend == spent < MaxSteps /\ spent' = spent + 1
Mutate(s, w) ==
    /\ Spend
    /\ write' = [write EXCEPT ![s] = w]
    /\ UNCHANGED <<foreign, lost>>

\* The button of the open article: its batch has answered or its own check
\* has; it is disabled while a mutation or a check of its own is pending.
ButtonUnknown == member[reader].err \/ (batch.status = "error" /\ ~member[reader].fresh)
ButtonReady == reader # None /\ (batch.status = "pending" => member[reader].data # None)
Offers == ButtonReady /\ button = 0 /\ ~ButtonUnknown

\* What the button shows as favourite folders, its initial folders included.
ShownFolders ==
    IF member[reader].data # None THEN member[reader].data
    ELSE IF route = "favorites" THEN {Active} ELSE {}

\* A folder of the picker, pressed.
PickAdd(f) ==
    /\ route = "search" /\ open /\ Offers /\ ~Modal
    /\ folders.data # None /\ f \in folders.data.ids
    /\ member[reader].call = None /\ f \notin ShownFolders
    /\ \E s \in FreeSlots :
        /\ Mutate(s, [Plain EXCEPT !.kind = "add", !.folder = f, !.articles = {reader}])
        /\ button' = s
    /\ UNCHANGED <<favServer, favPage, reader, open, ticked, dialog, favCache, guessed, marks>>
AskRemove(f) ==
    /\ route = "search" /\ open /\ Offers /\ ~Modal
    /\ folders.data # None /\ f \in folders.data.ids
    /\ member[reader].call = None /\ f \in ShownFolders
    /\ dialog' = [kind |-> "remove", folder |-> f, articles |-> {reader}]
    /\ UNCHANGED <<favServer, favPage, favButton, ticked, favCache, write, favGhost, guessed, marks>>

\* The one-click toggle of the favourites page.
Toggle ==
    /\ route = "favorites" /\ ~Modal /\ Offers
    /\ \E s \in FreeSlots :
        /\ Mutate(s, [Plain EXCEPT !.kind = IF Active \in ShownFolders THEN "remove" ELSE "add",
                                   !.folder = Active, !.articles = {reader}, !.toggle = TRUE])
        /\ button' = s
    /\ UNCHANGED <<favServer, favPage, reader, open, ticked, dialog, favCache, guessed, marks>>

\* Toolbar and dialogs of the favourites page that send at once.
CreateFolder ==
    /\ route = "favorites" /\ ~Modal /\ ~Pending({"create"})
    /\ \E s \in FreeSlots : Mutate(s, Plain)
    /\ UNCHANGED <<favServer, favPage, favButton, ticked, dialog, favCache, guessed, marks>>
TrackFolder ==
    /\ route = "favorites" /\ ~Modal /\ Active # 0 /\ folders.data.track # Active
    /\ \E s \in FreeSlots : Mutate(s, [Plain EXCEPT !.kind = "track", !.folder = Active])
    /\ UNCHANGED <<favServer, favPage, favButton, ticked, dialog, favCache, guessed, marks>>

\* Seeded fault: a key names the article only.
ArticleKey(f, a) == <<0, a>>
SelectionKey(f, a) == <<f, a>>

Listed == IF Active = 0 \/ list[Active].data = None THEN {} ELSE list[Active].data
\* Seeded fault: what is ticked is found by the article alone.
TickedAnywhere == {a \in Listed : \E f \in Folders : SelectionKey(f, a) \in ticked}
Selected == {a \in Listed : SelectionKey(Active, a) \in ticked}

Tick(a) ==
    /\ route = "favorites" /\ ~Modal /\ a \in Listed
    /\ LET key == SelectionKey(Active, a)
       IN  /\ ticked' = IF a \in Selected THEN ticked \ {key} ELSE ticked \union {key}
           /\ marks' = IF a \in Selected THEN marks \ {<<Active, a>>} ELSE marks \union {<<Active, a>>}
    /\ UNCHANGED <<favServer, favPage, favButton, dialog, favCache, write, favGhost, guessed>>
TickAll ==
    /\ route = "favorites" /\ ~Modal /\ Listed # {} /\ Selected # Listed
    /\ ticked' = {SelectionKey(Active, a) : a \in Listed}
    /\ marks' = {Active} \X Listed
    /\ UNCHANGED <<favServer, favPage, favButton, dialog, favCache, write, favGhost, guessed>>

MoveSelected(f) ==
    /\ route = "favorites" /\ ~Modal /\ Selected # {} /\ ~Pending({"bulkMove"})
    /\ f \in folders.data.ids \ {Active}
    /\ \E s \in FreeSlots :
        Mutate(s, [Plain EXCEPT !.kind = "bulkMove", !.folder = Active, !.target = f,
                                !.articles = Selected, !.from = Active])
    /\ UNCHANGED <<favServer, favPage, favButton, ticked, dialog, favCache, guessed, marks>>

\* A confirmation captures what it is about.
AskBulkRemove ==
    /\ route = "favorites" /\ ~Modal /\ Selected # {} /\ ~Pending({"bulkRemove"})
    /\ dialog' = [kind |-> "bulkRemove", folder |-> Active, articles |-> Selected]
    /\ UNCHANGED <<favServer, favPage, favButton, ticked, favCache, write, favGhost, guessed, marks>>
AskFolder(kind) ==
    /\ route = "favorites" /\ ~Modal /\ Active # 0
    /\ ~Pending({kind} \intersect {"delete"})
    /\ dialog' = [kind |-> kind, folder |-> Active, articles |-> {}]
    /\ UNCHANGED <<favServer, favPage, favButton, ticked, favCache, write, favGhost, guessed, marks>>

\* Confirm and close do nothing while the mutation is pending.
DialogBusy == IF dialog.kind = "remove" THEN button # 0 ELSE Pending({dialog.kind})
Confirm ==
    /\ Modal /\ ~DialogBusy
    /\ \E s \in FreeSlots :
        /\ Mutate(s, [Plain EXCEPT
              !.kind = dialog.kind, !.articles = dialog.articles, !.from = dialog.folder,
              !.folder = IF dialog.kind = "bulkRemove" THEN Active ELSE dialog.folder])
        /\ button' = IF dialog.kind = "remove" THEN s ELSE button
    /\ UNCHANGED <<favServer, favPage, reader, open, ticked, dialog, favCache, guessed, marks>>
Dismiss ==
    /\ Modal /\ ~DialogBusy
    /\ dialog' = None
    /\ UNCHANGED <<favServer, favPage, favButton, ticked, favCache, write, favGhost, guessed, marks>>

----------------------------------------------------------------------------
\* The server, one transaction per mutation

NewFolder == Min(Folders \ alive)
Applied(w) ==
    CASE w.kind = "add" -> [holds EXCEPT ![w.folder] = @ \union w.articles]
      [] w.kind \in {"remove", "bulkRemove"} -> [holds EXCEPT ![w.folder] = @ \ w.articles]
      [] w.kind = "delete" -> [holds EXCEPT ![w.folder] = {}]
      [] w.kind = "bulkMove" ->
            [holds EXCEPT ![w.target] = @ \union (w.articles \intersect holds[w.folder]),
                          ![w.folder] = @ \ w.articles]
      [] OTHER -> holds
Accepts(w) ==
    CASE w.kind = "create" -> \A f \in alive : \E g \in Folders : g > f
      [] w.kind = "remove" -> w.articles \subseteq holds[w.folder]
      [] w.kind = "bulkMove" -> {w.folder, w.target} \subseteq alive
      [] OTHER -> w.folder \in alive
Serve(w) ==
    /\ holds' = Applied(w)
    /\ alive' = IF w.kind = "create" THEN alive \union {NewFolder}
                ELSE IF w.kind = "delete" THEN alive \ {w.folder} ELSE alive
    /\ track' = IF w.kind = "track" THEN w.folder
                ELSE IF w.kind = "delete" /\ track = w.folder THEN 0 ELSE track

Reply(s, state) == write' = [write EXCEPT ![s].state = state]

ServeWrite(s) ==
    /\ write[s] # None /\ write[s].state = "sent"
    /\ IF Accepts(write[s]) THEN Serve(write[s]) /\ Reply(s, "ok")
                            ELSE UNCHANGED favServer /\ Reply(s, "failed")
    /\ UNCHANGED <<favPage, favButton, ticked, dialog, favCache, favGhost, guessed, marks>>
\* The request fails, before or after it was served.
LoseWrite(s) ==
    /\ write[s] # None /\ write[s].state = "sent"
    /\ Spend
    /\ \/ lost' = lost /\ UNCHANGED favServer
       \/ Accepts(write[s]) /\ Serve(write[s]) /\ lost' = TRUE
    /\ Reply(s, "failed")
    /\ UNCHANGED <<favPage, favButton, ticked, dialog, favCache, foreign, guessed, marks>>

Foreign == Spend /\ foreign' = TRUE /\ UNCHANGED lost
ForeignDelete(f) ==
    /\ Foreign /\ f \in alive
    /\ Serve([Plain EXCEPT !.kind = "delete", !.folder = f])
    /\ UNCHANGED <<favPage, favButton, ticked, dialog, favCache, write, guessed, marks>>
ForeignTrack(f) ==
    /\ Foreign /\ f \in alive \ {track}
    /\ Serve([Plain EXCEPT !.kind = "track", !.folder = f])
    /\ UNCHANGED <<favPage, favButton, ticked, dialog, favCache, write, guessed, marks>>

----------------------------------------------------------------------------
\* onSuccess

Sample(s) == CHOOSE a \in write[s].articles : TRUE
\* Seeded fault: reads that began before the mutation go on.
KeepsReads(s) ==
    LET w == write[s]  a == Sample(s)
        known == IF member[a].data = None THEN {} ELSE member[a].data
        now == [member EXCEPT ![a].data = IF w.kind = "add" THEN known \union {w.folder}
                                                           ELSE known \ {w.folder},
                              ![a].fresh = TRUE]
    IN  /\ guessed' = IF member[a].fresh THEN guessed ELSE guessed \union {a}
        /\ IF IsFetching THEN member' = now /\ batch' = batch ELSE InvalidateBatch(now, s)
\* addMut and removeMut: cancel the reads, patch the membership, renew the batch.
PatchMember(s) ==
    LET w == write[s]  a == Sample(s)
        known == IF member[a].data = None THEN {} ELSE member[a].data
        now == [member EXCEPT ![a] =
                  [data |-> IF w.kind = "add" THEN known \union {w.folder} ELSE known \ {w.folder},
                   fresh |-> TRUE, err |-> FALSE, call |-> None]]
    IN  /\ guessed' = IF member[a].fresh THEN guessed ELSE guessed \union {a}
        /\ InvalidateBatch(now, s)

Observed == (IF route = "search" THEN visible ELSE {}) \union (IF reader = None THEN {} ELSE {reader})
\* invalidateFavoriteMemberships
InvalidateMemberships(s) ==
    /\ LET now == [a \in Articles |-> IF a \notin Observed THEN NoMember ELSE
                    [member[a] EXCEPT !.fresh = FALSE, !.call =
                      IF open /\ a = reader THEN [by |-> s, got |-> None] ELSE None]]
       IN  InvalidateBatch(now, s)
    /\ UNCHANGED guessed

AnswerWrite(s) ==
    /\ write[s] # None /\ write[s].state = "ok"
    /\ CASE write[s].kind \in {"add", "remove"} -> PatchMember(s)
         [] write[s].kind \in Sweeping -> InvalidateMemberships(s)
         [] OTHER -> UNCHANGED <<member, batch, guessed>>
    /\ Reply(s, "settling")
    /\ UNCHANGED <<favServer, favPage, favButton, ticked, dialog, folders, list, favGhost, marks>>
\* onError keeps the selection and the confirmation.
AnswerFailure(s) ==
    /\ write[s] # None /\ write[s].state = "failed"
    /\ write' = [write EXCEPT ![s] = None]
    /\ button' = IF button = s THEN 0 ELSE button
    /\ UNCHANGED <<favServer, favPage, reader, open, ticked, dialog, favCache, favGhost, guessed, marks>>

\* The refresh of the memberships that slot s awaits is over.
Awaited(s) ==
    \/ IsFetching /\ batch.by = s
    \/ \E a \in Articles : member[a].call # None /\ member[a].call.by = s

Closes(s) ==
    /\ dialog # None /\ dialog.kind = write[s].kind
    /\ dialog.kind \in {"delete", "remove"} => dialog.folder = write[s].folder
    /\ dialog.kind = "remove" => button = s
Settle(s) ==
    /\ write[s] # None /\ write[s].state = "settling" /\ ~Awaited(s)
    /\ LET w == write[s]
           clears == w.kind \in Bulk \union {"delete"}
       IN  /\ InvalidateFolders
           /\ Show(folders, IF w.kind = "delete" /\ url = w.folder THEN 0 ELSE url,
                   RenewedLists(CASE w.kind \in Bulk -> Folders
                                  [] w.kind \in {"add", "remove"} /\ ~w.toggle -> {w.folder}
                                  [] OTHER -> {}))
           /\ button' = IF button = s \/ reader' = None THEN 0 ELSE button
           /\ ticked' = IF clears THEN {} ELSE ticked
           /\ marks' = IF clears THEN {} ELSE marks
           /\ dialog' = IF Closes(s) THEN None ELSE dialog
    /\ write' = [write EXCEPT ![s] = None]
    /\ UNCHANGED <<favServer, route, visible, member, batch, favGhost, guessed>>

----------------------------------------------------------------------------
\* Reads

OpenReader(a) ==
    /\ ~Modal /\ a # reader
    /\ a \in IF route = "search" THEN visible ELSE Listed
    /\ reader' = a /\ open' = FALSE /\ button' = 0
    /\ UNCHANGED <<favServer, favPage, ticked, dialog, favCache, write, favGhost, guessed, marks>>

Checked(a) == IF member[a].fresh \/ member[a].call # None THEN member
              ELSE [member EXCEPT ![a].call = [by |-> 0, got |-> None]]
\* The popover mounts its two queries.
OpenPicker ==
    /\ route = "search" /\ ButtonReady /\ ~open /\ ~Modal
    /\ open' = TRUE
    /\ folders' = [folders EXCEPT !.call = TRUE]
    /\ member' = Checked(reader)
    /\ UNCHANGED <<favServer, favPage, reader, button, ticked, dialog, batch, list, write, favGhost, guessed, marks>>
ClosePicker ==
    /\ open /\ open' = FALSE
    /\ UNCHANGED <<favServer, favPage, reader, button, ticked, dialog, favCache, write, favGhost, guessed, marks>>
RetryPicker ==
    /\ open /\ member[reader].err /\ member[reader].call = None
    /\ member' = Checked(reader) /\ folders' = Refetched(folders)
    /\ UNCHANGED <<favServer, favPage, favButton, ticked, dialog, batch, list, write, favGhost, guessed, marks>>

ServeCheck(a) ==
    /\ member[a].call # None /\ member[a].call.got = None
    /\ member' = [member EXCEPT ![a].call.got = FoldersOf(a)]
    /\ UNCHANGED <<favServer, favPage, favButton, ticked, dialog, batch, folders, list, write, favGhost, guessed, marks>>
AnswerCheck(a) ==
    /\ member[a].call # None /\ member[a].call.got # None
    /\ LET got == member[a].call.got
       IN  /\ member' = [member EXCEPT ![a] =
                IF got = Failed THEN [@ EXCEPT !.call = None, !.fresh = FALSE, !.err = TRUE]
                ELSE [data |-> got, fresh |-> TRUE, err |-> FALSE, call |-> None]]
           /\ guessed' = IF got = Failed THEN guessed ELSE guessed \ {a}
    /\ UNCHANGED <<favServer, favPage, favButton, ticked, dialog, batch, folders, list, write, favGhost, marks>>

ServeBatch ==
    /\ IsFetching /\ batch.got = None
    /\ batch' = [batch EXCEPT !.got = [a \in batch.want |-> FoldersOf(a)]]
    /\ UNCHANGED <<favServer, favPage, favButton, ticked, dialog, member, folders, list, write, favGhost, guessed, marks>>
AnswerBatch ==
    /\ IsFetching /\ batch.got # None
    /\ IF batch.got = Failed
       THEN batch' = [NoBatch EXCEPT !.status = "error"] /\ UNCHANGED <<member, guessed>>
       ELSE /\ batch' = [NoBatch EXCEPT !.status = "success"]
            /\ member' = [a \in Articles |-> IF a \notin batch.want THEN member[a] ELSE
                            [data |-> batch.got[a], fresh |-> TRUE, err |-> FALSE, call |-> member[a].call]]
            /\ guessed' = guessed \ batch.want
    /\ UNCHANGED <<favServer, favPage, favButton, ticked, dialog, folders, list, write, favGhost, marks>>
\* retryFavoriteChecks
RetryBatch ==
    /\ batch.status = "error" /\ ~IsFetching /\ ~Modal
    /\ batch' = Fetching(member, 0)
    /\ UNCHANGED <<favServer, favPage, favButton, ticked, dialog, member, folders, list, write, favGhost, guessed, marks>>

LoseRead ==
    /\ Spend
    /\ \/ IsFetching /\ batch.got = None /\ batch' = [batch EXCEPT !.got = Failed] /\ UNCHANGED member
       \/ \E a \in Articles :
            /\ member[a].call # None /\ member[a].call.got = None
            /\ member' = [member EXCEPT ![a].call.got = Failed]
            /\ UNCHANGED batch
    /\ UNCHANGED <<favServer, favPage, favButton, ticked, dialog, folders, list, write, foreign, lost, guessed, marks>>

AnswerFolders ==
    /\ folders.call
    /\ LET now == [data |-> [ids |-> alive, track |-> track], call |-> FALSE]
       IN folders' = now /\ Show(now, url, list)
    /\ button' = IF reader' = None THEN 0 ELSE button
    /\ UNCHANGED <<favServer, route, visible, ticked, dialog, member, batch, write, favGhost, guessed, marks>>

\* An article that is no longer listed is unmounted with its button.
AnswerList(f) ==
    /\ list[f].call
    /\ LET now == IF f \in alive THEN holds[f] ELSE list[f].data
       IN  /\ list' = [list EXCEPT ![f] = [data |-> now, call |-> FALSE]]
           /\ IF reader # None /\ now # None /\ reader \in now THEN UNCHANGED favButton
              ELSE reader' = None /\ open' = FALSE /\ button' = 0
    /\ UNCHANGED <<favServer, favPage, ticked, dialog, member, batch, folders, write, favGhost, guessed, marks>>

\* The window is focused: what is mounted and stale is read again.  It tells
\* the page nothing new unless another device has changed something.
Focus ==
    /\ foreign
    /\ FoldersObserved /\ folders.data # None
    /\ folders' = Refetched(folders)
    /\ list' = RenewedLists(Folders)
    /\ UNCHANGED <<favServer, favPage, favButton, ticked, dialog, member, batch, write, favGhost, guessed, marks>>

----------------------------------------------------------------------------
\* Pages

SelectFolder(f) ==
    /\ route = "favorites" /\ ~Modal /\ folders.data # None /\ f \in folders.data.ids /\ f # url
    /\ Show(folders, f, list)
    /\ button' = IF reader' = None THEN 0 ELSE button
    /\ ticked' = {} /\ marks' = {}
    /\ UNCHANGED <<favServer, route, visible, dialog, member, batch, folders, write, favGhost, guessed>>

Leaves == reader' = None /\ open' = FALSE /\ button' = 0 /\ dialog' = None /\ ticked' = {} /\ marks' = {} /\ url' = 0
\* Other results: another batch query, the old one is aborted and removed.
Search(these) ==
    /\ ~Modal
    /\ route = "search" => these # visible
    /\ route' = "search" /\ visible' = these /\ Leaves
    /\ LET missing == {a \in these : ~member[a].fresh}
       IN batch' = IF missing = {} THEN [NoBatch EXCEPT !.status = "success"]
                   ELSE [status |-> "pending", want |-> missing, by |-> 0, got |-> None]
    /\ list' = ListOnly(0)
    /\ UNCHANGED <<favServer, member, folders, write, favGhost, guessed>>
VisitFavorites ==
    /\ ~Modal /\ route = "search"
    /\ route' = "favorites" /\ visible' = {} /\ Leaves
    /\ batch' = NoBatch
    /\ folders' = [folders EXCEPT !.call = TRUE]
    /\ list' = ListOnly(FolderOn("favorites", folders, 0))
    /\ UNCHANGED <<favServer, member, write, favGhost, guessed>>

FavInit ==
    /\ alive \in (SUBSET Folders) \ {{}} /\ \A f \in alive, g \in Folders : g < f => g \in alive
    /\ holds \in [Folders -> SUBSET Articles]
    /\ \A f \in Folders : holds[f] \in IF f \notin alive THEN {{}}
                                      ELSE IF f = Min(alive) THEN {Articles} ELSE SUBSET Articles
    /\ track = 0
    /\ route = "start" /\ visible = {} /\ url = 0
    /\ reader = None /\ open = FALSE /\ button = 0 /\ ticked = {} /\ dialog = None
    /\ member = [a \in Articles |-> NoMember] /\ batch = NoBatch
    /\ folders = NoQuery /\ list = [f \in Folders |-> NoQuery]
    /\ write = [s \in Slots |-> None]
    /\ spent = 0 /\ foreign = FALSE /\ lost = FALSE /\ guessed = {} /\ marks = {}

FavNext ==
    \/ \E f \in Folders :
        PickAdd(f) \/ AskRemove(f) \/ MoveSelected(f) \/ ForeignDelete(f) \/ ForeignTrack(f)
        \/ AnswerList(f) \/ SelectFolder(f)
    \/ \E a \in Articles : Tick(a) \/ OpenReader(a) \/ ServeCheck(a) \/ AnswerCheck(a)
    \/ \E s \in Slots : ServeWrite(s) \/ LoseWrite(s) \/ AnswerWrite(s) \/ AnswerFailure(s) \/ Settle(s)
    \/ Toggle \/ CreateFolder \/ TrackFolder \/ TickAll \/ AskBulkRemove \/ Confirm \/ Dismiss
    \/ \E kind \in {"delete", "rename"} : AskFolder(kind)
    \/ OpenPicker \/ ClosePicker \/ RetryPicker
    \/ ServeBatch \/ AnswerBatch \/ RetryBatch \/ LoseRead \/ AnswerFolders \/ Focus
    \/ \E these \in (SUBSET Articles) \ {{}} : Search(these)
    \/ VisitFavorites

=============================================================================
