------------------------ MODULE FavoritesProperties ------------------------
(***************************************************************************)
(* What the favourite buttons may show and what the page may change.       *)
(***************************************************************************)
EXTENDS Favorites

FavTypeOK ==
    /\ holds \in [Folders -> SUBSET Articles] /\ alive \subseteq Folders
    /\ track \in alive \union {0}
    /\ route \in {"start", "search", "favorites"} /\ visible \subseteq Articles
    /\ reader \in Articles \union {None} /\ open \in BOOLEAN /\ button \in Slots \union {0}
    /\ url \in Folders \union {0} /\ ticked \subseteq Folders \X Articles
    /\ dialog # None => dialog.folder \in Folders /\ dialog.articles \subseteq Articles
    /\ member \in [Articles -> Member]
    /\ batch.status \in {"none", "pending", "success", "error"}
    /\ batch.want \subseteq visible /\ batch.by \in Slots \union {0}
    /\ folders.data # None => folders.data.ids \subseteq Folders
    /\ \A f \in Folders : list[f].data \in (SUBSET Articles) \union {None}
    /\ write \in [Slots -> Write \union {None}]
    /\ spent \in 0..MaxSteps /\ foreign \in BOOLEAN /\ lost \in BOOLEAN
    /\ guessed \subseteq Articles /\ marks \subseteq Folders \X Articles

\* No mutation and no membership read is under way.
Quiet ==
    /\ \A s \in Slots : write[s] = None
    /\ ~IsFetching /\ \A a \in Articles : member[a].call = None

\* A membership the cache takes for fresh is the server's, and every button of
\* the results shows it or that it is unknown: answers of checks, batches and mutations come in any
\* order, and mutations cancel, patch, outdate and repeat the reads.
\* Memberships patched unread are left to ToggleKeepsMembership.
MembershipIsTrue ==
    Quiet /\ ~lost /\ ~foreign =>
        /\ \A a \in Articles \ guessed : member[a].fresh => member[a].data = FoldersOf(a)
        /\ batch.status = "success" => \A a \in visible : member[a].fresh \/ member[a].err

\* use-favorite-checks.tsx:45: a fresh membership is one that was read.  The
\* toggle of the favourites page patches one that was never read, or that a
\* bulk mutation had outdated, and so makes a partial or old one fresh.
ToggleKeepsMembership ==
    Quiet /\ ~lost /\ ~foreign =>
        \A a \in Articles : member[a].fresh => member[a].data = FoldersOf(a)

\* What a removal asks about and what a move takes are articles ticked in the
\* folder that is shown, whatever folder was shown when they were ticked: the
\* page falls back to another when its folder is gone.
Chosen(folder, articles) == {folder} \X articles \subseteq marks
BulkActsOnTicks ==
    [][ /\ dialog' \notin {dialog, None} => Chosen(dialog'.folder, dialog'.articles) \/ dialog'.kind # "bulkRemove"
        /\ \A s \in Slots :
             write[s] = None /\ write'[s] # None /\ write'[s].kind = "bulkMove"
                 => Chosen(write'[s].from, write'[s].articles) ]_favVars

\* use-favorites-page.tsx:326: the confirmed removal is that of the snapshot.
\* The folder is not part of it: a folder list that arrives while the dialog
\* is open may turn the page, and the removal, to another folder.
RemovesFromConfirmed ==
    \A s \in Slots :
        write[s] # None /\ write[s].kind = "bulkRemove" => write[s].folder = write[s].from

FavSpec == FavInit /\ [][FavNext]_favVars

=============================================================================
