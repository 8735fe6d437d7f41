--------------------------- MODULE FavoritesProofs ---------------------------
(***************************************************************************)
(* What the favourites of a browser document keep, for any number of       *)
(* articles, folders and steps: their types, that bulk mutations take what *)
(* was ticked, and, while one mutation is under way at a time, that fresh  *)
(* memberships are the server's.                                           *)
(***************************************************************************)
EXTENDS FavoritesProperties, FiniteSetTheorems, WellFoundedInduction, TLAPS

----------------------------------------------------------------------------
\* Least and greatest folders

FolderBelow == {p \in Nat \X Nat : p[1] < p[2]}

LEMMA FolderBelowWF == IsWellFoundedOn(FolderBelow, Nat)
  BY NatLessThanWellFounded DEF OpToRel, FolderBelow

LEMMA LeastFolder ==
  ASSUME NEW T, T \in SUBSET Nat, T # {}
  PROVE  Min(T) \in T /\ \A m \in T : Min(T) <= m
  <1>0. T \subseteq Nat
    OBVIOUS
  <1>1. PICK x \in T : \A y \in T : ~(<<y, x>> \in FolderBelow)
    BY <1>0, FolderBelowWF, WFMin, T # {}, Zenon
  <1>2. \A a, b \in Nat : a < b => <<a, b>> \in FolderBelow
    BY DEF FolderBelow
  <1>3. \A m \in T : ~(m < x)
    BY <1>0, <1>1, <1>2
  <1>4. \E n \in T : \A m \in T : n <= m
    BY <1>0, <1>3
  <1>. QED BY <1>4 DEF Min

\* A set of folders, being finite, has a greatest one: a smallest set
\* without one would be a single folder.
LEMMA GreatestFolder ==
  ASSUME NEW T, T \in SUBSET Folders, T # {}
  PROVE  \E n \in T : \A m \in T : m <= n
  <1>. DEFINE Has(S) == \E n \in S : \A m \in S : m <= n
              Sizes == {c \in Nat : \E S \in SUBSET Folders : S # {} /\ Cardinality(S) = c /\ ~Has(S)}
  <1>0. \A S \in SUBSET Folders : IsFiniteSet(S) /\ Cardinality(S) \in Nat
    BY FoldersAreNumbered, FS_Subset, FS_CardinalityType
  <1>1. SUFFICES Sizes = {}
    BY <1>0
  <1>2. SUFFICES ASSUME Sizes # {} PROVE FALSE
    OBVIOUS
  <1>3. Sizes \in SUBSET Nat
    OBVIOUS
  <1>4. Min(Sizes) \in Sizes /\ \A m \in Sizes : Min(Sizes) <= m
    <2>. HIDE DEF Sizes
    <2>. QED BY <1>2, <1>3, LeastFolder
  <1>5. PICK S \in SUBSET Folders : S # {} /\ Cardinality(S) = Min(Sizes) /\ ~Has(S)
    BY <1>4
  <1>6. PICK x \in S : TRUE
    BY <1>5
  <1>7. S \ {x} # {}
    <2>1. S = {x} => Has(S)
      BY <1>5, <1>6, FoldersAreNumbered
    <2>. QED BY <1>5, <1>6, <2>1
  <1>8. Cardinality(S \ {x}) = Cardinality(S) - 1 /\ Cardinality(S \ {x}) \in Nat
    BY <1>0, <1>5, <1>6, FS_RemoveElement
  <1>9. Cardinality(S \ {x}) \notin Sizes
    <2>1. \A m \in Sizes : Cardinality(S) <= m
      BY <1>4, <1>5
    <2>2. Cardinality(S) \in Nat
      BY <1>0, <1>5
    <2>. HIDE DEF Sizes
    <2>. QED BY <1>8, <2>1, <2>2
  <1>10. Has(S \ {x})
    BY <1>5, <1>7, <1>8, <1>9
  <1>11. PICK n \in S \ {x} : \A m \in S \ {x} : m <= n
    BY <1>10
  <1>12. n \in Nat /\ x \in Nat /\ S \subseteq Nat
    BY <1>5, <1>6, <1>11, FoldersAreNumbered
  <1>13. CASE x <= n
    BY <1>5, <1>11, <1>12, <1>13
  <1>14. CASE n <= x
    <2>1. \A m \in S : m <= x
      BY <1>11, <1>12, <1>14
    <2>. QED BY <1>5, <1>6, <2>1
  <1>. QED BY <1>12, <1>13, <1>14

\* A folder is created only while a number is left for it.
LEMMA CreatesFolder ==
  ASSUME alive \in SUBSET Folders, Folders # {}, \A f \in alive : \E g \in Folders : g > f
  PROVE  NewFolder \in Folders \ alive
  <1>1. Folders \ alive # {}
    <2>1. SUFFICES ASSUME alive = Folders PROVE FALSE
      OBVIOUS
    <2>2. PICK n \in Folders : \A m \in Folders : m <= n
      BY GreatestFolder
    <2>3. PICK g \in Folders : g > n
      BY <2>1
    <2>. QED BY <2>2, <2>3, FoldersAreNumbered
  <1>2. Folders \ alive \in SUBSET Nat
    BY FoldersAreNumbered
  <1>. QED BY <1>1, <1>2, LeastFolder DEF NewFolder

----------------------------------------------------------------------------
\* Types

Folder0 == Folders \union {0}
FolderQueries == [data : [ids : SUBSET Folders, track : Folder0] \union {None}, call : BOOLEAN]
ListQueries == [data : (SUBSET Articles) \union {None}, call : BOOLEAN]
Questions == [kind : {"remove", "bulkRemove", "delete", "rename"}, folder : Folders, articles : SUBSET Articles]

ServerFits ==
    /\ Folders # {} /\ holds \in [Folders -> SUBSET Articles] /\ alive \in SUBSET Folders
    /\ track \in alive \union {0}
    /\ \A f \in Folders \ alive : holds[f] = {}

\* What is ticked is what the user has ticked.
PageFits ==
    /\ route \in {"start", "search", "favorites"} /\ visible \in SUBSET Articles /\ url \in Folder0
    /\ ticked \in SUBSET (Folders \X Articles) /\ marks = ticked

ReaderFits ==
    /\ reader \in Articles \union {None} /\ open \in BOOLEAN /\ button \in Slots \union {0}

IsOne(articles) == \E a \in Articles : articles = {a}

DialogFits ==
    /\ dialog \in Questions \union {None}
    /\ dialog # None => (dialog.kind = "remove" => IsOne(dialog.articles))

BatchFits ==
    /\ batch = [status |-> batch.status, want |-> batch.want, by |-> batch.by, got |-> batch.got]
    /\ batch.status \in {"none", "pending", "success", "error"}
    /\ batch.want \in SUBSET visible /\ batch.by \in Slots \union {0}
    /\ batch.got \in {None, Failed} \/ batch.got \in [batch.want -> SUBSET Folders]

MembersFit == member \in [Articles -> Member]
FoldersFit == folders \in FolderQueries
ListsFit == list \in [Folders -> ListQueries]

\* A served addition was to a folder that existed.
WriteFits(w) ==
    /\ w \in Write
    /\ w.kind \in {"add", "remove"} => IsOne(w.articles)
    /\ w.kind = "add" /\ w.state = "ok" => w.folder \in Folders
WritesFit ==
    /\ write \in [Slots -> Write \union {None}]
    /\ \A s \in Slots : write[s] # None => WriteFits(write[s])

GhostFits == spent \in 0..MaxSteps /\ foreign \in BOOLEAN /\ lost \in BOOLEAN /\ guessed \in SUBSET Articles

FavInv ==
    /\ ServerFits /\ PageFits /\ ReaderFits /\ DialogFits
    /\ BatchFits /\ MembersFit /\ FoldersFit /\ ListsFit /\ WritesFit /\ GhostFits

LEMMA FavTypes == FavInv => FavTypeOK
  <1>. SUFFICES ASSUME FavInv PROVE FavTypeOK
    OBVIOUS
  <1>1. ServerFits /\ PageFits /\ ReaderFits /\ DialogFits /\ BatchFits
        /\ MembersFit /\ FoldersFit /\ ListsFit /\ WritesFit /\ GhostFits
    BY DEF FavInv
  <1>2. holds \in [Folders -> SUBSET Articles] /\ alive \subseteq Folders /\ track \in alive \union {0}
    BY <1>1 DEF ServerFits
  <1>3. /\ route \in {"start", "search", "favorites"} /\ visible \subseteq Articles
        /\ url \in Folders \union {0} /\ ticked \subseteq Folders \X Articles /\ marks \subseteq Folders \X Articles
    BY <1>1 DEF PageFits, Folder0
  <1>4. reader \in Articles \union {None} /\ open \in BOOLEAN /\ button \in Slots \union {0}
    BY <1>1 DEF ReaderFits
  <1>5. dialog # None => dialog.folder \in Folders /\ dialog.articles \subseteq Articles
    BY <1>1 DEF DialogFits, Questions
  <1>6. batch.status \in {"none", "pending", "success", "error"} /\ batch.want \subseteq visible /\ batch.by \in Slots \union {0}
    BY <1>1 DEF BatchFits
  <1>7. folders.data # None => folders.data.ids \subseteq Folders
    BY <1>1 DEF FoldersFit, FolderQueries
  <1>8. \A f \in Folders : list[f].data \in (SUBSET Articles) \union {None}
    BY <1>1 DEF ListsFit, ListQueries
  <1>9. member \in [Articles -> Member] /\ write \in [Slots -> Write \union {None}]
    BY <1>1 DEF MembersFit, WritesFit
  <1>10. spent \in 0..MaxSteps /\ foreign \in BOOLEAN /\ lost \in BOOLEAN /\ guessed \subseteq Articles
    BY <1>1 DEF GhostFits
  <1>. QED BY <1>2, <1>3, <1>4, <1>5, <1>6, <1>7, <1>8, <1>9, <1>10 DEF FavTypeOK

LEMMA FavStart == FavInit => FavInv
  <1>. SUFFICES ASSUME FavInit PROVE FavInv
    OBVIOUS
  <1>1. ServerFits
    <2>1. \A f \in Folders \ alive : holds[f] \in {{}}
      BY DEF FavInit
    <2>. QED BY <2>1 DEF FavInit, ServerFits
  <1>2. PageFits /\ ReaderFits /\ DialogFits
    BY DEF FavInit, PageFits, ReaderFits, DialogFits, Folder0
  <1>3. BatchFits
    BY DEF FavInit, BatchFits, NoBatch
  <1>4. MembersFit
    BY DEF FavInit, MembersFit, NoMember, Member
  <1>5. FoldersFit /\ ListsFit
    BY DEF FavInit, FoldersFit, FolderQueries, ListsFit, ListQueries, NoQuery
  <1>6. WritesFit
    BY DEF FavInit, WritesFit
  <1>7. GhostFits
    <2>1. spent \in 0..MaxSteps
      BY FavoriteBound DEF FavInit
    <2>. QED BY <2>1 DEF FavInit, GhostFits
  <1>. QED BY <1>1, <1>2, <1>3, <1>4, <1>5, <1>6, <1>7 DEF FavInv

\* What a step leaves alone still fits.
LEMMA StillFits ==
  ASSUME FavInv
  PROVE  /\ UNCHANGED <<favServer>> => ServerFits'
         /\ UNCHANGED <<route, visible, url, ticked, marks>> => PageFits'
         /\ UNCHANGED favButton => ReaderFits'
         /\ UNCHANGED dialog => DialogFits'
         /\ UNCHANGED <<batch, visible>> => BatchFits'
         /\ UNCHANGED member => MembersFit'
         /\ UNCHANGED folders => FoldersFit'
         /\ UNCHANGED list => ListsFit'
         /\ UNCHANGED write => WritesFit'
         /\ UNCHANGED <<favGhost, guessed>> => GhostFits'
  BY DEF FavInv, favServer, favButton, favGhost, ServerFits, PageFits, ReaderFits, DialogFits, BatchFits, MembersFit,
         FoldersFit, ListsFit, WritesFit, GhostFits

\* A step of the page that is not the dialog's, the cache's or a mutation.
LEMMA ActiveIs == FavInv => Active \in Folder0 /\ (Listed # {} => Active \in Folders) /\ Listed \in SUBSET Articles
  <1>. SUFFICES ASSUME FavInv PROVE Active \in Folder0 /\ (Listed # {} => Active \in Folders) /\ Listed \in SUBSET Articles
    OBVIOUS
  <1>1. folders \in FolderQueries /\ list \in [Folders -> ListQueries] /\ url \in Folder0
    BY DEF FavInv, FoldersFit, ListsFit, PageFits
  <1>2. Active \in Folder0
    <2>1. CASE route # "favorites" \/ folders.data = None \/ folders.data.ids = {}
      BY <2>1 DEF Active, FolderOn, Folder0
    <2>2. CASE ~(route # "favorites" \/ folders.data = None \/ folders.data.ids = {})
      <3>1. folders.data.ids \in SUBSET Folders /\ folders.data.ids # {}
        BY <1>1, <2>2 DEF FolderQueries
      <3>2. folders.data.ids \in SUBSET Nat
        BY <3>1, FoldersAreNumbered
      <3>3. Min(folders.data.ids) \in folders.data.ids
        BY <3>1, <3>2, LeastFolder
      <3>. QED BY <2>2, <3>1, <3>3 DEF Active, FolderOn, Folder0
    <2>. QED BY <2>1, <2>2
  <1>3. Active # 0 => Active \in Folders
    BY <1>2 DEF Folder0
  <1>4. Active # 0 => list[Active].data \in (SUBSET Articles) \union {None}
    BY <1>1, <1>3 DEF ListQueries
  <1>5. Listed # {} => Active # 0
    BY DEF Listed
  <1>6. Listed \in SUBSET Articles
    BY <1>4 DEF Listed
  <1>. QED BY <1>2, <1>3, <1>5, <1>6

\* A mutation is sent.
LEMMA MutateFits ==
  ASSUME FavInv, NEW s \in Slots, NEW w, WriteFits(w), Mutate(s, w), UNCHANGED guessed
  PROVE  WritesFit' /\ GhostFits'
  <1>1. write \in [Slots -> Write \union {None}] /\ \A r \in Slots : write[r] # None => WriteFits(write[r])
    BY DEF FavInv, WritesFit
  <1>2. write' = [write EXCEPT ![s] = w] /\ w \in Write
    BY DEF Mutate, WriteFits
  <1>3. WritesFit'
    <2>1. write' \in [Slots -> Write \union {None}]
      BY <1>1, <1>2
    <2>2. \A r \in Slots : write'[r] # None => WriteFits(write'[r])
      BY <1>1, <1>2
    <2>. QED BY <2>1, <2>2 DEF WritesFit, WriteFits
  <1>4. spent' \in 0..MaxSteps
    BY FavoriteBound DEF Mutate, Spend, FavInv, GhostFits
  <1>5. UNCHANGED <<foreign, lost, guessed>>
    BY DEF Mutate
  <1>6. GhostFits'
    BY <1>4, <1>5 DEF FavInv, GhostFits
  <1>. QED BY <1>3, <1>6

LEMMA PlainIs == Plain \in Write /\ Plain = [kind |-> "create", folder |-> 0, target |-> 0, articles |-> {}, from |-> 0,
                                             toggle |-> FALSE, state |-> "sent"]
  BY DEF Plain, Write, Kinds

\* Mutations sent from the page
LEMMA SendSteps ==
  ASSUME FavInv, \/ Toggle \/ CreateFolder \/ TrackFolder
                 \/ \E f \in Folders : PickAdd(f) \/ MoveSelected(f)
  PROVE  FavInv'
  <1>0. Active \in Folder0 /\ (Listed # {} => Active \in Folders) /\ Listed \in SUBSET Articles
    BY ActiveIs
  <1>1. UNCHANGED <<favServer, favPage, reader, open, ticked, dialog, favCache, guessed, marks>>
    BY DEF Toggle, CreateFolder, TrackFolder, PickAdd, MoveSelected, favButton
  <1>2. ASSUME WritesFit', GhostFits', button' \in Slots \union {0} PROVE FavInv'
    <2>1. ReaderFits'
      BY <1>1, <1>2 DEF FavInv, ReaderFits
    <2>2. UNCHANGED <<route, visible, url, batch, member, folders, list>>
      BY <1>1 DEF favPage, favCache
    <2>. QED BY <1>1, <1>2, <2>1, <2>2, StillFits DEF FavInv
  <1>3. reader \in Articles \union {None} /\ button \in Slots \union {0}
    BY DEF FavInv, ReaderFits
  <1>4. ASSUME NEW f \in Folders, PickAdd(f) PROVE FavInv'
    <2>1. PICK s \in FreeSlots : Mutate(s, [Plain EXCEPT !.kind = "add", !.folder = f, !.articles = {reader}]) /\ button' = s
      BY <1>4 DEF PickAdd
    <2>2. reader \in Articles
      BY <1>3, <1>4 DEF PickAdd, Offers, ButtonReady
    <2>. DEFINE w == [Plain EXCEPT !.kind = "add", !.folder = f, !.articles = {reader}]
    <2>3. w \in Write /\ w.kind = "add" /\ w.articles = {reader} /\ w.state = "sent"
      BY <2>2, PlainIs DEF Write, Kinds
    <2>4. WriteFits(w)
      <3>. HIDE DEF w
      <3>. QED BY <2>2, <2>3 DEF WriteFits, IsOne
    <2>5. s \in Slots
      BY DEF FreeSlots
    <2>6. WritesFit' /\ GhostFits'
      <3>1. Mutate(s, w) /\ UNCHANGED guessed
        BY <1>1, <2>1
      <3>. HIDE DEF w
      <3>. QED BY <2>4, <2>5, <3>1, MutateFits
    <2>. QED BY <1>2, <2>1, <2>5, <2>6
  <1>5. CASE Toggle
    <2>. DEFINE k == IF Active \in ShownFolders THEN "remove" ELSE "add"
                w == [Plain EXCEPT !.kind = k, !.folder = Active, !.articles = {reader}, !.toggle = TRUE]
    <2>1. PICK s \in FreeSlots : Mutate(s, w) /\ button' = s
      BY <1>5 DEF Toggle
    <2>2. reader \in Articles
      BY <1>3, <1>5 DEF Toggle, Offers, ButtonReady
    <2>3. k \in {"add", "remove"}
      OBVIOUS
    <2>4. w \in Write /\ w.articles = {reader} /\ w.state = "sent"
      <3>. HIDE DEF k
      <3>. QED BY <1>0, <2>2, <2>3, PlainIs DEF Write, Kinds, Folder0
    <2>. HIDE DEF w
    <2>5. WriteFits(w)
      BY <2>2, <2>4 DEF WriteFits, IsOne
    <2>6. s \in Slots
      BY DEF FreeSlots
    <2>7. WritesFit' /\ GhostFits'
      BY <1>1, <2>1, <2>5, <2>6, MutateFits
    <2>. QED BY <1>2, <2>1, <2>6, <2>7
  <1>6. CASE CreateFolder
    <2>1. PICK s \in FreeSlots : Mutate(s, Plain)
      BY <1>6 DEF CreateFolder
    <2>2. WriteFits(Plain)
      BY PlainIs DEF WriteFits
    <2>3. s \in Slots
      BY DEF FreeSlots
    <2>4. WritesFit' /\ GhostFits'
      BY <1>1, <2>1, <2>2, <2>3, MutateFits
    <2>. QED BY <1>2, <1>3, <1>6, <2>4 DEF CreateFolder, favButton
  <1>7. CASE TrackFolder
    <2>. DEFINE w == [Plain EXCEPT !.kind = "track", !.folder = Active]
    <2>1. PICK s \in FreeSlots : Mutate(s, w)
      BY <1>7 DEF TrackFolder
    <2>2. w \in Write /\ w.kind = "track"
      BY <1>0, PlainIs DEF Write, Kinds, Folder0
    <2>. HIDE DEF w
    <2>3. WriteFits(w)
      BY <2>2 DEF WriteFits
    <2>4. s \in Slots
      BY DEF FreeSlots
    <2>5. WritesFit' /\ GhostFits'
      BY <1>1, <2>1, <2>3, <2>4, MutateFits
    <2>. QED BY <1>2, <1>3, <1>7, <2>5 DEF TrackFolder, favButton
  <1>8. ASSUME NEW f \in Folders, MoveSelected(f) PROVE FavInv'
    <2>. DEFINE w == [Plain EXCEPT !.kind = "bulkMove", !.folder = Active, !.target = f, !.articles = Selected, !.from = Active]
    <2>1. PICK s \in FreeSlots : Mutate(s, w)
      BY <1>8 DEF MoveSelected
    <2>2. Selected \in SUBSET Articles
      BY <1>0 DEF Selected
    <2>3. w \in Write /\ w.kind = "bulkMove"
      BY <1>0, <2>2, PlainIs DEF Write, Kinds, Folder0
    <2>. HIDE DEF w
    <2>4. WriteFits(w)
      BY <2>3 DEF WriteFits
    <2>5. s \in Slots
      BY DEF FreeSlots
    <2>6. WritesFit' /\ GhostFits'
      BY <1>1, <2>1, <2>4, <2>5, MutateFits
    <2>. QED BY <1>2, <1>3, <1>8, <2>6 DEF MoveSelected, favButton
  <1>. QED BY <1>4, <1>5, <1>6, <1>7, <1>8

\* Questions, ticks and their confirmation
LEMMA AskSteps ==
  ASSUME FavInv, \/ TickAll \/ AskBulkRemove \/ Dismiss
                 \/ \E f \in Folders : AskRemove(f)
                 \/ \E a \in Articles : Tick(a)
                 \/ \E kind \in {"delete", "rename"} : AskFolder(kind)
  PROVE  FavInv'
  <1>0. Active \in Folder0 /\ (Listed # {} => Active \in Folders) /\ Listed \in SUBSET Articles
    BY ActiveIs
  <1>1. UNCHANGED <<favServer, favPage, favButton, favCache, write, favGhost, guessed>>
    BY DEF TickAll, AskBulkRemove, Dismiss, AskRemove, Tick, AskFolder
  <1>2. UNCHANGED <<route, visible, url, batch, member, folders, list>>
    BY <1>1 DEF favPage, favCache
  <1>3. ASSUME UNCHANGED <<ticked, marks>>, DialogFits' PROVE FavInv'
    BY <1>1, <1>2, <1>3, StillFits DEF FavInv
  <1>4. ASSUME UNCHANGED dialog, ticked' \in SUBSET (Folders \X Articles), marks' = ticked' PROVE FavInv'
    <2>1. PageFits'
      BY <1>2, <1>4 DEF FavInv, PageFits
    <2>. QED BY <1>1, <1>2, <1>4, <2>1, StillFits DEF FavInv
  <1>5. ticked \in SUBSET (Folders \X Articles) /\ marks = ticked
    BY DEF FavInv, PageFits
  <1>6. ASSUME NEW a \in Articles, Tick(a) PROVE FavInv'
    <2>1. <<Active, a>> \in Folders \X Articles
      BY <1>0, <1>6 DEF Tick
    <2>2. /\ UNCHANGED dialog
          /\ ticked' = IF a \in Selected THEN ticked \ {<<Active, a>>} ELSE ticked \union {<<Active, a>>}
          /\ marks' = IF a \in Selected THEN marks \ {<<Active, a>>} ELSE marks \union {<<Active, a>>}
      BY <1>6 DEF Tick, SelectionKey
    <2>. QED BY <1>4, <1>5, <2>1, <2>2
  <1>7. CASE TickAll
    <2>1. UNCHANGED dialog /\ ticked' = {<<Active, a>> : a \in Listed} /\ marks' = {Active} \X Listed /\ Active \in Folders
      BY <1>0, <1>7 DEF TickAll, SelectionKey
    <2>2. marks' = ticked'
      BY <2>1
    <2>. QED BY <1>0, <1>4, <2>1, <2>2
  <1>8. CASE AskBulkRemove
    <2>1. UNCHANGED <<ticked, marks>> /\ dialog' = [kind |-> "bulkRemove", folder |-> Active, articles |-> Selected]
      BY <1>8 DEF AskBulkRemove
    <2>2. Selected \in SUBSET Articles /\ Active \in Folders
      BY <1>0, <1>8 DEF AskBulkRemove, Selected
    <2>3. DialogFits'
      BY <2>1, <2>2 DEF DialogFits, Questions
    <2>. QED BY <1>3, <2>1, <2>3
  <1>9. CASE Dismiss
    BY <1>3, <1>9 DEF Dismiss, DialogFits
  <1>10. ASSUME NEW f \in Folders, AskRemove(f) PROVE FavInv'
    <2>1. UNCHANGED <<ticked, marks>> /\ dialog' = [kind |-> "remove", folder |-> f, articles |-> {reader}]
      BY <1>10 DEF AskRemove
    <2>2. reader \in Articles
      BY <1>10 DEF AskRemove, Offers, ButtonReady, FavInv, ReaderFits
    <2>3. DialogFits'
      BY <2>1, <2>2 DEF DialogFits, Questions, IsOne
    <2>. QED BY <1>3, <2>1, <2>3
  <1>11. ASSUME NEW kind \in {"delete", "rename"}, AskFolder(kind) PROVE FavInv'
    <2>1. UNCHANGED <<ticked, marks>> /\ dialog' = [kind |-> kind, folder |-> Active, articles |-> {}]
      BY <1>11 DEF AskFolder
    <2>2. Active \in Folders
      BY <1>0, <1>11 DEF AskFolder, Folder0
    <2>3. DialogFits'
      BY <2>1, <2>2 DEF DialogFits, Questions
    <2>. QED BY <1>3, <2>1, <2>3
  <1>. QED BY <1>6, <1>7, <1>8, <1>9, <1>10, <1>11

LEMMA ConfirmStep == FavInv /\ Confirm => FavInv'
  <1>. SUFFICES ASSUME FavInv, Confirm PROVE FavInv'
    OBVIOUS
  <1>1. dialog # None /\ dialog \in Questions /\ (dialog.kind = "remove" => IsOne(dialog.articles))
    BY DEF Confirm, Modal, FavInv, DialogFits
  <1>. DEFINE folder == IF dialog.kind = "bulkRemove" THEN Active ELSE dialog.folder
              w == [Plain EXCEPT !.kind = dialog.kind, !.articles = dialog.articles, !.from = dialog.folder, !.folder = folder]
  <1>2. PICK s \in FreeSlots : Mutate(s, w) /\ button' = IF dialog.kind = "remove" THEN s ELSE button
    BY DEF Confirm
  <1>3. folder \in Folder0
    BY <1>1, ActiveIs DEF Questions, Folder0
  <1>4. w \in Write /\ w.kind = dialog.kind /\ w.articles = dialog.articles /\ w.state = "sent"
    <2>. HIDE DEF folder
    <2>. QED BY <1>1, <1>3, PlainIs DEF Questions, Write, Kinds, Folder0
  <1>. HIDE DEF w
  <1>5. WriteFits(w)
    BY <1>1, <1>4 DEF WriteFits, Questions
  <1>6. s \in Slots
    BY DEF FreeSlots
  <1>7. UNCHANGED <<favServer, favPage, reader, open, ticked, dialog, favCache, guessed, marks>>
    BY DEF Confirm
  <1>8. WritesFit' /\ GhostFits'
    BY <1>2, <1>5, <1>6, <1>7, MutateFits
  <1>9. ReaderFits'
    BY <1>2, <1>6, <1>7 DEF FavInv, ReaderFits
  <1>. QED BY <1>7, <1>8, <1>9, StillFits DEF FavInv, favPage, favCache

----------------------------------------------------------------------------
\* Types of the server

\* What a write accepted by the server does to it
LEMMA ServeFits ==
  ASSUME ServerFits, NEW w, w \in Write, Accepts(w), Serve(w)
  PROVE  ServerFits'
  <1>1. /\ Folders # {} /\ holds \in [Folders -> SUBSET Articles] /\ alive \in SUBSET Folders
        /\ track \in alive \union {0} /\ \A f \in Folders \ alive : holds[f] = {}
    BY DEF ServerFits
  <1>2. w.kind \in Kinds /\ w.articles \in SUBSET Articles
    BY DEF Write
  <1>3. holds' \in [Folders -> SUBSET Articles] /\ (\A f \in Folders \ alive : holds'[f] = {})
    <2>1. CASE w.kind = "add"
      <3>1. w.folder \in alive /\ holds' = [holds EXCEPT ![w.folder] = @ \union w.articles]
        BY <2>1 DEF Accepts, Serve, Applied
      <3>2. holds' \in [Folders -> SUBSET Articles]
        BY <1>1, <1>2, <3>1
      <3>. QED BY <1>1, <3>1, <3>2
    <2>2. CASE w.kind \in {"remove", "bulkRemove"}
      <3>1. holds' = [holds EXCEPT ![w.folder] = @ \ w.articles]
        BY <2>2 DEF Serve, Applied
      <3>2. holds' \in [Folders -> SUBSET Articles]
        BY <1>1, <3>1
      <3>. QED BY <1>1, <3>1, <3>2
    <2>3. CASE w.kind = "delete"
      <3>1. holds' = [holds EXCEPT ![w.folder] = {}]
        BY <2>3 DEF Serve, Applied
      <3>2. holds' \in [Folders -> SUBSET Articles]
        BY <1>1, <3>1
      <3>. QED BY <1>1, <3>1, <3>2
    <2>4. CASE w.kind = "bulkMove"
      <3>. DEFINE moved == holds[w.target] \union (w.articles \intersect holds[w.folder])
                  first == [holds EXCEPT ![w.target] = moved]
      <3>1. w.folder \in alive /\ w.target \in alive
        BY <2>4 DEF Accepts
      <3>2. holds' = [first EXCEPT ![w.folder] = @ \ w.articles]
        BY <1>1, <2>4, <3>1 DEF Serve, Applied
      <3>3. moved \in SUBSET Articles
        BY <1>1, <1>2, <3>1
      <3>. HIDE DEF moved
      <3>4. first \in [Folders -> SUBSET Articles] /\ (\A f \in Folders \ alive : first[f] = {})
        BY <1>1, <3>1, <3>3
      <3>. HIDE DEF first
      <3>5. holds' \in [Folders -> SUBSET Articles]
        BY <3>2, <3>4
      <3>. QED BY <3>1, <3>2, <3>4, <3>5
    <2>5. CASE w.kind \in {"create", "rename", "track"}
      BY <1>1, <2>5 DEF Serve, Applied
    <2>. QED BY <1>2, <2>1, <2>2, <2>3, <2>4, <2>5 DEF Kinds
  <1>4. CASE w.kind = "create"
    <2>1. \A f \in alive : \E g \in Folders : g > f
      BY <1>4 DEF Accepts
    <2>2. NewFolder \in Folders \ alive
      BY <1>1, <2>1, CreatesFolder
    <2>3. alive' = alive \union {NewFolder} /\ track' = track
      BY <1>4 DEF Serve
    <2>. QED BY <1>1, <1>3, <2>2, <2>3 DEF ServerFits
  <1>5. CASE w.kind = "delete"
    <2>1. /\ alive' = alive \ {w.folder} /\ holds' = [holds EXCEPT ![w.folder] = {}]
          /\ track' = IF track = w.folder THEN 0 ELSE track
      BY <1>5 DEF Serve, Applied
    <2>2. \A f \in Folders \ alive' : holds'[f] = {}
      BY <1>1, <1>3, <2>1
    <2>3. track' \in alive' \union {0}
      BY <1>1, <2>1
    <2>. QED BY <1>1, <1>3, <2>1, <2>2, <2>3 DEF ServerFits
  <1>6. CASE w.kind = "track"
    <2>1. alive' = alive /\ track' = w.folder /\ w.folder \in alive
      BY <1>6 DEF Serve, Accepts
    <2>. QED BY <1>1, <1>3, <2>1 DEF ServerFits
  <1>7. CASE w.kind \notin {"create", "delete", "track"}
    <2>1. alive' = alive /\ track' = track
      BY <1>7 DEF Serve
    <2>. QED BY <1>1, <1>3, <2>1 DEF ServerFits
  <1>. QED BY <1>4, <1>5, <1>6, <1>7

LEMMA ReplyIs ==
  ASSUME WritesFit, NEW s \in Slots, write[s] # None, NEW state \in {"sent", "ok", "failed", "settling"}, Reply(s, state),
         state = "ok" /\ write[s].kind = "add" => write[s].folder \in Folders
  PROVE  /\ WritesFit'
         /\ \A r \in Slots \ {s} : write'[r] = write[r]
         /\ write'[s] \in Write /\ write'[s] = [write[s] EXCEPT !.state = state]
  <1>1. write \in [Slots -> Write \union {None}] /\ \A r \in Slots : write[r] # None => WriteFits(write[r])
    BY DEF WritesFit
  <1>. DEFINE w == [write[s] EXCEPT !.state = state]
  <1>2. write[s] \in Write /\ WriteFits(write[s])
    BY <1>1
  <1>3. w \in Write /\ w.kind = write[s].kind /\ w.articles = write[s].articles /\ w.state = state /\ w.folder = write[s].folder
    BY <1>2 DEF Write
  <1>4. write' = [write EXCEPT ![s] = w]
    BY <1>1 DEF Reply
  <1>5. WriteFits(w)
    BY <1>2, <1>3 DEF WriteFits
  <1>6. w = [write[s] EXCEPT !.state = state]
    OBVIOUS
  <1>. HIDE DEF w
  <1>7. write' \in [Slots -> Write \union {None}] /\ write'[s] = w /\ \A r \in Slots \ {s} : write'[r] = write[r]
    BY <1>1, <1>3, <1>4
  <1>8. \A r \in Slots : write'[r] # None => WriteFits(write'[r])
    BY <1>1, <1>5, <1>7
  <1>9. WritesFit'
    BY <1>7, <1>8 DEF WritesFit, WriteFits
  <1>. QED BY <1>3, <1>6, <1>7, <1>9

LEMMA ServerSteps ==
  ASSUME FavInv, \/ \E s \in Slots : ServeWrite(s) \/ LoseWrite(s)
                 \/ \E f \in Folders : ForeignDelete(f) \/ ForeignTrack(f)
  PROVE  FavInv'
  <1>0. ServerFits /\ WritesFit /\ GhostFits
    BY DEF FavInv
  <1>1. UNCHANGED <<favPage, favButton, ticked, dialog, favCache, guessed, marks>>
    BY DEF ServeWrite, LoseWrite, ForeignDelete, ForeignTrack
  <1>2. ASSUME ServerFits', WritesFit', GhostFits' PROVE FavInv'
    BY <1>1, <1>2, StillFits DEF FavInv, favPage, favCache
  <1>3. \A s \in Slots : write[s] # None => write[s] \in Write
    BY <1>0 DEF WritesFit
  <1>4. ASSUME NEW s \in Slots, ServeWrite(s) PROVE FavInv'
    <2>1. write[s] # None /\ write[s] \in Write /\ UNCHANGED favGhost
      BY <1>3, <1>4 DEF ServeWrite
    <2>2. GhostFits'
      BY <1>1, <2>1, StillFits
    <2>3. CASE Accepts(write[s])
      <3>1. Serve(write[s]) /\ Reply(s, "ok")
        BY <1>4, <2>3 DEF ServeWrite
      <3>2. ServerFits'
        BY <1>0, <2>1, <2>3, <3>1, ServeFits
      <3>3. write[s].kind = "add" => write[s].folder \in Folders
        BY <1>0, <2>3 DEF Accepts, ServerFits
      <3>4. WritesFit'
        BY <1>0, <2>1, <3>1, <3>3, ReplyIs
      <3>. QED BY <1>2, <2>2, <3>2, <3>4
    <2>4. CASE ~Accepts(write[s])
      <3>1. UNCHANGED favServer /\ Reply(s, "failed")
        BY <1>4, <2>4 DEF ServeWrite
      <3>2. ServerFits'
        BY <3>1, StillFits
      <3>3. WritesFit'
        BY <1>0, <2>1, <3>1, ReplyIs
      <3>. QED BY <1>2, <2>2, <3>2, <3>3
    <2>. QED BY <2>3, <2>4
  <1>5. ASSUME NEW s \in Slots, LoseWrite(s) PROVE FavInv'
    <2>1. write[s] # None /\ write[s] \in Write /\ Reply(s, "failed") /\ Spend /\ UNCHANGED foreign
      BY <1>3, <1>5 DEF LoseWrite
    <2>2. WritesFit'
      BY <1>0, <2>1, ReplyIs
    <2>3. (lost' = lost /\ UNCHANGED favServer) \/ (Accepts(write[s]) /\ Serve(write[s]) /\ lost' = TRUE)
      BY <1>5 DEF LoseWrite
    <2>4. ServerFits'
      BY <1>0, <2>1, <2>3, ServeFits, StillFits
    <2>5. spent' \in 0..MaxSteps
      BY <1>0, <2>1, FavoriteBound DEF Spend, GhostFits
    <2>6. foreign' \in BOOLEAN /\ lost' \in BOOLEAN /\ guessed' \in SUBSET Articles
      BY <1>0, <1>1, <2>1, <2>3 DEF GhostFits
    <2>7. GhostFits'
      BY <2>5, <2>6 DEF GhostFits
    <2>. QED BY <1>2, <2>2, <2>4, <2>7
  <1>6. ASSUME NEW f \in Folders, NEW k \in {"delete", "track"}, Foreign, UNCHANGED write, f \in alive,
               Serve([Plain EXCEPT !.kind = k, !.folder = f])
        PROVE  FavInv'
    <2>. DEFINE w == [Plain EXCEPT !.kind = k, !.folder = f]
    <2>1. w \in Write /\ w.kind = k /\ w.folder = f
      BY PlainIs DEF Write, Kinds
    <2>2. Serve(w)
      BY <1>6
    <2>. HIDE DEF w
    <2>3. Accepts(w)
      BY <1>6, <2>1 DEF Accepts
    <2>4. ServerFits'
      BY <1>0, <2>1, <2>2, <2>3, ServeFits
    <2>5. spent' \in 0..MaxSteps
      BY <1>0, <1>6, FavoriteBound DEF Foreign, Spend, GhostFits
    <2>6. foreign' \in BOOLEAN /\ lost' \in BOOLEAN /\ guessed' \in SUBSET Articles
      BY <1>0, <1>1, <1>6 DEF Foreign, GhostFits
    <2>7. GhostFits'
      BY <2>5, <2>6 DEF GhostFits
    <2>. QED BY <1>2, <1>6, <2>4, <2>7, StillFits
  <1>7. ASSUME NEW f \in Folders, ForeignDelete(f) PROVE FavInv'
    BY <1>6, <1>7 DEF ForeignDelete
  <1>8. ASSUME NEW f \in Folders, ForeignTrack(f) PROVE FavInv'
    BY <1>6, <1>8 DEF ForeignTrack
  <1>. QED BY <1>4, <1>5, <1>7, <1>8

----------------------------------------------------------------------------
\* Types of the cache

MemberIs(m) == m \in Member
CallIs(c) == c \in Call \union {None}

LEMMA NoneIsMember == NoMember \in Member
  BY DEF NoMember, Member

\* Stale keeps memberships, and Fetching and NoBatch make batches.
LEMMA StaleFits ==
  ASSUME NEW m \in [Articles -> Member], NEW these
  PROVE  /\ Stale(m, these) \in [Articles -> Member]
         /\ \A a \in Articles : /\ Stale(m, these)[a].data = m[a].data /\ Stale(m, these)[a].err = m[a].err
                                /\ Stale(m, these)[a].call = m[a].call
                                /\ Stale(m, these)[a].fresh = (m[a].fresh /\ a \notin these)
  <1>1. \A a \in Articles : m[a] \in Member
    OBVIOUS
  <1>2. \A a \in Articles : Stale(m, these)[a] = [m[a] EXCEPT !.fresh = @ /\ a \notin these]
    BY DEF Stale
  <1>3. \A a \in Articles : [m[a] EXCEPT !.fresh = @ /\ a \notin these] \in Member
    BY <1>1 DEF Member
  <1>4. DOMAIN Stale(m, these) = Articles /\ Stale(m, these) = [a \in Articles |-> Stale(m, these)[a]]
    BY DEF Stale
  <1>5. Stale(m, these) \in [Articles -> Member]
    BY <1>2, <1>3, <1>4
  <1>6. ASSUME NEW a \in Articles
        PROVE  /\ Stale(m, these)[a].data = m[a].data /\ Stale(m, these)[a].err = m[a].err
               /\ Stale(m, these)[a].call = m[a].call /\ Stale(m, these)[a].fresh = (m[a].fresh /\ a \notin these)
    <2>. DEFINE n == [m[a] EXCEPT !.fresh = @ /\ a \notin these]
    <2>1. n.data = m[a].data /\ n.err = m[a].err /\ n.call = m[a].call /\ n.fresh = (m[a].fresh /\ a \notin these)
      BY <1>1 DEF Member
    <2>2. Stale(m, these)[a] = n
      BY <1>2
    <2>. HIDE DEF n
    <2>. QED BY <2>1, <2>2
  <1>. QED BY <1>5, <1>6

\* A batch that is a batch of these results
IsBatch(b, these) ==
    /\ b = [status |-> b.status, want |-> b.want, by |-> b.by, got |-> b.got]
    /\ b.status \in {"none", "pending", "success", "error"}
    /\ b.want \in SUBSET these /\ b.by \in Slots \union {0}
    /\ b.got \in {None, Failed} \/ b.got \in [b.want -> SUBSET Folders]

LEMMA BatchIs == BatchFits <=> IsBatch(batch, visible)
  BY DEF BatchFits, IsBatch

LEMMA NoBatchIs ==
  ASSUME NEW these
  PROVE  /\ IsBatch(NoBatch, these) /\ NoBatch.want = {} /\ NoBatch.status = "none" /\ NoBatch.got = None
         /\ \A k \in {"success", "error"} :
              LET b == [NoBatch EXCEPT !.status = k] IN IsBatch(b, these) /\ b.want = {} /\ b.status = k /\ b.got = None
  BY DEF IsBatch, NoBatch

LEMMA FetchingIs ==
  ASSUME FavInv, NEW m, NEW s \in Slots \union {0}
  PROVE  LET b == Fetching(m, s)
         IN  /\ IsBatch(b, visible) /\ b.got = None /\ b.want = Missing(m)
             /\ b.want = {} => b.status = "success"
  <1>0. batch.status \in {"none", "pending", "success", "error"}
    BY DEF FavInv, BatchFits
  <1>1. Missing(m) \in SUBSET visible
    BY DEF Missing
  <1>2. CASE Missing(m) = {}
    BY <1>2, NoBatchIs DEF Fetching
  <1>3. CASE Missing(m) # {}
    <2>1. Fetching(m, s) = [status |-> IF batch.status = "none" THEN "pending" ELSE batch.status,
                            want |-> Missing(m), by |-> s, got |-> None]
      BY <1>3 DEF Fetching
    <2>2. (IF batch.status = "none" THEN "pending" ELSE batch.status) \in {"none", "pending", "success", "error"}
      BY <1>0
    <2>. QED BY <1>1, <1>3, <2>1, <2>2 DEF IsBatch
  <1>. QED BY <1>2, <1>3

\* What outdating the batch over memberships m leaves
LEMMA InvalidatedFits ==
  ASSUME FavInv, NEW m \in [Articles -> Member], NEW s \in Slots, InvalidateBatch(m, s), UNCHANGED visible
  PROVE  /\ MembersFit' /\ BatchFits' /\ batch'.got = None
         /\ batch'.status = "success" \/ batch'.want # {} => \A a \in visible \ batch'.want : member'[a].fresh
         /\ \A a \in Articles : /\ member'[a].data = m[a].data /\ member'[a].call = m[a].call
                                /\ member'[a].fresh => m[a].fresh
  <1>. DEFINE old == IF batch.status = "success" THEN Stale(m, visible) ELSE m
  <1>1. /\ old \in [Articles -> Member]
        /\ \A a \in Articles : old[a].data = m[a].data /\ old[a].call = m[a].call /\ (old[a].fresh => m[a].fresh)
    BY StaleFits
  <1>2. CASE route = "search"
    <2>1. member' = old /\ batch' = Fetching(old, s)
      BY <1>2 DEF InvalidateBatch
    <2>. HIDE DEF old
    <2>2. IsBatch(batch', visible') /\ batch'.got = None /\ batch'.want = Missing(old)
      BY <2>1, FetchingIs
    <2>3. \A a \in visible : a \notin batch'.want => member'[a].fresh
      BY <2>1, <2>2 DEF Missing
    <2>. QED BY <1>1, <2>1, <2>2, <2>3 DEF MembersFit, BatchFits, IsBatch
  <1>3. CASE route # "search"
    <2>1. member' = m /\ batch' = NoBatch
      BY <1>3 DEF InvalidateBatch
    <2>2. IsBatch(batch', visible') /\ batch'.got = None /\ batch'.status = "none" /\ batch'.want = {}
      BY <2>1, NoBatchIs
    <2>. QED BY <2>1, <2>2 DEF MembersFit, BatchFits, IsBatch
  <1>. QED BY <1>2, <1>3

\* What a cancelled, patched membership and swept memberships are
Known(a) == IF member[a].data = None THEN {} ELSE member[a].data
PatchOf(w, a) == IF w.kind = "add" THEN Known(a) \union {w.folder} ELSE Known(a) \ {w.folder}
PatchTo(w, a) ==
    [member EXCEPT ![a] = [data |-> PatchOf(w, a), fresh |-> TRUE, err |-> FALSE, call |-> None]]
SweptBy(s) ==
    [a \in Articles |-> IF a \notin Observed THEN NoMember ELSE
        [member[a] EXCEPT !.fresh = FALSE, !.call =
            IF open /\ a = reader THEN [by |-> s, got |-> None] ELSE None]]

LEMMA PatchIs ==
  ASSUME FavInv, NEW s \in Slots, write[s] # None, write[s].kind \in {"add", "remove"}, write[s].state = "ok"
  PROVE  /\ Sample(s) \in Articles /\ write[s].articles = {Sample(s)}
         /\ PatchOf(write[s], Sample(s)) \in SUBSET Folders
         /\ PatchTo(write[s], Sample(s)) \in [Articles -> Member]
         /\ PatchMember(s) => /\ guessed' = IF member[Sample(s)].fresh THEN guessed ELSE guessed \union {Sample(s)}
                              /\ InvalidateBatch(PatchTo(write[s], Sample(s)), s)
  <1>. DEFINE a == Sample(s)
              w == write[s]
  <1>1. WriteFits(w) /\ member \in [Articles -> Member]
    BY DEF FavInv, WritesFit, MembersFit
  <1>2. a \in Articles /\ w.articles = {a}
    <2>1. PICK b \in Articles : w.articles = {b}
      BY <1>1 DEF WriteFits, IsOne
    <2>. QED BY <2>1 DEF Sample
  <1>3. w.kind = "add" => w.folder \in Folders
    BY <1>1 DEF WriteFits
  <1>4. member[a].data \in (SUBSET Folders) \union {None}
    BY <1>1, <1>2 DEF Member
  <1>5. PatchOf(w, a) \in SUBSET Folders
    BY <1>3, <1>4 DEF PatchOf, Known
  <1>6. [data |-> PatchOf(w, a), fresh |-> TRUE, err |-> FALSE, call |-> None] \in Member
    BY <1>5 DEF Member
  <1>7. PatchTo(w, a) \in [Articles -> Member]
    BY <1>1, <1>6 DEF PatchTo
  <1>8. PatchMember(s) => /\ guessed' = IF member[Sample(s)].fresh THEN guessed ELSE guessed \union {Sample(s)}
                          /\ InvalidateBatch(PatchTo(write[s], Sample(s)), s)
    BY DEF PatchMember, PatchTo, PatchOf, Known
  <1>. QED BY <1>2, <1>5, <1>7, <1>8

LEMMA SweptIs ==
  ASSUME FavInv, NEW s \in Slots
  PROVE  /\ SweptBy(s) \in [Articles -> Member]
         /\ \A a \in Articles : /\ ~SweptBy(s)[a].fresh
                                /\ SweptBy(s)[a].call # None => SweptBy(s)[a].call = [by |-> s, got |-> None]
         /\ InvalidateMemberships(s) => InvalidateBatch(SweptBy(s), s) /\ UNCHANGED guessed
  <1>1. \A a \in Articles : member[a] \in Member
    BY DEF FavInv, MembersFit
  <1>2. [by |-> s, got |-> None] \in Call
    BY DEF Call
  <1>3. ASSUME NEW a \in Articles
        PROVE  /\ SweptBy(s)[a] \in Member /\ ~SweptBy(s)[a].fresh
               /\ SweptBy(s)[a].call # None => SweptBy(s)[a].call = [by |-> s, got |-> None]
    <2>. DEFINE call == IF open /\ a = reader THEN [by |-> s, got |-> None] ELSE None
                m == [member[a] EXCEPT !.fresh = FALSE, !.call = call]
    <2>1. call \in Call \union {None} /\ (call # None => call = [by |-> s, got |-> None])
      BY <1>2
    <2>2. SweptBy(s)[a] = IF a \notin Observed THEN NoMember ELSE m
      BY DEF SweptBy
    <2>. HIDE DEF call
    <2>3. m \in Member /\ ~m.fresh /\ m.call = call
      BY <1>1, <2>1 DEF Member
    <2>4. ~NoMember.fresh /\ NoMember.call = None
      BY DEF NoMember
    <2>. HIDE DEF m
    <2>. QED BY <2>1, <2>2, <2>3, <2>4, NoneIsMember
  <1>4. SweptBy(s) \in [Articles -> Member]
    <2>1. SweptBy(s) = [a \in Articles |-> SweptBy(s)[a]]
      BY DEF SweptBy
    <2>. QED BY <1>3, <2>1
  <1>5. InvalidateMemberships(s) => InvalidateBatch(SweptBy(s), s) /\ UNCHANGED guessed
    BY DEF InvalidateMemberships, SweptBy
  <1>. QED BY <1>3, <1>4, <1>5

LEMMA AnswerWriteStep ==
  ASSUME FavInv, NEW s \in Slots, AnswerWrite(s)
  PROVE  FavInv'
  <1>1. /\ write[s] # None /\ write[s].state = "ok" /\ Reply(s, "settling")
        /\ UNCHANGED <<favServer, favPage, favButton, ticked, dialog, folders, list, favGhost, marks>>
    BY DEF AnswerWrite
  <1>2. WritesFit'
    BY <1>1, ReplyIs DEF FavInv
  <1>3. UNCHANGED <<route, visible, url>>
    BY <1>1 DEF favPage
  <1>4. write[s].kind \in Kinds
    BY <1>1 DEF FavInv, WritesFit, Write
  <1>5. MembersFit' /\ BatchFits' /\ guessed' \in SUBSET Articles
    <2>1. guessed \in SUBSET Articles
      BY DEF FavInv, GhostFits
    <2>2. CASE write[s].kind \in {"add", "remove"}
      <3>1. PatchMember(s)
        BY <2>2 DEF AnswerWrite, Sweeping, Bulk
      <3>. QED BY <1>1, <1>3, <2>1, <2>2, <3>1, PatchIs, InvalidatedFits
    <2>3. CASE write[s].kind \in Sweeping
      <3>1. InvalidateMemberships(s)
        BY <2>3 DEF AnswerWrite, Sweeping, Bulk
      <3>. QED BY <1>3, <2>1, <3>1, SweptIs, InvalidatedFits
    <2>4. CASE write[s].kind \notin {"add", "remove"} \union Sweeping
      <3>1. UNCHANGED <<member, batch, guessed>>
        BY <2>4 DEF AnswerWrite
      <3>. QED BY <1>3, <2>1, <3>1, StillFits
    <2>. QED BY <2>2, <2>3, <2>4
  <1>6. GhostFits'
    BY <1>1, <1>5 DEF FavInv, GhostFits, favGhost
  <1>. QED BY <1>1, <1>2, <1>3, <1>5, <1>6, StillFits DEF FavInv

LEMMA AnswerFailureStep ==
  ASSUME FavInv, NEW s \in Slots, AnswerFailure(s)
  PROVE  FavInv'
  <1>1. /\ write' = [write EXCEPT ![s] = None] /\ button' = IF button = s THEN 0 ELSE button
        /\ UNCHANGED <<favServer, favPage, reader, open, ticked, dialog, favCache, favGhost, guessed, marks>>
    BY DEF AnswerFailure
  <1>2. WritesFit'
    BY <1>1 DEF FavInv, WritesFit, WriteFits
  <1>3. ReaderFits'
    BY <1>1 DEF FavInv, ReaderFits
  <1>. QED BY <1>1, <1>2, <1>3, StillFits DEF FavInv, favPage, favCache

----------------------------------------------------------------------------
\* Types of lists and folders

LEMMA RefetchedIs ==
  /\ \A q \in FolderQueries : Refetched(q) \in FolderQueries /\ Refetched(q).data = q.data
  /\ \A q \in ListQueries : Refetched(q) \in ListQueries /\ Refetched(q).data = q.data
  <1>1. ASSUME NEW q \in FolderQueries PROVE Refetched(q) \in FolderQueries /\ Refetched(q).data = q.data
    BY DEF FolderQueries, Refetched
  <1>2. ASSUME NEW q \in ListQueries PROVE Refetched(q) \in ListQueries /\ Refetched(q).data = q.data
    BY DEF ListQueries, Refetched
  <1>. QED BY <1>1, <1>2

LEMMA ListsAre ==
  ASSUME FavInv
  PROVE  /\ \A f : ListOnly(f) \in [Folders -> ListQueries]
         /\ \A these : RenewedLists(these) \in [Folders -> ListQueries]
  <1>1. \A g \in Folders : list[g] \in ListQueries
    BY DEF FavInv, ListsFit
  <1>2. ASSUME NEW f PROVE ListOnly(f) \in [Folders -> ListQueries]
    <2>1. \A g \in Folders : [list[g] EXCEPT !.call = (g = f)] \in ListQueries
      BY <1>1 DEF ListQueries
    <2>. QED BY <2>1 DEF ListOnly
  <1>3. ASSUME NEW these PROVE RenewedLists(these) \in [Folders -> ListQueries]
    BY <1>1, RefetchedIs DEF RenewedLists
  <1>. QED BY <1>2, <1>3

LEMMA ShowFits ==
  ASSUME FavInv, NEW q, NEW wanted \in Folder0, NEW lists \in [Folders -> ListQueries], Show(q, wanted, lists)
  PROVE  /\ ListsFit' /\ url' \in Folder0
         /\ reader' \in {reader, None} /\ reader' \in Articles \union {None} /\ open' \in BOOLEAN
  BY ListsAre DEF Show, FavInv, ListsFit, ReaderFits

\* The page after a step that only shows something else
LEMMA ButtonFits ==
  ASSUME FavInv, NEW s, button' = IF button = s \/ reader' = None THEN 0 ELSE button,
         reader' \in Articles \union {None}, open' \in BOOLEAN
  PROVE  ReaderFits'
  BY DEF FavInv, ReaderFits

LEMMA SettleStep ==
  ASSUME FavInv, NEW s \in Slots, Settle(s)
  PROVE  FavInv'
  <1>. DEFINE w == write[s]
              wanted == IF w.kind = "delete" /\ url = w.folder THEN 0 ELSE url
              these == CASE w.kind \in Bulk -> Folders
                         [] w.kind \in {"add", "remove"} /\ ~w.toggle -> {w.folder}
                         [] OTHER -> {}
  <1>1. /\ write' = [write EXCEPT ![s] = None] /\ InvalidateFolders /\ Show(folders, wanted, RenewedLists(these))
        /\ button' = IF button = s \/ reader' = None THEN 0 ELSE button
        /\ dialog' \in {dialog, None}
        /\ (ticked' = ticked /\ marks' = marks) \/ (ticked' = {} /\ marks' = {})
        /\ UNCHANGED <<favServer, route, visible, member, batch, favGhost, guessed>>
    BY DEF Settle
  <1>2. url \in Folder0 /\ PageFits
    BY DEF FavInv, PageFits
  <1>3. wanted \in Folder0
    BY <1>2 DEF Folder0
  <1>. HIDE DEF wanted, these
  <1>4. ListsFit' /\ url' \in Folder0 /\ reader' \in Articles \union {None} /\ open' \in BOOLEAN
    BY <1>1, <1>3, ListsAre, ShowFits
  <1>5. ReaderFits'
    BY <1>1, <1>4, ButtonFits
  <1>6. PageFits'
    BY <1>1, <1>2, <1>4 DEF PageFits
  <1>7. WritesFit'
    BY <1>1 DEF FavInv, WritesFit, WriteFits
  <1>8. DialogFits'
    BY <1>1 DEF FavInv, DialogFits
  <1>9. FoldersFit'
    BY <1>1, RefetchedIs DEF FavInv, FoldersFit, InvalidateFolders
  <1>. QED BY <1>1, <1>4, <1>5, <1>6, <1>7, <1>8, <1>9, StillFits DEF FavInv

----------------------------------------------------------------------------
\* Types of the reads

\* A membership that is read, and its answer
LEMMA CheckedIs ==
  ASSUME MembersFit, NEW a \in Articles
  PROVE  Checked(a) \in [Articles -> Member]
  <1>1. member \in [Articles -> Member] /\ member[a] \in Member
    BY DEF MembersFit
  <1>. DEFINE c == [by |-> 0, got |-> None]
              m == [member[a] EXCEPT !.call = c]
  <1>2. c \in Call
    BY DEF Call
  <1>. HIDE DEF c
  <1>3. m \in Member
    BY <1>1, <1>2 DEF Member
  <1>4. [member EXCEPT ![a].call = c] = [member EXCEPT ![a] = m]
    BY <1>1
  <1>. HIDE DEF m
  <1>5. [member EXCEPT ![a].call = c] \in [Articles -> Member]
    BY <1>1, <1>3, <1>4
  <1>. QED BY <1>1, <1>5 DEF Checked, c

LEMMA FoldersOfIs == ServerFits => \A a \in Articles : FoldersOf(a) \in SUBSET Folders
  BY DEF ServerFits, FoldersOf

\* An answer that arrives at a membership, or fails on its way
LEMMA GotFits ==
  ASSUME MembersFit, NEW a \in Articles, member[a].call # None, NEW got \in (SUBSET Folders) \union {None, Failed}
  PROVE  /\ [member EXCEPT ![a].call.got = got] \in [Articles -> Member]
         /\ \A b \in Articles \ {a} : [member EXCEPT ![a].call.got = got][b] = member[b]
         /\ LET m == [member EXCEPT ![a].call.got = got][a]
            IN  m.data = member[a].data /\ m.fresh = member[a].fresh /\ m.err = member[a].err
                /\ m.call = [by |-> member[a].call.by, got |-> got]
  <1>1. member \in [Articles -> Member] /\ member[a] \in Member
    BY DEF MembersFit
  <1>. DEFINE c == [member[a].call EXCEPT !.got = got]
              m == [member[a] EXCEPT !.call = c]
  <1>2. member[a].call \in Call
    BY <1>1 DEF Member
  <1>3. c \in Call /\ c = [by |-> member[a].call.by, got |-> got]
    BY <1>2 DEF Call
  <1>4. [member EXCEPT ![a].call.got = got] = [member EXCEPT ![a] = m]
    BY <1>1
  <1>. HIDE DEF c
  <1>5. m \in Member /\ m.data = member[a].data /\ m.fresh = member[a].fresh /\ m.err = member[a].err /\ m.call = c
    BY <1>1, <1>3 DEF Member
  <1>. HIDE DEF m
  <1>. QED BY <1>1, <1>3, <1>4, <1>5

\* The reader and its picker
LEMMA ReaderSteps ==
  ASSUME FavInv, \/ \E a \in Articles : OpenReader(a)
                 \/ OpenPicker \/ ClosePicker \/ RetryPicker
  PROVE  FavInv'
  <1>0. ReaderFits /\ MembersFit /\ FoldersFit
    BY DEF FavInv
  <1>1. ASSUME NEW a \in Articles, OpenReader(a) PROVE FavInv'
    <2>1. ReaderFits'
      BY <1>1 DEF OpenReader, ReaderFits
    <2>2. UNCHANGED <<favServer, favPage, ticked, dialog, favCache, write, favGhost, guessed, marks>>
      BY <1>1 DEF OpenReader
    <2>. QED BY <2>1, <2>2, StillFits DEF FavInv, favPage, favCache
  <1>2. CASE OpenPicker
    <2>1. reader \in Articles
      BY <1>0, <1>2 DEF OpenPicker, ButtonReady, ReaderFits
    <2>2. MembersFit'
      BY <1>0, <1>2, <2>1, CheckedIs DEF OpenPicker, MembersFit
    <2>3. FoldersFit'
      BY <1>0, <1>2 DEF OpenPicker, FoldersFit, FolderQueries
    <2>4. ReaderFits'
      BY <1>0, <1>2 DEF OpenPicker, ReaderFits
    <2>5. UNCHANGED <<favServer, favPage, ticked, dialog, batch, list, write, favGhost, guessed, marks>>
      BY <1>2 DEF OpenPicker
    <2>. QED BY <2>2, <2>3, <2>4, <2>5, StillFits DEF FavInv, favPage
  <1>3. CASE ClosePicker
    <2>1. ReaderFits'
      BY <1>0, <1>3 DEF ClosePicker, ReaderFits
    <2>2. UNCHANGED <<favServer, favPage, ticked, dialog, favCache, write, favGhost, guessed, marks>>
      BY <1>3 DEF ClosePicker
    <2>. QED BY <2>1, <2>2, StillFits DEF FavInv, favPage, favCache
  <1>4. CASE RetryPicker
    <2>1. MembersFit'
      <3>1. CASE reader \in Articles
        BY <1>0, <1>4, <3>1, CheckedIs DEF RetryPicker, MembersFit
      <3>2. CASE reader \notin Articles
        <4>1. member' = Checked(reader)
          BY <1>4 DEF RetryPicker
        <4>2. Checked(reader) = member
          BY <1>0, <3>2 DEF Checked, MembersFit
        <4>. QED BY <1>0, <4>1, <4>2 DEF MembersFit
      <3>. QED BY <3>1, <3>2
    <2>2. FoldersFit'
      BY <1>0, <1>4, RefetchedIs DEF RetryPicker, FoldersFit
    <2>3. UNCHANGED <<favServer, favPage, favButton, ticked, dialog, batch, list, write, favGhost, guessed, marks>>
      BY <1>4 DEF RetryPicker
    <2>. QED BY <2>1, <2>2, <2>3, StillFits DEF FavInv, favPage
  <1>. QED BY <1>1, <1>2, <1>3, <1>4

\* Reads of memberships
LEMMA CheckSteps ==
  ASSUME FavInv, NEW a \in Articles, ServeCheck(a) \/ AnswerCheck(a)
  PROVE  FavInv'
  <1>0. ServerFits /\ MembersFit /\ GhostFits /\ member[a] \in Member
    BY DEF FavInv, MembersFit
  <1>1. UNCHANGED <<favServer, favPage, favButton, ticked, dialog, batch, folders, list, write, favGhost, marks>>
    BY DEF ServeCheck, AnswerCheck
  <1>2. ASSUME MembersFit', guessed' \in SUBSET Articles PROVE FavInv'
    <2>1. GhostFits'
      BY <1>0, <1>1, <1>2 DEF GhostFits, favGhost
    <2>. QED BY <1>1, <1>2, <2>1, StillFits DEF FavInv, favPage
  <1>3. CASE ServeCheck(a)
    <2>1. MembersFit'
      BY <1>0, <1>3, FoldersOfIs, GotFits DEF ServeCheck, MembersFit
    <2>. QED BY <1>0, <1>2, <1>3, <2>1 DEF ServeCheck, GhostFits
  <1>4. CASE AnswerCheck(a)
    <2>. DEFINE got == member[a].call.got
                m == IF got = Failed THEN [member[a] EXCEPT !.call = None, !.fresh = FALSE, !.err = TRUE]
                     ELSE [data |-> got, fresh |-> TRUE, err |-> FALSE, call |-> None]
    <2>1. member[a].call \in Call /\ got # None
      BY <1>0, <1>4 DEF AnswerCheck, Member
    <2>2. got \in (SUBSET Folders) \union {Failed}
      BY <2>1 DEF Call
    <2>3. m \in Member
      <3>. HIDE DEF got
      <3>. QED BY <1>0, <2>2 DEF Member
    <2>4. member' = [member EXCEPT ![a] = m]
      BY <1>0, <1>4 DEF AnswerCheck, MembersFit
    <2>. HIDE DEF m
    <2>5. MembersFit'
      BY <1>0, <2>3, <2>4 DEF MembersFit
    <2>6. guessed' \in SUBSET Articles
      BY <1>0, <1>4 DEF AnswerCheck, GhostFits
    <2>. QED BY <1>2, <2>5, <2>6
  <1>. QED BY <1>3, <1>4

LEMMA BatchSteps ==
  ASSUME FavInv, ServeBatch \/ AnswerBatch \/ RetryBatch
  PROVE  FavInv'
  <1>0. ServerFits /\ MembersFit /\ GhostFits /\ BatchFits
    BY DEF FavInv
  <1>1. UNCHANGED <<favServer, favPage, favButton, ticked, dialog, folders, list, write, favGhost, marks>>
    BY DEF ServeBatch, AnswerBatch, RetryBatch
  <1>2. ASSUME MembersFit', IsBatch(batch', visible), guessed' \in SUBSET Articles PROVE FavInv'
    <2>1. GhostFits'
      BY <1>0, <1>1, <1>2 DEF GhostFits, favGhost
    <2>2. visible' = visible
      BY <1>1 DEF favPage
    <2>3. BatchFits'
      BY <1>2, <2>2 DEF BatchFits, IsBatch
    <2>. QED BY <1>1, <1>2, <2>1, <2>3, StillFits DEF FavInv, favPage
  <1>3. CASE ServeBatch
    <2>1. visible \subseteq Articles
      BY DEF FavInv, PageFits
    <2>2. batch' = [batch EXCEPT !.got = [a \in batch.want |-> FoldersOf(a)]] /\ UNCHANGED <<member, guessed>>
      BY <1>3 DEF ServeBatch
    <2>. DEFINE got == [a \in batch.want |-> FoldersOf(a)]
    <2>3. got \in [batch.want -> SUBSET Folders]
      BY <1>0, <2>1, FoldersOfIs DEF BatchFits
    <2>4. batch' = [batch EXCEPT !.got = got]
      BY <2>2
    <2>. HIDE DEF got
    <2>5. IsBatch(batch', visible)
      BY <1>0, <2>3, <2>4 DEF BatchFits, IsBatch
    <2>. QED BY <1>0, <1>2, <2>2, <2>5 DEF MembersFit, GhostFits
  <1>4. CASE AnswerBatch
    <2>1. CASE batch.got = Failed
      <3>1. batch' = [NoBatch EXCEPT !.status = "error"] /\ UNCHANGED <<member, guessed>>
        BY <1>4, <2>1 DEF AnswerBatch
      <3>. QED BY <1>0, <1>2, <3>1, NoBatchIs DEF MembersFit, GhostFits
    <2>2. CASE batch.got # Failed
      <3>1. /\ batch' = [NoBatch EXCEPT !.status = "success"]
            /\ member' = [a \in Articles |-> IF a \notin batch.want THEN member[a] ELSE
                           [data |-> batch.got[a], fresh |-> TRUE, err |-> FALSE, call |-> member[a].call]]
            /\ guessed' = guessed \ batch.want
        BY <1>4, <2>2 DEF AnswerBatch
      <3>2. batch.got \in [batch.want -> SUBSET Folders]
        BY <1>0, <1>4, <2>2 DEF AnswerBatch, BatchFits
      <3>3. ASSUME NEW a \in Articles, a \in batch.want
            PROVE  [data |-> batch.got[a], fresh |-> TRUE, err |-> FALSE, call |-> member[a].call] \in Member
        <4>1. batch.got[a] \in SUBSET Folders /\ member[a] \in Member
          BY <1>0, <3>2, <3>3 DEF MembersFit
        <4>. QED BY <4>1 DEF Member
      <3>4. MembersFit'
        BY <1>0, <3>1, <3>3 DEF MembersFit
      <3>. QED BY <1>0, <1>2, <3>1, <3>4, NoBatchIs DEF GhostFits
    <2>. QED BY <2>1, <2>2
  <1>5. CASE RetryBatch
    <2>1. batch' = Fetching(member, 0) /\ UNCHANGED <<member, guessed>>
      BY <1>5 DEF RetryBatch
    <2>. QED BY <1>0, <1>2, <2>1, FetchingIs DEF MembersFit, GhostFits
  <1>. QED BY <1>3, <1>4, <1>5

LEMMA LoseReadStep == FavInv /\ LoseRead => FavInv'
  <1>. SUFFICES ASSUME FavInv, LoseRead PROVE FavInv'
    OBVIOUS
  <1>0. MembersFit /\ GhostFits /\ BatchFits
    BY DEF FavInv
  <1>1. UNCHANGED <<favServer, favPage, favButton, ticked, dialog, folders, list, write, foreign, lost, guessed, marks>>
    BY DEF LoseRead
  <1>2. spent' \in 0..MaxSteps
    BY <1>0, FavoriteBound DEF LoseRead, Spend, GhostFits
  <1>3. GhostFits'
    BY <1>0, <1>1, <1>2 DEF GhostFits
  <1>4. ASSUME MembersFit', BatchFits' PROVE FavInv'
    BY <1>1, <1>3, <1>4, StillFits DEF FavInv, favPage
  <1>5. CASE batch' = [batch EXCEPT !.got = Failed] /\ UNCHANGED member
    <2>1. BatchFits'
      BY <1>0, <1>1, <1>5 DEF BatchFits, favPage
    <2>. QED BY <1>4, <1>5, <2>1, StillFits
  <1>6. ASSUME NEW a \in Articles, member[a].call # None, member' = [member EXCEPT ![a].call.got = Failed], UNCHANGED batch
        PROVE  FavInv'
    <2>1. MembersFit'
      BY <1>0, <1>6, GotFits DEF MembersFit
    <2>2. BatchFits'
      BY <1>1, <1>6, StillFits DEF favPage
    <2>. QED BY <1>4, <2>1, <2>2
  <1>. QED BY <1>5, <1>6 DEF LoseRead

\* Lists of folders and articles
LEMMA ListSteps ==
  ASSUME FavInv, AnswerFolders \/ Focus \/ \E f \in Folders : AnswerList(f)
  PROVE  FavInv'
  <1>0. /\ ServerFits /\ ReaderFits /\ FoldersFit /\ ListsFit /\ PageFits
        /\ url \in Folder0
    BY DEF FavInv, PageFits
  <1>1. UNCHANGED <<favServer, route, visible, ticked, dialog, member, batch, write, favGhost, guessed, marks>>
    BY DEF AnswerFolders, Focus, AnswerList, favPage
  <1>2. ASSUME url' = url, ReaderFits', FoldersFit', ListsFit' PROVE FavInv'
    <2>1. PageFits'
      BY <1>0, <1>1, <1>2 DEF PageFits
    <2>. QED BY <1>1, <1>2, <2>1, StillFits DEF FavInv
  <1>3. CASE AnswerFolders
    <2>. DEFINE ids == [ids |-> alive, track |-> track]
                now == [data |-> ids, call |-> FALSE]
    <2>1. folders' = now /\ Show(now, url, list) /\ button' = IF reader' = None THEN 0 ELSE button
      BY <1>3 DEF AnswerFolders
    <2>2. ids \in [ids : SUBSET Folders, track : Folder0]
      BY <1>0 DEF ServerFits, Folder0
    <2>3. now \in FolderQueries
      <3>. HIDE DEF ids
      <3>. QED BY <2>2 DEF FolderQueries
    <2>4. list \in [Folders -> ListQueries]
      BY <1>0 DEF ListsFit
    <2>. HIDE DEF now
    <2>5. ListsFit' /\ reader' \in Articles \union {None} /\ open' \in BOOLEAN /\ url' = url
      <3>1. url' = url
        BY <2>1 DEF Show
      <3>. QED BY <1>0, <2>1, <2>4, <3>1, ShowFits
    <2>6. ReaderFits'
      BY <1>0, <2>1, <2>5 DEF ReaderFits
    <2>. QED BY <1>2, <2>1, <2>3, <2>5, <2>6 DEF FoldersFit
  <1>4. CASE Focus
    <2>1. /\ folders' = Refetched(folders) /\ list' = RenewedLists(Folders)
          /\ UNCHANGED favPage /\ UNCHANGED favButton
      BY <1>4 DEF Focus
    <2>2. FoldersFit' /\ ListsFit'
      BY <1>0, <2>1, RefetchedIs, ListsAre DEF FoldersFit, ListsFit
    <2>. QED BY <1>2, <2>1, <2>2, StillFits DEF favPage
  <1>5. ASSUME NEW f \in Folders, AnswerList(f) PROVE FavInv'
    <2>. DEFINE now == IF f \in alive THEN holds[f] ELSE list[f].data
                q == [data |-> now, call |-> FALSE]
    <2>1. /\ list' = [list EXCEPT ![f] = q] /\ UNCHANGED <<favPage, folders>>
          /\ UNCHANGED favButton \/ (reader' = None /\ open' = FALSE /\ button' = 0)
      BY <1>5 DEF AnswerList
    <2>2. now \in (SUBSET Articles) \union {None}
      BY <1>0 DEF ServerFits, ListsFit, ListQueries
    <2>3. q \in ListQueries
      <3>. HIDE DEF now
      <3>. QED BY <2>2 DEF ListQueries
    <2>. HIDE DEF q
    <2>4. ListsFit' /\ FoldersFit'
      BY <1>0, <2>1, <2>3 DEF ListsFit, FoldersFit
    <2>5. ReaderFits'
      BY <1>0, <2>1 DEF ReaderFits, favButton
    <2>. QED BY <1>2, <2>1, <2>4, <2>5 DEF favPage
  <1>. QED BY <1>3, <1>4, <1>5

\* Other pages
LEMMA PageSteps ==
  ASSUME FavInv, \/ VisitFavorites
                 \/ \E f \in Folders : SelectFolder(f)
                 \/ \E these \in (SUBSET Articles) \ {{}} : Search(these)
  PROVE  FavInv'
  <1>0. PageFits /\ ReaderFits /\ FoldersFit /\ ListsFit /\ BatchFits
    BY DEF FavInv
  <1>1. UNCHANGED <<favServer, member, write, favGhost, guessed>>
    BY DEF SelectFolder, Search, VisitFavorites
  <1>2. ASSUME NEW f \in Folders, SelectFolder(f) PROVE FavInv'
    <2>1. /\ Show(folders, f, list) /\ button' = IF reader' = None THEN 0 ELSE button
          /\ ticked' = {} /\ marks' = {} /\ UNCHANGED <<route, visible, dialog, batch, folders>>
      BY <1>2 DEF SelectFolder
    <2>2. f \in Folder0 /\ list \in [Folders -> ListQueries]
      BY <1>0 DEF Folder0, ListsFit
    <2>3. ListsFit' /\ url' \in Folder0 /\ reader' \in Articles \union {None} /\ open' \in BOOLEAN
      BY <2>1, <2>2, ShowFits
    <2>4. ReaderFits' /\ PageFits'
      BY <1>0, <2>1, <2>3 DEF ReaderFits, PageFits
    <2>. QED BY <1>1, <2>1, <2>3, <2>4, StillFits DEF FavInv
  <1>3. ASSUME Leaves, route' \in {"search", "favorites"}, visible' \in SUBSET Articles, IsBatch(batch', visible'),
               \E f : list' = ListOnly(f), FoldersFit'
        PROVE  FavInv'
    <2>1. PageFits' /\ ReaderFits' /\ DialogFits'
      BY <1>3 DEF Leaves, PageFits, ReaderFits, DialogFits, Folder0
    <2>2. BatchFits'
      BY <1>3 DEF BatchFits, IsBatch
    <2>3. ListsFit'
      BY <1>3, ListsAre DEF ListsFit
    <2>. QED BY <1>1, <1>3, <2>1, <2>2, <2>3, StillFits DEF FavInv
  <1>4. ASSUME NEW these \in SUBSET Articles, Search(these) PROVE FavInv'
    <2>. DEFINE missing == {a \in these : ~member[a].fresh}
    <2>1. /\ Leaves /\ route' = "search" /\ visible' = these /\ UNCHANGED folders /\ list' = ListOnly(0)
          /\ batch' = IF missing = {} THEN [NoBatch EXCEPT !.status = "success"]
                      ELSE [status |-> "pending", want |-> missing, by |-> 0, got |-> None]
      BY <1>4 DEF Search
    <2>2. missing \in SUBSET these
      OBVIOUS
    <2>. HIDE DEF missing
    <2>3. IsBatch(batch', these)
      <3>1. CASE missing = {}
        BY <2>1, <3>1, NoBatchIs
      <3>2. CASE missing # {}
        BY <2>1, <2>2, <3>2 DEF IsBatch
      <3>. QED BY <3>1, <3>2
    <2>4. FoldersFit'
      BY <1>0, <2>1, StillFits
    <2>. QED BY <1>3, <2>1, <2>3, <2>4
  <1>5. CASE VisitFavorites
    <2>1. /\ Leaves /\ route' = "favorites" /\ visible' = {} /\ batch' = NoBatch
          /\ folders' = [folders EXCEPT !.call = TRUE] /\ list' = ListOnly(FolderOn("favorites", folders, 0))
      BY <1>5 DEF VisitFavorites
    <2>2. FoldersFit'
      BY <1>0, <2>1 DEF FoldersFit, FolderQueries
    <2>. QED BY <1>3, <2>1, <2>2, NoBatchIs
  <1>. QED BY <1>2, <1>4, <1>5

LEMMA FavKeeps == FavInv /\ [FavNext]_favVars => FavInv'
  <1>. SUFFICES ASSUME FavInv, [FavNext]_favVars PROVE FavInv'
    OBVIOUS
  <1>1. CASE UNCHANGED favVars
    BY <1>1, StillFits DEF FavInv, favVars, favPage, favCache
  <1>2. ASSUME NEW f \in Folders, \/ PickAdd(f) \/ AskRemove(f) \/ MoveSelected(f) \/ ForeignDelete(f) \/ ForeignTrack(f)
                                  \/ AnswerList(f) \/ SelectFolder(f)
        PROVE  FavInv'
    BY <1>2, SendSteps, AskSteps, ServerSteps, ListSteps, PageSteps
  <1>3. ASSUME NEW a \in Articles, Tick(a) \/ OpenReader(a) \/ ServeCheck(a) \/ AnswerCheck(a) PROVE FavInv'
    BY <1>3, AskSteps, ReaderSteps, CheckSteps
  <1>4. ASSUME NEW s \in Slots, ServeWrite(s) \/ LoseWrite(s) \/ AnswerWrite(s) \/ AnswerFailure(s) \/ Settle(s)
        PROVE  FavInv'
    BY <1>4, ServerSteps, AnswerWriteStep, AnswerFailureStep, SettleStep
  <1>5. CASE Toggle \/ CreateFolder \/ TrackFolder
    BY <1>5, SendSteps
  <1>6. CASE TickAll \/ AskBulkRemove \/ Dismiss \/ \E kind \in {"delete", "rename"} : AskFolder(kind)
    BY <1>6, AskSteps
  <1>7. CASE OpenPicker \/ ClosePicker \/ RetryPicker
    BY <1>7, ReaderSteps
  <1>8. CASE ServeBatch \/ AnswerBatch \/ RetryBatch \/ LoseRead
    BY <1>8, BatchSteps, LoseReadStep
  <1>9. CASE AnswerFolders \/ Focus
    BY <1>9, ListSteps
  <1>10. CASE Confirm
    BY <1>10, ConfirmStep
  <1>11. CASE VisitFavorites \/ \E these \in (SUBSET Articles) \ {{}} : Search(these)
    BY <1>11, PageSteps
  <1>. QED BY <1>1, <1>2, <1>3, <1>4, <1>5, <1>6, <1>7, <1>8, <1>9, <1>10, <1>11 DEF FavNext

LEMMA FavAlways == FavSpec => []FavInv
  BY FavStart, FavKeeps, PTL DEF FavSpec

\* Whatever is clicked, served, answered or lost, in whatever order, the
\* favourites keep their types; in particular a folder that is shown, ticked
\* or asked about is one of the server's numbers.
THEOREM FavoritesTyped == FavSpec => []FavTypeOK
  BY FavAlways, FavTypes, PTL

\* A removal asks about, and a move takes, articles ticked in the folder
\* that is shown (use-favorites-page.tsx:316): the keys ticked are at every
\* moment the pairs of folder and article the user marked, so that what is
\* selected in the folder shown was marked in it.
THEOREM BulkTakesTicks == FavSpec => BulkActsOnTicks
  <1>. DEFINE Acts ==
         /\ dialog' \notin {dialog, None} => Chosen(dialog'.folder, dialog'.articles) \/ dialog'.kind # "bulkRemove"
         /\ \A s \in Slots :
              write[s] = None /\ write'[s] # None /\ write'[s].kind = "bulkMove"
                  => Chosen(write'[s].from, write'[s].articles)
  <1>1. FavInv /\ [FavNext]_favVars => Acts \/ UNCHANGED favVars
    <2>. SUFFICES ASSUME FavInv, [FavNext]_favVars PROVE Acts \/ UNCHANGED favVars
      OBVIOUS
    <2>1. marks = ticked /\ write \in [Slots -> Write \union {None}]
      BY DEF FavInv, PageFits, WritesFit
    <2>2. Chosen(Active, Selected)
      BY <2>1 DEF Chosen, Selected, SelectionKey
    <2>3. dialog # None => dialog.kind # "bulkMove"
      BY DEF FavInv, DialogFits, Questions
    <2>4. CASE AskBulkRemove
      <3>1. dialog' = [kind |-> "bulkRemove", folder |-> Active, articles |-> Selected] /\ UNCHANGED write
        BY <2>4 DEF AskBulkRemove
      <3>. QED BY <2>2, <3>1
    <2>5. CASE UNCHANGED write /\ (dialog' \in {dialog, None} \/ dialog'.kind # "bulkRemove")
      BY <2>5
    <2>6. ASSUME NEW s \in Slots, dialog' \in {dialog, None}, NEW w, write' = [write EXCEPT ![s] = w],
                 w # None /\ w.kind = "bulkMove" => w.from = Active /\ w.articles = Selected
          PROVE  Acts
      BY <2>1, <2>2, <2>6
    <2>7. ASSUME NEW s \in Slots, dialog' \in {dialog, None}, write[s] # None, NEW state, Reply(s, state)
          PROVE  Acts
      BY <2>1, <2>7 DEF Reply
    <2>8. ASSUME NEW f \in Folders, AskRemove(f) PROVE Acts
      <3>1. dialog' = [kind |-> "remove", folder |-> f, articles |-> {reader}] /\ UNCHANGED write
        BY <2>8 DEF AskRemove
      <3>2. dialog'.kind # "bulkRemove"
        BY <3>1
      <3>. QED BY <2>5, <3>1, <3>2
    <2>9. ASSUME NEW f \in Folders, ForeignDelete(f) \/ ForeignTrack(f) \/ AnswerList(f) \/ SelectFolder(f) PROVE Acts
      <3>1. UNCHANGED <<dialog, write>>
        BY <2>9 DEF ForeignDelete, ForeignTrack, AnswerList, SelectFolder
      <3>. QED BY <2>5, <3>1
    <2>10. ASSUME NEW a \in Articles, Tick(a) \/ OpenReader(a) \/ ServeCheck(a) \/ AnswerCheck(a) PROVE Acts
      <3>1. UNCHANGED <<dialog, write>>
        BY <2>10 DEF Tick, OpenReader, ServeCheck, AnswerCheck
      <3>. QED BY <2>5, <3>1
    <2>11. CASE \/ TickAll \/ Dismiss \/ \E kind \in {"delete", "rename"} : AskFolder(kind)
               \/ OpenPicker \/ ClosePicker \/ RetryPicker
      BY <2>5, <2>11 DEF TickAll, Dismiss, AskFolder, OpenPicker, ClosePicker, RetryPicker
    <2>12. CASE \/ ServeBatch \/ AnswerBatch \/ RetryBatch \/ LoseRead \/ AnswerFolders \/ Focus
                \/ VisitFavorites \/ \E these \in (SUBSET Articles) \ {{}} : Search(these)
      BY <2>5, <2>12 DEF ServeBatch, AnswerBatch, RetryBatch, LoseRead, AnswerFolders, Focus, VisitFavorites, Search, Leaves
    <2>13. ASSUME NEW s \in Slots, ServeWrite(s) \/ LoseWrite(s) \/ AnswerWrite(s) PROVE Acts
      BY <2>7, <2>13 DEF ServeWrite, LoseWrite, AnswerWrite
    <2>14. ASSUME NEW s \in Slots, AnswerFailure(s) \/ Settle(s) PROVE Acts
      BY <2>6, <2>14 DEF AnswerFailure, Settle
    <2>15. ASSUME NEW f \in Folders, PickAdd(f) PROVE Acts
      <3>. DEFINE w == [Plain EXCEPT !.kind = "add", !.folder = f, !.articles = {reader}]
      <3>1. PICK s \in FreeSlots : write' = [write EXCEPT ![s] = w]
        BY <2>15 DEF PickAdd, Mutate
      <3>2. w.kind = "add"
        BY PlainIs
      <3>3. UNCHANGED dialog /\ s \in Slots
        BY <2>15 DEF PickAdd, FreeSlots
      <3>. HIDE DEF w
      <3>. QED BY <2>6, <3>1, <3>2, <3>3
    <2>16. CASE Toggle
      <3>. DEFINE k == IF Active \in ShownFolders THEN "remove" ELSE "add"
                  w == [Plain EXCEPT !.kind = k, !.folder = Active, !.articles = {reader}, !.toggle = TRUE]
      <3>1. PICK s \in FreeSlots : write' = [write EXCEPT ![s] = w]
        BY <2>16 DEF Toggle, Mutate
      <3>2. w.kind # "bulkMove"
        BY PlainIs
      <3>3. UNCHANGED dialog /\ s \in Slots
        BY <2>16 DEF Toggle, FreeSlots
      <3>. HIDE DEF w
      <3>. QED BY <2>6, <3>1, <3>2, <3>3
    <2>17. CASE CreateFolder
      <3>1. PICK s \in FreeSlots : write' = [write EXCEPT ![s] = Plain]
        BY <2>17 DEF CreateFolder, Mutate
      <3>2. UNCHANGED dialog /\ s \in Slots /\ Plain.kind # "bulkMove"
        BY <2>17, PlainIs DEF CreateFolder, FreeSlots
      <3>. QED BY <2>6, <3>1, <3>2
    <2>18. CASE TrackFolder
      <3>. DEFINE w == [Plain EXCEPT !.kind = "track", !.folder = Active]
      <3>1. PICK s \in FreeSlots : write' = [write EXCEPT ![s] = w]
        BY <2>18 DEF TrackFolder, Mutate
      <3>2. w.kind # "bulkMove"
        BY PlainIs
      <3>3. UNCHANGED dialog /\ s \in Slots
        BY <2>18 DEF TrackFolder, FreeSlots
      <3>. HIDE DEF w
      <3>. QED BY <2>6, <3>1, <3>2, <3>3
    <2>19. ASSUME NEW f \in Folders, MoveSelected(f) PROVE Acts
      <3>. DEFINE w == [Plain EXCEPT !.kind = "bulkMove", !.folder = Active, !.target = f, !.articles = Selected, !.from = Active]
      <3>1. PICK s \in FreeSlots : write' = [write EXCEPT ![s] = w]
        BY <2>19 DEF MoveSelected, Mutate
      <3>2. w.from = Active /\ w.articles = Selected
        BY PlainIs
      <3>3. UNCHANGED dialog /\ s \in Slots
        BY <2>19 DEF MoveSelected, FreeSlots
      <3>. HIDE DEF w
      <3>. QED BY <2>6, <3>1, <3>2, <3>3
    <2>20. CASE Confirm
      <3>. DEFINE folder == IF dialog.kind = "bulkRemove" THEN Active ELSE dialog.folder
                  w == [Plain EXCEPT !.kind = dialog.kind, !.articles = dialog.articles, !.from = dialog.folder,
                                     !.folder = folder]
      <3>1. PICK s \in FreeSlots : write' = [write EXCEPT ![s] = w]
        BY <2>20 DEF Confirm, Mutate
      <3>2. w.kind # "bulkMove"
        <4>. HIDE DEF folder
        <4>. QED BY <2>3, <2>20, PlainIs DEF Confirm, Modal
      <3>3. UNCHANGED dialog /\ s \in Slots
        BY <2>20 DEF Confirm, FreeSlots
      <3>. HIDE DEF w
      <3>. QED BY <2>6, <3>1, <3>2, <3>3
    <2>. HIDE DEF Acts
    <2>. QED BY <2>4, <2>8, <2>9, <2>10, <2>11, <2>12, <2>13, <2>14, <2>15, <2>16, <2>17, <2>18, <2>19, <2>20 DEF FavNext
  <1>. QED BY <1>1, FavAlways, PTL DEF FavSpec, BulkActsOnTicks

----------------------------------------------------------------------------
\* Memberships, while one mutation is under way at a time

OneWrite == \A s, t \in Slots : s = t

\* A mutation the server has made and the page has not heard of
Unanswered(s) == write[s] # None /\ write[s].state = "ok"
PatchIn(w, a, F) ==
    IF a \notin w.articles THEN F
    ELSE IF w.kind = "add" THEN F \union {w.folder}
    ELSE IF w.kind = "remove" THEN F \ {w.folder} ELSE F

\* F are the folders of an article, or will be once the page has patched them.
TrueOf(a, F) ==
    /\ F \in SUBSET Folders
    /\ \A s \in Slots : Unanswered(s) => write[s].kind \in Sweeping \/ PatchIn(write[s], a, F) = FoldersOf(a)
    /\ (\A s \in Slots : ~Unanswered(s)) => F = FoldersOf(a)

MembersAreTrue == \A a \in Articles \ guessed : member[a].fresh => TrueOf(a, member[a].data)
CallsAreTrue ==
    \A a \in Articles : member[a].call # None =>
        member[a].call.got \in {None, Failed} \/ TrueOf(a, member[a].call.got)
BatchIsTrue == batch.got \notin {None, Failed} => \A a \in batch.want : TrueOf(a, batch.got[a])
ReadsAreTrue == MembersAreTrue /\ CallsAreTrue /\ BatchIsTrue

\* What a batch does not ask for is known or known to be unknown.
BatchIsWhole ==
    batch.status = "success" \/ IsFetching => \A a \in visible \ batch.want : member[a].fresh \/ member[a].err

\* What a read served now brings
ServerIsTrue == \A a \in Articles : \A F : F = FoldersOf(a) => TrueOf(a, F)

Undisturbed == ~lost /\ ~foreign
Truth ==
    /\ Undisturbed => ReadsAreTrue /\ ServerIsTrue
    /\ BatchIsWhole

LEMMA TruthShows == FavInv /\ Truth => MembershipIsTrue
  <1>. SUFFICES ASSUME FavInv, Truth, Quiet, ~lost, ~foreign
       PROVE  /\ \A a \in Articles \ guessed : member[a].fresh => member[a].data = FoldersOf(a)
              /\ batch.status = "success" => \A a \in visible : member[a].fresh \/ member[a].err
    BY DEF MembershipIsTrue
  <1>1. \A s \in Slots : ~Unanswered(s)
    BY DEF Quiet, Unanswered
  <1>2. \A a \in Articles \ guessed : member[a].fresh => TrueOf(a, member[a].data)
    BY DEF Truth, Undisturbed, ReadsAreTrue, MembersAreTrue
  <1>3. batch.want = {}
    BY DEF Quiet, IsFetching
  <1>. QED BY <1>1, <1>2, <1>3 DEF TrueOf, Truth, BatchIsWhole

LEMMA TruthStart == FavInit => Truth
  <1>. SUFFICES ASSUME FavInit PROVE Truth
    OBVIOUS
  <1>1. ServerFits
    BY FavStart DEF FavInv
  <1>2. ASSUME NEW a \in Articles PROVE TrueOf(a, FoldersOf(a))
    <2>1. \A s \in Slots : ~Unanswered(s)
      BY DEF FavInit, Unanswered
    <2>. QED BY <1>1, <2>1, FoldersOfIs DEF TrueOf
  <1>3. \A a \in Articles : member[a] = NoMember
    BY DEF FavInit
  <1>4. ~NoMember.fresh /\ NoMember.call = None
    BY DEF NoMember
  <1>5. batch.got = None /\ batch.status = "none" /\ batch.want = {}
    BY NoBatchIs DEF FavInit
  <1>. QED BY <1>2, <1>3, <1>4, <1>5
       DEF Truth, ReadsAreTrue, MembersAreTrue, CallsAreTrue, BatchIsTrue, ServerIsTrue, BatchIsWhole, IsFetching

\* The server and the mutations it has made are left alone.
SameServer ==
    /\ UNCHANGED favServer
    /\ \A s \in Slots : (Unanswered(s)' <=> Unanswered(s)) /\ (Unanswered(s) => write'[s] = write[s])

LEMMA SameTruth ==
  ASSUME SameServer
  PROVE  \A a, F : TrueOf(a, F)' <=> TrueOf(a, F)
  <1>. TAKE a, F
  <1>1. FoldersOf(a)' = FoldersOf(a)
    BY DEF SameServer, favServer, FoldersOf
  <1>2. \A s \in Slots : (Unanswered(s)' <=> Unanswered(s)) /\ (Unanswered(s) => write'[s] = write[s])
    BY DEF SameServer
  <1>. QED BY <1>1, <1>2 DEF TrueOf, PatchIn

\* Steps that read nothing and write nothing
LEMMA StillTrue ==
  ASSUME FavInv, Truth, SameServer, UNCHANGED <<member, batch, visible, guessed>>, Undisturbed' => Undisturbed
  PROVE  Truth'
  <1>1. \A a : FoldersOf(a)' = FoldersOf(a)
    BY DEF SameServer, favServer, FoldersOf
  <1>2. \A a, F : TrueOf(a, F)' <=> TrueOf(a, F)
    BY SameTruth
  <1>3. BatchIsWhole'
    BY DEF Truth, BatchIsWhole, IsFetching
  <1>4. ASSUME Undisturbed' PROVE ReadsAreTrue' /\ ServerIsTrue'
    <2>1. ReadsAreTrue /\ ServerIsTrue
      BY <1>4 DEF Truth
    <2>2. MembersAreTrue' /\ CallsAreTrue' /\ BatchIsTrue'
      BY <1>2, <2>1 DEF ReadsAreTrue, MembersAreTrue, CallsAreTrue, BatchIsTrue
    <2>3. ServerIsTrue'
      BY <1>1, <1>2, <2>1 DEF ServerIsTrue
    <2>. QED BY <2>2, <2>3 DEF ReadsAreTrue
  <1>. QED BY <1>3, <1>4 DEF Truth

\* Steps of the reads, which leave the server alone
LEMMA ReadKeepsTruth ==
  ASSUME Truth, SameServer, Undisturbed' => Undisturbed, BatchIsWhole',
         Undisturbed /\ ReadsAreTrue /\ ServerIsTrue => ReadsAreTrue'
  PROVE  Truth'
  <1>1. \A a : FoldersOf(a)' = FoldersOf(a)
    BY DEF SameServer, favServer, FoldersOf
  <1>2. ServerIsTrue => ServerIsTrue'
    BY <1>1, SameTruth DEF ServerIsTrue
  <1>. QED BY <1>2 DEF Truth

\* What is sent has not been served.
LEMMA SentIsSame ==
  ASSUME FavInv, NEW s \in FreeSlots, NEW w, w.state = "sent", Mutate(s, w), UNCHANGED favServer
  PROVE  SameServer /\ (Undisturbed' => Undisturbed)
  <1>1. write' = [write EXCEPT ![s] = w] /\ UNCHANGED <<foreign, lost>>
    BY DEF Mutate
  <1>2. s \in Slots /\ write[s] = None /\ write \in [Slots -> Write \union {None}]
    BY DEF FreeSlots, FavInv, WritesFit
  <1>3. ~Unanswered(s) /\ ~Unanswered(s)'
    BY <1>1, <1>2 DEF Unanswered
  <1>4. ASSUME NEW r \in Slots, r # s PROVE write'[r] = write[r] /\ (Unanswered(r)' <=> Unanswered(r))
    BY <1>1, <1>2, <1>4 DEF Unanswered
  <1>. QED BY <1>1, <1>3, <1>4 DEF SameServer, Undisturbed

LEMMA SentSteps ==
  ASSUME FavInv, Truth, \/ Toggle \/ CreateFolder \/ TrackFolder \/ Confirm
                        \/ \E f \in Folders : PickAdd(f) \/ MoveSelected(f)
  PROVE  Truth'
  <1>1. UNCHANGED <<favServer, member, batch, visible, guessed>>
    BY DEF Toggle, CreateFolder, TrackFolder, Confirm, PickAdd, MoveSelected, favPage, favCache
  <1>2. ASSUME NEW s \in FreeSlots, NEW w, w.state = "sent", Mutate(s, w) PROVE Truth'
    <2>1. SameServer /\ (Undisturbed' => Undisturbed)
      BY <1>1, <1>2, SentIsSame
    <2>. QED BY <1>1, <2>1, StillTrue
  <1>3. ASSUME NEW f \in Folders, PickAdd(f) PROVE Truth'
    <2>. DEFINE w == [Plain EXCEPT !.kind = "add", !.folder = f, !.articles = {reader}]
    <2>1. PICK s \in FreeSlots : Mutate(s, w)
      BY <1>3 DEF PickAdd
    <2>2. w.state = "sent"
      BY PlainIs
    <2>. HIDE DEF w
    <2>. QED BY <1>2, <2>1, <2>2
  <1>4. CASE Toggle
    <2>. DEFINE k == IF Active \in ShownFolders THEN "remove" ELSE "add"
                w == [Plain EXCEPT !.kind = k, !.folder = Active, !.articles = {reader}, !.toggle = TRUE]
    <2>1. PICK s \in FreeSlots : Mutate(s, w)
      BY <1>4 DEF Toggle
    <2>2. w.state = "sent"
      BY PlainIs
    <2>. HIDE DEF w
    <2>. QED BY <1>2, <2>1, <2>2
  <1>5. CASE CreateFolder
    BY <1>2, <1>5, PlainIs DEF CreateFolder
  <1>6. CASE TrackFolder
    <2>. DEFINE w == [Plain EXCEPT !.kind = "track", !.folder = Active]
    <2>1. PICK s \in FreeSlots : Mutate(s, w)
      BY <1>6 DEF TrackFolder
    <2>2. w.state = "sent"
      BY PlainIs
    <2>. HIDE DEF w
    <2>. QED BY <1>2, <2>1, <2>2
  <1>7. ASSUME NEW f \in Folders, MoveSelected(f) PROVE Truth'
    <2>. DEFINE w == [Plain EXCEPT !.kind = "bulkMove", !.folder = Active, !.target = f, !.articles = Selected, !.from = Active]
    <2>1. PICK s \in FreeSlots : Mutate(s, w)
      BY <1>7 DEF MoveSelected
    <2>2. w.state = "sent"
      BY PlainIs
    <2>. HIDE DEF w
    <2>. QED BY <1>2, <2>1, <2>2
  <1>8. CASE Confirm
    <2>. DEFINE folder == IF dialog.kind = "bulkRemove" THEN Active ELSE dialog.folder
                w == [Plain EXCEPT !.kind = dialog.kind, !.articles = dialog.articles, !.from = dialog.folder, !.folder = folder]
    <2>1. PICK s \in FreeSlots : Mutate(s, w)
      BY <1>8 DEF Confirm
    <2>2. w.state = "sent"
      <3>. HIDE DEF folder
      <3>. QED BY PlainIs
    <2>. HIDE DEF w
    <2>. QED BY <1>2, <2>1, <2>2
  <1>. QED BY <1>3, <1>4, <1>5, <1>6, <1>7, <1>8

\* The page, its dialogs and the lists
LEMMA IdleSteps ==
  ASSUME FavInv, Truth,
         \/ TickAll \/ AskBulkRemove \/ Dismiss \/ ClosePicker \/ AnswerFolders \/ Focus
         \/ \E f \in Folders : AskRemove(f) \/ AnswerList(f) \/ SelectFolder(f)
         \/ \E a \in Articles : Tick(a) \/ OpenReader(a)
         \/ \E kind \in {"delete", "rename"} : AskFolder(kind)
         \/ \E s \in Slots : AnswerFailure(s) \/ Settle(s)
         \/ UNCHANGED favVars
  PROVE  Truth'
  <1>1. UNCHANGED <<favServer, member, batch, visible, guessed, lost, foreign>>
    BY DEF TickAll, AskBulkRemove, Dismiss, ClosePicker, AnswerFolders, Focus, AskRemove, AnswerList, SelectFolder, Tick,
           OpenReader, AskFolder, AnswerFailure, Settle, favVars, favPage, favCache, favGhost
  <1>2. ASSUME SameServer PROVE Truth'
    BY <1>1, <1>2, StillTrue DEF Undisturbed
  <1>3. CASE UNCHANGED write
    BY <1>1, <1>2, <1>3 DEF SameServer, Unanswered
  <1>4. ASSUME NEW s \in Slots, AnswerFailure(s) \/ Settle(s) PROVE Truth'
    <2>1. write' = [write EXCEPT ![s] = None] /\ ~Unanswered(s)
      BY <1>4 DEF AnswerFailure, Settle, Unanswered
    <2>2. write \in [Slots -> Write \union {None}]
      BY DEF FavInv, WritesFit
    <2>3. ~Unanswered(s)'
      BY <2>1, <2>2 DEF Unanswered
    <2>4. \A r \in Slots \ {s} : write'[r] = write[r]
      BY <2>1, <2>2
    <2>5. \A r \in Slots \ {s} : (Unanswered(r)' <=> Unanswered(r))
      BY <2>4 DEF Unanswered
    <2>. QED BY <1>1, <1>2, <2>1, <2>3, <2>4, <2>5 DEF SameServer
  <1>. QED BY <1>3, <1>4 DEF TickAll, AskBulkRemove, Dismiss, ClosePicker, AnswerFolders, Focus, AskRemove, AnswerList,
                             SelectFolder, Tick, OpenReader, AskFolder, favVars

\* What a read that begins changes: a call without an answer
LEMMA CheckedKeeps ==
  ASSUME MembersFit, NEW a
  PROVE  \A b \in Articles : /\ Checked(a)[b].data = member[b].data /\ Checked(a)[b].fresh = member[b].fresh
                             /\ Checked(a)[b].err = member[b].err
                             /\ Checked(a)[b].call = member[b].call \/ Checked(a)[b].call.got = None
  <1>. SUFFICES ASSUME NEW b \in Articles
       PROVE  /\ Checked(a)[b].data = member[b].data /\ Checked(a)[b].fresh = member[b].fresh
              /\ Checked(a)[b].err = member[b].err
              /\ Checked(a)[b].call = member[b].call \/ Checked(a)[b].call.got = None
    OBVIOUS
  <1>1. member \in [Articles -> Member] /\ member[b] \in Member
    BY DEF MembersFit
  <1>. DEFINE c == [by |-> 0, got |-> None]
              m == [member[b] EXCEPT !.call = c]
  <1>2. c.got = None
    OBVIOUS
  <1>. HIDE DEF c
  <1>3. m.data = member[b].data /\ m.fresh = member[b].fresh /\ m.err = member[b].err /\ m.call = c
    BY <1>1 DEF Member
  <1>4. Checked(a)[b] = member[b] \/ Checked(a)[b] = m
    <2>1. Checked(a) = member \/ Checked(a) = [member EXCEPT ![a].call = c]
      BY DEF Checked, c
    <2>2. [member EXCEPT ![a].call = c][b] = member[b] \/ [member EXCEPT ![a].call = c][b] = m
      BY <1>1
    <2>. QED BY <2>1, <2>2
  <1>. HIDE DEF m
  <1>. QED BY <1>2, <1>3, <1>4

LEMMA PickerTruth ==
  ASSUME FavInv, Truth, OpenPicker \/ RetryPicker
  PROVE  Truth'
  <1>1. UNCHANGED <<favServer, batch, visible, guessed, write, lost, foreign>> /\ member' = Checked(reader)
    BY DEF OpenPicker, RetryPicker, favPage, favGhost
  <1>2. SameServer /\ (Undisturbed' => Undisturbed)
    BY <1>1 DEF SameServer, Unanswered, Undisturbed
  <1>3. \A b \in Articles : /\ member'[b].data = member[b].data /\ member'[b].fresh = member[b].fresh
                            /\ member'[b].err = member[b].err
                            /\ member'[b].call = member[b].call \/ member'[b].call.got = None
    BY <1>1, CheckedKeeps DEF FavInv
  <1>4. visible \subseteq Articles
    BY DEF FavInv, PageFits
  <1>5. BatchIsWhole'
    BY <1>1, <1>3, <1>4 DEF Truth, BatchIsWhole, IsFetching
  <1>6. ASSUME ReadsAreTrue PROVE ReadsAreTrue'
    <2>1. \A a, F : TrueOf(a, F)' <=> TrueOf(a, F)
      BY <1>2, SameTruth
    <2>2. MembersAreTrue' /\ CallsAreTrue' /\ BatchIsTrue'
      BY <1>1, <1>3, <1>6, <2>1 DEF ReadsAreTrue, MembersAreTrue, CallsAreTrue, BatchIsTrue
    <2>. QED BY <2>2 DEF ReadsAreTrue
  <1>. QED BY <1>2, <1>5, <1>6, ReadKeepsTruth

\* A membership is read: served with what the server has, answered, or lost.
LEMMA CheckTruth ==
  ASSUME FavInv, Truth, NEW a \in Articles, ServeCheck(a) \/ AnswerCheck(a)
  PROVE  Truth'
  <1>0. MembersFit /\ member \in [Articles -> Member] /\ member[a] \in Member /\ visible \subseteq Articles
    BY DEF FavInv, MembersFit, PageFits
  <1>1. UNCHANGED <<favServer, batch, visible, write, lost, foreign>>
    BY DEF ServeCheck, AnswerCheck, favPage, favGhost
  <1>2. SameServer /\ (Undisturbed' => Undisturbed)
    BY <1>1 DEF SameServer, Unanswered, Undisturbed
  <1>3. \A b, F : TrueOf(b, F)' <=> TrueOf(b, F)
    BY <1>2, SameTruth
  <1>4. ASSUME ReadsAreTrue, MembersAreTrue', CallsAreTrue' PROVE ReadsAreTrue'
    BY <1>1, <1>3, <1>4 DEF ReadsAreTrue, BatchIsTrue
  <1>5. CASE ServeCheck(a)
    <2>1. member' = [member EXCEPT ![a].call.got = FoldersOf(a)] /\ UNCHANGED guessed /\ member[a].call # None
      BY <1>5 DEF ServeCheck
    <2>2. FoldersOf(a) \in (SUBSET Folders) \union {None, Failed}
      BY FoldersOfIs DEF FavInv
    <2>3. /\ \A b \in Articles \ {a} : member'[b] = member[b]
          /\ member'[a].data = member[a].data /\ member'[a].fresh = member[a].fresh /\ member'[a].err = member[a].err
          /\ member'[a].call.got = FoldersOf(a)
      BY <1>0, <2>1, <2>2, GotFits
    <2>4. BatchIsWhole'
      BY <1>0, <1>1, <2>3 DEF Truth, BatchIsWhole, IsFetching
    <2>5. ASSUME ReadsAreTrue, ServerIsTrue PROVE ReadsAreTrue'
      <3>1. MembersAreTrue'
        BY <1>3, <2>1, <2>3, <2>5 DEF ReadsAreTrue, MembersAreTrue
      <3>2. CallsAreTrue'
        BY <1>3, <2>3, <2>5 DEF ReadsAreTrue, CallsAreTrue, ServerIsTrue
      <3>. QED BY <1>4, <2>5, <3>1, <3>2
    <2>. QED BY <1>2, <2>4, <2>5, ReadKeepsTruth
  <1>6. CASE AnswerCheck(a)
    <2>. DEFINE got == member[a].call.got
                m == IF got = Failed THEN [member[a] EXCEPT !.call = None, !.fresh = FALSE, !.err = TRUE]
                     ELSE [data |-> got, fresh |-> TRUE, err |-> FALSE, call |-> None]
    <2>1. /\ member[a].call # None /\ got # None
          /\ guessed' = IF got = Failed THEN guessed ELSE guessed \ {a}
      BY <1>6 DEF AnswerCheck
    <2>2. member' = [member EXCEPT ![a] = m]
      BY <1>0, <1>6 DEF AnswerCheck
    <2>3. m.call = None /\ (m.fresh \/ m.err) /\ (m.fresh => got # Failed /\ m.data = got)
      <3>. HIDE DEF got
      <3>. QED BY <1>0 DEF Member
    <2>. HIDE DEF m, got
    <2>4. member'[a] = m /\ \A b \in Articles \ {a} : member'[b] = member[b]
      BY <1>0, <2>2
    <2>5. BatchIsWhole'
      BY <1>0, <1>1, <2>3, <2>4 DEF Truth, BatchIsWhole, IsFetching
    <2>6. ASSUME ReadsAreTrue, ServerIsTrue PROVE ReadsAreTrue'
      <3>1. got = Failed \/ TrueOf(a, got)
        BY <2>1, <2>6 DEF ReadsAreTrue, CallsAreTrue, got
      <3>2. MembersAreTrue'
        BY <1>3, <2>1, <2>3, <2>4, <2>6, <3>1 DEF ReadsAreTrue, MembersAreTrue
      <3>3. CallsAreTrue'
        BY <1>3, <2>3, <2>4, <2>6 DEF ReadsAreTrue, CallsAreTrue
      <3>. QED BY <1>4, <2>6, <3>2, <3>3
    <2>. QED BY <1>2, <2>5, <2>6, ReadKeepsTruth
  <1>. QED BY <1>5, <1>6

\* The batch: served, answered, asked for again
LEMMA BatchTruth ==
  ASSUME FavInv, Truth, ServeBatch \/ AnswerBatch \/ RetryBatch
  PROVE  Truth'
  <1>0. MembersFit /\ visible \subseteq Articles /\ BatchFits /\ batch.want \subseteq visible
    BY DEF FavInv, PageFits, BatchFits
  <1>1. UNCHANGED <<favServer, visible, write, lost, foreign>>
    BY DEF ServeBatch, AnswerBatch, RetryBatch, favPage, favGhost
  <1>2. SameServer /\ (Undisturbed' => Undisturbed)
    BY <1>1 DEF SameServer, Unanswered, Undisturbed
  <1>3. \A b, F : TrueOf(b, F)' <=> TrueOf(b, F)
    BY <1>2, SameTruth
  <1>4. ASSUME UNCHANGED <<member, guessed>>, BatchIsWhole', Undisturbed /\ ReadsAreTrue /\ ServerIsTrue => BatchIsTrue'
        PROVE  Truth'
    <2>1. ReadsAreTrue => MembersAreTrue' /\ CallsAreTrue'
      BY <1>3, <1>4 DEF ReadsAreTrue, MembersAreTrue, CallsAreTrue
    <2>2. Undisturbed /\ ReadsAreTrue /\ ServerIsTrue => ReadsAreTrue'
      BY <1>4, <2>1 DEF ReadsAreTrue
    <2>. QED BY <1>2, <1>4, <2>2, ReadKeepsTruth
  <1>5. CASE ServeBatch
    <2>. DEFINE got == [a \in batch.want |-> FoldersOf(a)]
    <2>1. batch' = [batch EXCEPT !.got = got] /\ UNCHANGED <<member, guessed>>
      BY <1>5 DEF ServeBatch
    <2>2. \A a \in batch.want : got[a] = FoldersOf(a)
      OBVIOUS
    <2>. HIDE DEF got
    <2>3. batch'.got = got /\ batch'.want = batch.want /\ batch'.status = batch.status
      BY <1>0, <2>1 DEF BatchFits
    <2>4. BatchIsWhole'
      BY <1>1, <2>1, <2>3 DEF Truth, BatchIsWhole, IsFetching
    <2>5. ServerIsTrue => BatchIsTrue'
      BY <1>0, <1>3, <2>2, <2>3 DEF ServerIsTrue, BatchIsTrue
    <2>. QED BY <1>4, <2>1, <2>4, <2>5
  <1>6. CASE AnswerBatch
    <2>1. CASE batch.got = Failed
      <3>1. batch' = [NoBatch EXCEPT !.status = "error"] /\ UNCHANGED <<member, guessed>>
        BY <1>6, <2>1 DEF AnswerBatch
      <3>2. batch'.got = None /\ batch'.want = {} /\ batch'.status = "error"
        BY <3>1, NoBatchIs
      <3>3. BatchIsWhole' /\ BatchIsTrue'
        BY <3>2 DEF BatchIsWhole, BatchIsTrue, IsFetching
      <3>. QED BY <1>4, <3>1, <3>3
    <2>2. CASE batch.got # Failed
      <3>1. /\ batch' = [NoBatch EXCEPT !.status = "success"]
            /\ member' = [a \in Articles |-> IF a \notin batch.want THEN member[a] ELSE
                           [data |-> batch.got[a], fresh |-> TRUE, err |-> FALSE, call |-> member[a].call]]
            /\ guessed' = guessed \ batch.want /\ batch.got \notin {None, Failed} /\ IsFetching
        BY <1>6, <2>2 DEF AnswerBatch
      <3>2. batch'.got = None /\ batch'.want = {} /\ batch'.status = "success"
        BY <3>1, NoBatchIs
      <3>3. /\ \A a \in Articles \ batch.want : member'[a] = member[a]
            /\ \A a \in batch.want : /\ member'[a].data = batch.got[a] /\ member'[a].fresh
                                     /\ member'[a].call = member[a].call
        BY <1>0, <3>1
      <3>4. BatchIsWhole'
        BY <1>0, <1>1, <3>1, <3>2, <3>3 DEF Truth, BatchIsWhole
      <3>5. ASSUME ReadsAreTrue PROVE ReadsAreTrue'
        <4>1. \A a \in batch.want : TrueOf(a, batch.got[a])
          BY <3>1, <3>5 DEF ReadsAreTrue, BatchIsTrue
        <4>2. MembersAreTrue'
          BY <1>3, <3>1, <3>3, <3>5, <4>1 DEF ReadsAreTrue, MembersAreTrue
        <4>3. CallsAreTrue'
          BY <1>0, <1>3, <3>3, <3>5 DEF ReadsAreTrue, CallsAreTrue
        <4>4. BatchIsTrue'
          BY <3>2 DEF BatchIsTrue
        <4>. QED BY <4>2, <4>3, <4>4 DEF ReadsAreTrue
      <3>. QED BY <1>2, <3>4, <3>5, ReadKeepsTruth
    <2>. QED BY <2>1, <2>2
  <1>7. CASE RetryBatch
    <2>1. batch' = Fetching(member, 0) /\ UNCHANGED <<member, guessed>>
      BY <1>7 DEF RetryBatch
    <2>2. batch'.got = None /\ batch'.want = Missing(member)
      BY <2>1, FetchingIs
    <2>3. BatchIsWhole' /\ BatchIsTrue'
      BY <1>1, <2>1, <2>2 DEF Missing, BatchIsWhole, BatchIsTrue
    <2>. QED BY <1>4, <2>1, <2>3
  <1>. QED BY <1>5, <1>6, <1>7

LEMMA LoseReadTruth ==
  ASSUME FavInv, Truth, LoseRead
  PROVE  Truth'
  <1>0. MembersFit /\ visible \subseteq Articles /\ BatchFits
    BY DEF FavInv, PageFits
  <1>1. UNCHANGED <<favServer, visible, write, lost, foreign, guessed>>
    BY DEF LoseRead, favPage
  <1>2. SameServer /\ (Undisturbed' => Undisturbed)
    BY <1>1 DEF SameServer, Unanswered, Undisturbed
  <1>3. \A b, F : TrueOf(b, F)' <=> TrueOf(b, F)
    BY <1>2, SameTruth
  <1>4. CASE batch' = [batch EXCEPT !.got = Failed] /\ UNCHANGED member
    <2>1. batch'.got = Failed /\ batch'.want = batch.want /\ batch'.status = batch.status
      BY <1>0, <1>4 DEF BatchFits
    <2>2. BatchIsWhole'
      BY <1>1, <1>4, <2>1 DEF Truth, BatchIsWhole, IsFetching
    <2>3. ReadsAreTrue => ReadsAreTrue'
      BY <1>1, <1>3, <1>4, <2>1 DEF ReadsAreTrue, MembersAreTrue, CallsAreTrue, BatchIsTrue
    <2>. QED BY <1>2, <2>2, <2>3, ReadKeepsTruth
  <1>5. ASSUME NEW a \in Articles, member[a].call # None, member' = [member EXCEPT ![a].call.got = Failed], UNCHANGED batch
        PROVE  Truth'
    <2>1. /\ \A b \in Articles \ {a} : member'[b] = member[b]
          /\ member'[a].data = member[a].data /\ member'[a].fresh = member[a].fresh /\ member'[a].err = member[a].err
          /\ member'[a].call.got = Failed
      <3>1. Failed \in (SUBSET Folders) \union {None, Failed}
        OBVIOUS
      <3>2. member' = [member EXCEPT ![a].call.got = Failed] /\ member[a].call # None /\ MembersFit
        BY <1>0, <1>5
      <3>3. /\ \A b \in Articles \ {a} : [member EXCEPT ![a].call.got = Failed][b] = member[b]
            /\ LET m == [member EXCEPT ![a].call.got = Failed][a]
               IN  m.data = member[a].data /\ m.fresh = member[a].fresh /\ m.err = member[a].err
                   /\ m.call = [by |-> member[a].call.by, got |-> Failed]
        BY <3>1, <3>2, GotFits
      <3>. QED BY <3>2, <3>3
    <2>2. BatchIsWhole'
      BY <1>0, <1>1, <1>5, <2>1 DEF Truth, BatchIsWhole, IsFetching
    <2>3. ReadsAreTrue => ReadsAreTrue'
      BY <1>1, <1>3, <1>5, <2>1 DEF ReadsAreTrue, MembersAreTrue, CallsAreTrue, BatchIsTrue
    <2>. QED BY <1>2, <2>2, <2>3, ReadKeepsTruth
  <1>. QED BY <1>4, <1>5 DEF LoseRead

\* Other results, other pages: what is not asked for is fresh.
LEMMA PageTruth ==
  ASSUME FavInv, Truth, VisitFavorites \/ \E these \in (SUBSET Articles) \ {{}} : Search(these)
  PROVE  Truth'
  <1>1. UNCHANGED <<favServer, member, write, lost, foreign, guessed>>
    BY DEF VisitFavorites, Search, favGhost
  <1>2. SameServer /\ (Undisturbed' => Undisturbed)
    BY <1>1 DEF SameServer, Unanswered, Undisturbed
  <1>3. ASSUME batch'.got = None, BatchIsWhole' PROVE Truth'
    <2>1. \A b, F : TrueOf(b, F)' <=> TrueOf(b, F)
      BY <1>2, SameTruth
    <2>2. ReadsAreTrue => ReadsAreTrue'
      BY <1>1, <1>3, <2>1 DEF ReadsAreTrue, MembersAreTrue, CallsAreTrue, BatchIsTrue
    <2>. QED BY <1>2, <1>3, <2>2, ReadKeepsTruth
  <1>4. CASE VisitFavorites
    <2>1. visible' = {} /\ batch' = NoBatch
      BY <1>4 DEF VisitFavorites
    <2>. QED BY <1>3, <2>1, NoBatchIs DEF BatchIsWhole
  <1>5. ASSUME NEW these \in SUBSET Articles, Search(these) PROVE Truth'
    <2>. DEFINE missing == {a \in these : ~member[a].fresh}
    <2>1. /\ visible' = these
          /\ batch' = IF missing = {} THEN [NoBatch EXCEPT !.status = "success"]
                      ELSE [status |-> "pending", want |-> missing, by |-> 0, got |-> None]
      BY <1>5 DEF Search
    <2>2. batch'.want = missing /\ batch'.got = None
      <3>. HIDE DEF missing
      <3>. QED BY <2>1, NoBatchIs
    <2>3. BatchIsWhole'
      BY <1>1, <2>1, <2>2 DEF BatchIsWhole
    <2>. QED BY <1>3, <2>2, <2>3
  <1>. QED BY <1>4, <1>5

\* The server makes a mutation: what was true before it is what the page
\* makes true again with its patch.
LEMMA ServedTruth ==
  ASSUME FavInv, Truth, OneWrite, NEW s \in Slots, ServeWrite(s)
  PROVE  Truth'
  <1>. DEFINE w == write[s]
  <1>0. ServerFits /\ WritesFit /\ w # None /\ w \in Write /\ w.state = "sent" /\ WriteFits(w) /\ ~Unanswered(s)
    BY DEF FavInv, WritesFit, ServeWrite, Unanswered
  <1>1. UNCHANGED <<visible, member, batch, guessed, lost, foreign>>
    BY DEF ServeWrite, favPage, favCache, favGhost
  <1>2. BatchIsWhole' /\ (Undisturbed' => Undisturbed)
    BY <1>1 DEF Truth, BatchIsWhole, IsFetching, Undisturbed
  <1>3. \A r \in Slots : r = s
    BY DEF OneWrite
  <1>4. \A r \in Slots : ~Unanswered(r)
    BY <1>0, <1>3
  <1>5. CASE ~Accepts(w)
    <2>1. UNCHANGED favServer /\ Reply(s, "failed")
      BY <1>5 DEF ServeWrite
    <2>2. ~Unanswered(s)'
      <3>1. write'[s] = [write[s] EXCEPT !.state = "failed"]
        BY <1>0, <2>1, ReplyIs
      <3>2. [write[s] EXCEPT !.state = "failed"].state = "failed"
        BY <1>0 DEF Write
      <3>. QED BY <3>1, <3>2 DEF Unanswered
    <2>3. SameServer
      BY <1>3, <1>4, <2>1, <2>2 DEF SameServer
    <2>. QED BY <1>1, <1>2, <2>3, StillTrue
  <1>6. CASE Accepts(w)
    <2>1. Serve(w) /\ Reply(s, "ok")
      BY <1>6 DEF ServeWrite
    <2>2. write'[s] = [w EXCEPT !.state = "ok"]
      <3>1. w.kind = "add" => w.folder \in Folders
        BY <1>0, <1>6 DEF Accepts, ServerFits
      <3>. QED BY <1>0, <2>1, <3>1, ReplyIs
    <2>3. write'[s].kind = w.kind /\ write'[s].folder = w.folder /\ write'[s].articles = w.articles
      BY <1>0, <2>2 DEF Write
    <2>. HIDE DEF w
    <2>4. ASSUME NEW a \in Articles, NEW F, F = FoldersOf(a), w.kind \notin Sweeping
          PROVE  PatchIn(w, a, F) = FoldersOf(a)'
      <3>1. /\ holds \in [Folders -> SUBSET Articles] /\ alive \in SUBSET Folders
            /\ \A f \in Folders \ alive : holds[f] = {}
        BY <1>0 DEF ServerFits
      <3>2. CASE w.kind = "add"
        <4>1. w.folder \in alive /\ alive' = alive /\ holds' = [holds EXCEPT ![w.folder] = @ \union w.articles]
          BY <1>6, <2>1, <3>2 DEF Accepts, Serve, Applied
        <4>2. \A f \in alive : a \in holds'[f] <=> a \in holds[f] \/ (f = w.folder /\ a \in w.articles)
          BY <3>1, <4>1
        <4>. QED BY <2>4, <3>2, <4>1, <4>2 DEF FoldersOf, PatchIn
      <3>3. CASE w.kind = "remove"
        <4>1. alive' = alive /\ holds' = [holds EXCEPT ![w.folder] = @ \ w.articles]
          BY <2>1, <3>3 DEF Serve, Applied
        <4>2. \A f \in alive : a \in holds'[f] <=> a \in holds[f] /\ ~(f = w.folder /\ a \in w.articles)
          BY <3>1, <4>1
        <4>. QED BY <2>4, <3>3, <4>1, <4>2 DEF FoldersOf, PatchIn
      <3>4. CASE w.kind = "create"
        <4>1. alive' = alive \union {NewFolder} /\ holds' = holds
          BY <2>1, <3>4 DEF Serve, Applied
        <4>2. NewFolder \in Folders \ alive
          <5>1. \A f \in alive : \E g \in Folders : g > f
            BY <1>6, <3>4 DEF Accepts
          <5>2. Folders # {}
            BY <1>0 DEF ServerFits
          <5>. QED BY <3>1, <5>1, <5>2, CreatesFolder
        <4>3. FoldersOf(a)' = FoldersOf(a)
          BY <3>1, <4>1, <4>2 DEF FoldersOf
        <4>. QED BY <2>4, <3>4, <4>3 DEF PatchIn
      <3>5. CASE w.kind = "track"
        <4>1. alive' = alive /\ holds' = holds
          BY <2>1, <3>5 DEF Serve, Applied
        <4>. QED BY <2>4, <3>5, <4>1 DEF PatchIn, FoldersOf
      <3>6. w.kind \in {"add", "remove", "create", "track"}
        BY <1>0, <2>4 DEF Write, Kinds, Sweeping, Bulk, w
      <3>. QED BY <3>2, <3>3, <3>4, <3>5, <3>6
    <2>5. ASSUME NEW a \in Articles, NEW F, F = FoldersOf(a) \/ F = FoldersOf(a)'
          PROVE  TrueOf(a, F)'
      <3>1. F \in SUBSET Folders
        <4>1. ServerFits'
          BY <1>0, <1>6, <2>1, ServeFits DEF w
        <4>2. FoldersOf(a)' \in SUBSET Folders
          BY <4>1 DEF FoldersOf, ServerFits
        <4>. QED BY <1>0, <2>5, <4>2, FoldersOfIs
      <3>2. w.kind \in Sweeping \/ PatchIn(w, a, F) = FoldersOf(a)'
        <4>1. PatchIn(w, a, PatchIn(w, a, FoldersOf(a))) = PatchIn(w, a, FoldersOf(a))
          BY DEF PatchIn
        <4>. QED BY <2>4, <2>5, <4>1
      <3>3. PatchIn(write'[s], a, F) = PatchIn(w, a, F)
        BY <2>3 DEF PatchIn
      <3>4. Unanswered(s)'
        <4>1. [w EXCEPT !.state = "ok"].state = "ok"
          BY <1>0 DEF Write, w
        <4>2. write'[s] \in Write
          BY <1>0, <2>2 DEF Write, w
        <4>3. write'[s] # None
          BY <4>2, NothingIsNoWrite
        <4>. QED BY <2>2, <4>1, <4>3 DEF Unanswered
      <3>. QED BY <1>3, <2>3, <3>1, <3>2, <3>3, <3>4 DEF TrueOf, PatchIn
    <2>6. ASSUME Undisturbed PROVE ReadsAreTrue' /\ ServerIsTrue'
      <3>1. \A a \in Articles : \A F : TrueOf(a, F) => F = FoldersOf(a)
        BY <1>4 DEF TrueOf
      <3>2. \A a \in Articles : \A F : TrueOf(a, F) => TrueOf(a, F)'
        BY <2>5, <3>1
      <3>3. batch.want \subseteq Articles
        BY DEF FavInv, BatchFits, PageFits
      <3>4. ReadsAreTrue
        BY <2>6 DEF Truth
      <3>5. MembersAreTrue' /\ CallsAreTrue' /\ BatchIsTrue'
        BY <1>1, <3>2, <3>3, <3>4 DEF ReadsAreTrue, MembersAreTrue, CallsAreTrue, BatchIsTrue
      <3>6. ServerIsTrue'
        BY <2>5 DEF ServerIsTrue
      <3>. QED BY <3>5, <3>6 DEF ReadsAreTrue
    <2>. QED BY <1>2, <2>6 DEF Truth
  <1>. QED BY <1>5, <1>6

\* The page hears of it, cancels the reads under way and patches or outdates
\* what it knows.
LEMMA AnsweredTruth ==
  ASSUME FavInv, Truth, OneWrite, NEW s \in Slots, AnswerWrite(s)
  PROVE  Truth'
  <1>. DEFINE w == write[s]
  <1>0. WritesFit /\ w # None /\ w \in Write /\ w.state = "ok" /\ WriteFits(w) /\ Unanswered(s) /\ Reply(s, "settling")
    BY DEF FavInv, WritesFit, AnswerWrite, Unanswered
  <1>1. UNCHANGED <<favServer, visible, lost, foreign>> /\ visible \subseteq Articles /\ batch.want \subseteq visible
    BY DEF AnswerWrite, favPage, favGhost, FavInv, PageFits, BatchFits
  <1>2. \A r \in Slots : r = s
    BY DEF OneWrite
  <1>3. \A r \in Slots : ~Unanswered(r)'
    <2>1. write'[s] = [w EXCEPT !.state = "settling"]
      BY <1>0, ReplyIs
    <2>2. [w EXCEPT !.state = "settling"].state = "settling"
      BY <1>0 DEF Write
    <2>3. write'[s].state = "settling"
      BY <2>1, <2>2
    <2>. QED BY <1>2, <2>3 DEF Unanswered
  <1>4. \A a : FoldersOf(a)' = FoldersOf(a)
    BY <1>1 DEF favServer, FoldersOf
  <1>5. \A a \in Articles : \A F \in SUBSET Folders : F = FoldersOf(a) => TrueOf(a, F)'
    BY <1>3, <1>4 DEF TrueOf
  <1>6. ServerIsTrue'
    BY <1>4, <1>5, FoldersOfIs DEF ServerIsTrue, FavInv
  \* Patched, or not touched by the mutation
  <1>7. ASSUME NEW a \in Articles, NEW F, TrueOf(a, F), w.kind \notin Sweeping
        PROVE  F \in SUBSET Folders /\ PatchIn(w, a, F) = FoldersOf(a)
    BY <1>0, <1>7 DEF TrueOf
  <1>8. ASSUME NEW a \in Articles, NEW F, TrueOf(a, F), w.kind \notin Sweeping, PatchIn(w, a, F) = F
        PROVE  TrueOf(a, F)'
    BY <1>5, <1>7, <1>8
  <1>9. w.kind \in Kinds
    BY <1>0 DEF Write
  <1>10. CASE w.kind \in {"add", "remove"}
    <2>. DEFINE x == Sample(s)
                m == PatchTo(w, x)
    <2>1. /\ x \in Articles /\ w.articles = {x} /\ PatchOf(w, x) \in SUBSET Folders
          /\ m \in [Articles -> Member]
          /\ guessed' = IF member[x].fresh THEN guessed ELSE guessed \union {x}
          /\ InvalidateBatch(m, s)
      <3>1. PatchMember(s)
        BY <1>10 DEF AnswerWrite, Sweeping, Bulk
      <3>. QED BY <1>0, <1>10, <3>1, PatchIs
    <2>2. /\ m[x].data = PatchOf(w, x) /\ m[x].call = None
          /\ \A a \in Articles \ {x} : m[a] = member[a]
      BY <2>1 DEF PatchTo, FavInv, MembersFit
    <2>. HIDE DEF m, x
    <2>3. /\ batch'.got = None
          /\ batch'.status = "success" \/ batch'.want # {} => \A a \in visible \ batch'.want : member'[a].fresh
          /\ \A a \in Articles : /\ member'[a].data = m[a].data /\ member'[a].call = m[a].call
                                 /\ member'[a].fresh => m[a].fresh
      BY <1>1, <2>1, InvalidatedFits
    <2>4. BatchIsWhole'
      BY <1>1, <2>3 DEF BatchIsWhole, IsFetching
    <2>5. w.kind \notin Sweeping
      BY <1>10 DEF Sweeping, Bulk
    <2>6. \A a \in Articles \ {x} : \A F : PatchIn(w, a, F) = F
      BY <2>1 DEF PatchIn
    <2>7. ASSUME ReadsAreTrue PROVE ReadsAreTrue'
      <3>1. ASSUME NEW a \in Articles \ guessed', member'[a].fresh PROVE \A F : F = member'[a].data => TrueOf(a, F)'
        <4>1. CASE a # x
          <5>1. member'[a].data = member[a].data /\ member[a].fresh /\ a \in Articles \ guessed
            BY <2>1, <2>2, <2>3, <3>1, <4>1
          <5>2. TrueOf(a, member[a].data)
            BY <2>7, <5>1 DEF ReadsAreTrue, MembersAreTrue
          <5>3. \A F : F = member[a].data => TrueOf(a, F)'
            BY <1>8, <2>5, <2>6, <4>1, <5>2
          <5>. QED BY <5>1, <5>3
        <4>2. CASE a = x
          <5>1. x \notin guessed /\ member[x].fresh
            BY <2>1, <3>1, <4>2
          <5>2. TrueOf(x, member[x].data)
            BY <2>1, <2>7, <5>1 DEF ReadsAreTrue, MembersAreTrue
          <5>3. member[x].data \in SUBSET Folders /\ PatchIn(w, x, member[x].data) = FoldersOf(x)
            BY <1>7, <2>1, <2>5, <5>2
          <5>4. Known(x) = member[x].data
            BY <5>3, AnswersDiffer DEF Known
          <5>5. PatchOf(w, x) = FoldersOf(x)
            BY <1>10, <2>1, <5>3, <5>4 DEF PatchOf, PatchIn
          <5>6. member'[x].data = PatchOf(w, x)
            BY <2>1, <2>2, <2>3
          <5>. QED BY <1>5, <2>1, <4>2, <5>5, <5>6
        <4>. QED BY <4>1, <4>2
      <3>2. ASSUME NEW a \in Articles, member'[a].call # None
            PROVE  \A F : F = member'[a].call.got => F \in {None, Failed} \/ TrueOf(a, F)'
        <4>1. a # x /\ member'[a].call = member[a].call
          BY <2>1, <2>2, <2>3, <3>2
        <4>2. member[a].call.got \in {None, Failed} \/ TrueOf(a, member[a].call.got)
          BY <2>7, <3>2, <4>1 DEF ReadsAreTrue, CallsAreTrue
        <4>3. \A F : TrueOf(a, F) => TrueOf(a, F)'
          BY <1>8, <2>5, <2>6, <4>1
        <4>4. \A F : F = member[a].call.got => F \in {None, Failed} \/ TrueOf(a, F)'
          BY <4>2, <4>3
        <4>. QED BY <4>1, <4>4
      <3>. QED BY <2>3, <3>1, <3>2 DEF ReadsAreTrue, MembersAreTrue, CallsAreTrue, BatchIsTrue
    <2>. QED BY <1>1, <1>6, <2>4, <2>7 DEF Truth, Undisturbed
  <1>11. CASE w.kind \in Sweeping
    <2>. DEFINE m == SweptBy(s)
    <2>1. /\ m \in [Articles -> Member] /\ InvalidateBatch(m, s) /\ UNCHANGED guessed
          /\ \A a \in Articles : ~m[a].fresh /\ (m[a].call # None => m[a].call = [by |-> s, got |-> None])
      <3>1. InvalidateMemberships(s)
        BY <1>11 DEF AnswerWrite, Sweeping, Bulk
      <3>. QED BY <3>1, SweptIs
    <2>. HIDE DEF m
    <2>2. /\ batch'.got = None
          /\ batch'.status = "success" \/ batch'.want # {} => \A a \in visible \ batch'.want : member'[a].fresh
          /\ \A a \in Articles : /\ member'[a].data = m[a].data /\ member'[a].call = m[a].call
                                 /\ member'[a].fresh => m[a].fresh
      BY <1>1, <2>1, InvalidatedFits
    <2>3. BatchIsWhole'
      BY <1>1, <2>2 DEF BatchIsWhole, IsFetching
    <2>4. \A a \in Articles : member'[a].call # None => member'[a].call.got = None
      BY <2>1, <2>2
    <2>5. ReadsAreTrue'
      BY <2>1, <2>2, <2>4 DEF ReadsAreTrue, MembersAreTrue, CallsAreTrue, BatchIsTrue
    <2>. QED BY <1>1, <1>6, <2>3, <2>5 DEF Truth, Undisturbed
  <1>12. CASE w.kind \in {"create", "track"}
    <2>1. UNCHANGED <<member, batch, guessed>>
      BY <1>12 DEF AnswerWrite, Sweeping, Bulk
    <2>2. BatchIsWhole'
      BY <1>1, <2>1 DEF Truth, BatchIsWhole, IsFetching
    <2>3. w.kind \notin Sweeping /\ \A a, F : PatchIn(w, a, F) = F
      BY <1>12 DEF Sweeping, Bulk, PatchIn
    <2>4. \A a \in Articles : \A F : TrueOf(a, F) => TrueOf(a, F)'
      BY <1>8, <2>3
    <2>5. ReadsAreTrue => ReadsAreTrue'
      BY <1>1, <2>1, <2>4 DEF ReadsAreTrue, MembersAreTrue, CallsAreTrue, BatchIsTrue
    <2>. QED BY <1>1, <1>6, <2>2, <2>5 DEF Truth, Undisturbed
  <1>. QED BY <1>9, <1>10, <1>11, <1>12 DEF Kinds, Sweeping, Bulk

LEMMA TruthKeeps == OneWrite /\ FavInv /\ Truth /\ [FavNext]_favVars => Truth'
  <1>. SUFFICES ASSUME OneWrite, FavInv, Truth, [FavNext]_favVars PROVE Truth'
    OBVIOUS
  <1>1. ASSUME NEW s \in Slots, LoseWrite(s) PROVE Truth'
    <2>1. /\ UNCHANGED <<visible, member, batch, guessed, foreign>> /\ Reply(s, "failed") /\ write[s] # None
          /\ write[s].state = "sent"
      BY <1>1 DEF LoseWrite, favPage, favCache
    <2>2. BatchIsWhole'
      BY <2>1 DEF Truth, BatchIsWhole, IsFetching
    <2>3. CASE lost' = TRUE
      BY <2>2, <2>3 DEF Truth, Undisturbed
    <2>4. CASE lost' = lost /\ UNCHANGED favServer
      <3>1. write[s] \in Write /\ WritesFit
        BY <2>1 DEF FavInv, WritesFit
      <3>2. write'[s] = [write[s] EXCEPT !.state = "failed"]
        BY <2>1, <3>1, ReplyIs
      <3>3. [write[s] EXCEPT !.state = "failed"].state = "failed"
        BY <3>1 DEF Write
      <3>4. ~Unanswered(s) /\ ~Unanswered(s)'
        BY <2>1, <3>2, <3>3 DEF Unanswered
      <3>5. SameServer
        BY <2>4, <3>4 DEF SameServer, OneWrite
      <3>. QED BY <2>1, <2>4, <3>5, StillTrue DEF Undisturbed
    <2>. QED BY <1>1, <2>3, <2>4 DEF LoseWrite
  <1>2. ASSUME NEW f \in Folders, ForeignDelete(f) \/ ForeignTrack(f) PROVE Truth'
    <2>1. UNCHANGED <<visible, member, batch>> /\ foreign'
      BY <1>2 DEF ForeignDelete, ForeignTrack, Foreign, favPage, favCache
    <2>. QED BY <2>1 DEF Truth, BatchIsWhole, IsFetching, Undisturbed
  <1>3. CASE UNCHANGED favVars
    BY <1>3, IdleSteps
  <1>4. ASSUME NEW f \in Folders, \/ PickAdd(f) \/ AskRemove(f) \/ MoveSelected(f) \/ AnswerList(f) \/ SelectFolder(f)
        PROVE  Truth'
    BY <1>4, SentSteps, IdleSteps
  <1>5. ASSUME NEW a \in Articles, Tick(a) \/ OpenReader(a) \/ ServeCheck(a) \/ AnswerCheck(a) PROVE Truth'
    BY <1>5, IdleSteps, CheckTruth
  <1>6. ASSUME NEW s \in Slots, ServeWrite(s) \/ AnswerWrite(s) \/ AnswerFailure(s) \/ Settle(s) PROVE Truth'
    BY <1>6, ServedTruth, AnsweredTruth, IdleSteps
  <1>7. CASE Toggle \/ CreateFolder \/ TrackFolder \/ Confirm
    BY <1>7, SentSteps
  <1>8. CASE TickAll \/ AskBulkRemove \/ Dismiss \/ \E kind \in {"delete", "rename"} : AskFolder(kind)
    BY <1>8, IdleSteps
  <1>9. CASE OpenPicker \/ RetryPicker
    BY <1>9, PickerTruth
  <1>10. CASE ServeBatch \/ AnswerBatch \/ RetryBatch \/ LoseRead
    BY <1>10, BatchTruth, LoseReadTruth
  <1>11. CASE ClosePicker \/ AnswerFolders \/ Focus
    BY <1>11, IdleSteps
  <1>12. CASE VisitFavorites \/ \E these \in (SUBSET Articles) \ {{}} : Search(these)
    BY <1>12, PageTruth
  <1>. QED BY <1>1, <1>2, <1>3, <1>4, <1>5, <1>6, <1>7, <1>8, <1>9, <1>10, <1>11, <1>12 DEF FavNext

\* While mutations are made one at a time, a membership taken for fresh is
\* the server's (lib/favorites-query.ts): between the server's write
\* and the page's patch, whatever a read brings is what the server has or
\* what the patch turns into it, and the answer to a mutation cancels the
\* reads that may be older.
THEOREM MembershipsAreTrue == OneWrite /\ FavSpec => []MembershipIsTrue
  <1>. SUFFICES ASSUME OneWrite PROVE FavSpec => []MembershipIsTrue
    OBVIOUS
  <1>1. FavInit => FavInv /\ Truth
    BY FavStart, TruthStart
  <1>2. FavInv /\ Truth /\ [FavNext]_favVars => (FavInv /\ Truth)'
    BY FavKeeps, TruthKeeps
  <1>3. FavInv /\ Truth => MembershipIsTrue
    BY TruthShows
  <1>. QED BY <1>1, <1>2, <1>3, PTL DEF FavSpec

=============================================================================
