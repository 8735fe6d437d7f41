--------------------------- MODULE SessionProofs ---------------------------
(***************************************************************************)
(* Whom a browser's documents show, for any number of documents, accounts, *)
(* logins and upsets.                                                      *)
(***************************************************************************)
EXTENDS SessionProperties, TLAPS

----------------------------------------------------------------------------
\* Types

\* An account has been edited no more often than there were upsets: what
\* keeps its revision within its bound
RevsAreEdits == \A u \in Users : rev[u] <= upsets

Typed == TypeOK /\ RevsAreEdits

\* A storage write signals every other document if it is a change, and takes
\* no signal back.
LEMMA ChangeIsSignalled ==
  ASSUME signal \in [Tabs -> 0..2], NEW t \in Tabs, NEW isChange, Changed(t, isChange)
  PROVE  /\ signal' \in [Tabs -> 0..2]
         /\ \A s \in Tabs : /\ s # t /\ isChange => signal'[s] > 0
                            /\ signal[s] > 0 => signal'[s] > 0
                            /\ s = t \/ ~isChange => signal'[s] = signal[s]
  BY DEF Changed

\* What localStorage holds after its three kinds of writes.
LEMMA StorageTypes ==
  ASSUME signal \in [Tabs -> 0..2], storedWarn \in BOOLEAN, NEW t \in Tabs
  PROVE  /\ \A p \in User \union {None} : WriteStoredUser(t, p) =>
               /\ stored' = p /\ storedWarn' = storedWarn /\ signal' \in [Tabs -> 0..2]
         /\ \A warning : ClearStored(t, warning) =>
               /\ stored' = None /\ storedWarn' \in BOOLEAN /\ signal' \in [Tabs -> 0..2]
  BY ChangeIsSignalled DEF WriteStoredUser, ClearStored

\* The server's projections are users, and its holders accounts.
LEMMA HolderIsUser ==
  ASSUME Typed
  PROVE  /\ Holder(cookie) # None => cookie \in live /\ Holder(cookie) = cookie.user
                                     /\ cookie.user \in Users
         /\ \A u \in Users : Projection(u) \in User
  <1>1. \A k \in Token : k.user \in Users
    BY DEF Token
  <1>. QED
    BY <1>1 DEF Typed, TypeOK, Holder, Projection, User

\* A pending call stays one when it is sent, answered or followed.
LEMMA CallTypes ==
  ASSUME call \in [Tabs -> [Slots -> Call \union {None}]], NEW t \in Tabs, NEW s \in Slots
  PROVE  /\ \A kind \in Kinds, u \in Users, state \in States :
               [kind |-> kind, user |-> u, state |-> state, got |-> None] \in Call
         /\ call[t][s] # None => call[t][s] \in Call
         /\ \A c \in Call \union {None} :
               /\ [call EXCEPT ![t][s] = c] \in [Tabs -> [Slots -> Call \union {None}]]
         /\ \A c \in Call, kind \in Kinds, state \in States, got \in User \union {None} :
               /\ [c EXCEPT !.state = state] \in Call
               /\ [c EXCEPT !.state = state, !.got = got] \in Call
               /\ [c EXCEPT !.kind = kind, !.state = state, !.got = None] \in Call
  BY DEF Call

\* Moving one call leaves the others, and its record says how it moved.
LEMMA CallMoves ==
  ASSUME call \in [Tabs -> [Slots -> Call \union {None}]], NEW t \in Tabs, NEW s \in Slots,
         NEW c \in Call \union {None}, call' = [call EXCEPT ![t][s] = c]
  PROVE  /\ call' \in [Tabs -> [Slots -> Call \union {None}]]
         /\ call'[t][s] = c
         /\ \A r \in Slots \ {s} : call'[t][r] = call[t][r]
         /\ \A d \in Tabs \ {t} : call'[d] = call[d]
  OBVIOUS

\* How an answer is written into its call.
LEMMA AnswerMoves ==
  ASSUME call \in [Tabs -> [Slots -> Call \union {None}]], NEW t \in Tabs, NEW s \in Slots,
         call[t][s] # None, NEW state \in States, NEW got \in User \union {None},
         Answer(t, s, state, got)
  PROVE  /\ [call[t][s] EXCEPT !.state = state, !.got = got] \in Call
         /\ call' = [call EXCEPT ![t][s] = [call[t][s] EXCEPT !.state = state, !.got = got]]
         /\ call' \in [Tabs -> [Slots -> Call \union {None}]]
  <1>1. call[t][s] \in Call
    OBVIOUS
  <1>2. [call[t][s] EXCEPT !.state = state, !.got = got] \in Call
    BY <1>1 DEF Call
  <1>3. call' = [call EXCEPT ![t][s] = [call[t][s] EXCEPT !.state = state, !.got = got]]
    BY DEF Answer
  <1>. QED
    BY <1>2, <1>3, CallMoves

\* How the call that follows an answered one takes its place.
LEMMA FollowMoves ==
  ASSUME call \in [Tabs -> [Slots -> Call \union {None}]], NEW t \in Tabs, NEW s \in Slots,
         call[t][s] # None, NEW state \in States, NEW kind \in Kinds,
         Follow(t, s, kind, state)
  PROVE  /\ [call[t][s] EXCEPT !.kind = kind, !.state = state, !.got = None] \in Call
         /\ call' = [call EXCEPT ![t][s] = [call[t][s] EXCEPT !.kind = kind,
                                             !.state = state, !.got = None]]
         /\ call' \in [Tabs -> [Slots -> Call \union {None}]]
  <1>1. call[t][s] \in Call
    OBVIOUS
  <1>2. [call[t][s] EXCEPT !.kind = kind, !.state = state, !.got = None] \in Call
    BY <1>1 DEF Call
  <1>3. call' = [call EXCEPT ![t][s] = [call[t][s] EXCEPT !.kind = kind,
                                                   !.state = state, !.got = None]]
    BY DEF Follow
  <1>. QED
    BY <1>2, <1>3, CallMoves

\* Upsets are counted up to their bound.
LEMMA UpsetCounts ==
  ASSUME upsets \in 0..MaxUpsets, kept \in BOOLEAN, logins \in 0..MaxSessions,
         UNCHANGED used \/ Fault \/ Event
  PROVE  /\ upsets' \in 0..MaxUpsets /\ upsets <= upsets' /\ kept' \in BOOLEAN
         /\ kept' => kept
         /\ logins' = logins
  <1>1. CASE UNCHANGED used
    BY <1>1, BoundsAreNaturals DEF used
  <1>2. CASE Fault \/ Event
    <2>1. upsets < MaxUpsets /\ upsets' = upsets + 1 /\ logins' = logins
      BY <1>2 DEF Fault, Event, Upset
    <2>2. kept' = FALSE \/ kept' = kept
      BY <1>2 DEF Fault, Event
    <2>3. upsets' \in 0..MaxUpsets /\ upsets <= upsets'
      BY <2>1, BoundsAreNaturals
    <2>4. kept' \in BOOLEAN /\ (kept' => kept)
      <3>1. CASE kept' = FALSE
        BY <3>1
      <3>2. CASE kept' = kept
        BY <3>2
      <3>. QED
        BY <2>2, <3>1, <3>2
    <2>. QED
      BY <2>1, <2>3, <2>4
  <1>. QED
    BY <1>1, <1>2

\* The parts of the type invariant that actions leave alone together
ServerTyped == live \subseteq Token /\ cookie \in Token \union {None}
               /\ rev \in [Users -> 0..MaxUpsets] /\ doubt \subseteq Token
               /\ logins \in 0..MaxSessions /\ upsets \in 0..MaxUpsets /\ kept \in BOOLEAN
BrowserTyped == stored \in User \union {None} /\ storedWarn \in BOOLEAN /\ signal \in [Tabs -> 0..2]
ViewTyped == shown \in [Tabs -> User \union {None}]
             /\ loading \in [Tabs -> BOOLEAN] /\ warn \in [Tabs -> BOOLEAN]
CallsTyped == call \in [Tabs -> [Slots -> Call \union {None}]]
DataTyped == cache \in [Tabs -> SUBSET Users] /\ fetch \in [Tabs -> Users \union {None}]
CheckTyped == check \in [Tabs -> Check \union {None}]

LEMMA TypedParts ==
  /\ Typed <=> /\ ServerTyped /\ RevsAreEdits /\ BrowserTyped /\ ViewTyped /\ CallsTyped
               /\ DataTyped /\ CheckTyped
  BY DEF Typed, TypeOK, ServerTyped, BrowserTyped, ViewTyped, CallsTyped, DataTyped, CheckTyped

LEMMA TypedPartsPrimed ==
  /\ Typed' <=> /\ ServerTyped' /\ RevsAreEdits' /\ BrowserTyped' /\ ViewTyped' /\ CallsTyped'
                /\ DataTyped' /\ CheckTyped'
  BY TypedParts, PTL

\* Dropping the private data of a document, or all of its calls
LEMMA CleanDataTyped ==
  ASSUME DataTyped, NEW t \in Tabs, ClearPrivateData(t)
  PROVE  DataTyped'
  BY DEF ClearPrivateData, DataTyped

LEMMA UsedTyped ==
  ASSUME ServerTyped, RevsAreEdits, UNCHANGED <<live, cookie, rev, doubt>>,
         UNCHANGED used \/ Event \/ Fault
  PROVE  ServerTyped' /\ RevsAreEdits'
  <1>1. upsets \in Nat /\ \A u \in Users : rev[u] \in Nat
    BY BoundsAreNaturals DEF ServerTyped
  <1>2. upsets' \in 0..MaxUpsets /\ upsets <= upsets' /\ logins' = logins /\ kept' \in BOOLEAN
    BY UpsetCounts DEF ServerTyped
  <1>3. ServerTyped'
    BY <1>2 DEF ServerTyped
  <1>4. RevsAreEdits'
    BY <1>1, <1>2, BoundsAreNaturals DEF RevsAreEdits
  <1>. QED
    BY <1>3, <1>4

\* What the server makes of a request has its type.
LEMMA ServeTypes ==
  ASSUME ServerTyped, RevsAreEdits, CallsTyped, NEW t \in Tabs, NEW s \in Slots,
         call[t][s] # None,
         \/ ServeLogin(t, s) \/ ServeRevoke(t, s)
         \/ ServeAccount(t, s) \/ ServeFailure(t, s) \/ ServeLost(t, s)
  PROVE  /\ CallsTyped' /\ live' \subseteq Token /\ cookie' \in Token \union {None}
         /\ rev' \in [Users -> 0..MaxUpsets] /\ RevsAreEdits'
         /\ logins' \in 0..MaxSessions /\ upsets' \in 0..MaxUpsets /\ kept' \in BOOLEAN
  <1>0. /\ live \subseteq Token /\ cookie \in Token \union {None} /\ rev \in [Users -> 0..MaxUpsets]
        /\ logins \in 0..MaxSessions /\ upsets \in 0..MaxUpsets /\ kept \in BOOLEAN
        /\ call[t][s] \in Call /\ call[t][s].user \in Users
    BY DEF ServerTyped, CallsTyped, Call
  <1>a. Holder(cookie) # None => cookie.user \in Users
    BY <1>0 DEF Holder, Token
  <1>b. \A u \in Users : Projection(u) \in User
    BY <1>0 DEF Projection, User
  <1>1. ASSUME NEW state \in States, NEW got \in User \union {None}, Answer(t, s, state, got)
        PROVE  CallsTyped'
    BY <1>0, <1>1, AnswerMoves DEF CallsTyped
  <1>2. ASSUME UNCHANGED rev, UNCHANGED used \/ Fault \/ Event
        PROVE  /\ logins' \in 0..MaxSessions /\ upsets' \in 0..MaxUpsets /\ kept' \in BOOLEAN
               /\ rev' \in [Users -> 0..MaxUpsets] /\ RevsAreEdits'
    <2>1. upsets' \in 0..MaxUpsets /\ upsets <= upsets' /\ kept' \in BOOLEAN
      BY <1>0, <1>2, UpsetCounts
    <2>2. \A u \in Users : rev[u] \in Nat /\ upsets \in Nat /\ upsets' \in Nat
      BY <1>0, <2>1
    <2>3. RevsAreEdits'
      BY <1>2, <2>1, <2>2 DEF RevsAreEdits
    <2>. QED
      BY <1>0, <1>2, <2>1, <2>3, UpsetCounts
  <1>3. CASE ServeRevoke(t, s)
    BY <1>0, <1>1, <1>2, <1>3 DEF ServeRevoke, States, used, Fault, Upset
  <1>4. CASE ServeFailure(t, s) \/ ServeLost(t, s)
    BY <1>0, <1>1, <1>2, <1>4 DEF ServeFailure, ServeLost, States, used, Fault, Upset, server
  <1>5. CASE ServeLogin(t, s)
    <2>1. CallsTyped'
      BY <1>0, <1>b, <1>1, <1>5 DEF ServeLogin, States
    <2>2. logins' \in 1..MaxSessions /\ logins' = logins + 1 /\ UNCHANGED <<upsets, kept, rev>>
      BY <1>0, <1>5, BoundsAreNaturals DEF ServeLogin
    <2>3. [user |-> call[t][s].user, n |-> logins + 1] \in Token
      BY <1>0, <2>2 DEF Token
    <2>4. live' \subseteq Token /\ cookie' \in Token
      BY <1>0, <1>5, <2>3 DEF ServeLogin
    <2>5. RevsAreEdits'
      BY <2>2 DEF RevsAreEdits
    <2>. QED
      BY <1>0, <2>1, <2>2, <2>4, <2>5, BoundsAreNaturals
  <1>6. CASE ServeAccount(t, s)
    <2>1. CASE UNCHANGED <<live, rev, used>> /\ Answer(t, s, "denied", None)
      BY <1>0, <1>1, <1>2, <1>6, <2>1 DEF ServeAccount, States
    <2>2. CASE UNCHANGED <<rev, used>> /\ Answer(t, s, "ok", None)
               /\ live' = {l \in live : l.user # cookie.user}
      BY <1>0, <1>1, <1>2, <1>6, <2>2 DEF ServeAccount, States
    <2>3. CASE /\ Holder(cookie) # None
               /\ Event
               /\ rev' = [rev EXCEPT ![cookie.user] = @ + 1]
               /\ Answer(t, s, "ok", [id |-> cookie.user, rev |-> rev[cookie.user] + 1])
               /\ UNCHANGED live
      <3>1. upsets < MaxUpsets /\ upsets' = upsets + 1 /\ logins' = logins /\ kept' = kept
        BY <2>3 DEF Event, Upset
      <3>2. /\ cookie.user \in Users
            /\ \A u \in Users : rev[u] \in Nat /\ rev[u] <= upsets
        BY <1>0, <1>a, <2>3 DEF RevsAreEdits
      <3>3. \A u \in Users : rev'[u] \in 0..MaxUpsets /\ rev'[u] <= upsets'
        BY <1>0, <2>3, <3>1, <3>2, BoundsAreNaturals
      <3>4. rev[cookie.user] + 1 \in 0..MaxUpsets
        BY <1>0, <3>1, <3>2, BoundsAreNaturals
      <3>5. [id |-> cookie.user, rev |-> rev[cookie.user] + 1] \in User
        BY <3>2, <3>4 DEF User
      <3>6. CallsTyped'
        BY <1>1, <2>3, <3>5 DEF States
      <3>7. rev' \in [Users -> 0..MaxUpsets]
        BY <1>0, <2>3, <3>3
      <3>. QED
        BY <1>0, <1>6, <2>3, <3>1, <3>3, <3>6, <3>7, BoundsAreNaturals DEF ServeAccount, RevsAreEdits
    <2>. QED
      BY <1>6, <2>1, <2>2, <2>3 DEF ServeAccount
  <1>. QED
    BY <1>3, <1>4, <1>5, <1>6

LEMMA TypeStep ==
  ASSUME Typed, [Next]_vars
  PROVE  Typed'
  <1>0. /\ ServerTyped /\ RevsAreEdits /\ BrowserTyped /\ ViewTyped /\ CallsTyped
        /\ DataTyped /\ CheckTyped
    BY TypedParts
  <1>1. ASSUME NEW t \in Tabs, HandleStorage(t)
        PROVE  Typed'
    <2>1. ServerTyped' /\ RevsAreEdits' /\ CallsTyped'
      BY <1>0, <1>1, UsedTyped DEF HandleStorage, server, CallsTyped
    <2>2. BrowserTyped' /\ ViewTyped' /\ CheckTyped'
      BY <1>0, <1>1 DEF HandleStorage, BrowserTyped, ViewTyped, CheckTyped, BeginCheck, Check, ShowUser
    <2>3. DataTyped'
      BY <1>0, <1>1, CleanDataTyped DEF HandleStorage
    <2>. QED
      BY <2>1, <2>2, <2>3, TypedPartsPrimed
  <1>2. ASSUME NEW t \in Tabs, HandleVisibility(t)
        PROVE  Typed'
    <2>1. ServerTyped' /\ RevsAreEdits'
      BY <1>0, <1>2, UsedTyped DEF HandleVisibility, server
    <2>2. BrowserTyped' /\ ViewTyped' /\ CallsTyped' /\ DataTyped' /\ CheckTyped'
      BY <1>0, <1>2 DEF HandleVisibility, BrowserTyped, ViewTyped, CheckTyped, CallsTyped, DataTyped,
         BeginCheck, Check, browser, data
    <2>. QED
      BY <2>1, <2>2, TypedPartsPrimed
  <1>3. ASSUME NEW t \in Tabs, ServeCheck(t)
        PROVE  Typed'
    <2>1. ServerTyped' /\ RevsAreEdits'
      BY <1>0, <1>3, UsedTyped DEF ServeCheck, server
    <2>2. BrowserTyped' /\ ViewTyped' /\ CallsTyped' /\ DataTyped'
      BY <1>0, <1>3 DEF ServeCheck, BrowserTyped, ViewTyped, CallsTyped, DataTyped, browser, view, data
    <2>3. CheckTyped'
      <3>1. PICK lost \in BOOLEAN : check' = [check EXCEPT ![t] =
             [answered |-> TRUE,
              got |-> IF lost \/ Holder(cookie) = None THEN None
                      ELSE Projection(Holder(cookie))]]
        BY <1>3 DEF ServeCheck
      <3>2. [answered |-> TRUE,
              got |-> IF lost \/ Holder(cookie) = None THEN None
                      ELSE Projection(Holder(cookie))] \in Check
        BY HolderIsUser DEF Check
      <3>. QED
        BY <1>0, <3>1, <3>2 DEF CheckTyped
    <2>. QED
      BY <2>1, <2>2, <2>3, TypedPartsPrimed
  <1>4. ASSUME NEW t \in Tabs, FinishCheck(t)
        PROVE  Typed'
    <2>0. check[t].got \in User \union {None}
      BY <1>0, <1>4 DEF FinishCheck, CheckTyped, Check
    <2>1. ServerTyped' /\ RevsAreEdits' /\ CallsTyped'
      BY <1>0, <1>4, UsedTyped DEF FinishCheck, server, CallsTyped
    <2>2. BrowserTyped'
      BY <1>0, <1>4, <2>0, StorageTypes DEF FinishCheck, BrowserTyped
    <2>3. ViewTyped' /\ CheckTyped'
      BY <1>0, <1>4, <2>0 DEF FinishCheck, ViewTyped, CheckTyped, Outdate, ShowUser
    <2>4. DataTyped'
      <3>1. ClearPrivateData(t) \/ UNCHANGED data
        BY <1>4 DEF FinishCheck
      <3>. QED
        BY <1>0, <3>1, CleanDataTyped DEF data, DataTyped
    <2>. QED
      BY <2>1, <2>2, <2>3, <2>4, TypedPartsPrimed
  <1>5. ASSUME NEW t \in Tabs, Submit(t) \/ ClickLogout(t) \/ ChangePassword(t) \/ EditAccount(t)
        PROVE  Typed'
    <2>1. \E kind \in Kinds, u \in Users : Send(t, kind, u, "sent")
      <3>1. ASSUME ShowsApp(t)
            PROVE  shown[t].id \in Users
        BY <1>0, <3>1 DEF ShowsApp, ViewTyped, User
      <3>. QED
        BY <1>5, <3>1 DEF Submit, ClickLogout, ChangePassword, EditAccount, Kinds
    <2>2. CallsTyped'
      <3>1. PICK kind \in Kinds, u \in Users, s \in Slots :
               call' = [call EXCEPT ![t][s] = [kind |-> kind, user |-> u, state |-> "sent", got |-> None]]
        BY <2>1 DEF Send, Free
      <3>2. [kind |-> kind, user |-> u, state |-> "sent", got |-> None] \in Call
        BY DEF Call, States
      <3>. QED
        BY <1>0, <3>1, <3>2, CallMoves DEF CallsTyped
    <2>3. ServerTyped' /\ RevsAreEdits'
      BY <1>0, <1>5, UsedTyped DEF Submit, ClickLogout, ChangePassword, EditAccount, server
    <2>4. BrowserTyped' /\ ViewTyped' /\ DataTyped' /\ CheckTyped'
      BY <1>0, <1>5 DEF Submit, ClickLogout, ChangePassword, EditAccount, BrowserTyped, ViewTyped,
         DataTyped, CheckTyped, browser, view, data
    <2>. QED
      BY <2>2, <2>3, <2>4, TypedPartsPrimed
  <1>6. ASSUME NEW t \in Tabs, TimerFires(t)
        PROVE  Typed'
    <2>1. CallsTyped'
      <3>1. PICK s \in Slots : /\ call[t][s] # None
                               /\ call' = [call EXCEPT ![t][s].state = "sent"]
        BY <1>6 DEF TimerFires
      <3>2. call[t][s] \in Call
        BY <1>0, <3>1 DEF CallsTyped
      <3>3. [call[t][s] EXCEPT !.state = "sent"] \in Call
        BY <3>2 DEF Call, States
      <3>4. call' = [call EXCEPT ![t][s] = [call[t][s] EXCEPT !.state = "sent"]]
        BY <3>1
      <3>. QED
        BY <1>0, <3>3, <3>4, CallMoves DEF CallsTyped
    <2>2. UNCHANGED <<server, browser, view, check, data, doubt, used>>
      BY <1>6 DEF TimerFires
    <2>3. ServerTyped' /\ RevsAreEdits'
      BY <1>0, <2>2, UsedTyped DEF server
    <2>4. BrowserTyped' /\ ViewTyped' /\ DataTyped' /\ CheckTyped'
      BY <1>0, <2>2 DEF BrowserTyped, ViewTyped, DataTyped, CheckTyped, browser, view, data
    <2>. QED
      BY <2>1, <2>3, <2>4, TypedPartsPrimed
  <1>7. ASSUME NEW t \in Tabs, Serve(t)
        PROVE  Typed'
    <2>1. PICK s \in Slots :
            /\ call[t][s] # None /\ call[t][s].state = "sent"
            /\ \/ ServeLogin(t, s) \/ ServeRevoke(t, s)
               \/ ServeAccount(t, s) \/ ServeFailure(t, s) \/ ServeLost(t, s)
            /\ doubt' \subseteq live' \intersect (doubt \union {cookie})
            /\ UNCHANGED <<browser, view, check, data>>
      BY <1>7 DEF Serve
    <2>2. BrowserTyped' /\ ViewTyped' /\ DataTyped' /\ CheckTyped'
      BY <1>0, <2>1 DEF BrowserTyped, ViewTyped, DataTyped, CheckTyped, browser, view, data
    <2>3. /\ CallsTyped' /\ live' \subseteq Token /\ cookie' \in Token \union {None}
          /\ rev' \in [Users -> 0..MaxUpsets] /\ RevsAreEdits'
          /\ logins' \in 0..MaxSessions /\ upsets' \in 0..MaxUpsets /\ kept' \in BOOLEAN
      BY <1>0, <2>1, ServeTypes
    <2>4. ServerTyped'
      BY <2>1, <2>3 DEF ServerTyped
    <2>. QED
      BY <2>2, <2>3, <2>4, TypedPartsPrimed
  <1>8. ASSUME NEW t \in Tabs, Continue(t)
        PROVE  Typed'
    <2>1. PICK s \in Slots : \/ FinishLogin(t, s) \/ FinishRecoverLogin(t, s) \/ FinishRevoke(t, s)
                             \/ FinishPassword(t, s) \/ FinishEdit(t, s)
      BY <1>8 DEF Continue
    <2>2. call[t][s] # None /\ call[t][s] \in Call
      BY <1>0, <2>1 DEF FinishLogin, FinishRecoverLogin, FinishRevoke, FinishPassword, FinishEdit,
                        Ready, CallsTyped
    <2>3. ServerTyped' /\ RevsAreEdits'
      BY <1>0, <2>1, UsedTyped DEF FinishLogin, FinishRecoverLogin, FinishRevoke, FinishPassword,
                                   FinishEdit, server
    <2>4. CallsTyped'
      <3>1. \/ Done(t, s) \/ Follow(t, s, "recoverRevoke", "sent") \/ Follow(t, s, "logout", "waiting")
        BY <2>1 DEF FinishLogin, FinishRecoverLogin, FinishRevoke, FinishPassword, FinishEdit
      <3>2. "recoverRevoke" \in Kinds /\ "logout" \in Kinds /\ "sent" \in States /\ "waiting" \in States
        BY DEF Kinds, States
      <3>3. Done(t, s) => CallsTyped'
        BY <1>0, CallMoves DEF Done, CallsTyped
      <3>4. ASSUME NEW kind \in Kinds, NEW state \in States, Follow(t, s, kind, state)
            PROVE  CallsTyped'
        BY <1>0, <2>2, <3>4, FollowMoves DEF CallsTyped
      <3>. QED
        BY <3>1, <3>2, <3>3, <3>4
    <2>5. call[t][s].got \in User \union {None}
      BY <2>2 DEF Call
    <2>6. CheckTyped'
      BY <1>0, <2>1 DEF FinishLogin, FinishRecoverLogin, FinishRevoke, FinishPassword, FinishEdit,
                        Outdate, CheckTyped
    <2>7. DataTyped'
      <3>1. ClearPrivateData(t) \/ UNCHANGED data
        BY <2>1 DEF FinishLogin, FinishRecoverLogin, FinishRevoke, FinishPassword, FinishEdit
      <3>. QED
        BY <1>0, <3>1, CleanDataTyped DEF data, DataTyped
    <2>8. BrowserTyped'
      <3>1. \/ \E p \in User \union {None} : WriteStoredUser(t, p)
            \/ \E warning : ClearStored(t, warning)
            \/ UNCHANGED browser
        BY <2>1, <2>5 DEF FinishLogin, FinishRecoverLogin, FinishRevoke, FinishPassword, FinishEdit
      <3>. QED
        BY <1>0, <3>1, StorageTypes DEF browser, BrowserTyped
    <2>9. ViewTyped'
      <3>1. CASE FinishLogin(t, s)
        BY <1>0, <2>5, <3>1 DEF FinishLogin, view, ViewTyped, ShowUser
      <3>2. CASE FinishRevoke(t, s)
        BY <1>0, <3>2 DEF FinishRevoke, ViewTyped, ShowUser
      <3>3. CASE FinishEdit(t, s)
        BY <1>0, <2>5, <3>3 DEF FinishEdit, ViewTyped, ShowUser
      <3>4. CASE UNCHANGED view
        BY <1>0, <3>4 DEF view, ViewTyped
      <3>. QED
        BY <2>1, <3>1, <3>2, <3>3, <3>4 DEF FinishRecoverLogin, FinishPassword
    <2>. QED
      BY <2>3, <2>4, <2>6, <2>7, <2>8, <2>9, TypedPartsPrimed
  <1>9. ASSUME NEW t \in Tabs, ServeQuery(t) \/ FinishQuery(t)
        PROVE  Typed'
    <2>1. UNCHANGED <<server, browser, view, check, call, doubt, used>>
      BY <1>9 DEF ServeQuery, FinishQuery
    <2>2. ServerTyped' /\ RevsAreEdits'
      BY <1>0, <2>1, UsedTyped DEF server
    <2>3. BrowserTyped' /\ ViewTyped' /\ CallsTyped' /\ CheckTyped'
      BY <1>0, <2>1 DEF BrowserTyped, ViewTyped, CallsTyped, CheckTyped, browser, view
    <2>4. DataTyped'
      BY <1>0, <1>9, HolderIsUser DEF ServeQuery, FinishQuery, DataTyped
    <2>. QED
      BY <2>2, <2>3, <2>4, TypedPartsPrimed
  <1>10. ASSUME Expire
         PROVE  Typed'
    <2>1. /\ live' \subseteq live /\ UNCHANGED <<cookie, rev, browser, view, check, call, data, doubt>>
          /\ upsets' \in 0..MaxUpsets /\ upsets <= upsets' /\ logins' = logins /\ kept' \in BOOLEAN
      BY <1>0, <1>10, UpsetCounts DEF Expire, ServerTyped
    <2>2. ServerTyped'
      BY <1>0, <2>1 DEF ServerTyped
    <2>3. RevsAreEdits'
      BY <1>0, <2>1, BoundsAreNaturals DEF RevsAreEdits, ServerTyped
    <2>4. BrowserTyped' /\ ViewTyped' /\ CallsTyped' /\ CheckTyped' /\ DataTyped'
      BY <1>0, <2>1 DEF BrowserTyped, ViewTyped, CallsTyped, CheckTyped, DataTyped, browser, view, data
    <2>. QED
      BY <2>2, <2>3, <2>4, TypedPartsPrimed
  <1>11. ASSUME NEW t \in Tabs, Reload(t)
         PROVE  Typed'
    <2>1. ServerTyped' /\ RevsAreEdits'
      BY <1>0, <1>11, UsedTyped DEF Reload, server
    <2>2. BrowserTyped' /\ ViewTyped' /\ CheckTyped'
      BY <1>0, <1>11 DEF Reload, BrowserTyped, ViewTyped, CheckTyped, BeginCheck, Check, ShowUser
    <2>3. CallsTyped'
      BY <1>0, <1>11 DEF Reload, CallsTyped, NoCalls
    <2>4. DataTyped'
      BY <1>0, <1>11, CleanDataTyped DEF Reload
    <2>. QED
      BY <2>1, <2>2, <2>3, <2>4, TypedPartsPrimed
  <1>12. ASSUME UNCHANGED vars
         PROVE  Typed'
    BY <1>0, <1>12, TypedPartsPrimed DEF vars, server, browser, view, data, used, ServerTyped,
       RevsAreEdits, BrowserTyped, ViewTyped, CallsTyped, DataTyped, CheckTyped
  <1>. QED
    BY <1>1, <1>2, <1>3, <1>4, <1>5, <1>6, <1>7, <1>8, <1>9, <1>10, <1>11, <1>12
       DEF Next, Progress, Choice

LEMMA InitTyped ==
  ASSUME Init
  PROVE  Typed
  <1>1. 0 \in 0..MaxUpsets /\ 0 \in 0..MaxSessions
    BY BoundsAreNaturals
  <1>2. ServerTyped /\ RevsAreEdits
    BY <1>1 DEF Init, ServerTyped, RevsAreEdits
  <1>3. BrowserTyped
    <2>1. signal \in [Tabs -> 0..2]
      BY DEF Init
    <2>2. stored = None /\ storedWarn = FALSE
      BY DEF Init
    <2>. QED
      BY <2>1, <2>2 DEF BrowserTyped
  <1>6. DataTyped
    BY DEF Init, DataTyped
  <1>5. ViewTyped
    BY DEF Init, ViewTyped
  <1>4. CallsTyped /\ CheckTyped
    BY DEF Init, CallsTyped, CheckTyped, NoCalls, Check
  <1>. QED
    BY <1>2, <1>3, <1>4, <1>5, <1>6, TypedParts

\* Every variable of the session has its type, for any number of documents.
THEOREM SessionTyped == Spec => []TypeOK
  <1>1. Init => Typed
    BY InitTyped
  <1>2. Typed /\ [Next]_vars => Typed'
    BY TypeStep
  <1>3. Typed => TypeOK
    BY DEF Typed
  <1>. QED
    BY <1>1, <1>2, <1>3, PTL DEF Spec

----------------------------------------------------------------------------
\* The documents and localStorage

\* A document without a storage event to handle shows what is stored, or is
\* about to learn it from a check; and it waits only for a check under way.
DocumentAgrees(t) ==
  /\ signal[t] = 0 =>
       /\ shown[t] # None => stored = shown[t]
       /\ shown[t] = None /\ check[t] = None => stored = None
       /\ warn[t] = storedWarn
  /\ loading[t] => check[t] # None

DocumentsAgree == \A t \in Tabs : DocumentAgrees(t)


\* What a write to localStorage leaves of what another document knows
LEMMA WriteMoves ==
  ASSUME BrowserTyped, NEW t \in Tabs
  PROVE  /\ \A p \in User \union {None} : WriteStoredUser(t, p) =>
               /\ stored' = p /\ storedWarn' = storedWarn /\ signal'[t] = signal[t]
               /\ \A s \in Tabs \ {t} : /\ signal[s] > 0 => signal'[s] > 0
                                        /\ signal'[s] > 0 \/ (stored' = stored)
         /\ \A warning \in {"kept", "written", "removed"} : ClearStored(t, warning) =>
               /\ stored' = None /\ signal'[t] = signal[t]
               /\ storedWarn' = IF warning = "kept" THEN storedWarn ELSE warning = "written"
               /\ \A s \in Tabs \ {t} :
                    /\ signal[s] > 0 => signal'[s] > 0
                    /\ signal'[s] > 0 \/ (stored' = stored /\ storedWarn' = storedWarn)
  <1>1. ASSUME NEW p \in User \union {None}, WriteStoredUser(t, p)
        PROVE  /\ stored' = p /\ storedWarn' = storedWarn /\ signal'[t] = signal[t]
               /\ \A s \in Tabs \ {t} : /\ signal[s] > 0 => signal'[s] > 0
                                        /\ signal'[s] > 0 \/ (stored' = stored)
    BY <1>1, ChangeIsSignalled DEF WriteStoredUser, BrowserTyped
  <1>2. ASSUME NEW warning \in {"kept", "written", "removed"}, ClearStored(t, warning)
        PROVE  /\ stored' = None /\ signal'[t] = signal[t]
               /\ storedWarn' = IF warning = "kept" THEN storedWarn ELSE warning = "written"
               /\ \A s \in Tabs \ {t} :
                    /\ signal[s] > 0 => signal'[s] > 0
                    /\ signal'[s] > 0 \/ (stored' = stored /\ storedWarn' = storedWarn)
    <2>1. /\ stored' = None
          /\ storedWarn' = IF warning = "kept" THEN storedWarn ELSE warning = "written"
          /\ Changed(t, \/ stored # None
                        \/ warning = "written"
                        \/ warning = "removed" /\ storedWarn)
      BY <1>2 DEF ClearStored
    <2>2. /\ signal'[t] = signal[t]
          /\ \A s \in Tabs \ {t} :
               /\ signal[s] > 0 => signal'[s] > 0
               /\ \/ stored # None
                  \/ warning = "written"
                  \/ warning = "removed" /\ storedWarn
                  => signal'[s] > 0
      BY <2>1, ChangeIsSignalled DEF BrowserTyped
    <2>3. \/ stored # None
          \/ warning = "written"
          \/ warning = "removed" /\ storedWarn
          \/ stored' = stored /\ storedWarn' = storedWarn
      <3>1. CASE warning = "kept"
        BY <2>1, <3>1
      <3>2. CASE warning = "removed" /\ ~storedWarn
        BY <2>1, <3>2 DEF BrowserTyped
      <3>. QED
        BY <3>1, <3>2
    <2>. QED
      BY <2>1, <2>2, <2>3
  <1>. QED
    BY <1>1, <1>2

\* A check under way is a check.
LEMMA CheckIsThere ==
  ASSUME NEW answered \in BOOLEAN, NEW got \in User \union {None}
  PROVE  [answered |-> answered, got |-> got] # None
  BY NoneIsNoValue DEF Check

\* A document that does not act knows as much as before of what is stored,
\* or it has been signalled.
LEMMA OnlookerAgrees ==
  ASSUME NEW s \in Tabs, DocumentAgrees(s), signal \in [Tabs -> 0..2], signal' \in [Tabs -> 0..2],
         shown'[s] = shown[s], check'[s] = check[s], loading'[s] = loading[s], warn'[s] = warn[s],
         signal[s] > 0 => signal'[s] > 0,
         signal'[s] > 0 \/ (stored' = stored /\ storedWarn' = storedWarn)
  PROVE  DocumentAgrees(s)'
  BY DEF DocumentAgrees

\* What holds of the acting document and of every onlooker holds of all.
LEMMA ActorAgrees ==
  ASSUME Typed, Typed', DocumentsAgree, NEW t \in Tabs, DocumentAgrees(t)',
         \A s \in Tabs \ {t} :
            /\ shown'[s] = shown[s] /\ check'[s] = check[s]
            /\ loading'[s] = loading[s] /\ warn'[s] = warn[s]
            /\ signal[s] > 0 => signal'[s] > 0
            /\ signal'[s] > 0 \/ (stored' = stored /\ storedWarn' = storedWarn)
  PROVE  DocumentsAgree'
  <1>. SUFFICES ASSUME NEW s \in Tabs
                PROVE  DocumentAgrees(s)'
    BY DEF DocumentsAgree
  <1>1. CASE s = t
    BY <1>1
  <1>2. CASE s # t
    BY <1>2, OnlookerAgrees, TypedParts, TypedPartsPrimed DEF DocumentsAgree, BrowserTyped
  <1>. QED
    BY <1>1, <1>2

LEMMA AgreementStep ==
  ASSUME Typed, Typed', DocumentsAgree, [Next]_vars
  PROVE  DocumentsAgree'
  <1>0. /\ BrowserTyped /\ ViewTyped /\ CallsTyped /\ CheckTyped
        /\ \A t \in Tabs : DocumentAgrees(t)
    BY TypedParts DEF DocumentsAgree
  <1>1. ASSUME NEW t \in Tabs, HandleStorage(t)
        PROVE  DocumentsAgree'
    <2>1. DocumentAgrees(t)'
      BY CheckIsThere, <1>0, <1>1 DEF HandleStorage, BeginCheck, ShowUser, DocumentAgrees, ViewTyped, CheckTyped
    <2>2. \A s \in Tabs \ {t} : /\ shown'[s] = shown[s] /\ check'[s] = check[s]
                                /\ loading'[s] = loading[s] /\ warn'[s] = warn[s]
                                /\ signal'[s] = signal[s]
      BY <1>0, <1>1 DEF HandleStorage, BeginCheck, ShowUser, BrowserTyped, ViewTyped, CheckTyped
    <2>. QED
      BY <1>1, <2>1, <2>2, ActorAgrees DEF HandleStorage
  <1>2. ASSUME NEW t \in Tabs, HandleVisibility(t)
        PROVE  DocumentsAgree'
    <2>1. DocumentAgrees(t)'
      BY CheckIsThere, <1>0, <1>2 DEF HandleVisibility, BeginCheck, DocumentAgrees, ViewTyped, CheckTyped, browser
    <2>2. \A s \in Tabs \ {t} : /\ shown'[s] = shown[s] /\ check'[s] = check[s]
                                /\ loading'[s] = loading[s] /\ warn'[s] = warn[s]
                                /\ signal'[s] = signal[s]
      BY <1>0, <1>2 DEF HandleVisibility, BeginCheck, browser, ViewTyped, CheckTyped
    <2>. QED
      BY <1>2, <2>1, <2>2, ActorAgrees DEF HandleVisibility, browser
  <1>3. ASSUME NEW t \in Tabs, ServeCheck(t)
        PROVE  DocumentsAgree'
    <2>1. PICK c : c # None /\ check' = [check EXCEPT ![t] = c]
      <3>1. PICK lost \in BOOLEAN : check' = [check EXCEPT ![t] =
             [answered |-> TRUE,
              got |-> IF lost \/ Holder(cookie) = None THEN None
                      ELSE Projection(Holder(cookie))]]
        BY <1>3 DEF ServeCheck
      <3>2. (IF lost \/ Holder(cookie) = None THEN None ELSE Projection(Holder(cookie)))
               \in User \union {None}
        BY HolderIsUser
      <3>. QED
        BY <3>1, <3>2, CheckIsThere
    <2>2. check[t] # None /\ UNCHANGED <<browser, view>>
      BY <1>3 DEF ServeCheck
    <2>. QED
      BY <1>0, <2>1, <2>2, ActorAgrees DEF browser, view, CheckTyped, DocumentAgrees
  <1>4. ASSUME NEW t \in Tabs, FinishCheck(t)
        PROVE  DocumentsAgree'
    <2>1. check[t].got \in User \union {None}
      BY <1>0, <1>4 DEF FinishCheck, CheckTyped, Check
    <2>2. /\ stored' = check[t].got /\ storedWarn' = storedWarn /\ signal'[t] = signal[t]
          /\ \A s \in Tabs \ {t} :
                /\ signal[s] > 0 => signal'[s] > 0
                /\ signal'[s] > 0 \/ (stored' = stored /\ storedWarn' = storedWarn)
      BY <1>0, <1>4, <2>1, WriteMoves DEF FinishCheck
    <2>3. /\ shown' = [shown EXCEPT ![t] = check[t].got]
          /\ check' = [check EXCEPT ![t] = None]
          /\ loading' = [loading EXCEPT ![t] = FALSE]
          /\ warn' = warn
      BY <1>4 DEF FinishCheck, ShowUser, Outdate
    <2>4. DocumentAgrees(t)'
      BY <1>0, <2>2, <2>3 DEF DocumentAgrees, ViewTyped, CheckTyped
    <2>5. \A s \in Tabs \ {t} : /\ shown'[s] = shown[s] /\ check'[s] = check[s]
                                /\ loading'[s] = loading[s] /\ warn'[s] = warn[s]
      BY <1>0, <2>3 DEF ViewTyped, CheckTyped
    <2>. QED
      BY <2>2, <2>4, <2>5, ActorAgrees
  <1>5. ASSUME NEW t \in Tabs, NEW s \in Slots, FinishLogin(t, s), call[t][s].state = "ok"
        PROVE  DocumentsAgree'
    <2>1. call[t][s].got \in User \union {None}
      BY <1>0, <1>5 DEF FinishLogin, Ready, CallsTyped, Call
    <2>2. /\ stored' = call[t][s].got /\ storedWarn' = storedWarn /\ signal'[t] = signal[t]
          /\ \A r \in Tabs \ {t} :
                /\ signal[r] > 0 => signal'[r] > 0
                /\ signal'[r] > 0 \/ (stored' = stored /\ storedWarn' = storedWarn)
      BY <1>0, <1>5, <2>1, WriteMoves DEF FinishLogin
    <2>3. /\ shown' = [shown EXCEPT ![t] = call[t][s].got]
          /\ check' = [check EXCEPT ![t] = None]
          /\ loading' = [loading EXCEPT ![t] = FALSE]
          /\ warn' = warn
      BY <1>5 DEF FinishLogin, ShowUser, Outdate
    <2>4. DocumentAgrees(t)'
      BY <1>0, <2>2, <2>3 DEF DocumentAgrees, ViewTyped, CheckTyped
    <2>5. \A r \in Tabs \ {t} : /\ shown'[r] = shown[r] /\ check'[r] = check[r]
                                /\ loading'[r] = loading[r] /\ warn'[r] = warn[r]
      BY <1>0, <2>3 DEF ViewTyped, CheckTyped
    <2>. QED
      BY <2>2, <2>4, <2>5, ActorAgrees
  <1>6. ASSUME NEW t \in Tabs, NEW s \in Slots, FinishRevoke(t, s)
        PROVE  DocumentsAgree'
    <2>1. PICK warning \in {"written", "removed"} :
              /\ ClearStored(t, warning)
              /\ warn' = [warn EXCEPT ![t] = (warning = "written")]
      BY <1>6 DEF FinishRevoke
    <2>2. /\ stored' = None /\ storedWarn' = (warning = "written") /\ signal'[t] = signal[t]
          /\ \A r \in Tabs \ {t} :
                /\ signal[r] > 0 => signal'[r] > 0
                /\ signal'[r] > 0 \/ (stored' = stored /\ storedWarn' = storedWarn)
      BY <1>0, <2>1, WriteMoves
    <2>3. /\ shown' = [shown EXCEPT ![t] = None]
          /\ check' = [check EXCEPT ![t] = None]
          /\ loading' = [loading EXCEPT ![t] = FALSE]
      BY <1>6 DEF FinishRevoke, ShowUser, Outdate
    <2>4. DocumentAgrees(t)'
      BY <1>0, <2>1, <2>2, <2>3 DEF DocumentAgrees, ViewTyped, CheckTyped
    <2>5. \A r \in Tabs \ {t} : /\ shown'[r] = shown[r] /\ check'[r] = check[r]
                                /\ loading'[r] = loading[r] /\ warn'[r] = warn[r]
      BY <1>0, <2>1, <2>3 DEF ViewTyped, CheckTyped
    <2>. QED
      BY <2>2, <2>4, <2>5, ActorAgrees
  <1>7. ASSUME NEW t \in Tabs, NEW s \in Slots, FinishEdit(t, s)
        PROVE  DocumentsAgree'
    <2>1. CASE call[t][s].got # None /\ shown[t] # None /\ shown[t].id = call[t][s].got.id
      <3>1. call[t][s].got \in User
        BY <1>0, <1>7, <2>1 DEF FinishEdit, Ready, CallsTyped, Call
      <3>2. /\ stored' = call[t][s].got /\ storedWarn' = storedWarn /\ signal'[t] = signal[t]
            /\ \A r \in Tabs \ {t} :
                  /\ signal[r] > 0 => signal'[r] > 0
                  /\ signal'[r] > 0 \/ (stored' = stored /\ storedWarn' = storedWarn)
        BY <1>0, <1>7, <2>1, <3>1, WriteMoves DEF FinishEdit
      <3>3. /\ shown' = [shown EXCEPT ![t] = call[t][s].got]
            /\ UNCHANGED <<loading, warn, check>>
        BY <1>7, <2>1 DEF FinishEdit, ShowUser
      <3>4. DocumentAgrees(t)'
        BY <1>0, <2>1, <3>2, <3>3 DEF DocumentAgrees, ViewTyped
      <3>5. \A r \in Tabs \ {t} : /\ shown'[r] = shown[r] /\ check'[r] = check[r]
                                  /\ loading'[r] = loading[r] /\ warn'[r] = warn[r]
        BY <1>0, <3>3 DEF ViewTyped
      <3>. QED
        BY <3>2, <3>4, <3>5, ActorAgrees
    <2>2. CASE ~(call[t][s].got # None /\ shown[t] # None /\ shown[t].id = call[t][s].got.id)
      BY <1>7, <2>2 DEF FinishEdit, DocumentsAgree, DocumentAgrees, browser
    <2>. QED
      BY <2>1, <2>2
  <1>8. ASSUME NEW t \in Tabs, Reload(t)
        PROVE  DocumentsAgree'
    <2>1. DocumentAgrees(t)'
      BY CheckIsThere, <1>0, <1>8 DEF Reload, BeginCheck, ShowUser, DocumentAgrees, ViewTyped, CheckTyped
    <2>2. \A s \in Tabs \ {t} : /\ shown'[s] = shown[s] /\ check'[s] = check[s]
                                /\ loading'[s] = loading[s] /\ warn'[s] = warn[s]
                                /\ signal'[s] = signal[s]
      BY <1>0, <1>8 DEF Reload, BeginCheck, ShowUser, BrowserTyped, ViewTyped, CheckTyped
    <2>. QED
      BY <1>8, <2>1, <2>2, ActorAgrees DEF Reload
  <1>9. ASSUME UNCHANGED <<browser, view, check>>
        PROVE  DocumentsAgree'
    BY <1>9 DEF DocumentsAgree, DocumentAgrees, browser, view
  <1>10. ASSUME NEW t \in Tabs, Continue(t)
         PROVE  DocumentsAgree'
    <2>1. PICK s \in Slots : \/ FinishLogin(t, s) \/ FinishRecoverLogin(t, s) \/ FinishRevoke(t, s)
                             \/ FinishPassword(t, s) \/ FinishEdit(t, s)
      BY <1>10 DEF Continue
    <2>2. FinishLogin(t, s) /\ call[t][s].state # "ok" => UNCHANGED <<browser, view, check>>
      BY DEF FinishLogin
    <2>. QED
      BY <1>5, <1>6, <1>7, <1>9, <2>1, <2>2 DEF FinishRecoverLogin, FinishPassword
  <1>11. ASSUME NEW t \in Tabs, \/ Submit(t) \/ ClickLogout(t) \/ ChangePassword(t) \/ EditAccount(t)
                                \/ TimerFires(t) \/ Serve(t) \/ ServeQuery(t) \/ FinishQuery(t)
         PROVE  UNCHANGED <<browser, view, check>>
    BY <1>11 DEF Submit, ClickLogout, ChangePassword, EditAccount, TimerFires, Serve, ServeQuery,
       FinishQuery
  <1>12. Expire \/ UNCHANGED vars => UNCHANGED <<browser, view, check>>
    BY DEF Expire, vars
  <1>. QED
    BY <1>1, <1>2, <1>3, <1>4, <1>8, <1>9, <1>10, <1>11, <1>12 DEF Next, Progress, Choice

LEMMA InitAgrees ==
  ASSUME Init
  PROVE  DocumentsAgree
  BY CheckIsThere DEF Init, DocumentsAgree, DocumentAgrees

\* Once everything is worked off, every document shows the warning that is
\* stored, for any number of documents and of calls under way in each.
THEOREM WarningIsShared == Spec => []WarningAgrees
  <1>1. Init => Typed /\ DocumentsAgree
    BY InitTyped, InitAgrees
  <1>2. Typed /\ DocumentsAgree /\ [Next]_vars => (Typed /\ DocumentsAgree)'
    BY TypeStep, AgreementStep
  <1>3. Typed /\ DocumentsAgree => WarningAgrees
    <2>. SUFFICES ASSUME Typed, DocumentsAgree, Told, NEW t \in Tabs
                  PROVE  ShowsWarning(t) = storedWarn
      BY DEF WarningAgrees
    <2>1. ~loading[t] /\ warn[t] = storedWarn
      BY DEF Told, DocumentsAgree, DocumentAgrees
    <2>. QED
      BY <2>1, TypedParts DEF ShowsWarning, ViewTyped
  <1>. QED
    BY <1>1, <1>2, <1>3, PTL DEF Spec

----------------------------------------------------------------------------
\* The document the cookie was last changed for

Answered(c) == c.state \in {"ok", "denied", "failed"}

\* An answer of a document that its continuation will write to localStorage
Decides(c) ==
  \/ c.kind = "recoverRevoke"
  \/ c.kind = "logout" /\ Answered(c)
  \/ c.kind \in {"login", "recoverLogin"} /\ c.state = "ok"
Acts(t) == \E s \in Slots : call[t][s] # None /\ Decides(call[t][s])

\* A projection of the cookie's account
IsOurs(p) == p # None => cookie # None /\ p.id = cookie.user
SignedOut == kept => cookie \notin live

\* What localStorage should say of the cookie
Agrees == IsOurs(stored) /\ (stored = None => SignedOut)

FreshCalls(t) ==
  \A s \in Slots :
    call[t][s] # None =>
      LET c == call[t][s] IN
      /\ IsOurs(c.got)
      /\ c.kind \in {"logout", "recoverRevoke"} /\ Answered(c) => SignedOut
      /\ c.kind \in {"login", "recoverLogin"} /\ c.state = "ok" => c.got # None

FreshCheck(t) ==
  check[t] # None /\ check[t].answered =>
    \/ Acts(t)
    \/ IsOurs(check[t].got) /\ (check[t].got = None => SignedOut)

Leads(t) ==
  /\ FreshCalls(t)
  /\ FreshCheck(t)
  /\ Acts(t) \/ signal[t] > 0 \/ check[t] # None \/ Agrees

OneLeads == Tabs # {} => \E t \in Tabs : Leads(t)

\* A document makes one call at a time.  With more, the order in which the
\* continuations of several answered calls run matters: the browser runs
\* them as they were answered, the specification in any order.
OneCallAtATime == \A r, s \in Slots : r = s

\* The leader stays one when nothing that decides about it is lost.
LEMMA LeaderStays ==
  ASSUME NEW L \in Tabs, Leads(L), FreshCalls(L)', Acts(L) => Acts(L)',
         cookie' = cookie, live' \subseteq live, kept' => kept, check'[L] = check[L],
         signal[L] > 0 => signal'[L] > 0, signal'[L] > 0 \/ stored' = stored
  PROVE  Leads(L)'
  <1>1. /\ SignedOut => SignedOut'
        /\ Agrees /\ stored' = stored => Agrees'
    BY DEF SignedOut, Agrees, IsOurs
  <1>2. FreshCheck(L)'
    BY <1>1 DEF Leads, FreshCheck, IsOurs
  <1>. QED
    BY <1>1, <1>2 DEF Leads

\* So it does when other documents act and the account of the cookie stays.
LEMMA LeaderWatches ==
  ASSUME NEW L \in Tabs, Leads(L), call'[L] = call[L],
         cookie' = cookie, live' \subseteq live, kept' => kept, check'[L] = check[L],
         signal[L] > 0 => signal'[L] > 0, signal'[L] > 0 \/ stored' = stored
  PROVE  Leads(L)'
  <1>1. FreshCalls(L)'
    BY DEF Leads, FreshCalls, IsOurs, SignedOut
  <1>2. Acts(L) => Acts(L)'
    BY DEF Acts
  <1>. QED
    BY <1>1, <1>2, LeaderStays

\* A document that begins a check leads if its calls are fresh.
LEMMA LeaderChecks ==
  ASSUME NEW L \in Tabs, FreshCalls(L)', check'[L] = [answered |-> FALSE, got |-> None]
  PROVE  Leads(L)'
  <1>1. check'[L] # None /\ ~check'[L].answered
    <2>1. [answered |-> FALSE, got |-> None] # None
      BY CheckIsThere
    <2>. QED
      BY <2>1
  <1>. QED
    BY <1>1 DEF Leads, FreshCheck

\* What a document's only call becomes is all there is to say of its calls.
LEMMA OnlyCall ==
  ASSUME OneCallAtATime, NEW L \in Tabs, NEW s \in Slots
  PROVE  /\ Acts(L) <=> call[L][s] # None /\ Decides(call[L][s])
         /\ Acts(L)' <=> call'[L][s] # None /\ Decides(call'[L][s])
         /\ FreshCalls(L) <=> (call[L][s] # None =>
              /\ IsOurs(call[L][s].got)
              /\ call[L][s].kind \in {"logout", "recoverRevoke"} /\ Answered(call[L][s]) => SignedOut
              /\ call[L][s].kind \in {"login", "recoverLogin"} /\ call[L][s].state = "ok"
                   => call[L][s].got # None)
         /\ FreshCalls(L)' <=> (call'[L][s] # None =>
              /\ IsOurs(call[L][s].got)'
              /\ call'[L][s].kind \in {"logout", "recoverRevoke"} /\ Answered(call'[L][s])
                   => SignedOut'
              /\ call'[L][s].kind \in {"login", "recoverLogin"} /\ call'[L][s].state = "ok"
                   => call'[L][s].got # None)
  <1>1. \A r \in Slots : r = s
    BY DEF OneCallAtATime
  <1>2. Acts(L) <=> call[L][s] # None /\ Decides(call[L][s])
    BY <1>1 DEF Acts
  <1>3. Acts(L)' <=> call'[L][s] # None /\ Decides(call'[L][s])
    BY <1>1 DEF Acts, Decides, Answered
  <1>4. FreshCalls(L) <=> (call[L][s] # None =>
              /\ IsOurs(call[L][s].got)
              /\ call[L][s].kind \in {"logout", "recoverRevoke"} /\ Answered(call[L][s]) => SignedOut
              /\ call[L][s].kind \in {"login", "recoverLogin"} /\ call[L][s].state = "ok"
                   => call[L][s].got # None)
    BY <1>1 DEF FreshCalls
  <1>5. FreshCalls(L)' <=> (call'[L][s] # None =>
              /\ IsOurs(call[L][s].got)'
              /\ call'[L][s].kind \in {"logout", "recoverRevoke"} /\ Answered(call'[L][s])
                   => SignedOut'
              /\ call'[L][s].kind \in {"login", "recoverLogin"} /\ call'[L][s].state = "ok"
                   => call'[L][s].got # None)
    BY <1>1 DEF FreshCalls, Answered
  <1>. QED
    BY <1>2, <1>3, <1>4, <1>5

\* Whatever a document does, another one keeps its calls and its check, and
\* learns of a change of what is stored.
LEMMA OthersSee ==
  ASSUME Typed, NEW t \in Tabs, Progress(t) \/ Choice(t), NEW s \in Tabs \ {t}
  PROVE  /\ call'[s] = call[s] /\ check'[s] = check[s]
         /\ signal[s] > 0 => signal'[s] > 0
         /\ signal'[s] > 0 \/ stored' = stored
  <1>0. BrowserTyped /\ CallsTyped /\ CheckTyped
    BY TypedParts
  <1>1. CASE HandleStorage(t) \/ HandleVisibility(t) \/ Reload(t)
    BY <1>0, <1>1 DEF HandleStorage, HandleVisibility, Reload, BeginCheck, BrowserTyped, CallsTyped,
       CheckTyped, browser
  <1>2. CASE ServeCheck(t) \/ ServeQuery(t) \/ FinishQuery(t)
    BY <1>0, <1>2 DEF ServeCheck, ServeQuery, FinishQuery, CheckTyped, browser
  <1>3. CASE FinishCheck(t)
    <2>1. check[t].got \in User \union {None}
      BY <1>0, <1>3 DEF FinishCheck, CheckTyped, Check
    <2>2. call' = call /\ check'[s] = check[s]
      BY <1>0, <1>3 DEF FinishCheck, Outdate, CheckTyped
    <2>. QED
      BY <1>0, <1>3, <2>1, <2>2, WriteMoves DEF FinishCheck
  <1>4. CASE Submit(t) \/ ClickLogout(t) \/ ChangePassword(t) \/ EditAccount(t) \/ TimerFires(t)
    BY <1>0, <1>4 DEF Submit, ClickLogout, ChangePassword, EditAccount, TimerFires, Send, CallsTyped, browser
  <1>5. CASE Serve(t)
    <2>1. PICK r \in Slots :
            \/ ServeLogin(t, r) \/ ServeRevoke(t, r)
            \/ ServeAccount(t, r) \/ ServeFailure(t, r) \/ ServeLost(t, r)
      BY <1>5 DEF Serve
    <2>2. call'[s] = call[s]
      BY <1>0, <2>1 DEF ServeLogin, ServeRevoke, ServeAccount, ServeFailure, ServeLost, Answer, CallsTyped
    <2>. QED
      BY <1>5, <2>2 DEF Serve, browser
  <1>6. CASE Continue(t)
    <2>1. PICK r \in Slots : \/ FinishLogin(t, r) \/ FinishRecoverLogin(t, r) \/ FinishRevoke(t, r)
                             \/ FinishPassword(t, r) \/ FinishEdit(t, r)
      BY <1>6 DEF Continue
    <2>2. call'[s] = call[s] /\ check'[s] = check[s]
      BY <1>0, <2>1 DEF FinishLogin, FinishRecoverLogin, FinishRevoke, FinishPassword, FinishEdit,
                        Done, Follow, Outdate, CallsTyped, CheckTyped
    <2>3. call[t][r].got \in User \union {None}
      BY <1>0, <2>1 DEF FinishLogin, FinishRecoverLogin, FinishRevoke, FinishPassword, FinishEdit,
                        Ready, CallsTyped, Call
    <2>4. \/ WriteStoredUser(t, call[t][r].got)
          \/ \E warning \in {"kept", "written", "removed"} : ClearStored(t, warning)
          \/ UNCHANGED browser
      BY <2>1 DEF FinishLogin, FinishRecoverLogin, FinishRevoke, FinishPassword, FinishEdit
    <2>. QED
      BY <1>0, <2>2, <2>3, <2>4, WriteMoves DEF browser
  <1>. QED
    BY <1>1, <1>2, <1>3, <1>4, <1>5, <1>6 DEF Progress, Choice

\* Only the server changes the cookie, and a session that ended stays ended.
LEMMA ServerRests ==
  ASSUME Typed, NEW t \in Tabs, Progress(t) \/ Choice(t), ~Serve(t)
  PROVE  cookie' = cookie /\ live' = live /\ (kept' => kept)
  <1>0. upsets \in 0..MaxUpsets /\ kept \in BOOLEAN /\ logins \in 0..MaxSessions
    BY TypedParts DEF ServerTyped
  <1>1. /\ UNCHANGED server
        /\ UNCHANGED used \/ Fault \/ Event
    <2>1. CASE Continue(t)
      BY <2>1 DEF Continue, FinishLogin, FinishRecoverLogin, FinishRevoke, FinishPassword, FinishEdit
    <2>2. CASE Progress(t) /\ ~Continue(t)
      BY <2>2 DEF Progress, HandleStorage, ServeCheck, FinishCheck, TimerFires, FinishQuery
    <2>3. CASE Choice(t)
      BY <2>3 DEF Choice, HandleVisibility, Submit, ClickLogout, ChangePassword, EditAccount, ServeQuery, Reload
    <2>. QED
      BY <2>1, <2>2, <2>3
  <1>. QED
    BY <1>0, <1>1, UpsetCounts DEF server

\* A request a leader makes decides nothing yet.
LEMMA LeaderAsks ==
  ASSUME Typed, Typed', OneCallAtATime, NEW L \in Tabs, Leads(L),
         Submit(L) \/ ClickLogout(L) \/ ChangePassword(L) \/ EditAccount(L)
  PROVE  Leads(L)'
  <1>0. CallsTyped
    BY TypedParts
  <1>1. PICK s \in Slots, kind \in Kinds \ {"recoverRevoke"}, u \in Users \union {shown[L].id} :
          /\ call[L][s] = None
          /\ call' = [call EXCEPT ![L][s] =
                        [kind |-> kind, user |-> u, state |-> "sent", got |-> None]]
    BY DEF Submit, ClickLogout, ChangePassword, EditAccount, Send, Free, Kinds
  <1>2. call'[L][s] = [kind |-> kind, user |-> u, state |-> "sent", got |-> None]
    BY <1>0, <1>1 DEF CallsTyped
  <1>3. FreshCalls(L)' /\ ~Acts(L)
    <2>1. /\ IsOurs(call[L][s].got)'
          /\ ~Answered(call'[L][s])
          /\ call'[L][s].state # "ok"
      BY <1>2 DEF IsOurs, Answered
    <2>. QED
      BY <1>1, <2>1, OnlyCall
  <1>4. cookie' = cookie /\ live' = live /\ (kept' => kept) /\ UNCHANGED <<check, signal, stored>>
    BY DEF Submit, ClickLogout, ChangePassword, EditAccount, server, browser, used
  <1>. QED
    BY <1>3, <1>4, LeaderStays

\* A timer decides nothing either.
LEMMA LeaderWaits ==
  ASSUME Typed, OneCallAtATime, NEW L \in Tabs, Leads(L), TimerFires(L)
  PROVE  Leads(L)'
  <1>0. CallsTyped
    BY TypedParts
  <1>1. PICK s \in Slots : /\ call[L][s] # None /\ call[L][s].state = "waiting"
                           /\ call' = [call EXCEPT ![L][s].state = "sent"]
    BY DEF TimerFires
  <1>2. /\ call[L][s] \in Call
        /\ call'[L][s] = [call[L][s] EXCEPT !.state = "sent"]
    BY <1>0, <1>1 DEF CallsTyped
  <1>3. call'[L][s] # None /\ call'[L][s].kind = call[L][s].kind /\ call'[L][s].got = call[L][s].got
        /\ call'[L][s].state = "sent"
    <2>1. [call[L][s] EXCEPT !.state = "sent"] \in Call
      BY <1>2 DEF Call, States
    <2>. QED
      BY <1>2, <2>1, NoneIsNoValue DEF Call
  <1>4. cookie' = cookie /\ live' = live /\ kept' = kept /\ UNCHANGED <<check, signal, stored>>
    BY DEF TimerFires, server, browser, used
  <1>5. IsOurs(call[L][s].got) => IsOurs(call[L][s].got)'
    BY <1>3, <1>4 DEF IsOurs
  <1>6. FreshCalls(L)' /\ (Acts(L) => Acts(L)')
    <2>1. ~Answered(call'[L][s]) /\ (Decides(call[L][s]) => Decides(call'[L][s]))
      BY <1>1, <1>3 DEF Answered, Decides
    <2>. QED
      BY <1>1, <1>3, <1>5, <2>1, OnlyCall DEF Leads
  <1>. QED
    BY <1>4, <1>6, LeaderStays

\* Learning of a change, looking again and starting anew begin a check.
LEMMA LeaderBegins ==
  ASSUME Typed, OneCallAtATime, NEW L \in Tabs, Leads(L),
         HandleStorage(L) \/ HandleVisibility(L) \/ Reload(L)
  PROVE  Leads(L)'
  <1>0. CallsTyped /\ CheckTyped
    BY TypedParts
  <1>1. check'[L] = [answered |-> FALSE, got |-> None]
    BY <1>0 DEF HandleStorage, HandleVisibility, Reload, BeginCheck, CheckTyped
  <1>2. cookie' = cookie /\ live' = live /\ (kept' => kept)
    BY ServerRests DEF Progress, Choice, HandleStorage, HandleVisibility, Reload, server, used, Event
  <1>3. FreshCalls(L)'
    <2>1. CASE call'[L] = call[L]
      BY <1>2, <2>1 DEF Leads, FreshCalls, IsOurs, SignedOut
    <2>2. CASE Reload(L)
      BY <1>0, <2>2 DEF Reload, CallsTyped, FreshCalls, NoCalls
    <2>. QED
      BY <2>1, <2>2 DEF HandleStorage, HandleVisibility
  <1>. QED
    BY <1>1, <1>3, LeaderChecks

\* The server answers a check for the cookie it came with.
LEMMA LeaderLearns ==
  ASSUME Typed, NEW L \in Tabs, Leads(L), ServeCheck(L)
  PROVE  Leads(L)'
  <1>0. CallsTyped /\ CheckTyped /\ ServerTyped
    BY TypedParts
  <1>1. PICK lost \in BOOLEAN :
          /\ IF lost THEN Fault ELSE UNCHANGED used
          /\ check' = [check EXCEPT ![L] =
               [answered |-> TRUE,
                got |-> IF lost \/ Holder(cookie) = None THEN None
                        ELSE Projection(Holder(cookie))]]
    BY DEF ServeCheck
  <1>2. check'[L].got = (IF lost \/ Holder(cookie) = None THEN None ELSE Projection(Holder(cookie)))
    BY <1>0, <1>1 DEF CheckTyped
  <1>3. (lost => ~kept') /\ (kept' => kept)
    BY <1>1 DEF Fault, used
  <1>4. check'[L] # None
    <2>1. (IF lost \/ Holder(cookie) = None THEN None ELSE Projection(Holder(cookie)))
               \in User \union {None}
      BY HolderIsUser
    <2>. QED
      BY <1>0, <1>1, <2>1, CheckIsThere DEF CheckTyped
  <1>5. cookie' = cookie /\ live' = live /\ UNCHANGED <<call, signal, stored>>
    BY DEF ServeCheck, server, browser
  <1>6. IsOurs(check[L].got)' /\ (check'[L].got = None => SignedOut')
    <2>1. CASE lost
      BY <1>2, <1>3, <2>1 DEF IsOurs, SignedOut
    <2>2. CASE ~lost /\ Holder(cookie) = None
      <3>1. cookie \notin live
        BY <1>0, <2>2, NoneIsNoValue DEF Holder, ServerTyped, Token
      <3>. QED
        BY <1>2, <1>5, <2>2, <3>1 DEF IsOurs, SignedOut
    <2>3. CASE ~lost /\ Holder(cookie) # None
      <3>1. cookie \in live /\ cookie # None /\ Holder(cookie) = cookie.user /\ cookie.user \in Users
        BY <2>3, HolderIsUser, <1>0, NoneIsNoValue DEF ServerTyped
      <3>2. check'[L].got = [id |-> cookie.user, rev |-> rev[cookie.user]]
        BY <1>2, <2>3, <3>1 DEF Projection
      <3>3. check'[L].got # None
        BY <1>2, <2>3, <3>1, HolderIsUser, NoneIsNoValue
      <3>. QED
        BY <1>5, <3>1, <3>2, <3>3 DEF IsOurs
    <2>. QED
      BY <2>1, <2>2, <2>3
  <1>7. FreshCalls(L)'
    BY <1>3, <1>5 DEF Leads, FreshCalls, IsOurs, SignedOut
  <1>. QED
    BY <1>4, <1>6, <1>7 DEF Leads, FreshCheck

\* What a check found is stored, and the document shows it.
LEMMA LeaderRestores ==
  ASSUME Typed, NEW L \in Tabs, Leads(L), FinishCheck(L)
  PROVE  Leads(L)'
  <1>0. CallsTyped /\ CheckTyped /\ BrowserTyped
    BY TypedParts
  <1>1. check[L] # None /\ check[L].answered /\ check[L].got \in User \union {None}
    BY <1>0 DEF FinishCheck, CheckTyped, Check
  <1>2. stored' = check[L].got
    BY <1>0, <1>1, WriteMoves DEF FinishCheck
  <1>3. check'[L] = None /\ UNCHANGED <<call, cookie, live, kept>>
    BY <1>0 DEF FinishCheck, Outdate, CheckTyped, server, used
  <1>4. FreshCalls(L)' /\ FreshCheck(L)' /\ (Acts(L) => Acts(L)')
    BY <1>3 DEF Leads, FreshCalls, FreshCheck, IsOurs, SignedOut, Acts
  <1>5. Acts(L) \/ Agrees'
    BY <1>1, <1>2, <1>3 DEF Leads, FreshCheck, Agrees, IsOurs, SignedOut
  <1>. QED
    BY <1>4, <1>5 DEF Leads

\* A login's answer is stored; a logout leaves nothing.
LEMMA LeaderSigns ==
  ASSUME Typed, OneCallAtATime, NEW L \in Tabs, NEW s \in Slots, Leads(L),
         \/ FinishLogin(L, s) /\ call[L][s].state = "ok"
         \/ FinishRevoke(L, s)
  PROVE  Leads(L)'
  <1>0. CallsTyped /\ CheckTyped /\ BrowserTyped
    BY TypedParts
  <1>1. /\ call[L][s] # None /\ call[L][s] \in Call
        /\ call[L][s].state \notin {"waiting", "sent"}
    BY <1>0 DEF FinishLogin, FinishRevoke, Ready, CallsTyped
  <1>2. check'[L] = None /\ call'[L][s] = None /\ UNCHANGED <<cookie, live, kept>>
    BY <1>0 DEF FinishLogin, FinishRevoke, Outdate, Done, CheckTyped, CallsTyped, server, used
  <1>3. /\ IsOurs(call[L][s].got)
        /\ call[L][s].kind \in {"logout", "recoverRevoke"} /\ Answered(call[L][s]) => SignedOut
        /\ call[L][s].kind \in {"login", "recoverLogin"} /\ call[L][s].state = "ok"
              => call[L][s].got # None
    BY <1>1, OnlyCall DEF Leads
  <1>4. Agrees'
    <2>1. CASE FinishLogin(L, s) /\ call[L][s].state = "ok"
      <3>1. call[L][s].got # None
        BY <1>3, <2>1 DEF FinishLogin, Ready
      <3>2. stored' = call[L][s].got
        BY <1>0, <1>1, <2>1, WriteMoves DEF FinishLogin, Call
      <3>. QED
        BY <1>2, <1>3, <3>1, <3>2 DEF Agrees, IsOurs
    <2>2. CASE FinishRevoke(L, s)
      <3>1. stored' = None
        BY <2>2 DEF FinishRevoke, ClearStored
      <3>2. SignedOut
        BY <1>1, <1>3, <2>2 DEF FinishRevoke, Ready, Answered, Call, States
      <3>. QED
        BY <1>2, <3>1, <3>2 DEF Agrees, IsOurs, SignedOut
    <2>. QED
      BY <2>1, <2>2
  <1>5. FreshCalls(L)'
    BY <1>2, OnlyCall
  <1>. QED
    BY <1>2, <1>4, <1>5 DEF Leads, FreshCheck

\* The continuations that write nothing, and the call that follows a login
\* for recovery or a changed password
LEMMA LeaderGoesOn ==
  ASSUME Typed, OneCallAtATime, NEW L \in Tabs, NEW s \in Slots, Leads(L),
         \/ FinishLogin(L, s) /\ call[L][s].state # "ok"
         \/ FinishRecoverLogin(L, s)
         \/ FinishPassword(L, s)
  PROVE  Leads(L)'
  <1>0. CallsTyped
    BY TypedParts
  <1>1. call[L][s] # None /\ call[L][s] \in Call
    BY <1>0 DEF FinishLogin, FinishRecoverLogin, FinishPassword, Ready, CallsTyped
  <1>2. UNCHANGED <<cookie, live, kept, check, signal, stored>>
    BY DEF FinishLogin, FinishRecoverLogin, FinishPassword, server, browser, used
  <1>3. CASE Done(L, s) /\ ~Decides(call[L][s])
    <2>1. call'[L][s] = None
      BY <1>0, <1>3 DEF Done, CallsTyped
    <2>2. FreshCalls(L)' /\ ~Acts(L)
      BY <1>3, <2>1, OnlyCall
    <2>. QED
      BY <1>2, <2>2, LeaderStays
  <1>4. ASSUME NEW kind \in {"recoverRevoke", "logout"}, NEW state \in {"waiting", "sent"},
               Follow(L, s, kind, state), Decides(call[L][s]) => kind = "recoverRevoke"
        PROVE  Leads(L)'
    <2>0. kind \in Kinds /\ state \in States /\ call \in [Tabs -> [Slots -> Call \union {None}]]
      BY <1>0 DEF CallsTyped, Kinds, States
    <2>1. /\ call' = [call EXCEPT ![L][s] = [call[L][s] EXCEPT !.kind = kind,
                                                  !.state = state, !.got = None]]
          /\ [call[L][s] EXCEPT !.kind = kind, !.state = state, !.got = None] \in Call
      <3>1. Follow(L, s, kind, state)
        BY <1>4
      <3>2. [call[L][s] EXCEPT !.kind = kind, !.state = state, !.got = None] \in Call
        BY <1>1, <2>0 DEF Call
      <3>. QED
        BY <3>1, <3>2 DEF Follow
    <2>2. call'[L][s] = [call[L][s] EXCEPT !.kind = kind, !.state = state, !.got = None]
      BY <1>0, <2>1 DEF CallsTyped
    <2>3. call'[L][s].kind = kind /\ call'[L][s].state = state /\ call'[L][s].got = None
      BY <1>1, <2>2 DEF Call
    <2>4. call'[L][s] # None
      BY <2>1, <2>2, NoneIsNoValue
    <2>5. FreshCalls(L)'
      <3>1. IsOurs(call[L][s].got)' /\ ~Answered(call'[L][s]) /\ call'[L][s].state # "ok"
        BY <1>4, <2>3 DEF IsOurs, Answered
      <3>. QED
        BY <3>1, OnlyCall
    <2>6. Acts(L) => Acts(L)'
      BY <1>4, <2>3, <2>4, OnlyCall DEF Decides
    <2>. QED
      BY <1>2, <2>5, <2>6, LeaderStays
  <1>5. CASE FinishLogin(L, s) /\ call[L][s].state # "ok"
    BY <1>3, <1>5 DEF FinishLogin, Ready, Decides
  <1>6. CASE FinishRecoverLogin(L, s)
    BY <1>3, <1>4, <1>6 DEF FinishRecoverLogin, Ready, Decides
  <1>7. CASE FinishPassword(L, s)
    BY <1>3, <1>4, <1>7 DEF FinishPassword, Ready, Decides
  <1>. QED
    BY <1>5, <1>6, <1>7

\* An edited account is stored where it is still shown.
LEMMA LeaderEdits ==
  ASSUME Typed, OneCallAtATime, NEW L \in Tabs, NEW s \in Slots, Leads(L), FinishEdit(L, s)
  PROVE  Leads(L)'
  <1>0. CallsTyped /\ BrowserTyped
    BY TypedParts
  <1>1. /\ call[L][s] # None /\ call[L][s] \in Call /\ call[L][s].kind = "edit"
        /\ call[L][s].got \in User \union {None}
    BY <1>0 DEF FinishEdit, Ready, CallsTyped, Call
  <1>2. call'[L][s] = None /\ UNCHANGED <<cookie, live, kept, check>>
    BY <1>0 DEF FinishEdit, Done, CallsTyped, server, used
  <1>3. /\ signal'[L] = signal[L]
        /\ \/ stored' = call[L][s].got /\ call[L][s].got # None
           \/ stored' = stored
    BY <1>0, <1>1, WriteMoves DEF FinishEdit, browser
  <1>4. FreshCalls(L)' /\ ~Acts(L) /\ IsOurs(call[L][s].got)
    BY <1>1, <1>2, OnlyCall DEF Leads, Decides
  <1>5. FreshCheck(L)'
    BY <1>2, <1>4 DEF Leads, FreshCheck, IsOurs, SignedOut
  <1>6. signal'[L] > 0 \/ check'[L] # None \/ Agrees'
    BY <1>2, <1>3, <1>4 DEF Leads, Agrees, IsOurs, SignedOut
  <1>. QED
    BY <1>4, <1>5, <1>6 DEF Leads

\* An answered call is the one that was made, with its answer.
LEMMA AnswerFits ==
  ASSUME CallsTyped, NEW t \in Tabs, NEW s \in Slots, call[t][s] # None,
         NEW state \in States, NEW got \in User \union {None}, Answer(t, s, state, got)
  PROVE  /\ call'[t][s] # None /\ call'[t][s].kind = call[t][s].kind
         /\ call'[t][s].state = state /\ call'[t][s].got = got
  <1>1. call[t][s] \in Call
    BY DEF CallsTyped
  <1>2. [call[t][s] EXCEPT !.state = state, !.got = got] \in Call
    BY <1>1 DEF Call
  <1>3. call'[t][s] = [call[t][s] EXCEPT !.state = state, !.got = got]
    BY DEF Answer, CallsTyped
  <1>. QED
    BY <1>1, <1>2, <1>3, NoneIsNoValue DEF Call

\* Whoever's call changes the cookie leads.
LEMMA CookieChanges ==
  ASSUME Typed, Typed', OneCallAtATime, NEW t \in Tabs, NEW s \in Slots, call[t][s] # None,
         ServeLogin(t, s) \/ ServeRevoke(t, s)
  PROVE  Leads(t)'
  <1>0. CallsTyped /\ ServerTyped /\ ServerTyped'
    BY TypedParts, TypedPartsPrimed
  <1>1. CASE ServeLogin(t, s)
    <2>0. call[t][s].user \in Users
      BY <1>0 DEF CallsTyped, Call
    <2>1. Projection(call[t][s].user) \in User
      BY <2>0, HolderIsUser
    <2>2. /\ call'[t][s] # None /\ call'[t][s].kind \in {"login", "recoverLogin"}
          /\ call'[t][s].state = "ok" /\ call'[t][s].got = Projection(call[t][s].user)
      <3>1. Answer(t, s, "ok", Projection(call[t][s].user)) /\ "ok" \in States
        BY <1>1 DEF ServeLogin, States
      <3>. QED
        BY <1>0, <1>1, <2>1, <3>1, AnswerFits DEF ServeLogin
    <2>3. cookie' = [user |-> call[t][s].user, n |-> logins + 1]
      BY <1>1 DEF ServeLogin
    <2>4. IsOurs(call[t][s].got)' /\ call'[t][s].got # None
      <3>1. cookie' # None
        <4>1. logins' \in 1..MaxSessions /\ logins' = logins + 1
          BY <1>0, <1>1 DEF ServeLogin, ServerTyped
        <4>. QED
          BY <2>0, <2>3, <4>1, NoneIsNoValue DEF Token
      <3>2. Projection(call[t][s].user).id = call[t][s].user
        BY DEF Projection
      <3>. QED
        BY <2>1, <2>2, <2>3, <3>1, <3>2, NoneIsNoValue DEF IsOurs
    <2>5. FreshCalls(t)' /\ Acts(t)'
      BY <2>2, <2>4, OnlyCall DEF Decides
    <2>. QED
      BY <2>5 DEF Leads, FreshCheck
  <1>2. CASE ServeRevoke(t, s)
    <2>1. PICK state \in {"ok", "denied", "failed"} : Answer(t, s, state, None)
      BY <1>2 DEF ServeRevoke
    <2>2. /\ call'[t][s] # None /\ call'[t][s].kind \in {"logout", "recoverRevoke"}
          /\ call'[t][s].state \in {"ok", "denied", "failed"} /\ call'[t][s].got = None
      BY <1>0, <1>2, <2>1, AnswerFits DEF ServeRevoke, States
    <2>3. SignedOut' /\ IsOurs(call[t][s].got)'
      BY <1>0, <1>2, <2>2, NoneIsNoValue DEF ServeRevoke, ServerTyped, SignedOut, IsOurs
    <2>4. FreshCalls(t)' /\ Acts(t)'
      BY <2>2, <2>3, OnlyCall DEF Decides, Answered
    <2>. QED
      BY <2>4 DEF Leads, FreshCheck
  <1>. QED
    BY <1>1, <1>2

\* Other answers leave the cookie; they only end sessions.
LEMMA CookieStays ==
  ASSUME Typed, NEW t \in Tabs, NEW s \in Slots, call[t][s] # None,
         ServeAccount(t, s) \/ ServeFailure(t, s) \/ ServeLost(t, s)
  PROVE  cookie' = cookie /\ live' \subseteq live /\ (kept' => kept)
  <1>0. upsets \in 0..MaxUpsets /\ kept \in BOOLEAN /\ logins \in 0..MaxSessions
    BY TypedParts DEF ServerTyped
  <1>1. UNCHANGED used \/ Fault \/ Event
    BY DEF ServeAccount, ServeFailure, ServeLost
  <1>2. cookie' = cookie /\ live' \subseteq live
    BY DEF ServeAccount, ServeFailure, ServeLost, server
  <1>. QED
    BY <1>0, <1>1, <1>2, UpsetCounts

LEMMA LeaderIsAnswered ==
  ASSUME Typed, Typed', OneCallAtATime, NEW L \in Tabs, NEW s \in Slots, Leads(L),
         call[L][s] # None, call[L][s].state = "sent",
         ServeAccount(L, s) \/ ServeFailure(L, s) \/ ServeLost(L, s),
         UNCHANGED <<browser, check>>
  PROVE  Leads(L)'
  <1>0. CallsTyped /\ ServerTyped
    BY TypedParts
  <1>1. cookie' = cookie /\ live' \subseteq live /\ (kept' => kept)
    BY CookieStays
  <1>2. /\ call'[L][s] # None /\ call'[L][s].kind = call[L][s].kind
        /\ IsOurs(call[L][s].got)'
        /\ Decides(call[L][s]) => Decides(call'[L][s])
        /\ call'[L][s].kind \in {"logout", "recoverRevoke"} => ~kept'
        /\ call'[L][s].kind \notin {"login", "recoverLogin"} \/ call'[L][s].state # "ok"
    <2>1. CASE ServeAccount(L, s) /\ \E state \in {"ok", "denied"} : Answer(L, s, state, None)
      <3>1. PICK state \in {"ok", "denied"} : Answer(L, s, state, None)
        BY <2>1
      <3>2. state \in States /\ None \in User \union {None}
        BY DEF States
      <3>3. /\ call'[L][s] # None /\ call'[L][s].kind = call[L][s].kind
            /\ call'[L][s].state = state /\ call'[L][s].got = None
        BY <1>0, <3>1, <3>2, AnswerFits
      <3>. QED
        BY <2>1, <3>3 DEF ServeAccount, IsOurs, Decides
    <2>2. CASE /\ Holder(cookie) # None /\ call[L][s].kind = "edit"
               /\ Answer(L, s, "ok", [id |-> cookie.user, rev |-> rev[cookie.user] + 1])
               /\ Event
               /\ rev' = [rev EXCEPT ![cookie.user] = @ + 1]
      <3>1. cookie \in live /\ cookie.user \in Users /\ cookie # None
        BY <1>0, <2>2, HolderIsUser, NoneIsNoValue DEF ServerTyped
      <3>2. rev[cookie.user] + 1 \in 0..MaxUpsets
        BY <1>0, <2>2, <3>1, TypedParts, BoundsAreNaturals
           DEF ServerTyped, Event, Upset, RevsAreEdits
      <3>3. [id |-> cookie.user, rev |-> rev[cookie.user] + 1] \in User
        BY <3>1, <3>2 DEF User
      <3>4. /\ call'[L][s] # None /\ call'[L][s].kind = "edit"
            /\ call'[L][s].got = [id |-> cookie.user, rev |-> rev[cookie.user] + 1]
        BY <1>0, <2>2, <3>3, AnswerFits DEF States
      <3>. QED
        BY <1>1, <2>2, <3>1, <3>4 DEF IsOurs, Decides
    <2>3. CASE ServeFailure(L, s) \/ ServeLost(L, s)
      <3>1. /\ call'[L][s] # None /\ call'[L][s].kind = call[L][s].kind
            /\ call'[L][s].state = "failed" /\ call'[L][s].got = None
        BY <1>0, <2>3, AnswerFits DEF ServeFailure, ServeLost, States
      <3>2. call[L][s].kind \in {"logout", "recoverRevoke"} => kept' = FALSE
        BY <2>3 DEF ServeFailure, ServeLost, Fault
      <3>. QED
        BY <3>1, <3>2 DEF IsOurs, Decides, Answered
    <2>. QED
      BY <2>1, <2>2, <2>3 DEF ServeAccount
  <1>3. FreshCalls(L)' /\ (Acts(L) => Acts(L)')
    BY <1>2, OnlyCall DEF SignedOut
  <1>. QED
    BY <1>1, <1>3, LeaderStays DEF browser

LEMMA LeadStep ==
  ASSUME Typed, Typed', OneCallAtATime, OneLeads, [Next]_vars
  PROVE  OneLeads'
  <1>. SUFFICES ASSUME Tabs # {}
                PROVE  \E K \in Tabs : Leads(K)'
    BY DEF OneLeads
  <1>. PICK L \in Tabs : Leads(L)
    BY DEF OneLeads
  <1>1. ASSUME NEW t \in Tabs, Serve(t)
        PROVE  \E K \in Tabs : Leads(K)'
    <2>1. PICK s \in Slots :
            /\ call[t][s] # None /\ call[t][s].state = "sent"
            /\ \/ ServeLogin(t, s) \/ ServeRevoke(t, s)
               \/ ServeAccount(t, s) \/ ServeFailure(t, s) \/ ServeLost(t, s)
            /\ UNCHANGED <<browser, check>>
      BY <1>1 DEF Serve
    <2>2. CASE ServeLogin(t, s) \/ ServeRevoke(t, s)
      BY <2>1, <2>2, CookieChanges
    <2>3. CASE ServeAccount(t, s) \/ ServeFailure(t, s) \/ ServeLost(t, s)
      <3>1. CASE t = L
        BY <2>1, <2>3, <3>1, LeaderIsAnswered
      <3>2. CASE t # L
        BY <1>1, <2>1, <2>3, <3>2, CookieStays, OthersSee, LeaderWatches DEF Progress
      <3>. QED
        BY <3>1, <3>2
    <2>. QED
      BY <2>1, <2>2, <2>3
  <1>2. ASSUME NEW t \in Tabs \ {L}, Progress(t) \/ Choice(t), ~Serve(t)
        PROVE  \E K \in Tabs : Leads(K)'
    <2>1. cookie' = cookie /\ live' = live /\ (kept' => kept)
      BY <1>2, ServerRests
    <2>2. /\ call'[L] = call[L] /\ check'[L] = check[L]
          /\ signal[L] > 0 => signal'[L] > 0
          /\ signal'[L] > 0 \/ stored' = stored
      BY <1>2, OthersSee
    <2>. QED
      BY <2>1, <2>2, LeaderWatches
  <1>3. ASSUME Progress(L) \/ Choice(L), ~Serve(L)
        PROVE  \E K \in Tabs : Leads(K)'
    <2>1. CASE HandleStorage(L) \/ HandleVisibility(L) \/ Reload(L)
      BY <2>1, LeaderBegins
    <2>2. CASE ServeCheck(L)
      BY <2>2, LeaderLearns
    <2>3. CASE FinishCheck(L)
      BY <2>3, LeaderRestores
    <2>4. CASE TimerFires(L)
      BY <2>4, LeaderWaits
    <2>5. CASE Submit(L) \/ ClickLogout(L) \/ ChangePassword(L) \/ EditAccount(L)
      BY <2>5, LeaderAsks
    <2>6. CASE Continue(L)
      <3>1. PICK s \in Slots : \/ FinishLogin(L, s) \/ FinishRecoverLogin(L, s) \/ FinishRevoke(L, s)
                               \/ FinishPassword(L, s) \/ FinishEdit(L, s)
        BY <2>6 DEF Continue
      <3>. QED
        BY <3>1, LeaderSigns, LeaderGoesOn, LeaderEdits
    <2>7. CASE ServeQuery(L) \/ FinishQuery(L)
      <3>1. UNCHANGED <<server, browser, check, call, used>>
        BY <2>7 DEF ServeQuery, FinishQuery
      <3>. QED
        BY <3>1, LeaderWatches DEF server, browser, used
    <2>. QED
      BY <1>3, <2>1, <2>2, <2>3, <2>4, <2>5, <2>6, <2>7 DEF Progress, Choice
  <1>4. CASE Expire
    <2>1. UNCHANGED <<call, check, cookie, signal, stored>> /\ live' \subseteq live /\ kept' = FALSE
      BY <1>4 DEF Expire, Fault, browser
    <2>. QED
      BY <2>1, LeaderWatches
  <1>5. CASE UNCHANGED vars
    BY <1>5, LeaderWatches DEF vars, server, browser, used
  <1>. QED
    BY <1>1, <1>2, <1>3, <1>4, <1>5 DEF Next

\* What the theorems on identity rest on.
SessionInv == Typed /\ DocumentsAgree /\ OneLeads

LEMMA SessionHolds ==
  ASSUME OneCallAtATime
  PROVE  Spec => []SessionInv
  <1>1. Init => SessionInv
    <2>. SUFFICES ASSUME Init PROVE OneLeads
      BY InitTyped, InitAgrees DEF SessionInv
    <2>1. \A t \in Tabs : FreshCalls(t) /\ FreshCheck(t) /\ check[t] # None
      BY CheckIsThere DEF Init, NoCalls, FreshCalls, FreshCheck
    <2>. QED
      BY <2>1 DEF OneLeads, Leads
  <1>2. SessionInv /\ [Next]_vars => SessionInv'
    BY TypeStep, AgreementStep, LeadStep DEF SessionInv
  <1>. QED
    BY <1>1, <1>2, PTL DEF Spec

\* Once nothing is still to be told, the leader has nothing to say, and what
\* is stored is what the cookie says.
LEMMA ToldIsAgreed ==
  ASSUME SessionInv, Told, Tabs # {}
  PROVE  Agrees
  <1>. PICK L \in Tabs : Leads(L)
    BY DEF SessionInv, OneLeads
  <1>1. ~Acts(L)
    BY DEF Told, Acts, Decides, Answered
  <1>2. ~(signal[L] > 0) /\ check[L] = None
    BY DEF Told
  <1>. QED
    BY <1>1, <1>2 DEF Leads

\* Every document that shows a user shows the account of the cookie once
\* everything is worked off, for any number of documents, accounts, logins
\* and upsets.
THEOREM IdentityIsShared ==
  ASSUME OneCallAtATime
  PROVE  Spec => []IdentityAgrees
  <1>1. SessionInv => IdentityAgrees
    <2>. SUFFICES ASSUME SessionInv, Told, NEW t \in Tabs, shown[t] # None
                  PROVE  cookie # None /\ cookie.user = shown[t].id
      BY DEF IdentityAgrees
    <2>1. stored = shown[t]
      BY DEF Told, SessionInv, DocumentsAgree, DocumentAgrees
    <2>. QED
      BY <2>1, ToldIsAgreed DEF Agrees, IsOurs
  <1>. QED
    BY <1>1, SessionHolds, PTL

\* If no answer was lost and no session ended on the server alone, every
\* document shows the live session once everything is worked off.
THEOREM LiveIsShown ==
  ASSUME OneCallAtATime
  PROVE  Spec => []SignedInIsShown
  <1>1. SessionInv => SignedInIsShown
    <2>. SUFFICES ASSUME SessionInv, Told, kept, NEW t \in Tabs, cookie \in live, shown[t] = None
                  PROVE  FALSE
      BY DEF SignedInIsShown
    <2>1. stored = None
      BY DEF Told, SessionInv, DocumentsAgree, DocumentAgrees
    <2>. QED
      BY <2>1, ToldIsAgreed DEF Agrees, SignedOut
  <1>. QED
    BY <1>1, SessionHolds, PTL

=============================================================================
