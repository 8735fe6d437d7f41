------------------------------ MODULE DeskProofs ------------------------------
(***************************************************************************)
(* What the pages of the reading desk promise, proved for any number of    *)
(* articles, papers, nodes, journals, weeks and databases.                 *)
(***************************************************************************)
EXTENDS ReaderProperties, Filters, Weekly,
        FiniteSetTheorems, SequenceTheorems, WellFoundedInduction, TLAPS

----------------------------------------------------------------------------
\* The reading desk and the sheet of an article

LEMMA RowsDecide ==
  ASSUME NEW pages, NEW count, NEW failed, SheetShows(pages, count, failed), UNCHANGED rdDocked
  PROVE  SelectionIsShown'
  BY DEF SheetShows, SelectionIsShown, Rows, Base, Released

LEMMA SelectionStays ==
  ASSUME SelectionIsShown, UNCHANGED <<rdPages, rdCount, rdFailed, rdDocked, rdSelected, rdOpen>>,
         rdTrail' # <<>> => Base \in Rows
  PROVE  SelectionIsShown'
  BY DEF SelectionIsShown, Rows, Base

LEMMA SelectionMoves == SelectionIsShown /\ [RdNext]_rdVars => SelectionIsShown'
  <1>. SUFFICES ASSUME SelectionIsShown, [RdNext]_rdVars PROVE SelectionIsShown'
    OBVIOUS
  <1>1. CASE Search
    BY <1>1, RowsDecide DEF Search
  <1>2. CASE ChangeUrl
    BY <1>2, RowsDecide DEF ChangeUrl
  <1>3. CASE AnswerPage
    BY <1>3, RowsDecide DEF AnswerPage
  <1>4. CASE FailPage
    BY <1>4, RowsDecide DEF FailPage
  <1>5. CASE Prefetch
    BY <1>5, SelectionStays DEF Prefetch, SelectionIsShown
  <1>6. CASE LoadMore
    <2>1. CASE SheetShows(rdPages, rdCount + 1, rdFailed) /\ UNCHANGED <<rdFetch, rdDocked>>
      BY <2>1, RowsDecide
    <2>2. CASE Prefetch
      BY <2>2, SelectionStays DEF Prefetch, SelectionIsShown
    <2>. QED BY <1>6, <2>1, <2>2 DEF LoadMore
  <1>7. ASSUME NEW a \in Articles, SelectRow(a) PROVE SelectionIsShown'
    BY <1>7 DEF SelectRow, SelectionIsShown, Rows, Base
  <1>8. ASSUME NEW a \in Articles, OpenSheet(a) PROVE SelectionIsShown'
    BY <1>8 DEF OpenSheet, SelectionIsShown, Rows, Base
  <1>9. ASSUME NEW a \in Articles, OpenRelated(a) PROVE SelectionIsShown'
    <2>1. Base \in Rows
      BY <1>9 DEF OpenRelated, SelectionIsShown, Base
    <2>. QED BY <1>9, <2>1, SelectionStays DEF OpenRelated
  <1>10. CASE AutoSelect
    <2>1. PICK a \in Rows : SelectRow(a)
      BY <1>10 DEF AutoSelect
    <2>. QED BY <2>1 DEF SelectRow, SelectionIsShown, Rows, Base
  <1>11. CASE CloseSheet
    BY <1>11 DEF CloseSheet, SelectionIsShown, Rows, Base
  <1>12. CASE Resize
    BY <1>12 DEF Resize, SelectionIsShown, Rows, Base
  <1>13. CASE CloseDetail
    BY <1>13, SelectionStays DEF CloseDetail, SelectionIsShown
  <1>14. CASE UNCHANGED rdVars
    BY <1>14, SelectionStays DEF rdVars, SelectionIsShown
  <1>. QED BY <1>1, <1>2, <1>3, <1>4, <1>5, <1>6, <1>7, <1>8, <1>9, <1>10, <1>11, <1>12, <1>13, <1>14
           DEF RdNext

\* An answer kept from before is not one the open article shows.
AnswerIsOfNow == adShown # None /\ adFetch = "none" /\ adShown \notin adFailed => adFresh

LEMMA AnswerMoves == AnswerIsOfNow /\ [AdNext]_adVars => AnswerIsOfNow'
  <1>. SUFFICES ASSUME AnswerIsOfNow, [AdNext]_adVars PROVE AnswerIsOfNow'
    OBVIOUS
  <1>1. ASSUME NEW a, ShowArticle(a) PROVE AnswerIsOfNow'
    BY <1>1 DEF ShowArticle, AnswerIsOfNow
  <1>2. CASE Refocus \/ ServeAccess
    BY <1>2 DEF Refocus, ServeAccess, AnswerIsOfNow
  <1>3. CASE AnswerAccess \/ FailAccess
    BY <1>3 DEF AnswerAccess, FailAccess, AnswerIsOfNow
  <1>4. CASE UNCHANGED <<adShown, adFetch, adFailed, adFresh>>
    BY <1>4 DEF AnswerIsOfNow
  <1>5. SessionTurns \/ SeeRelated \/ AnswerRelated \/ (\E target \in {"title", "info"} : Copy(target) \/ Copied(target))
          \/ TimerFires \/ UNCHANGED adVars => UNCHANGED <<adShown, adFetch, adFailed, adFresh>>
    BY DEF SessionTurns, SeeRelated, AnswerRelated, Copy, Copied, TimerFires, adVars, accessVars
  <1>. QED BY <1>1, <1>2, <1>3, <1>4, <1>5 DEF AdNext, ReadRelated

\* Whatever searches, pages that arrive or fail, resizes and related articles
\* follow each other, the desk and the sheet show no article whose row has
\* gone; and full text or the way to log in is offered only from an answer
\* given since the article was opened (search-results-list.tsx,
\* article-detail-dialog-content.tsx).
THEOREM ReaderIsCurrent == RdSpec /\ AdSpec => []ReaderShowsNow
  <1>1. RdInit => SelectionIsShown
    BY DEF RdInit, SelectionIsShown
  <1>2. AdInit => AnswerIsOfNow
    BY DEF AdInit, AnswerIsOfNow
  <1>3. AnswerIsOfNow => FullTextIsFresh
    BY DEF AnswerIsOfNow, FullTextIsFresh, ShowsFullText, ShowsLogin, CanShowAccess, IsFetching, Known
  <1>. QED BY <1>1, <1>2, <1>3, SelectionMoves, AnswerMoves, PTL DEF RdSpec, AdSpec, ReaderShowsNow

----------------------------------------------------------------------------
\* The pages of the week

\* A list that names nothing twice
OnceEach(list) == \A i, k \in DOMAIN list : list[i] = list[k] => i = k

LEMMA WithoutFits ==
  ASSUME NEW S, NEW list \in Seq(S), OnceEach(list), NEW e
  PROVE  /\ Without(list, e) \in Seq(S)
         /\ OnceEach(Without(list, e))
         /\ ToSet(Without(list, e)) = ToSet(list) \ {e}
  <1>1. CASE e \notin ToSet(list)
    BY <1>1 DEF Without
  <1>2. CASE e \in ToSet(list)
    <2>. DEFINE i == CHOOSE k \in DOMAIN list : list[k] = e
                rest == Without(list, e)
    <2>1. i \in 1..Len(list) /\ list[i] = e
      BY <1>2 DEF ToSet
    <2>2. rest = SubSeq(list, 1, i - 1) \o SubSeq(list, i + 1, Len(list))
      BY <1>2 DEF Without, RemoveAt
    <2>. HIDE DEF i, rest
    <2>a. list \in [1..Len(list) -> S] /\ Len(list) \in Nat
      OBVIOUS
    <2>. DEFINE before == SubSeq(list, 1, i - 1)
                after == SubSeq(list, i + 1, Len(list))
    <2>b. /\ before \in Seq(S) /\ Len(before) = i - 1
          /\ \A k \in 1..(i - 1) : before[k] = list[k]
      BY <2>1, <2>a, SubSeqProperties
    <2>c. /\ after \in Seq(S) /\ Len(after) = Len(list) - i
          /\ \A k \in 1..(Len(list) - i) : after[k] = list[k + i]
      <3>1. i + 1 \in Int /\ Len(list) \in Int /\ \A k \in (i + 1)..Len(list) : list[k] \in S
        BY <2>1, <2>a
      <3>2. /\ after \in Seq(S)
            /\ Len(after) = IF i + 1 <= Len(list) THEN Len(list) - (i + 1) + 1 ELSE 0
            /\ \A k \in 1..(Len(list) - (i + 1) + 1) : after[k] = list[(i + 1) + k - 1]
        BY <3>1, SubSeqProperties
      <3>0. i \in Nat /\ i <= Len(list)
        BY <2>1, <2>a
      <3>3. Len(list) - (i + 1) + 1 = Len(list) - i /\ Len(after) = Len(list) - i
        <4>1. Len(list) - (i + 1) + 1 = Len(list) - i
          BY <2>a, <3>0
        <4>2. CASE i + 1 <= Len(list)
          BY <3>2, <4>1, <4>2
        <4>3. CASE ~(i + 1 <= Len(list))
          <5>1. ASSUME NEW m \in Nat, NEW k \in Nat, k <= m, ~(k + 1 <= m) PROVE m - k = 0
            BY <5>1
          <5>2. Len(list) - i = 0
            BY <2>a, <3>0, <4>3, <5>1
          <5>. QED BY <3>2, <4>1, <4>3, <5>2
        <4>. QED BY <4>2, <4>3
      <3>4. ASSUME NEW k \in 1..(Len(list) - i) PROVE after[k] = list[k + i]
        <4>1. (i + 1) + k - 1 = k + i
          BY <2>1
        <4>2. after[k] = list[(i + 1) + k - 1]
          BY <3>2, <3>3
        <4>. QED BY <4>1, <4>2
      <3>. QED BY <3>2, <3>3, <3>4
    <2>d. rest = before \o after
      BY <2>2
    <2>. HIDE DEF before, after
    <2>e. /\ rest \in Seq(S) /\ Len(rest) = Len(before) + Len(after)
          /\ \A k \in 1..(Len(before) + Len(after)) :
                rest[k] = IF k <= Len(before) THEN before[k] ELSE after[k - Len(before)]
      BY <2>b, <2>c, <2>d, ConcatProperties
    <2>. DEFINE from(k) == IF k < i THEN k ELSE k + 1
    <2>3. /\ rest \in Seq(S) /\ Len(rest) = Len(list) - 1
          /\ \A k \in 1..Len(rest) : from(k) \in 1..Len(list) \ {i} /\ rest[k] = list[from(k)]
      <3>1. Len(before) = i - 1 /\ Len(after) = Len(list) - i /\ Len(rest) = Len(list) - 1
        BY <2>1, <2>a, <2>b, <2>c, <2>e
      <3>2. ASSUME NEW k \in 1..Len(rest)
            PROVE  from(k) \in 1..Len(list) \ {i} /\ rest[k] = list[from(k)]
        <4>1. CASE k < i
          <5>1. rest[k] = before[k] /\ before[k] = list[k]
            BY <2>1, <2>a, <2>b, <2>e, <3>1, <4>1
          <5>. QED BY <2>1, <2>a, <3>1, <4>1, <5>1
        <4>2. CASE k >= i
          <5>1. rest[k] = after[k - (i - 1)]
            BY <2>1, <2>a, <2>e, <3>1, <4>2
          <5>2. k - (i - 1) \in 1..(Len(list) - i) /\ (k - (i - 1)) + i = k + 1
            BY <2>1, <2>a, <3>1, <4>2
          <5>3. after[k - (i - 1)] = list[k + 1]
            BY <2>c, <5>2
          <5>. QED BY <2>1, <2>a, <3>1, <4>2, <5>1, <5>3
        <4>. QED BY <2>1, <4>1, <4>2
      <3>. QED BY <2>e, <3>1, <3>2
    <2>f. \A k, l \in 1..Len(list) : list[k] = list[l] => k = l
      BY DEF OnceEach
    <2>4. OnceEach(rest)
      <3>. SUFFICES ASSUME NEW k \in 1..Len(rest), NEW l \in 1..Len(rest), rest[k] = rest[l]
                    PROVE  k = l
        BY <2>3 DEF OnceEach
      <3>1. from(k) = from(l)
        BY <2>3, <2>f
      <3>. QED BY <2>1, <3>1
    <2>5. \A k \in 1..Len(rest) : rest[k] \in ToSet(list) \ {e}
      <3>. SUFFICES ASSUME NEW k \in 1..Len(rest) PROVE rest[k] \in ToSet(list) \ {e}
        OBVIOUS
      <3>1. PICK l \in 1..Len(list) : l # i /\ rest[k] = list[l]
        BY <2>3
      <3>. QED BY <2>1, <2>f, <3>1 DEF ToSet
    <2>6. \A k \in 1..Len(list) : list[k] # e => list[k] \in ToSet(rest)
      <3>. SUFFICES ASSUME NEW k \in 1..Len(list), list[k] # e PROVE list[k] \in ToSet(rest)
        OBVIOUS
      <3>1. CASE k < i
        <4>1. k \in 1..Len(rest) /\ rest[k] = list[k]
          BY <2>1, <2>3, <3>1
        <4>. QED BY <4>1, <2>3 DEF ToSet
      <3>2. CASE k > i
        <4>1. k - 1 \in 1..Len(rest) /\ rest[k - 1] = list[k]
          BY <2>1, <2>3, <3>2
        <4>. QED BY <4>1, <2>3 DEF ToSet
      <3>. QED BY <2>1, <3>1, <3>2
    <2>7. ToSet(rest) = ToSet(list) \ {e}
      BY <2>3, <2>5, <2>6 DEF ToSet
    <2>. QED BY <2>3, <2>4, <2>7 DEF rest
  <1>. QED BY <1>1, <1>2

LEMMA PrependFits ==
  ASSUME NEW S, NEW list \in Seq(S), OnceEach(list), NEW e \in S, e \notin ToSet(list)
  PROVE  /\ <<e>> \o list \in Seq(S)
         /\ OnceEach(<<e>> \o list)
         /\ ToSet(<<e>> \o list) = ToSet(list) \union {e}
         /\ <<e>> \o list # <<>>
  <1>. DEFINE all == <<e>> \o list
  <1>1. <<e>> \in Seq(S) /\ Len(<<e>>) = 1 /\ <<e>>[1] = e
    OBVIOUS
  <1>2. /\ all \in Seq(S) /\ Len(all) = 1 + Len(list)
        /\ \A i \in 1..(1 + Len(list)) : all[i] = IF i <= 1 THEN <<e>>[i] ELSE list[i - 1]
    BY <1>1, ConcatProperties
  <1>. HIDE DEF all
  <1>3. Len(list) \in Nat /\ \A i \in 1..Len(list) : list[i] # e
    BY DEF ToSet
  <1>4. all[1] = e /\ \A i \in 1..Len(list) : i + 1 \in 1..Len(all) /\ all[i + 1] = list[i]
    BY <1>1, <1>2, <1>3
  <1>5. \A k \in 1..Len(all) : k = 1 \/ (k - 1 \in 1..Len(list) /\ all[k] = list[k - 1])
    BY <1>2, <1>3
  <1>6. OnceEach(all)
    <2>. SUFFICES ASSUME NEW i \in 1..Len(all), NEW k \in 1..Len(all), all[i] = all[k] PROVE i = k
      BY <1>2 DEF OnceEach
    <2>0. \A m \in 1..Len(all) : m # 1 => all[m] # e
      BY <1>3, <1>5
    <2>1. CASE i = 1 \/ k = 1
      BY <1>4, <2>0, <2>1
    <2>2. CASE i # 1 /\ k # 1
      <3>1. i - 1 = k - 1
        BY <1>5, <2>2 DEF OnceEach
      <3>. QED BY <3>1
    <2>. QED BY <2>1, <2>2
  <1>7. ToSet(all) = ToSet(list) \union {e}
    <2>1. \A k \in 1..Len(all) : all[k] \in ToSet(list) \union {e}
      <3>. SUFFICES ASSUME NEW k \in 1..Len(all) PROVE all[k] \in ToSet(list) \union {e}
        OBVIOUS
      <3>1. CASE k = 1
        BY <1>4, <3>1
      <3>2. CASE k - 1 \in 1..Len(list) /\ all[k] = list[k - 1]
        BY <3>2 DEF ToSet
      <3>. QED BY <1>5, <3>1, <3>2
    <2>2. \A i \in 1..Len(list) : list[i] \in ToSet(all)
      <3>. SUFFICES ASSUME NEW i \in 1..Len(list) PROVE list[i] \in ToSet(all)
        OBVIOUS
      <3>1. i + 1 \in DOMAIN all /\ all[i + 1] = list[i]
        BY <1>2, <1>4
      <3>. QED BY <3>1 DEF ToSet
    <2>3. e \in ToSet(all)
      <3>1. 1 \in DOMAIN all /\ all[1] = e
        BY <1>2, <1>3, <1>4
      <3>. QED BY <3>1 DEF ToSet
    <2>4. DOMAIN all = 1..Len(all) /\ DOMAIN list = 1..Len(list)
      BY <1>2
    <2>5. ToSet(all) \subseteq ToSet(list) \union {e}
      BY <2>1, <2>4 DEF ToSet
    <2>6. ToSet(list) \subseteq ToSet(all)
      BY <2>2, <2>4 DEF ToSet
    <2>. QED BY <2>3, <2>5, <2>6
  <1>8. all # <<>>
    BY <1>2, <1>3
  <1>. QED BY <1>2, <1>6, <1>7, <1>8 DEF all

----------------------------------------------------------------------------
(* The weekly updates.  A request of a list holds the list's key, so that   *)
(* whatever comes back of it fits the key; and a summary names the          *)
(* databases that have journals in it.                                      *)

NewsFit(news, of) ==
  /\ news \in Seq(WeeklyDbs) /\ OnceEach(news)
  /\ of \in [WeeklyDbs -> Seq(WeeklyJournals)]
  /\ \A d \in WeeklyDbs : OnceEach(of[d]) /\ (d \in ToSet(news) <=> of[d] # <<>>)

SummaryFits(summary, weeks) ==
  summary # None => summary.week \in 1..weeks /\ NewsFit(summary.news, summary.of)

RequestsOf(key) == [kind : {"next", "all"}, week : {key.week}, q : {key.q}, db : {key.db}, journal : {key.journal}]

QueryFits(key, query) ==
  /\ query \in [pages : Seq({key}), more : BOOLEAN, failed : BOOLEAN, fetch : RequestsOf(key) \union {None}]
  /\ Len(query.pages) <= MaxWeeklyPages
  /\ query.more => Len(query.pages) < MaxWeeklyPages
  /\ query.fetch # None /\ query.fetch.kind = "next" => query.more

QueriesFit ==
  /\ wkQueries = [key \in WeeklyKeys |-> wkQueries[key]]
  /\ \A key \in WeeklyKeys : QueryFits(key, wkQueries[key])

WeeklyInv ==
  /\ NewsFit(wkNews, wkOf)
  /\ wkWeeks \in 0..MaxWeeks /\ SummaryFits(wkSummary, wkWeeks)
  /\ wkAsked \in BOOLEAN /\ wkFailed \in BOOLEAN /\ wkListed \in BOOLEAN
  /\ wkUrl \in WeeklyUrls
  /\ wkVisible.count \in Nat \ {0}
  /\ QueriesFit

\* What is selected is in the news, and its key is one of the lists.
LEMMA KeyFits ==
  ASSUME NEW summary, NEW weeks \in 0..MaxWeeks, SummaryFits(summary, weeks), NEW listed \in BOOLEAN,
         NEW url \in WeeklyUrls
  PROVE  /\ WeeklyKey(summary, listed, url) \in WeeklyKeys \union {None}
         /\ EffectiveJournal(summary, listed, url) # None =>
              /\ WeeklyKey(summary, listed, url) \in WeeklyKeys
              /\ WeeklyKey(summary, listed, url) =
                   [db |-> EffectiveDb(summary, listed, url), journal |-> EffectiveJournal(summary, listed, url),
                    q |-> url.q, week |-> summary.week]
              /\ summary # None
              /\ EffectiveDb(summary, listed, url) \in ToSet(summary.news)
         /\ WeeklyKey(summary, listed, url) # None => EffectiveJournal(summary, listed, url) # None
  <1>. DEFINE available == AvailableDbs(summary, listed)
              d == EffectiveDb(summary, listed, url)
              journals == JournalsIn(summary, d)
              j == EffectiveJournal(summary, listed, url)
  <1>1. available \in Seq(WeeklyDbs)
    <2>1. WeeklyOrder \in Seq(WeeklyDbs) /\ <<>> \in Seq(WeeklyDbs)
      BY WeeklyConstants
    <2>2. summary # None => summary.news \in Seq(WeeklyDbs)
      BY DEF SummaryFits, NewsFit
    <2>. QED BY <2>1, <2>2 DEF AvailableDbs
  <1>. HIDE DEF available
  <1>2. available # <<>> => Head(available) \in WeeklyDbs /\ ToSet(available) \subseteq WeeklyDbs
    BY <1>1 DEF ToSet
  <1>3. d \in WeeklyDbs \union {None}
    BY <1>2 DEF EffectiveDb, available
  <1>. HIDE DEF d
  <1>4. journals # <<>> => summary # None /\ d \in WeeklyDbs /\ journals = summary.of[d]
    BY <1>3 DEF JournalsIn
  <1>5. journals # <<>> => journals \in Seq(WeeklyJournals) /\ d \in ToSet(summary.news)
    BY <1>4 DEF SummaryFits, NewsFit
  <1>. HIDE DEF journals
  <1>6. journals # <<>> => Head(journals) \in WeeklyJournals /\ ToSet(journals) \subseteq WeeklyJournals
    BY <1>5 DEF ToSet
  <1>7. j # None => journals # <<>> /\ j \in WeeklyJournals
    BY <1>6 DEF EffectiveJournal, journals, d
  <1>. HIDE DEF j
  <1>8. summary # None => summary.week \in 1..MaxWeeks
    BY WeeklyConstants DEF SummaryFits
  <1>9. url.q \in WeeklyQueries
    BY DEF WeeklyUrls
  <1>10. j # None => [db |-> d, journal |-> j, q |-> url.q, week |-> summary.week] \in WeeklyKeys
    BY <1>4, <1>5, <1>7, <1>8, <1>9 DEF WeeklyKeys
  <1>11. WeeklyKey(summary, listed, url) = IF j = None THEN None
           ELSE [db |-> d, journal |-> j, q |-> url.q, week |-> summary.week]
    BY DEF WeeklyKey, j, d
  <1>. QED BY <1>4, <1>5, <1>7, <1>10, <1>11 DEF j, d

LEMMA AskFits ==
  ASSUME NEW summary, NEW listed, NEW url, NEW key, NEW query, NEW kind \in {"next", "all"},
         key = [db |-> EffectiveDb(summary, listed, url), journal |-> EffectiveJournal(summary, listed, url),
                q |-> url.q, week |-> summary.week],
         QueryFits(key, query), kind = "next" => query.more
  PROVE  QueryFits(key, AskPages(query, kind, summary, listed, url))
  <1>. DEFINE fetch == [kind |-> kind, week |-> summary.week, q |-> url.q,
                        db |-> EffectiveDb(summary, listed, url),
                        journal |-> EffectiveJournal(summary, listed, url)]
              asked == AskPages(query, kind, summary, listed, url)
  <1>1. fetch \in RequestsOf(key) /\ fetch.kind = kind
    BY DEF RequestsOf
  <1>. HIDE DEF fetch
  <1>2. (query.failed /\ query.pages # <<>>) \in BOOLEAN
    OBVIOUS
  <1>3. asked = [query EXCEPT !.fetch = fetch, !.failed = (query.failed /\ query.pages # <<>>)]
    BY DEF AskPages, fetch, QueryFits
  <1>4. asked \in [pages : Seq({key}), more : BOOLEAN, failed : BOOLEAN, fetch : RequestsOf(key) \union {None}]
    BY <1>1, <1>2, <1>3 DEF QueryFits
  <1>5. asked.pages = query.pages /\ asked.more = query.more /\ asked.fetch = fetch
    BY <1>3 DEF QueryFits
  <1>. QED BY <1>1, <1>4, <1>5 DEF QueryFits

LEMMA TurnsKeep ==
  ASSUME WeeklyInv, NEW weeks \in 0..MaxWeeks, NEW summary, SummaryFits(summary, weeks),
         NEW listed \in BOOLEAN, NEW url \in WeeklyUrls, Turns(summary, listed, url)
  PROVE  QueriesFit'
  <1>. DEFINE key == WeeklyKey(summary, listed, url)
              left == IF ShownKey = None \/ ShownKey = key THEN wkQueries
                      ELSE [wkQueries EXCEPT ![ShownKey].fetch = None]
  <1>1. QueriesFit
    BY DEF WeeklyInv
  <1>2. left = [k \in WeeklyKeys |-> left[k]] /\ \A k \in WeeklyKeys : QueryFits(k, left[k])
    <2>1. CASE left = wkQueries
      BY <1>1, <2>1 DEF QueriesFit
    <2>2. CASE left = [wkQueries EXCEPT ![ShownKey].fetch = None]
      <3>. SUFFICES ASSUME NEW k \in WeeklyKeys PROVE QueryFits(k, left[k])
        BY <1>1, <2>2 DEF QueriesFit
      <3>1. left[k] = wkQueries[k] \/ left[k] = [wkQueries[k] EXCEPT !.fetch = None]
        BY <1>1, <2>2 DEF QueriesFit
      <3>2. QueryFits(k, wkQueries[k])
        BY <1>1 DEF QueriesFit
      <3>. QED BY <3>1, <3>2 DEF QueryFits
    <2>. QED BY <2>1, <2>2
  <1>3. wkQueries' = IF key # None /\ key # ShownKey /\ (left[key].pages = <<>> \/ left[key].failed)
                     THEN [left EXCEPT ![key] = AskPages(left[key], "all", summary, listed, url)] ELSE left
    <2>. HIDE DEF key
    <2>. QED BY DEF Turns, key
  <1>. HIDE DEF left
  <1>4. CASE wkQueries' = left
    BY <1>2, <1>4 DEF QueriesFit
  <1>5. CASE /\ key # None
             /\ wkQueries' = [left EXCEPT ![key] = AskPages(left[key], "all", summary, listed, url)]
    <2>1. /\ key \in WeeklyKeys
          /\ key = [db |-> EffectiveDb(summary, listed, url), journal |-> EffectiveJournal(summary, listed, url),
                    q |-> url.q, week |-> summary.week]
      BY <1>5, KeyFits
    <2>. HIDE DEF key
    <2>2. QueryFits(key, AskPages(left[key], "all", summary, listed, url))
      BY <1>2, <2>1, AskFits
    <2>. QED BY <1>2, <1>5, <2>1, <2>2 DEF QueriesFit
  <1>. QED BY <1>3, <1>4, <1>5

\* What is on the screen comes from the list of what is selected.
LEMMA RowsHaveKey ==
  ASSUME WeeklyInv, WeeklyRows # <<>>
  PROVE  /\ ShownKey \in WeeklyKeys
         /\ ShownKey = [db |-> EffectiveDb(wkSummary, wkListed, wkUrl), journal |-> ShownJournal,
                        q |-> wkUrl.q, week |-> wkSummary.week]
         /\ EffectiveDb(wkSummary, wkListed, wkUrl) \in ToSet(wkSummary.news)
         /\ \A i \in DOMAIN WeeklyRows : WeeklyRows[i] = ShownKey
  <1>1. ArticlePanel = "results"
    BY DEF WeeklyRows
  <1>2. ShownJournal # None
    BY <1>1 DEF ArticlePanel, ArticleState, WeeklyState
  <1>3. /\ ShownKey \in WeeklyKeys
        /\ ShownKey = [db |-> EffectiveDb(wkSummary, wkListed, wkUrl), journal |-> ShownJournal,
                       q |-> wkUrl.q, week |-> wkSummary.week]
        /\ EffectiveDb(wkSummary, wkListed, wkUrl) \in ToSet(wkSummary.news)
    BY <1>2, KeyFits DEF WeeklyInv, ShownKey, ShownJournal
  <1>. DEFINE pages == wkQueries[ShownKey].pages
              n == IF RevealedPages < Len(pages) THEN RevealedPages ELSE Len(pages)
  <1>5. pages \in Seq({ShownKey})
    BY <1>3 DEF WeeklyInv, QueriesFit, QueryFits
  <1>6. WeeklyRows = SubSeq(pages, 1, n)
    BY <1>1 DEF WeeklyRows
  <1>7. RevealedPages \in Nat
    BY DEF RevealedPages, WeeklyInv
  <1>. HIDE DEF pages
  <1>8. n \in Nat /\ n <= Len(pages)
    BY <1>5, <1>7
  <1>. HIDE DEF n
  <1>9. SubSeq(pages, 1, n) \in Seq({ShownKey})
    BY <1>5, <1>8, SubSeqProperties
  <1>. QED BY <1>3, <1>6, <1>9

LEMMA WeeklyStart == WkInit => WeeklyInv
  <1>. SUFFICES ASSUME WkInit PROVE WeeklyInv
    OBVIOUS
  <1>1. NewsFit(wkNews, wkOf)
    BY DEF WkInit, NewsFit, OnceEach, ToSet
  <1>2. QueriesFit
    <2>1. \A key \in WeeklyKeys : QueryFits(key, NoPages)
      BY WeeklyConstants DEF NoPages, QueryFits
    <2>. QED BY <2>1 DEF WkInit, QueriesFit
  <1>3. wkWeeks \in 0..MaxWeeks
    BY WeeklyConstants DEF WkInit
  <1>4. wkAsked \in BOOLEAN /\ wkFailed \in BOOLEAN /\ wkListed \in BOOLEAN /\ wkUrl \in WeeklyUrls
    BY DEF WkInit
  <1>5. wkVisible.count \in Nat \ {0} /\ SummaryFits(wkSummary, wkWeeks)
    BY DEF WkInit, SummaryFits
  <1>. QED BY <1>1, <1>2, <1>3, <1>4, <1>5 DEF WeeklyInv

LEMMA NextKeeps ==
  ASSUME WeeklyInv, WeeklyRows # <<>>, NextWeekly
  PROVE  QueriesFit'
  <1>1. QueriesFit
    BY DEF WeeklyInv
  <1>2. QueryFits(ShownKey, wkQueries[ShownKey]) /\ ShownKey \in WeeklyKeys
    BY <1>1, RowsHaveKey DEF QueriesFit
  <1>. DEFINE asked == AskPages(wkQueries[ShownKey], "next", wkSummary, wkListed, wkUrl)
  <1>3. QueryFits(ShownKey, asked)
    BY <1>2, RowsHaveKey, AskFits DEF NextWeekly, ShownJournal
  <1>4. wkQueries' = [wkQueries EXCEPT ![ShownKey] = asked]
    BY DEF NextWeekly
  <1>. HIDE DEF asked
  <1>5. wkQueries' = [k \in WeeklyKeys |-> IF k = ShownKey THEN asked ELSE wkQueries[k]]
    BY <1>1, <1>2, <1>4 DEF QueriesFit
  <1>. QED BY <1>1, <1>3, <1>5 DEF QueriesFit

LEMMA AnswerWeeklyKeeps == WeeklyInv /\ AnswerWeekly => WeeklyInv'
  <1>. SUFFICES ASSUME WeeklyInv, AnswerWeekly PROVE WeeklyInv'
    OBVIOUS
  <1>1. PICK key \in WeeklyKeys, more \in BOOLEAN :
          LET query == wkQueries[key]
              asked == [db |-> query.fetch.db, journal |-> query.fetch.journal, q |-> query.fetch.q,
                        week |-> query.fetch.week]
              pages == IF query.fetch.kind = "next" THEN Append(query.pages, asked)
                       ELSE [i \in 1..(IF Len(query.pages) > 1 /\ more THEN Len(query.pages) ELSE 1) |-> asked]
          IN  /\ query.fetch # None /\ (more => Len(pages) < MaxWeeklyPages)
              /\ wkQueries' = [wkQueries EXCEPT ![key] = [pages |-> pages, more |-> more, failed |-> FALSE,
                                                          fetch |-> None]]
              /\ UNCHANGED <<wkServer, wkSummaryVars, wkListed, wkUrl, wkVisible, wkSpent>>
    BY DEF AnswerWeekly
  <1>. DEFINE query == wkQueries[key]
              asked == [db |-> query.fetch.db, journal |-> query.fetch.journal, q |-> query.fetch.q,
                        week |-> query.fetch.week]
              n == IF Len(query.pages) > 1 /\ more THEN Len(query.pages) ELSE 1
              pages == IF query.fetch.kind = "next" THEN Append(query.pages, asked) ELSE [i \in 1..n |-> asked]
              new == [pages |-> pages, more |-> more, failed |-> FALSE, fetch |-> None]
  <1>2. /\ query.fetch # None /\ (more => Len(pages) < MaxWeeklyPages)
        /\ wkQueries' = [wkQueries EXCEPT ![key] = new]
        /\ UNCHANGED <<wkServer, wkSummaryVars, wkListed, wkUrl, wkVisible, wkSpent>>
    BY <1>1
  <1>3. QueriesFit /\ QueryFits(key, query)
    BY DEF WeeklyInv, QueriesFit
  <1>4. asked = key
    <2>1. query.fetch \in RequestsOf(key)
      BY <1>2, <1>3 DEF QueryFits
    <2>. QED BY <2>1 DEF RequestsOf, WeeklyKeys
  <1>. HIDE DEF query, asked
  <1>5. query.pages \in Seq({key}) /\ Len(query.pages) \in Nat /\ Len(query.pages) <= MaxWeeklyPages
    BY <1>3 DEF QueryFits
  <1>6. pages \in Seq({key}) /\ Len(pages) <= MaxWeeklyPages
    <2>1. CASE query.fetch.kind = "next"
      <3>1. Len(query.pages) < MaxWeeklyPages
        BY <1>2, <1>3, <2>1 DEF QueryFits
      <3>. QED BY <1>4, <1>5, <2>1, <3>1, WeeklyConstants
    <2>2. CASE query.fetch.kind # "next"
      <3>1. n \in Nat /\ n <= MaxWeeklyPages
        BY <1>5, WeeklyConstants
      <3>. HIDE DEF n
      <3>2. pages = [i \in 1..n |-> key]
        BY <1>4, <2>2
      <3>3. pages \in [1..n -> {key}]
        BY <3>2
      <3>. HIDE DEF pages
      <3>. QED BY <3>1, <3>3
    <2>. QED BY <2>1, <2>2
  <1>. HIDE DEF pages
  <1>7. QueryFits(key, new)
    BY <1>2, <1>6 DEF QueryFits
  <1>. HIDE DEF new
  <1>8. wkQueries' = [k \in WeeklyKeys |-> IF k = key THEN new ELSE wkQueries[k]]
    BY <1>2, <1>3 DEF QueriesFit
  <1>9. QueriesFit'
    BY <1>3, <1>7, <1>8 DEF QueriesFit
  <1>. QED BY <1>2, <1>9 DEF WeeklyInv, wkServer, wkSummaryVars

LEMMA PageStepsKeep ==
  ASSUME WeeklyInv, FailWeekly \/ NearEnd \/ ReachEnd
  PROVE  WeeklyInv'
  <1>1. ASSUME FailWeekly PROVE WeeklyInv'
    <2>1. PICK key \in WeeklyKeys : wkQueries' = [wkQueries EXCEPT ![key].failed = TRUE, ![key].fetch = None]
      BY <1>1 DEF FailWeekly
    <2>2. QueriesFit
      BY DEF WeeklyInv
    <2>. DEFINE new == [wkQueries[key] EXCEPT !.failed = TRUE, !.fetch = None]
    <2>3. QueryFits(key, new)
      BY <2>2 DEF QueriesFit, QueryFits
    <2>4. wkQueries' = [wkQueries EXCEPT ![key] = new]
      BY <2>1, <2>2 DEF QueriesFit, QueryFits
    <2>. HIDE DEF new
    <2>5. wkQueries' = [k \in WeeklyKeys |-> IF k = key THEN new ELSE wkQueries[k]]
      BY <2>2, <2>4 DEF QueriesFit
    <2>6. QueriesFit'
      BY <2>2, <2>3, <2>5 DEF QueriesFit
    <2>. QED BY <1>1, <2>6 DEF FailWeekly, WeeklyInv, wkServer, wkSummaryVars
  <1>2. ASSUME NearEnd PROVE WeeklyInv'
    BY <1>2, NextKeeps DEF NearEnd, WeeklyInv, wkServer, wkSummaryVars
  <1>3. ASSUME ReachEnd PROVE WeeklyInv'
    <2>1. CASE UNCHANGED wkQueries /\ wkVisible' = [list |-> ShownKey, count |-> RevealedPages + 1]
      <3>1. wkVisible'.count \in Nat \ {0}
        BY <2>1 DEF RevealedPages, WeeklyInv
      <3>. QED BY <1>3, <2>1, <3>1 DEF ReachEnd, WeeklyInv, QueriesFit, wkServer, wkSummaryVars
    <2>2. CASE NextWeekly /\ UNCHANGED wkVisible
      BY <1>3, <2>2, NextKeeps DEF ReachEnd, WeeklyInv, wkServer, wkSummaryVars
    <2>. QED BY <1>3, <2>1, <2>2 DEF ReachEnd
  <1>. QED BY <1>1, <1>2, <1>3

LEMMA SummaryStepsKeep ==
  ASSUME WeeklyInv, AnswerSummary \/ FailSummary \/ FocusWeekly \/ ListDatabases
  PROVE  WeeklyInv'
  <1>1. ASSUME AnswerSummary PROVE WeeklyInv'
    <2>1. wkWeeks' \in 0..MaxWeeks /\ wkWeeks' \in 1..wkWeeks'
      <3>1. MaxWeeks \in Nat /\ wkWeeks \in 0..MaxWeeks
        BY WeeklyConstants DEF WeeklyInv
      <3>2. wkWeeks < MaxWeeks /\ wkWeeks' = wkWeeks + 1
        BY <1>1 DEF AnswerSummary
      <3>. QED BY <3>1, <3>2
    <2>2. wkSummary' = [week |-> wkWeeks', news |-> wkNews, of |-> wkOf]
      BY <1>1 DEF AnswerSummary
    <2>3. SummaryFits(wkSummary', wkWeeks')
      BY <2>1, <2>2 DEF SummaryFits, WeeklyInv
    <2>4. QueriesFit'
      BY <1>1, <2>1, <2>3, TurnsKeep DEF AnswerSummary, WeeklyInv
    <2>. QED BY <1>1, <2>1, <2>3, <2>4 DEF AnswerSummary, WeeklyInv, wkServer
  <1>2. ASSUME FailSummary PROVE WeeklyInv'
    BY <1>2 DEF FailSummary, WeeklyInv, QueriesFit, wkServer
  <1>3. ASSUME FocusWeekly PROVE WeeklyInv'
    <2>1. wkAsked' \in BOOLEAN /\ wkFailed' \in BOOLEAN
      BY <1>3 DEF FocusWeekly, WeeklyInv
    <2>2. CASE UNCHANGED wkQueries
      BY <1>3, <2>1, <2>2 DEF FocusWeekly, WeeklyInv, QueriesFit, wkServer
    <2>3. CASE /\ ShownKey # None
               /\ wkQueries' = [wkQueries EXCEPT ![ShownKey] =
                                  AskPages(wkQueries[ShownKey], "all", wkSummary, wkListed, wkUrl)]
      <3>. DEFINE asked == AskPages(wkQueries[ShownKey], "all", wkSummary, wkListed, wkUrl)
      <3>1. /\ ShownKey \in WeeklyKeys
            /\ ShownKey = [db |-> EffectiveDb(wkSummary, wkListed, wkUrl),
                           journal |-> EffectiveJournal(wkSummary, wkListed, wkUrl),
                           q |-> wkUrl.q, week |-> wkSummary.week]
        BY <2>3, KeyFits DEF WeeklyInv, ShownKey
      <3>2. QueryFits(ShownKey, asked)
        BY <3>1, AskFits DEF WeeklyInv, QueriesFit
      <3>. HIDE DEF asked
      <3>3. wkQueries' = [k \in WeeklyKeys |-> IF k = ShownKey THEN asked ELSE wkQueries[k]]
        BY <2>3, <3>1 DEF asked, WeeklyInv, QueriesFit
      <3>4. QueriesFit'
        BY <3>2, <3>3 DEF WeeklyInv, QueriesFit
      <3>. QED BY <1>3, <2>1, <3>4 DEF FocusWeekly, WeeklyInv, wkServer
    <2>. QED BY <1>3, <2>2, <2>3 DEF FocusWeekly
  <1>4. ASSUME ListDatabases PROVE WeeklyInv'
    <2>1. QueriesFit'
      BY <1>4, TurnsKeep DEF ListDatabases, WeeklyInv
    <2>. QED BY <1>4, <2>1 DEF ListDatabases, WeeklyInv, wkServer, wkSummaryVars
  <1>. QED BY <1>1, <1>2, <1>3, <1>4

LEMMA ServerNewsKeep ==
  ASSUME WeeklyInv, NEW d \in WeeklyDbs, NEW j \in WeeklyJournals, Publish(d, j) \/ Leave(d, j)
  PROVE  WeeklyInv'
  <1>1. /\ wkNews \in Seq(WeeklyDbs) /\ OnceEach(wkNews)
        /\ wkOf \in [WeeklyDbs -> Seq(WeeklyJournals)]
        /\ \A e \in WeeklyDbs : OnceEach(wkOf[e]) /\ (e \in ToSet(wkNews) <=> wkOf[e] # <<>>)
    BY DEF WeeklyInv, NewsFit
  <1>2. /\ Without(wkNews, d) \in Seq(WeeklyDbs) /\ OnceEach(Without(wkNews, d))
        /\ ToSet(Without(wkNews, d)) = ToSet(wkNews) \ {d}
    BY <1>1, WithoutFits
  <1>3. /\ Without(wkOf[d], j) \in Seq(WeeklyJournals) /\ OnceEach(Without(wkOf[d], j))
        /\ ToSet(Without(wkOf[d], j)) = ToSet(wkOf[d]) \ {j}
    BY <1>1, WithoutFits
  <1>4. NewsFit(wkNews', wkOf')
    <2>1. CASE Publish(d, j)
      <3>. DEFINE news == <<d>> \o Without(wkNews, d)
                  of == <<j>> \o Without(wkOf[d], j)
      <3>1. /\ news \in Seq(WeeklyDbs) /\ OnceEach(news) /\ ToSet(news) = ToSet(wkNews) \union {d}
        BY <1>2, PrependFits
      <3>2. of \in Seq(WeeklyJournals) /\ OnceEach(of) /\ of # <<>>
        BY <1>3, PrependFits
      <3>3. wkNews' = news /\ wkOf' = [wkOf EXCEPT ![d] = of]
        BY <2>1 DEF Publish
      <3>. HIDE DEF news, of
      <3>. QED BY <1>1, <3>1, <3>2, <3>3 DEF NewsFit
    <2>2. CASE Leave(d, j)
      <3>. DEFINE of == Without(wkOf[d], j)
      <3>1. wkOf' = [wkOf EXCEPT ![d] = of] /\ wkNews' = IF wkOf'[d] = <<>> THEN Without(wkNews, d) ELSE wkNews
        BY <2>2 DEF Leave
      <3>2. wkOf[d] # <<>> /\ wkOf'[d] = of
        <4>1. j \in ToSet(wkOf[d])
          BY <2>2 DEF Leave
        <4>. QED BY <1>1, <3>1, <4>1 DEF ToSet
      <3>. HIDE DEF of
      <3>3. d \in ToSet(wkNews)
        BY <1>1, <3>2
      <3>4. wkOf' \in [WeeklyDbs -> Seq(WeeklyJournals)] /\ \A e \in WeeklyDbs : OnceEach(wkOf'[e])
        BY <1>1, <1>3, <3>1, <3>2 DEF of
      <3>5. \A e \in WeeklyDbs : e # d => wkOf'[e] = wkOf[e]
        BY <1>1, <3>1
      <3>6. CASE of = <<>>
        BY <1>1, <1>2, <3>1, <3>2, <3>4, <3>5, <3>6 DEF NewsFit
      <3>7. CASE of # <<>>
        BY <1>1, <3>1, <3>2, <3>3, <3>4, <3>5, <3>7 DEF NewsFit
      <3>. QED BY <3>6, <3>7
    <2>. QED BY <2>1, <2>2
  <1>5. UNCHANGED <<wkSummaryVars, wkListed, wkUrl, wkQueries, wkVisible>>
    BY DEF Publish, Leave
  <1>. QED BY <1>4, <1>5 DEF WeeklyInv, QueriesFit, wkSummaryVars

LEMMA VisitsKeep ==
  ASSUME WeeklyInv, NEW url \in WeeklyUrls, VisitWeekly(url)
  PROVE  WeeklyInv'
  <1>1. QueriesFit'
    BY TurnsKeep DEF VisitWeekly, WeeklyInv
  <1>. QED BY <1>1 DEF VisitWeekly, WeeklyInv, wkServer, wkSummaryVars

LEMMA WeeklyMoves == WeeklyInv /\ [WkNext]_wkVars => WeeklyInv'
  <1>. SUFFICES ASSUME WeeklyInv, [WkNext]_wkVars PROVE WeeklyInv'
    OBVIOUS
  <1>1. CASE UNCHANGED wkVars
    BY <1>1 DEF wkVars, wkServer, wkSummaryVars, WeeklyInv, QueriesFit
  <1>2. ASSUME NEW d \in WeeklyDbs, ChooseWeeklyDatabase(d) PROVE WeeklyInv'
    <2>1. [wkUrl EXCEPT !.db = d, !.journal = None] \in WeeklyUrls
      BY DEF WeeklyInv, WeeklyUrls
    <2>. QED BY <1>2, <2>1, VisitsKeep DEF ChooseWeeklyDatabase
  <1>3. ASSUME NEW j \in WeeklyJournals, ChooseWeeklyJournal(j) PROVE WeeklyInv'
    <2>1. [wkUrl EXCEPT !.journal = j] \in WeeklyUrls
      BY DEF WeeklyInv, WeeklyUrls
    <2>. QED BY <1>3, <2>1, VisitsKeep DEF ChooseWeeklyJournal
  <1>. QED BY <1>1, <1>2, <1>3, AnswerWeeklyKeeps, PageStepsKeep, SummaryStepsKeep, ServerNewsKeep, VisitsKeep
           DEF WkNext

LEMMA WeeklyShows == WeeklyInv => WkTypeOK /\ RowsFitTheirWeek
  <1>. SUFFICES ASSUME WeeklyInv PROVE WkTypeOK /\ RowsFitTheirWeek
    OBVIOUS
  <1>1. ShownKey \in WeeklyKeys \union {None}
    BY KeyFits DEF WeeklyInv, ShownKey
  <1>2. \A key \in WeeklyKeys : /\ wkQueries[key].pages \in Seq(WeeklyKeys)
                                /\ Len(wkQueries[key].pages) <= MaxWeeklyPages
    <2>. SUFFICES ASSUME NEW key \in WeeklyKeys
                  PROVE  /\ wkQueries[key].pages \in Seq(WeeklyKeys)
                         /\ Len(wkQueries[key].pages) <= MaxWeeklyPages
      OBVIOUS
    <2>1. QueryFits(key, wkQueries[key])
      BY DEF WeeklyInv, QueriesFit
    <2>2. wkQueries[key].pages \in Seq({key}) /\ Len(wkQueries[key].pages) <= MaxWeeklyPages
      BY <2>1 DEF QueryFits
    <2>. QED BY <2>2
  <1>3. WkTypeOK
    BY <1>1, <1>2 DEF WkTypeOK, WeeklyInv, SummaryFits, NewsFit
  <1>4. RowsFitTheirWeek
    BY RowsHaveKey DEF RowsFitTheirWeek
  <1>. QED BY <1>3, <1>4

\* The rows on the screen were asked for what is on the screen, in the week of
\* the summary above them, however summaries, links, selections and pages are
\* answered, for any databases, journals, searches and numbers of pages.
THEOREM RowsAreOfTheWeek == WkSpec => [](WkTypeOK /\ RowsFitTheirWeek)
  BY WeeklyStart, WeeklyMoves, WeeklyShows, PTL DEF WkSpec

----------------------------------------------------------------------------
\* The relation graphs of the workspace

Below == {ss \in Nat \X Nat : ss[1] < ss[2]}

GraphFields == {"root", "parent", "depth", "kids", "expanded", "cross", "at", "pinned", "revision"}

IsFull(g) == g = [x \in GraphFields |-> g[x]]

GraphOK(g) == IsFull(g) /\ IsGraph(g) /\ IsTree(g)

LEMMA NewFits == ASSUME NEW r \in Papers PROVE GraphOK(NewGraph(r))
  <1>. DEFINE g == NewGraph(r)
  <1>1. /\ IsFull(g) /\ Nodes(g) = {r} /\ g.root = r
        /\ g.parent = [n \in {r} |-> None] /\ g.depth = [n \in {r} |-> 0] /\ g.kids = [n \in {r} |-> {}]
        /\ g.expanded = {} /\ g.cross = {} /\ g.at = [n \in {r} |-> 0] /\ g.pinned = {} /\ g.revision = 0
    BY DEF NewGraph, GraphFields, IsFull, Nodes
  <1>. HIDE DEF g
  <1>2. IsGraph(g)
    BY <1>1, RelationBounds DEF IsGraph
  <1>3. Cardinality(Nodes(g)) <= NodeLimit
    <2>1. Nodes(g) = {r}
      BY <1>1
    <2>2. Cardinality({r}) = 1
      BY FS_Singleton
    <2>. QED BY <2>1, <2>2, LimitIsPositive
  <1>4. IsTree(g)
    BY <1>1, <1>3, PapersAreFinite DEF IsTree
  <1>. QED BY <1>1, <1>2, <1>4 DEF GraphOK, g

LEMMA BelowWF == IsWellFoundedOn(Below, Nat)
  BY NatLessThanWellFounded DEF OpToRel, Below

LEMMA LeastNat ==
  ASSUME NEW T, T \in SUBSET Nat, T # {}
  PROVE  \E n \in T : \A m \in T : n <= m
  <1>0. T \subseteq Nat
    OBVIOUS
  <1>1. PICK x \in T : \A y \in T : ~(<<y, x>> \in Below)
    BY <1>0, BelowWF, WFMin, T # {}, Zenon
  <1>2. \A a, b \in Nat : a < b => <<a, b>> \in Below
    BY DEF Below
  <1>3. \A m \in T : ~(m < x)
    BY <1>0, <1>1, <1>2
  <1>. QED BY <1>0, <1>3

LEMMA GraphIsRecord == \A g : GraphOK(g) => g \in GraphRecords
  <1>. SUFFICES ASSUME NEW g, GraphOK(g) PROVE g \in GraphRecords
    OBVIOUS
  <1>. DEFINE N == Nodes(g)
  <1>1. g = [root |-> g.root, parent |-> g.parent, depth |-> g.depth, kids |-> g.kids, expanded |-> g.expanded,
             cross |-> g.cross, at |-> g.at, pinned |-> g.pinned, revision |-> g.revision]
    BY DEF GraphOK, GraphFields, IsFull
  <1>2. /\ g.root \in Papers /\ g.expanded \in SUBSET Papers /\ g.cross \in SUBSET (Papers \X Papers)
        /\ g.pinned \in SUBSET Papers /\ g.revision \in Nat
    BY DEF GraphOK, IsGraph
  <1>3. /\ N \in SUBSET Papers /\ g.parent \in [N -> Papers \union {None}] /\ g.depth \in [N -> Nat]
        /\ g.kids \in [N -> SUBSET Papers] /\ g.at \in [N -> Places \union {0}]
    BY DEF GraphOK, IsGraph
  <1>. HIDE DEF N
  <1>4. \A T : \A f \in [N -> T] : f \in PartialMaps(T)
    BY <1>3 DEF PartialMaps
  <1>5. /\ g.parent \in PartialMaps(Papers \union {None}) /\ g.depth \in PartialMaps(Nat)
        /\ g.kids \in PartialMaps(SUBSET Papers) /\ g.at \in PartialMaps(Places \union {0})
    BY <1>3, <1>4
  <1>. QED BY <1>1, <1>2, <1>5 DEF GraphRecords

LEMMA NodesAreFinite == \A g : GraphOK(g) => IsFiniteSet(Nodes(g))
  BY PapersAreFinite, FS_Subset DEF GraphOK, IsGraph

\* What is looked at leaves room: the loop stops before the limit is passed.
LEMMA LookedFits ==
  ASSUME NEW g, GraphOK(g), NEW n \in Nodes(g)
  PROVE  /\ Looked(g, n) \subseteq Papers \ {n}
         /\ Cardinality(Nodes(g) \union Looked(g, n)) <= NodeLimit
  <1>. DEFINE N == Nodes(g)
              related == RelatedTo[n]
              L == Len(related)
              First(k) == {related[j] : j \in 1..k}
              New(i) == related[i] \notin N
              IsFilled(i) == New(i) /\ Cardinality(N \union First(i - 1)) >= NodeLimit
              K == {k \in 1..L : \A j \in 1..k : ~IsFilled(j)}
  <1>1. related \in Seq(Papers) /\ L \in Nat /\ \A i \in 1..L : related[i] \in Papers
    BY RelatedIsListed DEF GraphOK, IsGraph
  <1>2. Looked(g, n) = {related[i] : i \in K} \ {n}
    BY DEF Looked
  <1>3. IsFiniteSet(N) /\ Cardinality(N) <= NodeLimit /\ Cardinality(N) \in Nat /\ NodeLimit \in Nat
    BY NodesAreFinite, FS_CardinalityType, LimitIsPositive DEF GraphOK, IsTree
  <1>. HIDE DEF N, related, L
  <1>4. ASSUME NEW k \in 0..L PROVE IsFiniteSet(N \union First(k)) /\ Cardinality(N \union First(k)) \in Nat
    <2>1. First(k) \subseteq Papers
      BY <1>1
    <2>2. IsFiniteSet(First(k))
      BY <2>1, PapersAreFinite, FS_Subset
    <2>. HIDE DEF First
    <2>. QED BY <1>3, <2>2, FS_Union, FS_CardinalityType
  <1>5. ASSUME NEW k \in K PROVE Cardinality(N \union First(k)) <= NodeLimit
    <2>. DEFINE T == {i \in 1..k : Cardinality(N \union First(i)) > NodeLimit}
    <2>1. SUFFICES ASSUME T # {} PROVE FALSE
      <3>1. k \in 1..L /\ k \in 1..k
        BY <1>1
      <3>2. k \notin T
        BY <2>1
      <3>3. ~(Cardinality(N \union First(k)) > NodeLimit)
        BY <3>1, <3>2
      <3>4. Cardinality(N \union First(k)) \in Nat
        <4>1. k \in 0..L
          BY <3>1
        <4>. HIDE DEF First, T, K
        <4>. QED BY <1>4, <4>1
      <3>. QED BY <1>3, <3>3, <3>4
    <2>2. T \in SUBSET Nat
      OBVIOUS
    <2>3. PICK i \in T : \A m \in T : i <= m
      <3>. HIDE DEF T
      <3>. QED BY <2>1, <2>2, LeastNat
    <2>4. k \in 1..L /\ i \in 1..k /\ i \in 1..L /\ i - 1 \in 0..L /\ ~IsFilled(i)
      BY <1>1, <2>3
    <2>5. Cardinality(N \union First(i - 1)) <= NodeLimit
      <3>1. CASE i = 1
        <4>1. First(i - 1) = {}
          BY <3>1
        <4>. HIDE DEF First
        <4>. QED BY <1>3, <4>1
      <3>2. CASE i # 1
        <4>1. i - 1 \in 1..k /\ ~(i <= i - 1)
          BY <2>4, <3>2, <1>1
        <4>2. i - 1 \notin T
          <5>. HIDE DEF T
          <5>. QED BY <2>3, <4>1
        <4>3. ~(Cardinality(N \union First(i - 1)) > NodeLimit)
          BY <4>1, <4>2
        <4>4. Cardinality(N \union First(i - 1)) \in Nat
          BY <1>4, <2>4
        <4>. HIDE DEF First
        <4>. QED BY <1>3, <4>3, <4>4
      <3>. QED BY <3>1, <3>2
    <2>6. First(i) = First(i - 1) \union {related[i]}
      <3>1. \A j : j \in 1..i <=> j \in 1..(i - 1) \/ j = i
        BY <2>4
      <3>. QED BY <3>1
    <2>7. Cardinality(N \union First(i)) > NodeLimit
      BY <2>3
    <2>8. IsFiniteSet(N \union First(i - 1)) /\ Cardinality(N \union First(i - 1)) \in Nat
      BY <1>4, <2>4
    <2>9. CASE ~New(i)
      <3>1. N \union First(i) = N \union First(i - 1)
        <4>. HIDE DEF First
        <4>. QED BY <2>6, <2>9
      <3>2. Cardinality(N \union First(i)) = Cardinality(N \union First(i - 1))
        <4>. HIDE DEF First, T, K, IsFilled, New
        <4>. QED BY <3>1
      <3>. HIDE DEF First, T, K, IsFilled, New
      <3>. QED BY <1>3, <2>5, <2>7, <2>8, <3>2
    <2>10. CASE New(i)
      <3>1. Cardinality(N \union First(i - 1)) < NodeLimit
        <4>. HIDE DEF First
        <4>. QED BY <1>3, <2>4, <2>8, <2>10
      <3>2. N \union First(i) = (N \union First(i - 1)) \union {related[i]}
        <4>. HIDE DEF First
        <4>. QED BY <2>6
      <3>. HIDE DEF First, T, K, IsFilled, New
      <3>3. Cardinality(N \union First(i)) <= Cardinality(N \union First(i - 1)) + 1
        <4>. DEFINE before == N \union First(i - 1)
        <4>1. IsFiniteSet(before) /\ Cardinality(before) \in Nat
          BY <2>8
        <4>2. N \union First(i) = before \union {related[i]}
          BY <3>2
        <4>. HIDE DEF before
        <4>3. Cardinality(before \union {related[i]}) =
                IF related[i] \in before THEN Cardinality(before) ELSE Cardinality(before) + 1
          BY <4>1, FS_AddElement
        <4>4. Cardinality(before \union {related[i]}) <= Cardinality(before) + 1
          BY <4>1, <4>3
        <4>. QED BY <4>2, <4>4 DEF before
      <3>4. Cardinality(N \union First(i)) \in Nat
        BY <2>8, <3>2, FS_AddElement, FS_CardinalityType
      <3>. QED BY <1>3, <2>7, <2>8, <3>1, <3>3, <3>4
    <2>. QED BY <2>9, <2>10
  <1>6. \E k \in 0..L : {related[i] : i \in K} \subseteq First(k) /\ (k \in K \/ k = 0)
    <2>. DEFINE T == (1..(L + 1)) \ K
    <2>1. T \in SUBSET Nat /\ L + 1 \in T
      BY <1>1
    <2>2. PICK m \in T : \A i \in T : m <= i
      <3>. HIDE DEF T
      <3>. QED BY <2>1, LeastNat
    <2>3. m \in 1..(L + 1) /\ m \notin K
      BY <2>2
    <2>4. ASSUME NEW i \in K PROVE i \in 1..(m - 1)
      <3>1. i \in 1..L /\ \A j \in 1..i : ~IsFilled(j)
        OBVIOUS
      <3>2. CASE m <= i
        <4>1. m \in 1..L /\ \A j \in 1..m : ~IsFilled(j)
          <5>. HIDE DEF IsFilled
          <5>. QED BY <1>1, <2>3, <3>1, <3>2
        <4>. QED BY <2>3, <4>1
      <3>. QED BY <1>1, <2>3, <3>1, <3>2
    <2>5. m - 1 \in K \/ m - 1 = 0
      <3>1. CASE m # 1
        <4>1. m - 1 \in 1..(L + 1) /\ ~(m <= m - 1)
          BY <1>1, <2>3, <3>1
        <4>2. m - 1 \notin T
          <5>. HIDE DEF T
          <5>. QED BY <2>2, <4>1
        <4>. HIDE DEF K
        <4>. QED BY <4>1, <4>2
      <3>. QED BY <3>1
    <2>6. m - 1 \in 0..L
      BY <1>1, <2>3
    <2>. HIDE DEF K, T
    <2>. QED BY <2>4, <2>5, <2>6
  <1>7. PICK k \in 0..L : {related[i] : i \in K} \subseteq First(k) /\ (k \in K \/ k = 0)
    BY <1>6
  <1>8. Cardinality(N \union First(k)) <= NodeLimit
    <2>1. CASE k \in K
      BY <1>5, <2>1
    <2>2. CASE k = 0
      <3>1. First(k) = {}
        BY <2>2
      <3>. HIDE DEF First
      <3>. QED BY <1>3, <3>1
    <2>. QED BY <1>7, <2>1, <2>2
  <1>9. {related[i] : i \in K} \subseteq Papers
    BY <1>1
  <1>. HIDE DEF First, K
  <1>10. N \union Looked(g, n) \subseteq N \union First(k)
    BY <1>2, <1>7
  <1>11. Cardinality(N \union Looked(g, n)) <= Cardinality(N \union First(k))
    BY <1>4, <1>10, FS_Subset
  <1>12. IsFiniteSet(N \union Looked(g, n)) /\ Cardinality(N \union Looked(g, n)) \in Nat
    BY <1>4, <1>10, FS_Subset, FS_CardinalityType
  <1>13. Cardinality(N \union First(k)) \in Nat
    BY <1>4
  <1>. QED BY <1>2, <1>3, <1>8, <1>9, <1>11, <1>12, <1>13 DEF N

LEMMA CrossedIs ==
  ASSUME NEW g, GraphOK(g), NEW n \in Nodes(g)
  PROVE  \A c \in Crossed(g, n) :
            /\ c[1] = n /\ c[2] \in Nodes(g) /\ c[2] # n /\ c = <<c[1], c[2]>> /\ c \in Papers \X Papers
            /\ g.parent[n] # c[2] /\ g.parent[c[2]] # n /\ <<c[1], c[2]>> \notin g.cross /\ <<c[2], c[1]>> \notin g.cross
  <1>. SUFFICES ASSUME NEW c \in Crossed(g, n)
                PROVE  /\ c[1] = n /\ c[2] \in Nodes(g) /\ c[2] # n /\ c = <<c[1], c[2]>> /\ c \in Papers \X Papers
                       /\ g.parent[n] # c[2] /\ g.parent[c[2]] # n
                       /\ <<c[1], c[2]>> \notin g.cross /\ <<c[2], c[1]>> \notin g.cross
    OBVIOUS
  <1>1. PICK m \in Looked(g, n) \intersect Nodes(g) : c = <<n, m>> /\ ~Linked(g, n, m)
    BY DEF Crossed
  <1>2. m \in Papers \ {n} /\ n \in Papers
    BY LookedFits DEF GraphOK, IsGraph
  <1>. QED BY <1>1, <1>2 DEF Linked

Added(g, n) == Looked(g, n) \ Nodes(g)

LEMMA ExpandedIs ==
  ASSUME NEW g, GraphOK(g), NEW n \in Nodes(g), NEW turned
  PROVE  LET added == Added(g, n)
             all == Nodes(g) \union added
             h == Expanded(g, n, turned)
         IN  /\ IsFull(h) /\ Nodes(h) = all /\ h.root = g.root
             /\ h.parent = [m \in all |-> IF m \in added THEN n ELSE g.parent[m]]
             /\ h.depth = [m \in all |-> IF m \in added THEN g.depth[n] + 1 ELSE g.depth[m]]
             /\ h.kids = [m \in all |-> IF m \in added THEN {}
                                        ELSE IF m = n THEN g.kids[m] \union added ELSE g.kids[m]]
             /\ h.at = [m \in all |-> IF m \in added THEN 0 ELSE g.at[m]]
             /\ h.expanded = g.expanded \union {n}
             /\ h.cross = g.cross \union Crossed(g, n)
             /\ h.pinned = g.pinned
             /\ h.revision = IF turned /\ Crossed(g, n) # {} THEN g.revision + 1 ELSE g.revision
  <1>. DEFINE added == Added(g, n)
              all == Nodes(g) \union added
              h == Expanded(g, n, turned)
              crossed == Crossed(g, n)
  <1>1. IsFull(g)
    BY DEF GraphOK
  <1>2. h = [g EXCEPT
                !.parent = [m \in all |-> IF m \in added THEN n ELSE g.parent[m]],
                !.depth = [m \in all |-> IF m \in added THEN g.depth[n] + 1 ELSE g.depth[m]],
                !.kids = [m \in all |-> IF m \in added THEN {}
                                        ELSE IF m = n THEN g.kids[m] \union added ELSE g.kids[m]],
                !.at = [m \in all |-> IF m \in added THEN 0 ELSE g.at[m]],
                !.expanded = g.expanded \union {n},
                !.cross = g.cross \union crossed,
                !.revision = IF turned /\ crossed # {} THEN g.revision + 1 ELSE g.revision]
    BY <1>1 DEF Expanded, GraphFields, IsFull, Added
  <1>. HIDE DEF crossed, added, h
  <1>. QED BY <1>1, <1>2 DEF GraphFields, IsFull, Nodes, crossed, added, h

\* An expansion leaves what was dropped.
LEMMA ExpandedLeaves ==
  ASSUME NEW g, GraphOK(g), NEW n \in Nodes(g), NEW turned
  PROVE  /\ Expanded(g, n, turned).pinned = g.pinned
         /\ \A m \in Nodes(g) : Expanded(g, n, turned).at[m] = g.at[m]
         /\ Crossed(g, n) = {} => Expanded(g, n, turned).revision = g.revision
         /\ Expanded(g, n, turned).expanded = g.expanded \union {n}
         /\ Nodes(Expanded(g, n, turned)) = Nodes(g) \union Added(g, n)
         /\ \A m \in Added(g, n) : Expanded(g, n, turned).parent[m] = n
  <1>. DEFINE added == Added(g, n)
              all == Nodes(g) \union added
              h == Expanded(g, n, turned)
  <1>1. /\ IsFull(h) /\ Nodes(h) = all /\ h.root = g.root
        /\ h.parent = [m \in all |-> IF m \in added THEN n ELSE g.parent[m]]
        /\ h.depth = [m \in all |-> IF m \in added THEN g.depth[n] + 1 ELSE g.depth[m]]
        /\ h.kids = [m \in all |-> IF m \in added THEN {}
                                   ELSE IF m = n THEN g.kids[m] \union added ELSE g.kids[m]]
        /\ h.at = [m \in all |-> IF m \in added THEN 0 ELSE g.at[m]]
        /\ h.expanded = g.expanded \union {n}
        /\ h.cross = g.cross \union Crossed(g, n)
        /\ h.pinned = g.pinned
        /\ h.revision = IF turned /\ Crossed(g, n) # {} THEN g.revision + 1 ELSE g.revision
    BY ExpandedIs
  <1>2. \A m \in Nodes(g) : m \notin added
    BY DEF Added
  <1>. HIDE DEF h, added
  <1>3. \A m \in Nodes(g) : h.at[m] = g.at[m]
    BY <1>1, <1>2
  <1>4. \A m \in added : h.parent[m] = n
    BY <1>1
  <1>. QED BY <1>1, <1>3, <1>4 DEF h, added

LEMMA ExpandedFits ==
  ASSUME NEW g, GraphOK(g), NEW n \in Papers, NEW turned \in BOOLEAN,
         NEW h, h = Expanded(g, n, turned), h.revision <= MaxRevision
  PROVE  GraphOK(h)
  <1>1. CASE n \notin Nodes(g)
    BY <1>1 DEF Expanded
  <1>2. CASE n \in Nodes(g)
    <2>. DEFINE added == Added(g, n)
                all == Nodes(g) \union added
    <2>1. /\ IsFull(h) /\ Nodes(h) = all /\ h.root = g.root
          /\ h.parent = [m \in all |-> IF m \in added THEN n ELSE g.parent[m]]
          /\ h.depth = [m \in all |-> IF m \in added THEN g.depth[n] + 1 ELSE g.depth[m]]
          /\ h.kids = [m \in all |-> IF m \in added THEN {}
                                     ELSE IF m = n THEN g.kids[m] \union added ELSE g.kids[m]]
          /\ h.at = [m \in all |-> IF m \in added THEN 0 ELSE g.at[m]]
          /\ h.expanded = g.expanded \union {n}
          /\ h.cross = g.cross \union Crossed(g, n)
          /\ h.pinned = g.pinned
          /\ h.revision = IF turned /\ Crossed(g, n) # {} THEN g.revision + 1 ELSE g.revision
      BY <1>2, ExpandedIs
    <2>2. Looked(g, n) \subseteq Papers \ {n} /\ Cardinality(Nodes(g) \union Looked(g, n)) <= NodeLimit
      BY <1>2, LookedFits
    <2>3. Nodes(g) \union Looked(g, n) = all
      BY DEF Added
    <2>4. added \subseteq Papers /\ added \intersect Nodes(g) = {}
      BY <2>2 DEF Added
    <2>. HIDE DEF added
    <2>5. IsGraph(g) /\ IsTree(g) /\ None \notin Papers
      BY PapersAreFinite DEF GraphOK
    <2>6. \A c \in Crossed(g, n) :
            /\ c[1] = n /\ c[2] \in Nodes(g) /\ c[2] # n /\ c = <<c[1], c[2]>> /\ c \in Papers \X Papers
            /\ g.parent[n] # c[2] /\ g.parent[c[2]] # n /\ <<c[1], c[2]>> \notin g.cross
            /\ <<c[2], c[1]>> \notin g.cross
      BY <1>2, CrossedIs
    <2>7. IsGraph(h)
      <3>1. Nodes(h) \subseteq Papers /\ h.root \in Nodes(h) /\ h.parent \in [Nodes(h) -> Nodes(h) \union {None}]
        BY <1>2, <2>1, <2>4, <2>5 DEF IsGraph
      <3>2. h.depth \in [Nodes(h) -> Nat] /\ h.at \in [Nodes(h) -> Places \union {0}]
        BY <1>2, <2>1, <2>4, <2>5 DEF IsGraph
      <3>3. h.kids \in [Nodes(h) -> SUBSET Papers]
        BY <1>2, <2>1, <2>4, <2>5 DEF IsGraph
      <3>4. h.expanded \subseteq Papers /\ h.pinned \subseteq Nodes(h) /\ h.cross \subseteq Papers \X Papers
        BY <1>2, <2>1, <2>4, <2>5, <2>6 DEF IsGraph
      <3>5. h.revision \in 0..MaxRevision
        BY <2>1, <2>5, RelationBounds DEF IsGraph
      <3>. QED BY <3>1, <3>2, <3>3, <3>4, <3>5 DEF IsGraph
    <2>8. IsTree(h)
      <3>1. {m \in Nodes(h) : h.parent[m] = None} = {h.root} /\ h.depth[h.root] = 0
        <4>1. \A m \in added : h.parent[m] = n /\ n # None /\ m # g.root
          BY <1>2, <2>1, <2>4, <2>5 DEF IsGraph
        <4>2. \A m \in Nodes(g) : m \notin added /\ h.parent[m] = g.parent[m] /\ h.depth[m] = g.depth[m]
          BY <2>1, <2>4
        <4>3. \A m \in Nodes(g) : g.parent[m] = None <=> m = g.root
          BY <2>5 DEF IsTree
        <4>. QED BY <2>1, <2>5, <4>1, <4>2, <4>3 DEF IsTree, IsGraph
      <3>2. ASSUME NEW m \in Nodes(h) PROVE h.kids[m] = {k \in Nodes(h) : h.parent[k] = m}
        <4>1. \A k \in Nodes(h) : h.parent[k] = IF k \in added THEN n ELSE g.parent[k]
          BY <2>1
        <4>2. CASE m \in added
          <5>1. \A k \in Nodes(h) : h.parent[k] # m
            BY <1>2, <2>1, <2>4, <2>5, <4>1, <4>2 DEF IsGraph
          <5>. QED BY <2>1, <4>2, <5>1
        <4>3. CASE m \in Nodes(g)
          <5>1. g.kids[m] = {k \in Nodes(g) : g.parent[k] = m}
            BY <2>5, <4>3 DEF IsTree
          <5>2. h.kids[m] = IF m = n THEN g.kids[m] \union added ELSE g.kids[m]
            BY <2>1, <2>4, <4>3
          <5>. QED BY <2>1, <2>4, <4>1, <5>1, <5>2
        <4>. QED BY <2>1, <4>2, <4>3
      <3>3. ASSUME NEW m \in Nodes(h) \ {h.root} PROVE h.depth[m] = h.depth[h.parent[m]] + 1
        <4>1. CASE m \in added
          BY <1>2, <2>1, <2>4, <4>1
        <4>2. CASE m \in Nodes(g)
          <5>1. g.depth[m] = g.depth[g.parent[m]] + 1 /\ g.parent[m] \in Nodes(g)
            BY <2>1, <2>5, <4>2 DEF IsTree, IsGraph
          <5>. QED BY <2>1, <2>4, <4>2, <5>1
        <4>. QED BY <2>1, <4>1, <4>2
      <3>4. h.expanded \subseteq Nodes(h)
        BY <1>2, <2>1, <2>5 DEF IsTree
      <3>5. \A m \in Nodes(h) : h.kids[m] # {} => m \in h.expanded
        BY <2>1, <2>5 DEF IsTree
      <3>6. ASSUME NEW c \in h.cross
            PROVE  /\ c[1] \in Nodes(h) /\ c[2] \in Nodes(h) /\ c[1] # c[2]
                   /\ h.parent[c[1]] # c[2] /\ h.parent[c[2]] # c[1] /\ <<c[2], c[1]>> \notin h.cross
        <4>1. \A m \in Nodes(g) : m \in Nodes(h) /\ h.parent[m] = g.parent[m]
          BY <2>1, <2>4
        <4>2. CASE c \in g.cross
          <5>1. /\ c[1] \in Nodes(g) /\ c[2] \in Nodes(g) /\ c[1] # c[2]
                /\ g.parent[c[1]] # c[2] /\ g.parent[c[2]] # c[1] /\ <<c[2], c[1]>> \notin g.cross
                /\ c = <<c[1], c[2]>>
            BY <2>5, <4>2 DEF IsTree, IsGraph
          <5>2. <<c[2], c[1]>> \notin Crossed(g, n)
            BY <2>6, <4>2, <5>1
          <5>. QED BY <2>1, <4>1, <5>1, <5>2
        <4>3. CASE c \in Crossed(g, n)
          <5>1. /\ c[1] = n /\ c[2] \in Nodes(g) /\ c[2] # n
                /\ g.parent[n] # c[2] /\ g.parent[c[2]] # n /\ <<c[2], c[1]>> \notin g.cross
            BY <2>6, <4>3
          <5>2. <<c[2], c[1]>> \notin Crossed(g, n)
            BY <2>6, <5>1
          <5>. QED BY <1>2, <2>1, <4>1, <5>1, <5>2
        <4>. QED BY <2>1, <4>2, <4>3
      <3>7. Cardinality(Nodes(h)) <= NodeLimit
        BY <2>1, <2>2, <2>3
      <3>. QED BY <3>1, <3>2, <3>3, <3>4, <3>5, <3>6, <3>7 DEF IsTree
    <2>. QED BY <2>1, <2>7, <2>8 DEF GraphOK
  <1>. QED BY <1>1, <1>2

\* A branch is closed under children and holds nothing above its node.
LEMMA BranchIs ==
  ASSUME NEW g, GraphOK(g), NEW n \in Nodes(g)
  PROVE  /\ n \in Branch(g, n) /\ Branch(g, n) \subseteq Nodes(g)
         /\ \A p \in Branch(g, n) : g.kids[p] \subseteq Branch(g, n)
         /\ \A m \in Branch(g, n) : m # n => m # g.root /\ g.parent[m] \in Branch(g, n)
         /\ g.parent[n] \notin Branch(g, n)
  <1>. DEFINE N == Nodes(g)
              B == Branch(g, n)
              Closed(S) == n \in S /\ \A p \in S : g.kids[p] \subseteq S
  <1>1. B = {m \in N : \A S \in SUBSET N : Closed(S) => m \in S}
    BY DEF Branch
  <1>2. /\ \A p \in N : g.kids[p] = {m \in N : g.parent[m] = p}
        /\ \A m \in N : m # g.root => g.depth[m] = g.depth[g.parent[m]] + 1 /\ g.parent[m] \in N
        /\ \A m \in N : g.depth[m] \in Nat
        /\ g.root \in N /\ g.depth[g.root] = 0 /\ g.parent[g.root] = None /\ None \notin N
    <2>1. \A m \in N : m # g.root => g.parent[m] \in N
      BY DEF GraphOK, IsTree, IsGraph
    <2>2. None \notin N
      BY PapersAreFinite DEF GraphOK, IsGraph
    <2>3. g.root \in N /\ g.parent[g.root] = None
      BY DEF GraphOK, IsTree
    <2>. QED BY <2>1, <2>2, <2>3 DEF GraphOK, IsTree, IsGraph
  <1>. HIDE DEF N, B
  <1>3. n \in B /\ B \subseteq N
    BY <1>1 DEF N
  <1>4. \A p \in B : g.kids[p] \subseteq B
    <2>. SUFFICES ASSUME NEW p \in B, NEW k \in g.kids[p] PROVE k \in B
      OBVIOUS
    <2>1. p \in N /\ k \in N
      BY <1>2, <1>3
    <2>2. ASSUME NEW S \in SUBSET N, Closed(S) PROVE k \in S
      <3>1. p \in S
        BY <1>1, <2>2
      <3>. QED BY <2>2, <3>1
    <2>. HIDE DEF Closed
    <2>. QED BY <1>1, <2>1, <2>2
  <1>5. \A m \in B : g.depth[m] >= g.depth[n]
    <2>. DEFINE S == {m \in N : g.depth[m] >= g.depth[n]}
    <2>1. S \in SUBSET N
      OBVIOUS
    <2>2. n \in S
      BY <1>2, <1>3
    <2>3. \A p \in S : g.kids[p] \subseteq S
      <3>. SUFFICES ASSUME NEW p \in S, NEW k \in g.kids[p] PROVE k \in S
        OBVIOUS
      <3>1. p \in N /\ k \in N /\ g.parent[k] = p
        BY <1>2
      <3>2. k # g.root
        BY <1>2, <3>1
      <3>3. g.depth[k] = g.depth[p] + 1 /\ g.depth[k] \in Nat /\ g.depth[p] \in Nat /\ g.depth[n] \in Nat
        BY <1>2, <1>3, <3>1, <3>2
      <3>. QED BY <3>1, <3>3
    <2>4. \A m \in B : m \in S
      <3>. HIDE DEF S
      <3>. QED BY <1>1, <2>1, <2>2, <2>3
    <2>. QED BY <2>4
  <1>6. \A m \in B : m # n => m # g.root /\ g.parent[m] \in B
    <2>. DEFINE S == {m \in B : m = n \/ (m # g.root /\ g.parent[m] \in B)}
    <2>1. S \in SUBSET N /\ n \in S
      BY <1>3
    <2>2. \A p \in S : g.kids[p] \subseteq S
      <3>. SUFFICES ASSUME NEW p \in S, NEW k \in g.kids[p] PROVE k \in S
        OBVIOUS
      <3>1. p \in B /\ p \in N /\ k \in N /\ g.parent[k] = p
        BY <1>2, <1>3
      <3>2. k # g.root
        BY <1>2, <3>1
      <3>3. k \in B
        BY <1>4, <3>1
      <3>. QED BY <3>1, <3>2, <3>3
    <2>3. \A m \in B : m \in S
      <3>. HIDE DEF S
      <3>. QED BY <1>1, <2>1, <2>2
    <2>. QED BY <2>3
  <1>7. g.parent[n] \notin B
    <2>1. CASE n = g.root
      BY <1>2, <1>3, <2>1
    <2>2. CASE n # g.root
      <3>1. g.depth[n] = g.depth[g.parent[n]] + 1 /\ g.depth[g.parent[n]] \in Nat /\ g.depth[n] \in Nat
        BY <1>2, <1>3, <2>2
      <3>2. ~(g.depth[g.parent[n]] >= g.depth[n])
        BY <3>1
      <3>. QED BY <1>5, <3>2
    <2>. QED BY <2>1, <2>2
  <1>. QED BY <1>3, <1>4, <1>6, <1>7 DEF N, B

LEMMA CollapsedFits ==
  ASSUME NEW g, GraphOK(g), NEW n \in Nodes(g), NEW h, h = Collapsed(g, n)
  PROVE  GraphOK(h) /\ h.revision = g.revision /\ h.pinned \subseteq g.pinned
         /\ \A m \in h.pinned : h.at[m] = g.at[m]
  <1>. DEFINE B == Branch(g, n)
              left == Nodes(g) \ (B \ {n})
  <1>1. /\ n \in B /\ B \subseteq Nodes(g)
        /\ \A p \in B : g.kids[p] \subseteq B
        /\ \A m \in B : m # n => m # g.root /\ g.parent[m] \in B
        /\ g.parent[n] \notin B
    BY BranchIs
  <1>2. IsFull(g) /\ IsGraph(g) /\ IsTree(g) /\ None \notin Papers
    BY PapersAreFinite DEF GraphOK
  <1>3. h = [g EXCEPT
               !.parent = [m \in left |-> g.parent[m]],
               !.depth = [m \in left |-> g.depth[m]],
               !.kids = [m \in left |-> IF m = n THEN {} ELSE g.kids[m]],
               !.at = [m \in left |-> g.at[m]],
               !.expanded = (g.expanded \intersect left) \ {n},
               !.cross = {c \in g.cross : c[1] \in left /\ c[2] \in left},
               !.pinned = g.pinned \intersect left]
    BY <1>2 DEF Collapsed, GraphFields, IsFull
  <1>4. left \subseteq Nodes(g) /\ n \in left
    BY <1>1
  <1>. DEFINE cross == {c \in g.cross : c[1] \in left /\ c[2] \in left}
  <1>5. \A m \in left : m # n => m \notin B
    OBVIOUS
  <1>6. \A m \in Nodes(g) : m \notin left => m \in B /\ m # n
    OBVIOUS
  <1>. HIDE DEF left, B
  <1>7. /\ IsFull(h) /\ Nodes(h) = left /\ h.root = g.root
        /\ h.parent = [m \in left |-> g.parent[m]]
        /\ h.depth = [m \in left |-> g.depth[m]]
        /\ h.kids = [m \in left |-> IF m = n THEN {} ELSE g.kids[m]]
        /\ h.at = [m \in left |-> g.at[m]]
        /\ h.expanded = (g.expanded \intersect left) \ {n}
        /\ h.cross = cross
        /\ h.pinned = g.pinned \intersect left
        /\ h.revision = g.revision
    <2>. HIDE DEF cross
    <2>. QED BY <1>2, <1>3 DEF GraphFields, IsFull, Nodes, cross
  <1>8. g.root \in left /\ \A m \in left : m # g.root => g.parent[m] \in left
    <2>1. g.root \in Nodes(g) /\ \A m \in Nodes(g) : m # g.root => g.parent[m] \in Nodes(g)
      BY <1>2 DEF IsGraph, IsTree
    <2>2. g.root \in left
      BY <1>1, <1>6, <2>1
    <2>3. ASSUME NEW m \in left, m # g.root PROVE g.parent[m] \in left
      <3>1. m \in Nodes(g) /\ g.parent[m] \in Nodes(g)
        BY <1>4, <2>1, <2>3
      <3>2. CASE g.parent[m] \notin left
        <4>1. g.parent[m] \in B
          BY <1>6, <3>1, <3>2
        <4>2. m \in g.kids[g.parent[m]]
          BY <1>2, <3>1 DEF IsTree
        <4>3. m \in B
          BY <1>1, <4>1, <4>2
        <4>4. m = n
          BY <1>5, <4>3
        <4>. QED BY <1>1, <4>1, <4>4
      <3>. QED BY <3>2
    <2>. QED BY <2>2, <2>3
  <1>9. IsGraph(h)
    <2>1. \A m \in left : g.parent[m] \in left \union {None}
      BY <1>2, <1>8 DEF IsTree
    <2>2. Nodes(h) \subseteq Papers /\ h.root \in Nodes(h) /\ h.parent \in [Nodes(h) -> Nodes(h) \union {None}]
      BY <1>2, <1>4, <1>7, <1>8, <2>1 DEF IsGraph
    <2>3. /\ h.depth \in [Nodes(h) -> Nat] /\ h.at \in [Nodes(h) -> Places \union {0}]
          /\ h.kids \in [Nodes(h) -> SUBSET Papers]
      BY <1>2, <1>4, <1>7 DEF IsGraph
    <2>4. h.expanded \subseteq Papers /\ h.pinned \subseteq Nodes(h) /\ h.cross \subseteq Papers \X Papers
      BY <1>2, <1>4, <1>7 DEF IsGraph
    <2>. QED BY <1>2, <1>7, <2>2, <2>3, <2>4 DEF IsGraph
  <1>10. IsTree(h)
    <2>1. {m \in Nodes(h) : h.parent[m] = None} = {h.root} /\ h.depth[h.root] = 0
      BY <1>2, <1>4, <1>7, <1>8 DEF IsTree
    <2>2. ASSUME NEW m \in left PROVE h.kids[m] = {k \in left : h.parent[k] = m}
      <3>1. g.kids[m] = {k \in Nodes(g) : g.parent[k] = m}
        BY <1>2, <1>4 DEF IsTree
      <3>2. CASE m = n
        <4>1. ASSUME NEW k \in left, g.parent[k] = n PROVE FALSE
          <5>1. k \in g.kids[n]
            BY <1>4, <3>1, <3>2, <4>1
          <5>2. k \in B
            BY <1>1, <5>1
          <5>3. k = n
            BY <1>5, <5>2
          <5>. QED BY <1>1, <4>1, <5>3
        <4>. QED BY <1>7, <3>2, <4>1
      <3>3. CASE m # n
        <4>1. ASSUME NEW k \in Nodes(g), g.parent[k] = m PROVE k \in left
          <5>1. CASE k \notin left
            <6>1. k \in B /\ k # n
              BY <1>6, <5>1
            <6>2. m \in B
              BY <1>1, <4>1, <6>1
            <6>. QED BY <1>5, <3>3, <6>2
          <5>. QED BY <5>1
        <4>. QED BY <1>4, <1>7, <3>1, <3>3, <4>1
      <3>. QED BY <3>2, <3>3
    <2>3. ASSUME NEW m \in left \ {g.root} PROVE h.depth[m] = h.depth[h.parent[m]] + 1
      BY <1>2, <1>4, <1>7, <1>8 DEF IsTree
    <2>4. h.expanded \subseteq Nodes(h) /\ \A m \in left : h.kids[m] # {} => m \in h.expanded
      BY <1>2, <1>4, <1>7 DEF IsTree
    <2>5. \A c \in h.cross :
            /\ c[1] \in left /\ c[2] \in left /\ c[1] # c[2]
            /\ h.parent[c[1]] # c[2] /\ h.parent[c[2]] # c[1] /\ <<c[2], c[1]>> \notin h.cross
      <3>. SUFFICES ASSUME NEW c \in cross
                    PROVE  /\ c[1] \in left /\ c[2] \in left /\ c[1] # c[2]
                           /\ h.parent[c[1]] # c[2] /\ h.parent[c[2]] # c[1] /\ <<c[2], c[1]>> \notin cross
        BY <1>7
      <3>1. c \in g.cross /\ c[1] \in left /\ c[2] \in left
        OBVIOUS
      <3>2. c[1] # c[2] /\ g.parent[c[1]] # c[2] /\ g.parent[c[2]] # c[1] /\ <<c[2], c[1]>> \notin g.cross
        BY <1>2, <3>1 DEF IsTree
      <3>. QED BY <1>7, <3>1, <3>2
    <2>6. Cardinality(left) <= NodeLimit
      <3>1. Cardinality(left) <= Cardinality(Nodes(g)) /\ IsFiniteSet(left)
        BY <1>4, NodesAreFinite, FS_Subset
      <3>2. Cardinality(left) \in Nat /\ Cardinality(Nodes(g)) \in Nat /\ NodeLimit \in Nat
        BY <3>1, NodesAreFinite, FS_CardinalityType, LimitIsPositive
      <3>3. Cardinality(Nodes(g)) <= NodeLimit
        BY <1>2 DEF IsTree
      <3>. QED BY <3>1, <3>2, <3>3
    <2>. HIDE DEF cross
    <2>7. Nodes(h) = left /\ h.root = g.root
      BY <1>7
    <2>. QED BY <2>1, <2>2, <2>3, <2>4, <2>5, <2>6, <2>7 DEF IsTree
  <1>11. h.pinned \subseteq g.pinned /\ \A m \in h.pinned : h.at[m] = g.at[m]
    BY <1>7
  <1>. QED BY <1>7, <1>9, <1>10, <1>11 DEF GraphOK

\* Where its nodes are is all that is different.
LEMMA PlacedFits ==
  ASSUME NEW g, GraphOK(g), NEW h, IsFull(h),
         h.root = g.root, h.parent = g.parent, h.depth = g.depth, h.kids = g.kids, h.expanded = g.expanded,
         h.cross = g.cross, h.at \in [Nodes(g) -> Places \union {0}], h.pinned \subseteq Nodes(g),
         h.revision \in 0..MaxRevision
  PROVE  GraphOK(h) /\ Nodes(h) = Nodes(g)
  <1>1. Nodes(h) = Nodes(g)
    BY DEF Nodes
  <1>. QED BY <1>1 DEF GraphOK, IsGraph, IsTree

LEMMA RelaidFits ==
  ASSUME NEW g, GraphOK(g), g.revision < MaxRevision
  PROVE  GraphOK(Relaid(g)) /\ Relaid(g).revision = g.revision + 1 /\ Relaid(g).pinned = {}
         /\ Nodes(Relaid(g)) = Nodes(g)
  <1>. DEFINE h == Relaid(g)
  <1>1. /\ IsFull(h) /\ h.root = g.root /\ h.parent = g.parent /\ h.depth = g.depth
        /\ h.kids = g.kids /\ h.expanded = g.expanded /\ h.cross = g.cross
        /\ h.at = [m \in Nodes(g) |-> 0] /\ h.pinned = {} /\ h.revision = g.revision + 1
    BY DEF GraphOK, Relaid, GraphFields, IsFull
  <1>. HIDE DEF h
  <1>2. h.at \in [Nodes(g) -> Places \union {0}] /\ h.pinned \subseteq Nodes(g)
    BY <1>1
  <1>3. h.revision \in 0..MaxRevision
    BY <1>1, RelationBounds DEF GraphOK, IsGraph
  <1>4. GraphOK(h) /\ Nodes(h) = Nodes(g)
    BY <1>1, <1>2, <1>3, PlacedFits
  <1>. QED BY <1>1, <1>4 DEF h

LEMMA StoredFits ==
  ASSUME NEW g, GraphOK(g), NEW places, \A m \in DOMAIN places : places[m] \in Places \union {0}, NEW dropped,
         NEW h, h = Stored(g, places, dropped)
  PROVE  /\ GraphOK(h) /\ Nodes(h) = Nodes(g) /\ h.revision = g.revision
         /\ h.at = [m \in Nodes(g) |-> IF m \in DOMAIN places THEN places[m] ELSE g.at[m]]
         /\ h.pinned = g.pinned \union (dropped \intersect Nodes(g))
  <1>1. /\ IsFull(h) /\ h.root = g.root /\ h.parent = g.parent /\ h.depth = g.depth
        /\ h.kids = g.kids /\ h.expanded = g.expanded /\ h.cross = g.cross
        /\ h.at = [m \in Nodes(g) |-> IF m \in DOMAIN places THEN places[m] ELSE g.at[m]]
        /\ h.pinned = g.pinned \union (dropped \intersect Nodes(g)) /\ h.revision = g.revision
    BY DEF GraphOK, Stored, GraphFields, IsFull
  <1>2. h.at \in [Nodes(g) -> Places \union {0}] /\ h.pinned \subseteq Nodes(g)
    BY <1>1 DEF GraphOK, IsGraph
  <1>3. h.revision \in 0..MaxRevision
    BY <1>1 DEF GraphOK, IsGraph
  <1>4. GraphOK(h) /\ Nodes(h) = Nodes(g)
    BY <1>1, <1>2, <1>3, PlacedFits
  <1>. QED BY <1>1, <1>4

LEMMA StoredLeaves ==
  ASSUME NEW g, GraphOK(g), NEW places, \A m \in DOMAIN places : places[m] \in Places \union {0}, NEW dropped
  PROVE  /\ GraphOK(Stored(g, places, dropped)) /\ Nodes(Stored(g, places, dropped)) = Nodes(g)
         /\ Stored(g, places, dropped).revision = g.revision
         /\ \A m \in Nodes(g) : Stored(g, places, dropped).at[m] = IF m \in DOMAIN places THEN places[m] ELSE g.at[m]
         /\ Stored(g, places, dropped).pinned = g.pinned \union (dropped \intersect Nodes(g))
  <1>. DEFINE h == Stored(g, places, dropped)
  <1>1. /\ GraphOK(h) /\ Nodes(h) = Nodes(g) /\ h.revision = g.revision
        /\ h.at = [m \in Nodes(g) |-> IF m \in DOMAIN places THEN places[m] ELSE g.at[m]]
        /\ h.pinned = g.pinned \union (dropped \intersect Nodes(g))
    BY StoredFits
  <1>. HIDE DEF h
  <1>2. \A m \in Nodes(g) : h.at[m] = IF m \in DOMAIN places THEN places[m] ELSE g.at[m]
    BY <1>1
  <1>. QED BY <1>1, <1>2 DEF h

LEMMA RenewedFits ==
  ASSUME NEW g, GraphOK(g), NEW revision \in Nat, NEW h, h = Renewed(g, revision), h.revision <= MaxRevision
  PROVE  GraphOK(h) /\ Nodes(h) = Nodes(g) /\ h.revision > revision /\ h.at = g.at /\ h.pinned = g.pinned
  <1>1. /\ IsFull(h) /\ h.root = g.root /\ h.parent = g.parent /\ h.depth = g.depth
        /\ h.kids = g.kids /\ h.expanded = g.expanded /\ h.cross = g.cross
        /\ h.at = g.at /\ h.pinned = g.pinned
        /\ h.revision = IF g.revision > revision THEN g.revision + 1 ELSE revision + 1
    BY DEF GraphOK, Renewed, GraphFields, IsFull
  <1>2. h.at \in [Nodes(g) -> Places \union {0}] /\ h.pinned \subseteq Nodes(g) /\ g.revision \in Nat
    BY <1>1 DEF GraphOK, IsGraph
  <1>3. h.revision \in 0..MaxRevision /\ h.revision > revision
    BY <1>1, <1>2, RelationBounds
  <1>4. GraphOK(h) /\ Nodes(h) = Nodes(g)
    BY <1>1, <1>2, <1>3, PlacedFits
  <1>. QED BY <1>1, <1>3, <1>4

----------------------------------------------------------------------------
(* The page and the saved graphs.                                           *)

SavedIds == GraphIds \union {None}
SomeGraph(g) == g # None => GraphOK(g)
UrlOK(url) == url \in RelationUrls

ShownOK(shown) ==
  /\ DOMAIN shown = {"graph", "saved", "loading", "asked"}
  /\ SomeGraph(shown.graph) /\ shown.saved \in SavedIds
  /\ shown.loading \subseteq Papers /\ (shown.loading # {} => GraphOK(shown.graph))

\* The canvas holds the nodes of a graph, in its layout, the dropped ones where
\* the graph says.
CanvasOK(canvas, g) ==
  /\ DOMAIN canvas = {"revision", "at"} /\ canvas.revision = g.revision
  /\ canvas.at \in [Nodes(g) -> Places \union {0}]
  /\ \A m \in g.pinned : canvas.at[m] = g.at[m]

KeptOK(kept) == GraphOK(kept.graph) /\ kept.saved \in SavedIds

Mine == relWrite # None /\ relWrite.mine
Held == relShown # None \/ relCanvas # None \/ relLeave # None \/ Mine

PageInv ==
  /\ UrlOK(relUrl) /\ (relMount # None => UrlOK(relMount)) /\ (relLeave # None => UrlOK(relLeave))
  /\ relKept # None => KeptOK(relKept)
  /\ Held => ShownOK(relShown) /\ relUrl.article \in Papers
  /\ relCanvas # None \/ relLeave # None => GraphOK(relShown.graph)
  /\ relCanvas # None => CanvasOK(relCanvas, relShown.graph)

Served(query) == query.call # None /\ query.call.state = "served"

CacheOK(cache) ==
  /\ cache = [id \in GraphIds |-> cache[id]]
  /\ \A id \in GraphIds : /\ DOMAIN cache[id] = {"data", "err", "call"} /\ SomeGraph(cache[id].data)
                          /\ Served(cache[id]) => SomeGraph(cache[id].call.got)

ServerOK ==
  /\ relServer = [id \in GraphIds |-> relServer[id]]
  /\ \A id \in GraphIds : /\ DOMAIN relServer[id] = {"state", "graph"} /\ SomeGraph(relServer[id].graph)
                          /\ relServer[id].state = "alive" => GraphOK(relServer[id].graph)

WriteOK(write) ==
  /\ write \in WriteRecords /\ GraphOK(write.graph)
  /\ write.state \in {"ok", "gone"} => write.id \in GraphIds

Wrote(write, id) == write # None /\ write.state = "ok" /\ write.id = id

\* A copy that is not known to be unsure is what the server has, once a write
\* that was served is answered; and so is a copy on its way.
CopyAgrees(id, query, write) ==
  /\ query.data # None /\ ~Wrote(write, id) => relServer[id].graph = query.data
  /\ Served(query) => relServer[id].graph = query.call.got
  /\ Wrote(write, id) => relServer[id].graph = IF write.kind = "delete" THEN None ELSE write.graph

CopiesAgree == \A id \in GraphIds \ relUnsure : CopyAgrees(id, relCache[id], relWrite)

RemoteInv ==
  /\ ServerOK /\ CacheOK(relCache) /\ (relWrite # None => WriteOK(relWrite)) /\ relUnsure \subseteq GraphIds
  /\ CopiesAgree

RelInv == PageInv /\ RemoteInv

LEMMA RelStart == RelInit => RelInv
  <1>. SUFFICES ASSUME RelInit PROVE RelInv
    OBVIOUS
  <1>1. PageInv
    BY DEF RelInit, PageInv, UrlOK, Away, Held, Mine, SavedIds, RelationUrls
  <1>2. RemoteInv
    BY DEF RelInit, RemoteInv, ServerOK, CacheOK, CopiesAgree, CopyAgrees, Served, Wrote, NoData, SomeGraph
  <1>. QED BY <1>1, <1>2 DEF RelInv

LEMMA ShowKeeps ==
  ASSUME PageInv, NEW shown, ShownOK(shown), Show(shown), UNCHANGED <<relUrl, relMount>>,
         relUrl.article \in Papers, relLeave' \in {None, relLeave},
         GraphOK(relShown.graph) => GraphOK(shown.graph),
         relCanvas # None /\ relCanvas.revision = shown.graph.revision =>
            \A m \in shown.graph.pinned \intersect DOMAIN relCanvas.at : relCanvas.at[m] = shown.graph.at[m]
  PROVE  PageInv'
  <1>. DEFINE g == shown.graph
  <1>1. relShown' = shown
    BY DEF Show
  <1>2. relKept' # None => KeptOK(relKept')
    <2>1. CASE shown = None \/ g = None
      BY <2>1 DEF Show, PageInv
    <2>2. CASE ~(shown = None \/ g = None)
      BY <2>2 DEF Show, KeptOK, ShownOK, SomeGraph
    <2>. QED BY <2>1, <2>2
  <1>3. relCanvas' # None => GraphOK(g) /\ CanvasOK(relCanvas', g)
    <2>. SUFFICES ASSUME relCanvas' # None PROVE GraphOK(g) /\ CanvasOK(relCanvas', g)
      OBVIOUS
    <2>. DEFINE stays(m) == relCanvas # None /\ m \in DOMAIN relCanvas.at /\ relCanvas.revision = g.revision
    <2>1. ~(shown = None \/ g = None)
      BY DEF Show, Synced
    <2>2. relCanvas' = [revision |-> g.revision,
                        at |-> [m \in Nodes(g) |-> IF stays(m) THEN relCanvas.at[m] ELSE g.at[m]]]
      BY <2>1 DEF Show, Synced
    <2>3. GraphOK(g)
      BY <2>1 DEF ShownOK, SomeGraph
    <2>4. g.at \in [Nodes(g) -> Places \union {0}] /\ g.pinned \subseteq Nodes(g)
      BY <2>3 DEF GraphOK, IsGraph
    <2>5. \A m : stays(m) => relCanvas.at[m] \in Places \union {0}
      BY DEF PageInv, CanvasOK
    <2>6. \A m \in g.pinned : stays(m) => relCanvas.at[m] = g.at[m]
      OBVIOUS
    <2>. HIDE DEF stays, g
    <2>7. relCanvas'.at \in [Nodes(g) -> Places \union {0}]
      BY <2>2, <2>4, <2>5
    <2>8. \A m \in g.pinned : relCanvas'.at[m] = g.at[m]
      BY <2>2, <2>4, <2>6
    <2>. QED BY <2>2, <2>3, <2>7, <2>8 DEF CanvasOK
  <1>4. relLeave' # None => GraphOK(relShown'.graph)
    BY <1>1 DEF PageInv
  <1>5. relLeave' # None => UrlOK(relLeave')
    BY DEF PageInv
  <1>. HIDE DEF g
  <1>. QED BY <1>1, <1>2, <1>3, <1>4, <1>5 DEF PageInv, g

LEMMA MountKeeps ==
  ASSUME PageInv, NEW shown, shown # None => ShownOK(shown) /\ relUrl'.article \in Papers, Mount(shown),
         UrlOK(relUrl'), relMount' # None => UrlOK(relMount'), Mine' => (shown # None \/ shown = relShown) /\ Mine /\ UNCHANGED relUrl
  PROVE  PageInv'
  <1>. DEFINE g == shown.graph
  <1>1. relShown' = shown /\ relLeave' = None
    BY DEF Mount
  <1>2. relKept' # None => KeptOK(relKept')
    <2>1. CASE shown = None \/ g = None
      BY <2>1 DEF Mount, PageInv
    <2>2. CASE ~(shown = None \/ g = None)
      BY <2>2 DEF Mount, KeptOK, ShownOK, SomeGraph
    <2>. QED BY <2>1, <2>2
  <1>3. relCanvas' # None => shown # None /\ GraphOK(g) /\ CanvasOK(relCanvas', g)
    <2>. SUFFICES ASSUME relCanvas' # None PROVE shown # None /\ GraphOK(g) /\ CanvasOK(relCanvas', g)
      OBVIOUS
    <2>1. ~(shown = None \/ g = None)
      BY DEF Mount
    <2>2. relCanvas' = [revision |-> g.revision, at |-> g.at]
      BY <2>1 DEF Mount
    <2>3. GraphOK(g)
      BY <2>1 DEF ShownOK, SomeGraph
    <2>. HIDE DEF g
    <2>. QED BY <2>1, <2>2, <2>3 DEF CanvasOK, GraphOK, IsGraph
  <1>4. Mine' => ShownOK(relShown') /\ relUrl'.article \in Papers
    BY <1>1 DEF PageInv, Held
  <1>. HIDE DEF g
  <1>. QED BY <1>1, <1>2, <1>3, <1>4 DEF PageInv, Held, g

LEMMA ExplorerFits ==
  ASSUME PageInv, NEW url, UrlOK(url), NEW cache, CacheOK(cache)
  PROVE  Explorer(url, cache) # None => ShownOK(Explorer(url, cache)) /\ url.article \in Papers
  <1>. SUFFICES ASSUME Explorer(url, cache) # None
                PROVE  ShownOK(Explorer(url, cache)) /\ url.article \in Papers
    OBVIOUS
  <1>. DEFINE found == IF url.saved = None THEN None ELSE cache[url.saved].data
              favorite == IF found # None /\ found.root = url.article THEN found ELSE None
              start == Initial(url, favorite)
  <1>1. ~(url.article = None \/ (url.saved # None /\ IsPending(cache[url.saved])))
    BY DEF Explorer
  <1>2. Explorer(url, cache) = [graph |-> start.graph, saved |-> start.saved, loading |-> {}, asked |-> FALSE]
    BY <1>1 DEF Explorer
  <1>3. SomeGraph(found)
    BY DEF CacheOK, UrlOK, SavedIds, SomeGraph, RelationUrls
  <1>. HIDE DEF found
  <1>4. SomeGraph(favorite)
    BY <1>3 DEF SomeGraph
  <1>. HIDE DEF favorite
  <1>5. SomeGraph(start.graph) /\ start.saved \in SavedIds
    <2>1. relKept # None => SomeGraph(relKept.graph) /\ relKept.saved \in SavedIds
      BY DEF PageInv, KeptOK, SomeGraph
    <2>2. url.saved \in SavedIds /\ SomeGraph(None) /\ None \in SavedIds
      BY DEF UrlOK, SomeGraph, SavedIds, RelationUrls
    <2>3. \/ start = relKept /\ relKept # None
          \/ start = [graph |-> favorite, saved |-> url.saved]
          \/ start = [graph |-> None, saved |-> None]
      BY DEF Initial
    <2>. HIDE DEF start
    <2>. QED BY <1>4, <2>1, <2>2, <2>3
  <1>. HIDE DEF start
  <1>. QED BY <1>1, <1>2, <1>5 DEF ShownOK, UrlOK, RelationUrls

\* An observer that appears leaves the copies as they are.
LEMMA AskedIs ==
  ASSUME NEW cache, CacheOK(cache), NEW id \in SavedIds
  PROVE  /\ CacheOK(Asked(cache, id))
         /\ \A i \in GraphIds : /\ Asked(cache, id)[i].data = cache[i].data
                                /\ Served(Asked(cache, id)[i]) => Asked(cache, id)[i] = cache[i]
  <1>1. CASE id = None
    BY <1>1 DEF Asked
  <1>2. CASE id # None
    <2>. DEFINE q == IF cache[id].data = None /\ cache[id].call = None
                     THEN [data |-> None, err |-> FALSE, call |-> [state |-> "sent", got |-> None]] ELSE cache[id]
    <2>1. id \in GraphIds
      BY <1>2 DEF SavedIds
    <2>2. Asked(cache, id) = [i \in GraphIds |-> IF i = id THEN q ELSE cache[i]]
      BY <1>2, <2>1 DEF Asked, CacheOK
    <2>3. /\ DOMAIN q = {"data", "err", "call"} /\ q.data = cache[id].data
          /\ Served(q) => q = cache[id]
      BY <2>1 DEF CacheOK, Served
    <2>. HIDE DEF q
    <2>. QED BY <2>1, <2>2, <2>3 DEF CacheOK, Served
  <1>. QED BY <1>1, <1>2

LEMMA OrphanedIs ==
  ASSUME NEW write, write # None => WriteOK(write)
  PROVE  /\ Orphaned(write) # None <=> write # None
         /\ Orphaned(write) # None => /\ WriteOK(Orphaned(write)) /\ ~Orphaned(write).mine
                                      /\ Orphaned(write).kind = write.kind /\ Orphaned(write).id = write.id
                                      /\ Orphaned(write).graph = write.graph /\ Orphaned(write).state = write.state
  <1>1. CASE write = None
    BY <1>1 DEF Orphaned
  <1>2. CASE write # None
    <2>1. Orphaned(write) = [write EXCEPT !.mine = FALSE, !.leave = None]
      BY <1>2 DEF Orphaned
    <2>2. write \in WriteRecords
      BY <1>2 DEF WriteOK
    <2>3. Orphaned(write) \in WriteRecords
      BY <2>1, <2>2 DEF WriteRecords
    <2>4. Orphaned(write) # None
      BY <2>3, NoneIsNoWrite
    <2>5. /\ ~Orphaned(write).mine
          /\ Orphaned(write).kind = write.kind /\ Orphaned(write).id = write.id
          /\ Orphaned(write).graph = write.graph /\ Orphaned(write).state = write.state
      BY <2>1, <2>2 DEF WriteRecords
    <2>. QED BY <1>2, <2>3, <2>4, <2>5 DEF WriteOK
  <1>. QED BY <1>1, <1>2

\* What asks for no more than a copy leaves the saved graphs as they are.
LEMMA QuietKeeps ==
  ASSUME RemoteInv, UNCHANGED <<relServer, relUnsure>>, relWrite' \in {relWrite, Orphaned(relWrite)}, CacheOK(relCache'),
         \A i \in GraphIds : /\ relCache'[i].data = relCache[i].data
                             /\ Served(relCache'[i]) => relCache'[i] = relCache[i]
  PROVE  RemoteInv'
  <1>1. /\ relWrite' # None <=> relWrite # None
        /\ relWrite' # None => /\ WriteOK(relWrite') /\ relWrite'.kind = relWrite.kind /\ relWrite'.id = relWrite.id
                               /\ relWrite'.graph = relWrite.graph /\ relWrite'.state = relWrite.state
    BY OrphanedIs DEF RemoteInv
  <1>2. \A id : Wrote(relWrite', id) <=> Wrote(relWrite, id)
    BY <1>1 DEF Wrote
  <1>3. \A id : Wrote(relWrite, id) => relWrite'.kind = relWrite.kind /\ relWrite'.graph = relWrite.graph
    BY <1>1 DEF Wrote
  <1>4. ASSUME NEW id \in GraphIds \ relUnsure PROVE CopyAgrees(id, relCache[id], relWrite)'
    <2>1. CopyAgrees(id, relCache[id], relWrite)
      BY DEF RemoteInv, CopiesAgree
    <2>2. relCache'[id].data = relCache[id].data /\ (Served(relCache'[id]) => relCache'[id] = relCache[id])
      OBVIOUS
    <2>. QED BY <1>2, <1>3, <2>1, <2>2 DEF CopyAgrees
  <1>. QED BY <1>1, <1>4 DEF RemoteInv, ServerOK, CopiesAgree

LEMMA VisitKeeps ==
  ASSUME PageInv, NEW dest, UrlOK(dest), NEW cache, CacheOK(cache), NEW write, write # None => WriteOK(write),
         Visit(dest, cache, write)
  PROVE  /\ PageInv' /\ CacheOK(relCache') /\ relWrite' = Orphaned(write)
         /\ \A i \in GraphIds : /\ relCache'[i].data = cache[i].data
                                /\ Served(relCache'[i]) => relCache'[i] = cache[i]
  <1>. DEFINE mount == IF ~dest.page THEN None ELSE IF relUrl.page THEN relMount ELSE LastLink
              url == IF dest.page /\ dest.article = None /\ mount # None THEN mount ELSE dest
              asked == IF url.article = None THEN cache ELSE Asked(cache, url.saved)
  <1>1. relUrl' = url /\ relMount' = mount /\ relCache' = asked /\ relWrite' = Orphaned(write)
        /\ Mount(Explorer(url, asked))
    BY DEF Visit
  <1>2. LastLink # None => UrlOK(LastLink)
    BY DEF LastLink, Link, UrlOK, RelationUrls, PageInv, KeptOK, GraphOK, IsGraph, SavedIds
  <1>3. mount # None => UrlOK(mount)
    BY <1>2 DEF PageInv
  <1>. HIDE DEF mount
  <1>4. UrlOK(url)
    BY <1>3
  <1>. HIDE DEF url
  <1>5. url.saved \in SavedIds
    BY <1>4 DEF UrlOK, RelationUrls, SavedIds
  <1>6. CacheOK(asked) /\ \A i \in GraphIds : /\ asked[i].data = cache[i].data
                                              /\ Served(asked[i]) => asked[i] = cache[i]
    BY <1>5, AskedIs
  <1>. HIDE DEF asked
  <1>7. Explorer(url, asked) # None => ShownOK(Explorer(url, asked)) /\ url.article \in Papers
    BY <1>4, <1>6, ExplorerFits
  <1>8. ~Mine'
    BY <1>1, OrphanedIs DEF Mine
  <1>9. PageInv'
    BY <1>1, <1>3, <1>4, <1>7, <1>8, MountKeeps
  <1>. QED BY <1>1, <1>6, <1>9

LEMMA VisitSteps ==
  ASSUME RelInv, (\E dest \in Destinations : Follow(dest)) \/ LeaveUnsaved
  PROVE  RelInv'
  <1>1. ASSUME NEW dest, UrlOK(dest), Visit(dest, relCache, relWrite), UNCHANGED relRemote PROVE RelInv'
    <2>1. /\ PageInv' /\ CacheOK(relCache') /\ relWrite' = Orphaned(relWrite)
          /\ \A i \in GraphIds : /\ relCache'[i].data = relCache[i].data
                                 /\ Served(relCache'[i]) => relCache'[i] = relCache[i]
      BY <1>1, VisitKeeps DEF RelInv, RemoteInv
    <2>. QED BY <1>1, <2>1, QuietKeeps DEF RelInv, relRemote
  <1>2. ASSUME NEW dest \in Destinations, Follow(dest) PROVE RelInv'
    <2>1. UrlOK(dest)
      <3>1. \A i \in GraphIds : relServer[i].state = "alive" => relServer[i].graph.root \in Papers
        BY DEF RelInv, RemoteInv, ServerOK, GraphOK, IsGraph
      <3>2. UrlOK(Away) /\ UrlOK(Home)
        BY DEF UrlOK, RelationUrls, Away, Home
      <3>3. \A a \in Papers, i \in SavedIds : UrlOK(Link(a, i))
        BY DEF UrlOK, RelationUrls, Link, SavedIds
      <3>. QED BY <3>1, <3>2, <3>3, PapersAreFinite DEF Destinations, SavedIds
    <2>2. CASE relLeave' = dest /\ UNCHANGED <<relUrl, relMount, relKept, relShown, relCanvas, relCache, relWrite>>
               /\ IsDirty
      <3>1. HasGraph
        BY <2>2 DEF IsDirty
      <3>2. GraphOK(relShown.graph) /\ ShownOK(relShown) /\ relUrl.article \in Papers
        BY <3>1 DEF HasGraph, RelInv, PageInv, Held, ShownOK, SomeGraph
      <3>3. PageInv'
        BY <2>1, <2>2, <3>2 DEF RelInv, PageInv
      <3>. QED BY <1>2, <2>2, <3>3 DEF RelInv, RemoteInv, ServerOK, CopiesAgree, CopyAgrees, Follow, relRemote
    <2>. QED BY <1>1, <1>2, <2>1, <2>2 DEF Follow
  <1>3. ASSUME LeaveUnsaved PROVE RelInv'
    <2>1. UrlOK(relLeave)
      BY <1>3 DEF LeaveUnsaved, RelInv, PageInv
    <2>. QED BY <1>1, <1>3, <2>1 DEF LeaveUnsaved
  <1>. QED BY <1>2, <1>3

LEMMA ReloadKeeps == RelInv /\ ReloadGraph => RelInv'
  <1>. SUFFICES ASSUME RelInv, ReloadGraph PROVE RelInv'
    OBVIOUS
  <1>. DEFINE url == IF relUrl.article = None /\ LastLink # None THEN LastLink ELSE relUrl
              empty == [i \in GraphIds |-> NoData]
              asked == Asked(empty, url.saved)
  <1>1. /\ relWrite = None /\ UNCHANGED <<relServer, relWrite>> /\ relUrl' = url /\ relMount' = LastLink
        /\ relCache' = asked /\ relUnsure' = {} /\ Mount(Explorer(url, asked))
    BY DEF ReloadGraph
  <1>2. LastLink # None => UrlOK(LastLink)
    BY DEF LastLink, Link, UrlOK, RelationUrls, RelInv, PageInv, KeptOK, GraphOK, IsGraph, SavedIds
  <1>3. UrlOK(url)
    BY <1>2 DEF RelInv, PageInv
  <1>. HIDE DEF url
  <1>4. url.saved \in SavedIds
    BY <1>3 DEF UrlOK, RelationUrls, SavedIds
  <1>5. CacheOK(empty) /\ \A i \in GraphIds : empty[i].data = None /\ ~Served(empty[i])
    BY DEF CacheOK, NoData, Served, SomeGraph
  <1>. HIDE DEF empty
  <1>6. CacheOK(asked) /\ \A i \in GraphIds : asked[i].data = None /\ ~Served(asked[i])
    BY <1>4, <1>5, AskedIs
  <1>. HIDE DEF asked
  <1>7. Explorer(url, asked) # None => ShownOK(Explorer(url, asked)) /\ url.article \in Papers
    BY <1>3, <1>6, ExplorerFits DEF RelInv
  <1>8. PageInv'
    BY <1>1, <1>2, <1>3, <1>7, MountKeeps DEF RelInv, Mine
  <1>9. RemoteInv'
    BY <1>1, <1>6 DEF RelInv, RemoteInv, ServerOK, CopiesAgree, CopyAgrees, Wrote
  <1>. QED BY <1>8, <1>9 DEF RelInv

\* The page shows another graph, and nothing else changes.
LEMMA ReshownKeeps ==
  ASSUME RelInv, Held, NEW shown, ShownOK(shown), Show(shown), GraphOK(relShown.graph) => GraphOK(shown.graph),
         UNCHANGED <<relUrl, relMount, relLeave, relServer, relUnsure, relCache, relWrite>>,
         relCanvas # None /\ relCanvas.revision = shown.graph.revision =>
            \A m \in shown.graph.pinned \intersect DOMAIN relCanvas.at : relCanvas.at[m] = shown.graph.at[m]
  PROVE  RelInv'
  <1>1. PageInv'
    <2>1. relUrl.article \in Papers /\ PageInv
      BY DEF RelInv, PageInv
    <2>. QED BY <2>1, ShowKeeps
  <1>2. RemoteInv'
    BY DEF RelInv, RemoteInv, ServerOK, CopiesAgree, CopyAgrees
  <1>. QED BY <1>1, <1>2 DEF RelInv

LEMMA ShownIs ==
  ASSUME RelInv, Held
  PROVE  /\ DOMAIN relShown = {"graph", "saved", "loading", "asked"} /\ relUrl.article \in Papers
         /\ SomeGraph(relShown.graph) /\ relShown.saved \in SavedIds /\ relShown.loading \subseteq Papers
         /\ relShown.loading # {} => GraphOK(relShown.graph)
         /\ relCanvas # None => GraphOK(relShown.graph) /\ CanvasOK(relCanvas, relShown.graph)
         /\ HasGraph => GraphOK(Graph)
  BY DEF RelInv, PageInv, ShownOK, SomeGraph, HasGraph, Graph

LEMMA KeepEditingKeeps == RelInv /\ KeepEditing => RelInv'
  <1>. SUFFICES ASSUME RelInv, KeepEditing PROVE RelInv'
    OBVIOUS
  <1>1. PageInv'
    BY DEF KeepEditing, RelInv, PageInv, Held, Mine
  <1>2. RemoteInv'
    BY DEF KeepEditing, RelInv, RemoteInv, ServerOK, CopiesAgree, CopyAgrees, relRemote
  <1>. QED BY <1>1, <1>2 DEF RelInv

LEMMA AnswerRootKeeps == RelInv /\ AnswerRoot => RelInv'
  <1>. SUFFICES ASSUME RelInv, AnswerRoot PROVE RelInv'
    OBVIOUS
  <1>. DEFINE r == relUrl.article
              g == NewGraph(r)
              h == Expanded(g, r, FALSE)
              shown == [relShown EXCEPT !.graph = h]
  <1>1. relShown # None /\ relShown.graph = None /\ Show(shown)
        /\ UNCHANGED <<relUrl, relMount, relLeave, relServer, relUnsure, relCache, relWrite>>
    BY DEF AnswerRoot, relRemote
  <1>2. /\ DOMAIN relShown = {"graph", "saved", "loading", "asked"} /\ r \in Papers
        /\ relShown.saved \in SavedIds /\ relShown.loading \subseteq Papers
        /\ relCanvas # None => GraphOK(relShown.graph)
        /\ relShown.loading # {} => GraphOK(relShown.graph)
    BY <1>1, ShownIs DEF Held
  <1>3. GraphOK(g) /\ r \in Nodes(g) /\ g.revision = 0 /\ g.pinned = {}
    BY <1>2, NewFits DEF NewGraph, Nodes
  <1>. HIDE DEF g
  <1>4. h.revision <= MaxRevision
    <2>1. Crossed(g, r) = {}
      <3>1. Nodes(g) = {r}
        BY DEF g, NewGraph, Nodes
      <3>. QED BY <3>1 DEF Crossed, Looked
    <2>2. \A turned : Expanded(g, r, turned).revision = g.revision
      BY <1>3, <2>1, ExpandedLeaves
    <2>3. h.revision = g.revision
      BY <2>2, Zenon
    <2>. HIDE DEF h
    <2>. QED BY <1>3, <2>3, RelationBounds
  <1>5. GraphOK(h) /\ h.pinned = {}
    <2>0. \A turned : Expanded(g, r, turned).pinned = g.pinned
      BY <1>3, ExpandedLeaves
    <2>1. h.pinned = g.pinned
      BY <2>0, Zenon
    <2>2. FALSE \in BOOLEAN
      OBVIOUS
    <2>. QED BY <1>2, <1>3, <1>4, <2>1, <2>2, ExpandedFits
  <1>. HIDE DEF h
  <1>6. ShownOK(shown) /\ shown.graph = h
    BY <1>2, <1>5 DEF ShownOK, SomeGraph
  <1>. HIDE DEF shown
  <1>. QED BY <1>1, <1>5, <1>6, ReshownKeeps DEF Held

LEMMA ToggleNodeKeeps == RelInv /\ (\E n \in Papers : ToggleNode(n)) => RelInv'
  <1>. SUFFICES ASSUME RelInv, NEW n \in Papers, ToggleNode(n) PROVE RelInv'
    OBVIOUS
  <1>. DEFINE g == relShown.graph
  <1>1. HasGraph /\ relShown # None /\ g # None /\ n \in Nodes(g)
        /\ UNCHANGED <<relUrl, relMount, relLeave, relServer, relUnsure, relCache, relWrite>>
    BY DEF ToggleNode, Usable, HasGraph, Graph
  <1>2. /\ DOMAIN relShown = {"graph", "saved", "loading", "asked"} /\ relUrl.article \in Papers
        /\ relShown.saved \in SavedIds /\ relShown.loading \subseteq Papers
        /\ GraphOK(g) /\ (relCanvas # None => CanvasOK(relCanvas, g))
    BY <1>1, ShownIs DEF Held, Graph
  <1>3. CASE n \in Graph.expanded
    <2>. DEFINE h == Collapsed(g, n)
                shown == [relShown EXCEPT !.graph = h]
    <2>1. Show(shown)
      BY <1>3 DEF ToggleNode
    <2>2. GraphOK(h) /\ h.revision = g.revision /\ h.pinned \subseteq g.pinned /\ \A m \in h.pinned : h.at[m] = g.at[m]
      BY <1>1, <1>2, CollapsedFits
    <2>. HIDE DEF h
    <2>3. ShownOK(shown) /\ shown.graph = h
      BY <1>2, <2>2 DEF ShownOK, SomeGraph
    <2>. HIDE DEF shown
    <2>4. relCanvas # None => \A m \in h.pinned : relCanvas.at[m] = h.at[m]
      BY <1>2, <2>2 DEF CanvasOK
    <2>. QED BY <1>1, <2>1, <2>2, <2>3, <2>4, ReshownKeeps DEF Held
  <1>4. CASE n \notin Graph.expanded
    <2>. DEFINE shown == [relShown EXCEPT !.loading = relShown.loading \union {n}]
    <2>1. Show(shown)
      BY <1>4 DEF ToggleNode
    <2>2. ShownOK(shown) /\ shown.graph = g
      BY <1>2 DEF ShownOK, SomeGraph
    <2>. HIDE DEF shown
    <2>3. relCanvas # None => \A m \in g.pinned : relCanvas.at[m] = g.at[m]
      BY <1>2 DEF CanvasOK
    <2>. QED BY <1>1, <1>2, <2>1, <2>2, <2>3, ReshownKeeps DEF Held
  <1>. QED BY <1>3, <1>4

LEMMA AnswerExpandKeeps == RelInv /\ (\E n \in Papers : AnswerExpand(n)) => RelInv'
  <1>. SUFFICES ASSUME RelInv, NEW n \in Papers, AnswerExpand(n) PROVE RelInv'
    OBVIOUS
  <1>. DEFINE g == relShown.graph
  <1>1. relShown # None /\ n \in relShown.loading
        /\ UNCHANGED <<relUrl, relMount, relLeave, relServer, relUnsure, relCache, relWrite>>
    BY DEF AnswerExpand, relRemote
  <1>2. PICK turned \in BOOLEAN :
          /\ Expanded(g, n, turned).revision <= MaxRevision
          /\ Show([relShown EXCEPT !.graph = Expanded(g, n, turned), !.loading = relShown.loading \ {n}])
    <2>1. \E turned \in BOOLEAN : LET k == Expanded(Graph, n, turned)
             IN  /\ k.revision <= MaxRevision
                 /\ Show([relShown EXCEPT !.graph = k, !.loading = @ \ {n}])
      BY DEF AnswerExpand
    <2>. QED BY <2>1 DEF Graph
  <1>3. /\ DOMAIN relShown = {"graph", "saved", "loading", "asked"} /\ relUrl.article \in Papers
        /\ relShown.saved \in SavedIds /\ relShown.loading \subseteq Papers
        /\ GraphOK(g) /\ (relCanvas # None => CanvasOK(relCanvas, g))
    BY <1>1, ShownIs DEF Held
  <1>. DEFINE h == Expanded(g, n, turned)
              shown == [relShown EXCEPT !.graph = h, !.loading = relShown.loading \ {n}]
  <1>4. GraphOK(h)
    BY <1>2, <1>3, ExpandedFits
  <1>5. h.pinned = g.pinned /\ \A m \in g.pinned : h.at[m] = g.at[m]
    <2>1. CASE n \notin Nodes(g)
      BY <2>1 DEF Expanded
    <2>2. CASE n \in Nodes(g)
      <3>1. g.pinned \subseteq Nodes(g)
        BY <1>3 DEF GraphOK, IsGraph
      <3>. QED BY <1>3, <2>2, <3>1, ExpandedLeaves
    <2>. QED BY <2>1, <2>2
  <1>6. Show(shown)
    BY <1>2
  <1>. HIDE DEF h
  <1>7. ShownOK(shown) /\ shown.graph = h
    BY <1>3, <1>4 DEF ShownOK, SomeGraph
  <1>. HIDE DEF shown
  <1>8. relCanvas # None => \A m \in h.pinned : relCanvas.at[m] = h.at[m]
    BY <1>3, <1>5 DEF CanvasOK
  <1>. QED BY <1>1, <1>4, <1>6, <1>7, <1>8, ReshownKeeps DEF Held

LEMMA FailExpandKeeps == RelInv /\ (\E n \in Papers : FailExpand(n)) => RelInv'
  <1>. SUFFICES ASSUME RelInv, NEW n \in Papers, FailExpand(n) PROVE RelInv'
    OBVIOUS
  <1>. DEFINE g == relShown.graph
              shown == [relShown EXCEPT !.loading = relShown.loading \ {n}]
  <1>1. relShown # None /\ n \in relShown.loading /\ Show(shown)
        /\ UNCHANGED <<relUrl, relMount, relLeave, relServer, relUnsure, relCache, relWrite>>
    BY DEF FailExpand, relRemote
  <1>2. /\ DOMAIN relShown = {"graph", "saved", "loading", "asked"} /\ relUrl.article \in Papers
        /\ relShown.saved \in SavedIds /\ relShown.loading \subseteq Papers
        /\ GraphOK(g) /\ (relCanvas # None => CanvasOK(relCanvas, g))
    BY <1>1, ShownIs DEF Held
  <1>3. ShownOK(shown) /\ shown.graph = g
    BY <1>2 DEF ShownOK, SomeGraph
  <1>. HIDE DEF shown
  <1>4. relCanvas # None => \A m \in g.pinned : relCanvas.at[m] = g.at[m]
    BY <1>2 DEF CanvasOK
  <1>. QED BY <1>1, <1>2, <1>3, <1>4, ReshownKeeps DEF Held

LEMMA RestKeeps == RelInv /\ Rest => RelInv'
  <1>. SUFFICES ASSUME RelInv, Rest PROVE RelInv'
    OBVIOUS
  <1>. DEFINE g == relShown.graph
              h == Stored(g, relCanvas.at, {})
              shown == [relShown EXCEPT !.graph = h]
  <1>1. relCanvas # None /\ Show(shown)
        /\ UNCHANGED <<relUrl, relMount, relLeave, relServer, relUnsure, relCache, relWrite>>
    BY DEF Rest, relRemote
  <1>2. Held
    BY <1>1 DEF Held
  <1>3. /\ DOMAIN relShown = {"graph", "saved", "loading", "asked"} /\ relUrl.article \in Papers
        /\ relShown.saved \in SavedIds /\ relShown.loading \subseteq Papers
        /\ GraphOK(g) /\ CanvasOK(relCanvas, g)
    BY <1>1, ShownIs DEF Held
  <1>4. /\ GraphOK(h) /\ h.pinned = g.pinned \union ({} \intersect Nodes(g))
        /\ \A m \in Nodes(g) : h.at[m] = IF m \in DOMAIN relCanvas.at THEN relCanvas.at[m] ELSE g.at[m]
    <2>1. \A m \in DOMAIN relCanvas.at : relCanvas.at[m] \in Places \union {0}
      BY <1>3 DEF CanvasOK
    <2>2. \A dropped :
            /\ GraphOK(Stored(g, relCanvas.at, dropped))
            /\ Stored(g, relCanvas.at, dropped).pinned = g.pinned \union (dropped \intersect Nodes(g))
            /\ \A m \in Nodes(g) :
                 Stored(g, relCanvas.at, dropped).at[m] = IF m \in DOMAIN relCanvas.at THEN relCanvas.at[m] ELSE g.at[m]
      BY <1>3, <2>1, StoredLeaves
    <2>. QED BY <2>2, Zenon
  <1>5. \A m \in h.pinned : relCanvas.at[m] = h.at[m]
    <2>1. g.pinned \subseteq Nodes(g)
      BY <1>3 DEF GraphOK, IsGraph
    <2>. HIDE DEF h, g
    <2>. QED BY <1>3, <1>4, <2>1 DEF CanvasOK
  <1>. HIDE DEF h
  <1>6. ShownOK(shown) /\ shown.graph = h
    BY <1>3, <1>4 DEF ShownOK, SomeGraph
  <1>. HIDE DEF shown
  <1>. QED BY <1>1, <1>2, <1>4, <1>5, <1>6, ReshownKeeps DEF Held

LEMMA RelayoutKeeps == RelInv /\ Relayout => RelInv'
  <1>. SUFFICES ASSUME RelInv, Relayout PROVE RelInv'
    OBVIOUS
  <1>. DEFINE g == relShown.graph
              h == Relaid(g)
              shown == [relShown EXCEPT !.graph = h]
  <1>1. HasGraph /\ relShown # None /\ g.revision < MaxRevision /\ Show(shown)
        /\ UNCHANGED <<relUrl, relMount, relLeave, relServer, relUnsure, relCache, relWrite>>
    BY DEF Relayout, Usable, HasGraph, Graph
  <1>2. /\ DOMAIN relShown = {"graph", "saved", "loading", "asked"} /\ relUrl.article \in Papers
        /\ relShown.saved \in SavedIds /\ relShown.loading \subseteq Papers
        /\ GraphOK(g) /\ (relCanvas # None => CanvasOK(relCanvas, g))
    BY <1>1, ShownIs DEF Held, Graph
  <1>3. GraphOK(h) /\ h.pinned = {}
    BY <1>1, <1>2, RelaidFits
  <1>. HIDE DEF h
  <1>4. ShownOK(shown) /\ shown.graph = h
    BY <1>2, <1>3 DEF ShownOK, SomeGraph
  <1>. HIDE DEF shown
  <1>. QED BY <1>1, <1>3, <1>4, ReshownKeeps DEF Held

LEMMA ResetKeeps == RelInv /\ ResetToSaved => RelInv'
  <1>. SUFFICES ASSUME RelInv, ResetToSaved PROVE RelInv'
    OBVIOUS
  <1>. DEFINE g == relShown.graph
              h == Renewed(SavedGraph, g.revision)
              shown == [relShown EXCEPT !.graph = h]
  <1>1. HasGraph /\ relShown # None /\ IsDirty /\ h.revision <= MaxRevision /\ Show(shown)
        /\ UNCHANGED <<relUrl, relMount, relLeave, relServer, relUnsure, relCache, relWrite>>
    BY DEF ResetToSaved, Usable, HasGraph, Graph, relRemote
  <1>2. /\ DOMAIN relShown = {"graph", "saved", "loading", "asked"} /\ relUrl.article \in Papers
        /\ relShown.saved \in SavedIds /\ relShown.loading \subseteq Papers
        /\ GraphOK(g) /\ (relCanvas # None => CanvasOK(relCanvas, g))
    BY <1>1, ShownIs DEF Held, Graph
  <1>3. GraphOK(SavedGraph)
    <2>1. SavedGraph # None
      BY <1>1 DEF IsDirty
    <2>2. Saved \in GraphIds /\ SavedGraph = relCache[Saved].data
      BY <1>1, <1>2, <2>1 DEF SavedGraph, Saved, SavedIds
    <2>. QED BY <2>1, <2>2 DEF RelInv, RemoteInv, CacheOK, SomeGraph
  <1>4. g.revision \in Nat
    BY <1>2 DEF GraphOK, IsGraph
  <1>5. GraphOK(h) /\ h.revision > g.revision
    BY <1>1, <1>3, <1>4, RenewedFits
  <1>. HIDE DEF h
  <1>6. ShownOK(shown) /\ shown.graph = h
    BY <1>2, <1>5 DEF ShownOK, SomeGraph
  <1>. HIDE DEF shown
  <1>7. relCanvas # None => relCanvas.revision # h.revision
    BY <1>2, <1>4, <1>5 DEF CanvasOK
  <1>. QED BY <1>1, <1>5, <1>6, <1>7, ReshownKeeps DEF Held

LEMMA DropKeeps == RelInv /\ (\E n \in Papers, p \in Places : DropNode(n, p)) => RelInv'
  <1>. SUFFICES ASSUME RelInv, NEW n \in Papers, NEW p \in Places, DropNode(n, p) PROVE RelInv'
    OBVIOUS
  <1>. DEFINE g == relShown.graph
              places == [relCanvas.at EXCEPT ![n] = p]
              h == Stored(g, places, {n})
  <1>1. /\ HasGraph /\ relCanvas # None /\ n \in Nodes(g) /\ relLeave = None
        /\ relShown' = [relShown EXCEPT !.graph = h]
        /\ relKept' = [graph |-> relShown'.graph, saved |-> relShown'.saved]
        /\ relCanvas' = [relCanvas EXCEPT !.at = places]
        /\ UNCHANGED <<relUrl, relMount, relLeave, relServer, relUnsure, relCache, relWrite>>
    BY DEF DropNode, Usable, Graph
  <1>2. /\ DOMAIN relShown = {"graph", "saved", "loading", "asked"} /\ relUrl.article \in Papers
        /\ relShown.saved \in SavedIds /\ relShown.loading \subseteq Papers
        /\ GraphOK(g) /\ CanvasOK(relCanvas, g)
    BY <1>1, ShownIs DEF Held
  <1>3. /\ places \in [Nodes(g) -> Places \union {0}] /\ places[n] = p
        /\ \A m \in Nodes(g) \ {n} : places[m] = relCanvas.at[m]
    BY <1>1, <1>2 DEF CanvasOK
  <1>. HIDE DEF places
  <1>4. /\ GraphOK(h) /\ Nodes(h) = Nodes(g) /\ h.revision = g.revision
        /\ \A m \in Nodes(g) : h.at[m] = places[m]
    <2>1. DOMAIN places = Nodes(g) /\ \A m \in DOMAIN places : places[m] \in Places \union {0}
      BY <1>3
    <2>. QED BY <1>2, <2>1, StoredLeaves
  <1>5. \A m \in h.pinned : m \in Nodes(h)
    BY <1>4 DEF GraphOK, IsGraph
  <1>. HIDE DEF h
  <1>6. /\ DOMAIN relShown' = {"graph", "saved", "loading", "asked"} /\ relShown'.graph = h
        /\ relShown'.saved = relShown.saved /\ relShown'.loading = relShown.loading
    BY <1>1, <1>2
  <1>7. ShownOK(relShown')
    BY <1>2, <1>4, <1>6 DEF ShownOK, SomeGraph
  <1>8. CanvasOK(relCanvas', h)
    <2>1. DOMAIN relCanvas' = {"revision", "at"} /\ relCanvas'.revision = relCanvas.revision /\ relCanvas'.at = places
      BY <1>1, <1>2 DEF CanvasOK
    <2>. QED BY <1>2, <1>3, <1>4, <1>5, <2>1 DEF CanvasOK
  <1>9. KeptOK(relKept')
    BY <1>1, <1>2, <1>4, <1>6 DEF KeptOK
  <1>10. PageInv'
    BY <1>1, <1>2, <1>4, <1>6, <1>7, <1>8, <1>9 DEF RelInv, PageInv
  <1>11. RemoteInv'
    BY <1>1 DEF RelInv, RemoteInv, ServerOK, CopiesAgree, CopyAgrees
  <1>. QED BY <1>10, <1>11 DEF RelInv

LEMMA AskSavedKeeps == RelInv /\ AskSaved => RelInv'
  <1>. SUFFICES ASSUME RelInv, AskSaved PROVE RelInv'
    OBVIOUS
  <1>. DEFINE g == relShown.graph
              cache == Asked(relCache, Saved)
  <1>1. /\ HasGraph /\ relShown # None /\ Saved # None /\ relCache' = cache
        /\ UNCHANGED <<relUrl, relMount, relServer, relUnsure>>
    BY DEF AskSaved, HasGraph, relRemote
  <1>2. /\ DOMAIN relShown = {"graph", "saved", "loading", "asked"} /\ relUrl.article \in Papers
        /\ relShown.saved \in SavedIds /\ relShown.loading \subseteq Papers
        /\ GraphOK(g) /\ (relCanvas # None => CanvasOK(relCanvas, g))
    BY <1>1, ShownIs DEF Held, Graph
  <1>3. Saved = relShown.saved
    BY <1>1 DEF Saved
  <1>4. CacheOK(cache) /\ \A i \in GraphIds : /\ cache[i].data = relCache[i].data
                                              /\ Served(cache[i]) => cache[i] = relCache[i]
    BY <1>2, <1>3, AskedIs DEF RelInv, RemoteInv
  <1>. HIDE DEF cache
  <1>5. CASE Mount(None) /\ relWrite' = Orphaned(relWrite)
    <2>1. RemoteInv'
      BY <1>1, <1>4, <1>5, QuietKeeps DEF RelInv
    <2>2. ~Mine'
      BY <1>5, OrphanedIs DEF Mine, RelInv, RemoteInv
    <2>3. PageInv'
      BY <1>1, <1>5, <2>2, MountKeeps DEF RelInv, PageInv
    <2>. QED BY <2>1, <2>3 DEF RelInv
  <1>6. CASE Show([relShown EXCEPT !.asked = TRUE]) /\ UNCHANGED <<relLeave, relWrite>>
    <2>. DEFINE shown == [relShown EXCEPT !.asked = TRUE]
    <2>1. RemoteInv'
      BY <1>1, <1>4, <1>6, QuietKeeps DEF RelInv
    <2>2. ShownOK(shown) /\ shown.graph = g
      BY <1>2 DEF ShownOK, SomeGraph
    <2>3. Show(shown)
      BY <1>6
    <2>. HIDE DEF shown
    <2>4. relCanvas # None => \A m \in g.pinned : relCanvas.at[m] = g.at[m]
      BY <1>2 DEF CanvasOK
    <2>5. PageInv'
      BY <1>1, <1>2, <1>6, <2>2, <2>3, <2>4, ShowKeeps DEF RelInv
    <2>. QED BY <2>1, <2>5 DEF RelInv
  <1>7. \/ Mount(None) /\ relWrite' = Orphaned(relWrite)
        \/ Show([relShown EXCEPT !.asked = TRUE]) /\ UNCHANGED <<relLeave, relWrite>>
    BY DEF AskSaved
  <1>. QED BY <1>5, <1>6, <1>7

LEMMA ServeReadKeeps == RelInv /\ (\E id \in GraphIds : ServeRead(id)) => RelInv'
  <1>. SUFFICES ASSUME RelInv, NEW id \in GraphIds, ServeRead(id) PROVE RelInv'
    OBVIOUS
  <1>1. /\ UNCHANGED <<relUrl, relMount, relKept, relShown, relCanvas, relLeave, relServer, relUnsure, relWrite>>
        /\ relCache' = [relCache EXCEPT ![id].call = [state |-> "served", got |-> relServer[id].graph]]
    BY DEF ServeRead, relPage, relRemote
  <1>2. CacheOK(relCache)
    BY DEF RelInv, RemoteInv
  <1>. DEFINE q == [relCache[id] EXCEPT !.call = [state |-> "served", got |-> relServer[id].graph]]
  <1>3. relCache' = [i \in GraphIds |-> IF i = id THEN q ELSE relCache[i]]
    BY <1>1, <1>2 DEF CacheOK
  <1>4. DOMAIN q = {"data", "err", "call"} /\ q.data = relCache[id].data /\ q.call.got = relServer[id].graph
    BY <1>2 DEF CacheOK
  <1>. HIDE DEF q
  <1>5. CacheOK(relCache')
    BY <1>2, <1>3, <1>4 DEF CacheOK, Served, RelInv, RemoteInv, ServerOK
  <1>6. ASSUME NEW i \in GraphIds \ relUnsure PROVE CopyAgrees(i, relCache[i], relWrite)'
    <2>1. CopyAgrees(i, relCache[i], relWrite)
      BY DEF RelInv, RemoteInv, CopiesAgree
    <2>. QED BY <1>1, <1>3, <1>4, <2>1 DEF CopyAgrees
  <1>7. RemoteInv'
    BY <1>1, <1>5, <1>6 DEF RelInv, RemoteInv, ServerOK, CopiesAgree
  <1>8. PageInv'
    BY <1>1 DEF RelInv, PageInv, Held, Mine
  <1>. QED BY <1>7, <1>8 DEF RelInv

LEMMA AnswerReadKeeps == RelInv /\ (\E id \in GraphIds : AnswerRead(id)) => RelInv'
  <1>. SUFFICES ASSUME RelInv, NEW id \in GraphIds, AnswerRead(id) PROVE RelInv'
    OBVIOUS
  <1>. DEFINE got == relCache[id].call.got
              data == IF got = None THEN relCache[id].data ELSE got
              q == [data |-> data, err |-> got = None, call |-> None]
              cache == [relCache EXCEPT ![id] = q]
  <1>1. /\ Served(relCache[id]) /\ relCache' = cache
        /\ UNCHANGED <<relUrl, relMount, relServer, relUnsure, relWrite>>
    BY DEF AnswerRead, relRemote, ReadIn, Served
  <1>2. CacheOK(relCache) /\ PageInv
    BY DEF RelInv, RemoteInv
  <1>3. cache = [i \in GraphIds |-> IF i = id THEN q ELSE relCache[i]]
    BY <1>2 DEF CacheOK
  <1>4. DOMAIN q = {"data", "err", "call"} /\ q.data = data /\ ~Served(q) /\ SomeGraph(data)
    BY <1>1, <1>2 DEF CacheOK, Served, SomeGraph
  <1>. HIDE DEF q, cache
  <1>5. CacheOK(cache)
    BY <1>2, <1>3, <1>4 DEF CacheOK
  <1>6. ASSUME NEW i \in GraphIds \ relUnsure PROVE CopyAgrees(i, relCache[i], relWrite)'
    <2>1. CopyAgrees(i, relCache[i], relWrite)
      BY DEF RelInv, RemoteInv, CopiesAgree
    <2>2. CASE i # id
      BY <1>1, <1>3, <2>1, <2>2 DEF CopyAgrees
    <2>3. CASE i = id
      <3>1. relCache'[i] = q /\ relServer[i].graph = got
        BY <1>1, <1>3, <2>1, <2>3 DEF CopyAgrees
      <3>2. q.data # None /\ ~Wrote(relWrite, i) => relServer[i].graph = q.data
        BY <1>4, <2>1, <2>3, <3>1 DEF CopyAgrees
      <3>. QED BY <1>1, <1>4, <2>1, <3>1, <3>2 DEF CopyAgrees
    <2>. QED BY <2>2, <2>3
  <1>7. RemoteInv'
    BY <1>1, <1>5, <1>6 DEF RelInv, RemoteInv, ServerOK, CopiesAgree
  <1>8. CASE UNCHANGED <<relShown, relCanvas, relKept, relLeave>>
    <2>1. PageInv'
      BY <1>1, <1>8 DEF RelInv, PageInv, Held, Mine
    <2>. QED BY <1>7, <2>1 DEF RelInv
  <1>9. CASE relShown = None /\ Mount(Explorer(relUrl, cache))
    <2>1. UrlOK(relUrl) /\ (relMount # None => UrlOK(relMount))
      BY <1>2 DEF PageInv
    <2>2. Explorer(relUrl, cache) # None => ShownOK(Explorer(relUrl, cache)) /\ relUrl.article \in Papers
      BY <1>2, <1>5, <2>1, ExplorerFits
    <2>4. Mine' => Mine
      BY <1>1 DEF Mine
    <2>5. PageInv'
      BY <1>1, <1>2, <1>9, <2>1, <2>2, <2>4, MountKeeps
    <2>. QED BY <1>7, <2>5 DEF RelInv
  <1>10. \/ UNCHANGED <<relShown, relCanvas, relKept, relLeave>>
         \/ relShown = None /\ Mount(Explorer(relUrl, cache))
    <2>1. \/ UNCHANGED <<relShown, relCanvas, relKept, relLeave>>
          \/ relShown = None /\ Mount(Explorer(relUrl, relCache'))
      BY DEF AnswerRead
    <2>. QED BY <1>1, <2>1
  <1>. QED BY <1>8, <1>9, <1>10

LEMMA SendKeeps ==
  ASSUME RelInv, NEW kind \in {"create", "update", "delete"}, NEW leave, leave = None \/ UrlOK(leave), Send(kind, leave),
         Held, GraphOK(Graph)
  PROVE  RelInv'
  <1>1. /\ relWrite = None
        /\ UNCHANGED <<relUrl, relMount, relKept, relShown, relCanvas, relLeave, relServer, relUnsure, relCache>>
        /\ relWrite' = [kind |-> kind, id |-> IF kind = "create" THEN None ELSE Saved,
                        graph |-> Graph, leave |-> leave, mine |-> TRUE, state |-> "sent"]
    BY DEF Send, relPage
  <1>2. relWrite' \in WriteRecords
    <2>1. Saved \in GraphIds \union {None} /\ (IF kind = "create" THEN None ELSE Saved) \in GraphIds \union {None}
      BY ShownIs DEF Saved, SavedIds
    <2>2. Graph \in GraphRecords
      BY GraphIsRecord
    <2>3. leave \in RelationUrls \union {None}
      BY DEF UrlOK
    <2>. QED BY <1>1, <2>1, <2>2, <2>3 DEF WriteRecords
  <1>3. relWrite' # None
    BY <1>2, NoneIsNoWrite
  <1>4. relWrite'.state = "sent" /\ relWrite'.graph = Graph
    BY <1>1
  <1>5. WriteOK(relWrite')
    BY <1>2, <1>4 DEF WriteOK
  <1>6. \A i : ~Wrote(relWrite, i) /\ ~Wrote(relWrite', i)
    BY <1>1, <1>4 DEF Wrote
  <1>7. RemoteInv'
    BY <1>1, <1>5, <1>6 DEF RelInv, RemoteInv, ServerOK, CopiesAgree, CopyAgrees
  <1>8. PageInv'
    BY <1>1 DEF RelInv, PageInv, Held
  <1>. QED BY <1>7, <1>8 DEF RelInv

LEMMA SendsKeep == RelInv /\ (SaveGraph \/ UpdateGraph \/ ForgetGraph \/ SaveAndLeave) => RelInv'
  <1>. SUFFICES ASSUME RelInv, SaveGraph \/ UpdateGraph \/ ForgetGraph \/ SaveAndLeave PROVE RelInv'
    OBVIOUS
  <1>1. Held /\ GraphOK(Graph)
    <2>1. CASE Usable
      <3>1. Held /\ HasGraph
        BY <2>1 DEF Usable, HasGraph, Held
      <3>. QED BY <3>1, ShownIs
    <2>2. CASE relLeave # None
      BY <2>2 DEF Held, Graph, RelInv, PageInv
    <2>. QED BY <2>1, <2>2 DEF SaveGraph, UpdateGraph, ForgetGraph, SaveAndLeave
  <1>2. CASE SaveGraph
    BY <1>1, <1>2, SendKeeps DEF SaveGraph
  <1>3. CASE UpdateGraph
    BY <1>1, <1>3, SendKeeps DEF UpdateGraph
  <1>4. CASE ForgetGraph
    BY <1>1, <1>4, SendKeeps DEF ForgetGraph
  <1>5. CASE SaveAndLeave
    <2>1. relLeave = None \/ UrlOK(relLeave)
      BY DEF RelInv, PageInv
    <2>. QED BY <1>1, <1>5, <2>1, SendKeeps DEF SaveAndLeave
  <1>. QED BY <1>2, <1>3, <1>4, <1>5

LEMMA ServeGraphKeeps == RelInv /\ ServeGraph => RelInv'
  <1>. SUFFICES ASSUME RelInv, ServeGraph PROVE RelInv'
    OBVIOUS
  <1>. DEFINE delete == relWrite.kind = "delete"
              kept(id) == relWrite.kind = "create" \/ relServer[id].state = "alive"
              row == IF delete THEN [state |-> "gone", graph |-> None]
                     ELSE [state |-> "alive", graph |-> relWrite.graph]
  <1>1. relWrite # None /\ relWrite.state = "sent"
        /\ UNCHANGED <<relUrl, relMount, relKept, relShown, relCanvas, relLeave, relCache>>
    BY DEF ServeGraph, relPage
  <1>2. PICK id \in GraphIds :
          /\ relWrite' = [relWrite EXCEPT !.id = id, !.state = IF kept(id) THEN "ok" ELSE "gone"]
          /\ relServer' = IF ~kept(id) THEN relServer ELSE [relServer EXCEPT ![id] = row]
          /\ relUnsure' = IF ReadIn(id, {"served"}) THEN relUnsure \union {id} ELSE relUnsure
    BY DEF ServeGraph
  <1>. DEFINE ok == kept(id)
  <1>3. relWrite \in WriteRecords /\ GraphOK(relWrite.graph)
    BY <1>1 DEF RelInv, RemoteInv, WriteOK
  <1>4. /\ relWrite' \in WriteRecords /\ relWrite'.id = id /\ relWrite'.state = (IF ok THEN "ok" ELSE "gone")
        /\ relWrite'.kind = relWrite.kind /\ relWrite'.graph = relWrite.graph /\ relWrite'.mine = relWrite.mine
    BY <1>2, <1>3 DEF WriteRecords
  <1>5. relWrite' # None /\ WriteOK(relWrite')
    BY <1>3, <1>4, NoneIsNoWrite DEF WriteOK
  <1>. HIDE DEF ok
  <1>6. relServer' = [i \in GraphIds |-> IF i = id /\ ok THEN row ELSE relServer[i]]
    BY <1>2 DEF RelInv, RemoteInv, ServerOK, ok
  <1>7. row.graph = (IF delete THEN None ELSE relWrite.graph) /\ DOMAIN row = {"state", "graph"}
        /\ (row.state = "alive" => row.graph = relWrite.graph)
    OBVIOUS
  <1>. HIDE DEF row
  <1>8. ServerOK'
    BY <1>3, <1>6, <1>7 DEF RelInv, RemoteInv, ServerOK, SomeGraph
  <1>9. ASSUME NEW i \in GraphIds \ relUnsure' PROVE CopyAgrees(i, relCache[i], relWrite)'
    <2>1. CopyAgrees(i, relCache[i], relWrite) /\ ~Wrote(relWrite, i)
      BY <1>1, <1>2 DEF RelInv, RemoteInv, CopiesAgree, Wrote
    <2>2. CASE i # id
      <3>1. ~Wrote(relWrite', i) /\ relServer'[i] = relServer[i]
        BY <1>4, <1>6, <2>2 DEF Wrote
      <3>. QED BY <1>1, <2>1, <3>1 DEF CopyAgrees
    <2>3. CASE i = id /\ ok
      <3>1. ~Served(relCache[i])
        BY <1>2, <2>3 DEF ReadIn, Served
      <3>2. Wrote(relWrite', i) /\ relServer'[i] = row
        BY <1>4, <1>5, <1>6, <2>3 DEF Wrote
      <3>. QED BY <1>1, <1>4, <1>7, <3>1, <3>2 DEF CopyAgrees
    <2>4. CASE i = id /\ ~ok
      <3>1. ~Wrote(relWrite', i) /\ relServer'[i] = relServer[i]
        BY <1>4, <1>6, <2>4 DEF Wrote
      <3>. QED BY <1>1, <2>1, <3>1 DEF CopyAgrees
    <2>. QED BY <2>2, <2>3, <2>4
  <1>10. RemoteInv'
    BY <1>1, <1>2, <1>5, <1>8, <1>9 DEF RelInv, RemoteInv, CopiesAgree
  <1>11. PageInv'
    BY <1>1, <1>4 DEF RelInv, PageInv, Held, Mine
  <1>. QED BY <1>10, <1>11 DEF RelInv

LEMMA RefuseKeeps == RelInv /\ RefuseGraph => RelInv'
  <1>. SUFFICES ASSUME RelInv, RefuseGraph PROVE RelInv'
    OBVIOUS
  <1>1. relWrite # None /\ relWrite.state = "sent" /\ relWrite' = [relWrite EXCEPT !.state = "failed"]
        /\ UNCHANGED <<relUrl, relMount, relKept, relShown, relCanvas, relLeave, relServer, relUnsure, relCache>>
    BY DEF RefuseGraph, relPage, relRemote
  <1>2. relWrite \in WriteRecords /\ GraphOK(relWrite.graph)
    BY <1>1 DEF RelInv, RemoteInv, WriteOK
  <1>3. /\ relWrite' \in WriteRecords /\ relWrite'.state = "failed"
        /\ relWrite'.graph = relWrite.graph /\ relWrite'.mine = relWrite.mine
    BY <1>1, <1>2 DEF WriteRecords
  <1>4. WriteOK(relWrite')
    BY <1>2, <1>3 DEF WriteOK
  <1>5. \A i : ~Wrote(relWrite, i) /\ ~Wrote(relWrite', i)
    BY <1>1, <1>3 DEF Wrote
  <1>6. RemoteInv'
    BY <1>1, <1>4, <1>5 DEF RelInv, RemoteInv, ServerOK, CopiesAgree, CopyAgrees
  <1>7. PageInv'
    BY <1>1, <1>3 DEF RelInv, PageInv, Held, Mine
  <1>. QED BY <1>6, <1>7 DEF RelInv

LEMMA LoseKeeps == RelInv /\ LoseGraph => RelInv'
  <1>. SUFFICES ASSUME RelInv, LoseGraph PROVE RelInv'
    OBVIOUS
  <1>1. /\ relWrite # None /\ relWrite' = None /\ relLeave' \in {None, relLeave}
        /\ relUnsure' = relUnsure \union ({relWrite.id} \ {None})
        /\ UNCHANGED <<relUrl, relMount, relKept, relShown, relCanvas, relServer, relCache>>
    BY DEF LoseGraph
  <1>2. relWrite.id \in GraphIds \union {None}
    BY <1>1 DEF RelInv, RemoteInv, WriteOK, WriteRecords
  <1>3. ASSUME NEW i \in GraphIds \ relUnsure' PROVE CopyAgrees(i, relCache[i], relWrite)'
    <2>1. CopyAgrees(i, relCache[i], relWrite)
      BY <1>1 DEF RelInv, RemoteInv, CopiesAgree
    <2>2. ~Wrote(relWrite, i) /\ ~Wrote(relWrite', i)
      BY <1>1, RelationBounds DEF Wrote
    <2>. QED BY <1>1, <2>1, <2>2 DEF CopyAgrees
  <1>4. RemoteInv'
    BY <1>1, <1>2, <1>3 DEF RelInv, RemoteInv, ServerOK, CopiesAgree
  <1>5. PageInv'
    BY <1>1 DEF RelInv, PageInv, Held, Mine
  <1>. QED BY <1>4, <1>5 DEF RelInv

\* What an answered write leaves in the cache.
AnsweredCache ==
  IF relWrite.state # "ok" THEN relCache
  ELSE IF relWrite.kind = "delete" THEN Removed(relCache, relWrite.id)
  ELSE Remembered(relCache, relWrite.id, relWrite.graph)

LEMMA AnsweredIs ==
  ASSUME RelInv, relWrite # None
  PROVE  CacheOK(AnsweredCache) /\ \A i \in GraphIds \ relUnsure : CopyAgrees(i, AnsweredCache[i], None)
  <1>. DEFINE id == relWrite.id
              q == IF relWrite.kind = "delete" THEN NoData
                   ELSE [relCache[id] EXCEPT !.data = relWrite.graph, !.err = FALSE]
  <1>1. CacheOK(relCache) /\ WriteOK(relWrite) /\ \A i \in GraphIds \ relUnsure : CopyAgrees(i, relCache[i], relWrite)
    BY DEF RelInv, RemoteInv, CopiesAgree
  <1>2. CASE relWrite.state # "ok"
    <2>1. AnsweredCache = relCache /\ \A i : ~Wrote(relWrite, i) /\ ~Wrote(None, i)
      BY <1>2 DEF AnsweredCache, Wrote
    <2>. QED BY <1>1, <2>1 DEF CopyAgrees
  <1>3. CASE relWrite.state = "ok"
    <2>1. id \in GraphIds /\ GraphOK(relWrite.graph)
      BY <1>1, <1>3 DEF WriteOK
    <2>2. AnsweredCache = [i \in GraphIds |-> IF i = id THEN q ELSE relCache[i]]
      BY <1>1, <1>3, <2>1 DEF AnsweredCache, Removed, Remembered, CacheOK
    <2>3. /\ DOMAIN q = {"data", "err", "call"}
          /\ q.data = (IF relWrite.kind = "delete" THEN None ELSE relWrite.graph)
          /\ Served(q) => Served(relCache[id]) /\ q.call = relCache[id].call
      BY <1>1, <2>1 DEF CacheOK, NoData, Served
    <2>. HIDE DEF q
    <2>4. CacheOK(AnsweredCache)
      BY <1>1, <2>1, <2>2, <2>3 DEF CacheOK, SomeGraph
    <2>5. ASSUME NEW i \in GraphIds \ relUnsure PROVE CopyAgrees(i, AnsweredCache[i], None)
      <3>1. CopyAgrees(i, relCache[i], relWrite) /\ ~Wrote(None, i)
        BY <1>1 DEF Wrote
      <3>2. CASE i # id
        <4>1. ~Wrote(relWrite, i) /\ AnsweredCache[i] = relCache[i]
          BY <2>2, <3>2 DEF Wrote
        <4>. QED BY <3>1, <4>1 DEF CopyAgrees
      <3>3. CASE i = id
        <4>1. Wrote(relWrite, i) /\ AnsweredCache[i] = q
          BY <1>3, <2>2, <3>3 DEF Wrote
        <4>. QED BY <2>3, <3>1, <3>3, <4>1 DEF CopyAgrees
      <3>. QED BY <3>2, <3>3
    <2>. QED BY <2>4, <2>5
  <1>. QED BY <1>2, <1>3

LEMMA AnswerGraphKeeps == RelInv /\ AnswerGraph => RelInv'
  <1>. SUFFICES ASSUME RelInv, AnswerGraph PROVE RelInv'
    OBVIOUS
  <1>. DEFINE id == relWrite.id
              ok == relWrite.state = "ok"
              link == IF relWrite.state = "failed" THEN Saved
                      ELSE IF relWrite.kind = "delete" \/ ~ok THEN None ELSE id
              mine == [relShown EXCEPT !.saved = link, !.asked = relShown.asked /\ link = relShown.saved]
              gone == [relShown EXCEPT !.asked = FALSE]
              told == IF relWrite.mine THEN mine
                      ELSE IF ok /\ link = None /\ HasGraph /\ Saved = id THEN gone ELSE relShown
  <1>1. relWrite # None /\ relWrite.state # "sent" /\ UNCHANGED <<relServer, relUnsure>>
    BY DEF AnswerGraph, relRemote
  <1>2. \/ ok /\ relWrite.leave # None /\ Visit(relWrite.leave, AnsweredCache, None)
        \/ /\ relCache' = AnsweredCache /\ relWrite' = None /\ relLeave' \in {None, relLeave}
           /\ Show(told) /\ UNCHANGED <<relUrl, relMount>>
    BY DEF AnswerGraph, AnsweredCache
  <1>3. CacheOK(AnsweredCache) /\ \A i \in GraphIds \ relUnsure : CopyAgrees(i, AnsweredCache[i], None)
    BY <1>1, AnsweredIs
  <1>4. WriteOK(relWrite) /\ PageInv /\ ServerOK /\ relUnsure \subseteq GraphIds
    BY <1>1 DEF RelInv, RemoteInv
  <1>5. link \in SavedIds
    <2>1. Held => Saved \in SavedIds
      BY ShownIs DEF Saved, SavedIds
    <2>2. Saved \in SavedIds
      BY <2>1 DEF Held, Saved, SavedIds
    <2>3. relWrite.state \in {"ok", "gone", "failed"}
      BY <1>1, <1>4 DEF WriteOK, WriteRecords
    <2>. QED BY <1>4, <2>2, <2>3 DEF WriteOK, SavedIds
  <1>. HIDE DEF link
  <1>6. CASE ok /\ relWrite.leave # None /\ Visit(relWrite.leave, AnsweredCache, None)
    <2>1. UrlOK(relWrite.leave)
      BY <1>4, <1>6 DEF WriteOK, WriteRecords, UrlOK
    <2>2. /\ PageInv' /\ CacheOK(relCache') /\ relWrite' = Orphaned(None)
          /\ \A i \in GraphIds : /\ relCache'[i].data = AnsweredCache[i].data
                                 /\ Served(relCache'[i]) => relCache'[i] = AnsweredCache[i]
      BY <1>3, <1>4, <1>6, <2>1, VisitKeeps
    <2>3. relWrite' = None
      BY <2>2 DEF Orphaned
    <2>4. ASSUME NEW i \in GraphIds \ relUnsure PROVE CopyAgrees(i, relCache[i], relWrite)'
      <3>1. CopyAgrees(i, AnsweredCache[i], None) /\ ~Wrote(None, i)
        BY <1>3 DEF Wrote
      <3>. HIDE DEF ok
      <3>. QED BY <1>1, <2>2, <2>3, <3>1 DEF CopyAgrees
    <2>5. RemoteInv'
      BY <1>1, <1>4, <2>2, <2>3, <2>4 DEF RemoteInv, ServerOK, CopiesAgree
    <2>. QED BY <2>2, <2>5 DEF RelInv
  <1>7. CASE /\ relCache' = AnsweredCache /\ relWrite' = None /\ relLeave' \in {None, relLeave}
             /\ Show(told) /\ UNCHANGED <<relUrl, relMount>>
    <2>1. ASSUME NEW i \in GraphIds \ relUnsure PROVE CopyAgrees(i, relCache[i], relWrite)'
      BY <1>1, <1>3, <1>7, <2>1 DEF CopyAgrees
    <2>2. RemoteInv'
      BY <1>1, <1>3, <1>4, <1>7, <2>1 DEF RemoteInv, ServerOK, CopiesAgree
    <2>3. CASE Held
      <3>. DEFINE g == relShown.graph
      <3>1. /\ DOMAIN relShown = {"graph", "saved", "loading", "asked"} /\ relUrl.article \in Papers
            /\ SomeGraph(g) /\ relShown.saved \in SavedIds /\ relShown.loading \subseteq Papers
            /\ relShown.loading # {} => GraphOK(g)
            /\ relCanvas # None => GraphOK(g) /\ CanvasOK(relCanvas, g)
        BY <2>3, ShownIs
      <3>2. ShownOK(mine) /\ mine.graph = g
        BY <1>5, <3>1 DEF ShownOK
      <3>3. ShownOK(gone) /\ gone.graph = g
        BY <3>1 DEF ShownOK
      <3>4. ShownOK(relShown)
        BY <3>1 DEF ShownOK
      <3>. HIDE DEF mine, gone
      <3>5. ShownOK(told) /\ told.graph = g
        BY <3>2, <3>3, <3>4
      <3>. HIDE DEF told
      <3>6. relCanvas # None => \A m \in g.pinned : relCanvas.at[m] = g.at[m]
        BY <3>1 DEF CanvasOK
      <3>7. PageInv'
        BY <1>4, <1>7, <3>1, <3>5, <3>6, ShowKeeps
      <3>. QED BY <2>2, <3>7 DEF RelInv
    <2>4. CASE ~Held
      <3>1. relShown = None /\ relCanvas = None /\ relLeave = None /\ ~relWrite.mine
        BY <1>1, <2>4 DEF Held, Mine
      <3>2. told = None
        BY <3>1 DEF HasGraph
      <3>. HIDE DEF told
      <3>3. relShown' = None /\ relCanvas' = None /\ relKept' = relKept /\ relLeave' = None
        BY <1>7, <3>1, <3>2 DEF Show, Synced
      <3>4. PageInv'
        BY <1>4, <1>7, <3>3 DEF PageInv, Held, Mine
      <3>. QED BY <2>2, <3>4 DEF RelInv
    <2>. QED BY <2>3, <2>4
  <1>. QED BY <1>2, <1>6, <1>7

LEMMA ListKeeps == RelInv /\ (\E id \in GraphIds : RenameListed(id) \/ DeleteListed(id)) => RelInv'
  <1>. SUFFICES ASSUME RelInv, NEW id \in GraphIds, RenameListed(id) \/ DeleteListed(id) PROVE RelInv'
    OBVIOUS
  <1>1. /\ UNCHANGED <<relUrl, relMount, relKept, relShown, relCanvas, relLeave, relUnsure, relWrite>>
        /\ relWrite = None /\ relServer[id].state = "alive"
    BY DEF RenameListed, DeleteListed, relPage, relRemote
  <1>2. /\ CacheOK(relCache) /\ ServerOK /\ relUnsure \subseteq GraphIds
        /\ \A i \in GraphIds \ relUnsure : CopyAgrees(i, relCache[i], None)
    BY <1>1 DEF RelInv, RemoteInv, CopiesAgree
  <1>3. \A i : ~Wrote(None, i)
    BY DEF Wrote
  <1>4. PageInv'
    BY <1>1 DEF RelInv, PageInv, Held, Mine
  <1>5. CASE RenameListed(id)
    <2>. DEFINE q == [relCache[id] EXCEPT !.data = relServer[id].graph, !.err = FALSE]
    <2>1. relServer' = relServer /\ relCache' = [i \in GraphIds |-> IF i = id THEN q ELSE relCache[i]]
      BY <1>2, <1>5 DEF RenameListed, Remembered, CacheOK, relRemote
    <2>2. /\ DOMAIN q = {"data", "err", "call"} /\ q.data = relServer[id].graph
          /\ q.call = relCache[id].call
      BY <1>2 DEF CacheOK
    <2>. HIDE DEF q
    <2>3. Served(q) <=> Served(relCache[id])
      BY <2>2 DEF Served
    <2>4. CacheOK(relCache')
      BY <1>1, <1>2, <2>1, <2>2, <2>3 DEF CacheOK, ServerOK
    <2>5. ASSUME NEW i \in GraphIds \ relUnsure PROVE CopyAgrees(i, relCache[i], None)'
      <3>1. CopyAgrees(i, relCache[i], None)
        BY <1>2
      <3>. QED BY <1>3, <2>1, <2>2, <2>3, <3>1 DEF CopyAgrees
    <2>6. RemoteInv'
      BY <1>1, <1>2, <2>1, <2>4, <2>5 DEF RemoteInv, ServerOK, CopiesAgree
    <2>. QED BY <1>4, <2>6 DEF RelInv
  <1>6. CASE DeleteListed(id)
    <2>. DEFINE row == [state |-> "gone", graph |-> None]
    <2>1. /\ relServer' = [i \in GraphIds |-> IF i = id THEN row ELSE relServer[i]]
          /\ relCache' = [i \in GraphIds |-> IF i = id THEN NoData ELSE relCache[i]]
      BY <1>2, <1>6 DEF DeleteListed, Removed, CacheOK, ServerOK
    <2>2. /\ DOMAIN NoData = {"data", "err", "call"} /\ NoData.data = None /\ ~Served(NoData)
          /\ DOMAIN row = {"state", "graph"} /\ row.graph = None /\ row.state # "alive"
      BY DEF NoData, Served
    <2>. HIDE DEF row
    <2>3. CacheOK(relCache') /\ ServerOK'
      BY <1>2, <2>1, <2>2 DEF CacheOK, ServerOK, SomeGraph
    <2>4. ASSUME NEW i \in GraphIds \ relUnsure PROVE CopyAgrees(i, relCache[i], None)'
      <3>1. CopyAgrees(i, relCache[i], None)
        BY <1>2
      <3>. QED BY <1>3, <2>1, <2>2, <3>1 DEF CopyAgrees
    <2>5. RemoteInv'
      BY <1>1, <1>2, <2>3, <2>4 DEF RemoteInv, CopiesAgree
    <2>. QED BY <1>4, <2>5 DEF RelInv
  <1>. QED BY <1>5, <1>6

LEMMA ElsewhereKeeps == RelInv /\ (\E id \in GraphIds : ChangeElsewhere(id)) => RelInv'
  <1>. SUFFICES ASSUME RelInv, NEW id \in GraphIds, ChangeElsewhere(id) PROVE RelInv'
    OBVIOUS
  <1>1. /\ UNCHANGED <<relUrl, relMount, relKept, relShown, relCanvas, relLeave, relCache, relWrite>>
        /\ relServer[id].state = "alive"
        /\ relUnsure' = IF relCache[id].data # None \/ Served(relCache[id]) \/ (relWrite # None /\ relWrite.id = id)
                        THEN relUnsure \union {id} ELSE relUnsure
    BY DEF ChangeElsewhere, relPage, ReadIn, Served
  <1>2. CacheOK(relCache) /\ ServerOK /\ relUnsure \subseteq GraphIds
    BY DEF RelInv, RemoteInv
  <1>3. \E row : /\ relServer' = [i \in GraphIds |-> IF i = id THEN row ELSE relServer[i]]
                 /\ DOMAIN row = {"state", "graph"} /\ SomeGraph(row.graph)
                 /\ row.state = "alive" => GraphOK(row.graph)
    <2>1. CASE relServer' = [relServer EXCEPT ![id] = [state |-> "gone", graph |-> None]]
      <3>. DEFINE row == [state |-> "gone", graph |-> None]
      <3>1. relServer' = [i \in GraphIds |-> IF i = id THEN row ELSE relServer[i]]
        BY <1>2, <2>1 DEF ServerOK
      <3>2. DOMAIN row = {"state", "graph"} /\ row.state # "alive" /\ SomeGraph(row.graph)
        BY DEF SomeGraph
      <3>. HIDE DEF row
      <3>. QED BY <3>1, <3>2
    <2>2. CASE relServer' = [relServer EXCEPT ![id].graph = NewGraph(relServer[id].graph.root)]
      <3>. DEFINE g == NewGraph(relServer[id].graph.root)
                  row == [relServer[id] EXCEPT !.graph = g]
      <3>1. GraphOK(g)
        <4>1. relServer[id].graph.root \in Papers
          BY <1>1, <1>2 DEF ServerOK, GraphOK, IsGraph
        <4>. QED BY <4>1, NewFits
      <3>. HIDE DEF g
      <3>2. relServer' = [i \in GraphIds |-> IF i = id THEN row ELSE relServer[i]]
        BY <1>2, <2>2 DEF ServerOK, g
      <3>3. DOMAIN row = {"state", "graph"} /\ row.graph = g
        BY <1>2 DEF ServerOK
      <3>. HIDE DEF row
      <3>. QED BY <3>1, <3>2, <3>3 DEF SomeGraph
    <2>. QED BY <2>1, <2>2 DEF ChangeElsewhere
  <1>4. PICK row : /\ relServer' = [i \in GraphIds |-> IF i = id THEN row ELSE relServer[i]]
                   /\ DOMAIN row = {"state", "graph"} /\ SomeGraph(row.graph)
                   /\ row.state = "alive" => GraphOK(row.graph)
    BY <1>3
  <1>5. ServerOK'
    BY <1>2, <1>4 DEF ServerOK
  <1>6. ASSUME NEW i \in GraphIds \ relUnsure' PROVE CopyAgrees(i, relCache[i], relWrite)'
    <2>1. CopyAgrees(i, relCache[i], relWrite)
      BY <1>1 DEF RelInv, RemoteInv, CopiesAgree
    <2>2. CASE i # id
      BY <1>1, <1>4, <2>1, <2>2 DEF CopyAgrees
    <2>3. CASE i = id
      <3>1. relCache[i].data = None /\ ~Served(relCache[i]) /\ ~Wrote(relWrite, i)
        BY <1>1, <2>3 DEF Wrote
      <3>. QED BY <1>1, <3>1 DEF CopyAgrees
    <2>. QED BY <2>2, <2>3
  <1>7. RemoteInv'
    BY <1>1, <1>2, <1>5, <1>6 DEF RelInv, RemoteInv, CopiesAgree
  <1>8. PageInv'
    BY <1>1 DEF RelInv, PageInv, Held, Mine
  <1>. QED BY <1>7, <1>8 DEF RelInv

LEMMA RelStands == RelInv /\ UNCHANGED relVars => RelInv'
  BY DEF RelInv, PageInv, Held, Mine, RemoteInv, ServerOK, CopiesAgree, CopyAgrees, relVars, relPage, relRemote

LEMMA RelMoves == RelInv /\ [RelNext]_relVars => RelInv'
  <1>. SUFFICES ASSUME RelInv, [RelNext]_relVars PROVE RelInv'
    OBVIOUS
  <1>1. CASE UNCHANGED relVars
    BY <1>1, RelStands
  <1>2. CASE RelNext
    <2>1. CASE (\E dest \in Destinations : Follow(dest)) \/ LeaveUnsaved
      BY <2>1, VisitSteps
    <2>2. CASE KeepEditing
      BY <2>2, KeepEditingKeeps
    <2>3. CASE ReloadGraph
      BY <2>3, ReloadKeeps
    <2>4. CASE AnswerRoot
      BY <2>4, AnswerRootKeeps
    <2>5. CASE \E n \in Papers : ToggleNode(n)
      BY <2>5, ToggleNodeKeeps
    <2>6. CASE \E n \in Papers : AnswerExpand(n)
      BY <2>6, AnswerExpandKeeps
    <2>7. CASE \E n \in Papers : FailExpand(n)
      BY <2>7, FailExpandKeeps
    <2>8. CASE \E n \in Papers, p \in Places : DropNode(n, p)
      BY <2>8, DropKeeps
    <2>9. CASE Rest
      BY <2>9, RestKeeps
    <2>10. CASE Relayout
      BY <2>10, RelayoutKeeps
    <2>11. CASE AskSaved
      BY <2>11, AskSavedKeeps
    <2>12. CASE \E id \in GraphIds : ServeRead(id)
      BY <2>12, ServeReadKeeps
    <2>13. CASE \E id \in GraphIds : AnswerRead(id)
      BY <2>13, AnswerReadKeeps
    <2>14. CASE \E id \in GraphIds : RenameListed(id) \/ DeleteListed(id)
      BY <2>14, ListKeeps
    <2>15. CASE \E id \in GraphIds : ChangeElsewhere(id)
      BY <2>15, ElsewhereKeeps
    <2>16. CASE SaveGraph \/ UpdateGraph \/ ForgetGraph \/ SaveAndLeave
      BY <2>16, SendsKeep
    <2>17. CASE ResetToSaved
      BY <2>17, ResetKeeps
    <2>18. CASE ServeGraph
      BY <2>18, ServeGraphKeeps
    <2>19. CASE RefuseGraph
      BY <2>19, RefuseKeeps
    <2>20. CASE AnswerGraph
      BY <2>20, AnswerGraphKeeps
    <2>21. CASE LoseGraph
      BY <2>21, LoseKeeps
    <2>. QED BY <1>2, <2>1, <2>2, <2>3, <2>4, <2>5, <2>6, <2>7, <2>8, <2>9, <2>10, <2>11, <2>12, <2>13,
                <2>14, <2>15, <2>16, <2>17, <2>18, <2>19, <2>20, <2>21, Zenon DEF RelNext
  <1>. QED BY <1>1, <1>2

LEMMA RelHolds == RelSpec => []RelInv
  BY RelStart, RelMoves, PTL DEF RelSpec

\* However expansions, their late answers, collapses, resets, reloads, saves
\* and what other devices do follow each other: every graph there is is one
\* tree within the limit, and the canvas holds its nodes with every dropped
\* one where the graph says (relation-graph.tsx, relation-canvas.tsx).
THEOREM CanvasIsGraph == RelSpec => []CanvasShowsGraph
  <1>1. RelInv => CanvasShowsGraph
    <2>. SUFFICES ASSUME RelInv PROVE CanvasShowsGraph
      OBVIOUS
    <2>1. GraphsAreTrees
      <3>. SUFFICES ASSUME NEW g \in Graphs PROVE IsTree(g)
        BY DEF GraphsAreTrees
      <3>1. GraphOK(g)
        <4>1. g # None
          BY DEF Graphs
        <4>2. CASE \E i \in GraphIds : g = relServer[i].graph
          BY <4>1, <4>2 DEF RelInv, RemoteInv, ServerOK, SomeGraph
        <4>3. CASE \E i \in GraphIds : g = relCache[i].data
          BY <4>1, <4>3 DEF RelInv, RemoteInv, CacheOK, SomeGraph
        <4>4. CASE \E i \in GraphIds : ReadIn(i, {"served"}) /\ g = relCache[i].call.got
          BY <4>1, <4>4 DEF RelInv, RemoteInv, CacheOK, SomeGraph, ReadIn, Served
        <4>5. CASE relShown # None /\ g = relShown.graph
          BY <4>1, <4>5, ShownIs DEF Held, SomeGraph
        <4>6. CASE relKept # None /\ g = relKept.graph
          BY <4>6 DEF RelInv, PageInv, KeptOK
        <4>7. CASE relWrite # None /\ g = relWrite.graph
          BY <4>7 DEF RelInv, RemoteInv, WriteOK
        <4>. QED BY <4>2, <4>3, <4>4, <4>5, <4>6, <4>7 DEF Graphs
      <3>. QED BY <3>1 DEF GraphOK
    <2>2. CanvasHoldsDrops
      BY DEF CanvasHoldsDrops, RelInv, PageInv, CanvasOK, Graph
    <2>. QED BY <2>1, <2>2 DEF CanvasShowsGraph
  <1>. QED BY <1>1, RelHolds, PTL

\* With nothing under way a saved graph shown without the unsaved mark is what
\* the server has, unless another device changed it or an answer crossed
\* another or was lost: a write that was served is remembered when it is
\* answered, and a read brings what the server has
\* (relation-workspace-controls.tsx, relation graph queries).
THEOREM CleanGraphIsSaved == RelSpec => []CleanIsSaved
  <1>1. RelInv => CleanIsSaved
    <2>. SUFFICES ASSUME RelInv, HasGraph, SavedGraph # None, relWrite = None, ~IsDirty, Saved \notin relUnsure
                  PROVE  relServer[Saved].graph # None /\ Signature(relServer[Saved].graph) = Signature(Graph)
      BY DEF CleanIsSaved
    <2>1. Saved \in GraphIds /\ SavedGraph = relCache[Saved].data
      BY ShownIs DEF SavedGraph, Saved, SavedIds, Held
    <2>2. relServer[Saved].graph = SavedGraph
      BY <2>1 DEF RelInv, RemoteInv, CopiesAgree, CopyAgrees, Wrote
    <2>3. Signature(SavedGraph) = Signature(Graph)
      BY DEF IsDirty
    <2>. QED BY <2>2, <2>3
  <1>. QED BY <1>1, RelHolds, PTL

\* What a late expansion does to the graph of now.
OnlyAdds(n) ==
  LET g == Graph
      h == Graph'
  IN  /\ Nodes(g) \subseteq Nodes(h) /\ g.expanded \subseteq h.expanded
      /\ h.expanded \subseteq g.expanded \union {n}
      /\ g.pinned = h.pinned /\ \A m \in g.pinned : h.at[m] = g.at[m]
      /\ \A m \in Nodes(h) \ Nodes(g) : h.parent[m] = n

LEMMA LateAdds == ASSUME RelInv, NEW n \in Papers, AnswerExpand(n) PROVE OnlyAdds(n)
  <1>. DEFINE g == relShown.graph
  <1>1. relShown # None /\ n \in relShown.loading
    BY DEF AnswerExpand
  <1>2. DOMAIN relShown = {"graph", "saved", "loading", "asked"} /\ GraphOK(g)
    BY <1>1, ShownIs DEF Held
  <1>3. PICK turned \in BOOLEAN :
          Show([relShown EXCEPT !.graph = Expanded(g, n, turned), !.loading = relShown.loading \ {n}])
    <2>1. \E turned \in BOOLEAN : LET k == Expanded(Graph, n, turned)
             IN  /\ k.revision <= MaxRevision
                 /\ Show([relShown EXCEPT !.graph = k, !.loading = @ \ {n}])
      BY DEF AnswerExpand
    <2>. QED BY <2>1 DEF Graph
  <1>. DEFINE h == Expanded(g, n, turned)
  <1>4. relShown'.graph = h
    BY <1>2, <1>3 DEF Show
  <1>5. /\ Nodes(g) \subseteq Nodes(h) /\ g.expanded \subseteq h.expanded
        /\ h.expanded \subseteq g.expanded \union {n}
        /\ g.pinned = h.pinned /\ \A m \in g.pinned : h.at[m] = g.at[m]
        /\ \A m \in Nodes(h) \ Nodes(g) : h.parent[m] = n
    <2>1. CASE n \notin Nodes(g)
      BY <2>1 DEF Expanded
    <2>2. CASE n \in Nodes(g)
      <3>1. g.pinned \subseteq Nodes(g)
        BY <1>2 DEF GraphOK, IsGraph
      <3>. QED BY <1>2, <2>2, <3>1, ExpandedLeaves
    <2>. QED BY <2>1, <2>2
  <1>. HIDE DEF h
  <1>. QED BY <1>4, <1>5 DEF OnlyAdds, Graph

\* A late expansion only adds to the graph of now: what was collapsed, dropped
\* or reset in the meantime stays (relations-workspace-view.tsx,
\* expandRelationGraph).
THEOREM LateExpansionsAdd == RelSpec => LateAnswersOnlyAdd
  <1>. DEFINE Late == \A n \in Papers : AnswerExpand(n) => OnlyAdds(n)
  <1>1. RelInv /\ [RelNext]_relVars => [Late]_relVars
    BY LateAdds
  <1>2. RelSpec => [][Late]_relVars
    BY <1>1, RelHolds, PTL DEF RelSpec
  <1>. QED BY <1>2 DEF LateAnswersOnlyAdd, OnlyAdds

----------------------------------------------------------------------------
\* The filters of a search

LEMMA Divided ==
  ASSUME NEW m \in Nat, NEW b \in Nat \ {0}
  PROVE  m \div b \in Nat /\ (m \div b) * b <= m /\ m < (m \div b) * b + b
  OBVIOUS

LEMMA Ahead ==
  ASSUME NEW x \in Nat, NEW y \in Nat, x <= y, NEW b \in Nat
  PROVE  x * b <= y * b /\ x * b \in Nat /\ y * b \in Nat
  <1>1. PICK k \in Nat : y = x + k
    <2>1. y - x \in Nat /\ y = x + (y - x)
      OBVIOUS
    <2>. QED BY <2>1
  <1>2. y * b = x * b + k * b /\ k * b \in Nat /\ x * b \in Nat
    BY <1>1
  <1>. QED BY <1>2

\* Months within the years of a database, first month first.
MonthsFit(months, d) ==
  /\ months \in Nat \X Nat /\ months[1] <= months[2]
  /\ Full(YearsOf[d])[1] <= months[1] /\ months[2] <= Full(YearsOf[d])[2]

LEMMA YearsFit ==
  ASSUME NEW d \in Sources
  PROVE  /\ YearsOf[d][1] \in Nat /\ YearsOf[d][2] \in Nat /\ YearsOf[d][1] <= YearsOf[d][2]
         /\ Full(YearsOf[d])[1] = YearsOf[d][1] * MonthsPerYear
         /\ Full(YearsOf[d])[2] = YearsOf[d][2] * MonthsPerYear + MonthsPerYear - 1
         /\ Full(YearsOf[d])[1] \in Nat /\ Full(YearsOf[d])[2] \in Nat
         /\ Full(YearsOf[d])[1] <= Full(YearsOf[d])[2]
  <1>. DEFINE y == YearsOf[d]
  <1>1. y \in Nat \X Nat /\ y[1] <= y[2] /\ MonthsPerYear \in Nat \ {0}
    BY FilterConstants
  <1>. HIDE DEF y
  <1>2. y[1] * MonthsPerYear <= y[2] * MonthsPerYear /\ y[1] * MonthsPerYear \in Nat /\ y[2] * MonthsPerYear \in Nat
    BY <1>1, Ahead
  <1>3. Full(y) = <<y[1] * MonthsPerYear + 1 - 1, y[2] * MonthsPerYear + MonthsPerYear - 1>>
    BY DEF Full, MonthKey
  <1>. DEFINE a == y[1] * MonthsPerYear
              b == y[2] * MonthsPerYear
  <1>. HIDE DEF a, b
  <1>4. Full(y) = <<a + 1 - 1, b + MonthsPerYear - 1>> /\ a <= b /\ a \in Nat /\ b \in Nat
    BY <1>2, <1>3 DEF a, b
  <1>5. /\ Full(y)[1] = a /\ Full(y)[2] = b + MonthsPerYear - 1
        /\ Full(y)[1] \in Nat /\ Full(y)[2] \in Nat /\ Full(y)[1] <= Full(y)[2]
    BY <1>1, <1>4
  <1>. QED BY <1>1, <1>5 DEF a, b, y

LEMMA ClampFits ==
  ASSUME NEW d \in Sources, NEW m \in Nat
  PROVE  /\ ClampToYears(m, YearsOf[d]) \in Nat
         /\ Full(YearsOf[d])[1] <= ClampToYears(m, YearsOf[d])
         /\ ClampToYears(m, YearsOf[d]) <= Full(YearsOf[d])[2]
  <1>. DEFINE y == YearsOf[d]
              a == y[1] * MonthsPerYear
              b == y[2] * MonthsPerYear
              q == m \div MonthsPerYear
              low == Full(y)[1]
              high == Full(y)[2]
  <1>1. y[1] \in Nat /\ y[2] \in Nat /\ low = a /\ high = b + MonthsPerYear - 1 /\ low \in Nat /\ high \in Nat /\ low <= high
    BY YearsFit
  <1>2. MonthsPerYear \in Nat \ {0}
    BY FilterConstants
  <1>3. q \in Nat /\ q * MonthsPerYear <= m /\ m < q * MonthsPerYear + MonthsPerYear
    BY <1>2, Divided
  <1>. HIDE DEF q, y
  <1>4. MonthKey(y[1], 1) = a + 1 - 1 /\ MonthKey(y[2], MonthsPerYear) = b + MonthsPerYear - 1
    BY DEF MonthKey
  <1>5. ClampToYears(m, y) = IF q < y[1] THEN MonthKey(y[1], 1) ELSE IF q > y[2] THEN MonthKey(y[2], MonthsPerYear) ELSE m
    BY DEF ClampToYears, YearOf, q
  <1>. HIDE DEF low, high
  <1>6. CASE q < y[1]
    <2>. HIDE DEF a, b
    <2>. QED BY <1>1, <1>4, <1>5, <1>6 DEF y, low, high
  <1>7. CASE ~(q < y[1]) /\ q > y[2]
    <2>. HIDE DEF a, b
    <2>. QED BY <1>1, <1>4, <1>5, <1>7 DEF y, low, high
  <1>8. CASE ~(q < y[1]) /\ ~(q > y[2])
    <2>1. a <= q * MonthsPerYear /\ q * MonthsPerYear <= b /\ a \in Nat /\ b \in Nat /\ q * MonthsPerYear \in Nat
      BY <1>1, <1>2, <1>3, <1>8, Ahead
    <2>2. ClampToYears(m, y) = m
      BY <1>5, <1>8
    <2>. DEFINE e == q * MonthsPerYear
    <2>3. a <= e /\ e <= b /\ e <= m /\ m < e + MonthsPerYear /\ a \in Nat /\ b \in Nat /\ e \in Nat
      BY <1>3, <2>1
    <2>. HIDE DEF a, b, e
    <2>. QED BY <1>1, <1>2, <2>2, <2>3 DEF y, low, high
  <1>. QED BY <1>6, <1>7, <1>8

LEMMA RangeFits ==
  ASSUME NEW d \in Sources, NEW range, range = None \/ range \in Nat \X Nat
  PROVE  MonthsFit(RangeFor(range, YearsOf[d]), d)
  <1>. DEFINE y == YearsOf[d]
  <1>1. CASE range = None
    <2>1. RangeFor(range, y) = Full(y) /\ Full(y) = <<Full(y)[1], Full(y)[2]>>
      BY <1>1 DEF RangeFor, Full
    <2>. QED BY <2>1, YearsFit DEF MonthsFit
  <1>2. CASE range # None
    <2>. DEFINE p == ClampToYears(range[1], y)
                r == ClampToYears(range[2], y)
    <2>1. range[1] \in Nat /\ range[2] \in Nat
      BY <1>2
    <2>2. /\ p \in Nat /\ Full(y)[1] <= p /\ p <= Full(y)[2]
          /\ r \in Nat /\ Full(y)[1] <= r /\ r <= Full(y)[2]
      BY <2>1, ClampFits
    <2>3. RangeFor(range, y) = <<MinOf(p, r), MaxOf(p, r)>>
      BY <1>2 DEF RangeFor, Ordered
    <2>4. Full(y)[1] \in Nat /\ Full(y)[2] \in Nat
      BY YearsFit
    <2>. HIDE DEF p, r, y
    <2>. QED BY <2>2, <2>3, <2>4 DEF MonthsFit, MinOf, MaxOf, y
  <1>. QED BY <1>1, <1>2

LEMMA RecentFits ==
  ASSUME NEW d \in Sources, NEW n \in RecentYears
  PROVE  MonthsFit(RecentRange(n, YearsOf[d]), d)
  <1>. DEFINE y == YearsOf[d]
              a == y[1] * MonthsPerYear
              b == y[2] * MonthsPerYear
              low == Full(y)[1]
              high == Full(y)[2]
              last == IF y[2] = YearOf(CurrentMonth) THEN CurrentMonth ELSE high
              span == n * MonthsPerYear
  <1>1. y[1] \in Nat /\ y[2] \in Nat /\ low = a /\ high = b + MonthsPerYear - 1 /\ low \in Nat /\ high \in Nat
        /\ low <= high /\ y[1] <= y[2]
    BY YearsFit
  <1>2. MonthsPerYear \in Nat \ {0} /\ CurrentMonth \in Nat /\ n \in Nat /\ 1 <= n
    BY FilterConstants
  <1>3. 1 * MonthsPerYear <= span /\ span \in Nat /\ 1 * MonthsPerYear = MonthsPerYear
    BY <1>2, Ahead
  <1>4. a <= b /\ a \in Nat /\ b \in Nat
    BY <1>1, <1>2, Ahead
  <1>5. y[2] = YearOf(CurrentMonth) => b <= CurrentMonth /\ CurrentMonth < b + MonthsPerYear
    BY <1>2, Divided DEF YearOf
  <1>6. RecentRange(n, y) = <<IF last + 1 < low + span THEN low ELSE last + 1 - span, last>>
    BY DEF RecentRange
  <1>. HIDE DEF a, b, low, high, y, span
  <1>7. last \in Nat /\ low <= last /\ last <= high
    BY <1>1, <1>2, <1>4, <1>5
  <1>. HIDE DEF last
  <1>8. span >= 1
    BY <1>2, <1>3
  <1>. DEFINE first == IF last + 1 < low + span THEN low ELSE last + 1 - span
  <1>9. first \in Nat /\ low <= first /\ first <= last
    BY <1>1, <1>3, <1>7, <1>8
  <1>10. RecentRange(n, y) = <<first, last>>
    BY <1>6
  <1>. HIDE DEF first
  <1>11. RecentRange(n, y) \in Nat \X Nat /\ RecentRange(n, y)[1] = first /\ RecentRange(n, y)[2] = last
    BY <1>7, <1>9, <1>10
  <1>. QED BY <1>7, <1>9, <1>11 DEF MonthsFit, y, low, high


\* The database a name list offers is one of it, or the one selected.
LEMMA OfferedIs ==
  ASSUME NEW selected \in Sources \union {None}, NEW names, names = None \/ names \subseteq Sources
  PROVE  /\ Offered(selected, names) \in Sources \union {None}
         /\ Offered(Offered(selected, names), names) = Offered(selected, names)
  <1>1. CASE names = None \/ names = {} \/ selected \in names
    BY <1>1 DEF Offered
  <1>2. CASE ~(names = None \/ names = {} \/ selected \in names)
    <2>. DEFINE T == {i \in DOMAIN DatabaseOrder : DatabaseOrder[i] \in names}
    <2>1. T \in SUBSET Nat /\ T # {} /\ DOMAIN DatabaseOrder = 1..Len(DatabaseOrder) /\ Len(DatabaseOrder) \in Nat
      <3>1. DatabaseOrder \in Seq(Sources)
        BY FilterConstants
      <3>2. \E s \in names : s \in Sources
        BY <1>2
      <3>3. T # {}
        BY <3>2 DEF Sources, ToSet
      <3>4. DOMAIN DatabaseOrder = 1..Len(DatabaseOrder) /\ Len(DatabaseOrder) \in Nat
        BY <3>1
      <3>. QED BY <3>3, <3>4
    <2>2. PICK i \in T : \A j \in T : i <= j
      <3>. HIDE DEF T
      <3>. QED BY <2>1, LeastNat
    <2>3. DatabaseOrder[i] \in names /\ i \in DOMAIN DatabaseOrder
          /\ \A j \in 1..(i - 1) : DatabaseOrder[j] \notin names
      <3>1. ASSUME NEW j \in 1..(i - 1), DatabaseOrder[j] \in names PROVE FALSE
        <4>1. j \in T /\ ~(i <= j)
          BY <2>1, <2>2, <3>1
        <4>. QED BY <2>2, <4>1
      <3>. QED BY <2>2, <3>1
    <2>4. Leading(names) \in names
      BY <2>3 DEF Leading
    <2>5. Offered(selected, names) = Leading(names)
      BY <1>2 DEF Offered
    <2>. QED BY <1>2, <2>4, <2>5 DEF Offered
  <1>. QED BY <1>1, <1>2

\* The shape of the filters: nothing is offered without a database.
FiltersShape ==
  /\ flServed \subseteq Sources /\ (flNames # None => flNames \subseteq Sources)
  /\ flSelected \in Sources \union {None}
  /\ flOffered \in [Sources \union {None} -> SUBSET (Facets \union {"years"})] /\ flOffered[None] = {}
  /\ flPicked \in [Facets -> SUBSET Sources] /\ (flMonths # None => flMonths \in Nat \X Nat)

\* What is picked fits the database that is searched.
PicksFit == /\ \A f \in Facets : flPicked[f] \subseteq Values(f)
            /\ flMonths # None => Bounded /\ MonthsFit(flMonths, Source)

FiltersInv == FiltersShape /\ (~flForeign => PicksFit)

LEMMA SourceIs == FiltersShape => Source \in Sources \union {None} /\ (Bounded => Source \in Sources)
  <1>. SUFFICES ASSUME FiltersShape PROVE Source \in Sources \union {None} /\ (Bounded => Source \in Sources)
    OBVIOUS
  <1>1. Source \in Sources \union {None}
    BY OfferedIs DEF FiltersShape, Source
  <1>. QED BY <1>1 DEF Bounded, FiltersShape

LEMMA FiltersStart == FlInit => FiltersInv
  <1>. SUFFICES ASSUME FlInit PROVE FiltersInv
    OBVIOUS
  <1>1. None \notin Sources
    BY FilterConstants
  <1>2. PICK kept \in SUBSET Sources :
          flOffered = [d \in Sources \union {None} |-> IF d \in kept THEN Facets \union {"years"} ELSE {}]
    BY DEF FlInit
  <1>3. FiltersShape
    BY <1>1, <1>2 DEF FlInit, FiltersShape, NothingPicked
  <1>4. PicksFit
    BY DEF FlInit, PicksFit, NothingPicked
  <1>. QED BY <1>3, <1>4 DEF FiltersInv

\* A change of the names or the selection either leaves the database, or the
\* filters that stand are of another one.
LEMMA ReconciledKeeps ==
  ASSUME FiltersInv, NEW selected \in Sources \union {None}, NEW names, names = None \/ names \subseteq Sources,
         Reconciled(selected, names), flServed' \subseteq Sources, UNCHANGED <<flOffered, flPicked, flMonths>>
  PROVE  FiltersInv'
  <1>. DEFINE new == Offered(selected, names)
  <1>1. new \in Sources \union {None} /\ Offered(new, names) = new
    BY OfferedIs
  <1>2. flNames' = names /\ flSelected' = new /\ Source' = new
    BY <1>1 DEF Reconciled, Source
  <1>3. FiltersShape'
    BY <1>1, <1>2 DEF FiltersInv, FiltersShape
  <1>4. flForeign' = (flForeign \/ (new # Source /\ Filtered(flPicked, flMonths)))
    BY DEF Reconciled
  <1>. HIDE DEF new
  <1>5. ASSUME ~flForeign' PROVE PicksFit'
    <2>1. ~flForeign /\ ~(new # Source /\ Filtered(flPicked, flMonths))
      BY <1>4, <1>5
    <2>2. PicksFit
      BY <2>1 DEF FiltersInv
    <2>3. CASE new = Source
      BY <1>2, <2>2, <2>3 DEF PicksFit, Values, Bounded, MonthsFit
    <2>4. CASE ~Filtered(flPicked, flMonths)
      <3>1. flPicked = NothingPicked /\ flMonths = None
        BY <2>4 DEF Filtered
      <3>. QED BY <3>1 DEF PicksFit, NothingPicked
    <2>. QED BY <2>1, <2>3, <2>4
  <1>. QED BY <1>3, <1>5 DEF FiltersInv

\* A step that leaves the database and what it offers.
LEMMA PickedKeeps ==
  ASSUME FiltersInv, UNCHANGED <<flServed, flNames, flSelected, flOffered>>,
         flPicked' \in [Facets -> SUBSET Sources], flMonths' # None => flMonths' \in Nat \X Nat,
         ~flForeign' => /\ \A f \in Facets : flPicked'[f] \subseteq Values(f)
                        /\ flMonths' # None => Bounded /\ MonthsFit(flMonths', Source)
  PROVE  FiltersInv'
  <1>1. Source' = Source /\ FiltersShape'
    BY DEF Source, FiltersInv, FiltersShape
  <1>2. ~flForeign' => PicksFit'
    BY <1>1 DEF PicksFit, Values, Bounded, MonthsFit
  <1>. QED BY <1>1, <1>2 DEF FiltersInv

LEMMA DatabaseSteps ==
  ASSUME FiltersInv, ReadNames \/ \E d \in Sources : ServerChanges(d) \/ OtherTabChooses(d) \/ ChooseSource(d)
  PROVE  FiltersInv'
  <1>1. CASE ReadNames
    BY <1>1, ReconciledKeeps DEF ReadNames, FiltersInv, FiltersShape, flUrl
  <1>2. ASSUME NEW d \in Sources, ServerChanges(d) PROVE FiltersInv'
    <2>1. flServed' \subseteq Sources
      BY <1>2 DEF ServerChanges, FiltersInv, FiltersShape
    <2>2. UNCHANGED <<flNames, flSelected, flOffered, flPicked, flMonths, flForeign>>
      BY <1>2 DEF ServerChanges, flUrl
    <2>. QED BY <2>1, <2>2 DEF FiltersInv, FiltersShape, PicksFit, Values, Bounded, Source, MonthsFit
  <1>3. ASSUME NEW d \in Sources, OtherTabChooses(d) PROVE FiltersInv'
    <2>1. Reconciled(d, flNames) /\ UNCHANGED <<flServed, flOffered, flPicked, flMonths>>
      BY <1>3 DEF OtherTabChooses, flUrl
    <2>. QED BY <2>1, ReconciledKeeps DEF FiltersInv, FiltersShape
  <1>4. ASSUME NEW d \in Sources, ChooseSource(d) PROVE FiltersInv'
    <2>1. /\ UNCHANGED <<flServed, flNames, flOffered>> /\ flSelected' = d
          /\ flPicked' = NothingPicked /\ flMonths' = None
      BY <1>4 DEF ChooseSource, LeftOver
    <2>2. PicksFit'
      BY <2>1 DEF PicksFit, NothingPicked
    <2>3. FiltersShape'
      BY <2>1 DEF FiltersInv, FiltersShape, NothingPicked
    <2>. QED BY <2>2, <2>3 DEF FiltersInv
  <1>. QED BY <1>1, <1>2, <1>3, <1>4

LEMMA MetadataKeeps == ASSUME FiltersInv, NEW f \in Facets \union {"years"}, ReadMetadata(f) PROVE FiltersInv'
  <1>1. /\ Source \in flServed /\ flOffered' = [flOffered EXCEPT ![Source] = flOffered[Source] \union {f}]
        /\ UNCHANGED <<flServed, flNames, flSelected, flPicked, flMonths, flForeign>>
    BY DEF ReadMetadata, flDatabase, flUrl
  <1>2. Source \in Sources /\ Source # None
    BY <1>1, FilterConstants DEF FiltersInv, FiltersShape
  <1>3. Source' = Source
    BY <1>1 DEF Source
  <1>. DEFINE s == Source
  <1>4. flOffered'[s] = flOffered[s] \union {f}
    BY <1>1, <1>2 DEF FiltersInv, FiltersShape
  <1>5. FiltersShape'
    BY <1>1, <1>2 DEF FiltersInv, FiltersShape
  <1>6. ASSUME ~flForeign' PROVE PicksFit'
    <2>1. PicksFit
      BY <1>1, <1>6 DEF FiltersInv
    <2>2. \A k \in Facets : Values(k) \subseteq Values(k)'
      BY <1>3, <1>4 DEF Values
    <2>3. Bounded => Bounded'
      BY <1>3, <1>4 DEF Bounded
    <2>. QED BY <1>1, <1>3, <2>1, <2>2, <2>3 DEF PicksFit, MonthsFit
  <1>. QED BY <1>5, <1>6 DEF FiltersInv

LEMMA FacetSteps ==
  ASSUME FiltersInv, ClearFilters \/ \E f \in Facets \union {"years"} : Toggle(f) \/ ClearFacet(f)
  PROVE  FiltersInv'
  <1>1. CASE ClearFilters
    <2>1. flPicked' = NothingPicked /\ flMonths' = None /\ UNCHANGED <<flServed, flNames, flSelected, flOffered>>
      BY <1>1 DEF ClearFilters, flDatabase
    <2>2. flPicked' \in [Facets -> SUBSET Sources] /\ \A f \in Facets : flPicked'[f] = {}
      BY <2>1 DEF NothingPicked
    <2>. QED BY <2>1, <2>2, PickedKeeps
  <1>2. ASSUME NEW f \in Facets, Toggle(f) PROVE FiltersInv'
    <2>1. PICK v \in Values(f) :
            flPicked' = [flPicked EXCEPT ![f] = IF v \in flPicked[f] THEN flPicked[f] \ {v} ELSE flPicked[f] \union {v}]
      BY <1>2 DEF Toggle
    <2>2. UNCHANGED <<flServed, flNames, flSelected, flOffered, flMonths, flForeign>>
      BY <1>2 DEF Toggle, flDatabase
    <2>3. flPicked \in [Facets -> SUBSET Sources]
      BY DEF FiltersInv, FiltersShape
    <2>4. v \in Sources
      BY SourceIs, FilterConstants DEF Values, FiltersInv, FiltersShape
    <2>5. flPicked' \in [Facets -> SUBSET Sources]
      BY <2>1, <2>3, <2>4
    <2>6. ASSUME ~flForeign', NEW k \in Facets PROVE flPicked'[k] \subseteq Values(k)
      <3>1. flPicked[k] \subseteq Values(k)
        BY <2>2, <2>6 DEF FiltersInv, PicksFit
      <3>. QED BY <2>1, <2>3, <3>1
    <2>. QED BY <2>2, <2>5, <2>6, PickedKeeps DEF FiltersInv, FiltersShape, PicksFit
  <1>3. ASSUME NEW f \in Facets, ClearFacet(f) PROVE FiltersInv'
    <2>1. /\ flPicked' = [flPicked EXCEPT ![f] = {}]
          /\ flForeign' = (flForeign /\ Filtered(flPicked', flMonths))
          /\ UNCHANGED <<flServed, flNames, flSelected, flOffered, flMonths>>
      BY <1>3 DEF ClearFacet, flDatabase
    <2>2. flPicked \in [Facets -> SUBSET Sources]
      BY DEF FiltersInv, FiltersShape
    <2>3. flPicked' \in [Facets -> SUBSET Sources]
      BY <2>1, <2>2
    <2>4. ~flForeign' => ~flForeign \/ (flPicked' = NothingPicked /\ flMonths = None)
      BY <2>1 DEF Filtered
    <2>5. CASE ~flForeign
      <3>1. PicksFit
        BY <2>5 DEF FiltersInv
      <3>2. \A k \in Facets : flPicked'[k] \subseteq Values(k)
        BY <2>1, <2>2, <3>1 DEF PicksFit
      <3>. QED BY <2>1, <2>3, <3>1, <3>2, PickedKeeps DEF FiltersInv, FiltersShape, PicksFit
    <2>6. CASE flPicked' = NothingPicked /\ flMonths = None
      <3>1. \A k \in Facets : flPicked'[k] = {}
        BY <2>6 DEF NothingPicked
      <3>. QED BY <2>1, <2>3, <2>6, <3>1, PickedKeeps
    <2>7. CASE flForeign'
      BY <2>1, <2>3, <2>7, PickedKeeps DEF FiltersInv, FiltersShape
    <2>. QED BY <2>4, <2>5, <2>6, <2>7
  <1>4. \A f : Toggle(f) \/ ClearFacet(f) => f \in Facets
    BY DEF Toggle, ClearFacet
  <1>. QED BY <1>1, <1>2, <1>3, <1>4

LEMMA MonthSteps ==
  ASSUME FiltersInv,
         \/ Unlimit \/ AskCustom \/ (\E n \in RecentYears : ChooseRecent(n))
         \/ (\E end \in {1, 2} : CommitMonths(end)) \/ (\E d \in Sources : FollowLink(d))
  PROVE  FiltersInv'
  <1>1. /\ FiltersShape /\ (~flForeign => PicksFit) /\ flPicked \in [Facets -> SUBSET Sources]
        /\ (Bounded => Source \in Sources)
    BY SourceIs DEF FiltersInv, FiltersShape
  <1>2. CASE Unlimit
    <2>1. /\ flMonths' = None /\ flForeign' = (flForeign /\ flPicked # NothingPicked)
          /\ UNCHANGED <<flServed, flNames, flSelected, flOffered, flPicked>>
      BY <1>2 DEF Unlimit, flDatabase
    <2>2. ~flForeign' => ~flForeign \/ flPicked = NothingPicked
      BY <2>1
    <2>3. ~flForeign' => \A f \in Facets : flPicked[f] \subseteq Values(f)
      BY <1>1, <2>2 DEF PicksFit, NothingPicked
    <2>. QED BY <1>1, <2>1, <2>3, PickedKeeps
  <1>3. CASE AskCustom
    <2>1. UNCHANGED <<flServed, flNames, flSelected, flOffered, flPicked, flMonths, flForeign>>
      BY <1>3 DEF AskCustom, flDatabase, flUrl
    <2>. QED BY <1>1, <2>1, PickedKeeps DEF FiltersShape, PicksFit
  <1>4. ASSUME NEW n \in RecentYears, ChooseRecent(n) PROVE FiltersInv'
    <2>1. /\ Bounded /\ flMonths' = RecentRange(n, YearsOf[Source])
          /\ UNCHANGED <<flServed, flNames, flSelected, flOffered, flPicked, flForeign>>
      BY <1>4 DEF ChooseRecent, flDatabase
    <2>2. MonthsFit(flMonths', Source)
      BY <1>1, <2>1, RecentFits
    <2>. QED BY <1>1, <2>1, <2>2, PickedKeeps DEF PicksFit, MonthsFit
  <1>5. ASSUME NEW end \in {1, 2}, CommitMonths(end) PROVE FiltersInv'
    <2>1. /\ Bounded /\ UNCHANGED <<flServed, flNames, flSelected, flOffered, flPicked, flForeign>>
      BY <1>5 DEF CommitMonths, flDatabase
    <2>2. PICK year \in YearsOf[Source][1]..YearsOf[Source][2], month \in 1..MonthsPerYear :
            SetMonth(Ordered(MonthKey(year, month), Shown[3 - end]))
      BY <1>5 DEF CommitMonths
    <2>3. Source \in Sources
      BY <1>1, <2>1
    <2>4. MonthsFit(Shown, Source)
      BY <1>1, <2>3, RangeFits DEF Shown, FiltersShape
    <2>5. MonthKey(year, month) \in Nat
      <3>1. year \in Nat /\ month \in Nat /\ 1 <= month /\ MonthsPerYear \in Nat
        BY <2>3, YearsFit, FilterConstants
      <3>2. year * MonthsPerYear \in Nat
        BY <3>1, Ahead
      <3>. DEFINE k == year * MonthsPerYear
      <3>3. MonthKey(year, month) = k + month - 1 /\ k \in Nat
        BY <3>2 DEF MonthKey
      <3>. HIDE DEF k
      <3>. QED BY <3>1, <3>3
    <2>6. Shown[3 - end] \in Nat
      BY <2>4 DEF MonthsFit
    <2>. DEFINE range == Ordered(MonthKey(year, month), Shown[3 - end])
                kept == RangeFor(range, YearsOf[Source])
    <2>7. range \in Nat \X Nat
      BY <2>5, <2>6 DEF Ordered, MinOf, MaxOf
    <2>8. MonthsFit(kept, Source)
      <3>. HIDE DEF range
      <3>. QED BY <2>3, <2>7, RangeFits
    <2>9. flMonths' = None \/ flMonths' = kept
      BY <2>2 DEF SetMonth
    <2>. HIDE DEF kept
    <2>. QED BY <1>1, <2>1, <2>8, <2>9, PickedKeeps DEF PicksFit, MonthsFit
  <1>6. ASSUME NEW d \in Sources, FollowLink(d) PROVE FiltersInv'
    <2>1. /\ flPicked' = [f \in Facets |-> IF f = "journals" THEN {d} ELSE {}] /\ flMonths' = Full(YearsOf[d])
          /\ flForeign' = TRUE /\ UNCHANGED <<flServed, flNames, flSelected, flOffered>>
      BY <1>6 DEF FollowLink, flDatabase
    <2>2. flPicked' \in [Facets -> SUBSET Sources]
      BY <2>1
    <2>3. flMonths' \in Nat \X Nat
      <3>1. Full(YearsOf[d]) = <<Full(YearsOf[d])[1], Full(YearsOf[d])[2]>>
        BY DEF Full
      <3>. QED BY <2>1, <3>1, YearsFit
    <2>. QED BY <2>1, <2>2, <2>3, PickedKeeps
  <1>. QED BY <1>2, <1>3, <1>4, <1>5, <1>6

LEMMA FiltersMove == FiltersInv /\ [FlNext]_flVars => FiltersInv'
  <1>. SUFFICES ASSUME FiltersInv, [FlNext]_flVars PROVE FiltersInv'
    OBVIOUS
  <1>1. CASE UNCHANGED flVars
    BY <1>1 DEF flVars, flDatabase, flUrl, FiltersInv, FiltersShape, PicksFit, Values, Bounded, Source, MonthsFit
  <1>2. CASE ReadNames \/ \E d \in Sources : ServerChanges(d) \/ OtherTabChooses(d) \/ ChooseSource(d)
    BY <1>2, DatabaseSteps
  <1>3. CASE \E f \in Facets \union {"years"} : ReadMetadata(f)
    BY <1>3, MetadataKeeps
  <1>4. CASE ClearFilters \/ \E f \in Facets \union {"years"} : Toggle(f) \/ ClearFacet(f)
    BY <1>4, FacetSteps
  <1>5. CASE \/ Unlimit \/ AskCustom \/ (\E n \in RecentYears : ChooseRecent(n))
             \/ (\E end \in {1, 2} : CommitMonths(end)) \/ (\E d \in Sources : FollowLink(d))
    BY <1>5, MonthSteps
  <1>. QED BY <1>1, <1>2, <1>3, <1>4, <1>5 DEF FlNext

\* Filters picked in this tab are offered by the database that is searched,
\* and the months lie in its years, for all the years there are: whatever
\* databases come and go, are chosen here or in another tab, and however the
\* months are set (use-search-filter-state.tsx, month-range.tsx).
THEOREM FiltersAreOffered == FlSpec => []FiltersFitDatabase
  <1>1. FiltersInv => FiltersFitDatabase
    BY DEF FiltersInv, PicksFit, FiltersFitDatabase, MonthsFit
  <1>. QED BY <1>1, FiltersStart, FiltersMove, PTL DEF FlSpec

----------------------------------------------------------------------------
\* The canvas of a relation graph

Grounds == Dots \union {Ground}

\* The places of some nodes
Layouts == UNION {[nodes -> Corners] : nodes \in SUBSET Grounds}

GraphFits ==
  /\ cvGraph \in [nodes : SUBSET Dots, at : Layouts, pinned : SUBSET Grounds, revision : Nat, version : Nat]
  /\ cvGraph.at \in [AllOf(cvGraph.nodes) -> Corners] /\ cvGraph.pinned \subseteq AllOf(cvGraph.nodes)

SimFits ==
  /\ cvSim \in [running : BOOLEAN, at : Layouts, held : SUBSET Grounds, revision : Nat]
  /\ cvSim.at \in [AllOf(cvGraph.nodes) -> Corners] /\ Ground \in cvSim.held /\ cvSim.revision = cvGraph.revision

\* A drag keeps the simulation running, and hides the card as a pan does.
CvInv ==
  /\ GraphFits /\ SimFits
  /\ cvDrag \in Grounds \union {None} /\ cvPan \in BOOLEAN /\ cvSpent \in 0..MaxCanvasSteps
  /\ cvDrag # None => cvSim.running
  /\ StillIsStored
  /\ cvCard # None => cvDrag = None /\ ~cvPan

LEMMA LayoutIs == ASSUME NEW nodes \in SUBSET Dots, NEW at \in [AllOf(nodes) -> Corners] PROVE at \in Layouts
  <1>1. AllOf(nodes) \in SUBSET Grounds
    BY DEF AllOf, Grounds
  <1>2. [AllOf(nodes) -> Corners] \in {[some -> Corners] : some \in SUBSET Grounds}
    BY <1>1
  <1>. QED BY <1>2 DEF Layouts

LEMMA CanvasStart == CvInit => CvInv
  <1>. SUFFICES ASSUME CvInit PROVE CvInv
    OBVIOUS
  <1>1. {} \in SUBSET Dots /\ AllOf({}) = {Ground}
    BY DEF AllOf
  <1>2. [n \in {Ground} |-> Seed] \in [AllOf({}) -> Corners] /\ [n \in {Ground} |-> Seed] \in Layouts
    <2>1. [n \in {Ground} |-> Seed] \in [AllOf({}) -> Corners]
      BY <1>1, CanvasConstants
    <2>. QED BY <1>1, <2>1, LayoutIs
  <1>3. GraphFits
    BY <1>1, <1>2 DEF CvInit, GraphFits, Grounds
  <1>4. SimFits
    BY <1>1, <1>2 DEF CvInit, SimFits, Grounds
  <1>5. cvSpent \in 0..MaxCanvasSteps
    BY CanvasConstants DEF CvInit
  <1>6. cvDrag = None /\ cvPan = FALSE /\ cvCard = None /\ cvSim.running
    BY DEF CvInit
  <1>. QED BY <1>3, <1>4, <1>5, <1>6, Zenon DEF CvInv, StillIsStored

\* The graph becomes another that fits: the simulation follows it.
LEMMA BecomesKeeps ==
  ASSUME CvInv, NEW g, g \in [nodes : SUBSET Dots, at : Layouts, pinned : SUBSET Grounds, revision : Nat, version : Nat],
         g.at \in [AllOf(g.nodes) -> Corners], g.pinned \subseteq AllOf(g.nodes), Becomes(g), CvStep,
         UNCHANGED <<cvDrag, cvPan>>, cvCard' \in {cvCard, None}
  PROVE  CvInv'
  <1>. DEFINE at == [n \in AllOf(g.nodes) |->
                       IF n \in DOMAIN cvSim.at /\ cvSim.revision = g.revision THEN cvSim.at[n] ELSE g.at[n]]
  <1>1. /\ cvGraph' \in [nodes : SUBSET Dots, at : Layouts, pinned : SUBSET Grounds, revision : Nat, version : Nat]
        /\ cvGraph'.nodes = g.nodes /\ cvGraph'.at = g.at /\ cvGraph'.pinned = g.pinned /\ cvGraph'.revision = g.revision
    <2>1. cvGraph.version + 1 \in Nat
      BY DEF CvInv, GraphFits
    <2>. QED BY <2>1 DEF Becomes
  <1>2. GraphFits'
    BY <1>1 DEF GraphFits
  <1>3. at \in [AllOf(g.nodes) -> Corners]
    <2>1. cvSim.at \in [AllOf(cvGraph.nodes) -> Corners]
      BY DEF CvInv, SimFits
    <2>. QED BY <2>1
  <1>4. at \in Layouts
    BY <1>3, LayoutIs
  <1>5. cvSim' = [running |-> TRUE, at |-> at, held |-> g.pinned \union {Ground}, revision |-> g.revision]
    BY DEF Becomes, Synchronised
  <1>. HIDE DEF at
  <1>6. SimFits' /\ cvSim'.running
    BY <1>1, <1>3, <1>4, <1>5 DEF SimFits, Grounds
  <1>7. cvDrag' \in Grounds \union {None} /\ cvPan' \in BOOLEAN /\ cvSpent' \in 0..MaxCanvasSteps
        /\ (cvCard' # None => cvDrag' = None /\ ~cvPan')
    BY CanvasConstants DEF CvInv, CvStep
  <1>. QED BY <1>2, <1>6, <1>7 DEF CvInv, StillIsStored

LEMMA GraphSteps == CvInv /\ (GrowCanvas \/ ShrinkCanvas \/ RelayCanvas) => CvInv'
  <1>. SUFFICES ASSUME CvInv, GrowCanvas \/ ShrinkCanvas \/ RelayCanvas PROVE CvInv'
    OBVIOUS
  <1>. DEFINE GraphSet == [nodes : SUBSET Dots, at : Layouts, pinned : SUBSET Grounds, revision : Nat, version : Nat]
  <1>1. /\ cvGraph \in GraphSet /\ cvGraph.at \in [AllOf(cvGraph.nodes) -> Corners]
        /\ cvGraph.pinned \subseteq AllOf(cvGraph.nodes)
    BY DEF CvInv, GraphFits
  <1>2. CASE GrowCanvas
    <2>1. PICK nodes \in Shapes \ {cvGraph.nodes}, revised \in {0, 1} :
            /\ cvGraph.nodes \subseteq nodes
            /\ Becomes([cvGraph EXCEPT !.nodes = nodes, !.revision = @ + revised,
                           !.at = [n \in AllOf(nodes) |->
                               IF n \in AllOf(cvGraph.nodes) /\ revised = 0 THEN @[n] ELSE Seed]])
      BY <1>2 DEF GrowCanvas
    <2>. DEFINE at == [n \in AllOf(nodes) |-> IF n \in AllOf(cvGraph.nodes) /\ revised = 0 THEN cvGraph.at[n] ELSE Seed]
                g == [cvGraph EXCEPT !.nodes = nodes, !.revision = @ + revised, !.at = at]
    <2>2. nodes \in SUBSET Dots /\ at \in [AllOf(nodes) -> Corners]
      BY <1>1, CanvasConstants DEF Shapes
    <2>3. at \in Layouts
      BY <2>2, LayoutIs
    <2>4. Becomes(g)
      BY <2>1
    <2>. HIDE DEF at
    <2>5. g \in GraphSet /\ g.nodes = nodes /\ g.at = at /\ g.pinned = cvGraph.pinned
      <3>1. cvGraph.revision + revised \in Nat /\ nodes \in SUBSET Dots
        BY <1>1, <2>2
      <3>. DEFINE rev == cvGraph.revision + revised
      <3>2. g = [[[cvGraph EXCEPT !.nodes = nodes] EXCEPT !.revision = rev] EXCEPT !.at = at]
        BY <1>1
      <3>3. rev \in Nat
        BY <3>1
      <3>. HIDE DEF rev, g
      <3>. QED BY <1>1, <2>3, <3>1, <3>2, <3>3
    <2>6. cvGraph.pinned \subseteq AllOf(nodes)
      BY <1>1, <2>1 DEF AllOf
    <2>. HIDE DEF g
    <2>. QED BY <1>2, <2>2, <2>4, <2>5, <2>6, BecomesKeeps DEF GrowCanvas
  <1>3. CASE ShrinkCanvas
    <2>1. PICK gone \in Shapes \ {{}} :
            Becomes([cvGraph EXCEPT !.nodes = @ \ gone, !.pinned = @ \ gone,
                        !.at = [n \in AllOf(cvGraph.nodes) \ gone |-> @[n]]])
      BY <1>3 DEF ShrinkCanvas
    <2>. DEFINE at == [n \in AllOf(cvGraph.nodes) \ gone |-> cvGraph.at[n]]
                g == [cvGraph EXCEPT !.nodes = @ \ gone, !.pinned = @ \ gone, !.at = at]
    <2>2. AllOf(cvGraph.nodes) \ gone = AllOf(cvGraph.nodes \ gone) /\ cvGraph.nodes \ gone \in SUBSET Dots
      BY <1>1, <2>1, CanvasConstants DEF Shapes, AllOf
    <2>3. at \in [AllOf(cvGraph.nodes \ gone) -> Corners]
      BY <1>1, <2>2
    <2>4. at \in Layouts
      BY <2>2, <2>3, LayoutIs
    <2>5. Becomes(g)
      BY <2>1
    <2>. HIDE DEF at
    <2>6. g \in GraphSet /\ g.nodes = cvGraph.nodes \ gone /\ g.at = at /\ g.pinned = cvGraph.pinned \ gone
      BY <1>1, <2>2, <2>4
    <2>7. g.pinned \subseteq AllOf(g.nodes)
      BY <1>1, <2>2, <2>6
    <2>. HIDE DEF g
    <2>. QED BY <1>3, <2>3, <2>5, <2>6, <2>7, BecomesKeeps DEF ShrinkCanvas, Hides
  <1>4. CASE RelayCanvas
    <2>. DEFINE at == [n \in AllOf(cvGraph.nodes) |-> Seed]
                g == [cvGraph EXCEPT !.at = at, !.pinned = {}, !.revision = @ + 1]
    <2>1. at \in [AllOf(cvGraph.nodes) -> Corners]
      BY CanvasConstants
    <2>2. at \in Layouts
      BY <1>1, <2>1, LayoutIs
    <2>3. Becomes(g)
      BY <1>4 DEF RelayCanvas
    <2>. HIDE DEF at
    <2>4. g \in GraphSet /\ g.nodes = cvGraph.nodes /\ g.at = at /\ g.pinned = {}
      <3>. DEFINE rev == cvGraph.revision + 1
      <3>1. rev \in Nat
        BY <1>1
      <3>2. g = [[[cvGraph EXCEPT !.at = at] EXCEPT !.pinned = {}] EXCEPT !.revision = rev]
        BY <1>1
      <3>. HIDE DEF rev, g
      <3>. QED BY <1>1, <2>2, <3>1, <3>2
    <2>. HIDE DEF g
    <2>. QED BY <1>4, <2>1, <2>3, <2>4, BecomesKeeps DEF RelayCanvas
  <1>. QED BY <1>2, <1>3, <1>4

\* The simulation with a node held somewhere
LEMMA HeldFits ==
  ASSUME CvInv, NEW n \in Grounds, NEW p \in Corners
  PROVE  LET sim == HeldAt(cvSim, n, p)
         IN  /\ sim \in [running : BOOLEAN, at : Layouts, held : SUBSET Grounds, revision : Nat]
             /\ sim.at \in [AllOf(cvGraph.nodes) -> Corners] /\ Ground \in sim.held
             /\ sim.revision = cvGraph.revision /\ sim.running = cvSim.running
  <1>0. cvSim \in [running : BOOLEAN, at : Layouts, held : SUBSET Grounds, revision : Nat]
        /\ cvSim.at \in [AllOf(cvGraph.nodes) -> Corners] /\ Ground \in cvSim.held /\ cvSim.revision = cvGraph.revision
    BY DEF CvInv, SimFits
  <1>1. CASE n \notin DOMAIN cvSim.at
    BY <1>0, <1>1 DEF HeldAt
  <1>2. CASE n \in DOMAIN cvSim.at
    <2>. DEFINE at == [cvSim.at EXCEPT ![n] = p]
                sim == [[cvSim EXCEPT !.at = at] EXCEPT !.held = cvSim.held \union {n}]
    <2>1. at \in [AllOf(cvGraph.nodes) -> Corners]
      BY <1>0
    <2>2. cvGraph.nodes \in SUBSET Dots
      BY DEF CvInv, GraphFits
    <2>3. at \in Layouts
      BY <2>1, <2>2, LayoutIs
    <2>4. HeldAt(cvSim, n, p) = sim
      BY <1>0, <1>2 DEF HeldAt
    <2>. HIDE DEF at
    <2>. QED BY <1>0, <2>1, <2>3, <2>4
  <1>. QED BY <1>1, <1>2

\* What the simulation reports makes a graph with its places.
LEMMA ReportFits ==
  ASSUME GraphFits, NEW at, at \in [AllOf(cvGraph.nodes) -> Corners], NEW dropped, dropped \subseteq AllOf(cvGraph.nodes)
  PROVE  LET g == Reported(at, dropped)
         IN  /\ g \in [nodes : SUBSET Dots, at : Layouts, pinned : SUBSET Grounds, revision : Nat, version : Nat]
             /\ g.nodes = cvGraph.nodes /\ g.at = at /\ g.pinned = cvGraph.pinned \union dropped
             /\ g.revision = cvGraph.revision
  <1>. DEFINE g == Reported(at, dropped)
              pinned == cvGraph.pinned \union dropped
              version == cvGraph.version + 1
  <1>1. cvGraph \in [nodes : SUBSET Dots, at : Layouts, pinned : SUBSET Grounds, revision : Nat, version : Nat]
    BY DEF GraphFits
  <1>2. at \in Layouts
    BY <1>1, LayoutIs
  <1>3. version \in Nat
    BY <1>1
  <1>4. AllOf(cvGraph.nodes) \subseteq Grounds
    BY <1>1 DEF AllOf, Grounds
  <1>5. pinned \in SUBSET Grounds
    BY <1>1, <1>4
  <1>6. g = [[[cvGraph EXCEPT !.at = at] EXCEPT !.pinned = pinned] EXCEPT !.version = version]
    BY <1>1 DEF Reported
  <1>. HIDE DEF pinned, version, g
  <1>7. /\ g \in [nodes : SUBSET Dots, at : Layouts, pinned : SUBSET Grounds, revision : Nat, version : Nat]
        /\ g.nodes = cvGraph.nodes /\ g.at = at /\ g.pinned = pinned /\ g.revision = cvGraph.revision
    BY <1>1, <1>2, <1>3, <1>5, <1>6
  <1>. QED BY <1>7 DEF g, pinned

LEMMA PlaceSteps ==
  ASSUME CvInv,
         MoveTick \/ EndTicks \/ DragOn \/ DropDragged \/ \E n \in Dots \union {Ground} : StartDrag(n)
  PROVE  CvInv'
  <1>. DEFINE GraphSet == [nodes : SUBSET Dots, at : Layouts, pinned : SUBSET Grounds, revision : Nat, version : Nat]
              SimSet == [running : BOOLEAN, at : Layouts, held : SUBSET Grounds, revision : Nat]
  <1>0. /\ cvGraph \in GraphSet /\ cvGraph.at \in [AllOf(cvGraph.nodes) -> Corners]
        /\ cvGraph.pinned \subseteq AllOf(cvGraph.nodes)
        /\ cvSim \in SimSet /\ cvSim.at \in [AllOf(cvGraph.nodes) -> Corners] /\ Ground \in cvSim.held
        /\ cvSim.revision = cvGraph.revision
    BY DEF CvInv, GraphFits, SimFits
  <1>1. CASE MoveTick
    <2>1. PICK n \in DOMAIN cvSim.at \ cvSim.held, p \in Corners : cvSim' = [cvSim EXCEPT !.at[n] = p]
      BY <1>1 DEF MoveTick
    <2>. DEFINE at == [cvSim.at EXCEPT ![n] = p]
    <2>2. at \in [AllOf(cvGraph.nodes) -> Corners]
      BY <1>0
    <2>3. at \in Layouts
      BY <1>0, <2>2, LayoutIs
    <2>4. cvSim' = [cvSim EXCEPT !.at = at]
      BY <2>1
    <2>. HIDE DEF at
    <2>5. UNCHANGED <<cvGraph, cvDrag, cvPan, cvCard, cvSpent>> /\ cvSim.running
      BY <1>1 DEF MoveTick
    <2>6. cvSim' \in SimSet /\ cvSim'.at = at /\ cvSim'.held = cvSim.held /\ cvSim'.revision = cvSim.revision /\ cvSim'.running
      BY <1>0, <2>3, <2>4, <2>5
    <2>. QED BY <1>0, <2>2, <2>5, <2>6 DEF CvInv, GraphFits, SimFits, StillIsStored
  <1>2. CASE EndTicks
    <2>1. /\ UNCHANGED <<cvDrag, cvPan, cvCard, cvSpent>> /\ cvDrag = None
          /\ cvSim' = [cvSim EXCEPT !.running = FALSE] /\ cvGraph' = Reported(cvSim.at, {})
      BY <1>2 DEF EndTicks
    <2>2. cvSim' \in SimSet /\ cvSim'.at = cvSim.at /\ cvSim'.held = cvSim.held /\ cvSim'.revision = cvSim.revision
      BY <1>0, <2>1
    <2>3. /\ cvGraph' \in GraphSet /\ cvGraph'.nodes = cvGraph.nodes /\ cvGraph'.at = cvSim.at
          /\ cvGraph'.pinned = cvGraph.pinned /\ cvGraph'.revision = cvGraph.revision
      <3>1. GraphFits /\ {} \subseteq AllOf(cvGraph.nodes)
        BY DEF CvInv
      <3>2. cvGraph.pinned \union {} = cvGraph.pinned
        OBVIOUS
      <3>3. LET g == Reported(cvSim.at, {})
            IN  /\ g \in GraphSet /\ g.nodes = cvGraph.nodes /\ g.at = cvSim.at
                /\ g.pinned = cvGraph.pinned \union {} /\ g.revision = cvGraph.revision
        BY <1>0, <3>1, ReportFits
      <3>. QED BY <2>1, <3>2, <3>3
    <2>. QED BY <1>0, <2>1, <2>2, <2>3 DEF CvInv, GraphFits, SimFits, StillIsStored
  <1>3. CASE DragOn
    <2>1. PICK p \in Corners : cvSim' = HeldAt(cvSim, cvDrag, p)
      BY <1>3 DEF DragOn
    <2>2. cvDrag \in Grounds /\ cvDrag # None /\ cvSim.running /\ UNCHANGED <<cvGraph, cvDrag, cvPan, cvCard, cvSpent>>
      BY <1>3 DEF DragOn, CvInv
    <2>3. /\ cvSim' \in SimSet /\ cvSim'.at \in [AllOf(cvGraph.nodes) -> Corners] /\ Ground \in cvSim'.held
          /\ cvSim'.revision = cvGraph.revision /\ cvSim'.running = cvSim.running
      BY <2>1, <2>2, HeldFits
    <2>. QED BY <1>0, <2>2, <2>3 DEF CvInv, GraphFits, SimFits, StillIsStored
  <1>4. CASE DropDragged
    <2>1. PICK p \in Corners :
            /\ cvGraph' = Reported(HeldAt(cvSim, cvDrag, p).at, {cvDrag} \intersect AllOf(cvGraph.nodes))
            /\ cvSim' = [HeldAt(cvSim, cvDrag, p) EXCEPT !.running = TRUE,
                           !.held = IF Reported(HeldAt(cvSim, cvDrag, p).at, {cvDrag} \intersect AllOf(cvGraph.nodes)).pinned
                                         = cvGraph.pinned
                                    THEN @ ELSE Reported(HeldAt(cvSim, cvDrag, p).at,
                                                         {cvDrag} \intersect AllOf(cvGraph.nodes)).pinned \union {Ground}]
      BY <1>4 DEF DropDragged
    <2>. DEFINE sim == HeldAt(cvSim, cvDrag, p)
                g == Reported(sim.at, {cvDrag} \intersect AllOf(cvGraph.nodes))
    <2>2. cvDrag \in Grounds /\ cvDrag # None /\ cvDrag' = None /\ UNCHANGED <<cvPan, cvCard, cvSpent>>
      BY <1>4 DEF DropDragged, CvInv
    <2>3. /\ sim \in SimSet /\ sim.at \in [AllOf(cvGraph.nodes) -> Corners] /\ Ground \in sim.held
          /\ sim.revision = cvGraph.revision
      BY <2>2, HeldFits
    <2>. HIDE DEF sim
    <2>4. AllOf(cvGraph.nodes) \subseteq Grounds
      BY <1>0 DEF AllOf, Grounds
    <2>5. /\ g \in GraphSet /\ g.nodes = cvGraph.nodes /\ g.at = sim.at
          /\ g.pinned = cvGraph.pinned \union ({cvDrag} \intersect AllOf(cvGraph.nodes)) /\ g.revision = cvGraph.revision
      <3>1. GraphFits /\ {cvDrag} \intersect AllOf(cvGraph.nodes) \subseteq AllOf(cvGraph.nodes)
        BY DEF CvInv
      <3>. QED BY <2>3, <3>1, ReportFits
    <2>. HIDE DEF g
    <2>6. cvGraph' = g /\ cvSim' = [sim EXCEPT !.running = TRUE, !.held = IF g.pinned = cvGraph.pinned THEN @ ELSE g.pinned \union {Ground}]
      BY <2>1 DEF g, sim
    <2>7. g.pinned \subseteq AllOf(cvGraph.nodes) /\ g.pinned \union {Ground} \subseteq Grounds
      BY <1>0, <2>4, <2>5 DEF Grounds
    <2>8. /\ cvSim' \in SimSet /\ cvSim'.at = sim.at /\ Ground \in cvSim'.held /\ cvSim'.revision = sim.revision
          /\ cvSim'.running
      BY <2>3, <2>6, <2>7
    <2>9. GraphFits'
      BY <2>3, <2>5, <2>6, <2>7 DEF GraphFits
    <2>10. SimFits'
      BY <2>3, <2>5, <2>6, <2>8 DEF SimFits
    <2>. QED BY <2>2, <2>8, <2>9, <2>10 DEF CvInv, StillIsStored
  <1>5. ASSUME NEW n \in Dots \union {Ground}, StartDrag(n) PROVE CvInv'
    <2>1. PICK p \in Corners : cvSim' = [HeldAt(cvSim, n, p) EXCEPT !.running = TRUE]
      BY <1>5 DEF StartDrag
    <2>. DEFINE sim == HeldAt(cvSim, n, p)
    <2>2. n \in Grounds /\ cvDrag' = n /\ cvCard' = None /\ UNCHANGED <<cvGraph, cvPan>> /\ cvSpent' \in 0..MaxCanvasSteps
      BY <1>5, CanvasConstants DEF StartDrag, Grounds, Hides, CvStep, CvInv
    <2>3. /\ sim \in SimSet /\ sim.at \in [AllOf(cvGraph.nodes) -> Corners] /\ Ground \in sim.held
          /\ sim.revision = cvGraph.revision
      BY <2>2, HeldFits
    <2>. HIDE DEF sim
    <2>4. cvSim' = [sim EXCEPT !.running = TRUE]
      BY <2>1 DEF sim
    <2>5. cvSim' \in SimSet /\ cvSim'.at = sim.at /\ cvSim'.held = sim.held /\ cvSim'.revision = sim.revision /\ cvSim'.running
      BY <2>3, <2>4
    <2>. QED BY <1>0, <2>2, <2>3, <2>5 DEF CvInv, GraphFits, SimFits, StillIsStored
  <1>. QED BY <1>1, <1>2, <1>3, <1>4, <1>5

\* The pointer moves no node.
LEMMA StillStands ==
  ASSUME CvInv, UNCHANGED <<cvGraph, cvSim, cvDrag>>, cvSpent' \in 0..MaxCanvasSteps,
         cvPan' \in BOOLEAN, cvCard' # None => cvDrag = None /\ ~cvPan'
  PROVE  CvInv'
  BY DEF CvInv, GraphFits, SimFits, StillIsStored

LEMMA PointerSteps ==
  ASSUME CvInv,
         \/ StartPan \/ EndPan \/ LeaveDot \/ FireTimer \/ UNCHANGED cvVars
         \/ \E n \in Dots \union {Ground} : EnterDot(n)
  PROVE  CvInv'
  <1>0. cvDrag \in Grounds \union {None} /\ cvPan \in BOOLEAN /\ cvSpent \in 0..MaxCanvasSteps
        /\ (cvCard # None => cvDrag = None /\ ~cvPan)
    BY DEF CvInv
  <1>. DEFINE Stays == UNCHANGED <<cvGraph, cvSim, cvDrag>> /\ cvSpent' \in 0..MaxCanvasSteps
              Clear == cvPan' \in BOOLEAN /\ (cvCard' # None => cvDrag = None /\ ~cvPan')
  <1>1. CASE StartPan
    <2>1. Stays
      BY <1>0, <1>1, CanvasConstants DEF StartPan, CvStep
    <2>2. Clear
      BY <1>1 DEF StartPan, Hides
    <2>. QED BY <2>1, <2>2, StillStands
  <1>2. CASE EndPan
    <2>1. Stays
      BY <1>0, <1>2 DEF EndPan
    <2>2. Clear
      BY <1>0, <1>2 DEF EndPan
    <2>. QED BY <2>1, <2>2, StillStands
  <1>3. CASE LeaveDot
    <2>1. Stays
      BY <1>0, <1>3 DEF LeaveDot
    <2>2. Clear
      BY <1>0, <1>3 DEF LeaveDot, Hides
    <2>. QED BY <2>1, <2>2, StillStands
  <1>4. CASE FireTimer
    <2>1. Stays
      BY <1>0, <1>4 DEF FireTimer
    <2>2. Clear
      BY <1>0, <1>4 DEF FireTimer, Shows
    <2>. QED BY <2>1, <2>2, StillStands
  <1>5. CASE UNCHANGED cvVars
    <2>1. Stays
      BY <1>0, <1>5 DEF cvVars
    <2>2. Clear
      BY <1>0, <1>5 DEF cvVars
    <2>. QED BY <2>1, <2>2, StillStands
  <1>6. ASSUME NEW n \in Dots \union {Ground}, EnterDot(n) PROVE CvInv'
    <2>1. Stays
      BY <1>0, <1>6, CanvasConstants DEF EnterDot, CvStep
    <2>2. cvPan' = cvPan /\ (cvCard' = cvCard \/ (cvDrag = None /\ ~cvPan))
      BY <1>6 DEF EnterDot, Shows
    <2>. QED BY <1>0, <2>1, <2>2, StillStands
  <1>. QED BY <1>1, <1>2, <1>3, <1>4, <1>5, <1>6

\* What stands still on the canvas of a relation graph is stored, and the card
\* of a node never covers a drag or a pan, whatever the simulation, the timer,
\* the pointer and answered expansions do in between (relation-canvas.tsx,
\* syncSimulation, showPreview).
THEOREM CanvasIsStored == CvSpec => [](CvTypeOK /\ StillIsStored /\ CardStaysAway)
  <1>1. CvInv /\ [CvNext]_cvVars => CvInv'
    BY GraphSteps, PlaceSteps, PointerSteps DEF CvNext
  <1>2. CvInv => CvTypeOK /\ StillIsStored /\ CardStaysAway
    BY DEF CvInv, GraphFits, SimFits, CvTypeOK, CardStaysAway, CardShows, Grounds
  <1>. QED BY <1>1, <1>2, CanvasStart, PTL DEF CvSpec

----------------------------------------------------------------------------
\* The page around a relation graph

\* A page whose graph is not read yet selects its center and asks for no
\* branch; one that is read selects a node of its graph.
PageFits(page, url) ==
    /\ page \in Explorers /\ url \in Centers
    /\ page.graph = None => page.selected = url.article /\ page.loading = {}
    /\ page.graph # None => url.article \in page.graph /\ page.selected \in page.graph

MountedFits ==
    \/ exPage = None /\ exUrl = None
    \/ exPage # None /\ exUrl # None /\ PageFits(exPage, exUrl)

PickerFits ==
    /\ exPicker \in [draft : Phrases \union {None}, query : Phrases \union {None},
                     found : [Lookups -> (SUBSET Entries) \union {None}], failed : BOOLEAN]
    /\ exAsked \in Lookups \union {None}
    /\ exAsked # None => exUrl = None /\ exAsked = LookupOf(exDb, exPicker.query)

ExInv ==
    /\ exDb \in Stems /\ exDocked \in BOOLEAN /\ exSpent \in 0..MaxExplorerSteps
    /\ PickerFits /\ MountedFits

LEMMA ExplorerStart == ExInit => ExInv
  <1>. SUFFICES ASSUME ExInit PROVE ExInv
    OBVIOUS
  <1>1. PickerFits
    BY DEF ExInit, PickerFits
  <1>2. exSpent \in 0..MaxExplorerSteps
    BY ExplorerConstants DEF ExInit
  <1>. QED BY <1>1, <1>2 DEF ExInit, ExInv, MountedFits

\* The steps of the picker leave the explorer alone, which is not mounted
\* unless another database is chosen beside it.
LEMMA LookupIs ==
  ASSUME NEW db \in Stems, NEW query \in Phrases \union {None}
  PROVE  LookupOf(db, query) \in Lookups \union {None}
  BY DEF LookupOf, Lookups

LEMMA LookupFollows ==
  ASSUME PickerFits, exDb \in Stems, exUrl = None, NEW db \in Stems, NEW query \in Phrases \union {None}, LooksUp(db, query)
  PROVE  exAsked' \in Lookups \union {None} /\ (exAsked' # None => exAsked' = LookupOf(db, query))
  <1>1. LookupOf(db, query) \in Lookups \union {None}
    BY LookupIs
  <1>. QED BY <1>1 DEF PickerFits, LooksUp

LEMMA PickerMoves ==
  ASSUME ExInv,
         \/ SubmitPhrase \/ AnswerCandidates \/ FailCandidates
         \/ \E w \in Phrases \union {None} : TypePhrase(w)
         \/ \E d \in Stems : ChooseStem(d)
  PROVE  ExInv'
  <1>. DEFINE Picker == [draft : Phrases \union {None}, query : Phrases \union {None},
                         found : [Lookups -> (SUBSET Entries) \union {None}], failed : BOOLEAN]
              Spent == exSpent' \in 0..MaxExplorerSteps
              Beside == exDocked' = exDocked /\ UNCHANGED <<exUrl, exPage>>
  <1>0. /\ exPicker \in Picker /\ exDb \in Stems
        /\ exAsked \in Lookups \union {None}
        /\ exAsked # None => exUrl = None /\ exAsked = LookupOf(exDb, exPicker.query)
    BY DEF ExInv, PickerFits
  <1>1. ExStep \/ UNCHANGED exSpent => Spent
    BY ExplorerConstants DEF ExInv, ExStep
  <1>2. ASSUME Spent, Beside, exDb' \in Stems, PickerFits' PROVE ExInv'
    BY <1>2 DEF ExInv, MountedFits
  <1>3. ASSUME NEW w \in Phrases \union {None}, TypePhrase(w) PROVE ExInv'
    <2>1. exPicker' = [exPicker EXCEPT !.draft = w] /\ UNCHANGED <<exDb, exAsked, exUrl, exDocked, exPage>> /\ ExStep
      BY <1>3 DEF TypePhrase
    <2>2. exPicker' \in Picker /\ exPicker'.query = exPicker.query
      BY <1>0, <2>1
    <2>3. PickerFits'
      BY <1>0, <2>1, <2>2 DEF PickerFits, LookupOf
    <2>. QED BY <1>0, <1>1, <1>2, <2>1, <2>3
  <1>4. CASE SubmitPhrase
    <2>1. /\ exPicker' = [exPicker EXCEPT !.query = exPicker.draft, !.failed = FALSE]
          /\ UNCHANGED <<exDb, exUrl, exDocked, exPage>> /\ ExStep /\ exUrl = None /\ LooksUp(exDb, exPicker.draft)
      BY <1>4 DEF SubmitPhrase, PickerShows
    <2>2. exPicker' \in Picker /\ exPicker'.query = exPicker.draft /\ exPicker.draft \in Phrases \union {None}
      BY <1>0, <2>1
    <2>3. PickerFits
      BY DEF ExInv
    <2>4. exAsked' \in Lookups \union {None} /\ (exAsked' # None => exAsked' = LookupOf(exDb, exPicker.draft))
      BY <1>0, <2>1, <2>2, <2>3, LookupFollows
    <2>5. PickerFits'
      BY <2>1, <2>2, <2>4 DEF PickerFits, LookupOf
    <2>. QED BY <1>0, <1>1, <1>2, <2>1, <2>5
  <1>5. CASE AnswerCandidates
    <2>1. PICK articles \in SUBSET Entries : exPicker' = [exPicker EXCEPT !.found[exAsked] = articles, !.failed = FALSE]
      BY <1>5 DEF AnswerCandidates
    <2>2. exAsked' = None /\ UNCHANGED <<exDb, exUrl, exDocked, exPage, exSpent>>
      BY <1>5 DEF AnswerCandidates
    <2>. DEFINE found == [exPicker.found EXCEPT ![exAsked] = articles]
    <2>3. found \in [Lookups -> (SUBSET Entries) \union {None}]
      BY <1>0
    <2>4. exPicker' = [[exPicker EXCEPT !.found = found] EXCEPT !.failed = FALSE]
      BY <1>0, <2>1
    <2>. HIDE DEF found
    <2>5. exPicker' \in Picker
      BY <1>0, <2>3, <2>4
    <2>6. PickerFits'
      BY <2>2, <2>5 DEF PickerFits
    <2>. QED BY <1>0, <1>1, <1>2, <2>2, <2>6
  <1>6. CASE FailCandidates
    <2>1. /\ exPicker' = [exPicker EXCEPT !.failed = TRUE] /\ exAsked' = None /\ ExStep
          /\ UNCHANGED <<exDb, exUrl, exDocked, exPage>>
      BY <1>6 DEF FailCandidates
    <2>2. exPicker' \in Picker
      BY <1>0, <2>1
    <2>3. PickerFits'
      BY <2>1, <2>2 DEF PickerFits
    <2>. QED BY <1>0, <1>1, <1>2, <2>1, <2>3
  <1>7. ASSUME NEW d \in Stems, ChooseStem(d) PROVE ExInv'
    <2>1. /\ exPicker' = [exPicker EXCEPT !.failed = FALSE] /\ exDb' = d /\ ExStep
          /\ UNCHANGED <<exUrl, exDocked, exPage>>
          /\ IF exUrl = None THEN LooksUp(d, exPicker.query) ELSE UNCHANGED exAsked
      BY <1>7 DEF ChooseStem, PickerShows
    <2>2. exPicker' \in Picker /\ exPicker'.query = exPicker.query /\ exPicker.query \in Phrases \union {None}
      BY <1>0, <2>1
    <2>3. PickerFits
      BY DEF ExInv
    <2>4. exAsked' \in Lookups \union {None} /\ (exAsked' # None => exUrl = None /\ exAsked' = LookupOf(d, exPicker.query))
      BY <1>0, <2>1, <2>2, <2>3, LookupFollows
    <2>5. PickerFits'
      BY <2>1, <2>2, <2>4 DEF PickerFits, LookupOf
    <2>. QED BY <1>0, <1>1, <1>2, <2>1, <2>5
  <1>. QED BY <1>3, <1>4, <1>5, <1>6, <1>7

\* A center is opened: its explorer begins anew and the picker is left.
LEMMA OpensCenter ==
  ASSUME ExInv, NEW url \in Centers \union {None}, Opens(url), ExStep, UNCHANGED <<exDb, exDocked>>
  PROVE  ExInv'
  <1>. DEFINE Picker == [draft : Phrases \union {None}, query : Phrases \union {None},
                         found : [Lookups -> (SUBSET Entries) \union {None}], failed : BOOLEAN]
  <1>1. exPicker \in Picker
    BY DEF ExInv, PickerFits
  <1>2. exPicker' \in Picker
    BY <1>1 DEF Opens
  <1>3. PickerFits'
    BY <1>2 DEF Opens, PickerFits
  <1>4. MountedFits'
    <2>1. CASE url = None
      BY <2>1 DEF Opens, MountedFits
    <2>2. CASE url # None
      <3>1. exUrl' = url /\ exUrl' \in Centers /\ exUrl'.article \in Entries
            /\ exPage' = [graph |-> None, failed |-> FALSE, selected |-> exUrl'.article, sheet |-> FALSE, view |-> "graph",
                          loading |-> {}, failure |-> None]
        BY <2>2 DEF Opens, NewPage, Centers
      <3>2. exPage' \in Explorers
        BY <3>1 DEF Explorers
      <3>3. exPage' # None
        BY <3>2, NoneIsNoGraph
      <3>4. exPage'.graph = None /\ exPage'.selected = exUrl'.article /\ exPage'.loading = {}
        BY <3>1
      <3>. QED BY <2>2, <3>1, <3>2, <3>3, <3>4 DEF MountedFits, PageFits
    <2>. QED BY <2>1, <2>2
  <1>5. exSpent' \in 0..MaxExplorerSteps
    BY ExplorerConstants DEF ExInv, ExStep
  <1>. QED BY <1>3, <1>4, <1>5 DEF ExInv

\* On the page of one center, what follows fits as long as the page does.
LEMMA PageKeeps ==
  ASSUME ExInv, OnPage, ExStep \/ UNCHANGED exSpent, PageFits(exPage', exUrl)
  PROVE  ExInv'
  <1>1. exSpent' \in 0..MaxExplorerSteps
    BY ExplorerConstants DEF ExInv, ExStep
  <1>2. PickerFits'
    BY DEF ExInv, OnPage, PickerFits, LookupOf
  <1>3. exPage' # None
    BY NoneIsNoGraph DEF PageFits
  <1>4. MountedFits'
    BY <1>3 DEF ExInv, MountedFits, OnPage
  <1>. QED BY <1>1, <1>2, <1>4 DEF ExInv, OnPage

LEMMA PageIs ==
  ASSUME ExInv, exPage # None
  PROVE  PageFits(exPage, exUrl) /\ exUrl # None
  BY DEF ExInv, MountedFits

LEMMA GraphMoves ==
  ASSUME ExInv, \/ ReadRoot \/ ResetExplorer
                \/ \E n \in Entries : AskRelated(n) \/ AnswerExpansion(n) \/ FailRelated(n) \/ CollapseDot(n)
  PROVE  ExInv'
  <1>0. exPage # None /\ OnPage
    BY DEF ReadRoot, ResetExplorer, AskRelated, AnswerExpansion, FailRelated, CollapseDot, OnPage
  <1>1. /\ exPage \in Explorers /\ exUrl \in Centers /\ exUrl.article \in Entries
        /\ exPage.graph = None => exPage.selected = exUrl.article /\ exPage.loading = {}
        /\ exPage.graph # None => exUrl.article \in exPage.graph /\ exPage.selected \in exPage.graph
    BY <1>0, PageIs DEF PageFits, Centers
  <1>2. exPage.graph # None => exPage.graph \in SUBSET Entries
    BY <1>1 DEF Explorers
  <1>3. exPage.loading \in SUBSET Entries
    BY <1>1 DEF Explorers
  <1>4. ShownNodes = IF exPage.graph = None THEN {} ELSE exPage.graph
    BY <1>0 DEF ShownNodes
  <1>5. CASE ReadRoot
    <2>1. PICK related \in SUBSET Entries : exPage' = [exPage EXCEPT !.graph = related \union {exUrl.article}]
      BY <1>5 DEF ReadRoot
    <2>. DEFINE graph == related \union {exUrl.article}
    <2>2. graph \in SUBSET Entries /\ exUrl.article \in graph
      BY <1>1
    <2>3. exPage' = [exPage EXCEPT !.graph = graph]
      BY <2>1
    <2>. HIDE DEF graph
    <2>4. /\ exPage' \in Explorers /\ exPage'.graph = graph /\ exPage'.selected = exPage.selected
          /\ exPage'.loading = exPage.loading
      BY <1>1, <2>2, <2>3 DEF Explorers
    <2>5. exPage.graph = None /\ UNCHANGED exSpent
      BY <1>5 DEF ReadRoot
    <2>6. PageFits(exPage', exUrl)
      BY <1>1, <2>2, <2>4, <2>5 DEF PageFits
    <2>. QED BY <1>0, <2>5, <2>6, PageKeeps
  <1>6. CASE ResetExplorer
    <2>1. PICK saved \in {nodes \in SUBSET Entries : exUrl.article \in nodes} :
            exPage' = [exPage EXCEPT !.graph = saved, !.selected = Reselected(saved, exUrl.article), !.failure = None]
      BY <1>6 DEF ResetExplorer
    <2>. DEFINE selected == Reselected(saved, exUrl.article)
    <2>2. selected \in saved /\ saved \in SUBSET Entries /\ exUrl.article \in saved
      BY <2>1 DEF Reselected
    <2>3. selected \in Entries /\ saved # None
      BY <2>2, NoneIsNoGraph
    <2>. HIDE DEF selected
    <2>4. exPage' = [[[exPage EXCEPT !.graph = saved] EXCEPT !.selected = selected] EXCEPT !.failure = None]
      BY <1>1, <2>1 DEF selected, Explorers
    <2>5. exPage' \in Explorers /\ exPage'.graph = saved /\ exPage'.selected = selected
      BY <1>1, <2>2, <2>3, <2>4 DEF Explorers
    <2>6. PageFits(exPage', exUrl)
      BY <1>1, <2>2, <2>3, <2>5 DEF PageFits
    <2>. QED BY <1>0, <1>6, <2>6, PageKeeps DEF ResetExplorer
  <1>7. ASSUME NEW n \in Entries, AskRelated(n) PROVE ExInv'
    <2>1. n \in ShownNodes /\ ExStep /\ exPage' = [exPage EXCEPT !.loading = @ \union {n}, !.failure = None]
      BY <1>7 DEF AskRelated
    <2>. DEFINE loading == exPage.loading \union {n}
    <2>2. loading \in SUBSET Entries
      BY <1>3
    <2>3. exPage' = [[exPage EXCEPT !.loading = loading] EXCEPT !.failure = None]
      BY <1>1, <2>1 DEF Explorers
    <2>. HIDE DEF loading
    <2>4. exPage' \in Explorers /\ exPage'.graph = exPage.graph /\ exPage'.selected = exPage.selected
      BY <1>1, <2>2, <2>3 DEF Explorers
    <2>5. exPage.graph # None
      BY <1>4, <2>1
    <2>6. PageFits(exPage', exUrl)
      BY <1>1, <2>4, <2>5 DEF PageFits
    <2>. QED BY <1>0, <2>1, <2>6, PageKeeps
  <1>8. ASSUME NEW n \in Entries, AnswerExpansion(n) PROVE ExInv'
    <2>1. PICK related \in SUBSET Entries :
            exPage' = [exPage EXCEPT !.loading = @ \ {n}, !.graph = IF n \in @ THEN @ \union related ELSE @]
      BY <1>8 DEF AnswerExpansion
    <2>2. n \in exPage.loading /\ UNCHANGED exSpent /\ exPage.graph # None
      BY <1>1, <1>8 DEF AnswerExpansion
    <2>. DEFINE loading == exPage.loading \ {n}
                graph == IF n \in exPage.graph THEN exPage.graph \union related ELSE exPage.graph
    <2>3. graph \in SUBSET Entries /\ exPage.graph \subseteq graph /\ loading \in SUBSET Entries
      BY <1>2, <1>3, <2>2
    <2>4. exPage' = [[exPage EXCEPT !.loading = loading] EXCEPT !.graph = graph]
      BY <1>1, <2>1 DEF Explorers
    <2>. HIDE DEF loading, graph
    <2>5. exPage' \in Explorers /\ exPage'.graph = graph /\ exPage'.selected = exPage.selected
      BY <1>1, <2>3, <2>4 DEF Explorers
    <2>6. graph # None
      BY <2>3, NoneIsNoGraph
    <2>7. PageFits(exPage', exUrl)
      BY <1>1, <2>2, <2>3, <2>5, <2>6 DEF PageFits
    <2>. QED BY <1>0, <2>2, <2>7, PageKeeps
  <1>9. ASSUME NEW n \in Entries, FailRelated(n) PROVE ExInv'
    <2>1. n \in exPage.loading /\ ExStep /\ exPage' = [exPage EXCEPT !.loading = @ \ {n}, !.failure = "related"]
      BY <1>9 DEF FailRelated
    <2>. DEFINE loading == exPage.loading \ {n}
    <2>2. loading \in SUBSET Entries
      BY <1>3
    <2>3. exPage' = [[exPage EXCEPT !.loading = loading] EXCEPT !.failure = "related"]
      BY <1>1, <2>1 DEF Explorers
    <2>. HIDE DEF loading
    <2>4. exPage' \in Explorers /\ exPage'.graph = exPage.graph /\ exPage'.selected = exPage.selected
      BY <1>1, <2>2, <2>3 DEF Explorers
    <2>5. exPage.graph # None
      BY <1>1, <2>1
    <2>6. PageFits(exPage', exUrl)
      BY <1>1, <2>4, <2>5 DEF PageFits
    <2>. QED BY <1>0, <2>1, <2>6, PageKeeps
  <1>10. ASSUME NEW n \in Entries, CollapseDot(n) PROVE ExInv'
    <2>1. PICK gone \in SUBSET (ShownNodes \ {n, exUrl.article}) :
            exPage' = [exPage EXCEPT !.graph = @ \ gone, !.selected = Reselected(ShownNodes \ gone, n)]
      BY <1>10 DEF CollapseDot
    <2>2. n \in ShownNodes /\ ExStep
      BY <1>10 DEF CollapseDot
    <2>3. exPage.graph # None /\ ShownNodes = exPage.graph
      BY <1>4, <2>2
    <2>. DEFINE graph == exPage.graph \ gone
                selected == Reselected(ShownNodes \ gone, n)
    <2>4. graph \in SUBSET Entries /\ exUrl.article \in graph /\ selected \in graph
      BY <1>1, <1>2, <2>1, <2>2, <2>3 DEF Reselected
    <2>5. selected \in Entries /\ graph # None
      BY <2>4, NoneIsNoGraph
    <2>. HIDE DEF selected
    <2>6. exPage' = [[exPage EXCEPT !.graph = graph] EXCEPT !.selected = selected]
      BY <1>1, <2>1 DEF Explorers, selected
    <2>. HIDE DEF graph
    <2>7. exPage' \in Explorers /\ exPage'.graph = graph /\ exPage'.selected = selected
      BY <1>1, <2>4, <2>5, <2>6 DEF Explorers
    <2>8. PageFits(exPage', exUrl)
      BY <1>1, <2>4, <2>5, <2>7 DEF PageFits
    <2>. QED BY <1>0, <2>2, <2>8, PageKeeps
  <1>. QED BY <1>5, <1>6, <1>7, <1>8, <1>9, <1>10

LEMMA ReaderMoves ==
  ASSUME ExInv, \/ FailRoot \/ CloseReader
                \/ \E n \in Entries : SelectDot(n)
                \/ \E view \in {"graph", "list"} : SwitchView(view)
  PROVE  ExInv'
  <1>0. exPage # None /\ OnPage
    BY DEF FailRoot, CloseReader, SelectDot, SwitchView, OnPage
  <1>1. /\ exPage \in Explorers /\ exUrl \in Centers
        /\ exPage.graph = None => exPage.selected = exUrl.article /\ exPage.loading = {}
        /\ exPage.graph # None => exUrl.article \in exPage.graph /\ exPage.selected \in exPage.graph
    BY <1>0, PageIs DEF PageFits
  <1>2. ASSUME exPage' \in Explorers, exPage'.graph = exPage.graph, exPage'.loading = exPage.loading,
               exPage'.selected = exPage.selected, ExStep \/ UNCHANGED exSpent
        PROVE  ExInv'
    <2>1. PageFits(exPage', exUrl)
      BY <1>1, <1>2 DEF PageFits
    <2>. QED BY <1>0, <1>2, <2>1, PageKeeps
  <1>3. CASE FailRoot
    <2>1. exPage' = [exPage EXCEPT !.failed = TRUE] /\ ExStep
      BY <1>3 DEF FailRoot
    <2>. QED BY <1>1, <1>2, <2>1 DEF Explorers
  <1>4. CASE CloseReader
    <2>1. exPage' = [exPage EXCEPT !.sheet = FALSE] /\ UNCHANGED exSpent
      BY <1>4 DEF CloseReader
    <2>. QED BY <1>1, <1>2, <2>1 DEF Explorers
  <1>5. ASSUME NEW view \in {"graph", "list"}, SwitchView(view) PROVE ExInv'
    <2>1. exPage' = [exPage EXCEPT !.view = view] /\ ExStep
      BY <1>5 DEF SwitchView
    <2>. QED BY <1>1, <1>2, <2>1 DEF Explorers
  <1>6. ASSUME NEW n \in Entries, SelectDot(n) PROVE ExInv'
    <2>. DEFINE sheet == exPage.sheet \/ ~exDocked
    <2>1. n \in ShownNodes /\ ExStep /\ exPage' = [exPage EXCEPT !.selected = n, !.sheet = sheet]
      BY <1>6 DEF SelectDot
    <2>2. sheet \in BOOLEAN
      OBVIOUS
    <2>3. exPage.graph # None /\ n \in exPage.graph
      BY <1>0, <2>1 DEF ShownNodes
    <2>. HIDE DEF sheet
    <2>4. exPage' \in Explorers /\ exPage'.graph = exPage.graph /\ exPage'.selected = n
      BY <1>1, <2>1, <2>2 DEF Explorers
    <2>5. PageFits(exPage', exUrl)
      BY <1>1, <2>3, <2>4 DEF PageFits
    <2>. QED BY <1>0, <2>1, <2>5, PageKeeps
  <1>. QED BY <1>3, <1>4, <1>5, <1>6

LEMMA ExplorerMoves == ExInv /\ [ExNext]_exVars => ExInv'
  <1>. SUFFICES ASSUME ExInv, [ExNext]_exVars PROVE ExInv'
    OBVIOUS
  <1>1. CASE ResizeExplorer
    <2>1. exSpent' \in 0..MaxExplorerSteps
      BY <1>1, ExplorerConstants DEF ExInv, ResizeExplorer, ExStep
    <2>2. UNCHANGED <<exDb, exPicker, exAsked, exUrl, exPage>> /\ exDocked' \in BOOLEAN
      BY <1>1 DEF ResizeExplorer
    <2>3. PickerFits' /\ MountedFits'
      BY <2>2 DEF ExInv, PickerFits, MountedFits, LookupOf
    <2>. QED BY <2>1, <2>2, <2>3 DEF ExInv
  <1>2. ASSUME NEW a \in Entries, PickCenter(a) PROVE ExInv'
    <2>1. [db |-> exDb, article |-> a] \in Centers
      BY DEF ExInv, Centers
    <2>. QED BY <1>2, <2>1, OpensCenter DEF PickCenter
  <1>3. ASSUME NEW url \in Centers \union {None}, VisitCenter(url) PROVE ExInv'
    BY <1>3, OpensCenter DEF VisitCenter
  <1>4. CASE UNCHANGED exVars
    <2>1. PickerFits' /\ MountedFits'
      BY <1>4 DEF exVars, ExInv, PickerFits, MountedFits, LookupOf
    <2>. QED BY <1>4, <2>1 DEF exVars, ExInv
  <1>. QED BY <1>1, <1>2, <1>3, <1>4, PickerMoves, GraphMoves, ReaderMoves DEF ExNext

\* The selected article is a node of its relation graph, through collapses,
\* resets to the saved graph and expansions answered late, and what the
\* picker asks is of its own words and database (relation-explorer.tsx,
\* relation-center-picker.tsx).
THEOREM SelectionIsKept == ExSpec => [](ExTypeOK /\ SelectionIsANode)
  <1>1. ExInv => ExTypeOK
    BY DEF ExInv, PickerFits, MountedFits, PageFits, ExTypeOK
  <1>2. ExInv => SelectionIsANode
    BY DEF ExInv, PickerFits, MountedFits, PageFits, SelectionIsANode, ShownNodes, PickerShows
  <1>. QED BY <1>1, <1>2, ExplorerStart, ExplorerMoves, PTL DEF ExSpec

\* What the reader sees of a relation graph is the graph: what the canvas
\* shows is what is saved and left, stored once it stands still and never
\* covered while it is moved, and the selected article is one of its nodes,
\* for any number of papers, nodes and databases (relation-canvas.tsx,
\* relations-workspace-view.tsx:425).
THEOREM GraphIsShown == RelSpec /\ CvSpec /\ ExSpec => []GraphHolds
  <1>1. CanvasShowsGraph /\ (CvTypeOK /\ StillIsStored /\ CardStaysAway) /\ (ExTypeOK /\ SelectionIsANode) => GraphHolds
    BY DEF GraphHolds
  <1>. QED BY <1>1, CanvasIsGraph, CanvasIsStored, SelectionIsKept, PTL

=============================================================================
