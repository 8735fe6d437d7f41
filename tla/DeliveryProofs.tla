---------------------------- MODULE DeliveryProofs ----------------------------
(***************************************************************************)
(* Durable delivery sends at most once, and its dedupe table implements    *)
(* DeliveryContract.  DeliveryInv is inductive: most calls move only the   *)
(* caller's memory and are framed once (QuietSafe); each call that writes  *)
(* items, dedupe rows or sends is a lemma of its own.                      *)
(***************************************************************************)
EXTENDS DeliveryTypeProofs

Safe == /\ AtMostOnce /\ RowsAreOwned /\ SendingIsOwned /\ SentIsProtected
        /\ PreparedIsUnsent /\ SendIsFirst /\ SendIsExclusive /\ SuccessIsDelivered

\* The invariant TLC checks is the types and the safety parts.
LEMMA DeliveryInvParts == DeliveryInv <=> WellFormed /\ Safe
  BY DEF DeliveryInv, WellFormed, Safe

\* Empty tables are safe.
LEMMA InitSafe == Init => Safe
  <1> SUFFICES ASSUME Init PROVE Safe
    OBVIOUS
  <1>1. AtMostOnce /\ RowsAreOwned /\ SendingIsOwned /\ SentIsProtected
    BY DEF Init, AtMostOnce, RowsAreOwned, Reserved, SendingIsOwned,
           SentIsProtected, NoRow, NoItem
  <1>2. PreparedIsUnsent /\ SendIsFirst /\ SendIsExclusive /\ SuccessIsDelivered
    BY DEF Init, PreparedIsUnsent, Preparing, SendIsFirst, SendIsExclusive,
           SuccessIsDelivered
  <1>. QED
    BY <1>1, <1>2 DEF Safe

----------------------------------------------------------------------------
\* Quiet moves: a worker moves without crossing the side-effect boundary

Others(w) ==
    \A v \in Workers \ {w} :
        pc'[v] = pc[v] /\ job'[v] = job[v] /\ att'[v] = att[v]

Quiet(w) ==
    /\ Others(w)
    /\ pc'[w] # "send"
    /\ pc'[w] = "resolve" => Workflow # "notify"
    /\ pc[w] \in {"send", "resolve"} \union Gone => pc'[w] \in Gone
    /\ pc'[w] \in Preparing =>
         \/ att'[w].got = {}
         \/ /\ pc[w] \in Preparing
            /\ att'[w].user = att[w].user
            /\ att'[w].got = att[w].got
            /\ job'[w].run = job[w].run

\* A worker that changes only itself leaves the others alone.
LEMMA OneWorkerMoves ==
  ASSUME Memory, NEW w \in Workers, NEW label, NEW j, NEW b,
         pc' = [pc EXCEPT ![w] = label],
         job' = [job EXCEPT ![w] = j],
         att' = [att EXCEPT ![w] = b]
  PROVE  Others(w) /\ pc'[w] = label /\ job'[w] = j /\ att'[w] = b
  BY DEF Others, Memory

\* An invocation that returns or dies writes no row.
LEMMA QuietLeave ==
  ASSUME Memory, NEW w \in Workers, NEW label \in {"done", "crashed"}, Leave(w, label)
  PROVE  Quiet(w)
  <1>1. Others(w) /\ pc'[w] = label
    BY OneWorkerMoves DEF Leave, Goto
  <1>. QED
    BY <1>1 DEF Quiet, Gone, Preparing

\* Entering failBestEffort writes no row.
LEMMA QuietFail ==
  ASSUME Memory, NEW w \in Workers, NEW t, Fail(w, t)
  PROVE  Quiet(w)
  <1>1. Others(w) /\ pc'[w] = "failReconcile"
    BY OneWorkerMoves DEF Fail, Goto
  <1>. QED
    BY <1>1 DEF Quiet, Gone, Failing, Preparing

\* A call that only moves its caller between harmless labels is quiet.
LEMMA QuietGoto ==
  ASSUME Memory, NEW w \in Workers, NEW label, Goto(w, label),
         label \notin Preparing \union {"send", "resolve"},
         pc[w] \in {"send", "resolve"} \union Gone => label \in Gone,
         \/ UNCHANGED <<job, att>>
         \/ UNCHANGED att /\ \E j : job' = [job EXCEPT ![w] = j]
         \/ UNCHANGED job /\ \E b : att' = [att EXCEPT ![w] = b]
         \/ \E j, b : job' = [job EXCEPT ![w] = j] /\ att' = [att EXCEPT ![w] = b]
  PROVE  Quiet(w)
  <1>1. Others(w) /\ pc'[w] = label
    BY DEF Goto, Others, Memory
  <1>. QED
    BY <1>1 DEF Quiet

\* A quiet move that leaves items, dedupe rows and deliveries alone is safe.
LEMMA QuietSafe ==
  ASSUME Memory, Safe, NEW w \in Workers, Quiet(w), UNCHANGED <<item, dedupe, sent>>
  PROVE  Safe'
  <1>1. AtMostOnce'
    BY DEF Safe, AtMostOnce
  <1>2. RowsAreOwned'
    BY DEF Safe, RowsAreOwned, Reserved
  <1>3. SendingIsOwned'
    <2>1. ASSUME NEW r \in RunIds, NEW u \in Users, item[r][u].status = "sending",
                 NEW v \in Workers, item[r][u].owner = v,
                 \/ pc[v] \in {"send", "resolve"} /\ job[v].run = r /\ att[v].user = u
                 \/ pc[v] \in Gone
          PROVE  \/ pc'[v] \in {"send", "resolve"} /\ job'[v].run = r /\ att'[v].user = u
                 \/ pc'[v] \in Gone
      BY <2>1 DEF Quiet, Others
    <2>. QED
      BY <2>1 DEF Safe, SendingIsOwned
  <1>4. SentIsProtected'
    <2> SUFFICES ASSUME NEW u \in Users, NEW a \in Articles, sent[u][a] > 0
                 PROVE  /\ dedupe[u][a].status # "absent"
                        /\ Reserved(u, a) =>
                             LET v == dedupe[u][a].owner
                                 i == item[dedupe[u][a].run][u]
                             IN /\ i.status = "sending"
                                /\ i.owner = v
                                /\ \/ pc'[v] = "resolve" /\ a \in att'[v].got
                                   \/ pc'[v] \in Gone
      BY DEF SentIsProtected, Reserved
    <2>1. ASSUME Reserved(u, a)
          PROVE  dedupe[u][a].owner \in Workers
      BY <2>1 DEF Safe, RowsAreOwned
    <2>. QED
      BY <2>1 DEF Safe, SentIsProtected, Quiet, Others
  <1>5. PreparedIsUnsent'
    <2> SUFFICES ASSUME NEW v \in Workers, pc'[v] \in Preparing, NEW a \in att'[v].got
                 PROVE  /\ Claims(v, att[v].user)' => OwnRow(v, att[v].user, a)'
                        /\ OwnRow(v, att[v].user, a)' => sent[att'[v].user][a] = 0
      BY DEF PreparedIsUnsent
    <2>1. /\ pc[v] \in Preparing /\ att'[v].user = att[v].user
          /\ att'[v].got = att[v].got /\ job'[v].run = job[v].run
      BY DEF Quiet, Others
    <2>. QED
      BY <2>1 DEF Safe, PreparedIsUnsent, Claims, OwnRow, Reserved
  <1>6. SendIsFirst'
    <2> SUFFICES ASSUME NEW v \in Workers, pc'[v] = "send", NEW a \in att'[v].sel
                 PROVE  (/\ sent[att[v].user][a] = 0
                         /\ \/ dedupe[att[v].user][a].status = "unknown"
                            \/ /\ OwnRow(v, att[v].user, a)
                               /\ item[job[v].run][att[v].user].status = "sending"
                               /\ item[job[v].run][att[v].user].owner = v)'
      BY DEF SendIsFirst
    <2>1. pc[v] = "send" /\ att'[v] = att[v] /\ job'[v] = job[v]
      BY DEF Quiet, Others
    <2>. QED
      BY <2>1 DEF Safe, SendIsFirst, OwnRow, Reserved
  <1>7. SendIsExclusive'
    BY DEF Safe, SendIsExclusive, Quiet, Others
  <1>8. SuccessIsDelivered'
    <2> SUFFICES ASSUME NEW v \in Workers, pc'[v] = "resolve", att'[v].ok,
                        Workflow = "notify", NEW a \in att'[v].got
                 PROVE  OwnRow(v, att[v].user, a)' => sent[att'[v].user][a] = 1
      BY DEF SuccessIsDelivered
    <2>1. pc[v] = "resolve" /\ att'[v] = att[v] /\ job'[v] = job[v]
      BY DEF Quiet, Others
    <2>. QED
      BY <2>1 DEF Safe, SuccessIsDelivered, OwnRow, Reserved
  <1>. QED
    BY <1>1, <1>2, <1>3, <1>4, <1>5, <1>6, <1>7, <1>8 DEF Safe

----------------------------------------------------------------------------
\* The calls that only move quietly

\* before the lease is held
LEMMA EnteringSafe ==
  ASSUME WellFormed, Safe, NEW w \in Workers,
         \/ Admit(w) \/ Claim(w) \/ Yield(w) \/ Takeover(w) \/ Refuse(w)
         \/ AcquireLease(w) \/ LoadCheckpoint(w) \/ StartRun(w)
  PROVE  Safe'
  <1>0. Memory
    BY WellFormedParts
  <1>1. UNCHANGED <<item, dedupe, sent>>
    BY DEF Admit, Claim, Yield, Takeover, Refuse, AcquireLease, LoadCheckpoint, StartRun
  <1>2. ASSUME Admit(w) PROVE Quiet(w)
    <2>1. CASE Leave(w, "done")
      BY <1>0, <2>1, QuietLeave
    <2>2. CASE Goto(w, "claim") /\ UNCHANGED att /\ \E j : job' = [job EXCEPT ![w] = j]
      <3>1. pc[w] = "idle"
        BY <1>2 DEF Admit
      <3>. QED
        BY <1>0, <2>2, <3>1, QuietGoto DEF Preparing, Gone, Failing
    <2>. QED
      BY <1>2, <2>1, <2>2 DEF Admit
  <1>3. ASSUME Claim(w) PROVE Quiet(w)
    <2>1. CASE Leave(w, "done")
      BY <1>0, <2>1, QuietLeave
    <2>2. CASE /\ UNCHANGED att
               /\ \E j : job' = [job EXCEPT ![w] = j]
               /\ \E label \in {"yield", "takeover", "lease", "mismatch"} : Goto(w, label)
      <3>1. pc[w] = "claim"
        BY <1>3 DEF Claim
      <3>. QED
        BY <1>0, <2>2, <3>1, QuietGoto DEF Preparing, Gone, Failing
    <2>3. ASSUME NEW q, MeetRival(w, q), ~Leave(w, "done")
          PROVE  /\ UNCHANGED att
                 /\ \E j : job' = [job EXCEPT ![w] = j]
                 /\ \E label \in {"yield", "takeover", "lease", "mismatch"} : Goto(w, label)
      BY <2>3 DEF MeetRival
    <2>4. ASSUME NEW r, TakeRun(w, r, FALSE)
          PROVE  /\ UNCHANGED att
                 /\ \E j : job' = [job EXCEPT ![w] = j]
                 /\ \E label \in {"yield", "takeover", "lease", "mismatch"} : Goto(w, label)
      BY <2>4 DEF TakeRun
    <2>. QED
      BY <1>3, <2>1, <2>2, <2>3, <2>4 DEF Claim
  <1>4. ASSUME Yield(w) PROVE Quiet(w)
    <2>1. CASE Leave(w, "done")
      BY <1>0, <2>1, QuietLeave
    <2>2. CASE Goto(w, "takeover") /\ UNCHANGED <<job, att>>
      <3>1. pc[w] = "yield"
        BY <1>4 DEF Yield
      <3>. QED
        BY <1>0, <2>2, <3>1, QuietGoto DEF Preparing, Gone, Failing
    <2>. QED
      BY <1>4, <2>1, <2>2 DEF Yield
  <1>5. ASSUME Takeover(w) PROVE Quiet(w)
    <2>1. CASE Leave(w, "done")
      BY <1>0, <2>1, QuietLeave
    <2>2. CASE TakeRun(w, job[w].rival, TRUE)
      <3>1. pc[w] = "takeover"
        BY <1>5 DEF Takeover
      <3>2. /\ UNCHANGED att
            /\ \E j : job' = [job EXCEPT ![w] = j]
            /\ \E label \in {"lease", "mismatch"} : Goto(w, label)
        BY <2>2 DEF TakeRun
      <3>. QED
        BY <1>0, <3>1, <3>2, QuietGoto DEF Preparing, Gone, Failing
    <2>. QED
      BY <1>5, <2>1, <2>2 DEF Takeover
  <1>6. ASSUME Refuse(w) PROVE Quiet(w)
    BY <1>0, <1>6, QuietLeave DEF Refuse
  <1>7. ASSUME AcquireLease(w) PROVE Quiet(w)
    <2>1. /\ pc[w] = "lease" /\ UNCHANGED att
          /\ UNCHANGED job \/ \E j : job' = [job EXCEPT ![w] = j]
          /\ \E label \in {"load", "leaseBusy"} : Goto(w, label)
      BY <1>7 DEF AcquireLease
    <2>. QED
      BY <1>0, <2>1, QuietGoto DEF Preparing, Gone, Failing
  <1>8. ASSUME LoadCheckpoint(w) PROVE Quiet(w)
    <2>1. /\ pc[w] = "load" /\ UNCHANGED att /\ Goto(w, "reconcile")
          /\ \E j : job' = [job EXCEPT ![w] = j]
      BY <1>8 DEF LoadCheckpoint
    <2>. QED
      BY <1>0, <2>1, QuietGoto DEF Preparing, Gone, Failing
  <1>9. ASSUME StartRun(w) PROVE Quiet(w)
    <2>1. CASE Fail(w, job[w].now)
      BY <1>0, <2>1, QuietFail
    <2>2. CASE /\ UNCHANGED att /\ \E j : job' = [job EXCEPT ![w] = j]
               /\ \E label \in {"cleanup", "snapshot"} : Goto(w, label)
      <3>1. pc[w] = "start"
        BY <1>9 DEF StartRun
      <3>. QED
        BY <1>0, <2>2, <3>1, QuietGoto DEF Preparing, Gone, Failing
    <2>. QED
      BY <1>9, <2>1, <2>2 DEF StartRun
  <1>. QED
    BY <1>0, <1>1, <1>2, <1>3, <1>4, <1>5, <1>6, <1>7, <1>8, <1>9, QuietSafe

\* under the lease, outside of items and reservations
LEMMA RunningSafe ==
  ASSUME WellFormed, Safe, NEW w \in Workers,
         \/ ReadIndex(w) \/ PersistInput(w)
         \/ \E u \in Users \union {None} : RenewRun(w, u)
         \/ RenewLease(w) \/ ScanDedupe(w) \/ Select(w) \/ WriteFavorites(w)
  PROVE  Safe'
  <1>0. Memory
    BY WellFormedParts
  <1>1. UNCHANGED <<item, dedupe, sent>>
    BY DEF ReadIndex, PersistInput, RenewRun, RenewLease, ScanDedupe, Select,
           WriteFavorites
  <1>2. ASSUME ReadIndex(w) \/ ScanDedupe(w) PROVE Quiet(w)
    <2>1. /\ pc[w] \in {"snapshot", "scan"} /\ UNCHANGED att
          /\ \E label \in {"input", "loop"} : Goto(w, label)
          /\ \E j : job' = [job EXCEPT ![w] = j]
      BY <1>2 DEF ReadIndex, ScanDedupe
    <2>. QED
      BY <1>0, <2>1, QuietGoto DEF Preparing, Gone, Failing
  <1>3. ASSUME PersistInput(w) \/ RenewLease(w) PROVE Quiet(w)
    <2>1. CASE Fail(w, clock)
      BY <1>0, <2>1, QuietFail
    <2>2. CASE /\ UNCHANGED att /\ \E j : job' = [job EXCEPT ![w] = j]
               /\ \E label \in {"finish", "prepare", "subscribers", "item"} : Goto(w, label)
      <3>1. pc[w] \in {"input", "renewLease"}
        BY <1>3 DEF PersistInput, RenewLease
      <3>. QED
        BY <1>0, <2>2, <3>1, QuietGoto DEF Preparing, Gone, Failing
    <2>. QED
      BY <1>3, <2>1, <2>2 DEF PersistInput, RenewLease
  <1>4. ASSUME NEW u, RenewRun(w, u) PROVE Quiet(w)
    <2>1. CASE Fail(w, clock)
      BY <1>0, <2>1, QuietFail
    <2>2. CASE /\ Goto(w, "renewLease") /\ \E j : job' = [job EXCEPT ![w] = j]
               /\ \E b : att' = [att EXCEPT ![w] = b]
      <3>1. pc[w] \in {"prepare", "loop"}
        BY <1>4 DEF RenewRun
      <3>. QED
        BY <1>0, <2>2, <3>1, QuietGoto DEF Preparing, Gone, Failing
    <2>. QED
      BY <1>4, <2>1, <2>2 DEF RenewRun
  <1>5. ASSUME Select(w) PROVE Quiet(w)
    <2>1. pc[w] = "select" /\ UNCHANGED job /\ att[w].got = {} /\ att[w] \in Attempt
      BY <1>0, <1>5, MemoryPointwise DEF Select, MemoryAt
    <2>2. CASE Goto(w, "finishItem") /\ \E b : att' = [att EXCEPT ![w] = b]
      BY <1>0, <2>1, <2>2, QuietGoto DEF Preparing, Gone, Failing
    <2>3. ASSUME NEW S, Goto(w, "reserve"), att' = [att EXCEPT ![w].sel = S]
          PROVE  Quiet(w)
      <3>1. Others(w) /\ pc'[w] = "reserve"
        BY <1>0, <2>1, <2>3 DEF Others, Goto, Memory
      <3>2. att'[w].got = {}
        BY <1>0, <2>1, <2>3 DEF Memory, Attempt
      <3>. QED
        BY <2>1, <3>1, <3>2 DEF Quiet, Gone, Failing
    <2>. QED
      BY <1>5, <2>2, <2>3 DEF Select
  <1>6. ASSUME WriteFavorites(w) PROVE Quiet(w)
    <2>1. pc[w] = "favorites" /\ UNCHANGED job /\ att[w] \in Attempt
      BY <1>0, <1>6 DEF WriteFavorites, Memory
    <2>2. PICK label \in {"mark", "resolve", "release"} :
            /\ Goto(w, label)
            /\ label = "resolve" => Workflow # "notify"
            /\ \/ att' = [att EXCEPT ![w].ok = Workflow = "push"]
               \/ att' = [att EXCEPT ![w].fin = "failed"]
      BY <1>6 DEF WriteFavorites
    <2>3. Others(w) /\ pc'[w] = label
      BY <1>0, <2>1, <2>2 DEF Others, Goto, Memory
    <2>4. att'[w].user = att[w].user /\ att'[w].got = att[w].got
      BY <1>0, <2>1, <2>2 DEF Memory, Attempt
    <2>. QED
      BY <2>1, <2>2, <2>3, <2>4 DEF Quiet, Gone, Failing, Preparing
  <1>. QED
    BY <1>0, <1>1, <1>2, <1>3, <1>4, <1>5, <1>6, QuietSafe

\* endings and failures
LEMMA EndingSafe ==
  ASSUME WellFormed, Safe, NEW w \in Workers,
         \/ Finish(w) \/ FailFinal(w) \/ FailRun(w) \/ FailRelease(w)
         \/ ControlStop(w) \/ StorageError(w) \/ Crash(w)
  PROVE  Safe'
  <1>0. Memory
    BY WellFormedParts
  <1>1. UNCHANGED <<item, dedupe, sent>>
    BY DEF Finish, FailFinal, FailRun, FailRelease, ControlStop, StorageError, Crash
  <1>2. CASE \E label \in {"done", "crashed"} : Leave(w, label)
    BY <1>0, <1>1, <1>2, QuietLeave, QuietSafe
  <1>3. CASE \E t : Fail(w, t)
    BY <1>0, <1>1, <1>3, QuietFail, QuietSafe
  <1>4. CASE /\ UNCHANGED att
             /\ UNCHANGED job \/ \E j : job' = [job EXCEPT ![w] = j]
             /\ \E label \in Failing : Goto(w, label)
    <2>1. \A label \in Failing : label \in Gone /\ label \notin Preparing \union {"send", "resolve"}
      BY DEF Gone, Failing, Preparing
    <2>2. PICK label \in Failing : Goto(w, label)
      BY <1>4
    <2>3. Quiet(w)
      <3>1. Others(w) /\ pc'[w] = label
        BY <1>0, <1>4, <2>2 DEF Others, Goto, Memory
      <3>. QED
        BY <2>1, <3>1 DEF Quiet
    <2>. QED
      BY <1>0, <1>1, <2>3, QuietSafe
  <1>5. StorageError(w) =>
          \/ \E label \in {"done", "crashed"} : Leave(w, label)
          \/ \E t : Fail(w, t)
          \/ /\ UNCHANGED att
             /\ UNCHANGED job \/ \E j : job' = [job EXCEPT ![w] = j]
             /\ \E label \in Failing : Goto(w, label)
    <2>1. \A label \in Failing \ {"failRelease"} : NextFailing(label) \in Failing
      BY DEF Failing, NextFailing
    <2>. QED
      BY <2>1 DEF StorageError
  <1>. QED
    BY <1>2, <1>3, <1>4, <1>5
       DEF Finish, FailFinal, FailRun, FailRelease, ControlStop, Crash, Failing

----------------------------------------------------------------------------
\* The calls that write items, reservations or deliveries

\* What the writes of a row say.
LEMMA WrittenItem ==
  ASSUME NEW row \in ItemRow
  PROVE  /\ \A status : Ended(row, status).status = status
         /\ \A w, t : Taken(row, w, t).status = "claimed" /\ Taken(row, w, t).owner = w
         /\ \A status : /\ Moved(row, status).status = status
                       /\ Moved(row, status).owner = row.owner
  BY DEF Ended, Taken, Moved, ItemRow

\* The status each write of a dedupe row leaves.
LEMMA WrittenRow ==
  ASSUME NEW row \in Row
  PROVE  /\ Doubted(row).status = "unknown"
         /\ \A status, t : Resolved(row, status, t).status = status
         /\ NoRow.status = "absent"
  BY DEF Doubted, Resolved, Row, NoRow

\* ReconcileAfterTakeover: what may have been sent becomes doubt, what was
\* only prepared is released, and its claim with it.
LEMMA QuarantineSafe ==
  ASSUME WellFormed, Safe, NEW w \in Workers, NEW r \in RunIds, Quarantine(r),
         UNCHANGED sent, Quiet(w), pc'[w] \notin Preparing \union {"resolve"}
  PROVE  Safe'
  <1>a. \A u \in Users, a \in Articles :
          IF dedupe[u][a].run = r /\ Reserved(u, a)
          THEN IF item[r][u].status = "sending"
               THEN dedupe'[u][a].status = "unknown"
               ELSE dedupe'[u][a].status = "absent"
          ELSE dedupe'[u][a] = dedupe[u][a]
    <2> TAKE u \in Users, a \in Articles
    <2>1. dedupe[u][a] \in Row
      BY DEF WellFormed, TypeOK
    <2>. QED
      BY <2>1, WrittenRow DEF Quarantine, Reserved
  <1>b. \A q \in RunIds, u \in Users :
          IF q = r /\ item[q][u].status \in {"sending", "claimed"}
          THEN item'[q][u].status \in {"unknown", "pending"}
          ELSE item'[q][u] = item[q][u]
    <2> TAKE q \in RunIds, u \in Users
    <2>1. item[q][u] \in ItemRow
      BY DEF WellFormed, TypeOK
    <2>2. item'[q] = IF q = r
                     THEN [v \in Users |->
                             CASE item[r][v].status = "sending" -> Ended(item[r][v], "unknown")
                               [] item[r][v].status = "claimed" -> Ended(item[r][v], "pending")
                               [] OTHER -> item[r][v]]
                     ELSE item[q]
      BY DEF Quarantine, WellFormed, TypeOK
    <2>. QED
      BY <2>1, <2>2, WrittenItem
  <1>1. AtMostOnce'
    BY DEF Safe, AtMostOnce
  <1>2. RowsAreOwned'
    BY <1>a DEF Safe, RowsAreOwned, Reserved
  <1>3. SendingIsOwned'
    <2> SUFFICES ASSUME NEW q \in RunIds, NEW u \in Users, item'[q][u].status = "sending"
                 PROVE  \E v \in Workers :
                          /\ item'[q][u].owner = v
                          /\ \/ pc'[v] \in {"send", "resolve"} /\ job'[v].run = q /\ att'[v].user = u
                             \/ pc'[v] \in Gone
      BY DEF SendingIsOwned
    <2>1. item'[q][u] = item[q][u]
      BY <1>b
    <2>2. PICK v \in Workers :
            /\ item[q][u].owner = v
            /\ \/ pc[v] \in {"send", "resolve"} /\ job[v].run = q /\ att[v].user = u
               \/ pc[v] \in Gone
      BY <2>1 DEF Safe, SendingIsOwned
    <2>. QED
      BY <2>1, <2>2 DEF Quiet, Others
  <1>4. SentIsProtected'
    <2> SUFFICES ASSUME NEW u \in Users, NEW a \in Articles, sent[u][a] > 0
                 PROVE  /\ dedupe'[u][a].status # "absent"
                        /\ Reserved(u, a)' =>
                             LET v == dedupe'[u][a].owner
                                 i == item'[dedupe'[u][a].run][u]
                             IN /\ i.status = "sending"
                                /\ i.owner = v
                                /\ \/ pc'[v] = "resolve" /\ a \in att'[v].got
                                   \/ pc'[v] \in Gone
      BY DEF SentIsProtected
    <2>1. dedupe'[u][a].status # "absent"
      BY <1>a DEF Safe, SentIsProtected, Reserved
    <2>2. ASSUME Reserved(u, a)'
          PROVE  /\ dedupe'[u][a] = dedupe[u][a] /\ Reserved(u, a)
                 /\ dedupe[u][a].run # r
                 /\ dedupe[u][a].run \in RunIds /\ dedupe[u][a].owner \in Workers
      BY <1>a, <2>2 DEF Safe, RowsAreOwned, Reserved
    <2>3. ASSUME Reserved(u, a)'
          PROVE  item'[dedupe[u][a].run][u] = item[dedupe[u][a].run][u]
      BY <1>b, <2>2, <2>3
    <2>. QED
      BY <2>1, <2>2, <2>3 DEF Safe, SentIsProtected, Quiet, Others
  <1>5. PreparedIsUnsent'
    <2> SUFFICES ASSUME NEW v \in Workers, pc'[v] \in Preparing, NEW a \in att'[v].got
                 PROVE  /\ Claims(v, att[v].user)' => OwnRow(v, att[v].user, a)'
                        /\ OwnRow(v, att[v].user, a)' => sent[att'[v].user][a] = 0
      BY DEF PreparedIsUnsent
    <2>1. v # w /\ pc[v] \in Preparing /\ att'[v] = att[v] /\ job'[v] = job[v]
      BY DEF Quiet, Others
    <2>2. att[v].user \in Users /\ a \in Articles /\ job[v].run \in RunIds
      BY <2>1, WellFormedParts, MemoryPointwise
         DEF MemoryAt, Attempt, Attempting, Preparing, Lost
    <2>3. Claims(v, att[v].user)' => Claims(v, att[v].user) /\ job[v].run # r
      BY <1>b, <2>1, <2>2 DEF Claims
    <2>4. OwnRow(v, att[v].user, a)' => OwnRow(v, att[v].user, a)
      BY <1>a, <2>1, <2>2 DEF OwnRow, Reserved
    <2>5. OwnRow(v, att[v].user, a) /\ job[v].run # r => OwnRow(v, att[v].user, a)'
      BY <1>a, <2>1, <2>2 DEF OwnRow, Reserved
    <2>. QED
      BY <2>1, <2>3, <2>4, <2>5 DEF Safe, PreparedIsUnsent
  <1>6. SendIsFirst'
    <2> SUFFICES ASSUME NEW v \in Workers, pc'[v] = "send", NEW a \in att'[v].sel
                 PROVE  (/\ sent[att[v].user][a] = 0
                         /\ \/ dedupe[att[v].user][a].status = "unknown"
                            \/ /\ OwnRow(v, att[v].user, a)
                               /\ item[job[v].run][att[v].user].status = "sending"
                               /\ item[job[v].run][att[v].user].owner = v)'
      BY DEF SendIsFirst
    <2>1. pc[v] = "send" /\ att'[v] = att[v] /\ job'[v] = job[v]
      BY DEF Quiet, Others
    <2>2. att[v].user \in Users /\ a \in Articles /\ job[v].run \in RunIds
      BY <2>1, WellFormedParts, MemoryPointwise
         DEF MemoryAt, Attempt, Attempting, Lost
    <2>3. /\ sent[att[v].user][a] = 0
          /\ \/ dedupe[att[v].user][a].status = "unknown"
             \/ /\ OwnRow(v, att[v].user, a)
                /\ item[job[v].run][att[v].user].status = "sending"
                /\ item[job[v].run][att[v].user].owner = v
      BY <2>1 DEF Safe, SendIsFirst
    <2>. QED
      BY <1>a, <1>b, <2>1, <2>2, <2>3 DEF OwnRow, Reserved
  <1>7. SendIsExclusive'
    BY DEF Safe, SendIsExclusive, Quiet, Others
  <1>8. SuccessIsDelivered'
    <2> SUFFICES ASSUME NEW v \in Workers, pc'[v] = "resolve", att'[v].ok,
                        Workflow = "notify", NEW a \in att'[v].got
                 PROVE  OwnRow(v, att[v].user, a)' => sent[att'[v].user][a] = 1
      BY DEF SuccessIsDelivered
    <2>1. pc[v] = "resolve" /\ att'[v] = att[v] /\ job'[v] = job[v]
      BY DEF Quiet, Others
    <2>2. att[v].user \in Users /\ a \in Articles
      BY <2>1, WellFormedParts, MemoryPointwise DEF MemoryAt, Attempt, Attempting
    <2>3. OwnRow(v, att[v].user, a)' => OwnRow(v, att[v].user, a)
      BY <1>a, <2>1, <2>2 DEF OwnRow, Reserved
    <2>. QED
      BY <2>1, <2>3 DEF Safe, SuccessIsDelivered
  <1>. QED
    BY <1>1, <1>2, <1>3, <1>4, <1>5, <1>6, <1>7, <1>8 DEF Safe

\* A quiet move may also write: items that are not sending, towards anything
\* but sending or another worker's claim; rows, only to drop the worker's own
\* unsent reservations or to forget what is confirmed.
QuietWrite(w) ==
    /\ \A r \in RunIds, u \in Users :
         \/ item'[r][u] = item[r][u]
         \/ /\ item[r][u].status # "sending" /\ item'[r][u].status # "sending"
            /\ item'[r][u].status = "claimed" => item'[r][u].owner = w
    /\ \A u \in Users, a \in Articles :
         \/ dedupe'[u][a] = dedupe[u][a] /\ sent'[u][a] = sent[u][a]
         \/ /\ dedupe'[u][a].status = "absent"
            /\ \/ dedupe[u][a].status = "confirmed" /\ sent'[u][a] = 0
               \/ OwnRow(w, u, a) /\ sent[u][a] = 0 /\ sent'[u][a] = 0

\* A quiet worker's quiet write keeps the safety parts.
LEMMA QuietWriteSafe ==
  ASSUME WellFormed, Safe, NEW w \in Workers, Quiet(w), QuietWrite(w),
         pc'[w] \notin Preparing \union {"resolve"}
  PROVE  Safe'
  <1>a. /\ sent \in [Users -> [Articles -> Nat]]
        /\ \A v \in Workers : MemoryAt(pc[v], job[v], att[v])
    BY WellFormedParts, MemoryPointwise DEF Tables
  <1>1. AtMostOnce'
    BY DEF Safe, AtMostOnce, QuietWrite
  <1>2. RowsAreOwned'
    BY DEF Safe, RowsAreOwned, Reserved, QuietWrite
  <1>3. SendingIsOwned'
    <2> SUFFICES ASSUME NEW q \in RunIds, NEW u \in Users, item'[q][u].status = "sending"
                 PROVE  \E v \in Workers :
                          /\ item'[q][u].owner = v
                          /\ \/ pc'[v] \in {"send", "resolve"} /\ job'[v].run = q /\ att'[v].user = u
                             \/ pc'[v] \in Gone
      BY DEF SendingIsOwned
    <2>1. item'[q][u] = item[q][u]
      BY DEF QuietWrite
    <2>2. PICK v \in Workers :
            /\ item[q][u].owner = v
            /\ \/ pc[v] \in {"send", "resolve"} /\ job[v].run = q /\ att[v].user = u
               \/ pc[v] \in Gone
      BY <2>1 DEF Safe, SendingIsOwned
    <2>. QED
      BY <2>1, <2>2 DEF Quiet, Others
  <1>4. SentIsProtected'
    <2> SUFFICES ASSUME NEW u \in Users, NEW a \in Articles, sent'[u][a] > 0
                 PROVE  /\ dedupe'[u][a].status # "absent"
                        /\ Reserved(u, a)' =>
                             LET v == dedupe'[u][a].owner
                                 i == item'[dedupe'[u][a].run][u]
                             IN /\ i.status = "sending"
                                /\ i.owner = v
                                /\ \/ pc'[v] = "resolve" /\ a \in att'[v].got
                                   \/ pc'[v] \in Gone
      BY DEF SentIsProtected
    <2>1. dedupe'[u][a] = dedupe[u][a] /\ sent[u][a] > 0
      BY DEF QuietWrite
    <2>2. ASSUME Reserved(u, a)
          PROVE  /\ dedupe[u][a].run \in RunIds /\ dedupe[u][a].owner \in Workers
                 /\ item'[dedupe[u][a].run][u] = item[dedupe[u][a].run][u]
      <3>1. dedupe[u][a].run \in RunIds /\ dedupe[u][a].owner \in Workers
        BY <2>2 DEF Safe, RowsAreOwned
      <3>2. item[dedupe[u][a].run][u].status = "sending"
        BY <2>1, <2>2 DEF Safe, SentIsProtected
      <3>. QED
        BY <3>1, <3>2 DEF QuietWrite
    <2>. QED
      BY <2>1, <2>2 DEF Safe, SentIsProtected, Reserved, Quiet, Others
  <1>5. PreparedIsUnsent'
    <2> SUFFICES ASSUME NEW v \in Workers, pc'[v] \in Preparing, NEW a \in att'[v].got
                 PROVE  /\ Claims(v, att[v].user)' => OwnRow(v, att[v].user, a)'
                        /\ OwnRow(v, att[v].user, a)' => sent'[att'[v].user][a] = 0
      BY DEF PreparedIsUnsent
    <2>1. v # w /\ pc[v] \in Preparing /\ att'[v] = att[v] /\ job'[v] = job[v]
      BY DEF Quiet, Others
    <2>2. att[v].user \in Users /\ a \in Articles /\ job[v].run \in RunIds
      BY <1>a, <2>1 DEF MemoryAt, Attempt, Attempting, Preparing, Lost
    <2>3. Claims(v, att[v].user)' => Claims(v, att[v].user)
      BY <2>1, <2>2 DEF Claims, QuietWrite
    <2>4. OwnRow(v, att[v].user, a)' => OwnRow(v, att[v].user, a)
      BY <2>1, <2>2 DEF OwnRow, Reserved, QuietWrite
    <2>5. OwnRow(v, att[v].user, a) =>
            OwnRow(v, att[v].user, a)' /\ sent'[att[v].user][a] = sent[att[v].user][a]
      BY <2>1, <2>2 DEF OwnRow, Reserved, QuietWrite
    <2>. QED
      BY <2>1, <2>3, <2>4, <2>5 DEF Safe, PreparedIsUnsent
  <1>6. SendIsFirst'
    <2> SUFFICES ASSUME NEW v \in Workers, pc'[v] = "send", NEW a \in att'[v].sel
                 PROVE  (/\ sent[att[v].user][a] = 0
                         /\ \/ dedupe[att[v].user][a].status = "unknown"
                            \/ /\ OwnRow(v, att[v].user, a)
                               /\ item[job[v].run][att[v].user].status = "sending"
                               /\ item[job[v].run][att[v].user].owner = v)'
      BY DEF SendIsFirst
    <2>1. v # w /\ pc[v] = "send" /\ att'[v] = att[v] /\ job'[v] = job[v]
      BY DEF Quiet, Others
    <2>2. att[v].user \in Users /\ a \in Articles /\ job[v].run \in RunIds
      BY <1>a, <2>1 DEF MemoryAt, Attempt, Attempting, Lost
    <2>3. /\ sent[att[v].user][a] = 0
          /\ \/ dedupe[att[v].user][a].status = "unknown"
             \/ /\ OwnRow(v, att[v].user, a)
                /\ item[job[v].run][att[v].user].status = "sending"
                /\ item[job[v].run][att[v].user].owner = v
      BY <2>1 DEF Safe, SendIsFirst
    <2>. QED
      BY <2>1, <2>2, <2>3 DEF OwnRow, Reserved, QuietWrite
  <1>7. SendIsExclusive'
    BY DEF Safe, SendIsExclusive, Quiet, Others
  <1>8. SuccessIsDelivered'
    <2> SUFFICES ASSUME NEW v \in Workers, pc'[v] = "resolve", att'[v].ok,
                        Workflow = "notify", NEW a \in att'[v].got
                 PROVE  OwnRow(v, att[v].user, a)' => sent'[att'[v].user][a] = 1
      BY DEF SuccessIsDelivered
    <2>1. v # w /\ pc[v] = "resolve" /\ att'[v] = att[v] /\ job'[v] = job[v]
      BY DEF Quiet, Others
    <2>2. att[v].user \in Users /\ a \in Articles
      BY <1>a, <2>1 DEF MemoryAt, Attempt, Attempting
    <2>3. OwnRow(v, att[v].user, a)' =>
            OwnRow(v, att[v].user, a) /\ sent'[att[v].user][a] = sent[att[v].user][a]
      BY <2>1, <2>2 DEF OwnRow, Reserved, QuietWrite
    <2>. QED
      BY <2>1, <2>3 DEF Safe, SuccessIsDelivered
  <1>. QED
    BY <1>1, <1>2, <1>3, <1>4, <1>5, <1>6, <1>7, <1>8 DEF Safe

\* retention
LEMMA CleanupSafe ==
  ASSUME WellFormed, Safe, NEW w \in Workers, Cleanup(w)
  PROVE  Safe'
  <1>0. Tables /\ Memory
    BY WellFormedParts
  <1>1. Quiet(w) /\ pc'[w] = "snapshot"
    <2>1. Others(w) /\ pc'[w] = "snapshot" /\ pc[w] = "cleanup"
      BY <1>0 DEF Cleanup, Goto, Others, Memory
    <2>. QED
      BY <2>1 DEF Quiet, Gone, Failing, Preparing
  <1>2. QuietWrite(w)
    <2>1. ASSUME NEW u \in Users, NEW a \in Articles
          PROVE  \/ dedupe'[u][a] = dedupe[u][a] /\ sent'[u][a] = sent[u][a]
                 \/ /\ dedupe'[u][a].status = "absent"
                    /\ dedupe[u][a].status = "confirmed" /\ sent'[u][a] = 0
      BY DEF Cleanup, Forgotten, NoRow
    <2>. QED
      BY <2>1 DEF Cleanup, QuietWrite
  <1>. QED
    BY <1>1, <1>2, QuietWriteSafe DEF Preparing

\* prepareSubscriberItems
LEMMA ListSubscribersSafe ==
  ASSUME WellFormed, Safe, NEW w \in Workers, ListSubscribers(w)
  PROVE  Safe'
  <1>0. Tables /\ Memory /\ MemoryAt(pc[w], job[w], att[w]) /\ pc[w] = "subscribers"
    BY WellFormedParts, MemoryPointwise DEF ListSubscribers
  <1>1. Quiet(w) /\ pc'[w] \in {"scan", "finish", "failReconcile"}
    <2>1. Others(w) /\ pc'[w] \in {"scan", "finish", "failReconcile"}
      <3>1. /\ UNCHANGED att \/ att' = [att EXCEPT ![w] = NoAttempt]
            /\ \E j : job' = [job EXCEPT ![w] = j]
            /\ \E label \in {"scan", "finish", "failReconcile"} : Goto(w, label)
        BY DEF ListSubscribers, Fail
      <3>. QED
        BY <1>0, <3>1 DEF Goto, Others, Memory
    <2>. QED
      BY <1>0, <2>1 DEF Quiet, Gone, Failing, Preparing
  <1>2. QuietWrite(w)
    <2>1. ASSUME NEW r \in RunIds, NEW u \in Users
          PROVE  \/ item'[r][u] = item[r][u]
                 \/ item[r][u].status = "absent" /\ item'[r][u].status = "pending"
      <3>1. job[w].run \in RunIds
        BY <1>0 DEF MemoryAt, Lost
      <3> DEFINE new == [NoItem EXCEPT !.status = "pending"]
      <3>2. new.status = "pending"
        BY DEF NoItem
      <3>3. PICK S : \/ item' = item
                     \/ item' = [item EXCEPT ![job[w].run] = [v \in Users |->
                          IF v \in S /\ item[job[w].run][v].status = "absent"
                          THEN new
                          ELSE item[job[w].run][v]]]
        BY DEF ListSubscribers
      <3>. HIDE DEF new
      <3>4. CASE item' = item \/ r # job[w].run
        BY <1>0, <3>3, <3>4 DEF Tables
      <3>5. CASE item' # item /\ r = job[w].run
        <4>1. item'[r] = [v \in Users |-> IF v \in S /\ item[r][v].status = "absent"
                                        THEN new ELSE item[r][v]]
          BY <1>0, <3>1, <3>3, <3>5 DEF Tables
        <4>. QED
          BY <3>2, <4>1
      <3>. QED
        BY <3>4, <3>5
    <2>2. UNCHANGED <<dedupe, sent>>
      BY DEF ListSubscribers
    <2>. QED
      BY <2>1, <2>2 DEF QuietWrite
  <1>. QED
    BY <1>1, <1>2, QuietWriteSafe DEF Preparing

\* Settling moves the worker on, out of its attempt.
LEMMA SettleMoves ==
  ASSUME Memory, NEW w \in Workers, NEW status, Settle(w, status)
  PROVE  Others(w) /\ pc'[w] \in {"loop", "finish"}
  BY DEF Settle, Goto, Others, Memory

\* ClaimItem takes a pending or abandoned item.
LEMMA ClaimItemSafe ==
  ASSUME WellFormed, Safe, NEW w \in Workers, ClaimItem(w)
  PROVE  Safe'
  <1>0. Tables /\ Memory /\ MemoryAt(pc[w], job[w], att[w]) /\ pc[w] = "item"
    BY WellFormedParts, MemoryPointwise DEF ClaimItem
  <1>1. UNCHANGED <<dedupe, sent>>
    BY DEF ClaimItem
  <1>2. CASE Fail(w, clock) /\ UNCHANGED item
    BY <1>0, <1>1, <1>2, QuietFail, QuietSafe
  <1>3. CASE Settle(w, job[w].seen[att[w].user]) /\ UNCHANGED item
    <2>1. Quiet(w)
      BY <1>0, <1>3, SettleMoves DEF Quiet, Gone, Failing, Preparing
    <2>. QED
      BY <1>0, <1>1, <1>3, <2>1, QuietSafe
  <1>4. ASSUME item[job[w].run][att[w].user].status \in {"pending", "claimed"},
               item' = [item EXCEPT ![job[w].run][att[w].user] = Taken(@, w, clock)],
               Goto(w, "select"), UNCHANGED job,
               att' = [att EXCEPT ![w].rev = item[job[w].run][att[w].user].rev + 1]
        PROVE  Safe'
    <2>1. Others(w) /\ pc'[w] = "select"
      BY <1>0, <1>4 DEF Others, Goto, Memory
    <2>2. Quiet(w)
      BY <1>0, <2>1 DEF Quiet, Gone, Failing, Preparing
    <2>3. QuietWrite(w)
      <3>1. job[w].run \in RunIds /\ att[w].user \in Users
        BY <1>0 DEF MemoryAt, Lost, Attempting
      <3>2. LET i == item[job[w].run][att[w].user] IN
              Taken(i, w, clock).status = "claimed" /\ Taken(i, w, clock).owner = w
        BY <1>0, <3>1, WrittenItem DEF Tables
      <3>. QED
        BY <1>0, <1>1, <1>4, <3>1, <3>2 DEF QuietWrite, Tables
    <2>. QED
      BY <2>1, <2>2, <2>3, QuietWriteSafe DEF Preparing
  <1>. QED
    BY <1>2, <1>3, <1>4 DEF ClaimItem

\* ReleaseReservations drops only what this attempt reserved and never sent.
LEMMA ReleaseSafe ==
  ASSUME WellFormed, Safe, NEW w \in Workers, Release(w)
  PROVE  Safe'
  <1>0. Tables /\ Memory /\ MemoryAt(pc[w], job[w], att[w]) /\ pc[w] = "release"
    BY WellFormedParts, MemoryPointwise DEF Release
  <1>1. UNCHANGED <<item, sent>>
    BY DEF Release
  <1>2. CASE Fail(w, clock) /\ UNCHANGED dedupe
    BY <1>0, <1>1, <1>2, QuietFail, QuietSafe
  <1>3. ASSUME OwnsRows(w), Goto(w, "finishItem"), UNCHANGED <<job, att>>,
               dedupe' = [dedupe EXCEPT ![att[w].user] = [a \in Articles |->
                            IF a \in att[w].got THEN NoRow ELSE @[a]]]
        PROVE  Safe'
    <2>1. Others(w) /\ pc'[w] = "finishItem"
      BY <1>0, <1>3 DEF Others, Goto, Memory
    <2>2. Quiet(w)
      BY <1>0, <2>1 DEF Quiet, Gone, Failing, Preparing
    <2>3. QuietWrite(w)
      <3>1. att[w].user \in Users
        BY <1>0 DEF MemoryAt, Attempting, Preparing
      <3>2. ASSUME NEW a \in att[w].got
            PROVE  OwnRow(w, att[w].user, a) /\ sent[att[w].user][a] = 0
        BY <1>0, <1>3, <3>2
           DEF OwnsRows, OwnRow, Reserved, Safe, PreparedIsUnsent, Preparing
      <3>. QED
        BY <1>0, <1>1, <1>3, <3>1, <3>2 DEF QuietWrite, Tables, NoRow
    <2>. QED
      BY <2>1, <2>2, <2>3, QuietWriteSafe DEF Preparing
  <1>. QED
    BY <1>2, <1>3 DEF Release

\* FinalizeItem only ever meets an item this worker has claimed.
LEMMA FinishItemSafe ==
  ASSUME WellFormed, Safe, NEW w \in Workers, FinishItem(w)
  PROVE  Safe'
  <1>0. Tables /\ Memory /\ MemoryAt(pc[w], job[w], att[w]) /\ pc[w] = "finishItem"
    BY WellFormedParts, MemoryPointwise DEF FinishItem
  <1>1. UNCHANGED <<dedupe, sent>>
    BY DEF FinishItem
  <1>2. CASE Fail(w, clock) /\ UNCHANGED item
    BY <1>0, <1>1, <1>2, QuietFail, QuietSafe
  <1>3. ASSUME OwnsItem(w, {"claimed", "sending"}), Settle(w, att[w].fin),
               item' = [item EXCEPT ![job[w].run][att[w].user] = Ended(@, att[w].fin)]
        PROVE  Safe'
    <2>1. Others(w) /\ pc'[w] \in {"loop", "finish"}
      BY <1>0, <1>3, SettleMoves
    <2>2. Quiet(w)
      BY <1>0, <2>1 DEF Quiet, Gone, Failing, Preparing
    <2>3. QuietWrite(w)
      <3>1. job[w].run \in RunIds /\ att[w].user \in Users /\ att[w].fin \in ItemDone
        BY <1>0 DEF MemoryAt, Lost, Attempting, Attempt
      <3>2. item[job[w].run][att[w].user].status # "sending"
        BY <1>0, <1>3, <3>1
           DEF OwnsItem, Safe, SendingIsOwned, Gone, Failing
      <3>3. Ended(item[job[w].run][att[w].user], att[w].fin).status = att[w].fin
        BY <1>0, <3>1, WrittenItem DEF Tables
      <3>. QED
        BY <1>0, <1>1, <1>3, <3>1, <3>2, <3>3 DEF QuietWrite, Tables, ItemDone
    <2>. QED
      BY <2>1, <2>2, <2>3, QuietWriteSafe DEF Preparing
  <1>. QED
    BY <1>2, <1>3 DEF FinishItem

\* Both reconciliations
LEMMA ReconcilingSafe ==
  ASSUME WellFormed, Safe, NEW w \in Workers, Reconcile(w) \/ FailReconcile(w)
  PROVE  Safe'
  <1>0. Memory /\ MemoryAt(pc[w], job[w], att[w]) /\ pc[w] \in {"reconcile", "failReconcile"}
    BY WellFormedParts, MemoryPointwise DEF Reconcile, FailReconcile
  <1>1. UNCHANGED sent
    BY DEF Reconcile, FailReconcile
  <1>2. Quiet(w) /\ pc'[w] \in {"start", "failReconcile", "failFinal"}
    <2>1. CASE Reconcile(w) /\ Fail(w, job[w].now)
      BY <1>0, <2>1, QuietFail DEF Fail, Goto, Memory
    <2>2. CASE Reconcile(w) /\ Goto(w, "start") /\ UNCHANGED <<job, att>>
      <3>1. Others(w) /\ pc'[w] = "start" /\ pc[w] = "reconcile"
        BY <1>0, <2>2 DEF Reconcile, Others, Goto, Memory
      <3>. QED
        BY <3>1 DEF Quiet, Gone, Failing, Preparing
    <2>3. CASE FailReconcile(w)
      <3>1. Goto(w, "failFinal") /\ UNCHANGED att /\ \E j : job' = [job EXCEPT ![w] = j]
        BY <2>3 DEF FailReconcile
      <3>2. Others(w) /\ pc'[w] = "failFinal"
        BY <1>0, <3>1 DEF Others, Goto, Memory
      <3>. QED
        BY <3>2 DEF Quiet, Gone, Failing, Preparing
    <2>. QED
      BY <2>1, <2>2, <2>3 DEF Reconcile
  <1>3. CASE Quarantine(job[w].run)
    <2>1. job[w].run \in RunIds
      BY <1>0 DEF MemoryAt, Lost
    <2>. QED
      BY <1>1, <1>2, <1>3, <2>1, QuarantineSafe DEF Preparing
  <1>4. CASE UNCHANGED <<item, dedupe>>
    BY <1>0, <1>1, <1>2, <1>4, QuietSafe
  <1>. QED
    BY <1>3, <1>4 DEF Reconcile, FailReconcile

----------------------------------------------------------------------------
\* The calls around the side effect

\* Every worker's memory is proper: what the remaining lemmas need of it.
LEMMA AttemptFacts ==
  ASSUME WellFormed, NEW v \in Workers, pc[v] \in Attempting
  PROVE  /\ job[v].run \in RunIds /\ att[v].user \in Users
         /\ att[v] \in Attempt /\ att[v].got \subseteq att[v].sel
         /\ att[v].sel \subseteq Articles
         /\ pc[v] \in {"favorites", "mark", "send", "resolve"} => att[v].got = att[v].sel
         /\ pc[v] \in {"mark", "send"} => Workflow = "notify"
  BY WellFormedParts, MemoryPointwise
     DEF MemoryAt, Attempt, Attempting, Preparing, Lost

\* A reservation is new, so nothing was sent under it.
LEMMA ReserveSafe ==
  ASSUME WellFormed, Safe, NEW w \in Workers, Reserve(w)
  PROVE  Safe'
  <1>0. Tables /\ Memory /\ pc[w] = "reserve"
    BY WellFormedParts DEF Reserve
  <1>a. /\ job[w].run \in RunIds /\ att[w].user \in Users /\ att[w] \in Attempt
        /\ att[w].sel \subseteq Articles
    BY <1>0, AttemptFacts DEF Attempting, Preparing
  <1>b. UNCHANGED <<item, sent, job>>
    BY DEF Reserve
  <1>c. PICK a0 \in att[w].sel \ att[w].got :
        \/ /\ dedupe[att[w].user][a0].status = "absent"
           /\ dedupe' = [dedupe EXCEPT ![att[w].user][a0] =
                [status |-> "reserved", owner |-> w, run |-> job[w].run, at |-> 0]]
           /\ att' = [att EXCEPT ![w].got = @ \union {a0}]
           /\ Goto(w, IF att[w].got \union {a0} = att[w].sel
                      THEN "favorites" ELSE "reserve")
        \/ /\ att' = [att EXCEPT ![w].fin = "skipped"]
           /\ Goto(w, "release")
           /\ UNCHANGED dedupe
    BY DEF Reserve
  <1>d. CASE /\ att' = [att EXCEPT ![w].fin = "skipped"]
             /\ Goto(w, "release")
             /\ UNCHANGED dedupe
    <2>1. /\ Others(w) /\ pc'[w] = "release"
          /\ att'[w].user = att[w].user /\ att'[w].got = att[w].got
      BY <1>0, <1>a, <1>b, <1>d DEF Others, Goto, Memory, Attempt
    <2>2. Quiet(w)
      BY <1>0, <1>b, <2>1 DEF Quiet, Gone, Failing, Preparing
    <2>. QED
      BY <1>0, <1>b, <1>d, <2>2, QuietSafe
  <1>e. ASSUME dedupe[att[w].user][a0].status = "absent",
               dedupe' = [dedupe EXCEPT ![att[w].user][a0] =
                 [status |-> "reserved", owner |-> w, run |-> job[w].run, at |-> 0]],
               att' = [att EXCEPT ![w].got = @ \union {a0}],
               Goto(w, IF att[w].got \union {a0} = att[w].sel
                       THEN "favorites" ELSE "reserve")
        PROVE  Safe'
    <2>a. /\ Others(w) /\ pc'[w] \in {"favorites", "reserve"}
          /\ att'[w].user = att[w].user /\ att'[w].got = att[w].got \union {a0}
      BY <1>0, <1>a, <1>b, <1>e DEF Others, Goto, Memory, Attempt
    <2>b. /\ dedupe'[att[w].user][a0].status = "reserved"
          /\ dedupe'[att[w].user][a0].owner = w
          /\ dedupe'[att[w].user][a0].run = job[w].run
          /\ \A u \in Users, a \in Articles :
               u # att[w].user \/ a # a0 => dedupe'[u][a] = dedupe[u][a]
      BY <1>0, <1>a, <1>e DEF Tables
    <2>c. sent[att[w].user][a0] = 0
      BY <1>0, <1>a, <1>e DEF Safe, SentIsProtected, Tables
    <2>1. AtMostOnce'
      BY <1>b DEF Safe, AtMostOnce
    <2>2. RowsAreOwned'
      <3> SUFFICES ASSUME NEW u \in Users, NEW a \in Articles, Reserved(u, a)'
                   PROVE  dedupe'[u][a].run \in RunIds /\ dedupe'[u][a].owner \in Workers
        BY DEF RowsAreOwned
      <3>. QED
        BY <1>a, <2>b DEF Safe, RowsAreOwned, Reserved
    <2>3. SendingIsOwned'
      <3> SUFFICES ASSUME NEW q \in RunIds, NEW u \in Users, item'[q][u].status = "sending"
                   PROVE  \E v \in Workers :
                            /\ item'[q][u].owner = v
                            /\ \/ pc'[v] \in {"send", "resolve"} /\ job'[v].run = q /\ att'[v].user = u
                               \/ pc'[v] \in Gone
        BY DEF SendingIsOwned
      <3>1. PICK v \in Workers :
              /\ item[q][u].owner = v
              /\ \/ pc[v] \in {"send", "resolve"} /\ job[v].run = q /\ att[v].user = u
                 \/ pc[v] \in Gone
        BY <1>b DEF Safe, SendingIsOwned
      <3>. QED
        BY <1>0, <1>b, <2>a, <3>1 DEF Others, Gone, Failing
    <2>4. SentIsProtected'
      <3> SUFFICES ASSUME NEW u \in Users, NEW a \in Articles, sent'[u][a] > 0
                   PROVE  /\ dedupe'[u][a].status # "absent"
                          /\ Reserved(u, a)' =>
                               LET v == dedupe'[u][a].owner
                                   i == item'[dedupe'[u][a].run][u]
                               IN /\ i.status = "sending"
                                  /\ i.owner = v
                                  /\ \/ pc'[v] = "resolve" /\ a \in att'[v].got
                                     \/ pc'[v] \in Gone
        BY DEF SentIsProtected
      <3>1. dedupe'[u][a] = dedupe[u][a]
        BY <1>b, <2>b, <2>c
      <3>2. Reserved(u, a) => dedupe[u][a].owner \in Workers
        BY DEF Safe, RowsAreOwned
      <3>. QED
        BY <1>0, <1>b, <2>a, <3>1, <3>2
           DEF Safe, SentIsProtected, Reserved, Others, Gone, Failing
    <2>5. PreparedIsUnsent'
      <3> SUFFICES ASSUME NEW v \in Workers, pc'[v] \in Preparing, NEW a \in att'[v].got
                   PROVE  /\ Claims(v, att[v].user)' => OwnRow(v, att[v].user, a)'
                          /\ OwnRow(v, att[v].user, a)' => sent'[att'[v].user][a] = 0
        BY DEF PreparedIsUnsent
      <3>1. CASE v = w /\ a = a0
        BY <1>b, <2>a, <2>b, <2>c, <3>1 DEF Claims, OwnRow, Reserved
      <3>2. CASE v = w /\ a # a0
        <4>1. a \in att[w].got /\ a \in Articles
          BY <1>a, <2>a, <3>2 DEF Attempt
        <4>. QED
          BY <1>0, <1>a, <1>b, <2>a, <2>b, <3>2, <4>1
             DEF Safe, PreparedIsUnsent, Claims, OwnRow, Reserved, Preparing
      <3>3. CASE v # w
        <4>1. pc[v] \in Preparing /\ att'[v] = att[v] /\ job'[v] = job[v]
          BY <2>a, <3>3 DEF Others
        <4>2. att[v].user \in Users /\ a \in Articles
          BY <4>1, AttemptFacts DEF Attempting
        <4>3. /\ Claims(v, att[v].user) => OwnRow(v, att[v].user, a)
              /\ OwnRow(v, att[v].user, a) => sent[att[v].user][a] = 0
          BY <4>1 DEF Safe, PreparedIsUnsent
        <4>. QED
          BY <1>b, <1>e, <2>b, <3>3, <4>1, <4>2, <4>3 DEF Claims, OwnRow, Reserved
      <3>. QED
        BY <3>1, <3>2, <3>3
    <2>6. SendIsFirst'
      <3> SUFFICES ASSUME NEW v \in Workers, pc'[v] = "send", NEW a \in att'[v].sel
                   PROVE  (/\ sent[att[v].user][a] = 0
                           /\ \/ dedupe[att[v].user][a].status = "unknown"
                              \/ /\ OwnRow(v, att[v].user, a)
                                 /\ item[job[v].run][att[v].user].status = "sending"
                                 /\ item[job[v].run][att[v].user].owner = v)'
        BY DEF SendIsFirst
      <3>1. v # w /\ pc[v] = "send" /\ att'[v] = att[v] /\ job'[v] = job[v]
        BY <2>a DEF Others
      <3>2. att[v].user \in Users /\ a \in Articles
        BY <3>1, AttemptFacts DEF Attempting
      <3>3. /\ sent[att[v].user][a] = 0
            /\ \/ dedupe[att[v].user][a].status = "unknown"
               \/ /\ OwnRow(v, att[v].user, a)
                  /\ item[job[v].run][att[v].user].status = "sending"
                  /\ item[job[v].run][att[v].user].owner = v
        BY <3>1 DEF Safe, SendIsFirst
      <3>. QED
        BY <1>b, <1>e, <2>b, <3>1, <3>2, <3>3 DEF OwnRow, Reserved
    <2>7. SendIsExclusive'
      BY <2>a DEF Safe, SendIsExclusive, Others
    <2>8. SuccessIsDelivered'
      <3> SUFFICES ASSUME NEW v \in Workers, pc'[v] = "resolve", att'[v].ok,
                          Workflow = "notify", NEW a \in att'[v].got
                   PROVE  OwnRow(v, att[v].user, a)' => sent'[att'[v].user][a] = 1
        BY DEF SuccessIsDelivered
      <3>1. v # w /\ pc[v] = "resolve" /\ att'[v] = att[v] /\ job'[v] = job[v]
        BY <2>a DEF Others
      <3>2. att[v].user \in Users /\ a \in Articles
        BY <3>1, AttemptFacts DEF Attempting
      <3>. QED
        BY <1>b, <2>b, <3>1, <3>2 DEF Safe, SuccessIsDelivered, OwnRow, Reserved
    <2>. QED
      BY <2>1, <2>2, <2>3, <2>4, <2>5, <2>6, <2>7, <2>8 DEF Safe
  <1>. QED
    BY <1>c, <1>d, <1>e

\* MarkItemSending: the claim that stands proves the reservations stand, so
\* what is about to be sent is held and was never sent.
LEMMA MarkSendingSafe ==
  ASSUME WellFormed, Safe, NEW w \in Workers, MarkSending(w)
  PROVE  Safe'
  <1>0. Tables /\ Memory /\ pc[w] = "mark"
    BY WellFormedParts DEF MarkSending
  <1>a. /\ job[w].run \in RunIds /\ att[w].user \in Users /\ att[w] \in Attempt
        /\ att[w].sel \subseteq Articles /\ att[w].got = att[w].sel
    BY <1>0, AttemptFacts DEF Attempting, Preparing
  <1>b. UNCHANGED <<dedupe, sent>>
    BY DEF MarkSending
  <1>c. CASE Fail(w, clock) /\ UNCHANGED item
    BY <1>0, <1>b, <1>c, QuietFail, QuietSafe
  <1>d. ASSUME OwnsItem(w, {"claimed"}), Goto(w, "send"), UNCHANGED job,
               item' = [item EXCEPT ![job[w].run][att[w].user] = Moved(@, "sending")],
               att' = [att EXCEPT ![w].rev = @ + 1]
        PROVE  Safe'
    <2>a. /\ Others(w) /\ pc'[w] = "send" /\ att'[w].user = att[w].user
          /\ att'[w].sel = att[w].sel /\ job' = job
      BY <1>0, <1>a, <1>d DEF Others, Goto, Memory, Attempt
    <2>b. /\ item[job[w].run][att[w].user].status = "claimed"
          /\ item[job[w].run][att[w].user].owner = w
          /\ item'[job[w].run][att[w].user].status = "sending"
          /\ item'[job[w].run][att[w].user].owner = w
          /\ \A r \in RunIds, u \in Users :
               r # job[w].run \/ u # att[w].user => item'[r][u] = item[r][u]
      <3>1. item[job[w].run][att[w].user] \in ItemRow
        BY <1>0, <1>a DEF Tables
      <3>2. LET i == item[job[w].run][att[w].user] IN
              /\ Moved(i, "sending").status = "sending"
              /\ Moved(i, "sending").owner = i.owner
        BY <3>1, WrittenItem
      <3>. QED
        BY <1>0, <1>a, <1>d, <3>2 DEF Tables, OwnsItem
    <2>c. \A a \in att[w].sel : OwnRow(w, att[w].user, a) /\ sent[att[w].user][a] = 0
      BY <1>0, <1>a, <2>b DEF Safe, PreparedIsUnsent, Preparing, Claims
    <2>1. AtMostOnce'
      BY <1>b DEF Safe, AtMostOnce
    <2>2. RowsAreOwned'
      BY <1>b DEF Safe, RowsAreOwned, Reserved
    <2>3. SendingIsOwned'
      <3> SUFFICES ASSUME NEW q \in RunIds, NEW u \in Users, item'[q][u].status = "sending"
                   PROVE  \E v \in Workers :
                            /\ item'[q][u].owner = v
                            /\ \/ pc'[v] \in {"send", "resolve"} /\ job'[v].run = q /\ att'[v].user = u
                               \/ pc'[v] \in Gone
        BY DEF SendingIsOwned
      <3>1. CASE q = job[w].run /\ u = att[w].user
        BY <2>a, <2>b, <3>1
      <3>2. CASE ~(q = job[w].run /\ u = att[w].user)
        <4>1. PICK v \in Workers :
                /\ item[q][u].owner = v
                /\ \/ pc[v] \in {"send", "resolve"} /\ job[v].run = q /\ att[v].user = u
                   \/ pc[v] \in Gone
          BY <2>b, <3>2 DEF Safe, SendingIsOwned
        <4>. QED
          BY <1>0, <2>a, <2>b, <3>2, <4>1 DEF Others, Gone, Failing
      <3>. QED
        BY <3>1, <3>2
    <2>4. SentIsProtected'
      <3> SUFFICES ASSUME NEW u \in Users, NEW a \in Articles, sent'[u][a] > 0
                   PROVE  /\ dedupe'[u][a].status # "absent"
                          /\ Reserved(u, a)' =>
                               LET v == dedupe'[u][a].owner
                                   i == item'[dedupe'[u][a].run][u]
                               IN /\ i.status = "sending"
                                  /\ i.owner = v
                                  /\ \/ pc'[v] = "resolve" /\ a \in att'[v].got
                                     \/ pc'[v] \in Gone
        BY DEF SentIsProtected
      <3>1. /\ dedupe[u][a].status # "absent"
            /\ Reserved(u, a) =>
                 LET v == dedupe[u][a].owner
                     i == item[dedupe[u][a].run][u]
                 IN /\ i.status = "sending"
                    /\ i.owner = v
                    /\ v \in Workers /\ dedupe[u][a].run \in RunIds
                    /\ \/ pc[v] = "resolve" /\ a \in att[v].got
                       \/ pc[v] \in Gone
        BY <1>b DEF Safe, SentIsProtected, RowsAreOwned
      <3>2. Reserved(u, a) => item'[dedupe[u][a].run][u] = item[dedupe[u][a].run][u]
        BY <2>b, <3>1
      <3>. QED
        BY <1>0, <1>b, <2>a, <3>1, <3>2 DEF Reserved, Others, Gone, Failing
    <2>5. PreparedIsUnsent'
      <3> SUFFICES ASSUME NEW v \in Workers, pc'[v] \in Preparing, NEW a \in att'[v].got
                   PROVE  /\ Claims(v, att[v].user)' => OwnRow(v, att[v].user, a)'
                          /\ OwnRow(v, att[v].user, a)' => sent'[att'[v].user][a] = 0
        BY DEF PreparedIsUnsent
      <3>1. v # w /\ pc[v] \in Preparing /\ att'[v] = att[v] /\ job'[v] = job[v]
        BY <2>a DEF Others, Preparing
      <3>2. att[v].user \in Users /\ job[v].run \in RunIds
        BY <3>1, AttemptFacts DEF Attempting
      <3>3. Claims(v, att[v].user)' => Claims(v, att[v].user)
        BY <2>b, <3>1, <3>2 DEF Claims
      <3>. QED
        BY <1>b, <3>1, <3>3 DEF Safe, PreparedIsUnsent, OwnRow, Reserved
    <2>6. SendIsFirst'
      <3> SUFFICES ASSUME NEW v \in Workers, pc'[v] = "send", NEW a \in att'[v].sel
                   PROVE  (/\ sent[att[v].user][a] = 0
                           /\ \/ dedupe[att[v].user][a].status = "unknown"
                              \/ /\ OwnRow(v, att[v].user, a)
                                 /\ item[job[v].run][att[v].user].status = "sending"
                                 /\ item[job[v].run][att[v].user].owner = v)'
        BY DEF SendIsFirst
      <3>1. CASE v = w
        BY <1>b, <2>a, <2>b, <2>c, <3>1 DEF OwnRow, Reserved
      <3>2. CASE v # w
        <4>1. pc[v] = "send" /\ att'[v] = att[v] /\ job'[v] = job[v]
          BY <2>a, <3>2 DEF Others
        <4>2. att[v].user \in Users /\ job[v].run \in RunIds
          BY <4>1, AttemptFacts DEF Attempting
        <4>3. /\ sent[att[v].user][a] = 0
              /\ \/ dedupe[att[v].user][a].status = "unknown"
                 \/ /\ OwnRow(v, att[v].user, a)
                    /\ item[job[v].run][att[v].user].status = "sending"
                    /\ item[job[v].run][att[v].user].owner = v
          BY <4>1 DEF Safe, SendIsFirst
        <4>. QED
          BY <1>b, <2>b, <3>2, <4>1, <4>2, <4>3 DEF OwnRow, Reserved
      <3>. QED
        BY <3>1, <3>2
    <2>7. SendIsExclusive'
      <3>1. ASSUME NEW v \in Workers, v # w, pc[v] = "send", NEW a \in att[v].sel,
                   att[v].user = att[w].user, a \in att[w].sel
            PROVE  FALSE
        BY <2>c, <3>1 DEF Safe, SendIsFirst, OwnRow, Reserved
      <3>2. \A v \in Workers \ {w} : pc'[v] = "send" =>
              pc[v] = "send" /\ att'[v] = att[v]
        BY <2>a DEF Others
      <3>. QED
        BY <2>a, <3>1, <3>2 DEF Safe, SendIsExclusive
    <2>8. SuccessIsDelivered'
      <3> SUFFICES ASSUME NEW v \in Workers, pc'[v] = "resolve", att'[v].ok,
                          Workflow = "notify", NEW a \in att'[v].got
                   PROVE  OwnRow(v, att[v].user, a)' => sent'[att'[v].user][a] = 1
        BY DEF SuccessIsDelivered
      <3>1. v # w /\ pc[v] = "resolve" /\ att'[v] = att[v] /\ job'[v] = job[v]
        BY <2>a DEF Others
      <3>. QED
        BY <1>b, <3>1 DEF Safe, SuccessIsDelivered, OwnRow, Reserved
    <2>. QED
      BY <2>1, <2>2, <2>3, <2>4, <2>5, <2>6, <2>7, <2>8 DEF Safe
  <1>. QED
    BY <1>c, <1>d DEF MarkSending

\* Send: first and only delivery of what it selected.
LEMMA SendSafe ==
  ASSUME WellFormed, Safe, NEW w \in Workers, Send(w)
  PROVE  Safe'
  <1>0. Tables /\ Memory /\ pc[w] = "send" /\ UNCHANGED <<item, dedupe, job>>
    BY WellFormedParts DEF Send
  <1>a. /\ job[w].run \in RunIds /\ att[w].user \in Users /\ att[w] \in Attempt
        /\ att[w].sel \subseteq Articles /\ att[w].got = att[w].sel
    BY <1>0, AttemptFacts DEF Attempting
  <1>b. PICK delivered, ok \in BOOLEAN :
          /\ ok => delivered
          /\ att' = [att EXCEPT ![w].ok = ok]
          /\ sent' = [sent EXCEPT ![att[w].user] = [a \in Articles |->
               IF delivered /\ a \in att[w].sel THEN @[a] + 1 ELSE @[a]]]
    BY DEF Send
  <1>c. /\ Others(w) /\ pc'[w] = "resolve" /\ att'[w].user = att[w].user
        /\ att'[w].got = att[w].got /\ att'[w].sel = att[w].sel /\ att'[w].ok = ok
        /\ job' = job
    BY <1>0, <1>a, <1>b DEF Send, Others, Goto, Memory, Attempt
  <1>d. \A a \in att[w].sel :
          /\ sent[att[w].user][a] = 0
          /\ \/ dedupe[att[w].user][a].status = "unknown"
             \/ /\ OwnRow(w, att[w].user, a)
                /\ item[job[w].run][att[w].user].status = "sending"
                /\ item[job[w].run][att[w].user].owner = w
    BY <1>0 DEF Safe, SendIsFirst
  <1>e. \A u \in Users, a \in Articles :
          IF u = att[w].user /\ a \in att[w].sel
          THEN sent'[u][a] = IF delivered THEN 1 ELSE 0
          ELSE sent'[u][a] = sent[u][a]
    <2> TAKE u \in Users, a \in Articles
    <2>1. CASE u = att[w].user
      <3>1. sent'[u][a] = IF delivered /\ a \in att[w].sel THEN sent[u][a] + 1 ELSE sent[u][a]
        BY <1>0, <1>a, <1>b, <2>1 DEF Tables
      <3>. QED
        BY <1>d, <2>1, <3>1
    <2>2. CASE u # att[w].user
      BY <1>0, <1>a, <1>b, <2>2 DEF Tables
    <2>. QED
      BY <2>1, <2>2
  <1>1. AtMostOnce'
    BY <1>e DEF Safe, AtMostOnce
  <1>2. RowsAreOwned'
    BY <1>0 DEF Safe, RowsAreOwned, Reserved
  <1>3. SendingIsOwned'
    <2> SUFFICES ASSUME NEW q \in RunIds, NEW u \in Users, item'[q][u].status = "sending"
                 PROVE  \E v \in Workers :
                          /\ item'[q][u].owner = v
                          /\ \/ pc'[v] \in {"send", "resolve"} /\ job'[v].run = q /\ att'[v].user = u
                             \/ pc'[v] \in Gone
      BY DEF SendingIsOwned
    <2>1. PICK v \in Workers :
            /\ item[q][u].owner = v
            /\ \/ pc[v] \in {"send", "resolve"} /\ job[v].run = q /\ att[v].user = u
               \/ pc[v] \in Gone
      BY <1>0 DEF Safe, SendingIsOwned
    <2>. QED
      BY <1>0, <1>c, <2>1 DEF Others, Gone, Failing
  <1>4. SentIsProtected'
    <2> SUFFICES ASSUME NEW u \in Users, NEW a \in Articles, sent'[u][a] > 0
                 PROVE  /\ dedupe'[u][a].status # "absent"
                        /\ Reserved(u, a)' =>
                             LET v == dedupe'[u][a].owner
                                 i == item'[dedupe'[u][a].run][u]
                             IN /\ i.status = "sending"
                                /\ i.owner = v
                                /\ \/ pc'[v] = "resolve" /\ a \in att'[v].got
                                   \/ pc'[v] \in Gone
      BY DEF SentIsProtected
    <2>1. CASE u = att[w].user /\ a \in att[w].sel
      BY <1>0, <1>a, <1>c, <1>d, <2>1 DEF Reserved, OwnRow
    <2>2. CASE ~(u = att[w].user /\ a \in att[w].sel)
      <3>1. sent[u][a] > 0
        BY <1>e, <2>2
      <3>2. Reserved(u, a) => dedupe[u][a].owner \in Workers
        BY DEF Safe, RowsAreOwned
      <3>. QED
        BY <1>0, <1>c, <3>1, <3>2
           DEF Safe, SentIsProtected, Reserved, Others, Gone, Failing
    <2>. QED
      BY <2>1, <2>2
  <1>5. PreparedIsUnsent'
    <2> SUFFICES ASSUME NEW v \in Workers, pc'[v] \in Preparing, NEW a \in att'[v].got
                 PROVE  /\ Claims(v, att[v].user)' => OwnRow(v, att[v].user, a)'
                        /\ OwnRow(v, att[v].user, a)' => sent'[att'[v].user][a] = 0
      BY DEF PreparedIsUnsent
    <2>1. v # w /\ pc[v] \in Preparing /\ att'[v] = att[v] /\ job'[v] = job[v]
      BY <1>c DEF Others, Preparing
    <2>2. att[v].user \in Users /\ a \in Articles
      BY <2>1, AttemptFacts DEF Attempting
    <2>3. OwnRow(v, att[v].user, a) => sent'[att[v].user][a] = sent[att[v].user][a]
      BY <1>d, <1>e, <2>1, <2>2 DEF OwnRow, Reserved
    <2>. QED
      BY <1>0, <2>1, <2>3 DEF Safe, PreparedIsUnsent, Claims, OwnRow, Reserved
  <1>6. SendIsFirst'
    <2> SUFFICES ASSUME NEW v \in Workers, pc'[v] = "send", NEW a \in att'[v].sel
                 PROVE  (/\ sent[att[v].user][a] = 0
                         /\ \/ dedupe[att[v].user][a].status = "unknown"
                            \/ /\ OwnRow(v, att[v].user, a)
                               /\ item[job[v].run][att[v].user].status = "sending"
                               /\ item[job[v].run][att[v].user].owner = v)'
      BY DEF SendIsFirst
    <2>1. v # w /\ pc[v] = "send" /\ att'[v] = att[v] /\ job'[v] = job[v]
      BY <1>c DEF Others
    <2>2. att[v].user \in Users /\ a \in Articles
      BY <2>1, AttemptFacts DEF Attempting
    <2>3. ~(att[v].user = att[w].user /\ a \in att[w].sel)
      BY <1>0, <2>1 DEF Safe, SendIsExclusive
    <2>4. /\ sent[att[v].user][a] = 0
          /\ \/ dedupe[att[v].user][a].status = "unknown"
             \/ /\ OwnRow(v, att[v].user, a)
                /\ item[job[v].run][att[v].user].status = "sending"
                /\ item[job[v].run][att[v].user].owner = v
      BY <2>1 DEF Safe, SendIsFirst
    <2>. QED
      BY <1>0, <1>e, <2>1, <2>2, <2>3, <2>4 DEF OwnRow, Reserved
  <1>7. SendIsExclusive'
    <2>1. \A v \in Workers : pc'[v] = "send" => pc[v] = "send" /\ att'[v] = att[v]
      BY <1>c DEF Others
    <2>. QED
      BY <2>1 DEF Safe, SendIsExclusive
  <1>8. SuccessIsDelivered'
    <2> SUFFICES ASSUME NEW v \in Workers, pc'[v] = "resolve", att'[v].ok,
                        Workflow = "notify", NEW a \in att'[v].got
                 PROVE  OwnRow(v, att[v].user, a)' => sent'[att'[v].user][a] = 1
      BY DEF SuccessIsDelivered
    <2>1. CASE v = w
      BY <1>a, <1>b, <1>c, <1>e, <2>1
    <2>2. CASE v # w
      <3>1. pc[v] = "resolve" /\ att'[v] = att[v] /\ job'[v] = job[v]
        BY <1>c, <2>2 DEF Others
      <3>2. att[v].user \in Users /\ a \in Articles
        BY <3>1, AttemptFacts DEF Attempting
      <3>3. OwnRow(v, att[v].user, a) => sent'[att[v].user][a] = sent[att[v].user][a]
        BY <1>d, <1>e, <2>2, <3>2 DEF OwnRow, Reserved
      <3>. QED
        BY <1>0, <3>1, <3>3 DEF Safe, SuccessIsDelivered, OwnRow, Reserved
    <2>. QED
      BY <2>1, <2>2
  <1>. QED
    BY <1>1, <1>2, <1>3, <1>4, <1>5, <1>6, <1>7, <1>8 DEF Safe

\* FinalizeAttempt settles the item together with all its reservations.
LEMMA ResolveSafe ==
  ASSUME WellFormed, Safe, NEW w \in Workers, Resolve(w)
  PROVE  Safe'
  <1>0. Tables /\ Memory /\ pc[w] = "resolve" /\ UNCHANGED sent
    BY WellFormedParts DEF Resolve
  <1>a. /\ job[w].run \in RunIds /\ att[w].user \in Users /\ att[w] \in Attempt
        /\ att[w].got \subseteq Articles
    BY <1>0, AttemptFacts DEF Attempting
  <1>b. CASE Fail(w, clock) /\ UNCHANGED <<dedupe, item>>
    BY <1>0, <1>b, QuietFail, QuietSafe
  <1> DEFINE rowStatus == IF att[w].ok THEN "confirmed" ELSE "unknown"
             itemStatus == IF att[w].ok THEN "succeeded" ELSE "unknown"
  <1>c. ASSUME OwnsRows(w), OwnsItem(w, {"claimed", "sending"}),
               dedupe' = [dedupe EXCEPT ![att[w].user] = [a \in Articles |->
                 IF a \in att[w].got THEN Resolved(@[a], rowStatus, clock) ELSE @[a]]],
               item' = [item EXCEPT ![job[w].run][att[w].user] = Ended(@, itemStatus)],
               Settle(w, itemStatus)
        PROVE  Safe'
    <2>a. Others(w) /\ pc'[w] \in {"loop", "finish"}
      BY <1>0, <1>c, SettleMoves
    <2>b. \A u \in Users, a \in Articles :
            IF u = att[w].user /\ a \in att[w].got
            THEN OwnRow(w, u, a) /\ dedupe'[u][a].status \in {"confirmed", "unknown"}
            ELSE dedupe'[u][a] = dedupe[u][a]
      <3> TAKE u \in Users, a \in Articles
      <3>1. Resolved(dedupe[u][a], rowStatus, clock).status = rowStatus
        BY <1>0, WrittenRow DEF Tables
      <3>2. rowStatus \in {"confirmed", "unknown"}
        OBVIOUS
      <3>. HIDE DEF rowStatus
      <3>. QED
        BY <1>0, <1>a, <1>c, <3>1, <3>2 DEF Tables, OwnsRows, OwnRow, Reserved
    <2>c. \A r \in RunIds, u \in Users :
            IF r = job[w].run /\ u = att[w].user
            THEN /\ item'[r][u].status \in {"succeeded", "unknown"}
                 /\ item[r][u].owner = w
            ELSE item'[r][u] = item[r][u]
      <3> TAKE r \in RunIds, u \in Users
      <3>1. Ended(item[r][u], itemStatus).status = itemStatus
        BY <1>0, WrittenItem DEF Tables
      <3>2. itemStatus \in {"succeeded", "unknown"}
        OBVIOUS
      <3>. HIDE DEF itemStatus
      <3>. QED
        BY <1>0, <1>a, <1>c, <3>1, <3>2 DEF Tables, OwnsItem
    <2>1. AtMostOnce'
      BY <1>0 DEF Safe, AtMostOnce
    <2>2. RowsAreOwned'
      BY <2>b DEF Safe, RowsAreOwned, Reserved
    <2>3. SendingIsOwned'
      <3> SUFFICES ASSUME NEW q \in RunIds, NEW u \in Users, item'[q][u].status = "sending"
                   PROVE  \E v \in Workers :
                            /\ item'[q][u].owner = v
                            /\ \/ pc'[v] \in {"send", "resolve"} /\ job'[v].run = q /\ att'[v].user = u
                               \/ pc'[v] \in Gone
        BY DEF SendingIsOwned
      <3>1. ~(q = job[w].run /\ u = att[w].user) /\ item'[q][u] = item[q][u]
        BY <2>c
      <3>2. PICK v \in Workers :
              /\ item[q][u].owner = v
              /\ \/ pc[v] \in {"send", "resolve"} /\ job[v].run = q /\ att[v].user = u
                 \/ pc[v] \in Gone
        BY <3>1 DEF Safe, SendingIsOwned
      <3>. QED
        BY <1>0, <2>a, <3>1, <3>2 DEF Others, Gone, Failing
    <2>4. SentIsProtected'
      <3> SUFFICES ASSUME NEW u \in Users, NEW a \in Articles, sent'[u][a] > 0
                   PROVE  /\ dedupe'[u][a].status # "absent"
                          /\ Reserved(u, a)' =>
                               LET v == dedupe'[u][a].owner
                                   i == item'[dedupe'[u][a].run][u]
                               IN /\ i.status = "sending"
                                  /\ i.owner = v
                                  /\ \/ pc'[v] = "resolve" /\ a \in att'[v].got
                                     \/ pc'[v] \in Gone
        BY DEF SentIsProtected
      <3>1. /\ dedupe[u][a].status # "absent"
            /\ Reserved(u, a) =>
                 LET v == dedupe[u][a].owner
                     i == item[dedupe[u][a].run][u]
                 IN /\ i.status = "sending"
                    /\ i.owner = v
                    /\ v \in Workers /\ dedupe[u][a].run \in RunIds
                    /\ \/ pc[v] = "resolve" /\ a \in att[v].got
                       \/ pc[v] \in Gone
        BY <1>0 DEF Safe, SentIsProtected, RowsAreOwned
      <3>2. CASE u = att[w].user /\ a \in att[w].got
        BY <2>b, <3>2 DEF Reserved
      <3>3. CASE ~(u = att[w].user /\ a \in att[w].got)
        <4>1. dedupe'[u][a] = dedupe[u][a]
          BY <2>b, <3>3
        <4>2. ASSUME Reserved(u, a)
              PROVE  /\ item'[dedupe[u][a].run][u] = item[dedupe[u][a].run][u]
                     /\ dedupe[u][a].owner # w
          <5>1. CASE dedupe[u][a].owner = w
            <6>1. item[dedupe[u][a].run][u].owner = w /\ a \in att[w].got
              BY <1>0, <3>1, <4>2, <5>1 DEF Gone, Failing
            <6>2. u # att[w].user
              BY <3>3, <6>1
            <6>3. item[dedupe[u][a].run][u].status = "sending" /\ dedupe[u][a].run \in RunIds
              BY <3>1, <4>2
            <6>4. att[w].user = u
              BY <1>0, <6>1, <6>3 DEF Safe, SendingIsOwned, Gone, Failing
            <6>. QED
              BY <6>2, <6>4
          <5>2. CASE dedupe[u][a].owner # w
            BY <2>c, <3>1, <4>2, <5>2
          <5>. QED
            BY <5>1, <5>2
        <4>. QED
          BY <2>a, <3>1, <4>1, <4>2 DEF Reserved, Others
      <3>. QED
        BY <3>2, <3>3
    <2>5. PreparedIsUnsent'
      <3> SUFFICES ASSUME NEW v \in Workers, pc'[v] \in Preparing, NEW a \in att'[v].got
                   PROVE  /\ Claims(v, att[v].user)' => OwnRow(v, att[v].user, a)'
                          /\ OwnRow(v, att[v].user, a)' => sent'[att'[v].user][a] = 0
        BY DEF PreparedIsUnsent
      <3>1. v # w /\ pc[v] \in Preparing /\ att'[v] = att[v] /\ job'[v] = job[v]
        BY <2>a DEF Others, Preparing
      <3>2. att[v].user \in Users /\ a \in Articles /\ job[v].run \in RunIds
        BY <3>1, AttemptFacts DEF Attempting
      <3>3. Claims(v, att[v].user)' => Claims(v, att[v].user)
        BY <2>c, <3>1, <3>2 DEF Claims
      <3>4. OwnRow(v, att[v].user, a)' <=> OwnRow(v, att[v].user, a)
        BY <2>b, <3>1, <3>2 DEF OwnRow, Reserved
      <3>. QED
        BY <1>0, <3>1, <3>3, <3>4 DEF Safe, PreparedIsUnsent
    <2>6. SendIsFirst'
      <3> SUFFICES ASSUME NEW v \in Workers, pc'[v] = "send", NEW a \in att'[v].sel
                   PROVE  (/\ sent[att[v].user][a] = 0
                           /\ \/ dedupe[att[v].user][a].status = "unknown"
                              \/ /\ OwnRow(v, att[v].user, a)
                                 /\ item[job[v].run][att[v].user].status = "sending"
                                 /\ item[job[v].run][att[v].user].owner = v)'
        BY DEF SendIsFirst
      <3>1. v # w /\ pc[v] = "send" /\ att'[v] = att[v] /\ job'[v] = job[v]
        BY <2>a DEF Others
      <3>2. att[v].user \in Users /\ a \in Articles /\ job[v].run \in RunIds
        BY <3>1, AttemptFacts DEF Attempting
      <3>3. /\ sent[att[v].user][a] = 0
            /\ \/ dedupe[att[v].user][a].status = "unknown"
               \/ /\ OwnRow(v, att[v].user, a)
                  /\ item[job[v].run][att[v].user].status = "sending"
                  /\ item[job[v].run][att[v].user].owner = v
        BY <3>1 DEF Safe, SendIsFirst
      <3>4. dedupe'[att[v].user][a] = dedupe[att[v].user][a]
        BY <2>b, <3>1, <3>2, <3>3 DEF OwnRow, Reserved
      <3>. QED
        BY <1>0, <2>c, <3>1, <3>2, <3>3, <3>4 DEF OwnRow, Reserved
    <2>7. SendIsExclusive'
      <3>1. \A v \in Workers : pc'[v] = "send" => pc[v] = "send" /\ att'[v] = att[v]
        BY <2>a DEF Others
      <3>. QED
        BY <3>1 DEF Safe, SendIsExclusive
    <2>8. SuccessIsDelivered'
      <3> SUFFICES ASSUME NEW v \in Workers, pc'[v] = "resolve", att'[v].ok,
                          Workflow = "notify", NEW a \in att'[v].got
                   PROVE  OwnRow(v, att[v].user, a)' => sent'[att'[v].user][a] = 1
        BY DEF SuccessIsDelivered
      <3>1. v # w /\ pc[v] = "resolve" /\ att'[v] = att[v] /\ job'[v] = job[v]
        BY <2>a DEF Others
      <3>2. att[v].user \in Users /\ a \in Articles
        BY <3>1, AttemptFacts DEF Attempting
      <3>3. OwnRow(v, att[v].user, a)' => OwnRow(v, att[v].user, a)
        BY <2>b, <3>1, <3>2 DEF OwnRow, Reserved
      <3>. QED
        BY <1>0, <3>1, <3>3 DEF Safe, SuccessIsDelivered
    <2>. QED
      BY <2>1, <2>2, <2>3, <2>4, <2>5, <2>6, <2>7, <2>8 DEF Safe
  <1>. QED
    BY <1>b, <1>c DEF Resolve

----------------------------------------------------------------------------
\* The theorems

\* The clock, the index and stuttering keep the safety parts.
LEMMA OutsideSafe ==
  ASSUME Safe, Tick \/ (\E a \in Articles : IndexArticle(a)) \/ UNCHANGED vars
  PROVE  Safe'
  <1>1. UNCHANGED <<item, dedupe, sent, pc, job, att>>
    BY DEF Tick, IndexArticle, vars
  <1>2. AtMostOnce' /\ RowsAreOwned' /\ SendingIsOwned' /\ SentIsProtected'
    BY <1>1 DEF Safe, AtMostOnce, RowsAreOwned, SendingIsOwned, SentIsProtected, Reserved
  <1>3. PreparedIsUnsent' /\ SendIsFirst' /\ SendIsExclusive' /\ SuccessIsDelivered'
    BY <1>1 DEF Safe, PreparedIsUnsent, SendIsFirst, SendIsExclusive,
                SuccessIsDelivered, Claims, OwnRow, Reserved
  <1>. QED
    BY <1>2, <1>3 DEF Safe

\* The safety parts are inductive relative to the types.
LEMMA NextSafe == WellFormed /\ Safe /\ [Next]_vars => Safe'
  <1> SUFFICES ASSUME WellFormed, Safe, [Next]_vars PROVE Safe'
    OBVIOUS
  <1>1. ASSUME NEW w \in Workers, Step(w) PROVE Safe'
    BY <1>1, EnteringSafe, RunningSafe, EndingSafe, ReconcilingSafe, CleanupSafe,
       ListSubscribersSafe, ClaimItemSafe, ReserveSafe, ReleaseSafe, FinishItemSafe,
       MarkSendingSafe, SendSafe, ResolveSafe DEF Step
  <1>2. ASSUME NEW w \in Workers, Admit(w) PROVE Safe'
    BY <1>2, EnteringSafe
  <1>3. ASSUME NEW w \in Workers, ControlStop(w) \/ StorageError(w) \/ Crash(w)
        PROVE  Safe'
    BY <1>3, EndingSafe
  <1>4. CASE Tick \/ (\E a \in Articles : IndexArticle(a)) \/ UNCHANGED vars
    BY <1>4, OutsideSafe
  <1>. QED
    BY <1>1, <1>2, <1>3, <1>4 DEF Next

\* The inductive invariant holds in every reachable state, whatever the numbers
\* of invocations, runs, subscribers and articles and the lease length.
THEOREM DeliveryIsSafe == Spec => []DeliveryInv
  <1>1. Init => WellFormed /\ Safe
    BY InitWellFormed, InitSafe
  <1>2. WellFormed /\ Safe /\ [Next]_vars => (WellFormed /\ Safe)'
    BY NextWellFormed, NextSafe
  <1>3. WellFormed /\ Safe => DeliveryInv
    BY DeliveryInvParts
  <1>. QED
    BY <1>1, <1>2, <1>3, PTL DEF Spec

\* No article is delivered to a subscriber twice.
THEOREM DeliveredAtMostOnce == Spec => []AtMostOnce
  <1>1. DeliveryInv => AtMostOnce
    BY DEF DeliveryInv
  <1>. QED
    BY <1>1, DeliveryIsSafe, PTL

\* What may have been sent is protected against being released.
THEOREM SentIsNeverReleased == Spec => []SendBoundary
  <1>1. DeliveryInv => SendBoundary
    BY DEF DeliveryInv, SendBoundary, SentIsProtected, Reserved
  <1>. QED
    BY <1>1, DeliveryIsSafe, PTL

----------------------------------------------------------------------------
\* The delivery tables and the provider implement DeliveryContract: every
\* step moves every cell of the dedupe table as the contract allows, or
\* leaves it.

\* What a step does to one article of one user, in the contract's terms
CellStep(u, a) ==
    LET was == dedupe[u][a].status
        is  == dedupe'[u][a].status
    IN
    \/ is = was /\ sent'[u][a] = sent[u][a]
    \/ was = "absent" /\ is = "reserved" /\ sent'[u][a] = sent[u][a]
    \/ was = "reserved" /\ is = "absent" /\ sent[u][a] = 0 /\ sent'[u][a] = 0
    \/ /\ Workflow = "notify" /\ was \in {"reserved", "unknown"} /\ is = was
       /\ sent[u][a] = 0 /\ sent'[u][a] = 1
    \/ /\ was = "reserved" /\ is = "confirmed" /\ sent'[u][a] = sent[u][a]
       /\ Workflow = "notify" => sent[u][a] = 1
    \/ was = "reserved" /\ is = "unknown" /\ sent'[u][a] = sent[u][a]
    \/ was = "confirmed" /\ is = "absent" /\ sent'[u][a] = 0

CellsStep == \A u \in Users, a \in Articles : CellStep(u, a)

\* If every cell steps as allowed, the step is one of the contract.
LEMMA CellsMakeContract == CellsStep => Contract!CNext
  <1> SUFFICES ASSUME CellsStep, NEW u \in Users, NEW a \in Articles
               PROVE  \/ Contract!Stay(u, a) \/ Contract!Hold(u, a)
                      \/ Contract!Drop(u, a) \/ Contract!Deliver(u, a)
                      \/ Contract!Confirm(u, a) \/ Contract!Doubt(u, a)
                      \/ Contract!Forget(u, a)
    BY DEF Contract!CNext
  <1>1. CellStep(u, a)
    BY DEF CellsStep
  <1>. QED
    BY <1>1 DEF CellStep, Contract!Becomes, Contract!Stay, Contract!Hold,
                Contract!Drop, Contract!Deliver, Contract!Confirm,
                Contract!Doubt, Contract!Forget

\* A step that leaves the dedupe table and the provider alone moves no cell.
LEMMA Untouched == UNCHANGED <<dedupe, sent>> => CellsStep
  BY DEF CellsStep, CellStep

\* ReconcileAfterTakeover drops what was not sent and doubts the rest.
LEMMA QuarantineCells ==
  ASSUME WellFormed, Safe, NEW r \in RunIds, Quarantine(r), UNCHANGED sent
  PROVE  CellsStep
  <1> SUFFICES ASSUME NEW u \in Users, NEW a \in Articles
               PROVE  CellStep(u, a)
    BY DEF CellsStep
  <1>1. dedupe[u][a] \in Row /\ sent[u][a] \in Nat
    BY DEF WellFormed, TypeOK
  <1>2. CASE dedupe[u][a].run = r /\ Reserved(u, a) /\ item[r][u].status = "sending"
    <2>1. dedupe'[u][a] = Doubted(dedupe[u][a])
      BY <1>2 DEF Quarantine, Reserved
    <2>. QED
      BY <1>1, <1>2, <2>1, WrittenRow DEF CellStep, Reserved
  <1>3. CASE dedupe[u][a].run = r /\ Reserved(u, a) /\ item[r][u].status # "sending"
    <2>1. dedupe'[u][a] = NoRow
      BY <1>3 DEF Quarantine, Reserved
    <2>2. sent[u][a] = 0
      BY <1>1, <1>3 DEF Safe, SentIsProtected
    <2>. QED
      BY <1>3, <2>1, <2>2 DEF CellStep, Reserved, NoRow
  <1>4. CASE ~(dedupe[u][a].run = r /\ Reserved(u, a))
    <2>1. dedupe'[u][a] = dedupe[u][a]
      BY <1>4 DEF Quarantine, Reserved
    <2>. QED
      BY <2>1 DEF CellStep
  <1>. QED
    BY <1>2, <1>3, <1>4

\* Retention forgets confirmed rows only.
LEMMA CleanupCells ==
  ASSUME NEW w \in Workers, Cleanup(w)
  PROVE  CellsStep
  BY DEF Cleanup, CellsStep, CellStep, Forgotten, NoRow

\* ReserveDedupe holds an article nobody holds.
LEMMA ReserveCells ==
  ASSUME WellFormed, NEW w \in Workers, Reserve(w)
  PROVE  CellsStep
  <1>1. UNCHANGED sent
    BY DEF Reserve
  <1>2. CASE UNCHANGED dedupe
    BY <1>1, <1>2, Untouched
  <1>3. ASSUME NEW b \in Articles, dedupe[att[w].user][b].status = "absent",
               dedupe' = [dedupe EXCEPT ![att[w].user][b] =
                 [status |-> "reserved", owner |-> w, run |-> job[w].run, at |-> 0]]
        PROVE  CellsStep
    <2>. SUFFICES ASSUME NEW u \in Users, NEW a \in Articles
                  PROVE  CellStep(u, a)
      BY DEF CellsStep
    <2>1. dedupe \in [Users -> [Articles -> Row]]
      BY DEF WellFormed, TypeOK
    <2>2. CASE u = att[w].user /\ a = b
      <3>1. dedupe'[u][a].status = "reserved"
        BY <1>3, <2>1, <2>2
      <3>. QED
        BY <1>1, <1>3, <2>2, <3>1 DEF CellStep
    <2>3. CASE ~(u = att[w].user /\ a = b)
      <3>1. dedupe'[u][a] = dedupe[u][a]
        BY <1>3, <2>1, <2>3
      <3>. QED
        BY <1>1, <3>1 DEF CellStep
    <2>. QED
      BY <2>2, <2>3
  <1>4. \A b \in att[w].sel : b \in Articles
    BY WellFormedParts, MemoryPointwise DEF MemoryAt, Attempt
  <1>. QED
    BY <1>2, <1>3, <1>4 DEF Reserve

\* ReleaseReservations drops only what the attempt itself held and did not send.
LEMMA ReleaseCells ==
  ASSUME WellFormed, Safe, NEW w \in Workers, Release(w)
  PROVE  CellsStep
  <1>1. UNCHANGED sent /\ pc[w] = "release"
    BY DEF Release
  <1>2. CASE UNCHANGED dedupe
    BY <1>1, <1>2, Untouched
  <1>3. ASSUME OwnsRows(w),
               dedupe' = [dedupe EXCEPT ![att[w].user] = [a \in Articles |->
                            IF a \in att[w].got THEN NoRow ELSE @[a]]]
        PROVE  CellsStep
    <2>. SUFFICES ASSUME NEW u \in Users, NEW a \in Articles
                  PROVE  CellStep(u, a)
      BY DEF CellsStep
    <2>1. dedupe \in [Users -> [Articles -> Row]]
      BY DEF WellFormed, TypeOK
    <2>2. CASE u = att[w].user /\ a \in att[w].got
      <3>1. dedupe'[u][a].status = "absent"
        BY <1>3, <2>1, <2>2 DEF NoRow
      <3>2. OwnRow(w, u, a)
        BY <1>3, <2>2 DEF OwnsRows, OwnRow, Reserved
      <3>3. sent[u][a] = 0
        BY <1>1, <2>2, <3>2 DEF Safe, PreparedIsUnsent, Preparing
      <3>. QED
        BY <1>1, <3>1, <3>2, <3>3 DEF CellStep, OwnRow, Reserved
    <2>3. CASE ~(u = att[w].user /\ a \in att[w].got)
      <3>1. dedupe'[u][a] = dedupe[u][a]
        BY <1>3, <2>1, <2>3
      <3>. QED
        BY <1>1, <3>1 DEF CellStep
    <2>. QED
      BY <2>2, <2>3
  <1>. QED
    BY <1>2, <1>3 DEF Release

\* PushPlus delivers under a reservation or a doubt, and for the first time.
LEMMA SendCells ==
  ASSUME WellFormed, Safe, NEW w \in Workers, Send(w)
  PROVE  CellsStep
  <1> SUFFICES ASSUME NEW u \in Users, NEW a \in Articles
               PROVE  CellStep(u, a)
    BY DEF CellsStep
  <1>1. UNCHANGED dedupe /\ pc[w] = "send"
    BY DEF Send
  <1>2. sent \in [Users -> [Articles -> Nat]] /\ Workflow = "notify"
    BY <1>1 DEF WellFormed, TypeOK, AttemptShape
  <1>3. \/ sent'[u][a] = sent[u][a]
        \/ u = att[w].user /\ a \in att[w].sel /\ sent'[u][a] = sent[u][a] + 1
    BY <1>2 DEF Send
  <1>4. CASE u = att[w].user /\ a \in att[w].sel /\ sent'[u][a] = sent[u][a] + 1
    <2>1. /\ sent[u][a] = 0
          /\ dedupe[u][a].status \in {"reserved", "unknown"}
      BY <1>1, <1>4 DEF Safe, SendIsFirst, OwnRow, Reserved
    <2>. QED
      BY <1>1, <1>2, <1>4, <2>1 DEF CellStep
  <1>. QED
    BY <1>1, <1>3, <1>4 DEF CellStep

\* FinalizeAttempt confirms what was delivered and doubts the rest.
LEMMA ResolveCells ==
  ASSUME WellFormed, Safe, NEW w \in Workers, Resolve(w)
  PROVE  CellsStep
  <1>1. UNCHANGED sent /\ pc[w] = "resolve"
    BY DEF Resolve
  <1>2. CASE UNCHANGED dedupe
    BY <1>1, <1>2, Untouched
  <1> DEFINE status == IF att[w].ok THEN "confirmed" ELSE "unknown"
  <1>3. ASSUME OwnsRows(w),
               dedupe' = [dedupe EXCEPT ![att[w].user] = [a \in Articles |->
                            IF a \in att[w].got THEN Resolved(@[a], status, clock)
                            ELSE @[a]]]
        PROVE  CellsStep
    <2>. SUFFICES ASSUME NEW u \in Users, NEW a \in Articles
                  PROVE  CellStep(u, a)
      BY DEF CellsStep
    <2>1. dedupe \in [Users -> [Articles -> Row]]
      BY DEF WellFormed, TypeOK
    <2>2. CASE u = att[w].user /\ a \in att[w].got
      <3>1. dedupe'[u][a].status = status
        BY <1>3, <2>1, <2>2, WrittenRow
      <3>2. OwnRow(w, u, a)
        BY <1>3, <2>2 DEF OwnsRows, OwnRow, Reserved
      <3>3. att[w].ok /\ Workflow = "notify" => sent[u][a] = 1
        BY <1>1, <2>2, <3>2 DEF Safe, SuccessIsDelivered
      <3>. QED
        BY <1>1, <3>1, <3>2, <3>3 DEF CellStep, OwnRow, Reserved
    <2>3. CASE ~(u = att[w].user /\ a \in att[w].got)
      <3>1. dedupe'[u][a] = dedupe[u][a]
        BY <1>3, <2>1, <2>3
      <3>. QED
        BY <1>1, <3>1 DEF CellStep
    <2>. QED
      BY <2>2, <2>3
  <1>. QED
    BY <1>2, <1>3 DEF Resolve

\* No other repository call touches the dedupe table.
LEMMA StepCells ==
  ASSUME WellFormed, Safe, NEW w \in Workers, Step(w)
  PROVE  CellsStep
  <1>1. CASE Reconcile(w) \/ FailReconcile(w)
    <2>1. UNCHANGED sent /\ pc[w] \notin Lost
      BY <1>1 DEF Reconcile, FailReconcile, Lost
    <2>2. job[w].run \in RunIds
      BY <2>1 DEF WellFormed, InvocationShape
    <2>3. Quarantine(job[w].run) \/ UNCHANGED dedupe
      BY <1>1 DEF Reconcile, FailReconcile
    <2>. QED
      BY <2>1, <2>2, <2>3, QuarantineCells, Untouched
  <1>2. CASE Cleanup(w) \/ Reserve(w) \/ Release(w) \/ Send(w) \/ Resolve(w)
    BY <1>2, CleanupCells, ReserveCells, ReleaseCells, SendCells, ResolveCells
  <1>3. CASE \/ Claim(w) \/ Yield(w) \/ Takeover(w) \/ Refuse(w) \/ AcquireLease(w)
             \/ LoadCheckpoint(w) \/ StartRun(w) \/ ReadIndex(w) \/ PersistInput(w)
             \/ \E u \in Users \union {None} : RenewRun(w, u)
    BY <1>3, Untouched
       DEF Claim, Yield, Takeover, Refuse, AcquireLease, LoadCheckpoint,
           StartRun, ReadIndex, PersistInput, RenewRun
  <1>4. CASE \/ RenewLease(w) \/ ListSubscribers(w) \/ ScanDedupe(w)
             \/ ClaimItem(w) \/ Select(w) \/ WriteFavorites(w) \/ FinishItem(w)
             \/ MarkSending(w) \/ Finish(w) \/ FailFinal(w) \/ FailRun(w)
             \/ FailRelease(w)
    BY <1>4, Untouched
       DEF RenewLease, ListSubscribers, ScanDedupe, ClaimItem, Select,
           WriteFavorites, FinishItem, MarkSending, Finish, FailFinal, FailRun,
           FailRelease
  <1>. QED
    BY <1>1, <1>2, <1>3, <1>4 DEF Step

\* Every step of the system is a step of the contract.
LEMMA NextCells == WellFormed /\ Safe /\ [Next]_vars => CellsStep
  <1> SUFFICES ASSUME WellFormed, Safe, [Next]_vars PROVE CellsStep
    OBVIOUS
  <1>1. ASSUME NEW w \in Workers, Admit(w) \/ ControlStop(w) \/ StorageError(w) \/ Crash(w)
        PROVE  CellsStep
    BY <1>1, Untouched DEF Admit, ControlStop, StorageError, Crash
  <1>2. CASE Tick \/ (\E a \in Articles : IndexArticle(a)) \/ UNCHANGED vars
    BY <1>2, Untouched DEF Tick, IndexArticle, vars
  <1>. QED
    BY <1>1, <1>2, StepCells DEF Next

\* Durable delivery implements its contract: a reservation is dropped only
\* while nothing was sent, a delivery happens once and under a protecting row,
\* doubt is never undone and only retention forgets.
THEOREM DeliveryImplementsContract == Spec => KeepsContract
  <1>1. Init => Contract!CInit
    BY DEF Init, Contract!CInit, NoRow
  <1>2. WellFormed /\ Safe /\ [Next]_vars => [Contract!CNext]_(Contract!cvars)
    BY NextCells, CellsMakeContract
  <1>3. DeliveryInv <=> WellFormed /\ Safe
    BY DeliveryInvParts
  <1>. QED
    BY <1>1, <1>2, <1>3, DeliveryIsSafe, PTL DEF Spec, KeepsContract, Contract!CSpec

=============================================================================
