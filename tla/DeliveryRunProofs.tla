-------------------------- MODULE DeliveryRunProofs --------------------------
(***************************************************************************)
(* The runs of a scope and the invocations that work on them: one run is   *)
(* active, the folder is written before the message, reports say what the  *)
(* table says, no name is left behind, and the checkpoint only grows.      *)
(***************************************************************************)
EXTENDS DeliveryTypeProofs, FiniteSetTheorems

\* Two active runs are the same run: inductive, and what OneActiveRun counts
ActiveIsUnique ==
    \A q, r \in RunIds :
        run[q].status \in Active /\ run[r].status \in Active => q = r

\* A step that activates no run keeps the active run unique.
LEMMA NothingActivated ==
  ASSUME ActiveIsUnique,
         \A r \in RunIds : run'[r].status \in Active => run[r].status \in Active
  PROVE  ActiveIsUnique'
  BY DEF ActiveIsUnique

\* Ending a run activates none.
LEMMA EndingActivatesNothing ==
  ASSUME run \in [RunIds -> RunRow], ActiveIsUnique, NEW r \in RunIds,
         NEW status \in Terminal, run' = [run EXCEPT ![r] = Ended(@, status)]
  PROVE  ActiveIsUnique'
  <1>1. Ended(run[r], status).status = status
    BY DEF Ended, RunRow
  <1>2. \A q \in RunIds : run'[q].status \in Active => run[q].status \in Active
    BY <1>1 DEF Active, Terminal
  <1>. QED
    BY <1>2, NothingActivated

\* ClaimRun takes a run only when no other is active.
LEMMA TakingIsExclusive ==
  ASSUME run \in [RunIds -> RunRow], NEW r \in RunIds, NEW w \in Workers, NEW took,
         Rivals(r) = {}, TakeRun(w, r, took)
  PROVE  ActiveIsUnique'
  <1>1. \A q \in RunIds \ {r} : run'[q] = run[q] /\ run[q].status \notin Active
    BY DEF TakeRun, Rivals
  <1>. QED
    BY <1>1 DEF ActiveIsUnique

\* Every step keeps the active run unique.
LEMMA NextKeepsActiveUnique ==
  ASSUME WellFormed, ActiveIsUnique, [Next]_vars
  PROVE  ActiveIsUnique'
  <1>0. run \in [RunIds -> RunRow]
    BY DEF WellFormed, TypeOK
  <1>1. ASSUME NEW w \in Workers, Step(w)
        PROVE  ActiveIsUnique'
    <2>0. /\ pc[w] \notin Lost => job[w].run \in RunIds
          /\ pc[w] \in {"yield", "takeover"} => job[w].rival \in RunIds
          /\ pc[w] \in {"failFinal", "failRun"} => job[w].end \in Terminal
      BY DEF WellFormed, InvocationShape, Terminal
    <2>1. CASE Claim(w)
      <3>1. job[w].run \in RunIds
        BY <2>0, <2>1 DEF Claim, Lost
      <3>2. UNCHANGED run \/ (Rivals(job[w].run) = {} /\ TakeRun(w, job[w].run, FALSE))
        BY <2>1 DEF Claim, MeetRival
      <3>. QED
        BY <1>0, <3>1, <3>2, NothingActivated, TakingIsExclusive
    <2>2. CASE Takeover(w)
      <3>1. job[w].rival \in RunIds
        BY <2>0, <2>2 DEF Takeover
      <3>2. UNCHANGED run \/ (Rivals(job[w].rival) = {} /\ TakeRun(w, job[w].rival, TRUE))
        BY <2>2 DEF Takeover
      <3>. QED
        BY <1>0, <3>1, <3>2, NothingActivated, TakingIsExclusive
    <2>3. CASE Yield(w) \/ Refuse(w) \/ FailRun(w)
      <3>1. job[w].run \in RunIds
        BY <2>0, <2>3 DEF Yield, Refuse, FailRun, Lost, Refusing
      <3>2. \/ UNCHANGED run
            \/ \E status \in Terminal : run' = [run EXCEPT ![job[w].run] = Ended(@, status)]
        <4>1. CASE Yield(w) \/ Refuse(w)
          BY <4>1 DEF Yield, Refuse, Terminal
        <4>2. CASE FailRun(w)
          BY <2>0, <4>2 DEF FailRun
        <4>. QED
          BY <2>3, <4>1, <4>2
      <3>. QED
        BY <1>0, <3>1, <3>2, NothingActivated, EndingActivatesNothing
    <2>4. CASE Finish(w) \/ FailFinal(w)
      <3>1. job[w].run \in RunIds
        BY <2>0, <2>4 DEF Finish, FailFinal, Lost
      <3>2. \/ UNCHANGED run
            \/ \E status \in Terminal : run' = [run EXCEPT ![job[w].run] = Ended(@, status)]
        <4>1. CASE Finish(w)
          <5>1. Outcome(w)[1] \in Terminal
            BY DEF Outcome, Terminal
          <5>. QED
            BY <4>1, <5>1 DEF Finish, FinalizeRun
        <4>2. CASE FailFinal(w)
          BY <2>0, <4>2 DEF FailFinal, FinalizeRun
        <4>. QED
          BY <2>4, <4>1, <4>2
      <3>. QED
        BY <1>0, <3>1, <3>2, NothingActivated, EndingActivatesNothing
    <2>5. CASE StartRun(w) \/ \E u \in Users \union {None} : RenewRun(w, u)
      <3>1. job[w].run \in RunIds
        BY <2>0, <2>5 DEF StartRun, RenewRun, Lost
      <3>2. \/ UNCHANGED run
            \/ /\ run[job[w].run].status \in Active
               /\ \/ run' = [run EXCEPT ![job[w].run] = Moved(@, "running")]
                  \/ run' = [run EXCEPT ![job[w].run] = Renewed(@, clock)]
        BY <2>5 DEF StartRun, RenewRun, OwnsLive, Owns
      <3>3. \A q \in RunIds : run'[q].status \in Active => run[q].status \in Active
        BY <1>0, <3>1, <3>2
      <3>. QED
        BY <3>3, NothingActivated
    <2>6. CASE UNCHANGED run
      BY <2>6, NothingActivated
    <2>7. \/ Claim(w) \/ Takeover(w) \/ Yield(w) \/ Refuse(w) \/ FailRun(w)
          \/ Finish(w) \/ FailFinal(w) \/ StartRun(w)
          \/ (\E u \in Users \union {None} : RenewRun(w, u)) \/ UNCHANGED run
      BY <1>1
         DEF Step, AcquireLease, LoadCheckpoint, Reconcile, Cleanup, ReadIndex,
             PersistInput, RenewLease, ListSubscribers, ScanDedupe, ClaimItem,
             Select, Reserve, WriteFavorites, Release, FinishItem, MarkSending,
             Send, Resolve, FailReconcile, FailRelease
    <2>. QED
      BY <2>1, <2>2, <2>3, <2>4, <2>5, <2>6, <2>7
  <1>2. ASSUME NEW w \in Workers, Admit(w)
        PROVE  ActiveIsUnique'
    <2>1. PICK i \in Invocations :
            run' = IF run[i.ext].status = "absent"
                   THEN [run EXCEPT ![i.ext] =
                          [NoRun EXCEPT !.status = "queued", !.mode = i.mode,
                                        !.target = i.target]]
                   ELSE run
      BY <1>2 DEF Admit
    <2>2. [NoRun EXCEPT !.status = "queued", !.mode = i.mode,
                        !.target = i.target].status = "queued"
      BY DEF NoRun
    <2>3. \A q \in RunIds : run'[q].status \in Active => run[q].status \in Active
      BY <1>0, <2>1, <2>2 DEF Active
    <2>. QED
      BY <2>3, NothingActivated
  <1>3. ASSUME NEW w \in Workers, ControlStop(w) \/ StorageError(w) \/ Crash(w)
        PROVE  ActiveIsUnique'
    BY <1>3, NothingActivated DEF ControlStop, StorageError, Crash
  <1>4. CASE Tick \/ (\E a \in Articles : IndexArticle(a)) \/ UNCHANGED vars
    BY <1>4, NothingActivated DEF Tick, IndexArticle, vars
  <1>. QED
    BY <1>1, <1>2, <1>3, <1>4 DEF Next

\* A unique active run is at most one active run.
LEMMA UniqueIsOne == ActiveIsUnique => OneActiveRun
  <1> DEFINE A == {r \in RunIds : run[r].status \in Active}
  <1> SUFFICES ASSUME ActiveIsUnique PROVE Cardinality(A) <= 1
    BY DEF OneActiveRun
  <1>1. CASE A = {}
    BY <1>1, FS_EmptySet
  <1>2. ASSUME NEW r \in A
        PROVE  Cardinality(A) <= 1
    <2>1. A = {r}
      BY <1>2 DEF ActiveIsUnique
    <2>2. Cardinality({r}) = 1
      BY FS_Singleton
    <2>. QED
      BY <2>1, <2>2
  <1>. QED
    BY <1>1, <1>2

\* Whatever invocations admit, withdraw, take over and end in separate
\* transactions, at most one run of the scope is being executed.
THEOREM OnlyOneActiveRun == Spec => []OneActiveRun
  <1>1. Init => ActiveIsUnique
    BY DEF Init, ActiveIsUnique, NoRun, Active
  <1>2. WellFormed /\ ActiveIsUnique /\ [Next]_vars => ActiveIsUnique'
    BY NextKeepsActiveUnique
  <1>. QED
    BY <1>1, <1>2, AlwaysWellFormed, UniqueIsOne, PTL DEF Spec

----------------------------------------------------------------------------
\* One worker moves at a time

\* What a worker does, at its own pace or not
Act(w) == Admit(w) \/ Step(w) \/ ControlStop(w) \/ StorageError(w) \/ Crash(w)

\* The memories of the other workers
OthersRest(w) ==
    \A v \in Workers \ {w} : pc'[v] = pc[v] /\ job'[v] = job[v] /\ att'[v] = att[v]

\* Whatever a worker does, it changes no memory but its own.
LEMMA OnlyOneMoves ==
  ASSUME WellFormed, NEW w \in Workers, Act(w)
  PROVE  OthersRest(w)
  <1>0. Memory
    BY WellFormedParts
  <1>1. CASE Admit(w) \/ Claim(w) \/ Yield(w) \/ Takeover(w) \/ Refuse(w) \/ AcquireLease(w)
    BY <1>0, <1>1 DEF Admit, Claim, MeetRival, TakeRun, Yield, Takeover, Refuse, AcquireLease,
                      Leave, Goto, Memory, OthersRest
  <1>2. CASE LoadCheckpoint(w) \/ Reconcile(w) \/ StartRun(w) \/ Cleanup(w) \/ ReadIndex(w)
              \/ PersistInput(w) \/ \E u \in Users \union {None} : RenewRun(w, u)
    BY <1>0, <1>2 DEF LoadCheckpoint, Reconcile, StartRun, Cleanup, ReadIndex, PersistInput,
                      RenewRun, Fail, Goto, Memory, OthersRest
  <1>3. CASE RenewLease(w) \/ ListSubscribers(w) \/ ScanDedupe(w) \/ ClaimItem(w) \/ Select(w)
              \/ Reserve(w) \/ WriteFavorites(w)
    BY <1>0, <1>3 DEF RenewLease, ListSubscribers, ScanDedupe, ClaimItem, Select, Reserve,
                      WriteFavorites, Settle, Fail, Goto, Memory, OthersRest
  <1>4. CASE Release(w) \/ FinishItem(w) \/ MarkSending(w) \/ Send(w) \/ Resolve(w) \/ Finish(w)
    BY <1>0, <1>4 DEF Release, FinishItem, MarkSending, Send, Resolve, Finish, Settle, Fail,
                      Leave, Goto, Memory, OthersRest
  <1>5. CASE FailReconcile(w) \/ FailFinal(w) \/ FailRun(w) \/ FailRelease(w)
    BY <1>0, <1>5 DEF FailReconcile, FailFinal, FailRun, FailRelease, Leave, Goto, Memory,
                      OthersRest
  <1>6. CASE ControlStop(w) \/ StorageError(w) \/ Crash(w)
    BY <1>0, <1>6 DEF ControlStop, StorageError, Crash, Fail, Leave, Goto, Memory, OthersRest
  <1>. QED
    BY <1>1, <1>2, <1>3, <1>4, <1>5, <1>6 DEF Act, Step

\* A step of the world around moves no worker and writes no table of the runs.
LEMMA WorldSteps ==
  ASSUME Tick \/ (\E a \in Articles : IndexArticle(a)) \/ UNCHANGED vars
  PROVE  UNCHANGED <<run, lease, item, input, dedupe, ckpt, fav, faults, sent, pc, job, att>>
  BY DEF Tick, IndexArticle, vars

----------------------------------------------------------------------------
\* A favourite before its message

Delivering == {"mark", "send", "resolve"}

\* what a worker is about to announce or confirm is in the folder
FolderIsAhead ==
    \A w \in Workers :
        (pc[w] \in Delivering /\ (Workflow = "push" \/ att[w].user \in SyncUsers))
            => att[w].sel \subseteq fav[att[w].user]

\* A worker comes to a message only past the folder.
LEMMA DeliveringSteps ==
  ASSUME WellFormed, NEW w \in Workers, Act(w), pc'[w] \in Delivering
  PROVE  WriteFavorites(w) \/ MarkSending(w) \/ Send(w)
  <1>0. Memory
    BY WellFormedParts
  <1>1. CASE Admit(w) \/ Claim(w) \/ Yield(w) \/ Takeover(w) \/ Refuse(w) \/ AcquireLease(w)
    BY <1>0, <1>1 DEF Admit, Claim, MeetRival, TakeRun, Yield, Takeover, Refuse, AcquireLease,
                      Leave, Goto, Memory, Delivering
  <1>2. CASE LoadCheckpoint(w) \/ Reconcile(w) \/ StartRun(w) \/ Cleanup(w) \/ ReadIndex(w)
              \/ PersistInput(w) \/ \E u \in Users \union {None} : RenewRun(w, u)
    BY <1>0, <1>2 DEF LoadCheckpoint, Reconcile, StartRun, Cleanup, ReadIndex, PersistInput,
                      RenewRun, Fail, Goto, Memory, Delivering
  <1>3. CASE RenewLease(w) \/ ListSubscribers(w) \/ ScanDedupe(w) \/ ClaimItem(w) \/ Select(w)
              \/ Reserve(w)
    BY <1>0, <1>3 DEF RenewLease, ListSubscribers, ScanDedupe, ClaimItem, Select, Reserve,
                      Settle, Fail, Goto, Memory, Delivering
  <1>4. CASE Release(w) \/ FinishItem(w) \/ Resolve(w) \/ Finish(w)
    BY <1>0, <1>4 DEF Release, FinishItem, Resolve, Finish, Settle, Fail,
                      Leave, Goto, Memory, Delivering
  <1>5. CASE FailReconcile(w) \/ FailFinal(w) \/ FailRun(w) \/ FailRelease(w)
    BY <1>0, <1>5 DEF FailReconcile, FailFinal, FailRun, FailRelease, Leave, Goto, Memory,
                      Delivering
  <1>6. CASE ControlStop(w) \/ StorageError(w) \/ Crash(w)
    BY <1>0, <1>6 DEF ControlStop, StorageError, Crash, NextFailing, Failing, Fail, Leave, Goto,
                      Memory, Delivering
  <1>. QED
    BY <1>1, <1>2, <1>3, <1>4, <1>5, <1>6 DEF Act, Step

\* A step keeps the folder ahead when it takes nothing out of it and moves
\* nobody towards a message.
LEMMA FolderStaysAhead ==
  ASSUME FolderIsAhead, NEW w \in Workers, OthersRest(w),
         \A u \in Users : fav[u] \subseteq fav'[u],
         WellFormed,
         \/ pc'[w] \notin Delivering
         \/ pc[w] \in Delivering /\ att'[w].user = att[w].user /\ att'[w].sel = att[w].sel
  PROVE  FolderIsAhead'
  <1> SUFFICES ASSUME NEW v \in Workers, pc'[v] \in Delivering,
                      Workflow = "push" \/ att'[v].user \in SyncUsers
               PROVE  att'[v].sel \subseteq fav'[att'[v].user]
    BY DEF FolderIsAhead
  <1>1. pc[v] \in Delivering /\ att'[v].user = att[v].user /\ att'[v].sel = att[v].sel
    BY DEF OthersRest
  <1>2. att[v].user \in Users
    BY <1>1, WellFormedParts, MemoryPointwise DEF MemoryAt, Delivering, Attempting, Preparing
  <1>. QED
    BY <1>1, <1>2 DEF FolderIsAhead

\* Nothing leaves a folder, nothing is confirmed but by Resolve, and nothing
\* sent but by Send.
LEMMA FolderTables ==
  ASSUME WellFormed, NEW w \in Workers, Act(w)
  PROVE  /\ \A u \in Users : fav[u] \subseteq fav'[u]
         /\ ~Resolve(w) => \A u \in Users, a \in Articles :
                dedupe'[u][a].status = "confirmed" => dedupe[u][a].status = "confirmed"
         /\ ~Send(w) => \A u \in Users, a \in Articles : sent'[u][a] > 0 => sent[u][a] > 0
  <1>0. Tables
    BY WellFormedParts
  <1>1. CASE WriteFavorites(w)
    BY <1>0, <1>1 DEF WriteFavorites, Tables
  <1>2. CASE Reconcile(w) \/ FailReconcile(w)
    <2>1. UNCHANGED <<fav, sent>>
      BY <1>2 DEF Reconcile, FailReconcile
    <2>2. UNCHANGED dedupe \/ Quarantine(job[w].run)
      BY <1>2 DEF Reconcile, FailReconcile
    <2>3. ASSUME NEW u \in Users, NEW a \in Articles, dedupe'[u][a].status = "confirmed"
          PROVE  dedupe[u][a].status = "confirmed"
      <3>1. dedupe'[u][a] \in {dedupe[u][a], Doubted(dedupe[u][a]), NoRow}
        BY <2>2 DEF Quarantine
      <3>2. Doubted(dedupe[u][a]).status = "unknown" /\ NoRow.status = "absent"
        BY <1>0 DEF Doubted, NoRow, Tables, Row
      <3>. QED
        BY <2>3, <3>1, <3>2
    <2>. QED
      BY <2>1, <2>3
  <1>3. CASE Cleanup(w)
    <2>1. UNCHANGED fav
      BY <1>3 DEF Cleanup
    <2>2. ASSUME NEW u \in Users, NEW a \in Articles
          PROVE  /\ dedupe'[u][a].status = "confirmed" => dedupe[u][a].status = "confirmed"
                 /\ sent'[u][a] > 0 => sent[u][a] > 0
      BY <1>0, <1>3 DEF Cleanup, NoRow, Tables
    <2>. QED
      BY <2>1, <2>2
  <1>4. CASE Reserve(w) \/ Release(w)
    <2>1. UNCHANGED <<fav, sent>>
      BY <1>4 DEF Reserve, Release
    <2>2. ASSUME NEW u \in Users, NEW a \in Articles, dedupe'[u][a].status = "confirmed"
          PROVE  dedupe[u][a].status = "confirmed"
      <3>1. \/ dedupe'[u][a] \in {dedupe[u][a], NoRow}
            \/ dedupe'[u][a].status = "reserved"
        <4>1. CASE Reserve(w)
          <5>1. \/ UNCHANGED dedupe
                \/ \E v \in Users, b \in Articles : dedupe' = [dedupe EXCEPT ![v][b] =
                     [status |-> "reserved", owner |-> w, run |-> job[w].run, at |-> 0]]
            <6>1. pc[w] = "reserve" /\ att[w].user \in Users /\ att[w].sel \subseteq Articles
              BY <1>0, <4>1, WellFormedParts, MemoryPointwise
                 DEF Reserve, MemoryAt, Attempting, Preparing, Attempt
            <6>. QED
              BY <4>1, <6>1 DEF Reserve
          <5>2. CASE UNCHANGED dedupe
            BY <5>2
          <5>3. ASSUME NEW v \in Users, NEW b \in Articles, dedupe' = [dedupe EXCEPT ![v][b] =
                     [status |-> "reserved", owner |-> w, run |-> job[w].run, at |-> 0]]
                PROVE  dedupe'[u][a] = dedupe[u][a] \/ dedupe'[u][a].status = "reserved"
            <6>1. dedupe \in [Users -> [Articles -> Row]]
              BY <1>0 DEF Tables
            <6>2. CASE u = v /\ a = b
              BY <5>3, <6>1, <6>2
            <6>3. CASE ~(u = v /\ a = b)
              BY <5>3, <6>1, <6>3
            <6>. QED
              BY <6>2, <6>3
          <5>. QED
            BY <5>1, <5>2, <5>3
        <4>2. CASE Release(w)
          BY <1>0, <4>2 DEF Release, Tables
        <4>. QED
          BY <1>4, <4>1, <4>2
      <3>. QED
        BY <2>2, <3>1 DEF NoRow
    <2>. QED
      BY <2>1, <2>2
  <1>5. CASE Send(w)
    BY <1>5 DEF Send
  <1>6. CASE Resolve(w)
    BY <1>6 DEF Resolve
  <1>7. CASE UNCHANGED <<fav, dedupe, sent>>
    BY <1>7
  <1>8. \/ WriteFavorites(w) \/ Reconcile(w) \/ FailReconcile(w) \/ Cleanup(w) \/ Reserve(w)
        \/ Release(w) \/ Send(w) \/ Resolve(w) \/ UNCHANGED <<fav, dedupe, sent>>
    BY DEF Act, Step, Admit, Claim, Yield, Takeover, Refuse, AcquireLease, LoadCheckpoint,
           StartRun, ReadIndex, PersistInput, RenewRun, RenewLease, ListSubscribers, ScanDedupe,
           ClaimItem, Select, FinishItem, MarkSending, Finish, FailFinal, FailRun, FailRelease,
           ControlStop, StorageError, Crash
  <1>. QED
    BY <1>1, <1>2, <1>3, <1>4, <1>5, <1>6, <1>7, <1>8

\* Every step keeps the folder ahead of what is announced and confirmed.
LEMMA NextKeepsFolderFirst ==
  ASSUME WellFormed, FolderIsAhead, FolderFirst, [Next]_vars
  PROVE  (FolderIsAhead /\ FolderFirst)'
  <1>0. Tables /\ Memory
    BY WellFormedParts
  <1>1. ASSUME NEW w \in Workers, Act(w)
        PROVE  (FolderIsAhead /\ FolderFirst)'
    <2>0. OthersRest(w) /\ \A u \in Users : fav[u] \subseteq fav'[u]
      BY <1>1, OnlyOneMoves, FolderTables
    <2>a. ASSUME pc[w] \in {"favorites", "mark", "send", "resolve"}
          PROVE  /\ att[w].user \in Users /\ att[w].got = att[w].sel
                 /\ att[w].sel \subseteq Articles /\ att[w] \in Attempt
                 /\ pc[w] \in {"mark", "send"} => Workflow = "notify"
      BY <1>0, <2>a, MemoryPointwise DEF MemoryAt, Attempting, Preparing, Attempt
    <2>1. FolderIsAhead'
      <3>1. CASE WriteFavorites(w)
        <4>0. pc[w] = "favorites" /\ att[w].user \in Users /\ att[w] \in Attempt
          BY <2>a, <3>1 DEF WriteFavorites
        <4>1. ASSUME pc'[w] \in Delivering
              PROVE  /\ Workflow = "push" \/ att[w].user \in SyncUsers =>
                            att[w].sel \subseteq fav'[att[w].user]
                     /\ att'[w].user = att[w].user /\ att'[w].sel = att[w].sel
          <5>1. CASE pc'[w] = "release"
            BY <4>1, <5>1 DEF Delivering
          <5>2. CASE /\ fav' = [fav EXCEPT ![att[w].user] = @ \union
                            (IF Workflow = "push" \/ att[w].user \in SyncUsers
                             THEN att[w].sel ELSE {})]
                     /\ att' = [att EXCEPT ![w].ok = Workflow = "push"]
            <6>1. att'[w] = [att[w] EXCEPT !.ok = Workflow = "push"]
              BY <1>0, <5>2 DEF Memory
            <6>2. att'[w].user = att[w].user /\ att'[w].sel = att[w].sel
              BY <4>0, <6>1 DEF Attempt
            <6>3. Workflow = "push" \/ att[w].user \in SyncUsers =>
                      att[w].sel \subseteq fav'[att[w].user]
              BY <1>0, <4>0, <5>2 DEF Tables
            <6>. QED
              BY <6>2, <6>3
          <5>. QED
            BY <1>0, <3>1, <5>1, <5>2 DEF WriteFavorites, Goto, Memory
        <4>2. CASE pc'[w] \notin Delivering
          BY <2>0, <4>2, FolderStaysAhead
        <4>3. CASE pc'[w] \in Delivering
          <5> SUFFICES ASSUME NEW v \in Workers, pc'[v] \in Delivering,
                              Workflow = "push" \/ att'[v].user \in SyncUsers
                       PROVE  att'[v].sel \subseteq fav'[att'[v].user]
            BY DEF FolderIsAhead
          <5>1. CASE v = w
            BY <4>1, <4>3, <5>1
          <5>2. CASE v # w
            <6>1. pc[v] \in Delivering /\ att'[v] = att[v]
              BY <2>0, <5>2 DEF OthersRest
            <6>2. att[v].user \in Users
              BY <1>0, <6>1, MemoryPointwise DEF MemoryAt, Delivering, Attempting, Preparing
            <6>. QED
              BY <2>0, <6>1, <6>2 DEF FolderIsAhead
          <5>. QED
            BY <5>1, <5>2
        <4>. QED
          BY <4>2, <4>3
      <3>2. CASE MarkSending(w) \/ Send(w)
        <4>1. \/ pc'[w] \notin Delivering
              \/ pc[w] \in Delivering /\ att'[w].user = att[w].user /\ att'[w].sel = att[w].sel
          <5>1. pc[w] \in {"mark", "send"} /\ att[w] \in Attempt
            BY <2>a, <3>2 DEF MarkSending, Send
          <5>2. \/ pc'[w] = "failReconcile"
                \/ att' = [att EXCEPT ![w].rev = @ + 1]
                \/ \E ok \in BOOLEAN : att' = [att EXCEPT ![w].ok = ok]
            BY <1>0, <3>2 DEF MarkSending, Send, Goto, Fail, Memory
          <5>. QED
            BY <1>0, <5>1, <5>2 DEF Delivering, Memory, Attempt
        <4>. QED
          BY <2>0, <4>1, FolderStaysAhead
      <3>3. CASE pc'[w] \notin Delivering
        BY <2>0, <3>3, FolderStaysAhead
      <3>. QED
        BY <1>1, <3>1, <3>2, <3>3, DeliveringSteps
    <2>2. FolderFirst'
      <3> SUFFICES ASSUME NEW u \in Users, NEW a \in Articles,
                          \/ Workflow = "push" /\ dedupe'[u][a].status = "confirmed"
                          \/ u \in SyncUsers /\ sent'[u][a] > 0
                   PROVE  a \in fav'[u]
        BY DEF FolderFirst
      <3>1. CASE /\ dedupe'[u][a].status = "confirmed" => dedupe[u][a].status = "confirmed"
                 /\ sent'[u][a] > 0 => sent[u][a] > 0
        BY <2>0, <3>1 DEF FolderFirst
      <3>2. CASE Resolve(w)
        <4>1. pc[w] = "resolve" /\ UNCHANGED <<sent, fav>>
          BY <3>2 DEF Resolve
        <4>2. CASE dedupe'[u][a] = dedupe[u][a]
          BY <3>1, <4>1, <4>2
        <4>3. CASE dedupe'[u][a] # dedupe[u][a]
          <5>1. u = att[w].user /\ a \in att[w].got
            BY <1>0, <2>a, <3>2, <4>1, <4>3 DEF Resolve, Tables
          <5>. QED
            BY <2>a, <3>1, <4>1, <5>1 DEF FolderIsAhead, FolderFirst, Delivering
        <4>. QED
          BY <4>2, <4>3
      <3>3. CASE Send(w)
        <4>1. pc[w] = "send" /\ Workflow = "notify" /\ UNCHANGED <<dedupe, fav>>
          BY <2>a, <3>3 DEF Send
        <4>2. CASE sent'[u][a] = sent[u][a]
          BY <3>1, <4>1, <4>2
        <4>3. CASE sent'[u][a] # sent[u][a]
          <5>1. u = att[w].user /\ a \in att[w].sel
            BY <1>0, <2>a, <3>3, <4>1, <4>3 DEF Send, Tables
          <5>. QED
            BY <2>a, <3>1, <4>1, <5>1 DEF FolderIsAhead, FolderFirst, Delivering
        <4>. QED
          BY <4>2, <4>3
      <3>. QED
        BY <1>1, <3>1, <3>2, <3>3, FolderTables
    <2>. QED
      BY <2>1, <2>2
  <1>2. CASE Tick \/ (\E a \in Articles : IndexArticle(a)) \/ UNCHANGED vars
    BY <1>2, WorldSteps DEF FolderIsAhead, FolderFirst
  <1>. QED
    BY <1>1, <1>2 DEF Next, Act

\* Under any interleaving, crash and storage error, a subscriber's folder has
\* an article before a message announces it or a push confirms it.
THEOREM FolderBeforeMessage == Spec => []FolderFirst
  <1>1. Init => FolderIsAhead /\ FolderFirst
    BY DEF Init, FolderIsAhead, FolderFirst, Delivering, NoRow
  <1>2. WellFormed /\ FolderIsAhead /\ FolderFirst /\ [Next]_vars => (FolderIsAhead /\ FolderFirst)'
    BY NextKeepsFolderFirst
  <1>. QED
    BY <1>1, <1>2, AlwaysWellFormed, PTL DEF Spec

----------------------------------------------------------------------------
\* What is reported is what the table says

\* what a worker read of finished items before its loop still holds
SeenIsDurable ==
    \A w \in Workers, u \in Users :
        job[w].seen[u] \in ItemDone => item[job[w].run][u].status = job[w].seen[u]

\* A row that is written over shows its status.
LEMMA WrittenStatus ==
  ASSUME NEW row \in ItemRow
  PROVE  /\ \A status : Ended(row, status).status = status
         /\ \A w, t : Taken(row, w, t).status = "claimed"
         /\ \A status : Moved(row, status).status = status
  BY DEF Ended, Taken, Moved, ItemRow

\* A finished item keeps its status for good.
LEMMA DoneItemsStay ==
  ASSUME WellFormed, NEW w \in Workers, Act(w), NEW r \in RunIds, NEW u \in Users,
         item[r][u].status \in ItemDone
  PROVE  item'[r][u].status = item[r][u].status
  <1>0. Tables /\ item[r][u] \in ItemRow
    BY WellFormedParts DEF Tables
  <1>1. CASE UNCHANGED item
    BY <1>1
  <1>2. CASE Reconcile(w) \/ FailReconcile(w)
    <2>1. UNCHANGED item \/ Quarantine(job[w].run)
      BY <1>2 DEF Reconcile, FailReconcile
    <2>2. CASE Quarantine(job[w].run)
      BY <1>0, <2>2 DEF Quarantine, ItemDone, Tables
    <2>. QED
      BY <2>1, <2>2
  <1>3. CASE ListSubscribers(w)
    BY <1>0, <1>3 DEF ListSubscribers, ItemDone, Tables
  <1>4. CASE ClaimItem(w) \/ FinishItem(w) \/ MarkSending(w) \/ Resolve(w)
    <2>1. job[w].run \in RunIds /\ att[w].user \in Users
      BY <1>4, WellFormedParts, MemoryPointwise
         DEF ClaimItem, FinishItem, MarkSending, Resolve, MemoryAt, Lost, Attempting, Preparing
    <2>2. \/ UNCHANGED item
          \/ /\ item[job[w].run][att[w].user].status \in {"pending", "claimed", "sending"}
             /\ \E row : item' = [item EXCEPT ![job[w].run][att[w].user] = row]
      BY <1>4 DEF ClaimItem, FinishItem, MarkSending, Resolve, OwnsItem
    <2>3. CASE r = job[w].run /\ u = att[w].user
      BY <2>2, <2>3 DEF ItemDone
    <2>4. CASE ~(r = job[w].run /\ u = att[w].user)
      <3>1. item \in [RunIds -> [Users -> ItemRow]]
        BY <1>0 DEF Tables
      <3>2. CASE UNCHANGED item
        BY <3>2
      <3>3. ASSUME NEW row, item' = [item EXCEPT ![job[w].run][att[w].user] = row]
            PROVE  item'[r][u] = item[r][u]
        <4>1. CASE r # job[w].run
          BY <3>1, <3>3, <4>1
        <4>2. CASE r = job[w].run /\ u # att[w].user
          <5>1. item'[r] = [item[r] EXCEPT ![att[w].user] = row]
            BY <3>1, <3>3, <4>2
          <5>. QED
            BY <3>1, <4>2, <5>1
        <4>. QED
          BY <2>4, <4>1, <4>2
      <3>. QED
        BY <2>2, <3>2, <3>3
    <2>. QED
      BY <2>3, <2>4
  <1>5. \/ UNCHANGED item \/ Reconcile(w) \/ FailReconcile(w) \/ ListSubscribers(w)
        \/ ClaimItem(w) \/ FinishItem(w) \/ MarkSending(w) \/ Resolve(w)
    BY DEF Act, Step, Admit, Claim, Yield, Takeover, Refuse, AcquireLease, LoadCheckpoint,
           StartRun, Cleanup, ReadIndex, PersistInput, RenewRun, RenewLease, ScanDedupe, Select,
           Reserve, WriteFavorites, Release, Send, Finish, FailFinal, FailRun, FailRelease,
           ControlStop, StorageError, Crash
  <1>. QED
    BY <1>1, <1>2, <1>3, <1>4, <1>5

Settling(w) == ClaimItem(w) \/ FinishItem(w) \/ Resolve(w)
\* the worker has read and planned nothing
Blank(j) == \A u \in Users : j.plans[u] = "absent" /\ j.seen[u] = "absent"
\* it serves the same run, and has read and planned the same
SameReports(j, k) == k.run = j.run /\ k.plans = j.plans /\ k.seen = j.seen

\* What a worker reports is changed by what it reads and what it settles only.
LEMMA ReportSteps ==
  ASSUME WellFormed, NEW w \in Workers, Act(w), ~ListSubscribers(w), ~Settling(w)
  PROVE  Blank(job'[w]) \/ SameReports(job[w], job'[w])
  <1>0. Memory /\ job \in [Workers -> Job] /\ job[w] \in Job
    BY WellFormedParts DEF Memory
  <1>1. ASSUME NEW label, Leave(w, label)
        PROVE  Blank(job'[w])
    BY <1>0, <1>1 DEF Leave, NoJob, Blank
  <1>2. ASSUME NEW t, Fail(w, t)
        PROVE  Blank(job'[w])
    BY <1>0, <1>2 DEF Fail, NoJob, Blank
  <1>3. ASSUME NEW r, NEW took, TakeRun(w, r, took)
        PROVE  Blank(job'[w])
    BY <1>0, <1>3 DEF TakeRun, NoJob, Blank
  <1>4. ASSUME UNCHANGED job
        PROVE  SameReports(job[w], job'[w])
    BY <1>4 DEF SameReports
  <1>5. CASE Admit(w)
    <2>1. ASSUME NEW i \in Invocations,
                 job' = [job EXCEPT ![w] =
                   [NoJob EXCEPT !.inv = i, !.now = clock, !.run = i.ext,
                      !.runRev = run[i.ext].rev,
                      !.queued = run[i.ext].status \in {"absent", "queued"}]]
          PROVE  Blank(job'[w])
      BY <1>0, <2>1 DEF NoJob, Blank
    <2>. QED
      BY <1>1, <1>5, <2>1 DEF Admit
  <1>6. CASE Claim(w) \/ Yield(w) \/ Takeover(w) \/ Refuse(w)
    <2>1. ASSUME NEW q, MeetRival(w, q)
          PROVE  Blank(job'[w]) \/ SameReports(job[w], job'[w])
      <3>1. CASE Leave(w, "done")
        BY <1>1, <3>1
      <3>2. CASE job' = [job EXCEPT ![w] = [job[w] EXCEPT !.rival = q, !.rivalRev = run[q].rev,
                                                        !.rivalExp = run[q].exp]]
        BY <1>0, <3>2 DEF Job, SameReports
      <3>. QED
        BY <2>1, <3>1, <3>2 DEF MeetRival
    <2>. QED
      BY <1>1, <1>3, <1>4, <1>6, <2>1 DEF Claim, Yield, Takeover, Refuse
  <1>7. CASE Finish(w) \/ FailRelease(w) \/ Crash(w) \/ FailFinal(w)
    BY <1>1, <1>2, <1>4, <1>7 DEF Finish, FailRelease, Crash, FailFinal
  <1>8. CASE AcquireLease(w) \/ LoadCheckpoint(w) \/ StartRun(w) \/ ReadIndex(w) \/ PersistInput(w)
    <2>1. ASSUME NEW n, job' = [job EXCEPT ![w].leaseRev = n]
          PROVE  SameReports(job[w], job'[w])
      BY <1>0, <2>1 DEF Job, SameReports
    <2>2. ASSUME NEW c, job' = [job EXCEPT ![w].ckpt = c]
          PROVE  SameReports(job[w], job'[w])
      BY <1>0, <2>2 DEF Job, SameReports
    <2>3. ASSUME job' = [job EXCEPT ![w].runRev = @ + 1]
          PROVE  SameReports(job[w], job'[w])
      BY <1>0, <2>3 DEF Job, SameReports
    <2>4. ASSUME NEW c, job' = [job EXCEPT ![w].current = c]
          PROVE  SameReports(job[w], job'[w])
      BY <1>0, <2>4 DEF Job, SameReports
    <2>5. CASE PersistInput(w)
      <3>1. ASSUME NEW c, NEW b, job' = [job EXCEPT ![w].cands = c, ![w].end = IF b THEN "idle" ELSE @]
            PROVE  SameReports(job[w], job'[w])
        BY <1>0, <3>1 DEF Job, SameReports
      <3>. QED
        BY <1>2, <2>5, <3>1 DEF PersistInput
    <2>. QED
      BY <1>2, <1>4, <1>8, <2>1, <2>2, <2>3, <2>4, <2>5
         DEF AcquireLease, LoadCheckpoint, StartRun, ReadIndex
  <1>9. CASE RenewLease(w) \/ ScanDedupe(w) \/ FailReconcile(w)
              \/ \E u \in Users \union {None} : RenewRun(w, u)
    <2>1. ASSUME job' = [job EXCEPT ![w].leaseRev = @ + 1]
          PROVE  SameReports(job[w], job'[w])
      BY <1>0, <2>1 DEF Job, SameReports
    <2>2. ASSUME NEW k, job' = [job EXCEPT ![w].known = k]
          PROVE  SameReports(job[w], job'[w])
      BY <1>0, <2>2 DEF Job, SameReports
    <2>3. ASSUME NEW e, job' = [job EXCEPT ![w].end = e]
          PROVE  SameReports(job[w], job'[w])
      BY <1>0, <2>3 DEF Job, SameReports
    <2>4. ASSUME NEW t, job' = [job EXCEPT ![w].runRev = @ + 1, ![w].now = t]
          PROVE  SameReports(job[w], job'[w])
      BY <1>0, <2>4 DEF Job, SameReports
    <2>5. CASE \E u \in Users \union {None} : RenewRun(w, u)
      BY <1>2, <2>4, <2>5 DEF RenewRun
    <2>. QED
      BY <1>2, <1>4, <1>9, <2>1, <2>2, <2>3, <2>5 DEF RenewLease, ScanDedupe, FailReconcile
  <1>10. CASE Reconcile(w) \/ Cleanup(w) \/ Select(w) \/ Reserve(w) \/ WriteFavorites(w)
               \/ Release(w) \/ MarkSending(w) \/ Send(w) \/ FailRun(w) \/ ControlStop(w)
    BY <1>2, <1>4, <1>10 DEF Reconcile, Cleanup, Select, Reserve, WriteFavorites, Release,
                             MarkSending, Send, FailRun, ControlStop
  <1>11. CASE StorageError(w)
    <2>1. ASSUME NEW b, job' = [job EXCEPT ![w].end = IF b THEN "failed" ELSE @]
          PROVE  SameReports(job[w], job'[w])
      BY <1>0, <2>1 DEF Job, SameReports
    <2>. QED
      BY <1>1, <1>2, <1>11, <2>1 DEF StorageError
  <1>. QED
    BY <1>5, <1>6, <1>7, <1>8, <1>9, <1>10, <1>11 DEF Act, Step, Settling

\* Settling a plan reports its status and changes no other report.
LEMMA SettleReports ==
  ASSUME job \in [Workers -> Job], NEW w \in Workers, att[w].user \in Users,
         NEW status, Settle(w, status)
  PROVE  /\ job'[w].run = job[w].run /\ job'[w].seen = job[w].seen
         /\ job'[w].plans = [job[w].plans EXCEPT ![att[w].user] = status]
  BY DEF Settle, Job

\* A report that holds is about a run the table has.
Reports(j, u, status) == j.run \in RunIds /\ item[j.run][u].status = status
ReportsHold ==
    \A w \in Workers, u \in Users :
        /\ job[w].seen[u] \in ItemDone => Reports(job[w], u, job[w].seen[u])
        /\ job[w].plans[u] # "absent" => Reports(job[w], u, job[w].plans[u])

\* Every step keeps the reports in agreement with the table.
LEMMA NextKeepsReports ==
  ASSUME WellFormed, ReportsHold, [Next]_vars
  PROVE  ReportsHold'
  <1>0. Tables /\ Memory /\ job \in [Workers -> Job] /\ att \in [Workers -> Attempt]
    BY WellFormedParts DEF Memory
  <1>1. ASSUME NEW w \in Workers, Act(w)
        PROVE  ReportsHold'
    <2>0. OthersRest(w)
      BY <1>1, OnlyOneMoves
    <2>1. ASSUME NEW v \in Workers, NEW u \in Users, NEW status \in ItemDone,
                 Reports(job[v], u, status), job'[v].run = job[v].run
          PROVE  Reports(job[v], u, status)'
      BY <1>1, <2>1, DoneItemsStay DEF Reports
    <2> SUFFICES ASSUME NEW v \in Workers, NEW u \in Users
                 PROVE  /\ job'[v].seen[u] \in ItemDone => Reports(job[v], u, job[v].seen[u])'
                        /\ job'[v].plans[u] # "absent" => Reports(job[v], u, job[v].plans[u])'
      BY DEF ReportsHold
    <2>2. job[v].plans[u] # "absent" => job[v].plans[u] \in ItemDone
      BY <1>0 DEF Job
    <2>3. CASE SameReports(job[v], job'[v])
      BY <2>1, <2>2, <2>3 DEF SameReports, ReportsHold, Reports
    <2>4. CASE Blank(job'[v])
      BY <2>4 DEF Blank, ItemDone
    <2>5. CASE v # w
      BY <2>0, <2>3, <2>5 DEF OthersRest, SameReports
    <2>6. CASE v = w /\ ListSubscribers(w)
      <3>0. job[w].run \in RunIds
        BY <1>0, <2>6, MemoryPointwise DEF ListSubscribers, MemoryAt, Lost
      <3>1. CASE Fail(w, clock)
        BY <1>0, <2>4, <2>6, <3>1 DEF Fail, NoJob, Blank
      <3>2. ASSUME NEW e, job' = [job EXCEPT ![w].end = e]
            PROVE  SameReports(job[w], job'[w])
        BY <1>0, <3>2 DEF Job, SameReports
      <3>3. ASSUME NEW row, NEW S, item' = [item EXCEPT ![job[w].run] = row],
                   job' = [job EXCEPT ![w].todo = S, ![w].seen = [x \in Users |-> row[x].status]]
            PROVE  /\ job'[w].run = job[w].run /\ job'[w].plans = job[w].plans
                   /\ item'[job'[w].run][u].status = job'[w].seen[u]
        <4>1. job'[w].run = job[w].run /\ job'[w].plans = job[w].plans
          BY <1>0, <3>3 DEF Job
        <4>2. job'[w].seen = [x \in Users |-> row[x].status]
          BY <1>0, <3>3 DEF Job
        <4>3. item'[job[w].run] = row
          BY <1>0, <3>0, <3>3 DEF Tables
        <4>. QED
          BY <4>1, <4>2, <4>3
      <3>4. CASE \E S : \E row : /\ item' = [item EXCEPT ![job[w].run] = row]
                                /\ job' = [job EXCEPT ![w].todo = S,
                                             ![w].seen = [x \in Users |-> row[x].status]]
        <4>1. /\ job'[w].run = job[w].run /\ job'[w].plans = job[w].plans
              /\ item'[job'[w].run][u].status = job'[w].seen[u]
          BY <3>3, <3>4
        <4>. QED
          BY <2>1, <2>2, <2>6, <3>0, <4>1 DEF ReportsHold, Reports
      <3>5. \/ Fail(w, clock)
            \/ \E e : job' = [job EXCEPT ![w].end = e]
            \/ \E S : \E row : /\ item' = [item EXCEPT ![job[w].run] = row]
                              /\ job' = [job EXCEPT ![w].todo = S,
                                           ![w].seen = [x \in Users |-> row[x].status]]
        <4> DEFINE Listed(S) == [x \in Users |->
                        IF x \in S /\ item[job[w].run][x].status = "absent"
                        THEN [NoItem EXCEPT !.status = "pending"] ELSE item[job[w].run][x]]
        <4>1. \/ Fail(w, clock)
              \/ \E e : job' = [job EXCEPT ![w].end = e]
              \/ \E S : /\ item' = [item EXCEPT ![job[w].run] = Listed(S)]
                        /\ job' = [job EXCEPT ![w].todo = S,
                                     ![w].seen = [x \in Users |-> Listed(S)[x].status]]
          BY <2>6, Zenon DEF ListSubscribers
        <4>2. ASSUME NEW S, /\ item' = [item EXCEPT ![job[w].run] = Listed(S)]
                            /\ job' = [job EXCEPT ![w].todo = S,
                                         ![w].seen = [x \in Users |-> Listed(S)[x].status]]
              PROVE  \E row : /\ item' = [item EXCEPT ![job[w].run] = row]
                              /\ job' = [job EXCEPT ![w].todo = S,
                                           ![w].seen = [x \in Users |-> row[x].status]]
          <5> HIDE DEF Listed
          <5>. WITNESS Listed(S)
          <5>. QED
            BY <4>2
        <4> HIDE DEF Listed
        <4>. QED
          BY <4>1, <4>2
      <3>. QED
        BY <2>3, <2>6, <3>1, <3>2, <3>4, <3>5
    <2>7. CASE v = w /\ Settling(w)
      <3>0. job[w].run \in RunIds /\ att[w].user \in Users /\ att[w] \in Attempt
        BY <1>0, <2>7, MemoryPointwise
           DEF Settling, ClaimItem, FinishItem, Resolve, MemoryAt, Lost, Attempting
      <3>1. CASE Fail(w, clock)
        BY <1>0, <2>4, <2>7, <3>1 DEF Fail, NoJob, Blank
      <3>2. CASE UNCHANGED job
        BY <2>3, <2>7, <3>2 DEF SameReports
      <3>3. ASSUME NEW status \in ItemDone, Settle(w, status),
                   item'[job[w].run][att[w].user].status = status
            PROVE  /\ job'[v].seen[u] \in ItemDone => Reports(job[v], u, job[v].seen[u])'
                   /\ job'[v].plans[u] # "absent" => Reports(job[v], u, job[v].plans[u])'
        <4>1. /\ job'[w].run = job[w].run /\ job'[w].seen = job[w].seen
              /\ job'[w].plans = [job[w].plans EXCEPT ![att[w].user] = status]
          BY <1>0, <3>0, <3>3, SettleReports
        <4>2. job'[v].seen[u] \in ItemDone => Reports(job[v], u, job[v].seen[u])'
          BY <2>1, <2>7, <4>1 DEF ReportsHold, Reports
        <4>3. CASE u = att[w].user
          <5>1. job'[w].plans[u] = status
            BY <1>0, <4>1, <4>3 DEF Job
          <5>. QED
            BY <2>7, <3>0, <3>3, <4>1, <4>2, <4>3, <5>1 DEF Reports
        <4>4. CASE u # att[w].user
          <5>1. job'[w].plans[u] = job[w].plans[u]
            BY <1>0, <4>1, <4>4 DEF Job
          <5>. QED
            BY <2>1, <2>2, <2>7, <4>1, <4>2, <5>1 DEF ReportsHold, Reports
        <4>. QED
          BY <4>3, <4>4
      <3>4. CASE ClaimItem(w)
        <4>1. CASE /\ job[w].seen[att[w].user] \in ItemDone
                   /\ Settle(w, job[w].seen[att[w].user]) /\ UNCHANGED item
          BY <3>0, <3>3, <4>1 DEF ReportsHold, Reports
        <4>. QED
          BY <3>1, <3>2, <3>4, <4>1 DEF ClaimItem
      <3>5. CASE FinishItem(w)
        <4>1. CASE /\ item' = [item EXCEPT ![job[w].run][att[w].user] = Ended(@, att[w].fin)]
                   /\ Settle(w, att[w].fin)
          <5>1. item'[job[w].run][att[w].user].status = att[w].fin /\ att[w].fin \in ItemDone
            BY <1>0, <3>0, <4>1, WrittenStatus DEF Tables, Attempt
          <5>. QED
            BY <3>3, <4>1, <5>1
        <4>. QED
          BY <3>1, <3>5, <4>1 DEF FinishItem
      <3>6. CASE Resolve(w)
        <4>1. ASSUME NEW status \in {"succeeded", "unknown"}, Settle(w, status),
                     item' = [item EXCEPT ![job[w].run][att[w].user] = Ended(@, status)]
              PROVE  /\ job'[v].seen[u] \in ItemDone => Reports(job[v], u, job[v].seen[u])'
                     /\ job'[v].plans[u] # "absent" => Reports(job[v], u, job[v].plans[u])'
          <5>1. item'[job[w].run][att[w].user].status = status /\ status \in ItemDone
            BY <1>0, <3>0, <4>1, WrittenStatus DEF Tables, ItemDone
          <5>. QED
            BY <3>3, <4>1, <5>1
        <4>. QED
          BY <3>1, <3>6, <4>1 DEF Resolve
      <3>. QED
        BY <2>7, <3>4, <3>5, <3>6 DEF Settling
    <2>. QED
      BY <1>1, <2>3, <2>4, <2>5, <2>6, <2>7, ReportSteps
  <1>2. CASE Tick \/ (\E a \in Articles : IndexArticle(a)) \/ UNCHANGED vars
    BY <1>2, WorldSteps DEF ReportsHold, Reports
  <1>. QED
    BY <1>1, <1>2 DEF Next, Act

\* What an invocation reports of a subscriber is what the item row says for as
\* long as it reports it, whoever else works on the run.
THEOREM ReportsAreDurable == Spec => []ReportIsDurable
  <1>1. Init => ReportsHold
    BY DEF Init, ReportsHold, NoJob, ItemDone
  <1>2. WellFormed /\ ReportsHold /\ [Next]_vars => ReportsHold'
    BY NextKeepsReports
  <1>3. ReportsHold => ReportIsDurable
    BY DEF ReportsHold, Reports, ReportIsDurable
  <1>. QED
    BY <1>1, <1>2, <1>3, AlwaysWellFormed, PTL DEF Spec

----------------------------------------------------------------------------
\* Nothing is left behind: whose name the run and the lease are in

\* Calls of an invocation that may have a run, or the lease, in its name
Holding == Labels \ (Lost \union {"claim", "yield", "takeover", "failRelease"})
Leasing == Labels \ (Lost \union Entering)

\* Calls that neither write the run, lease or checkpoint row nor end the
\* invocation
Inner(w) ==
    \/ LoadCheckpoint(w) \/ Reconcile(w) \/ Cleanup(w) \/ ReadIndex(w) \/ PersistInput(w)
    \/ ListSubscribers(w) \/ ScanDedupe(w) \/ ClaimItem(w) \/ Select(w) \/ Reserve(w)
    \/ WriteFavorites(w) \/ Release(w) \/ FinishItem(w) \/ MarkSending(w) \/ Send(w)
    \/ Resolve(w) \/ FailReconcile(w) \/ ControlStop(w)

\* what it takes to recognise one's run and lease
SameHold(j, k) == k.run = j.run /\ k.runRev = j.runRev /\ k.leaseRev = j.leaseRev
\* calls after the index has been read
Looking == Running \ {"snapshot"}
SameView(j, k) == k.ckpt = j.ckpt /\ k.current = j.current

\* failBestEffort keeps the run, the lease and the loaded checkpoint.
LEMMA FailKeeps ==
  ASSUME Memory, NEW w \in Workers, NEW t, Fail(w, t)
  PROVE  /\ SameHold(job[w], job'[w]) /\ job'[w].ckpt = job[w].ckpt
         /\ job'[w].current = {} /\ pc'[w] = "failReconcile"
  BY DEF Fail, Goto, NoJob, Memory, SameHold

\* Settling a plan keeps all of it.
LEMMA SettleKeeps ==
  ASSUME Memory, NEW w \in Workers, NEW status, Settle(w, status)
  PROVE  /\ SameHold(job[w], job'[w]) /\ SameView(job[w], job'[w])
         /\ pc'[w] \in {"finish", "loop"}
  BY DEF Settle, Goto, Memory, Job, SameHold, SameView

\* Where the calls are: before the index is read, after it, and failing.
LEMMA LabelsOfCalls ==
    /\ Looking \subseteq Leasing \ {"failRelease"}
    /\ \A label \in {"load", "reconcile", "start", "cleanup", "snapshot", "failReconcile",
                     "failFinal", "failRun"} :
          label \in Leasing \ {"failRelease"} /\ label \notin Looking
    /\ \A label \in {"input", "prepare", "loop", "renewLease", "subscribers", "scan", "item",
                     "select", "reserve", "release", "favorites", "finishItem", "mark", "send",
                     "resolve", "finish"} : label \in Looking
  BY DEF Looking, Running, Leasing, Labels, Lost, Entering, Refusing, Starting, Failing

\* An inner call keeps the hold on run and lease, and what was loaded and read.
LEMMA InnerSteps ==
  ASSUME Memory, NEW w \in Workers, Inner(w)
  PROVE  /\ UNCHANGED <<run, lease, ckpt, faults, indexed>>
         /\ pc[w] \in Leasing \ {"failRelease"} /\ pc'[w] \in Leasing \ {"failRelease"}
         /\ SameHold(job[w], job'[w])
         /\ job'[w].ckpt = job[w].ckpt \/ (LoadCheckpoint(w) /\ job'[w].ckpt = ckpt)
         /\ job'[w].current \in {job[w].current, {}} \/ (ReadIndex(w) /\ job'[w].current = indexed)
         /\ pc'[w] \in Looking => \/ ReadIndex(w) /\ job'[w].current = indexed
                                  \/ pc[w] \in Looking /\ SameView(job[w], job'[w])
  <1>0. job \in [Workers -> Job] /\ pc \in [Workers -> Labels]
    BY DEF Memory
  <1>1. UNCHANGED <<run, lease, ckpt, faults, indexed>>
    BY DEF Inner, LoadCheckpoint, Reconcile, Cleanup, ReadIndex, PersistInput, ListSubscribers,
           ScanDedupe, ClaimItem, Select, Reserve, WriteFavorites, Release, FinishItem,
           MarkSending, Send, Resolve, FailReconcile, ControlStop
  <1> DEFINE Kept == /\ pc[w] \in Leasing \ {"failRelease"} /\ pc'[w] \in Leasing \ {"failRelease"}
                     /\ SameHold(job[w], job'[w]) /\ SameView(job[w], job'[w])
                     /\ pc'[w] \in Looking => pc[w] \in Looking
             Failed == /\ pc[w] \in Leasing \ {"failRelease"}
                       /\ \E t : Fail(w, t)
  <1>2. CASE Kept
    <2>1. job'[w].ckpt = job[w].ckpt /\ job'[w].current = job[w].current
      BY <1>2 DEF SameView
    <2>. QED
      BY <1>1, <1>2, <2>1
  <1>3. CASE Failed
    <2>1. /\ SameHold(job[w], job'[w]) /\ job'[w].ckpt = job[w].ckpt
          /\ job'[w].current = {} /\ pc'[w] = "failReconcile"
      BY <1>3, FailKeeps
    <2>2. pc'[w] \in Leasing \ {"failRelease"} /\ pc'[w] \notin Looking
      BY <2>1, LabelsOfCalls
    <2>. QED
      BY <1>1, <1>3, <2>1, <2>2
  <1>4. CASE LoadCheckpoint(w)
    <2>1. pc[w] = "load" /\ pc'[w] = "reconcile" /\ job' = [job EXCEPT ![w].ckpt = ckpt]
      BY <1>0, <1>4 DEF LoadCheckpoint, Goto
    <2>2. /\ SameHold(job[w], job'[w])
          /\ job'[w].ckpt = ckpt /\ job'[w].current = job[w].current
      BY <1>0, <2>1 DEF SameHold, Job
    <2>. QED
      BY <1>1, <1>4, <2>1, <2>2, LabelsOfCalls
  <1>5. CASE ReadIndex(w)
    <2>1. pc[w] = "snapshot" /\ pc'[w] = "input" /\ job' = [job EXCEPT ![w].current = indexed]
      BY <1>0, <1>5 DEF ReadIndex, Goto
    <2>2. /\ SameHold(job[w], job'[w])
          /\ job'[w].ckpt = job[w].ckpt /\ job'[w].current = indexed
      BY <1>0, <2>1 DEF SameHold, Job
    <2>. QED
      BY <1>1, <1>5, <2>1, <2>2, LabelsOfCalls
  <1>6. CASE Reconcile(w) \/ Cleanup(w) \/ ControlStop(w) \/ FailReconcile(w)
    <2>1. ASSUME NEW e, job' = [job EXCEPT ![w].end = e]
          PROVE  SameHold(job[w], job'[w]) /\ SameView(job[w], job'[w])
      BY <1>0, <2>1 DEF SameHold, SameView, Job
    <2>2. ASSUME UNCHANGED job
          PROVE  SameHold(job[w], job'[w]) /\ SameView(job[w], job'[w])
      BY <2>2 DEF SameHold, SameView
    <2>3. Failed \/ Kept
      BY <1>0, <1>6, <2>1, <2>2 DEF Reconcile, Cleanup, ControlStop, FailReconcile, Goto, Leasing,
         Labels, Lost, Entering, Refusing, Failing, Looking, Running, Starting
    <2>. QED
      BY <1>2, <1>3, <2>3
  <1>7. CASE PersistInput(w) \/ ListSubscribers(w) \/ ScanDedupe(w)
    <2>1. ASSUME NEW c, NEW b, job' = [job EXCEPT ![w].cands = c, ![w].end = IF b THEN "idle" ELSE @]
          PROVE  SameHold(job[w], job'[w]) /\ SameView(job[w], job'[w])
      BY <1>0, <2>1 DEF SameHold, SameView, Job
    <2>2. ASSUME NEW e, job' = [job EXCEPT ![w].end = e]
          PROVE  SameHold(job[w], job'[w]) /\ SameView(job[w], job'[w])
      BY <1>0, <2>2 DEF SameHold, SameView, Job
    <2>3. ASSUME NEW S, NEW f, job' = [job EXCEPT ![w].todo = S, ![w].seen = f]
          PROVE  SameHold(job[w], job'[w]) /\ SameView(job[w], job'[w])
      BY <1>0, <2>3 DEF SameHold, SameView, Job
    <2>4. ASSUME NEW f, job' = [job EXCEPT ![w].known = f]
          PROVE  SameHold(job[w], job'[w]) /\ SameView(job[w], job'[w])
      BY <1>0, <2>4 DEF SameHold, SameView, Job
    <2>5. Failed \/ (SameHold(job[w], job'[w]) /\ SameView(job[w], job'[w]))
      <3>1. CASE PersistInput(w)
        <4>1. pc[w] = "input"
          BY <3>1 DEF PersistInput
        <4>2. \/ Fail(w, clock)
              \/ \E c, b : job' = [job EXCEPT ![w].cands = c, ![w].end = IF b THEN "idle" ELSE @]
          BY <3>1, Zenon DEF PersistInput
        <4>. QED
          BY <2>1, <4>1, <4>2, LabelsOfCalls
      <3>2. CASE ListSubscribers(w)
        <4>1. pc[w] = "subscribers"
          BY <3>2 DEF ListSubscribers
        <4>2. \/ Fail(w, clock)
              \/ \E e : job' = [job EXCEPT ![w].end = e]
              \/ \E S, f : job' = [job EXCEPT ![w].todo = S, ![w].seen = f]
          BY <3>2, Zenon DEF ListSubscribers
        <4>. QED
          BY <2>2, <2>3, <4>1, <4>2, LabelsOfCalls
      <3>3. CASE ScanDedupe(w)
        BY <2>4, <3>3 DEF ScanDedupe
      <3>. QED
        BY <1>7, <3>1, <3>2, <3>3
    <2>6. Failed \/ (pc[w] \in Looking /\ pc'[w] \in Looking)
      BY <1>0, <1>7 DEF PersistInput, ListSubscribers, ScanDedupe, Goto, Looking, Running, Leasing,
                        Labels, Lost, Entering, Refusing
    <2>7. Looking \subseteq Leasing \ {"failRelease"}
      BY DEF Looking, Running, Leasing, Labels, Lost, Entering, Refusing
    <2>. QED
      BY <1>2, <1>3, <2>5, <2>6, <2>7
  <1>8. CASE \/ ClaimItem(w) \/ Select(w) \/ Reserve(w) \/ WriteFavorites(w) \/ Release(w)
             \/ FinishItem(w) \/ MarkSending(w) \/ Send(w) \/ Resolve(w)
    <2>1. pc[w] \in Looking /\ Looking \subseteq Leasing \ {"failRelease"}
      BY <1>8 DEF ClaimItem, Select, Reserve, WriteFavorites, Release, FinishItem, MarkSending,
                  Send, Resolve, Looking, Running, Leasing, Labels, Lost, Entering, Refusing
    <2>2. \/ \E t : Fail(w, t)
          \/ \E status : Settle(w, status)
          \/ (UNCHANGED job /\ pc'[w] \in Looking)
      BY <1>0, <1>8 DEF ClaimItem, Select, Reserve, WriteFavorites, Release, FinishItem,
                        MarkSending, Send, Resolve, Goto, Looking, Running
    <2>3. ASSUME NEW status, Settle(w, status)
          PROVE  Kept
      BY <2>1, <2>3, SettleKeeps DEF Looking, Running
    <2>4. CASE UNCHANGED job /\ pc'[w] \in Looking
      BY <1>2, <2>1, <2>4 DEF SameHold, SameView
    <2>. QED
      BY <1>2, <1>3, <2>1, <2>2, <2>3, <2>4
  <1>. QED
    BY <1>4, <1>5, <1>6, <1>7, <1>8 DEF Inner

\* The rows in a worker's name are those it is working under, unless it has
\* crashed: it returns only without them.
RunHeld(w) ==
    \A r \in RunIds : run[r].owner = w =>
        pc[w] = "crashed" \/ (pc[w] \in Holding /\ job[w].run = r /\ Owns(w))
LeaseHeld(w) ==
    lease.owner = w => pc[w] = "crashed" \/ (pc[w] \in Leasing /\ HoldsLease(w))
RowsAreHeld == faults = 0 => \A w \in Workers : RunHeld(w) /\ LeaseHeld(w)

\* Every write of a run or lease row is in the writer's name or nobody's.
LEMMA RowsChangeHands ==
  ASSUME WellFormed, NEW w \in Workers, Act(w)
  PROVE  /\ \A r \in RunIds : run'[r] = run[r] \/ run'[r].owner \in {w, None}
         /\ lease' = lease \/ lease'.owner \in {w, None}
         /\ faults' = 0 => faults = 0
  <1>0. Tables /\ run \in [RunIds -> RunRow] /\ lease \in Lease
    BY WellFormedParts DEF Tables
  <1>1. ASSUME NEW r \in RunIds, NEW status, run' = [run EXCEPT ![r] = Ended(@, status)]
        PROVE  \A q \in RunIds : run'[q] = run[q] \/ run'[q].owner \in {w, None}
    BY <1>0, <1>1 DEF Ended, RunRow
  <1>2. ASSUME NEW r \in RunIds, NEW took, TakeRun(w, r, took)
        PROVE  \A q \in RunIds : run'[q] = run[q] \/ run'[q].owner \in {w, None}
    BY <1>0, <1>2 DEF TakeRun, Taken, RunRow
  <1>3. pc[w] \notin Lost => job[w].run \in RunIds
    BY WellFormedParts, MemoryPointwise DEF MemoryAt
  <1>4. CASE Admit(w)
    BY <1>0, <1>4 DEF Admit, NoRun
  <1>5. CASE Claim(w) \/ Takeover(w)
    <2>1. /\ UNCHANGED <<lease, faults>>
          /\ \/ UNCHANGED run
             \/ \E r \in RunIds, took \in BOOLEAN : TakeRun(w, r, took)
      BY <1>5, WellFormedParts, MemoryPointwise DEF Claim, MeetRival, Takeover, MemoryAt, Lost
    <2>. QED
      BY <1>2, <2>1
  <1>6. CASE Yield(w) \/ Refuse(w) \/ FailRun(w)
    BY <1>1, <1>3, <1>6 DEF Yield, Refuse, FailRun, Lost, Refusing
  <1>7. CASE StartRun(w) \/ \E u \in Users \union {None} : RenewRun(w, u)
    <2>1. job[w].run \in RunIds
      BY <1>3, <1>7 DEF StartRun, RenewRun, Lost
    <2>2. /\ UNCHANGED <<lease, faults>>
          /\ \/ UNCHANGED run
             \/ /\ run[job[w].run].owner = w
                /\ \/ run' = [run EXCEPT ![job[w].run] = Moved(@, "running")]
                   \/ run' = [run EXCEPT ![job[w].run] = Renewed(@, clock)]
      BY <1>7 DEF StartRun, RenewRun, OwnsLive, Owns
    <2>. QED
      BY <1>0, <2>1, <2>2 DEF Moved, Renewed, RunRow
  <1>8. CASE AcquireLease(w) \/ RenewLease(w) \/ FailRelease(w)
    <2>1. UNCHANGED <<run, faults>>
      BY <1>8 DEF AcquireLease, RenewLease, FailRelease
    <2>2. ReleasedLease.owner = None /\ Renewed(lease, job[w].now).owner = lease.owner
      BY <1>0 DEF ReleasedLease, Renewed, Lease
    <2>3. lease' = lease \/ lease'.owner \in {w, None}
      BY <1>8, <2>2 DEF AcquireLease, RenewLease, FailRelease, HoldsLease
    <2>. QED
      BY <2>1, <2>3
  <1>9. CASE Finish(w) \/ FailFinal(w)
    <2>1. job[w].run \in RunIds
      BY <1>3, <1>9 DEF Finish, FailFinal, Lost
    <2>2. /\ UNCHANGED faults
          /\ \/ UNCHANGED <<run, lease>>
             \/ \E status, ckptStatus, snap : FinalizeRun(w, status, ckptStatus, snap)
      BY <1>9 DEF Finish, FailFinal
    <2>3. ReleasedLease.owner = None
      BY <1>0 DEF ReleasedLease, Lease
    <2>. QED
      BY <1>1, <2>1, <2>2, <2>3 DEF FinalizeRun
  <1>10. CASE Inner(w)
    BY <1>10, InnerSteps, WellFormedParts
  <1>11. CASE StorageError(w) \/ Crash(w)
    BY <1>0, <1>11 DEF StorageError, Crash, Tables
  <1>. QED
    BY <1>4, <1>5, <1>6, <1>7, <1>8, <1>9, <1>10, <1>11 DEF Act, Step, Inner

\* A step of another worker leaves what a worker holds.
LEMMA OthersStayHeld ==
  ASSUME WellFormed, NEW v \in Workers, NEW w \in Workers, v # w, Act(v),
         RunHeld(w), LeaseHeld(w)
  PROVE  (RunHeld(w) /\ LeaseHeld(w))'
  <1>1. /\ pc'[w] = pc[w] /\ job'[w] = job[w]
        /\ \A r \in RunIds : run'[r].owner = w => run'[r] = run[r]
        /\ lease'.owner = w => lease' = lease
    BY OnlyOneMoves, RowsChangeHands, NullAssumption DEF OthersRest
  <1>2. ASSUME NEW r \in RunIds, run'[r].owner = w
        PROVE  pc'[w] = "crashed" \/ (pc'[w] \in Holding /\ job'[w].run = r /\ Owns(w)')
    BY <1>1, <1>2 DEF RunHeld, Owns
  <1>3. ASSUME lease'.owner = w
        PROVE  pc'[w] = "crashed" \/ (pc'[w] \in Leasing /\ HoldsLease(w)')
    BY <1>1, <1>3 DEF LeaseHeld, HoldsLease
  <1>. QED
    BY <1>2, <1>3 DEF RunHeld, LeaseHeld

\* A call that keeps both rows and the hold on them keeps what is held.
LEMMA HeldStays ==
  ASSUME NEW w \in Workers, UNCHANGED <<run, lease>>, SameHold(job[w], job'[w]),
         pc[w] \in Leasing \ {"failRelease"}, pc'[w] \in Leasing \ {"failRelease"},
         RunHeld(w), LeaseHeld(w)
  PROVE  (RunHeld(w) /\ LeaseHeld(w))'
  <1>1. Leasing \ {"failRelease"} \subseteq Holding /\ "crashed" \notin Leasing
    BY DEF Leasing, Holding, Lost, Entering, Refusing
  <1>. QED
    BY <1>1 DEF RunHeld, LeaseHeld, Owns, HoldsLease, SameHold

\* Who has no row in its name holds all there is.
LEMMA NothingHeld ==
  ASSUME NEW w \in Workers, lease'.owner # w, \A r \in RunIds : run'[r].owner # w
  PROVE  (RunHeld(w) /\ LeaseHeld(w))'
  BY DEF RunHeld, LeaseHeld

\* ClaimRun leaves the taker with the run it took.
LEMMA TakenIsHeld ==
  ASSUME WellFormed, NEW w \in Workers, NEW r \in RunIds, NEW took, TakeRun(w, r, took),
         \A q \in RunIds : run[q].owner # w, lease'.owner # w
  PROVE  (RunHeld(w) /\ LeaseHeld(w))'
  <1>0. run \in [RunIds -> RunRow] /\ job \in [Workers -> Job] /\ pc \in [Workers -> Labels]
    BY WellFormedParts DEF Tables, Memory
  <1>1. /\ run'[r] = Taken(run[r], w, job[w].now)
        /\ \A q \in RunIds \ {r} : run'[q] = run[q]
    BY <1>0 DEF TakeRun
  <1>2. /\ run'[r].owner = w /\ run'[r].rev = run[r].rev + 1
        /\ run'[r].status \in Active
    BY <1>0, <1>1 DEF Taken, RunRow, Active
  <1>3. /\ job'[w].run = r /\ job'[w].runRev = run[r].rev + 1
    BY <1>0 DEF TakeRun, NoJob
  <1>4. pc'[w] \in {"lease", "mismatch"}
    BY <1>0 DEF TakeRun, Goto
  <1>5. pc'[w] \in Holding /\ r # None
    BY <1>4, NullAssumption DEF Holding, Labels, Lost, Entering, Refusing
  <1>. QED
    BY <1>1, <1>2, <1>3, <1>5 DEF RunHeld, LeaseHeld, Owns

\* Giving the run up, in whatever way, leaves none in the worker's name.
LEMMA EndedIsNotHeld ==
  ASSUME WellFormed, NEW w \in Workers, job[w].run \in RunIds, NEW status,
         run' = [run EXCEPT ![job[w].run] = Ended(@, status)],
         \A r \in RunIds : run[r].owner = w => job[w].run = r
  PROVE  \A r \in RunIds : run'[r].owner # w
  <1>1. run \in [RunIds -> RunRow]
    BY WellFormedParts DEF Tables
  <1>2. Ended(run[job[w].run], status).owner = None
    BY <1>1 DEF Ended, RunRow
  <1>. QED
    BY <1>1, <1>2, NullAssumption

\* Starting and renewing a run keep its owner and count its revision on.
LEMMA MovedRow ==
  ASSUME NEW row \in RunRow
  PROVE  /\ Moved(row, "running").owner = row.owner /\ Moved(row, "running").rev = row.rev + 1
         /\ Moved(row, "running").status = "running"
         /\ \A t : /\ Renewed(row, t).owner = row.owner /\ Renewed(row, t).rev = row.rev + 1
                  /\ Renewed(row, t).status = row.status
  BY DEF Moved, Renewed, RunRow

\* Every step of a worker that meets no storage error keeps what it holds.
LEMMA ActorStaysHeld ==
  ASSUME WellFormed, NEW w \in Workers, Act(w), faults' = 0, RunHeld(w), LeaseHeld(w)
  PROVE  (RunHeld(w) /\ LeaseHeld(w))'
  <1>0. /\ Tables /\ Memory /\ run \in [RunIds -> RunRow] /\ lease \in Lease
        /\ job \in [Workers -> Job] /\ pc \in [Workers -> Labels] /\ job[w] \in Job
    BY WellFormedParts DEF Tables, Memory
  <1>1. pc[w] \notin Lost => job[w].run \in RunIds
    BY WellFormedParts, MemoryPointwise DEF MemoryAt
  <1>2. pc[w] \in {"idle", "done", "claim", "yield", "takeover", "failRelease"} =>
            \A r \in RunIds : run[r].owner # w
    BY DEF RunHeld, Holding, Lost
  <1>3. pc[w] \in {"idle", "done"} \union Entering => lease.owner # w
    BY DEF LeaseHeld, Leasing, Lost, Entering, Refusing
  <1>4. pc[w] # "crashed" => \A r \in RunIds : run[r].owner = w => job[w].run = r /\ Owns(w)
    BY DEF RunHeld
  <1>5. pc[w] # "crashed" => (lease.owner = w => HoldsLease(w))
    BY DEF LeaseHeld
  <1>6. CASE Inner(w)
    BY <1>0, <1>6, InnerSteps, HeldStays
  <1>7. ASSUME NEW t, Fail(w, t), UNCHANGED <<run, lease>>, pc[w] \in Leasing \ {"failRelease"}
        PROVE  (RunHeld(w) /\ LeaseHeld(w))'
    BY <1>0, <1>7, FailKeeps, HeldStays, LabelsOfCalls
  <1>8. CASE Admit(w)
    <2>1. \A r \in RunIds : run'[r].owner # w
      BY <1>0, <1>2, <1>8, NullAssumption DEF Admit, NoRun
    <2>. QED
      BY <1>3, <1>8, <2>1, NothingHeld DEF Admit
  <1>9. CASE Claim(w) \/ Takeover(w)
    <2>1. pc[w] \in {"claim", "takeover"} /\ UNCHANGED lease
      BY <1>9 DEF Claim, Takeover
    <2>2. /\ lease'.owner # w
          /\ \A r \in RunIds : run[r].owner # w
      BY <1>2, <1>3, <2>1 DEF Entering
    <2>3. UNCHANGED run \/ \E r \in RunIds, took \in BOOLEAN : TakeRun(w, r, took)
      BY <1>9, WellFormedParts, MemoryPointwise DEF Claim, MeetRival, Takeover, MemoryAt, Lost
    <2>. QED
      BY <2>2, <2>3, NothingHeld, TakenIsHeld
  <1>10. CASE Yield(w) \/ Refuse(w)
    <2>1. pc[w] \in Entering /\ pc[w] \notin Lost /\ UNCHANGED lease
      BY <1>10 DEF Yield, Refuse, Entering, Refusing, Lost
    <2>2. CASE \E status : run' = [run EXCEPT ![job[w].run] = Ended(@, status)]
      <3>1. \A r \in RunIds : run'[r].owner # w
        BY <1>1, <1>4, <2>1, <2>2, EndedIsNotHeld DEF Lost
      <3>. QED
        BY <1>3, <2>1, <3>1, NothingHeld
    <2>3. CASE UNCHANGED run /\ \A r \in RunIds : run[r].owner # w
      BY <1>3, <2>1, <2>3, NothingHeld
    <2>4. pc[w] = "yield" \/ ~Owns(w) => \A r \in RunIds : run[r].owner # w
      BY <1>2, <1>4, <2>1 DEF Lost
    <2>. QED
      BY <1>10, <2>2, <2>3, <2>4 DEF Yield, Refuse
  <1>11. CASE AcquireLease(w)
    <2>1. pc[w] = "lease" /\ UNCHANGED run /\ lease.owner # w /\ job[w].run \in RunIds
      BY <1>1, <1>3, <1>11 DEF AcquireLease, Entering, Lost
    <2>2. /\ job'[w].run = job[w].run /\ job'[w].runRev = job[w].runRev
          /\ pc'[w] \in {"load", "leaseBusy"}
          /\ pc'[w] = "load" => HoldsLease(w)'
          /\ pc'[w] = "leaseBusy" => UNCHANGED lease
      <3>1. CASE UNCHANGED <<lease, job>> /\ Goto(w, "leaseBusy")
        BY <1>0, <3>1 DEF Goto
      <3>2. CASE /\ lease' = [owner |-> w, run |-> job[w].run,
                              exp |-> job[w].now + LeaseLen, rev |-> lease.rev + 1]
                 /\ job' = [job EXCEPT ![w].leaseRev = lease.rev + 1]
                 /\ Goto(w, "load")
        <4>1. job'[w] = [job[w] EXCEPT !.leaseRev = lease.rev + 1] /\ pc'[w] = "load"
          BY <1>0, <3>2 DEF Goto
        <4>2. /\ job'[w].run = job[w].run /\ job'[w].runRev = job[w].runRev
              /\ job'[w].leaseRev = lease.rev + 1
          BY <1>0, <4>1 DEF Job
        <4>. QED
          BY <3>2, <4>1, <4>2 DEF HoldsLease
      <3>. QED
        BY <1>11, <3>1, <3>2 DEF AcquireLease
    <2>3. pc'[w] \in Holding /\ (pc'[w] = "load" => pc'[w] \in Leasing)
      BY <2>2 DEF Holding, Leasing, Labels, Lost, Entering, Refusing, Starting
    <2>. QED
      BY <1>4, <2>1, <2>2, <2>3 DEF RunHeld, LeaseHeld, Owns
  <1>12. CASE StartRun(w) \/ \E u \in Users \union {None} : RenewRun(w, u)
    <2>1. /\ pc[w] \in {"start", "prepare", "loop"} /\ UNCHANGED lease
          /\ pc[w] \in Leasing \ {"failRelease"} /\ pc[w] # "crashed"
          /\ job[w].run \in RunIds
      BY <1>1, <1>12, LabelsOfCalls DEF StartRun, RenewRun, Lost
    <2>2. CASE UNCHANGED run /\ \E t : Fail(w, t)
      BY <1>7, <2>1, <2>2
    <2>3. ASSUME NEW row \in RunRow, row.owner = w, row.rev = run[job[w].run].rev + 1,
                 row.status \in Active, Owns(w),
                 run' = [run EXCEPT ![job[w].run] = row],
                 job'[w].run = job[w].run, job'[w].runRev = job[w].runRev + 1,
                 job'[w].leaseRev = job[w].leaseRev, pc'[w] \in {"cleanup", "snapshot", "renewLease"}
          PROVE  (RunHeld(w) /\ LeaseHeld(w))'
      <3>1. /\ run'[job[w].run] = row
            /\ \A r \in RunIds \ {job[w].run} : run'[r] = run[r]
        BY <1>0, <2>1, <2>3
      <3>2. Owns(w)'
        BY <2>3, <3>1 DEF Owns
      <3>3. pc'[w] \in Holding /\ pc'[w] \in Leasing
        BY <2>3, LabelsOfCalls DEF Holding, Leasing, Labels, Lost, Entering, Starting, Running
      <3>. QED
        BY <1>4, <1>5, <2>1, <2>3, <3>1, <3>2, <3>3 DEF RunHeld, LeaseHeld, HoldsLease
    <2>4. CASE StartRun(w)
      <3>1. CASE /\ Owns(w) /\ run' = [run EXCEPT ![job[w].run] = Moved(@, "running")]
                 /\ job' = [job EXCEPT ![w].runRev = @ + 1]
                 /\ Goto(w, IF Retention > 0 THEN "cleanup" ELSE "snapshot")
        <4>1. job'[w] = [job[w] EXCEPT !.runRev = @ + 1] /\ pc'[w] \in {"cleanup", "snapshot"}
          BY <1>0, <3>1 DEF Goto
        <4>2. /\ job'[w].run = job[w].run /\ job'[w].runRev = job[w].runRev + 1
              /\ job'[w].leaseRev = job[w].leaseRev
          BY <1>0, <4>1 DEF Job
        <4>3. /\ Moved(run[job[w].run], "running") \in RunRow
              /\ Moved(run[job[w].run], "running").owner = w
              /\ Moved(run[job[w].run], "running").rev = run[job[w].run].rev + 1
              /\ Moved(run[job[w].run], "running").status \in Active
          <5>1. run[job[w].run] \in RunRow /\ run[job[w].run].owner = w
            BY <1>0, <2>1, <3>1 DEF Owns
          <5>. QED
            BY <5>1, RunWrites, MovedRow DEF Active
        <4>. QED
          BY <2>3, <3>1, <4>1, <4>2, <4>3
      <3>. QED
        BY <2>2, <2>4, <3>1 DEF StartRun, OwnsLive
    <2>5. ASSUME NEW u \in Users \union {None}, RenewRun(w, u)
          PROVE  (RunHeld(w) /\ LeaseHeld(w))'
      <3>1. CASE /\ Owns(w) /\ run' = [run EXCEPT ![job[w].run] = Renewed(@, clock)]
                 /\ job' = [job EXCEPT ![w].runRev = @ + 1, ![w].now = clock]
                 /\ Goto(w, "renewLease")
        <4>1. /\ job'[w] = [job[w] EXCEPT !.runRev = @ + 1, !.now = clock]
              /\ pc'[w] = "renewLease"
          BY <1>0, <3>1 DEF Goto
        <4>2. /\ job'[w].run = job[w].run /\ job'[w].runRev = job[w].runRev + 1
              /\ job'[w].leaseRev = job[w].leaseRev
          BY <1>0, <4>1 DEF Job
        <4>3. /\ Renewed(run[job[w].run], clock) \in RunRow
              /\ Renewed(run[job[w].run], clock).owner = w
              /\ Renewed(run[job[w].run], clock).rev = run[job[w].run].rev + 1
              /\ Renewed(run[job[w].run], clock).status \in Active
          <5>1. /\ run[job[w].run] \in RunRow /\ run[job[w].run].owner = w
                /\ run[job[w].run].status \in Active /\ clock \in Nat
            BY <1>0, <2>1, <3>1 DEF Owns, Tables
          <5>. QED
            BY <5>1, RunWrites, MovedRow
        <4>. QED
          BY <2>3, <3>1, <4>1, <4>2, <4>3
      <3>. QED
        BY <2>2, <2>5, <3>1 DEF RenewRun, OwnsLive
    <2>. QED
      BY <1>12, <2>4, <2>5
  <1>13. CASE RenewLease(w)
    <2>1. pc[w] = "renewLease" /\ UNCHANGED run /\ pc[w] \in Leasing \ {"failRelease"}
      BY <1>13, LabelsOfCalls DEF RenewLease
    <2>2. CASE UNCHANGED lease /\ Fail(w, clock)
      BY <1>7, <2>1, <2>2
    <2>3. CASE /\ HoldsLease(w) /\ lease' = Renewed(lease, job[w].now)
               /\ job' = [job EXCEPT ![w].leaseRev = @ + 1]
               /\ Goto(w, IF att[w].user = None THEN "subscribers" ELSE "item")
      <3>1. /\ job'[w] = [job[w] EXCEPT !.leaseRev = @ + 1]
            /\ pc'[w] \in {"subscribers", "item"}
        BY <1>0, <2>3 DEF Goto
      <3>2. /\ job'[w].run = job[w].run /\ job'[w].runRev = job[w].runRev
            /\ job'[w].leaseRev = job[w].leaseRev + 1
        BY <1>0, <3>1 DEF Job
      <3>3. /\ lease'.owner = lease.owner /\ lease'.run = lease.run
            /\ lease'.rev = lease.rev + 1
        BY <1>0, <2>3 DEF Renewed, Lease
      <3>4. HoldsLease(w)'
        BY <2>3, <3>2, <3>3 DEF HoldsLease
      <3>5. pc'[w] \in Holding /\ pc'[w] \in Leasing
        BY <3>1 DEF Holding, Leasing, Labels, Lost, Entering, Refusing, Running
      <3>. QED
        BY <1>4, <2>1, <3>2, <3>4, <3>5 DEF RunHeld, LeaseHeld, Owns
    <2>. QED
      BY <1>13, <2>2, <2>3 DEF RenewLease
  <1>14. CASE Finish(w) \/ FailFinal(w)
    <2>1. pc[w] \in {"finish", "failFinal"} /\ pc[w] \notin Lost /\ job[w].run \in RunIds
      BY <1>1, <1>14 DEF Finish, FailFinal, Lost
    <2>2. pc[w] \in Leasing \ {"failRelease"}
      BY <2>1, LabelsOfCalls
    <2>3. ASSUME NEW status, NEW ckptStatus, NEW snap, FinalizeRun(w, status, ckptStatus, snap)
          PROVE  (RunHeld(w) /\ LeaseHeld(w))'
      <3>1. \A r \in RunIds : run'[r].owner # w
        BY <1>4, <2>1, <2>3, EndedIsNotHeld DEF FinalizeRun, Lost
      <3>2. lease'.owner # w
        BY <1>0, <2>3, NullAssumption DEF FinalizeRun, ReleasedLease, Lease
      <3>. QED
        BY <3>1, <3>2, NothingHeld
    <2>4. CASE UNCHANGED <<run, lease>> /\ Fail(w, clock)
      BY <1>7, <2>2, <2>4
    <2>5. CASE UNCHANGED <<run, lease, job>> /\ Goto(w, "failRun")
      <3>1. pc'[w] \in Leasing \ {"failRelease"} /\ SameHold(job[w], job'[w])
        BY <1>0, <2>5, LabelsOfCalls DEF Goto, SameHold
      <3>. QED
        BY <2>2, <2>5, <3>1, HeldStays
    <2>. QED
      BY <1>14, <2>3, <2>4, <2>5 DEF Finish, FailFinal
  <1>15. CASE FailRun(w)
    <2>1. /\ pc[w] = "failRun" /\ pc'[w] = "failRelease" /\ UNCHANGED <<lease, job>>
          /\ job[w].run \in RunIds
      BY <1>0, <1>1, <1>15 DEF FailRun, Goto, Lost
    <2>2. \A r \in RunIds : run'[r].owner # w
      <3>1. CASE Owns(w)
        BY <1>4, <1>15, <2>1, <3>1, EndedIsNotHeld DEF FailRun
      <3>2. CASE ~Owns(w)
        BY <1>4, <1>15, <2>1, <3>2 DEF FailRun
      <3>. QED
        BY <3>1, <3>2
    <2>3. pc'[w] \in Leasing
      BY <2>1 DEF Leasing, Labels, Lost, Entering, Refusing, Failing
    <2>. QED
      BY <1>5, <2>1, <2>2, <2>3 DEF RunHeld, LeaseHeld, HoldsLease
  <1>16. CASE FailRelease(w)
    <2>1. pc[w] = "failRelease" /\ UNCHANGED run
      BY <1>16 DEF FailRelease
    <2>2. lease'.owner # w
      BY <1>0, <1>5, <1>16, <2>1, NullAssumption DEF FailRelease, ReleasedLease, Lease
    <2>. QED
      BY <1>2, <2>1, <2>2, NothingHeld
  <1>17. CASE StorageError(w)
    BY <1>0, <1>17 DEF StorageError, Tables
  <1>18. CASE Crash(w)
    <2>1. pc'[w] = "crashed"
      BY <1>0, <1>18 DEF Crash, Leave, Goto
    <2>. QED
      BY <2>1 DEF RunHeld, LeaseHeld
  <1>. QED
    BY <1>6, <1>8, <1>9, <1>10, <1>11, <1>12, <1>13, <1>14, <1>15, <1>16, <1>17, <1>18
       DEF Act, Step, Inner

\* Every step keeps every row with the worker it names.
LEMMA NextKeepsRowsHeld ==
  ASSUME WellFormed, RowsAreHeld, [Next]_vars
  PROVE  RowsAreHeld'
  <1>1. ASSUME NEW v \in Workers, Act(v), faults' = 0, NEW w \in Workers
        PROVE  (RunHeld(w) /\ LeaseHeld(w))'
    <2>1. RunHeld(w) /\ LeaseHeld(w)
      BY <1>1, RowsChangeHands DEF RowsAreHeld
    <2>. QED
      BY <1>1, <2>1, ActorStaysHeld, OthersStayHeld
  <1>2. CASE Tick \/ (\E a \in Articles : IndexArticle(a)) \/ UNCHANGED vars
    BY <1>2, WorldSteps DEF RowsAreHeld, RunHeld, LeaseHeld, Owns, HoldsLease
  <1>. QED
    BY <1>1, <1>2 DEF Next, Act, RowsAreHeld

\* An invocation that returned without a storage error left no run and no
\* lease in its name, whatever it lost, was refused or gave up on the way.
THEOREM NothingIsAbandoned == Spec => []NoAbandon
  <1>1. Init => RowsAreHeld
    BY NullAssumption DEF Init, RowsAreHeld, RunHeld, LeaseHeld, NoRun, NoLease
  <1>2. WellFormed /\ RowsAreHeld /\ [Next]_vars => RowsAreHeld'
    BY NextKeepsRowsHeld
  <1>3. RowsAreHeld => NoAbandon
    BY DEF RowsAreHeld, RunHeld, LeaseHeld, NoAbandon, Holding, Leasing, Lost
  <1>. QED
    BY <1>1, <1>2, <1>3, AlwaysWellFormed, PTL DEF Spec

----------------------------------------------------------------------------
\* The checkpoint never moves back

\* Checkpoints are snapshots of an index that only grows; what a worker
\* loaded is an earlier checkpoint, or the present one when the revision still
\* says so, and the index it read afterwards has at least that.
SnapshotsGrow ==
    /\ ckpt.snap \subseteq indexed
    /\ ckpt.rev = 0 => ckpt.snap = {}
    /\ \A w \in Workers :
          /\ job[w].ckpt.rev <= ckpt.rev
          /\ job[w].ckpt.rev = ckpt.rev => job[w].ckpt.snap = ckpt.snap
          /\ job[w].ckpt.snap \subseteq indexed
          /\ job[w].current \subseteq indexed
          /\ pc[w] \in Looking => job[w].ckpt.snap \subseteq job[w].current

\* What a worker sees of checkpoint and index after a step: the same, nothing,
\* or what it has just read.
LEMMA ViewSteps ==
  ASSUME WellFormed, NEW w \in Workers, Act(w)
  PROVE  /\ \/ job'[w].ckpt \in {job[w].ckpt, NoCkpt}
            \/ LoadCheckpoint(w) /\ job'[w].ckpt = ckpt
         /\ \/ job'[w].current \in {job[w].current, {}}
            \/ ReadIndex(w) /\ job'[w].current = indexed
         /\ pc'[w] \in Looking => \/ ReadIndex(w) /\ job'[w].current = indexed
                                  \/ pc[w] \in Looking /\ SameView(job[w], job'[w])
  <1>0. Memory /\ job \in [Workers -> Job] /\ pc \in [Workers -> Labels] /\ job[w] \in Job
    BY WellFormedParts DEF Memory
  <1>1. CASE SameView(job[w], job'[w]) /\ (pc'[w] \in Looking => pc[w] \in Looking)
    BY <1>1 DEF SameView
  <1>2. CASE job'[w].ckpt \in {job[w].ckpt, NoCkpt} /\ job'[w].current = {} /\ pc'[w] \notin Looking
    BY <1>2
  <1>a. {"done", "crashed", "claim", "yield", "takeover", "lease", "leaseBusy", "mismatch",
         "failRelease", "load"} \intersect Looking = {}
    BY DEF Looking, Running
  <1>3. ASSUME NEW label \in {"done", "crashed"}, Leave(w, label)
        PROVE  /\ job'[w].ckpt \in {job[w].ckpt, NoCkpt} /\ job'[w].current = {}
               /\ pc'[w] \notin Looking
    BY <1>0, <1>a, <1>3 DEF Leave, Goto, NoJob
  <1>4. ASSUME NEW t, Fail(w, t)
        PROVE  /\ job'[w].ckpt \in {job[w].ckpt, NoCkpt} /\ job'[w].current = {}
               /\ pc'[w] \notin Looking
    BY <1>0, <1>4, FailKeeps, LabelsOfCalls
  <1>5. ASSUME NEW r, NEW took, TakeRun(w, r, took)
        PROVE  /\ job'[w].ckpt \in {job[w].ckpt, NoCkpt} /\ job'[w].current = {}
               /\ pc'[w] \notin Looking
    BY <1>0, <1>a, <1>5 DEF TakeRun, Goto, NoJob
  <1>6. ASSUME UNCHANGED job
        PROVE  SameView(job[w], job'[w])
    BY <1>6 DEF SameView
  <1>7. CASE Inner(w)
    BY <1>0, <1>7, InnerSteps
  <1>8. CASE Admit(w)
    <2>1. ASSUME NEW i \in Invocations,
                 job' = [job EXCEPT ![w] =
                   [NoJob EXCEPT !.inv = i, !.now = clock, !.run = i.ext,
                      !.runRev = run[i.ext].rev,
                      !.queued = run[i.ext].status \in {"absent", "queued"}]],
                 Goto(w, "claim")
          PROVE  /\ job'[w].ckpt \in {job[w].ckpt, NoCkpt} /\ job'[w].current = {}
                 /\ pc'[w] \notin Looking
      BY <1>0, <1>a, <2>1 DEF Goto, NoJob
    <2>. QED
      BY <1>2, <1>3, <1>8, <2>1 DEF Admit
  <1>9. CASE Claim(w) \/ Yield(w) \/ Takeover(w) \/ Refuse(w)
    <2>1. ASSUME NEW q, MeetRival(w, q)
          PROVE  \/ /\ job'[w].ckpt \in {job[w].ckpt, NoCkpt} /\ job'[w].current = {}
                    /\ pc'[w] \notin Looking
                 \/ SameView(job[w], job'[w]) /\ pc'[w] \notin Looking
      <3>1. CASE Leave(w, "done")
        BY <1>3, <3>1
      <3>2. CASE /\ job' = [job EXCEPT ![w] = [job[w] EXCEPT !.rival = q, !.rivalRev = run[q].rev,
                                                             !.rivalExp = run[q].exp]]
                 /\ Goto(w, "yield") \/ Goto(w, "takeover")
        BY <1>0, <1>a, <3>2 DEF Goto, Job, SameView
      <3>. QED
        BY <2>1, <3>1, <3>2 DEF MeetRival
    <2>2. CASE UNCHANGED job /\ Goto(w, "takeover")
      BY <1>0, <1>1, <1>6, <1>a, <2>2 DEF Goto
    <2>3. CASE \E q : MeetRival(w, q)
      BY <1>1, <1>2, <2>1, <2>3
    <2>4. CASE Leave(w, "done") \/ \E r, took : TakeRun(w, r, took)
      BY <1>2, <1>3, <1>5, <2>4
    <2>. QED
      BY <1>9, <2>2, <2>3, <2>4 DEF Claim, Yield, Takeover, Refuse
  <1>10. CASE AcquireLease(w)
    <2>1. ASSUME NEW n, job' = [job EXCEPT ![w].leaseRev = n]
          PROVE  SameView(job[w], job'[w])
      BY <1>0, <2>1 DEF Job, SameView
    <2>2. SameView(job[w], job'[w]) /\ pc'[w] \in {"load", "leaseBusy"}
      BY <1>0, <1>6, <1>10, <2>1 DEF AcquireLease, Goto
    <2>. QED
      BY <1>1, <1>a, <2>2
  <1>11. CASE StartRun(w) \/ RenewLease(w) \/ \E u \in Users \union {None} : RenewRun(w, u)
    <2>1. ASSUME job' = [job EXCEPT ![w].leaseRev = @ + 1]
          PROVE  SameView(job[w], job'[w])
      BY <1>0, <2>1 DEF Job, SameView
    <2>2. ASSUME job' = [job EXCEPT ![w].runRev = @ + 1]
          PROVE  SameView(job[w], job'[w])
      BY <1>0, <2>2 DEF Job, SameView
    <2>3. ASSUME job' = [job EXCEPT ![w].runRev = @ + 1, ![w].now = clock]
          PROVE  SameView(job[w], job'[w])
      BY <1>0, <2>3 DEF Job, SameView
    <2>4. (\E t : Fail(w, t)) \/ SameView(job[w], job'[w])
      BY <1>11, <2>1, <2>2, <2>3 DEF StartRun, RenewLease, RenewRun
    <2>5. (\E t : Fail(w, t)) \/ pc[w] \in Looking \/ pc'[w] \in {"cleanup", "snapshot"}
      BY <1>0, <1>11, LabelsOfCalls DEF StartRun, RenewLease, RenewRun, Goto
    <2>. QED
      BY <1>1, <1>2, <1>4, <2>4, <2>5, LabelsOfCalls
  <1>12. CASE Finish(w) \/ FailFinal(w) \/ FailRun(w) \/ FailRelease(w) \/ Crash(w)
    <2>1. \/ Leave(w, "done") \/ Leave(w, "crashed") \/ Fail(w, clock)
          \/ /\ UNCHANGED job
             /\ pc'[w] \in {"failRun", "failRelease"}
      BY <1>0, <1>12 DEF Finish, FailFinal, FailRun, FailRelease, Crash, Goto
    <2>2. "failRun" \notin Looking
      BY LabelsOfCalls
    <2>. QED
      BY <1>1, <1>2, <1>3, <1>4, <1>6, <1>a, <2>1, <2>2
  <1>13. CASE StorageError(w)
    <2>1. ASSUME NEW b, job' = [job EXCEPT ![w].end = IF b THEN "failed" ELSE @]
          PROVE  SameView(job[w], job'[w])
      BY <1>0, <2>1 DEF Job, SameView
    <2>2. \/ Leave(w, "done") \/ \E t : Fail(w, t)
          \/ SameView(job[w], job'[w]) /\ pc'[w] \in {"failFinal", "failRun", "failRelease"}
      BY <1>0, <1>13, <2>1 DEF StorageError, Goto, NextFailing, Failing
    <2>3. {"failFinal", "failRun", "failRelease"} \intersect Looking = {}
      BY LabelsOfCalls, <1>a
    <2>. QED
      BY <1>1, <1>2, <1>3, <1>4, <2>2, <2>3
  <1>. QED
    BY <1>7, <1>8, <1>9, <1>10, <1>11, <1>12, <1>13 DEF Act, Step, Inner

\* The checkpoint is written by a compare-and-swap against the loaded one,
\* with what was loaded or with the index that was read.
LEMMA CheckpointWrites ==
  ASSUME WellFormed, NEW w \in Workers, Act(w)
  PROVE  /\ indexed' = indexed
         /\ \/ UNCHANGED ckpt
            \/ /\ CheckpointFits(w) /\ ckpt'.rev = ckpt.rev + 1
               /\ \/ ckpt'.snap = job[w].ckpt.snap
                  \/ ckpt'.snap = job[w].current /\ pc[w] \in Looking
               /\ job'[w].ckpt = NoCkpt
  <1>0. Memory /\ job \in [Workers -> Job]
    BY WellFormedParts DEF Memory
  <1>1. ASSUME FinalizeRun(w, Outcome(w)[1], Outcome(w)[2], Outcome(w)[3])
        PROVE  ckpt'.rev = ckpt.rev + 1 /\ ckpt'.snap \in {job[w].ckpt.snap, job[w].current}
    BY <1>1 DEF FinalizeRun, NextCheckpoint, Outcome
  <1>2. ASSUME Leave(w, "done")
        PROVE  job'[w].ckpt = NoCkpt
    BY <1>0, <1>2 DEF Leave, NoJob
  <1>3. CASE Finish(w)
    <2>1. pc[w] \in Looking /\ UNCHANGED indexed
      BY <1>3, LabelsOfCalls DEF Finish
    <2>. QED
      BY <1>1, <1>2, <1>3, <2>1 DEF Finish, CanFinalize
  <1>4. CASE FailFinal(w)
    BY <1>2, <1>4 DEF FailFinal, CanFinalize, FinalizeRun, NextCheckpoint
  <1>5. CASE Inner(w)
    BY <1>0, <1>5, InnerSteps
  <1>6. ~Finish(w) /\ ~FailFinal(w) /\ ~Inner(w) => UNCHANGED <<ckpt, indexed>>
    BY DEF Act, Step, Inner, Admit, Claim, Yield, Takeover, Refuse, AcquireLease, StartRun,
           RenewRun, RenewLease, FailRun, FailRelease, StorageError, Crash
  <1>. QED
    BY <1>3, <1>4, <1>5, <1>6

\* Every step keeps the snapshots in order, and moves the checkpoint forward.
LEMMA NextKeepsSnapshots ==
  ASSUME WellFormed, SnapshotsGrow, [Next]_vars
  PROVE  SnapshotsGrow' /\ ckpt.snap \subseteq ckpt'.snap
  <1>0. job \in [Workers -> Job] /\ ckpt \in Ckpt /\ \A w \in Workers : job[w] \in Job
    BY WellFormedParts DEF Memory, Tables
  <1>a. \A w \in Workers : job[w].ckpt \in Ckpt /\ job[w].ckpt.rev \in Nat
    BY <1>0 DEF Job, Ckpt
  <1>b. ckpt.rev \in Nat /\ NoCkpt.rev = 0 /\ NoCkpt.snap = {}
    BY <1>0 DEF Ckpt, NoCkpt
  <1>1. ASSUME NEW w \in Workers, Act(w)
        PROVE  SnapshotsGrow' /\ ckpt.snap \subseteq ckpt'.snap
    <2>0. OthersRest(w)
      BY <1>1, OnlyOneMoves
    <2>1. CASE ckpt' = ckpt
      <3>1. indexed' = indexed
        BY <1>1, CheckpointWrites
      <3>2. ASSUME NEW v \in Workers
            PROVE  /\ job'[v].ckpt.rev <= ckpt.rev
                   /\ job'[v].ckpt.rev = ckpt.rev => job'[v].ckpt.snap = ckpt.snap
                   /\ job'[v].ckpt.snap \subseteq indexed
                   /\ job'[v].current \subseteq indexed
                   /\ pc'[v] \in Looking => job'[v].ckpt.snap \subseteq job'[v].current
        <4>1. CASE v # w
          BY <2>0, <4>1 DEF OthersRest, SnapshotsGrow
        <4>2. CASE v = w
          <5>1. job'[w].ckpt \in {job[w].ckpt, NoCkpt, ckpt}
            BY <1>1, ViewSteps
          <5>2. /\ job'[w].ckpt.rev <= ckpt.rev
                /\ job'[w].ckpt.rev = ckpt.rev => job'[w].ckpt.snap = ckpt.snap
                /\ job'[w].ckpt.snap \subseteq indexed
            <6>1. CASE job'[w].ckpt = job[w].ckpt
              BY <6>1 DEF SnapshotsGrow
            <6>2. CASE job'[w].ckpt = NoCkpt
              <7>1. job'[w].ckpt.rev = 0 /\ job'[w].ckpt.snap = {}
                BY <1>b, <6>2
              <7>2. (ckpt.rev = 0 => ckpt.snap = {}) /\ 0 <= ckpt.rev
                BY <1>b DEF SnapshotsGrow
              <7>3. job'[w].ckpt.snap \subseteq indexed
                BY <7>1
              <7>4. job'[w].ckpt.rev = ckpt.rev => job'[w].ckpt.snap = ckpt.snap
                BY <7>1, <7>2
              <7>. QED
                BY <7>1, <7>2, <7>3, <7>4
            <6>3. CASE job'[w].ckpt = ckpt
              BY <1>b, <6>3 DEF SnapshotsGrow
            <6>. QED
              BY <5>1, <6>1, <6>2, <6>3
          <5>3. job'[w].current \subseteq indexed
            BY <1>1, ViewSteps DEF SnapshotsGrow
          <5>4. pc'[w] \in Looking => job'[w].ckpt.snap \subseteq job'[w].current
            BY <1>1, <5>2, ViewSteps DEF SnapshotsGrow, SameView
          <5>. QED
            BY <4>2, <5>2, <5>3, <5>4
        <4>. QED
          BY <4>1, <4>2
      <3>. QED
        BY <2>1, <3>1, <3>2 DEF SnapshotsGrow
    <2>2. CASE ckpt' # ckpt
      <3>1. /\ indexed' = indexed /\ job[w].ckpt.rev = ckpt.rev /\ ckpt'.rev = ckpt.rev + 1
            /\ \/ ckpt'.snap = job[w].ckpt.snap
               \/ ckpt'.snap = job[w].current /\ pc[w] \in Looking
            /\ job'[w].ckpt = NoCkpt
        BY <1>1, <2>2, CheckpointWrites DEF CheckpointFits
      <3>2. ckpt.snap \subseteq ckpt'.snap /\ ckpt'.snap \subseteq indexed
        BY <3>1 DEF SnapshotsGrow
      <3>3. ASSUME NEW v \in Workers
            PROVE  /\ job'[v].ckpt.rev < ckpt'.rev
                   /\ job'[v].ckpt.snap \subseteq indexed
                   /\ job'[v].current \subseteq indexed
                   /\ pc'[v] \in Looking => job'[v].ckpt.snap \subseteq job'[v].current
        <4>1. CASE v # w
          BY <1>a, <1>b, <2>0, <3>1, <4>1 DEF OthersRest, SnapshotsGrow
        <4>2. CASE v = w
          <5>1. job'[w].current \subseteq indexed
            BY <1>1, ViewSteps DEF SnapshotsGrow
          <5>. QED
            BY <1>b, <3>1, <4>2, <5>1
        <4>. QED
          BY <4>1, <4>2
      <3>4. ckpt'.rev # 0 /\ \A v \in Workers : job'[v].ckpt.rev <= ckpt'.rev /\ job'[v].ckpt.rev # ckpt'.rev
        <4>1. \A v \in Workers : job'[v].ckpt.rev \in Nat
          BY <1>a, <1>b, <2>0, <3>1 DEF OthersRest
        <4>. QED
          BY <1>b, <3>1, <3>3, <4>1
      <3>. QED
        BY <3>1, <3>2, <3>3, <3>4 DEF SnapshotsGrow
    <2>. QED
      BY <2>1, <2>2
  <1>2. CASE Tick \/ (\E a \in Articles : IndexArticle(a)) \/ UNCHANGED vars
    <2>1. indexed \subseteq indexed'
      BY <1>2 DEF Tick, IndexArticle, vars
    <2>2. UNCHANGED <<ckpt, job, pc>>
      BY <1>2, WorldSteps
    <2>. QED
      BY <2>1, <2>2 DEF SnapshotsGrow
  <1>. QED
    BY <1>1, <1>2 DEF Next, Act

\* No invocation, failed, stale or overlapping, takes an article back out of
\* the checkpoint.
THEOREM CheckpointNeverMovesBack == Spec => SnapshotMonotone
  <1>1. Init => SnapshotsGrow
    BY ConfigAssumption DEF Init, SnapshotsGrow, NoCkpt, NoJob, Looking, Running
  <1>2. WellFormed /\ SnapshotsGrow /\ [Next]_vars => SnapshotsGrow'
    BY NextKeepsSnapshots
  <1>3. WellFormed /\ SnapshotsGrow /\ [Next]_vars => [ckpt.snap \subseteq ckpt'.snap]_ckpt
    BY NextKeepsSnapshots
  <1>. QED
    BY <1>1, <1>2, <1>3, AlwaysWellFormed, PTL DEF Spec, SnapshotMonotone

----------------------------------------------------------------------------
\* A completed run is clean

\* Calls of an invocation that has reconciled the run it holds
Working == Running \union {"start", "cleanup"}
\* Calls between the claim of an item and its end
Midway == {"select", "finishItem", "send", "resolve"} \union Preparing
Busy(i) == i.status \in {"claimed", "sending"}

\* in a run that is held, an item that is claimed or sending is the one its
\* holder works on
CleanAt(w) ==
    (pc[w] \in Working /\ Owns(w)) =>
        \A u \in Users : Busy(item[job[w].run][u]) =>
            pc[w] \in Midway /\ att[w].user = u /\ item[job[w].run][u].owner = w
HeldIsClean == \A w \in Workers : CleanAt(w)

\* Rows that are written over: an ended one is not busy, a moved one stays its
\* owner's.
LEMMA WrittenRow ==
  ASSUME NEW row \in ItemRow
  PROVE  /\ \A status \in ItemDone \union {"pending"} : ~Busy(Ended(row, status))
         /\ \A w, t : Taken(row, w, t).owner = w
         /\ \A status : Moved(row, status).owner = row.owner
  BY DEF Ended, Taken, Moved, ItemRow, Busy, ItemDone

\* An item becomes busy by a claim of the run's owner only.
LEMMA ItemsGetBusy ==
  ASSUME WellFormed, NEW w \in Workers, Act(w), NEW r \in RunIds, NEW u \in Users,
         Busy(item'[r][u])
  PROVE  \/ Busy(item[r][u]) /\ item'[r][u].owner = item[r][u].owner
         \/ /\ ClaimItem(w) /\ Owns(w) /\ pc'[w] = "select" /\ att'[w].user = att[w].user
            /\ r = job[w].run /\ u = att[w].user /\ item'[r][u].owner = w
  <1>0. /\ Tables /\ item \in [RunIds -> [Users -> ItemRow]] /\ item[r][u] \in ItemRow
        /\ pc \in [Workers -> Labels] /\ att \in [Workers -> Attempt]
    BY WellFormedParts DEF Tables, Memory
  <1>1. CASE item'[r][u] = item[r][u]
    BY <1>1
  <1>2. CASE Reconcile(w) \/ FailReconcile(w)
    <2>1. UNCHANGED item \/ Quarantine(job[w].run)
      BY <1>2 DEF Reconcile, FailReconcile
    <2>2. CASE Quarantine(job[w].run)
      <3>1. CASE r = job[w].run
        <4>1. item'[r][u] = CASE item[r][u].status = "sending" -> Ended(item[r][u], "unknown")
                              [] item[r][u].status = "claimed" -> Ended(item[r][u], "pending")
                              [] OTHER -> item[r][u]
          BY <1>0, <2>2, <3>1 DEF Quarantine
        <4>. QED
          BY <1>0, <4>1, WrittenRow DEF Busy, ItemDone
      <3>2. CASE r # job[w].run
        BY <1>0, <1>1, <2>2, <3>2 DEF Quarantine
      <3>. QED
        BY <3>1, <3>2
    <2>. QED
      BY <1>1, <2>1, <2>2
  <1>3. CASE ListSubscribers(w)
    <2>1. item'[r][u] = item[r][u] \/ item'[r][u] = [NoItem EXCEPT !.status = "pending"]
      BY <1>0, <1>3 DEF ListSubscribers
    <2>2. ~Busy([NoItem EXCEPT !.status = "pending"])
      BY DEF NoItem, Busy
    <2>. QED
      BY <1>1, <2>1, <2>2
  <1>4. CASE ClaimItem(w) \/ FinishItem(w) \/ MarkSending(w) \/ Resolve(w)
    <2>0. job[w].run \in RunIds /\ att[w].user \in Users
      BY <1>4, WellFormedParts, MemoryPointwise
         DEF ClaimItem, FinishItem, MarkSending, Resolve, MemoryAt, Lost, Attempting, Preparing
    <2> DEFINE i == item[job[w].run][att[w].user]
    <2>1. i \in ItemRow /\ att[w].fin \in ItemDone
      BY <1>0, <2>0 DEF Attempt
    <2>2. \/ UNCHANGED item
          \/ \E status \in ItemDone : item' = [item EXCEPT ![job[w].run][att[w].user] = Ended(@, status)]
          \/ /\ item' = [item EXCEPT ![job[w].run][att[w].user] = Moved(@, "sending")]
             /\ i.status = "claimed"
          \/ /\ item' = [item EXCEPT ![job[w].run][att[w].user] = Taken(@, w, clock)]
             /\ ClaimItem(w) /\ Owns(w) /\ pc'[w] = "select" /\ att'[w].user = att[w].user
      <3>1. CASE ClaimItem(w)
        <4>1. \/ UNCHANGED item
              \/ /\ item' = [item EXCEPT ![job[w].run][att[w].user] = Taken(@, w, clock)]
                 /\ att' = [att EXCEPT ![w].rev = i.rev + 1]
                 /\ Owns(w) /\ Goto(w, "select")
          BY <3>1 DEF ClaimItem, OwnsLive
        <4>2. ASSUME NEW n, att' = [att EXCEPT ![w].rev = n]
              PROVE  att'[w].user = att[w].user
          BY <1>0, <4>2 DEF Attempt
        <4>. QED
          BY <1>0, <3>1, <4>1, <4>2 DEF Goto
      <3>2. CASE FinishItem(w)
        BY <2>1, <3>2 DEF FinishItem
      <3>3. CASE MarkSending(w)
        BY <3>3 DEF MarkSending, OwnsItem
      <3>4. CASE Resolve(w)
        BY <3>4 DEF Resolve, ItemDone
      <3>. QED
        BY <1>4, <3>1, <3>2, <3>3, <3>4
    <2>3. ASSUME NEW row, item' = [item EXCEPT ![job[w].run][att[w].user] = row],
                 ~(r = job[w].run /\ u = att[w].user)
          PROVE  item'[r][u] = item[r][u]
      <3>1. CASE r # job[w].run
        BY <1>0, <2>3, <3>1
      <3>2. CASE r = job[w].run /\ u # att[w].user
        <4>1. item'[r] = [item[r] EXCEPT ![att[w].user] = row]
          BY <1>0, <2>3, <3>2
        <4>. QED
          BY <1>0, <3>2, <4>1
      <3>. QED
        BY <2>3, <3>1, <3>2
    <2>4. ASSUME NEW row, item' = [item EXCEPT ![job[w].run][att[w].user] = row],
                 r = job[w].run /\ u = att[w].user
          PROVE  item'[r][u] = row
      BY <1>0, <2>4
    <2>5. ASSUME NEW status \in ItemDone, item' = [item EXCEPT ![job[w].run][att[w].user] = Ended(@, status)]
          PROVE  item'[r][u] = item[r][u]
      <3>1. ~Busy(Ended(i, status))
        BY <2>1, <2>5, WrittenRow
      <3>. QED
        BY <2>3, <2>4, <2>5, <3>1
    <2>6. CASE item' = [item EXCEPT ![job[w].run][att[w].user] = Moved(@, "sending")]
               /\ i.status = "claimed"
      <3>1. Moved(i, "sending").owner = i.owner
        BY <2>1, WrittenRow
      <3>2. Busy(i)
        BY <2>6 DEF Busy
      <3>3. CASE r = job[w].run /\ u = att[w].user
        <4>1. item'[r][u] = Moved(i, "sending") /\ item[r][u] = i
          BY <2>4, <2>6, <3>3
        <4>. QED
          BY <3>1, <3>2, <4>1
      <3>4. CASE ~(r = job[w].run /\ u = att[w].user)
        BY <1>1, <2>3, <2>6, <3>4
      <3>. QED
        BY <3>3, <3>4
    <2>7. CASE /\ item' = [item EXCEPT ![job[w].run][att[w].user] = Taken(@, w, clock)]
               /\ ClaimItem(w) /\ Owns(w) /\ pc'[w] = "select" /\ att'[w].user = att[w].user
      <3>1. Taken(i, w, clock).owner = w
        BY <2>1, WrittenRow
      <3>. QED
        BY <1>1, <2>3, <2>4, <2>7, <3>1
    <2>. QED
      BY <1>1, <2>2, <2>5, <2>6, <2>7
  <1>5. \/ UNCHANGED item \/ Reconcile(w) \/ FailReconcile(w) \/ ListSubscribers(w)
        \/ ClaimItem(w) \/ FinishItem(w) \/ MarkSending(w) \/ Resolve(w)
    BY DEF Act, Step, Admit, Claim, Yield, Takeover, Refuse, AcquireLease, LoadCheckpoint,
           StartRun, Cleanup, ReadIndex, PersistInput, RenewRun, RenewLease, ScanDedupe, Select,
           Reserve, WriteFavorites, Release, Send, Finish, FailFinal, FailRun, FailRelease,
           ControlStop, StorageError, Crash
  <1>. QED
    BY <1>1, <1>2, <1>3, <1>4, <1>5

\* A step of another worker leaves a held run as clean as it was.
LEMMA OthersStayClean ==
  ASSUME WellFormed, NEW v \in Workers, NEW w \in Workers, v # w, Act(v), CleanAt(w)
  PROVE  CleanAt(w)'
  <1>1. pc'[w] = pc[w] /\ job'[w] = job[w] /\ att'[w] = att[w]
    BY OnlyOneMoves DEF OthersRest
  <1>. SUFFICES ASSUME pc[w] \in Working, Owns(w)', NEW u \in Users, Busy(item'[job[w].run][u])
                PROVE  pc[w] \in Midway /\ att[w].user = u /\ item'[job[w].run][u].owner = w
    BY <1>1 DEF CleanAt
  <1>2. job[w].run \in RunIds
    BY WellFormedParts, MemoryPointwise
       DEF MemoryAt, Working, Running, Lost
  <1>3. Owns(w) /\ run[job[w].run].owner = w
    BY <1>1, <1>2, RowsChangeHands, NullAssumption DEF Owns
  <1>4. CASE Busy(item[job[w].run][u]) /\ item'[job[w].run][u].owner = item[job[w].run][u].owner
    BY <1>3, <1>4 DEF CleanAt
  <1>5. CASE Owns(v) /\ job[w].run = job[v].run
    BY <1>3, <1>5 DEF Owns
  <1>. QED
    BY <1>2, <1>4, <1>5, ItemsGetBusy

\* Where an invocation works on, it already did, or it has just reconciled.
LEMMA WorkSteps ==
  ASSUME WellFormed, NEW w \in Workers, Act(w), pc'[w] \in Working
  PROVE  \/ Reconcile(w) /\ Quarantine(job[w].run) /\ UNCHANGED job /\ pc'[w] = "start"
         \/ pc[w] \in Working /\ (StartRun(w) \/ RenewLease(w) \/ Inner(w))
         \/ pc[w] \in Working /\ \E u \in Users \union {None} : RenewRun(w, u)
  <1>0. pc \in [Workers -> Labels]
    BY WellFormedParts DEF Memory
  <1>1. ASSUME NEW label, Goto(w, label)
        PROVE  pc'[w] = label
    BY <1>0, <1>1 DEF Goto
  <1>2. ASSUME NEW t, Fail(w, t)
        PROVE  FALSE
    BY <1>1, <1>2 DEF Fail, Working, Running
  <1>3. ASSUME NEW label \in Lost, Leave(w, label)
        PROVE  FALSE
    BY <1>1, <1>3 DEF Leave, Lost, Working, Running
  <1>4. CASE Admit(w) \/ Claim(w) \/ Yield(w) \/ Takeover(w) \/ Refuse(w) \/ AcquireLease(w)
             \/ LoadCheckpoint(w)
    BY <1>1, <1>3, <1>4 DEF Admit, Claim, MeetRival, TakeRun, Yield, Takeover, Refuse, AcquireLease,
                            LoadCheckpoint, Lost, Working, Running
  <1>5. CASE Reconcile(w)
    BY <1>1, <1>2, <1>5 DEF Reconcile
  <1>6. CASE StartRun(w) \/ RenewLease(w) \/ \E u \in Users \union {None} : RenewRun(w, u)
    BY <1>6 DEF StartRun, RenewLease, RenewRun, Working, Running
  <1>7. CASE \/ Cleanup(w) \/ ReadIndex(w) \/ PersistInput(w) \/ ListSubscribers(w) \/ ScanDedupe(w)
             \/ ClaimItem(w) \/ Select(w) \/ Reserve(w) \/ WriteFavorites(w) \/ Release(w)
             \/ FinishItem(w) \/ MarkSending(w) \/ Send(w) \/ Resolve(w)
    <2>1. Inner(w)
      BY <1>7 DEF Inner
    <2>. QED
      BY <1>7, <2>1 DEF Cleanup, ReadIndex, PersistInput, ListSubscribers, ScanDedupe, ClaimItem, Select,
           Reserve, WriteFavorites, Release, FinishItem, MarkSending, Send, Resolve, Working, Running
  <1>8. CASE Finish(w) \/ FailReconcile(w) \/ FailFinal(w) \/ FailRun(w) \/ FailRelease(w)
    BY <1>1, <1>2, <1>3, <1>8 DEF Finish, FailReconcile, FailFinal, FailRun, FailRelease, Lost, Working, Running
  <1>9. CASE ControlStop(w) \/ Crash(w)
    BY <1>2, <1>3, <1>9 DEF ControlStop, Crash, Lost
  <1>10. CASE StorageError(w)
    BY <1>1, <1>2, <1>3, <1>10 DEF StorageError, NextFailing, Failing, Lost, Working, Running
  <1>. QED
    BY <1>4, <1>5, <1>6, <1>7, <1>8, <1>9, <1>10 DEF Act, Step

\* A run that is held while working was held before the step, or reconciled.
LEMMA HeldBefore ==
  ASSUME WellFormed, NEW w \in Workers, Act(w), pc'[w] \in Working, Owns(w)'
  PROVE  \/ Quarantine(job[w].run) /\ job'[w].run = job[w].run /\ pc[w] = "reconcile"
         \/ pc[w] \in Working /\ Owns(w) /\ job'[w].run = job[w].run
  <1>0. Memory /\ job \in [Workers -> Job]
    BY WellFormedParts DEF Memory
  <1>1. CASE Reconcile(w) /\ Quarantine(job[w].run) /\ UNCHANGED job
    BY <1>1 DEF Reconcile
  <1>2. CASE pc[w] \in Working /\ Inner(w)
    BY <1>0, <1>2, InnerSteps DEF SameHold, Owns
  <1>3. CASE pc[w] \in Working /\ RenewLease(w)
    <2>1. CASE job' = [job EXCEPT ![w].leaseRev = @ + 1]
      <3>1. job'[w].run = job[w].run /\ job'[w].runRev = job[w].runRev
        BY <1>0, <2>1 DEF Job
      <3>. QED
        BY <1>3, <3>1 DEF RenewLease, Owns
    <2>2. ASSUME NEW t, Fail(w, t)
          PROVE  FALSE
      BY <1>0, <2>2, FailKeeps DEF Working, Running
    <2>. QED
      BY <1>3, <2>1, <2>2 DEF RenewLease
  <1>4. CASE pc[w] \in Working /\ (StartRun(w) \/ \E u \in Users \union {None} : RenewRun(w, u))
    <2>1. ASSUME NEW t, Fail(w, t)
          PROVE  FALSE
      BY <1>0, <2>1, FailKeeps DEF Working, Running
    <2>2. \/ job' = [job EXCEPT ![w].runRev = @ + 1]
          \/ job' = [job EXCEPT ![w].runRev = @ + 1, ![w].now = clock]
      BY <1>4, <2>1 DEF StartRun, RenewRun
    <2>3. job'[w].run = job[w].run
      BY <1>0, <2>2 DEF Job
    <2>4. Owns(w)
      BY <1>4, <2>1 DEF StartRun, RenewRun, OwnsLive
    <2>. QED
      BY <1>4, <2>3, <2>4
  <1>. QED
    BY <1>1, <1>2, <1>3, <1>4, WorkSteps

\* An attempt goes on with its subscriber, or its item is not busy any more.
LEMMA MidwaySteps ==
  ASSUME WellFormed, NEW w \in Workers, Act(w), pc[w] \in Midway, pc'[w] \in Working
  PROVE  \/ pc'[w] \in Midway /\ att'[w].user = att[w].user
         \/ ~Busy(item'[job[w].run][att[w].user])
  <1>0. /\ Tables /\ Memory /\ pc \in [Workers -> Labels] /\ job \in [Workers -> Job]
        /\ att \in [Workers -> Attempt] /\ item \in [RunIds -> [Users -> ItemRow]]
    BY WellFormedParts DEF Memory, Tables
  <1>1. ASSUME NEW t, Fail(w, t)
        PROVE  FALSE
    BY <1>0, <1>1, FailKeeps DEF Working, Running
  <1>2. ASSUME NEW label, Goto(w, label)
        PROVE  pc'[w] = label
    BY <1>0, <1>2 DEF Goto
  <1>3. job[w].run \in RunIds /\ att[w].user \in Users
    BY WellFormedParts, MemoryPointwise DEF MemoryAt, Lost, Midway, Attempting, Preparing
  <1>4. CASE Select(w)
    <2>1. ASSUME NEW f, att' = [att EXCEPT ![w].fin = f]
          PROVE  att'[w].user = att[w].user
      BY <1>0, <2>1 DEF Attempt
    <2>2. ASSUME NEW S, att' = [att EXCEPT ![w].sel = S]
          PROVE  att'[w].user = att[w].user
      BY <1>0, <2>2 DEF Attempt
    <2>. QED
      BY <1>2, <1>4, <2>1, <2>2 DEF Select, Midway, Preparing
  <1>5. CASE Reserve(w) \/ WriteFavorites(w)
    <2>1. ASSUME NEW f, att' = [att EXCEPT ![w].fin = f]
          PROVE  att'[w].user = att[w].user
      BY <1>0, <2>1 DEF Attempt
    <2>2. ASSUME NEW a, att' = [att EXCEPT ![w].got = @ \union {a}]
          PROVE  att'[w].user = att[w].user
      BY <1>0, <2>2 DEF Attempt
    <2>3. ASSUME NEW b, att' = [att EXCEPT ![w].ok = b]
          PROVE  att'[w].user = att[w].user
      BY <1>0, <2>3 DEF Attempt
    <2>. QED
      BY <1>2, <1>5, <2>1, <2>2, <2>3 DEF Reserve, WriteFavorites, Midway, Preparing
  <1>6. CASE Release(w) \/ MarkSending(w) \/ Send(w)
    <2>1. ASSUME att' = [att EXCEPT ![w].rev = @ + 1]
          PROVE  att'[w].user = att[w].user
      BY <1>0, <2>1 DEF Attempt
    <2>2. ASSUME NEW b, att' = [att EXCEPT ![w].ok = b]
          PROVE  att'[w].user = att[w].user
      BY <1>0, <2>2 DEF Attempt
    <2>. QED
      BY <1>1, <1>2, <1>6, <2>1, <2>2 DEF Release, MarkSending, Send, Midway, Preparing
  <1>7. CASE FinishItem(w) \/ Resolve(w)
    <2>1. att[w].fin \in ItemDone /\ item[job[w].run][att[w].user] \in ItemRow
      BY <1>0, <1>3 DEF Attempt
    <2>2. \E status \in ItemDone : item' = [item EXCEPT ![job[w].run][att[w].user] = Ended(@, status)]
      BY <1>1, <1>7, <2>1 DEF FinishItem, Resolve, ItemDone
    <2>3. ASSUME NEW status \in ItemDone, item' = [item EXCEPT ![job[w].run][att[w].user] = Ended(@, status)]
          PROVE  ~Busy(item'[job[w].run][att[w].user])
      <3>1. item'[job[w].run][att[w].user] = Ended(item[job[w].run][att[w].user], status)
        BY <1>0, <1>3, <2>3
      <3>. QED
        BY <2>1, <2>3, <3>1, WrittenRow
    <2>. QED
      BY <2>2, <2>3
  <1>8. pc[w] \in Midway => ~(StartRun(w) \/ RenewLease(w) \/ \E u \in Users \union {None} : RenewRun(w, u))
    BY DEF StartRun, RenewLease, RenewRun, Midway, Preparing
  <1>9. pc[w] \in Midway => ~Reconcile(w)
    BY DEF Reconcile, Midway, Preparing
  <1>10. pc[w] \in Midway /\ Inner(w) => \/ Select(w) \/ Reserve(w) \/ WriteFavorites(w) \/ Release(w)
                                         \/ MarkSending(w) \/ Send(w) \/ FinishItem(w) \/ Resolve(w)
    <2>1. pc[w] \in Midway /\ ControlStop(w) => FALSE
      BY <1>1 DEF ControlStop
    <2>. QED
      BY <2>1 DEF Inner, LoadCheckpoint, Reconcile, Cleanup, ReadIndex, PersistInput, ListSubscribers,
                  ScanDedupe, ClaimItem, FailReconcile, Midway, Preparing
  <1>. QED
    BY <1>4, <1>5, <1>6, <1>7, <1>8, <1>9, <1>10, WorkSteps

\* A step of the holder leaves its run clean.
LEMMA HolderStaysClean ==
  ASSUME WellFormed, NEW w \in Workers, Act(w), CleanAt(w)
  PROVE  CleanAt(w)'
  <1>. SUFFICES ASSUME pc'[w] \in Working, Owns(w)', NEW u \in Users, Busy(item'[job'[w].run][u])
                PROVE  pc'[w] \in Midway /\ att'[w].user = u /\ item'[job'[w].run][u].owner = w
    BY DEF CleanAt
  <1>0. Tables /\ item \in [RunIds -> [Users -> ItemRow]]
    BY WellFormedParts DEF Tables
  <1>1. pc[w] \notin Lost => job[w].run \in RunIds
    BY WellFormedParts, MemoryPointwise DEF MemoryAt
  <1>2. CASE Quarantine(job[w].run) /\ job'[w].run = job[w].run /\ pc[w] = "reconcile"
    <2>1. job[w].run \in RunIds
      BY <1>1, <1>2 DEF Lost
    <2>2. item[job[w].run][u] \in ItemRow
      BY <1>0, <2>1
    <2>3. item'[job[w].run][u] = CASE item[job[w].run][u].status = "sending" -> Ended(item[job[w].run][u], "unknown")
                                   [] item[job[w].run][u].status = "claimed" -> Ended(item[job[w].run][u], "pending")
                                   [] OTHER -> item[job[w].run][u]
      BY <1>0, <1>2, <2>1 DEF Quarantine
    <2>4. ~Busy(item'[job[w].run][u])
      BY <2>2, <2>3, WrittenRow DEF Busy, ItemDone
    <2>. QED
      BY <1>2, <2>4
  <1>3. CASE pc[w] \in Working /\ Owns(w) /\ job'[w].run = job[w].run
    <2>1. job[w].run \in RunIds
      BY <1>1, <1>3 DEF Lost, Working, Running
    <2>2. CASE Busy(item[job[w].run][u]) /\ item'[job[w].run][u].owner = item[job[w].run][u].owner
      <3>1. pc[w] \in Midway /\ att[w].user = u /\ item[job[w].run][u].owner = w
        BY <1>3, <2>2 DEF CleanAt
      <3>. QED
        BY <1>3, <2>2, <3>1, MidwaySteps
    <2>3. CASE /\ pc'[w] = "select" /\ att'[w].user = att[w].user
               /\ u = att[w].user /\ item'[job[w].run][u].owner = w
      BY <1>3, <2>3 DEF Midway
    <2>. QED
      BY <1>3, <2>1, <2>2, <2>3, ItemsGetBusy
  <1>. QED
    BY <1>2, <1>3, HeldBefore

\* Every step leaves the runs that are held clean.
LEMMA NextKeepsClean ==
  ASSUME WellFormed, HeldIsClean, [Next]_vars
  PROVE  HeldIsClean'
  <1>1. ASSUME NEW v \in Workers, Act(v)
        PROVE  HeldIsClean'
    BY <1>1, OthersStayClean, HolderStaysClean DEF HeldIsClean
  <1>2. CASE Tick \/ (\E a \in Articles : IndexArticle(a)) \/ UNCHANGED vars
    BY <1>2, WorldSteps DEF HeldIsClean, CleanAt, Owns
  <1>. QED
    BY <1>1, <1>2 DEF Next, Act

\* Calls before the subscribers are listed, but for a renewal for nobody
Early == Entering \union Starting \union {"snapshot", "input", "prepare", "subscribers"}
NoPlans(j) == \A u \in Users : j.plans[u] = "absent"
\* an end without plans, and plans without an end of their own
PlansAt(label, j, b) ==
    /\ label \in Early \/ (label = "renewLease" /\ b.user = None) => NoPlans(j)
    /\ label \notin Failing \union Lost =>
          j.end = "plans" \/ (label = "finish" /\ NoPlans(j))
PlansFit == \A w \in Workers : PlansAt(pc[w], job[w], att[w])

\* The plans and the end that a call leaves as they are
SamePlans(j, k) == k.plans = j.plans /\ k.end = j.end

\* Plans are begun once the subscribers are listed, an early end is reached
\* without any.
LEMMA ActorKeepsPlans ==
  ASSUME WellFormed, NEW w \in Workers, Act(w), PlansAt(pc[w], job[w], att[w])
  PROVE  PlansAt(pc'[w], job'[w], att'[w])
  <1>0. /\ Memory /\ pc \in [Workers -> Labels] /\ job \in [Workers -> Job]
        /\ att \in [Workers -> Attempt]
    BY WellFormedParts DEF Memory
  <1>1. ASSUME NEW label, Goto(w, label)
        PROVE  pc'[w] = label
    BY <1>0, <1>1 DEF Goto
  <1>2. ASSUME pc'[w] \in Failing \union Lost
        PROVE  PlansAt(pc'[w], job'[w], att'[w])
    BY <1>2 DEF PlansAt, Early, Failing, Lost, Entering, Refusing, Starting
  <1>3. ASSUME NEW t, Fail(w, t)
        PROVE  PlansAt(pc'[w], job'[w], att'[w])
    BY <1>1, <1>2, <1>3 DEF Fail, Failing
  <1>4. ASSUME NEW label \in Lost, Leave(w, label)
        PROVE  PlansAt(pc'[w], job'[w], att'[w])
    BY <1>1, <1>2, <1>4 DEF Leave
  <1>5. NoPlans(NoJob) /\ NoJob.end = "plans"
    BY DEF NoPlans, NoJob
  <1>6. ASSUME SamePlans(job[w], job'[w]), pc[w] \in Early, pc'[w] \in Early \union {"renewLease"}
        PROVE  PlansAt(pc'[w], job'[w], att'[w])
    <2>1. NoPlans(job[w]) /\ job[w].end = "plans"
      BY <1>6 DEF PlansAt, Early, Failing, Lost, Entering, Refusing, Starting
    <2>. QED
      BY <1>6, <2>1 DEF SamePlans, NoPlans, PlansAt
  <1>7. ASSUME UNCHANGED job
        PROVE  SamePlans(job[w], job'[w])
    BY <1>7 DEF SamePlans
  <1>8. CASE Admit(w)
    <2>1. CASE Leave(w, "done")
      BY <1>4, <2>1 DEF Lost
    <2>2. ASSUME NEW i, Goto(w, "claim"),
                 job' = [job EXCEPT ![w] =
                   [NoJob EXCEPT !.inv = i, !.now = clock, !.run = i.ext,
                      !.runRev = run[i.ext].rev,
                      !.queued = run[i.ext].status \in {"absent", "queued"}]]
          PROVE  PlansAt(pc'[w], job'[w], att'[w])
      <3>1. NoPlans(job'[w]) /\ job'[w].end = "plans"
        BY <1>0, <2>2 DEF NoPlans, NoJob
      <3>. QED
        BY <3>1 DEF PlansAt
    <2>. QED
      BY <1>8, <2>1, <2>2 DEF Admit
  <1>9. CASE Claim(w) \/ Yield(w) \/ Takeover(w) \/ Refuse(w)
    <2>1. ASSUME NEW r, NEW took, TakeRun(w, r, took)
          PROVE  PlansAt(pc'[w], job'[w], att'[w])
      <3>1. NoPlans(job'[w]) /\ job'[w].end = "plans"
        BY <1>0, <2>1 DEF TakeRun, NoPlans, NoJob
      <3>. QED
        BY <3>1 DEF PlansAt
    <2>2. ASSUME NEW q, MeetRival(w, q), pc[w] = "claim"
          PROVE  PlansAt(pc'[w], job'[w], att'[w])
      <3>1. CASE Leave(w, "done")
        BY <1>4, <3>1 DEF Lost
      <3>2. CASE /\ job' = [job EXCEPT ![w] = [job[w] EXCEPT !.rival = q, !.rivalRev = run[q].rev,
                                                        !.rivalExp = run[q].exp]]
                 /\ Goto(w, "yield") \/ Goto(w, "takeover")
        <4>1. SamePlans(job[w], job'[w])
          BY <1>0, <3>2 DEF Job, SamePlans
        <4>2. pc'[w] \in Early /\ pc[w] \in Early
          BY <1>1, <2>2, <3>2 DEF Early, Entering
        <4>. QED
          BY <1>6, <4>1, <4>2
      <3>. QED
        BY <2>2, <3>1, <3>2 DEF MeetRival
    <2>3. ASSUME pc[w] = "yield", Goto(w, "takeover"), UNCHANGED job
          PROVE  PlansAt(pc'[w], job'[w], att'[w])
      BY <1>1, <1>6, <1>7, <2>3 DEF Early, Entering
    <2>. QED
      BY <1>4, <1>9, <2>1, <2>2, <2>3 DEF Claim, Yield, Takeover, Refuse, Lost
  <1>10. CASE AcquireLease(w) \/ LoadCheckpoint(w) \/ StartRun(w) \/ ReadIndex(w)
    <2>1. ASSUME NEW n, job' = [job EXCEPT ![w].leaseRev = n]
          PROVE  SamePlans(job[w], job'[w])
      BY <1>0, <2>1 DEF Job, SamePlans
    <2>2. ASSUME NEW c, job' = [job EXCEPT ![w].ckpt = c]
          PROVE  SamePlans(job[w], job'[w])
      BY <1>0, <2>2 DEF Job, SamePlans
    <2>3. ASSUME job' = [job EXCEPT ![w].runRev = @ + 1]
          PROVE  SamePlans(job[w], job'[w])
      BY <1>0, <2>3 DEF Job, SamePlans
    <2>4. ASSUME NEW c, job' = [job EXCEPT ![w].current = c]
          PROVE  SamePlans(job[w], job'[w])
      BY <1>0, <2>4 DEF Job, SamePlans
    <2>5. \/ \E t : Fail(w, t)
          \/ SamePlans(job[w], job'[w])
      BY <1>7, <1>10, <2>1, <2>2, <2>3, <2>4 DEF AcquireLease, LoadCheckpoint, StartRun, ReadIndex
    <2>6. \/ \E t : Fail(w, t)
          \/ pc[w] \in Early /\ pc'[w] \in Early
      BY <1>1, <1>10 DEF AcquireLease, LoadCheckpoint, StartRun, ReadIndex, Early, Entering, Refusing, Starting
    <2>. QED
      BY <1>3, <1>6, <2>5, <2>6
  <1>11. CASE Reconcile(w) \/ Cleanup(w)
    <2>1. \/ \E t : Fail(w, t)
          \/ UNCHANGED job /\ pc[w] \in Early /\ pc'[w] \in Early
      BY <1>1, <1>11 DEF Reconcile, Cleanup, Early, Starting
    <2>. QED
      BY <1>3, <1>6, <1>7, <2>1
  <1>12. CASE PersistInput(w)
    <2>1. pc[w] = "input" /\ NoPlans(job[w]) /\ job[w].end = "plans"
      BY <1>12 DEF PersistInput, PlansAt, Early, Failing, Lost
    <2>2. ASSUME NEW c, NEW b, job' = [job EXCEPT ![w].cands = c, ![w].end = IF b THEN "idle" ELSE @],
                 Goto(w, IF b THEN "finish" ELSE "prepare")
          PROVE  PlansAt(pc'[w], job'[w], att'[w])
      <3>1. job'[w].plans = job[w].plans /\ job'[w].end = IF b THEN "idle" ELSE job[w].end
        BY <1>0, <2>2 DEF Job
      <3>2. pc'[w] = IF b THEN "finish" ELSE "prepare"
        BY <1>1, <2>2
      <3>3. NoPlans(job'[w])
        BY <2>1, <3>1 DEF NoPlans
      <3>. QED
        BY <2>1, <3>1, <3>2, <3>3 DEF PlansAt
    <2>3. \/ Fail(w, clock)
          \/ \E c, b : /\ job' = [job EXCEPT ![w].cands = c, ![w].end = IF b THEN "idle" ELSE @]
                       /\ Goto(w, IF b THEN "finish" ELSE "prepare")
      BY <1>12, Zenon DEF PersistInput
    <2>. QED
      BY <1>3, <2>2, <2>3
  <1>13. CASE \E u \in Users \union {None} : RenewRun(w, u)
    <2>0. PICK u \in Users \union {None} : RenewRun(w, u)
      BY <1>13
    <2>1. CASE Fail(w, clock)
      BY <1>3, <2>1
    <2>2. CASE /\ job' = [job EXCEPT ![w].runRev = @ + 1, ![w].now = clock]
               /\ att' = [att EXCEPT ![w] = [NoAttempt EXCEPT !.user = u]]
               /\ Goto(w, "renewLease")
      <3>1. SamePlans(job[w], job'[w])
        BY <1>0, <2>2 DEF Job, SamePlans
      <3>2. pc'[w] = "renewLease"
        BY <1>1, <2>2
      <3>3. CASE pc[w] = "prepare"
        BY <1>6, <3>1, <3>2, <3>3 DEF Early
      <3>4. CASE pc[w] = "loop" /\ u \in job[w].todo
        <4>1. att'[w].user = u /\ u # None
          BY <1>0, <2>2, <3>4, NullAssumption DEF NoAttempt, Job
        <4>2. job'[w].end = "plans"
          BY <3>1, <3>4 DEF PlansAt, SamePlans, Failing, Lost
        <4>. QED
          BY <3>2, <4>1, <4>2 DEF PlansAt, Early, Entering, Refusing, Starting
      <3>. QED
        BY <2>0, <3>3, <3>4 DEF RenewRun
    <2>. QED
      BY <2>0, <2>1, <2>2 DEF RenewRun
  <1>14. CASE RenewLease(w)
    <2>1. CASE Fail(w, clock)
      BY <1>3, <2>1
    <2>2. CASE /\ job' = [job EXCEPT ![w].leaseRev = @ + 1] /\ UNCHANGED att
               /\ Goto(w, IF att[w].user = None THEN "subscribers" ELSE "item")
      <3>1. SamePlans(job[w], job'[w])
        BY <1>0, <2>2 DEF Job, SamePlans
      <3>2. pc'[w] = IF att[w].user = None THEN "subscribers" ELSE "item"
        BY <1>1, <2>2
      <3>3. job[w].end = "plans" /\ (att[w].user = None => NoPlans(job[w]))
        BY <1>14 DEF RenewLease, PlansAt, Failing, Lost
      <3>. QED
        BY <3>1, <3>2, <3>3 DEF PlansAt, SamePlans, NoPlans, Early, Entering, Refusing, Starting
    <2>. QED
      BY <1>14, <2>1, <2>2 DEF RenewLease
  <1>15. CASE ListSubscribers(w)
    <2>1. pc[w] = "subscribers" /\ NoPlans(job[w]) /\ job[w].end = "plans"
      BY <1>15 DEF ListSubscribers, PlansAt, Early, Failing, Lost
    <2>2. ASSUME NEW e, job' = [job EXCEPT ![w].end = e], Goto(w, "finish")
          PROVE  PlansAt(pc'[w], job'[w], att'[w])
      <3>1. job'[w].plans = job[w].plans
        BY <1>0, <2>2 DEF Job
      <3>2. NoPlans(job'[w]) /\ pc'[w] = "finish"
        BY <1>1, <2>1, <2>2, <3>1 DEF NoPlans
      <3>. QED
        BY <3>2 DEF PlansAt
    <2>3. ASSUME NEW S, NEW f, job' = [job EXCEPT ![w].todo = S, ![w].seen = f], Goto(w, "scan")
          PROVE  PlansAt(pc'[w], job'[w], att'[w])
      <3>1. job'[w].end = job[w].end
        BY <1>0, <2>3 DEF Job
      <3>2. pc'[w] = "scan"
        BY <1>1, <2>3
      <3>. QED
        BY <2>1, <3>1, <3>2 DEF PlansAt, Early, Entering, Refusing, Starting
    <2>4. \/ Fail(w, clock)
          \/ \E e : job' = [job EXCEPT ![w].end = e] /\ Goto(w, "finish")
          \/ \E S, f : job' = [job EXCEPT ![w].todo = S, ![w].seen = f] /\ Goto(w, "scan")
      BY <1>15, Zenon DEF ListSubscribers
    <2>. QED
      BY <1>3, <2>2, <2>3, <2>4
  <1>16. ASSUME job[w].end = "plans", job'[w].end = job[w].end,
                pc'[w] \notin Early \union {"renewLease"}
         PROVE  PlansAt(pc'[w], job'[w], att'[w])
    BY <1>16 DEF PlansAt
  <1>17. CASE \/ ScanDedupe(w) \/ ClaimItem(w) \/ Select(w) \/ Reserve(w) \/ WriteFavorites(w) \/ Release(w)
              \/ FinishItem(w) \/ MarkSending(w) \/ Send(w) \/ Resolve(w)
    <2>1. job[w].end = "plans"
      BY <1>17 DEF ScanDedupe, ClaimItem, Select, Reserve, WriteFavorites, Release, FinishItem, MarkSending,
                   Send, Resolve, PlansAt, Failing, Lost
    <2>2. ASSUME NEW status, Settle(w, status)
          PROVE  job'[w].end = job[w].end
      BY <1>0, <2>2 DEF Settle, Job
    <2>3. ASSUME NEW f, job' = [job EXCEPT ![w].known = f]
          PROVE  job'[w].end = job[w].end
      BY <1>0, <2>3 DEF Job
    <2>4. \/ Fail(w, clock)
          \/ job'[w].end = job[w].end
      BY <1>17, <2>2, <2>3 DEF ScanDedupe, ClaimItem, Select, Reserve, WriteFavorites, Release, FinishItem,
                               MarkSending, Send, Resolve
    <2>5. \/ Fail(w, clock)
          \/ pc'[w] \in {"loop", "finish"} \union Midway
      BY <1>1, <1>17 DEF ScanDedupe, ClaimItem, Select, Reserve, WriteFavorites, Release, FinishItem,
                         MarkSending, Send, Resolve, Settle, Midway, Preparing
    <2>6. \A label \in {"loop", "finish"} \union Midway : label \notin Early \union {"renewLease"}
      BY DEF Midway, Preparing, Early, Entering, Refusing, Starting
    <2>. QED
      BY <1>3, <1>16, <2>1, <2>4, <2>5, <2>6
  <1>18. CASE Finish(w) \/ FailReconcile(w) \/ FailFinal(w) \/ FailRun(w) \/ FailRelease(w)
              \/ ControlStop(w) \/ Crash(w)
    BY <1>1, <1>2, <1>3, <1>4, <1>18 DEF Finish, FailReconcile, FailFinal, FailRun, FailRelease, ControlStop,
                                         Crash, Failing, Lost
  <1>19. CASE StorageError(w)
    BY <1>1, <1>2, <1>3, <1>4, <1>19 DEF StorageError, NextFailing, Failing, Lost
  <1>. QED
    BY <1>8, <1>9, <1>10, <1>11, <1>12, <1>13, <1>14, <1>15, <1>17, <1>18, <1>19 DEF Act, Step

\* Every step keeps plans and ends in agreement.
LEMMA NextKeepsPlans ==
  ASSUME WellFormed, PlansFit, [Next]_vars
  PROVE  PlansFit'
  <1>1. ASSUME NEW v \in Workers, Act(v)
        PROVE  PlansFit'
    <2>1. OthersRest(v)
      BY <1>1, OnlyOneMoves
    <2>. QED
      BY <1>1, <2>1, ActorKeepsPlans DEF PlansFit, OthersRest
  <1>2. CASE Tick \/ (\E a \in Articles : IndexArticle(a)) \/ UNCHANGED vars
    BY <1>2, WorldSteps DEF PlansFit
  <1>. QED
    BY <1>1, <1>2 DEF Next, Act

\* A run is completed by an invocation that settled every subscriber it
\* planned for without failure or doubt, and with no item left in the middle,
\* whoever worked on the run before it.
THEOREM CompletionIsClean == Spec => CompletedIsClean
  <1> DEFINE CleanStep ==
        \A w \in Workers :
          LET r == job[w].run IN
          (/\ pc[w] = "finish" /\ pc'[w] = "done"
           /\ run[r].status # "completed"
           /\ run'[r].status = "completed")
              =>  \A u \in Users :
                      /\ item[r][u].status \notin {"claimed", "sending"}
                      /\ \/ job[w].plans[u] = "absent"
                         \/ item[r][u].status \in {"succeeded", "skipped"}
             Fit == HeldIsClean /\ PlansFit /\ ReportsHold
  <1>1. Init => Fit
    BY DEF Init, HeldIsClean, CleanAt, Working, Running, PlansFit, PlansAt, Early, Entering, Refusing, Starting,
           Failing, Lost, ReportsHold, NoJob, ItemDone
  <1>2. WellFormed /\ Fit /\ [Next]_vars => Fit'
    BY NextKeepsClean, NextKeepsPlans, NextKeepsReports
  <1>3. WellFormed /\ Fit /\ [Next]_vars => [CleanStep]_vars
    <2>. SUFFICES ASSUME WellFormed, Fit, [Next]_vars, NEW w \in Workers,
                         pc[w] = "finish", pc'[w] = "done",
                         run[job[w].run].status # "completed", run'[job[w].run].status = "completed",
                         NEW u \in Users
                  PROVE  /\ ~Busy(item[job[w].run][u])
                         /\ \/ job[w].plans[u] = "absent"
                            \/ item[job[w].run][u].status \in {"succeeded", "skipped"}
      BY DEF Busy
    <2>0. Tables /\ Memory /\ job \in [Workers -> Job] /\ run \in [RunIds -> RunRow]
      BY WellFormedParts DEF Memory, Tables
    <2>1. job[w].run \in RunIds
      BY WellFormedParts, MemoryPointwise DEF MemoryAt, Lost
    <2>2. Act(w)
      <3>1. ASSUME NEW v \in Workers, Act(v)
            PROVE  v = w
        BY <3>1, OnlyOneMoves DEF OthersRest
      <3>2. CASE Tick \/ (\E a \in Articles : IndexArticle(a)) \/ UNCHANGED vars
        BY <3>2, WorldSteps
      <3>. QED
        BY <3>1, <3>2 DEF Next, Act
    <2>3. Finish(w)
      <3>1. ~StorageError(w) /\ ~Crash(w) /\ ~ControlStop(w)
        BY <2>0 DEF StorageError, Crash, ControlStop, Fail, Leave, Goto, Memory, Entering, Refusing, Starting,
                    Failing
      <3>2. \A u1 \in Users \union {None} : ~RenewRun(w, u1)
        BY DEF RenewRun
      <3>. QED
        BY <2>2, <3>1, <3>2 DEF Act, Step, Admit, Claim, Yield, Takeover, Refuse, Refusing, AcquireLease,
             LoadCheckpoint, Reconcile, StartRun, Cleanup, ReadIndex, PersistInput, RenewLease,
             ListSubscribers, ScanDedupe, ClaimItem, Select, Reserve, WriteFavorites, Release, FinishItem,
             MarkSending, Send, Resolve, FailReconcile, FailFinal, FailRun, FailRelease
    <2>4. /\ Owns(w)
          /\ run' = [run EXCEPT ![job[w].run] = Ended(@, Outcome(w)[1])]
      BY <2>3 DEF Finish, CanFinalize, FinalizeRun
    <2>5. Outcome(w)[1] = "completed"
      BY <2>0, <2>1, <2>4 DEF Ended, RunRow
    <2>6. ~Busy(item[job[w].run][u])
      BY <2>4 DEF HeldIsClean, CleanAt, Working, Running, Midway, Preparing
    <2>7. \/ NoPlans(job[w])
          \/ job[w].plans[u] \notin {"unknown", "failed"}
      <3>1. job[w].end = "plans" \/ NoPlans(job[w])
        BY DEF PlansFit, PlansAt, Failing, Lost
      <3>2. CASE job[w].end = "plans"
        BY <2>5, <3>2 DEF Outcome
      <3>. QED
        BY <3>1, <3>2
    <2>8. job[w].plans[u] \in {"absent"} \union ItemDone
      BY <2>0 DEF Job
    <2>. QED
      BY <2>6, <2>7, <2>8 DEF NoPlans, ReportsHold, Reports, ItemDone
  <1>4. CompletedIsClean <=> [][CleanStep]_vars
    BY DEF CompletedIsClean
  <1>. HIDE DEF CleanStep, Fit
  <1>. QED
    BY <1>1, <1>2, <1>3, <1>4, AlwaysWellFormed, PTL DEF Spec

=============================================================================
