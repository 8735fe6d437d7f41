-------------------------- MODULE DeliveryTypeProofs --------------------------
(***************************************************************************)
(* The state of module Delivery is well formed: TypeOK, together with the  *)
(* two shapes a type cannot say (what an invocation and what an attempt    *)
(* know at each of their calls), is inductive.                             *)
(***************************************************************************)
EXTENDS DeliveryProperties, TLAPS

WellFormed == TypeOK /\ InvocationShape /\ AttemptShape

----------------------------------------------------------------------------
\* Constants and values

\* The empty rows and memories have their types.
LEMMA NullRows ==
    /\ NoRun \in RunRow /\ NoLease \in Lease /\ NoItem \in ItemRow
    /\ NoRow \in Row /\ NoCkpt \in Ckpt
  BY DEF NoRun, RunRow, NoLease, Lease, NoItem, ItemRow, ItemStatus, NoRow, Row,
         NoCkpt, Ckpt, Owner, Modes, Terminal, Active

\* The memory of a process that is gone is well typed.
LEMMA NullMemory == NoJob \in Job /\ NoAttempt \in Attempt
  BY NullRows DEF NoJob, Job, NoAttempt, Attempt, ItemDone, ItemStatus

\* Initially everything is empty.
LEMMA InitWellFormed == Init => WellFormed
  <1> SUFFICES ASSUME Init PROVE WellFormed
    OBVIOUS
  <1>1. TypeOK
    BY NullRows, NullMemory, ConfigAssumption DEF Init, TypeOK, Labels, Lost
  <1>2. InvocationShape /\ AttemptShape
    BY DEF Init, InvocationShape, AttemptShape, Lost, Failing, Attempting,
           Preparing, NoAttempt
  <1>. QED
    BY <1>1, <1>2 DEF WellFormed

----------------------------------------------------------------------------
\* One worker's memory

\* What the memory of a worker at a given call looks like
MemoryAt(label, j, b) ==
    /\ label \in Labels /\ j \in Job /\ b \in Attempt
    /\ label \notin Lost => j.run \in RunIds
    /\ label \notin Lost \union Failing => j.inv \in Invocation
    /\ label \in {"yield", "takeover"} => j.rival \in RunIds
    /\ label \in {"failFinal", "failRun"} => j.end \in {"failed", "unknown"}
    /\ label \in Attempting => b.user \in Users
    /\ b.got \subseteq b.sel
    /\ label \in {"renewLease", "item", "select"} => b.got = {}
    /\ label \in {"mark", "send"} => Workflow = "notify"
    /\ label \in {"favorites", "mark", "send", "resolve"} => b.got = b.sel

Memory ==
    /\ pc \in [Workers -> Labels]
    /\ job \in [Workers -> Job]
    /\ att \in [Workers -> Attempt]
    /\ InvocationShape
    /\ AttemptShape

\* The memory invariant can be shown one worker at a time.
LEMMA MemoryPointwise ==
  ASSUME Memory, NEW w \in Workers
  PROVE  MemoryAt(pc[w], job[w], att[w])
  BY DEF Memory, MemoryAt, InvocationShape, AttemptShape

\* A step that changes the memory of one worker only, to a proper one, keeps
\* all memories proper.
LEMMA MemoryStep ==
  ASSUME Memory, NEW w \in Workers, NEW label, NEW j, NEW b,
         pc' = [pc EXCEPT ![w] = label],
         job' = [job EXCEPT ![w] = j],
         att' = [att EXCEPT ![w] = b],
         MemoryAt(label, j, b)
  PROVE  Memory'
  <1>1. pc' \in [Workers -> Labels] /\ job' \in [Workers -> Job]
        /\ att' \in [Workers -> Attempt]
    BY DEF Memory, MemoryAt
  <1>2. \A v \in Workers : MemoryAt(pc'[v], job'[v], att'[v])
    <2> TAKE v \in Workers
    <2>1. CASE v = w
      BY <2>1 DEF Memory
    <2>2. CASE v # w
      BY <2>2, MemoryPointwise DEF Memory
    <2>. QED
      BY <2>1, <2>2
  <1>. QED
    BY <1>1, <1>2 DEF Memory, MemoryAt, InvocationShape, AttemptShape

\* The invocation returns or dies.
LEMMA LeaveMemory ==
  ASSUME Memory, NEW w \in Workers, NEW label \in {"done", "crashed"},
         Leave(w, label)
  PROVE  Memory'
  <1>1. MemoryAt(label, NoJob, NoAttempt)
    BY NullMemory DEF MemoryAt, Labels, Lost, Attempting, Preparing, NoAttempt
  <1>. QED
    BY <1>1, MemoryStep DEF Leave, Goto

\* The invocation enters failBestEffort.
LEMMA FailMemory ==
  ASSUME Memory, NEW w \in Workers, NEW t \in Nat, Fail(w, t), pc[w] \notin Lost
  PROVE  Memory'
  <1> DEFINE j == [NoJob EXCEPT !.now = t, !.run = job[w].run,
                               !.runRev = job[w].runRev, !.ckpt = job[w].ckpt,
                               !.leaseRev = job[w].leaseRev]
  <1>1. MemoryAt(pc[w], job[w], att[w])
    BY MemoryPointwise
  <1>2. j \in Job /\ j.run = job[w].run
    BY <1>1, NullMemory DEF MemoryAt, Job, NoJob
  <1>3. MemoryAt("failReconcile", j, NoAttempt)
    BY <1>1, <1>2, NullMemory
       DEF MemoryAt, Labels, Failing, Attempting, Preparing, NoAttempt
  <1>. QED
    BY <1>3, MemoryStep DEF Fail, Goto

\* A subscriber's plan is settled.
LEMMA SettleMemory ==
  ASSUME Memory, NEW w \in Workers, NEW status \in ItemDone, Settle(w, status),
         pc[w] \in Attempting
  PROVE  Memory'
  <1> DEFINE u == att[w].user
             j == [job[w] EXCEPT !.todo = @ \ {u}, !.plans[u] = status]
             label == IF job[w].todo = {u} THEN "finish" ELSE "loop"
  <1>1. MemoryAt(pc[w], job[w], att[w])
    BY MemoryPointwise
  <1>2. j \in Job /\ j.run = job[w].run /\ j.inv = job[w].inv
    BY <1>1 DEF MemoryAt, Job
  <1>3. MemoryAt(label, j, NoAttempt)
    BY <1>1, <1>2, NullMemory
       DEF MemoryAt, Labels, Running, Lost, Failing, Attempting, Preparing, NoAttempt
  <1>. QED
    BY <1>3, MemoryStep DEF Settle, Goto

\* Only the label moves.
LEMMA GotoMemory ==
  ASSUME Memory, NEW w \in Workers, NEW label, Goto(w, label),
         UNCHANGED <<job, att>>, MemoryAt(label, job[w], att[w])
  PROVE  Memory'
  <1>1. job' = [job EXCEPT ![w] = job[w]] /\ att' = [att EXCEPT ![w] = att[w]]
    BY DEF Memory
  <1>. QED
    BY <1>1, MemoryStep DEF Goto

\* Only the label and one of the two records move.
LEMMA JobMemory ==
  ASSUME Memory, NEW w \in Workers, NEW label, NEW j, Goto(w, label),
         job' = [job EXCEPT ![w] = j], UNCHANGED att, MemoryAt(label, j, att[w])
  PROVE  Memory'
  <1>1. att' = [att EXCEPT ![w] = att[w]]
    BY DEF Memory
  <1>. QED
    BY <1>1, MemoryStep DEF Goto

\* A step that only replaces one attempt and its label keeps every memory.
LEMMA AttemptMemory ==
  ASSUME Memory, NEW w \in Workers, NEW label, NEW b, Goto(w, label),
         att' = [att EXCEPT ![w] = b], UNCHANGED job, MemoryAt(label, job[w], b)
  PROVE  Memory'
  <1>1. job' = [job EXCEPT ![w] = job[w]]
    BY DEF Memory
  <1>. QED
    BY <1>1, MemoryStep DEF Goto

----------------------------------------------------------------------------
\* The tables

Tables ==
    /\ run \in [RunIds -> RunRow]
    /\ lease \in Lease
    /\ item \in [RunIds -> [Users -> ItemRow]]
    /\ input \in [RunIds -> SUBSET Articles]
    /\ dedupe \in [Users -> [Articles -> Row]]
    /\ ckpt \in Ckpt
    /\ fav \in [Users -> SUBSET Articles]
    /\ indexed \in SUBSET Articles
    /\ clock \in Nat
    /\ faults \in Nat
    /\ sent \in [Users -> [Articles -> Nat]]

\* WellFormed is what it says of the tables and of the memories.
LEMMA WellFormedParts == WellFormed <=> Tables /\ Memory
  BY DEF WellFormed, TypeOK, Tables, Memory

\* ... and so it is after a step.
LEMMA WellFormedPartsPrimed == WellFormed' <=> Tables' /\ Memory'
  BY DEF WellFormed, TypeOK, Tables, Memory

\* Every way of writing a row keeps its type.
LEMMA RunWrites ==
  ASSUME NEW row \in RunRow
  PROVE  /\ \A w \in Workers, t \in Nat : Taken(row, w, t) \in RunRow
         /\ \A t \in Nat : Renewed(row, t) \in RunRow
         /\ Moved(row, "running") \in RunRow
         /\ \A status \in Terminal : Ended(row, status) \in RunRow
  <1>1. row.rev + 1 \in Nat /\ \A t \in Nat : t + LeaseLen \in Nat
    BY ConfigAssumption DEF RunRow
  <1>. QED
    BY <1>1 DEF Taken, Renewed, Moved, Ended, RunRow, Owner, Active

\* Claiming, marking and ending an item row yield item rows.
LEMMA ItemWrites ==
  ASSUME NEW row \in ItemRow
  PROVE  /\ \A w \in Workers, t \in Nat : Taken(row, w, t) \in ItemRow
         /\ Moved(row, "sending") \in ItemRow
         /\ \A status \in ItemDone \union {"pending"} : Ended(row, status) \in ItemRow
  <1>1. row.rev + 1 \in Nat /\ \A t \in Nat : t + LeaseLen \in Nat
    BY ConfigAssumption DEF ItemRow
  <1>. QED
    BY <1>1 DEF Taken, Moved, Ended, ItemRow, ItemStatus, Owner

\* Doubting and resolving a dedupe row yield dedupe rows.
LEMMA RowWrites ==
  ASSUME NEW row \in Row
  PROVE  /\ Doubted(row) \in Row
         /\ \A t \in Nat, status \in {"confirmed", "unknown"} :
              Resolved(row, status, t) \in Row
  BY DEF Doubted, Resolved, Row, Owner

\* A renewed or released lease row is a lease row.
LEMMA LeaseWrites ==
  ASSUME lease \in Lease
  PROVE  /\ \A t \in Nat : Renewed(lease, t) \in Lease
         /\ ReleasedLease \in Lease
  <1>1. lease.rev + 1 \in Nat /\ \A t \in Nat : t + LeaseLen \in Nat
    BY ConfigAssumption DEF Lease
  <1>. QED
    BY <1>1 DEF Renewed, ReleasedLease, Lease, Owner

\* ReconcileAfterTakeover keeps the types of the two tables it writes.
LEMMA QuarantineTables ==
  ASSUME Tables, NEW r \in RunIds, Quarantine(r)
  PROVE  /\ item' \in [RunIds -> [Users -> ItemRow]]
         /\ dedupe' \in [Users -> [Articles -> Row]]
  <1>1. item' \in [RunIds -> [Users -> ItemRow]]
    <2>1. ASSUME NEW u \in Users
          PROVE  /\ Ended(item[r][u], "unknown") \in ItemRow
                 /\ Ended(item[r][u], "pending") \in ItemRow
                 /\ item[r][u] \in ItemRow
      BY ItemWrites DEF Tables, ItemDone
    <2>. QED
      BY <2>1 DEF Quarantine, Tables
  <1>2. dedupe' \in [Users -> [Articles -> Row]]
    <2>1. ASSUME NEW u \in Users, NEW a \in Articles
          PROVE  /\ dedupe[u][a] \in Row
                 /\ Doubted(dedupe[u][a]) \in Row
      BY RowWrites DEF Tables
    <2>. QED
      BY <2>1, NullRows DEF Quarantine
  <1>. QED
    BY <1>1, <1>2

\* Finalisation keeps the types of run, checkpoint and lease.
LEMMA FinalizeTables ==
  ASSUME Tables, NEW w \in Workers, NEW status \in Terminal,
         NEW cs \in {"idle", "completed", "skipped", "failed", "unknown"},
         NEW snap \in SUBSET Articles,
         FinalizeRun(w, status, cs, snap)
  PROVE  run' \in [RunIds -> RunRow] /\ ckpt' \in Ckpt /\ lease' \in Lease
  <1>1. run' \in [RunIds -> RunRow]
    BY RunWrites DEF FinalizeRun, Tables
  <1>2. ckpt' \in Ckpt /\ lease' \in Lease
    <2>1. ckpt.rev + 1 \in Nat
      BY DEF Tables, Ckpt
    <2>. QED
      BY <2>1, LeaseWrites DEF FinalizeRun, Tables, NextCheckpoint, Ckpt
  <1>. QED
    BY <1>1, <1>2

----------------------------------------------------------------------------
\* Admission

\* Admission keeps every type and memory.
LEMMA AdmitWF ==
  ASSUME WellFormed, NEW w \in Workers, Admit(w)
  PROVE  WellFormed'
  <1>0. Tables /\ Memory /\ pc[w] = "idle"
    BY WellFormedParts DEF Admit
  <1>. PICK i \in Invocations :
        /\ run' = IF run[i.ext].status = "absent"
                  THEN [run EXCEPT ![i.ext] =
                          [NoRun EXCEPT !.status = "queued", !.mode = i.mode,
                                        !.target = i.target]]
                  ELSE run
        /\ \/ run[i.ext].status \in Terminal /\ Leave(w, "done")
           \/ /\ run[i.ext].status \notin Terminal
              /\ job' = [job EXCEPT ![w] =
                   [NoJob EXCEPT !.inv = i, !.now = clock, !.run = i.ext,
                      !.runRev = run[i.ext].rev,
                      !.queued = run[i.ext].status \in {"absent", "queued"}]]
              /\ Goto(w, "claim")
              /\ UNCHANGED att
    BY DEF Admit
  <1>1. i \in Invocation
    BY ConfigAssumption
  <1>2. Tables'
    <2>1. run' \in [RunIds -> RunRow]
      BY <1>0, <1>1, NullRows DEF Tables, Invocation, RunRow
    <2>. QED
      BY <1>0, <2>1 DEF Admit, Tables
  <1>3. Memory'
    <2>1. CASE Leave(w, "done")
      BY <1>0, <2>1, LeaveMemory
    <2>2. CASE /\ job' = [job EXCEPT ![w] =
                   [NoJob EXCEPT !.inv = i, !.now = clock, !.run = i.ext,
                      !.runRev = run[i.ext].rev,
                      !.queued = run[i.ext].status \in {"absent", "queued"}]]
               /\ Goto(w, "claim")
               /\ UNCHANGED att
      <3> DEFINE j == [NoJob EXCEPT !.inv = i, !.now = clock, !.run = i.ext,
                      !.runRev = run[i.ext].rev,
                      !.queued = run[i.ext].status \in {"absent", "queued"}]
      <3>1. j \in Job /\ j.run \in RunIds /\ j.inv \in Invocation
        <4>1. /\ i.ext \in RunIds
              /\ run[i.ext].rev \in Nat
              /\ clock \in Nat
              /\ (run[i.ext].status \in {"absent", "queued"}) \in BOOLEAN
          BY <1>0, <1>1 DEF Invocation, Tables, RunRow
        <4>. QED
          BY <1>1, <4>1, NullMemory DEF Job
      <3>2. MemoryAt("claim", j, att[w])
        BY <1>0, <3>1, MemoryPointwise
           DEF MemoryAt, Labels, Entering, Lost, Failing, Attempting, Preparing
      <3>3. att' = [att EXCEPT ![w] = att[w]]
        BY <1>0, <2>2 DEF Memory
      <3>. QED
        <4>1. job' = [job EXCEPT ![w] = j]
          BY <2>2
        <4>. HIDE DEF j
        <4>. QED
          BY <1>0, <2>2, <3>2, <3>3, <4>1, MemoryStep DEF Goto
    <2>. QED
      BY <2>1, <2>2
  <1>. QED
    BY <1>2, <1>3, WellFormedPartsPrimed

\* ClaimRun with the context check
LEMMA TakeRunWF ==
  ASSUME Tables, Memory, NEW w \in Workers, NEW r \in RunIds,
         NEW took \in BOOLEAN, TakeRun(w, r, took), pc[w] \in Entering
  PROVE  run' \in [RunIds -> RunRow] /\ Memory'
  <1> DEFINE j == [NoJob EXCEPT !.inv = job[w].inv, !.now = job[w].now,
                               !.run = r, !.runRev = run[r].rev + 1,
                               !.took = took]
             label == IF SameContext(w, r) THEN "lease" ELSE "mismatch"
  <1>1. MemoryAt(pc[w], job[w], att[w])
    BY MemoryPointwise
  <1>2. job[w].now \in Nat /\ job[w].inv \in Invocation
    BY <1>1 DEF MemoryAt, Job, Lost, Failing, Entering, Refusing
  <1>a. job[w].now + LeaseLen \in Nat /\ run[r].rev + 1 \in Nat
    BY <1>2, ConfigAssumption DEF Tables, RunRow
  <1>3. run' \in [RunIds -> RunRow]
    BY <1>2, RunWrites DEF TakeRun, Tables
  <1>4. j \in Job /\ j.run = r /\ j.inv = job[w].inv
    BY <1>2, <1>a, NullMemory DEF Job, NoJob
  <1>5. MemoryAt(label, j, att[w])
    BY <1>1, <1>2, <1>4
       DEF MemoryAt, Labels, Entering, Refusing, Lost, Failing, Attempting, Preparing
  <1>6. att' = [att EXCEPT ![w] = att[w]]
    BY DEF Memory, TakeRun
  <1>. QED
    BY <1>3, <1>5, <1>6, MemoryStep DEF TakeRun, Goto

\* ClaimRun keeps every type and memory.
LEMMA ClaimWF ==
  ASSUME WellFormed, NEW w \in Workers, Claim(w)
  PROVE  WellFormed'
  <1>0. Tables /\ Memory /\ pc[w] = "claim" /\ MemoryAt(pc[w], job[w], att[w])
    BY WellFormedParts, MemoryPointwise DEF Claim
  <1>1. job[w].run \in RunIds /\ job[w].inv \in Invocation
    BY <1>0 DEF MemoryAt, Lost, Failing
  <1>2. CASE Leave(w, "done") /\ UNCHANGED run
    BY <1>0, <1>2, LeaveMemory, WellFormedPartsPrimed DEF Claim, Tables
  <1>3. ASSUME NEW q \in RunIds, MeetRival(w, q)
        PROVE  WellFormed'
    <2> DEFINE j == [job[w] EXCEPT !.rival = q, !.rivalRev = run[q].rev,
                                   !.rivalExp = run[q].exp]
    <2>1. j \in Job /\ j.run = job[w].run /\ j.inv = job[w].inv /\ j.rival = q
      BY <1>0 DEF MemoryAt, Job, Tables, RunRow
    <2>2. /\ MemoryAt("yield", j, att[w])
          /\ MemoryAt("takeover", j, att[w])
      BY <1>0, <1>1, <2>1
         DEF MemoryAt, Labels, Entering, Lost, Failing, Attempting, Preparing
    <2>3. Memory'
      <3>1. CASE /\ Goto(w, "yield") \/ Goto(w, "takeover")
                 /\ job' = [job EXCEPT ![w] = j]
                 /\ UNCHANGED att
        <4>1. att' = [att EXCEPT ![w] = att[w]]
          BY <1>0, <3>1 DEF Memory
        <4>. QED
          <5>. HIDE DEF j
          <5>. QED
            BY <1>0, <2>2, <3>1, <4>1, MemoryStep DEF Goto
      <3>2. CASE Leave(w, "done")
        BY <1>0, <3>2, LeaveMemory
      <3>. QED
        BY <1>3, <3>1, <3>2 DEF MeetRival
    <2>. QED
      BY <1>0, <1>3, <2>3, WellFormedPartsPrimed DEF Claim, MeetRival, Tables
  <1>4. CASE TakeRun(w, job[w].run, FALSE)
    <2>1. run' \in [RunIds -> RunRow] /\ Memory'
      BY <1>0, <1>1, <1>4, TakeRunWF DEF Entering
    <2>. QED
      BY <1>0, <2>1, WellFormedPartsPrimed DEF Claim, Tables
  <1>. QED
    BY <1>2, <1>3, <1>4 DEF Claim, Rivals

\* Withdrawing the queued candidate keeps every type and memory.
LEMMA YieldWF ==
  ASSUME WellFormed, NEW w \in Workers, Yield(w)
  PROVE  WellFormed'
  <1>0. Tables /\ Memory /\ pc[w] = "yield" /\ MemoryAt(pc[w], job[w], att[w])
    BY WellFormedParts, MemoryPointwise DEF Yield
  <1>1. Tables'
    <2>1. run' \in [RunIds -> RunRow]
      BY <1>0, RunWrites DEF Yield, Tables, Terminal
    <2>. QED
      BY <1>0, <2>1 DEF Yield, Tables
  <1>2. Memory'
    <2>1. CASE Leave(w, "done")
      BY <1>0, <2>1, LeaveMemory
    <2>2. CASE Goto(w, "takeover") /\ UNCHANGED <<job, att>>
      <3>1. MemoryAt("takeover", job[w], att[w])
        BY <1>0 DEF MemoryAt, Labels, Entering, Lost, Failing, Attempting, Preparing
      <3>. QED
        BY <1>0, <2>2, <3>1, GotoMemory
    <2>. QED
      BY <2>1, <2>2 DEF Yield
  <1>. QED
    BY <1>1, <1>2, WellFormedPartsPrimed

\* Taking over an expired rival keeps every type and memory.
LEMMA TakeoverWF ==
  ASSUME WellFormed, NEW w \in Workers, Takeover(w)
  PROVE  WellFormed'
  <1>0. Tables /\ Memory /\ pc[w] = "takeover" /\ MemoryAt(pc[w], job[w], att[w])
    BY WellFormedParts, MemoryPointwise DEF Takeover
  <1>1. CASE Leave(w, "done") /\ UNCHANGED run
    BY <1>0, <1>1, LeaveMemory, WellFormedPartsPrimed DEF Takeover, Tables
  <1>2. CASE TakeRun(w, job[w].rival, TRUE)
    <2>1. job[w].rival \in RunIds
      BY <1>0 DEF MemoryAt
    <2>2. run' \in [RunIds -> RunRow] /\ Memory'
      BY <1>0, <1>2, <2>1, TakeRunWF DEF Entering
    <2>. QED
      BY <1>0, <2>2, WellFormedPartsPrimed DEF Takeover, Tables
  <1>. QED
    BY <1>1, <1>2 DEF Takeover

\* Refusing a claimed run keeps every type and memory.
LEMMA RefuseWF ==
  ASSUME WellFormed, NEW w \in Workers, Refuse(w)
  PROVE  WellFormed'
  <1>0. Tables /\ Memory /\ Leave(w, "done")
    BY WellFormedParts DEF Refuse
  <1>1. run' \in [RunIds -> RunRow]
    <2>1. (IF pc[w] = "mismatch" THEN "failed" ELSE "skipped") \in Terminal
      BY DEF Terminal
    <2>. QED
      BY <1>0, <2>1, RunWrites DEF Refuse, Tables
  <1>2. Tables'
    BY <1>0, <1>1 DEF Refuse, Tables
  <1>. QED
    BY <1>0, <1>2, LeaveMemory, WellFormedPartsPrimed

\* Acquiring the workflow lease keeps every type and memory.
LEMMA AcquireLeaseWF ==
  ASSUME WellFormed, NEW w \in Workers, AcquireLease(w)
  PROVE  WellFormed'
  <1>0. Tables /\ Memory /\ pc[w] = "lease" /\ MemoryAt(pc[w], job[w], att[w])
    BY WellFormedParts, MemoryPointwise DEF AcquireLease
  <1>a. job[w].now + LeaseLen \in Nat /\ lease.rev + 1 \in Nat
    BY <1>0, ConfigAssumption DEF Tables, Lease, MemoryAt, Job
  <1>1. lease' \in Lease
    BY <1>0, <1>a DEF AcquireLease, Tables, Lease, Owner, MemoryAt, Job
  <1>2. Tables'
    BY <1>0, <1>1 DEF AcquireLease, Tables
  <1>3. att' = [att EXCEPT ![w] = att[w]]
    BY <1>0 DEF AcquireLease, Memory
  <1>4. CASE Goto(w, "leaseBusy") /\ UNCHANGED job
    <2>1. MemoryAt("leaseBusy", job[w], att[w])
      BY <1>0 DEF MemoryAt, Labels, Entering, Refusing, Lost, Failing, Attempting, Preparing
    <2>2. UNCHANGED att
      BY DEF AcquireLease
    <2>3. Memory'
      BY <1>0, <1>4, <2>1, <2>2, GotoMemory
    <2>. QED
      BY <1>2, <2>3, WellFormedPartsPrimed
  <1>5. CASE Goto(w, "load") /\ job' = [job EXCEPT ![w].leaseRev = lease.rev + 1]
    <2> DEFINE j == [job[w] EXCEPT !.leaseRev = lease.rev + 1]
    <2>1. j \in Job /\ j.run = job[w].run /\ j.inv = job[w].inv
      BY <1>0, <1>a DEF MemoryAt, Job
    <2>2. MemoryAt("load", j, att[w])
      BY <1>0, <2>1 DEF MemoryAt, Labels, Starting, Lost, Failing, Attempting, Preparing
    <2>3. Memory'
      BY <1>0, <1>3, <1>5, <2>2, MemoryStep DEF Goto
    <2>. QED
      BY <1>2, <2>3, WellFormedPartsPrimed
  <1>. QED
    BY <1>4, <1>5 DEF AcquireLease

\* Loading the checkpoint keeps every type and memory.
LEMMA LoadCheckpointWF ==
  ASSUME WellFormed, NEW w \in Workers, LoadCheckpoint(w)
  PROVE  WellFormed'
  <1>0. Tables /\ Memory /\ pc[w] = "load" /\ MemoryAt(pc[w], job[w], att[w])
    BY WellFormedParts, MemoryPointwise DEF LoadCheckpoint
  <1> DEFINE j == [job[w] EXCEPT !.ckpt = ckpt]
  <1>1. j \in Job /\ j.run = job[w].run /\ j.inv = job[w].inv
    BY <1>0 DEF MemoryAt, Job, Tables
  <1>2. MemoryAt("reconcile", j, att[w])
    BY <1>0, <1>1 DEF MemoryAt, Labels, Starting, Running,
             Failing, Lost, Attempting, Preparing
  <1>3. job' = [job EXCEPT ![w] = j] /\ Goto(w, "reconcile") /\ UNCHANGED att
    BY DEF LoadCheckpoint
  <1>4. Tables'
    BY <1>0 DEF LoadCheckpoint, Tables
  <1>. HIDE DEF j
  <1>. QED
    BY <1>0, <1>2, <1>3, <1>4, JobMemory, WellFormedPartsPrimed

\* ReconcileAfterTakeover keeps every type and memory.
LEMMA ReconcileWF ==
  ASSUME WellFormed, NEW w \in Workers, Reconcile(w)
  PROVE  WellFormed'
  <1>0. Tables /\ Memory /\ pc[w] = "reconcile" /\ MemoryAt(pc[w], job[w], att[w])
    BY WellFormedParts, MemoryPointwise DEF Reconcile
  <1>1. job[w].run \in RunIds /\ job[w].now \in Nat
    BY <1>0 DEF MemoryAt, Job, Lost
  <1>2. CASE Quarantine(job[w].run) /\ Goto(w, "start") /\ UNCHANGED <<job, att>>
    <2>1. Tables'
      BY <1>0, <1>1, <1>2, QuarantineTables DEF Reconcile, Tables
    <2>2. MemoryAt("start", job[w], att[w])
      BY <1>0 DEF MemoryAt, Labels, Starting, Running,
             Failing, Lost, Attempting, Preparing
    <2>. QED
      BY <1>0, <1>2, <2>1, <2>2, GotoMemory, WellFormedPartsPrimed
  <1>3. CASE Fail(w, job[w].now) /\ UNCHANGED <<item, dedupe>>
    <2>1. Tables'
      BY <1>0, <1>3 DEF Reconcile, Tables
    <2>. QED
      BY <1>0, <1>1, <1>3, <2>1, FailMemory, WellFormedPartsPrimed DEF Lost
  <1>. QED
    BY <1>2, <1>3 DEF Reconcile

\* Starting the run keeps every type and memory.
LEMMA StartRunWF ==
  ASSUME WellFormed, NEW w \in Workers, StartRun(w)
  PROVE  WellFormed'
  <1>0. Tables /\ Memory /\ pc[w] = "start" /\ MemoryAt(pc[w], job[w], att[w])
    BY WellFormedParts, MemoryPointwise DEF StartRun
  <1>1. job[w].run \in RunIds /\ job[w].now \in Nat
    BY <1>0 DEF MemoryAt, Job, Lost
  <1>2. ASSUME run' = [run EXCEPT ![job[w].run] = Moved(@, "running")],
               job' = [job EXCEPT ![w].runRev = @ + 1],
               Goto(w, IF Retention > 0 THEN "cleanup" ELSE "snapshot"),
               UNCHANGED att
        PROVE  WellFormed'
    <2> DEFINE j == [job[w] EXCEPT !.runRev = @ + 1]
               label == IF Retention > 0 THEN "cleanup" ELSE "snapshot"
    <2>1. job[w].runRev + 1 \in Nat
      BY <1>0 DEF MemoryAt, Job
    <2>2. j \in Job /\ j.run = job[w].run /\ j.inv = job[w].inv
      BY <1>0, <2>1 DEF MemoryAt, Job
    <2>3. MemoryAt(label, j, att[w])
      BY <1>0, <2>2 DEF MemoryAt, Labels, Starting, Running,
             Failing, Lost, Attempting, Preparing
    <2>4. Tables'
      BY <1>0, <1>1, <1>2, RunWrites DEF StartRun, Tables
    <2>5. job' = [job EXCEPT ![w] = j]
      BY <1>2
    <2>. HIDE DEF j
    <2>. QED
      BY <1>0, <1>2, <2>3, <2>4, <2>5, JobMemory, WellFormedPartsPrimed
  <1>3. CASE Fail(w, job[w].now) /\ UNCHANGED run
    <2>1. Tables'
      BY <1>0, <1>3 DEF StartRun, Tables
    <2>. QED
      BY <1>0, <1>1, <1>3, <2>1, FailMemory, WellFormedPartsPrimed DEF Lost
  <1>. QED
    BY <1>2, <1>3 DEF StartRun

\* Retention keeps every type and memory.
LEMMA CleanupWF ==
  ASSUME WellFormed, NEW w \in Workers, Cleanup(w)
  PROVE  WellFormed'
  <1>0. Tables /\ Memory /\ pc[w] = "cleanup" /\ MemoryAt(pc[w], job[w], att[w])
    BY WellFormedParts, MemoryPointwise DEF Cleanup
  <1>1. Tables'
    BY <1>0, NullRows DEF Cleanup, Tables
  <1>2. MemoryAt("snapshot", job[w], att[w])
    BY <1>0 DEF MemoryAt, Labels, Starting, Running,
             Failing, Lost, Attempting, Preparing
  <1>. QED
    BY <1>0, <1>1, <1>2, GotoMemory, WellFormedPartsPrimed DEF Cleanup

----------------------------------------------------------------------------
\* Execution under the lease

\* Reading the index keeps every type and memory.
LEMMA ReadIndexWF ==
  ASSUME WellFormed, NEW w \in Workers, ReadIndex(w)
  PROVE  WellFormed'
  <1>0. Tables /\ Memory /\ pc[w] = "snapshot" /\ MemoryAt(pc[w], job[w], att[w])
    BY WellFormedParts, MemoryPointwise DEF ReadIndex
  <1> DEFINE j == [job[w] EXCEPT !.current = indexed]
  <1>1. j \in Job /\ j.run = job[w].run /\ j.inv = job[w].inv
    BY <1>0 DEF MemoryAt, Job, Tables
  <1>2. MemoryAt("input", j, att[w])
    BY <1>0, <1>1 DEF MemoryAt, Labels, Starting, Running,
             Failing, Lost, Attempting, Preparing
  <1>3. job' = [job EXCEPT ![w] = j] /\ Goto(w, "input") /\ UNCHANGED att
    BY DEF ReadIndex
  <1>4. Tables'
    BY <1>0 DEF ReadIndex, Tables
  <1>. HIDE DEF j
  <1>. QED
    BY <1>0, <1>2, <1>3, <1>4, JobMemory, WellFormedPartsPrimed

\* Persisting the input keeps every type and memory.
LEMMA PersistInputWF ==
  ASSUME WellFormed, NEW w \in Workers, PersistInput(w)
  PROVE  WellFormed'
  <1>0. Tables /\ Memory /\ pc[w] = "input" /\ MemoryAt(pc[w], job[w], att[w])
    BY WellFormedParts, MemoryPointwise DEF PersistInput
  <1> DEFINE r == job[w].run
             src == IF input[r] # {} THEN input[r] ELSE Source(w)
             end == IF src = {} THEN "idle" ELSE job[w].end
             j == [job[w] EXCEPT !.cands = src \cap indexed, !.end = end]
             label == IF src = {} THEN "finish" ELSE "prepare"
  <1>1. r \in RunIds /\ job[w].inv \in Invocation
    BY <1>0 DEF MemoryAt, Lost, Failing
  <1>2. src \in SUBSET Articles
    BY <1>0, <1>1 DEF Tables, Source, Invocation, MemoryAt, Job
  <1>3. ASSUME input' = [input EXCEPT ![r] = src],
               job' = [job EXCEPT ![w].cands = src \cap indexed,
                                  ![w].end = IF src = {} THEN "idle" ELSE @],
               Goto(w, label), UNCHANGED att
        PROVE  WellFormed'
    <2>1. end \in {"plans", "idle", "empty", "nobody", "failed", "unknown"}
      BY <1>0 DEF MemoryAt, Job
    <2>2. j \in Job /\ j.run = r /\ j.inv = job[w].inv
      <3>. HIDE DEF src, end
      <3>. QED
        BY <1>0, <1>2, <2>1 DEF MemoryAt, Job
    <2>3. MemoryAt(label, j, att[w])
      BY <1>0, <1>1, <2>2 DEF MemoryAt, Labels, Starting, Running,
             Failing, Lost, Attempting, Preparing
    <2>4. Tables'
      BY <1>0, <1>2, <1>3 DEF PersistInput, Tables
    <2>5. job' = [job EXCEPT ![w] = j]
      BY <1>3
    <2>. HIDE DEF j, label
    <2>. QED
      BY <1>0, <1>3, <2>3, <2>4, <2>5, JobMemory, WellFormedPartsPrimed
  <1>4. CASE Fail(w, clock) /\ UNCHANGED input
    <2>1. Tables'
      BY <1>0, <1>4 DEF PersistInput, Tables
    <2>. QED
      BY <1>0, <1>4, <2>1, FailMemory, WellFormedPartsPrimed DEF Lost, Tables
  <1>. QED
    BY <1>3, <1>4 DEF PersistInput

\* Renewing the run keeps every type and memory.
LEMMA RenewRunWF ==
  ASSUME WellFormed, NEW w \in Workers, NEW u \in Users \union {None}, RenewRun(w, u)
  PROVE  WellFormed'
  <1>0. Tables /\ Memory /\ pc[w] \in {"prepare", "loop"} /\ MemoryAt(pc[w], job[w], att[w])
    BY WellFormedParts, MemoryPointwise DEF RenewRun
  <1>1. job[w].run \in RunIds /\ job[w].inv \in Invocation /\ clock \in Nat
    BY <1>0 DEF MemoryAt, Lost, Failing, Tables
  <1>2. ASSUME run' = [run EXCEPT ![job[w].run] = Renewed(@, clock)],
               job' = [job EXCEPT ![w].runRev = @ + 1, ![w].now = clock],
               att' = [att EXCEPT ![w] = [NoAttempt EXCEPT !.user = u]],
               Goto(w, "renewLease")
        PROVE  WellFormed'
    <2> DEFINE j == [job[w] EXCEPT !.runRev = @ + 1, !.now = clock]
               b == [NoAttempt EXCEPT !.user = u]
    <2>1. job[w].runRev + 1 \in Nat
      BY <1>0 DEF MemoryAt, Job
    <2>2. j \in Job /\ j.run = job[w].run /\ j.inv = job[w].inv
      BY <1>0, <1>1, <2>1 DEF MemoryAt, Job
    <2>3. b \in Attempt /\ b.got = {} /\ b.sel = {}
      BY NullMemory DEF NoAttempt, Attempt
    <2>4. MemoryAt("renewLease", j, b)
      BY <1>1, <2>2, <2>3 DEF MemoryAt, Labels, Starting, Running,
             Failing, Lost, Attempting, Preparing
    <2>5. Tables'
      BY <1>0, <1>1, <1>2, RunWrites DEF RenewRun, Tables
    <2>6. job' = [job EXCEPT ![w] = j] /\ att' = [att EXCEPT ![w] = b]
      BY <1>2
    <2>. HIDE DEF j, b
    <2>. QED
      BY <1>0, <1>2, <2>4, <2>5, <2>6, MemoryStep, WellFormedPartsPrimed DEF Goto
  <1>3. CASE Fail(w, clock) /\ UNCHANGED run
    <2>1. Tables'
      BY <1>0, <1>3 DEF RenewRun, Tables
    <2>. QED
      BY <1>0, <1>1, <1>3, <2>1, FailMemory, WellFormedPartsPrimed DEF Lost
  <1>. QED
    BY <1>2, <1>3 DEF RenewRun

\* Renewing the lease keeps every type and memory.
LEMMA RenewLeaseWF ==
  ASSUME WellFormed, NEW w \in Workers, RenewLease(w)
  PROVE  WellFormed'
  <1>0. Tables /\ Memory /\ pc[w] = "renewLease" /\ MemoryAt(pc[w], job[w], att[w])
    BY WellFormedParts, MemoryPointwise DEF RenewLease
  <1>1. job[w].run \in RunIds /\ job[w].inv \in Invocation /\ job[w].now \in Nat
    BY <1>0 DEF MemoryAt, Job, Lost, Failing
  <1>2. ASSUME lease' = Renewed(lease, job[w].now),
               job' = [job EXCEPT ![w].leaseRev = @ + 1],
               Goto(w, IF att[w].user = None THEN "subscribers" ELSE "item"),
               UNCHANGED att
        PROVE  WellFormed'
    <2> DEFINE j == [job[w] EXCEPT !.leaseRev = @ + 1]
               label == IF att[w].user = None THEN "subscribers" ELSE "item"
    <2>1. job[w].leaseRev + 1 \in Nat
      BY <1>0 DEF MemoryAt, Job
    <2>2. j \in Job /\ j.run = job[w].run /\ j.inv = job[w].inv
      BY <1>0, <2>1 DEF MemoryAt, Job
    <2>3. att[w].user \in Users \union {None}
      BY <1>0 DEF MemoryAt, Attempt
    <2>4. MemoryAt(label, j, att[w])
      BY <1>0, <1>1, <2>2, <2>3 DEF MemoryAt, Labels, Starting, Running,
             Failing, Lost, Attempting, Preparing
    <2>5. Tables'
      BY <1>0, <1>1, <1>2, LeaseWrites DEF RenewLease, Tables
    <2>6. job' = [job EXCEPT ![w] = j]
      BY <1>2
    <2>. HIDE DEF j, label
    <2>. QED
      BY <1>0, <1>2, <2>4, <2>5, <2>6, JobMemory, WellFormedPartsPrimed DEF label
  <1>3. CASE Fail(w, clock) /\ UNCHANGED lease
    <2>1. Tables'
      BY <1>0, <1>3 DEF RenewLease, Tables
    <2>. QED
      BY <1>0, <1>3, <2>1, FailMemory, WellFormedPartsPrimed DEF Lost, Tables
  <1>. QED
    BY <1>2, <1>3 DEF RenewLease

\* Listing the subscribers keeps every type and memory.
LEMMA ListSubscribersWF ==
  ASSUME WellFormed, NEW w \in Workers, ListSubscribers(w)
  PROVE  WellFormed'
  <1>0. Tables /\ Memory /\ pc[w] = "subscribers" /\ MemoryAt(pc[w], job[w], att[w])
    BY WellFormedParts, MemoryPointwise DEF ListSubscribers
  <1> DEFINE r == job[w].run
             Listed(S) == [u \in Users |->
               IF u \in S /\ item[r][u].status = "absent"
               THEN [NoItem EXCEPT !.status = "pending"] ELSE item[r][u]]
  <1>1. r \in RunIds /\ job[w].inv \in Invocation
    BY <1>0 DEF MemoryAt, Lost, Failing
  <1>2. PICK S \in Eligible(w) :
        \/ /\ job[w].cands = {} \/ S = {}
           /\ job' = [job EXCEPT ![w].end = IF job[w].cands = {} THEN "empty" ELSE "nobody"]
           /\ Goto(w, "finish")
           /\ UNCHANGED <<item, att>>
        \/ /\ item' = [item EXCEPT ![r] = Listed(S)]
           /\ job' = [job EXCEPT ![w].todo = S,
                                 ![w].seen = [u \in Users |-> Listed(S)[u].status]]
           /\ Goto(w, "scan")
           /\ UNCHANGED att
        \/ Fail(w, clock) /\ UNCHANGED item
    BY DEF ListSubscribers
  <1>3. ASSUME job' = [job EXCEPT ![w].end = IF job[w].cands = {} THEN "empty" ELSE "nobody"],
               Goto(w, "finish"), UNCHANGED <<item, att>>
        PROVE  WellFormed'
    <2> DEFINE j == [job[w] EXCEPT !.end = IF job[w].cands = {} THEN "empty" ELSE "nobody"]
    <2>1. j \in Job /\ j.run = r /\ j.inv = job[w].inv
      BY <1>0 DEF MemoryAt, Job
    <2>2. MemoryAt("finish", j, att[w])
      BY <1>0, <1>1, <2>1 DEF MemoryAt, Labels, Starting, Running,
             Failing, Lost, Attempting, Preparing
    <2>3. Tables'
      BY <1>0, <1>3 DEF ListSubscribers, Tables
    <2>4. job' = [job EXCEPT ![w] = j]
      BY <1>3
    <2>. HIDE DEF j
    <2>. QED
      BY <1>0, <1>3, <2>2, <2>3, <2>4, JobMemory, WellFormedPartsPrimed
  <1>4. ASSUME item' = [item EXCEPT ![r] = Listed(S)],
               job' = [job EXCEPT ![w].todo = S,
                                  ![w].seen = [u \in Users |-> Listed(S)[u].status]],
               Goto(w, "scan"), UNCHANGED att
        PROVE  WellFormed'
    <2> DEFINE seen == [u \in Users |-> Listed(S)[u].status]
               j == [job[w] EXCEPT !.todo = S, !.seen = seen]
    <2>1. S \in SUBSET Users
      <3>1. job[w].inv.target \in Users \union {None}
        BY <1>1 DEF Invocation
      <3>. QED
        BY <3>1 DEF Eligible
    <2>2. Listed(S) \in [Users -> ItemRow]
      <3>1. [NoItem EXCEPT !.status = "pending"] \in ItemRow
        BY NullRows DEF ItemRow, ItemStatus
      <3>2. \A u \in Users : item[r][u] \in ItemRow
        BY <1>0, <1>1 DEF Tables
      <3>. QED
        BY <3>1, <3>2
    <2>3. seen \in [Users -> ItemStatus]
      <3>. HIDE DEF Listed
      <3>. QED
        BY <2>2 DEF ItemRow
    <2>4. j \in Job /\ j.run = r /\ j.inv = job[w].inv
      <3>. HIDE DEF seen
      <3>. QED
        BY <1>0, <2>1, <2>3 DEF MemoryAt, Job
    <2>5. MemoryAt("scan", j, att[w])
      BY <1>0, <1>1, <2>4 DEF MemoryAt, Labels, Starting, Running,
             Failing, Lost, Attempting, Preparing
    <2>6. Tables'
      <3>1. item' \in [RunIds -> [Users -> ItemRow]]
        <4>. HIDE DEF Listed
        <4>. QED
          BY <1>0, <1>1, <1>4, <2>2 DEF Tables
      <3>. QED
        BY <1>0, <3>1 DEF ListSubscribers, Tables
    <2>7. job' = [job EXCEPT ![w] = j]
      BY <1>4
    <2>. HIDE DEF j
    <2>. QED
      BY <1>0, <1>4, <2>5, <2>6, <2>7, JobMemory, WellFormedPartsPrimed
  <1>5. CASE Fail(w, clock) /\ UNCHANGED item
    <2>1. Tables'
      BY <1>0, <1>5 DEF ListSubscribers, Tables
    <2>. QED
      BY <1>0, <1>5, <2>1, FailMemory, WellFormedPartsPrimed DEF Lost, Tables
  <1>. QED
    BY <1>2, <1>3, <1>4, <1>5

\* Scanning the dedupe table keeps every type and memory.
LEMMA ScanDedupeWF ==
  ASSUME WellFormed, NEW w \in Workers, ScanDedupe(w)
  PROVE  WellFormed'
  <1>0. Tables /\ Memory /\ pc[w] = "scan" /\ MemoryAt(pc[w], job[w], att[w])
    BY WellFormedParts, MemoryPointwise DEF ScanDedupe
  <1> DEFINE known == [u \in Users |-> {a \in Articles : dedupe[u][a].status # "absent"}]
             j == [job[w] EXCEPT !.known = known]
  <1>1. j \in Job /\ j.run = job[w].run /\ j.inv = job[w].inv
    <2>1. known \in [Users -> SUBSET Articles]
      OBVIOUS
    <2>. HIDE DEF known
    <2>. QED
      BY <1>0, <2>1 DEF MemoryAt, Job
  <1>2. MemoryAt("loop", j, att[w])
    BY <1>0, <1>1 DEF MemoryAt, Labels, Starting, Running,
             Failing, Lost, Attempting, Preparing
  <1>3. job' = [job EXCEPT ![w] = j] /\ Goto(w, "loop") /\ UNCHANGED att
    BY DEF ScanDedupe
  <1>4. Tables'
    BY <1>0 DEF ScanDedupe, Tables
  <1>. HIDE DEF j
  <1>. QED
    BY <1>0, <1>2, <1>3, <1>4, JobMemory, WellFormedPartsPrimed

----------------------------------------------------------------------------
\* One subscriber's attempt

\* Writing one item row with a well-typed row keeps the table typed.
LEMMA ItemTable ==
  ASSUME Tables, NEW r \in RunIds, NEW u \in Users, NEW row \in ItemRow,
         item' = [item EXCEPT ![r][u] = row]
  PROVE  item' \in [RunIds -> [Users -> ItemRow]]
  BY DEF Tables

\* Claiming an item keeps every type and memory.
LEMMA ClaimItemWF ==
  ASSUME WellFormed, NEW w \in Workers, ClaimItem(w)
  PROVE  WellFormed'
  <1>0. Tables /\ Memory /\ pc[w] = "item" /\ MemoryAt(pc[w], job[w], att[w])
    BY WellFormedParts, MemoryPointwise DEF ClaimItem
  <1> DEFINE r == job[w].run
             u == att[w].user
  <1>1. r \in RunIds /\ u \in Users /\ clock \in Nat /\ item[r][u] \in ItemRow
    BY <1>0 DEF MemoryAt, Lost, Attempting, Tables
  <1>2. CASE /\ job[w].seen[u] \in ItemDone
             /\ Settle(w, job[w].seen[u]) /\ UNCHANGED item
    <2>1. Tables'
      BY <1>0, <1>2 DEF ClaimItem, Tables
    <2>. QED
      BY <1>0, <1>2, <2>1, SettleMemory, WellFormedPartsPrimed DEF Attempting
  <1>3. ASSUME item' = [item EXCEPT ![r][u] = Taken(@, w, clock)],
               att' = [att EXCEPT ![w].rev = item[r][u].rev + 1],
               Goto(w, "select"), UNCHANGED job
        PROVE  WellFormed'
    <2> DEFINE b == [att[w] EXCEPT !.rev = item[r][u].rev + 1]
    <2>1. item[r][u].rev + 1 \in Nat
      BY <1>1 DEF ItemRow
    <2>2. b \in Attempt /\ b.user = u /\ b.got = att[w].got /\ b.sel = att[w].sel
      BY <1>0, <2>1 DEF MemoryAt, Attempt
    <2>3. MemoryAt("select", job[w], b)
      BY <1>0, <1>1, <2>2 DEF MemoryAt, Labels, Starting, Running,
             Failing, Lost, Attempting, Preparing
    <2>4. Tables'
      <3>1. item' \in [RunIds -> [Users -> ItemRow]]
        BY <1>0, <1>1, <1>3, ItemWrites, ItemTable
      <3>. QED
        BY <1>0, <3>1 DEF ClaimItem, Tables
    <2>5. att' = [att EXCEPT ![w] = b]
      BY <1>3
    <2>. HIDE DEF b
    <2>. QED
      BY <1>0, <1>3, <2>3, <2>4, <2>5, AttemptMemory, WellFormedPartsPrimed
  <1>4. CASE Fail(w, clock) /\ UNCHANGED item
    <2>1. Tables'
      BY <1>0, <1>4 DEF ClaimItem, Tables
    <2>. QED
      BY <1>0, <1>4, <2>1, FailMemory, WellFormedPartsPrimed DEF Lost, Tables
  <1>. QED
    BY <1>2, <1>3, <1>4 DEF ClaimItem

\* Planning a selection keeps every type and memory.
LEMMA SelectWF ==
  ASSUME WellFormed, NEW w \in Workers, Select(w)
  PROVE  WellFormed'
  <1>0. Tables /\ Memory /\ pc[w] = "select" /\ MemoryAt(pc[w], job[w], att[w])
    BY WellFormedParts, MemoryPointwise DEF Select
  <1>1. job[w].run \in RunIds /\ att[w].user \in Users /\ job[w].inv \in Invocation
    BY <1>0 DEF MemoryAt, Lost, Failing, Attempting
  <1>2. ASSUME NEW fin \in ItemDone, att' = [att EXCEPT ![w].fin = fin],
               Goto(w, "finishItem")
        PROVE  Memory'
    <2> DEFINE b == [att[w] EXCEPT !.fin = fin]
    <2>1. b \in Attempt /\ b.user = att[w].user /\ b.got = att[w].got /\ b.sel = att[w].sel
      BY <1>0 DEF MemoryAt, Attempt
    <2>2. MemoryAt("finishItem", job[w], b)
      BY <1>0, <1>1, <2>1 DEF MemoryAt, Labels, Starting, Running,
             Failing, Lost, Attempting, Preparing
    <2>3. att' = [att EXCEPT ![w] = b] /\ UNCHANGED job
      BY <1>2 DEF Select
    <2>. HIDE DEF b
    <2>. QED
      BY <1>0, <1>2, <2>2, <2>3, AttemptMemory
  <1>3. ASSUME NEW S \in SUBSET Articles, att' = [att EXCEPT ![w].sel = S],
               Goto(w, "reserve")
        PROVE  Memory'
    <2> DEFINE b == [att[w] EXCEPT !.sel = S]
    <2>1. b \in Attempt /\ b.user = att[w].user /\ b.got = {} /\ b.sel = S
      BY <1>0 DEF MemoryAt, Attempt
    <2>2. MemoryAt("reserve", job[w], b)
      BY <1>0, <1>1, <2>1 DEF MemoryAt, Labels, Starting, Running,
             Failing, Lost, Attempting, Preparing
    <2>3. att' = [att EXCEPT ![w] = b] /\ UNCHANGED job
      BY <1>3 DEF Select
    <2>. HIDE DEF b
    <2>. QED
      BY <1>0, <1>3, <2>2, <2>3, AttemptMemory
  <1>4. Tables'
    BY <1>0 DEF Select, Tables
  <1>5. job[w].cands \ job[w].known[att[w].user] \in SUBSET Articles
    BY <1>0 DEF MemoryAt, Job
  <1>6. Memory'
    BY <1>2, <1>3, <1>5 DEF Select, ItemDone
  <1>. QED
    BY <1>4, <1>6, WellFormedPartsPrimed

\* Reserving an article keeps every type and memory.
LEMMA ReserveWF ==
  ASSUME WellFormed, NEW w \in Workers, Reserve(w)
  PROVE  WellFormed'
  <1>0. Tables /\ Memory /\ pc[w] = "reserve" /\ MemoryAt(pc[w], job[w], att[w])
    BY WellFormedParts, MemoryPointwise DEF Reserve
  <1>1. job[w].run \in RunIds /\ att[w].user \in Users /\ job[w].inv \in Invocation
    BY <1>0 DEF MemoryAt, Lost, Failing, Attempting, Preparing
  <1>2. ASSUME NEW a \in att[w].sel \ att[w].got,
               dedupe' = [dedupe EXCEPT ![att[w].user][a] =
                 [status |-> "reserved", owner |-> w, run |-> job[w].run, at |-> 0]],
               att' = [att EXCEPT ![w].got = @ \union {a}],
               Goto(w, IF att[w].got \union {a} = att[w].sel
                       THEN "favorites" ELSE "reserve")
        PROVE  WellFormed'
    <2> DEFINE row == [status |-> "reserved", owner |-> w, run |-> job[w].run, at |-> 0]
               b == [att[w] EXCEPT !.got = @ \union {a}]
               label == IF att[w].got \union {a} = att[w].sel
                        THEN "favorites" ELSE "reserve"
    <2>1. a \in Articles /\ row \in Row
      BY <1>0, <1>1 DEF MemoryAt, Attempt, Row, Owner
    <2>2. /\ b \in Attempt /\ b.user = att[w].user
          /\ b.got = att[w].got \union {a} /\ b.sel = att[w].sel
      BY <1>0, <2>1 DEF MemoryAt, Attempt
    <2>3. MemoryAt(label, job[w], b)
      BY <1>0, <1>1, <2>2 DEF MemoryAt, Labels, Starting, Running,
             Failing, Lost, Attempting, Preparing
    <2>4. Tables'
      <3>1. dedupe' \in [Users -> [Articles -> Row]]
        <4>1. dedupe' = [dedupe EXCEPT ![att[w].user][a] = row]
          BY <1>2
        <4>. HIDE DEF row
        <4>. QED
          BY <1>0, <1>1, <2>1, <4>1 DEF Tables
      <3>. QED
        BY <1>0, <3>1 DEF Reserve, Tables
    <2>5. att' = [att EXCEPT ![w] = b] /\ Goto(w, label) /\ UNCHANGED job
      BY <1>2 DEF Reserve
    <2>. HIDE DEF b, label
    <2>. QED
      BY <1>0, <2>3, <2>4, <2>5, AttemptMemory, WellFormedPartsPrimed
  <1>3. ASSUME att' = [att EXCEPT ![w].fin = "skipped"], Goto(w, "release"),
               UNCHANGED dedupe
        PROVE  WellFormed'
    <2> DEFINE b == [att[w] EXCEPT !.fin = "skipped"]
    <2>1. /\ b \in Attempt /\ b.user = att[w].user
          /\ b.got = att[w].got /\ b.sel = att[w].sel
      BY <1>0 DEF MemoryAt, Attempt, ItemDone
    <2>2. MemoryAt("release", job[w], b)
      BY <1>0, <1>1, <2>1 DEF MemoryAt, Labels, Starting, Running,
             Failing, Lost, Attempting, Preparing
    <2>3. Tables'
      BY <1>0, <1>3 DEF Reserve, Tables
    <2>4. att' = [att EXCEPT ![w] = b] /\ UNCHANGED job
      BY <1>3 DEF Reserve
    <2>. HIDE DEF b
    <2>. QED
      BY <1>0, <1>3, <2>2, <2>3, <2>4, AttemptMemory, WellFormedPartsPrimed
  <1>. QED
    BY <1>2, <1>3 DEF Reserve

\* Writing favourites keeps every type and memory.
LEMMA WriteFavoritesWF ==
  ASSUME WellFormed, NEW w \in Workers, WriteFavorites(w)
  PROVE  WellFormed'
  <1>0. Tables /\ Memory /\ pc[w] = "favorites" /\ MemoryAt(pc[w], job[w], att[w])
    BY WellFormedParts, MemoryPointwise DEF WriteFavorites
  <1>1. job[w].run \in RunIds /\ att[w].user \in Users /\ job[w].inv \in Invocation
    BY <1>0 DEF MemoryAt, Lost, Failing, Attempting, Preparing
  <1>2. Tables'
    <2>1. fav' \in [Users -> SUBSET Articles]
      BY <1>0 DEF WriteFavorites, Tables, MemoryAt, Attempt
    <2>. QED
      BY <1>0, <2>1 DEF WriteFavorites, Tables
  <1>3. ASSUME att' = [att EXCEPT ![w].ok = Workflow = "push"],
               Goto(w, IF Workflow = "notify" THEN "mark" ELSE "resolve")
        PROVE  Memory'
    <2> DEFINE b == [att[w] EXCEPT !.ok = Workflow = "push"]
               label == IF Workflow = "notify" THEN "mark" ELSE "resolve"
    <2>1. /\ b \in Attempt /\ b.user = att[w].user
          /\ b.got = att[w].got /\ b.sel = att[w].sel
      <3>1. (Workflow = "push") \in BOOLEAN
        OBVIOUS
      <3>. QED
        BY <1>0, <3>1 DEF MemoryAt, Attempt
    <2>2. MemoryAt(label, job[w], b)
      BY <1>0, <1>1, <2>1 DEF MemoryAt, Labels, Starting, Running,
             Failing, Lost, Attempting, Preparing
    <2>3. att' = [att EXCEPT ![w] = b] /\ Goto(w, label) /\ UNCHANGED job
      BY <1>3 DEF WriteFavorites
    <2>. HIDE DEF b, label
    <2>. QED
      BY <1>0, <2>2, <2>3, AttemptMemory
  <1>4. ASSUME att' = [att EXCEPT ![w].fin = "failed"], Goto(w, "release")
        PROVE  Memory'
    <2> DEFINE b == [att[w] EXCEPT !.fin = "failed"]
    <2>1. /\ b \in Attempt /\ b.user = att[w].user
          /\ b.got = att[w].got /\ b.sel = att[w].sel
      BY <1>0 DEF MemoryAt, Attempt, ItemDone
    <2>2. MemoryAt("release", job[w], b)
      BY <1>0, <1>1, <2>1 DEF MemoryAt, Labels, Starting, Running,
             Failing, Lost, Attempting, Preparing
    <2>3. att' = [att EXCEPT ![w] = b] /\ UNCHANGED job
      BY <1>4 DEF WriteFavorites
    <2>. HIDE DEF b
    <2>. QED
      BY <1>0, <1>4, <2>2, <2>3, AttemptMemory
  <1>. QED
    BY <1>2, <1>3, <1>4, WellFormedPartsPrimed DEF WriteFavorites

\* Releasing reservations keeps every type and memory.
LEMMA ReleaseWF ==
  ASSUME WellFormed, NEW w \in Workers, Release(w)
  PROVE  WellFormed'
  <1>0. Tables /\ Memory /\ pc[w] = "release" /\ MemoryAt(pc[w], job[w], att[w])
    BY WellFormedParts, MemoryPointwise DEF Release
  <1>1. att[w].user \in Users
    BY <1>0 DEF MemoryAt, Attempting, Preparing
  <1>2. ASSUME dedupe' = [dedupe EXCEPT ![att[w].user] = [a \in Articles |->
                            IF a \in att[w].got THEN NoRow ELSE @[a]]],
               Goto(w, "finishItem"), UNCHANGED <<job, att>>
        PROVE  WellFormed'
    <2>1. dedupe' \in [Users -> [Articles -> Row]]
      BY <1>0, <1>1, <1>2, NullRows DEF Tables
    <2>2. Tables'
      BY <1>0, <2>1 DEF Release, Tables
    <2>3. MemoryAt("finishItem", job[w], att[w])
      BY <1>0 DEF MemoryAt, Labels, Starting, Running,
             Failing, Lost, Attempting, Preparing
    <2>. QED
      BY <1>0, <1>2, <2>2, <2>3, GotoMemory, WellFormedPartsPrimed
  <1>3. CASE Fail(w, clock) /\ UNCHANGED dedupe
    <2>1. Tables'
      BY <1>0, <1>3 DEF Release, Tables
    <2>. QED
      BY <1>0, <1>3, <2>1, FailMemory, WellFormedPartsPrimed DEF Lost, Tables
  <1>. QED
    BY <1>2, <1>3 DEF Release

\* Finishing an item keeps every type and memory.
LEMMA FinishItemWF ==
  ASSUME WellFormed, NEW w \in Workers, FinishItem(w)
  PROVE  WellFormed'
  <1>0. Tables /\ Memory /\ pc[w] = "finishItem" /\ MemoryAt(pc[w], job[w], att[w])
    BY WellFormedParts, MemoryPointwise DEF FinishItem
  <1>1. /\ job[w].run \in RunIds /\ att[w].user \in Users
        /\ att[w].fin \in ItemDone /\ item[job[w].run][att[w].user] \in ItemRow
    BY <1>0 DEF MemoryAt, Lost, Attempting, Attempt, Tables
  <1>2. ASSUME item' = [item EXCEPT ![job[w].run][att[w].user] = Ended(@, att[w].fin)],
               Settle(w, att[w].fin)
        PROVE  WellFormed'
    <2>1. item' \in [RunIds -> [Users -> ItemRow]]
      BY <1>0, <1>1, <1>2, ItemWrites, ItemTable
    <2>2. Tables'
      BY <1>0, <2>1 DEF FinishItem, Tables
    <2>. QED
      BY <1>0, <1>1, <1>2, <2>2, SettleMemory, WellFormedPartsPrimed DEF Attempting
  <1>3. CASE Fail(w, clock) /\ UNCHANGED item
    <2>1. Tables'
      BY <1>0, <1>3 DEF FinishItem, Tables
    <2>. QED
      BY <1>0, <1>3, <2>1, FailMemory, WellFormedPartsPrimed DEF Lost, Tables
  <1>. QED
    BY <1>2, <1>3 DEF FinishItem

\* Marking an item sending keeps every type and memory.
LEMMA MarkSendingWF ==
  ASSUME WellFormed, NEW w \in Workers, MarkSending(w)
  PROVE  WellFormed'
  <1>0. Tables /\ Memory /\ pc[w] = "mark" /\ MemoryAt(pc[w], job[w], att[w])
    BY WellFormedParts, MemoryPointwise DEF MarkSending
  <1>1. /\ job[w].run \in RunIds /\ att[w].user \in Users
        /\ item[job[w].run][att[w].user] \in ItemRow
    BY <1>0 DEF MemoryAt, Lost, Attempting, Preparing, Tables
  <1>2. ASSUME item' = [item EXCEPT ![job[w].run][att[w].user] = Moved(@, "sending")],
               att' = [att EXCEPT ![w].rev = @ + 1],
               Goto(w, "send"), UNCHANGED job
        PROVE  WellFormed'
    <2> DEFINE b == [att[w] EXCEPT !.rev = @ + 1]
    <2>1. att[w].rev + 1 \in Nat
      BY <1>0 DEF MemoryAt, Attempt
    <2>2. /\ b \in Attempt /\ b.user = att[w].user
          /\ b.got = att[w].got /\ b.sel = att[w].sel
      BY <1>0, <2>1 DEF MemoryAt, Attempt
    <2>3. MemoryAt("send", job[w], b)
      BY <1>0, <1>1, <2>2 DEF MemoryAt, Labels, Starting, Running,
             Failing, Lost, Attempting, Preparing
    <2>4. Tables'
      <3>1. item' \in [RunIds -> [Users -> ItemRow]]
        BY <1>0, <1>1, <1>2, ItemWrites, ItemTable
      <3>. QED
        BY <1>0, <3>1 DEF MarkSending, Tables
    <2>5. att' = [att EXCEPT ![w] = b]
      BY <1>2
    <2>. HIDE DEF b
    <2>. QED
      BY <1>0, <1>2, <2>3, <2>4, <2>5, AttemptMemory, WellFormedPartsPrimed
  <1>3. CASE Fail(w, clock) /\ UNCHANGED item
    <2>1. Tables'
      BY <1>0, <1>3 DEF MarkSending, Tables
    <2>. QED
      BY <1>0, <1>3, <2>1, FailMemory, WellFormedPartsPrimed DEF Lost, Tables
  <1>. QED
    BY <1>2, <1>3 DEF MarkSending

\* Sending keeps every type and memory.
LEMMA SendWF ==
  ASSUME WellFormed, NEW w \in Workers, Send(w)
  PROVE  WellFormed'
  <1>0. Tables /\ Memory /\ pc[w] = "send" /\ MemoryAt(pc[w], job[w], att[w])
    BY WellFormedParts, MemoryPointwise DEF Send
  <1>1. att[w].user \in Users
    BY <1>0 DEF MemoryAt, Attempting
  <1>2. PICK delivered, ok \in BOOLEAN :
        /\ att' = [att EXCEPT ![w].ok = ok]
        /\ sent' = [sent EXCEPT ![att[w].user] = [a \in Articles |->
                      IF delivered /\ a \in att[w].sel THEN @[a] + 1 ELSE @[a]]]
    BY DEF Send
  <1>3. Tables'
    <2>1. sent' \in [Users -> [Articles -> Nat]]
      <3>1. [a \in Articles |-> IF delivered /\ a \in att[w].sel
                                THEN sent[att[w].user][a] + 1
                                ELSE sent[att[w].user][a]] \in [Articles -> Nat]
        BY <1>0, <1>1 DEF Tables
      <3>. QED
        BY <1>0, <1>1, <1>2, <3>1 DEF Tables
    <2>. QED
      BY <1>0, <2>1 DEF Send, Tables
  <1>4. Memory'
    <2> DEFINE b == [att[w] EXCEPT !.ok = ok]
    <2>1. /\ b \in Attempt /\ b.user = att[w].user
          /\ b.got = att[w].got /\ b.sel = att[w].sel
      BY <1>0 DEF MemoryAt, Attempt
    <2>2. MemoryAt("resolve", job[w], b)
      BY <1>0, <1>1, <2>1 DEF MemoryAt, Labels, Starting, Running,
             Failing, Lost, Attempting, Preparing
    <2>3. att' = [att EXCEPT ![w] = b] /\ Goto(w, "resolve") /\ UNCHANGED job
      BY <1>2 DEF Send
    <2>. HIDE DEF b
    <2>. QED
      BY <1>0, <2>2, <2>3, AttemptMemory
  <1>. QED
    BY <1>3, <1>4, WellFormedPartsPrimed

\* Resolving an attempt keeps every type and memory.
LEMMA ResolveWF ==
  ASSUME WellFormed, NEW w \in Workers, Resolve(w)
  PROVE  WellFormed'
  <1>0. Tables /\ Memory /\ pc[w] = "resolve" /\ MemoryAt(pc[w], job[w], att[w])
    BY WellFormedParts, MemoryPointwise DEF Resolve
  <1> DEFINE rowStatus == IF att[w].ok THEN "confirmed" ELSE "unknown"
             itemStatus == IF att[w].ok THEN "succeeded" ELSE "unknown"
  <1>1. /\ job[w].run \in RunIds /\ att[w].user \in Users
        /\ item[job[w].run][att[w].user] \in ItemRow
        /\ itemStatus \in ItemDone /\ rowStatus \in {"confirmed", "unknown"}
        /\ clock \in Nat
    BY <1>0 DEF MemoryAt, Lost, Attempting, Tables, ItemDone
  <1>2. ASSUME dedupe' = [dedupe EXCEPT ![att[w].user] = [a \in Articles |->
                 IF a \in att[w].got THEN Resolved(@[a], rowStatus, clock) ELSE @[a]]],
               item' = [item EXCEPT ![job[w].run][att[w].user] = Ended(@, itemStatus)],
               Settle(w, itemStatus)
        PROVE  WellFormed'
    <2>. HIDE DEF rowStatus, itemStatus
    <2>1. item' \in [RunIds -> [Users -> ItemRow]]
      BY <1>0, <1>1, <1>2, ItemWrites, ItemTable
    <2>2. dedupe' \in [Users -> [Articles -> Row]]
      <3>1. \A a \in Articles : /\ dedupe[att[w].user][a] \in Row
                                /\ Resolved(dedupe[att[w].user][a], rowStatus, clock) \in Row
        BY <1>0, <1>1, RowWrites DEF Tables
      <3>. QED
        BY <1>0, <1>1, <1>2, <3>1 DEF Tables
    <2>3. Tables'
      BY <1>0, <2>1, <2>2 DEF Resolve, Tables
    <2>. QED
      BY <1>0, <1>1, <1>2, <2>3, SettleMemory, WellFormedPartsPrimed DEF Attempting
  <1>3. CASE Fail(w, clock) /\ UNCHANGED <<dedupe, item>>
    <2>1. Tables'
      BY <1>0, <1>3 DEF Resolve, Tables
    <2>. QED
      BY <1>0, <1>3, <2>1, FailMemory, WellFormedPartsPrimed DEF Lost, Tables
  <1>. QED
    BY <1>2, <1>3 DEF Resolve

----------------------------------------------------------------------------
\* Endings

\* Finalising a run keeps every type and memory.
LEMMA FinishWF ==
  ASSUME WellFormed, NEW w \in Workers, Finish(w)
  PROVE  WellFormed'
  <1>0. Tables /\ Memory /\ pc[w] = "finish" /\ MemoryAt(pc[w], job[w], att[w])
    BY WellFormedParts, MemoryPointwise DEF Finish
  <1>1. /\ Outcome(w)[1] \in Terminal
        /\ Outcome(w)[2] \in {"idle", "completed", "skipped", "failed", "unknown"}
        /\ Outcome(w)[3] \in SUBSET Articles
    <2>1. job[w].ckpt.snap \in SUBSET Articles /\ job[w].current \in SUBSET Articles
      BY <1>0 DEF MemoryAt, Job, Ckpt
    <2>. QED
      BY <2>1 DEF Outcome, Terminal
  <1>2. CASE /\ FinalizeRun(w, Outcome(w)[1], Outcome(w)[2], Outcome(w)[3])
             /\ Leave(w, "done")
    <2>1. Tables'
      BY <1>0, <1>1, <1>2, FinalizeTables DEF Finish, Tables
    <2>. QED
      BY <1>0, <1>2, <2>1, LeaveMemory, WellFormedPartsPrimed
  <1>3. CASE Fail(w, clock) /\ UNCHANGED <<run, ckpt, lease>>
    <2>1. Tables'
      BY <1>0, <1>3 DEF Finish, Tables
    <2>. QED
      BY <1>0, <1>3, <2>1, FailMemory, WellFormedPartsPrimed DEF Lost, Tables
  <1>. QED
    BY <1>2, <1>3 DEF Finish

\* failBestEffort's reconciliation keeps every type and memory.
LEMMA FailReconcileWF ==
  ASSUME WellFormed, NEW w \in Workers, FailReconcile(w)
  PROVE  WellFormed'
  <1>0. Tables /\ Memory /\ pc[w] = "failReconcile" /\ MemoryAt(pc[w], job[w], att[w])
    BY WellFormedParts, MemoryPointwise DEF FailReconcile
  <1> DEFINE ambiguous == \E u \in Users : item[job[w].run][u].status = "sending"
  <1>1. job[w].run \in RunIds
    BY <1>0 DEF MemoryAt, Lost
  <1>2. Tables'
    <2>1. CASE Quarantine(job[w].run)
      BY <1>0, <1>1, <2>1, QuarantineTables DEF FailReconcile, Tables
    <2>2. CASE UNCHANGED <<item, dedupe>>
      BY <1>0, <2>2 DEF FailReconcile, Tables
    <2>. QED
      BY <2>1, <2>2 DEF FailReconcile
  <1>3. PICK end \in {"failed", "unknown"} : job' = [job EXCEPT ![w].end = end]
    BY DEF FailReconcile
  <1>4. Memory'
    <2> DEFINE j == [job[w] EXCEPT !.end = end]
    <2>1. j \in Job /\ j.run = job[w].run /\ j.end = end
      BY <1>0 DEF MemoryAt, Job
    <2>2. MemoryAt("failFinal", j, att[w])
      BY <1>0, <1>1, <2>1 DEF MemoryAt, Labels, Starting, Running,
             Failing, Lost, Attempting, Preparing
    <2>3. job' = [job EXCEPT ![w] = j] /\ Goto(w, "failFinal") /\ UNCHANGED att
      BY <1>3 DEF FailReconcile
    <2>. HIDE DEF j
    <2>. QED
      BY <1>0, <2>2, <2>3, JobMemory
  <1>. QED
    BY <1>2, <1>4, WellFormedPartsPrimed

\* failBestEffort's finalisation keeps every type and memory.
LEMMA FailFinalWF ==
  ASSUME WellFormed, NEW w \in Workers, FailFinal(w)
  PROVE  WellFormed'
  <1>0. Tables /\ Memory /\ pc[w] = "failFinal" /\ MemoryAt(pc[w], job[w], att[w])
    BY WellFormedParts, MemoryPointwise DEF FailFinal
  <1>1. /\ job[w].run \in RunIds /\ job[w].end \in {"failed", "unknown"}
        /\ job[w].ckpt.snap \in SUBSET Articles
    BY <1>0 DEF MemoryAt, Lost, Job, Ckpt
  <1>2. CASE /\ FinalizeRun(w, job[w].end, job[w].end, job[w].ckpt.snap)
             /\ Leave(w, "done")
    <2>1. Tables'
      BY <1>0, <1>1, <1>2, FinalizeTables DEF FailFinal, Tables, Terminal
    <2>. QED
      BY <1>0, <1>2, <2>1, LeaveMemory, WellFormedPartsPrimed
  <1>3. CASE Goto(w, "failRun") /\ UNCHANGED <<run, ckpt, lease, job, att>>
    <2>1. Tables'
      BY <1>0, <1>3 DEF FailFinal, Tables
    <2>2. MemoryAt("failRun", job[w], att[w])
      BY <1>0 DEF MemoryAt, Labels, Starting, Running,
             Failing, Lost, Attempting, Preparing
    <2>. QED
      BY <1>0, <1>3, <2>1, <2>2, GotoMemory, WellFormedPartsPrimed
  <1>. QED
    BY <1>2, <1>3 DEF FailFinal

\* failBestEffort's run-only finalisation keeps every type and memory.
LEMMA FailRunWF ==
  ASSUME WellFormed, NEW w \in Workers, FailRun(w)
  PROVE  WellFormed'
  <1>0. Tables /\ Memory /\ pc[w] = "failRun" /\ MemoryAt(pc[w], job[w], att[w])
    BY WellFormedParts, MemoryPointwise DEF FailRun
  <1>1. job[w].run \in RunIds /\ job[w].end \in Terminal
    BY <1>0 DEF MemoryAt, Lost, Terminal
  <1>2. run' \in [RunIds -> RunRow]
    BY <1>0, <1>1, RunWrites DEF FailRun, Tables
  <1>3. Tables'
    BY <1>0, <1>2 DEF FailRun, Tables
  <1>4. MemoryAt("failRelease", job[w], att[w])
    BY <1>0 DEF MemoryAt, Labels, Starting, Running,
             Failing, Lost, Attempting, Preparing
  <1>. QED
    BY <1>0, <1>3, <1>4, GotoMemory, WellFormedPartsPrimed DEF FailRun

\* failBestEffort's lease release keeps every type and memory.
LEMMA FailReleaseWF ==
  ASSUME WellFormed, NEW w \in Workers, FailRelease(w)
  PROVE  WellFormed'
  <1>1. Tables /\ Memory /\ Leave(w, "done")
    BY WellFormedParts DEF FailRelease
  <1>2. Tables'
    BY <1>1, LeaseWrites DEF FailRelease, Tables
  <1>. QED
    BY <1>1, <1>2, LeaveMemory, WellFormedPartsPrimed

----------------------------------------------------------------------------
\* The environment

\* Stopping a manual job keeps every type and memory.
LEMMA ControlStopWF ==
  ASSUME WellFormed, NEW w \in Workers, ControlStop(w)
  PROVE  WellFormed'
  <1>1. /\ Tables /\ Memory /\ Fail(w, clock) /\ clock \in Nat /\ pc[w] \notin Lost
    BY WellFormedParts DEF ControlStop, Lost, Tables
  <1>2. Tables'
    BY <1>1 DEF ControlStop, Tables
  <1>. QED
    BY <1>1, <1>2, FailMemory, WellFormedPartsPrimed

\* A storage error keeps every type and memory.
LEMMA StorageErrorWF ==
  ASSUME WellFormed, NEW w \in Workers, StorageError(w)
  PROVE  WellFormed'
  <1>0. Tables /\ Memory /\ MemoryAt(pc[w], job[w], att[w])
    BY WellFormedParts, MemoryPointwise
  <1>1. clock \in Nat /\ job[w].now \in Nat /\ faults + 1 \in Nat
    BY <1>0 DEF MemoryAt, Job, Tables
  <1>2. Tables'
    BY <1>0, <1>1 DEF StorageError, Tables
  <1>3. CASE Leave(w, "done")
    BY <1>0, <1>2, <1>3, LeaveMemory, WellFormedPartsPrimed
  <1>4. CASE pc[w] \in Starting \union Running /\ (Fail(w, clock) \/ Fail(w, job[w].now))
    BY <1>0, <1>1, <1>2, <1>4, FailMemory, WellFormedPartsPrimed
       DEF Lost, Starting, Running
  <1>5. ASSUME pc[w] \in Failing \ {"failRelease"},
               job' = [job EXCEPT ![w].end =
                         IF pc[w] = "failReconcile" THEN "failed" ELSE @],
               Goto(w, NextFailing(pc[w])), UNCHANGED att
        PROVE  WellFormed'
    <2> DEFINE j == [job[w] EXCEPT !.end =
                       IF pc[w] = "failReconcile" THEN "failed" ELSE @]
               label == NextFailing(pc[w])
    <2>1. /\ j \in Job /\ j.run = job[w].run
          /\ j.end = IF pc[w] = "failReconcile" THEN "failed" ELSE job[w].end
      <3> DEFINE e == IF pc[w] = "failReconcile" THEN "failed" ELSE job[w].end
      <3>1. e \in {"plans", "idle", "empty", "nobody", "failed", "unknown"}
        BY <1>0 DEF MemoryAt, Job
      <3>2. j = [job[w] EXCEPT !.end = e]
        OBVIOUS
      <3>. HIDE DEF e, j
      <3>3. j \in Job /\ j.run = job[w].run /\ j.end = e
        BY <1>0, <3>1, <3>2 DEF MemoryAt, Job
      <3>. QED
        BY <3>3 DEF e
    <2>. HIDE DEF j
    <2>2. /\ label \in {"failFinal", "failRun", "failRelease"}
          /\ label = "failFinal" => pc[w] = "failReconcile"
          /\ label = "failRun" => pc[w] = "failFinal"
      BY <1>5 DEF NextFailing, Failing
    <2>. HIDE DEF label
    <2>3. MemoryAt(label, j, att[w])
      BY <1>0, <1>5, <2>1, <2>2 DEF MemoryAt, Labels, Starting, Running,
             Failing, Lost, Attempting, Preparing
    <2>4. job' = [job EXCEPT ![w] = j] /\ Goto(w, label)
      BY <1>5 DEF j, label
    <2>. QED
      BY <1>0, <1>2, <1>5, <2>3, <2>4, JobMemory, WellFormedPartsPrimed
  <1>. QED
    BY <1>3, <1>4, <1>5 DEF StorageError

\* A crash keeps every type and memory.
LEMMA CrashWF ==
  ASSUME WellFormed, NEW w \in Workers, Crash(w)
  PROVE  WellFormed'
  <1>1. Tables /\ Memory /\ Leave(w, "crashed")
    BY WellFormedParts DEF Crash
  <1>2. Tables'
    BY <1>1 DEF Crash, Tables
  <1>. QED
    BY <1>1, <1>2, LeaveMemory, WellFormedPartsPrimed

\* The clock, the index and stuttering do not touch the protocol.
LEMMA OutsideWF ==
  ASSUME WellFormed, Tick \/ (\E a \in Articles : IndexArticle(a)) \/ UNCHANGED vars
  PROVE  WellFormed'
  <1>1. Tables /\ Memory
    BY WellFormedParts
  <1>2. Tables' /\ UNCHANGED <<pc, job, att>>
    <2>1. CASE Tick
      <3>1. clock + 1 \in Nat
        BY <1>1 DEF Tables
      <3>. QED
        BY <1>1, <2>1, <3>1 DEF Tick, Tables
    <2>2. CASE \E a \in Articles : IndexArticle(a)
      BY <1>1, <2>2 DEF IndexArticle, Tables
    <2>3. CASE UNCHANGED vars
      BY <1>1, <2>3 DEF vars, Tables
    <2>. QED
      BY <2>1, <2>2, <2>3
  <1>3. Memory'
    BY <1>1, <1>2 DEF Memory, InvocationShape, AttemptShape
  <1>. QED
    BY <1>2, <1>3, WellFormedPartsPrimed

----------------------------------------------------------------------------
\* Every step

\* Every step of an executing invocation keeps WellFormed.
LEMMA StepWellFormed ==
  ASSUME WellFormed, NEW w \in Workers, Step(w)
  PROVE  WellFormed'
  BY ClaimWF, YieldWF, TakeoverWF, RefuseWF, AcquireLeaseWF, LoadCheckpointWF,
     ReconcileWF, StartRunWF, CleanupWF, ReadIndexWF, PersistInputWF, RenewRunWF,
     RenewLeaseWF, ListSubscribersWF, ScanDedupeWF, ClaimItemWF, SelectWF,
     ReserveWF, WriteFavoritesWF, ReleaseWF, FinishItemWF, MarkSendingWF, SendWF,
     ResolveWF, FinishWF, FailReconcileWF, FailFinalWF, FailRunWF, FailReleaseWF
     DEF Step

\* WellFormed is inductive.
LEMMA NextWellFormed == WellFormed /\ [Next]_vars => WellFormed'
  <1> SUFFICES ASSUME WellFormed, [Next]_vars PROVE WellFormed'
    OBVIOUS
  <1>1. ASSUME NEW w \in Workers, Admit(w) PROVE WellFormed'
    BY <1>1, AdmitWF
  <1>2. ASSUME NEW w \in Workers, Step(w) PROVE WellFormed'
    BY <1>2, StepWellFormed
  <1>3. ASSUME NEW w \in Workers, ControlStop(w) PROVE WellFormed'
    BY <1>3, ControlStopWF
  <1>4. ASSUME NEW w \in Workers, StorageError(w) PROVE WellFormed'
    BY <1>4, StorageErrorWF
  <1>5. ASSUME NEW w \in Workers, Crash(w) PROVE WellFormed'
    BY <1>5, CrashWF
  <1>6. CASE Tick \/ (\E a \in Articles : IndexArticle(a)) \/ UNCHANGED vars
    BY <1>6, OutsideWF
  <1>. QED
    BY <1>1, <1>2, <1>3, <1>4, <1>5, <1>6 DEF Next

\* Every reachable state is well formed: rows satisfy the CHECK constraints of
\* the delivery tables, and an invocation knows its run, its request and its
\* subscriber at every call that needs them.
THEOREM AlwaysWellFormed == Spec => []WellFormed
  BY InitWellFormed, NextWellFormed, PTL DEF Spec

\* Every reachable state has the column and field types of TypeOK: no
\* transition of a delivery table writes a status, owner or expiry the schema
\* would refuse.
THEOREM TypeCorrect == Spec => []TypeOK
  <1>1. WellFormed => TypeOK
    BY DEF WellFormed
  <1>. QED
    BY <1>1, AlwaysWellFormed, PTL

=============================================================================
