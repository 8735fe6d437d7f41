------------------------------ MODULE Delivery ------------------------------
(***************************************************************************)
(* The durable delivery protocol of one (workflow, database) scope: the    *)
(* tables of internal/storage/delivery and the invocations of              *)
(* internal/delivery that work on them.  A worker is one invocation of     *)
(* `litradar notify`, `litradar push` or of a manual weekly push: a        *)
(* process with its own random owner id that runs once, may crash at any   *)
(* point, and whose every repository call is one BEGIN IMMEDIATE           *)
(* transaction, hence one action here.                                     *)
(*                                                                         *)
(* Abstracted: the scope columns (every unique index and lease is per      *)
(* scope), issue and in-press keys (a run's input is its set of articles), *)
(* the claim/finalise bookkeeping of the input items themselves, message   *)
(* text, result JSON and the AI selection (any subset of the candidates).  *)
(***************************************************************************)
EXTENDS Integers, FiniteSets

CONSTANTS
    Workers,      \* one per invocation; doubles as its owner id
    RunIds,       \* external run identities
    Users,        \* subscribers
    Articles,
    Invocations,  \* what a worker may be asked to do, see Invocation
    InitialIndex, \* articles indexed before the first invocation
    Workflow,     \* "notify" or "push"
    SyncUsers,    \* notify subscribers that also sync their folder
    LeaseLen,     \* deliveryLeaseSeconds, in clock ticks
    Retention,    \* DedupeRetentionDays, in clock ticks; 0 disables cleanup
    MaxClock,     \* bound on the clock
    MaxFaults,    \* bound on injected storage errors
    None          \* SQL NULL

Active   == {"claimed", "running"}
Terminal == {"completed", "failed", "cancelled", "skipped", "unknown"}
ItemDone == {"succeeded", "failed", "skipped", "unknown"}
Modes    == {"dry_run", "execute"}

\* RunConfig, user and manifest of an invocation.  target None means every
\* subscriber, manifest None means the snapshot difference is the input.
Invocation == [ext : RunIds, mode : Modes, target : Users \union {None},
               manifest : {None} \union SUBSET Articles]

ASSUME NullAssumption ==
    /\ None \notin Workers
    /\ None \notin RunIds
    /\ None \notin Users

ASSUME ConfigAssumption ==
    /\ Invocations \subseteq Invocation
    /\ InitialIndex \subseteq Articles
    /\ Workflow \in {"notify", "push"}
    /\ SyncUsers \subseteq Users
    /\ LeaseLen \in Nat \ {0}
    /\ Retention \in Nat
    /\ MaxClock \in Nat
    /\ MaxFaults \in Nat

VARIABLES
    \* the authentication database
    run,      \* delivery_runs by external id
    lease,    \* the scope's delivery_leases row
    item,     \* subscriber rows of delivery_run_items by run and user
    input,    \* article rows of delivery_run_items by run
    dedupe,   \* delivery_dedupe by user and article
    ckpt,     \* the scope's delivery_checkpoints row; rev 0 is no row
    fav,      \* favourites written into tracking folders, by user
    \* the world around it
    indexed,  \* articles in the index database
    clock,    \* wall clock
    faults,   \* storage errors injected so far
    sent,     \* upstream deliveries of an article since its dedupe row
              \* was last forgotten (history variable)
    \* each worker's memory, lost in a crash
    pc,       \* its next repository call
    job,      \* durableRun and the invocation it serves
    att       \* the subscriber attempt in progress

dbVars == <<run, lease, item, input, dedupe, ckpt, fav>>
vars   == <<run, lease, item, input, dedupe, ckpt, fav,
            indexed, clock, faults, sent, pc, job, att>>

Lost     == {"idle", "done", "crashed"}   \* not executing
Refusing == {"mismatch", "leaseBusy"}
Failing  == {"failReconcile", "failFinal", "failRun", "failRelease"}
\* calls before the lease is held: an error there only ends the invocation
Entering == {"claim", "yield", "takeover", "lease"} \union Refusing
\* calls after it: an error there enters failBestEffort
Starting == {"load", "reconcile", "start", "cleanup"}
Running  == {"snapshot", "input", "prepare", "loop", "renewLease",
             "subscribers", "scan", "item", "select", "reserve", "release",
             "favorites", "finishItem", "mark", "send", "resolve", "finish"}
Labels   == Lost \union Entering \union Starting \union Running \union Failing

NoRun    == [status |-> "absent", owner |-> None, exp |-> 0, rev |-> 0,
             mode |-> "execute", target |-> None]
NoLease  == [owner |-> None, run |-> None, exp |-> 0, rev |-> 0]
NoItem   == [status |-> "absent", owner |-> None, exp |-> 0, rev |-> 0]
NoRow    == [status |-> "absent", owner |-> None, run |-> None, at |-> 0]
NoCkpt   == [status |-> "idle", snap |-> {}, rev |-> 0]
NoJob    == [inv |-> None, now |-> 0, run |-> None, runRev |-> 0,
             queued |-> FALSE, rival |-> None, rivalRev |-> 0, rivalExp |-> 0,
             took |-> FALSE, leaseRev |-> 0, ckpt |-> NoCkpt, current |-> {},
             cands |-> {}, todo |-> {}, seen |-> [u \in Users |-> "absent"],
             known |-> [u \in Users |-> {}],
             plans |-> [u \in Users |-> "absent"], end |-> "plans"]
NoAttempt == [user |-> None, rev |-> 0, sel |-> {}, got |-> {},
              ok |-> FALSE, fin |-> "skipped"]

Init ==
    /\ run    = [r \in RunIds |-> NoRun]
    /\ lease  = NoLease
    /\ item   = [r \in RunIds |-> [u \in Users |-> NoItem]]
    /\ input  = [r \in RunIds |-> {}]
    /\ dedupe = [u \in Users |-> [a \in Articles |-> NoRow]]
    /\ ckpt   = NoCkpt
    /\ fav    = [u \in Users |-> {}]
    /\ indexed = InitialIndex
    /\ clock  = 0
    /\ faults = 0
    /\ sent   = [u \in Users |-> [a \in Articles |-> 0]]
    /\ pc     = [w \in Workers |-> "idle"]
    /\ job    = [w \in Workers |-> NoJob]
    /\ att    = [w \in Workers |-> NoAttempt]

----------------------------------------------------------------------------
\* Vocabulary

Goto(w, label) == pc' = [pc EXCEPT ![w] = label]

\* The invocation returns, or its process dies: its memory is gone.
Leave(w, label) ==
    /\ Goto(w, label)
    /\ job' = [job EXCEPT ![w] = NoJob]
    /\ att' = [att EXCEPT ![w] = NoAttempt]

\* Seeded fault: failBestEffort without its SnapshotJson default from the
\* loaded checkpoint.
FailForgettingSnapshot(w, t) ==
    /\ Goto(w, "failReconcile")
    /\ job' = [job EXCEPT ![w] =
                 [NoJob EXCEPT !.now = t, !.run = job[w].run,
                               !.runRev = job[w].runRev,
                               !.ckpt = [job[w].ckpt EXCEPT !.snap = {}],
                               !.leaseRev = job[w].leaseRev]]
    /\ att' = [att EXCEPT ![w] = NoAttempt]

\* failBestEffort at time t, which sees of durableRun what the code keeps
Fail(w, t) ==
    /\ Goto(w, "failReconcile")
    /\ job' = [job EXCEPT ![w] =
                 [NoJob EXCEPT !.now = t, !.run = job[w].run,
                               !.runRev = job[w].runRev, !.ckpt = job[w].ckpt,
                               !.leaseRev = job[w].leaseRev]]
    /\ att' = [att EXCEPT ![w] = NoAttempt]

\* The durable run row is still exactly the one w last wrote.
Owns(w) ==
    LET r == job[w].run IN
    /\ r # None
    /\ run[r].owner = w
    /\ run[r].rev = job[w].runRev
    /\ run[r].status \in Active

\* requireActiveRun: owned, and the lease has not expired at time t
OwnsLive(w, t) == Owns(w) /\ run[job[w].run].exp > t

HoldsLease(w) ==
    /\ lease.owner = w
    /\ lease.run = job[w].run
    /\ lease.rev = job[w].leaseRev

\* Seeded fault: items updated by id and status, without owner and revision.
OwnsItemByStatus(w, statuses) ==
    item[job[w].run][att[w].user].status \in statuses \union ItemDone

OwnsItem(w, statuses) ==
    LET i == item[job[w].run][att[w].user] IN
    i.owner = w /\ i.rev = att[w].rev /\ i.status \in statuses

\* Every reservation the attempt made is still its own.
OwnsRows(w) ==
    \A a \in att[w].got :
        LET row == dedupe[att[w].user][a] IN
        row.status = "reserved" /\ row.owner = w /\ row.run = job[w].run

\* Every write of a run, item or lease row bumps its revision.
Taken(row, w, t) ==
    [row EXCEPT !.status = "claimed", !.owner = w, !.exp = t + LeaseLen,
                !.rev = @ + 1]
Renewed(row, t) == [row EXCEPT !.exp = t + LeaseLen, !.rev = @ + 1]
Moved(row, status) == [row EXCEPT !.status = status, !.rev = @ + 1]
Ended(row, status) ==
    [row EXCEPT !.status = status, !.owner = None, !.exp = 0, !.rev = @ + 1]

\* A reservation ends in doubt or with its attempt's answer at time t.
Doubted(row) == [row EXCEPT !.status = "unknown", !.owner = None]
Resolved(row, status, t) ==
    [row EXCEPT !.status = status, !.owner = None, !.at = t]

ReleasedLease == [lease EXCEPT !.owner = None, !.run = None, !.exp = 0,
                               !.rev = @ + 1]

\* writeCheckpoint's compare-and-swap against the revision w loaded
CheckpointFits(w) == ckpt.rev = job[w].ckpt.rev
NextCheckpoint(status, snap) ==
    [status |-> status, snap |-> snap, rev |-> ckpt.rev + 1]

----------------------------------------------------------------------------
\* Admission: admitDurableRun with one captured now

\* A snapshot-driven invocation draws a fresh random identity.
FreshIdentity(i) == i.manifest = None => run[i.ext].status = "absent"

Admit(w) ==
    /\ pc[w] = "idle"
    /\ \E i \in Invocations :
        /\ FreshIdentity(i)
        /\ run' = IF run[i.ext].status = "absent"
                  THEN [run EXCEPT ![i.ext] =
                          [NoRun EXCEPT !.status = "queued", !.mode = i.mode,
                                        !.target = i.target]]
                  ELSE run
        /\ \/ run[i.ext].status \in Terminal /\ Leave(w, "done")
           \/ /\ run[i.ext].status \notin Terminal
              /\ job' = [job EXCEPT ![w] =
                   [NoJob EXCEPT !.inv = i, !.now = clock, !.run = i.ext,
                      !.runRev = run[i.ext].rev,
                      !.queued = run[i.ext].status \in {"absent", "queued"}]]
              /\ Goto(w, "claim")
              /\ UNCHANGED att
    /\ UNCHANGED <<lease, item, input, dedupe, ckpt, fav, indexed, clock,
                   faults, sent>>

\* Seeded fault: only queued runs are claimed, expired ones are left alone.
ClaimableQueued(r, t) == run[r].status = "queued"
Claimable(r, t) ==
    \/ run[r].status = "queued"
    \/ run[r].status \in Active /\ run[r].exp <= t

\* Seeded fault: an expired rival is overlooked.
UnexpiredRivals(r) ==
    {q \in RunIds \ {r} : run[q].status \in Active /\ run[q].exp > clock}
Rivals(r) == {q \in RunIds \ {r} : run[q].status \in Active}

\* validateRecoveredDelivery: the row must be the one this invocation asks for
SameContext(w, r) ==
    run[r].mode = job[w].inv.mode /\ run[r].target = job[w].inv.target

\* ClaimRun's update, then the context check
TakeRun(w, r, took) ==
    /\ run' = [run EXCEPT ![r] = Taken(@, w, job[w].now)]
    /\ job' = [job EXCEPT ![w] =
                 [NoJob EXCEPT !.inv = job[w].inv, !.now = job[w].now,
                               !.run = r, !.runRev = run[r].rev + 1,
                               !.took = took]]
    /\ Goto(w, IF SameContext(w, r) THEN "lease" ELSE "mismatch")
    /\ UNCHANGED att

\* ClaimRun found another active run q: withdraw an own queued row first.
MeetRival(w, q) ==
    /\ UNCHANGED run
    /\ LET met == [job[w] EXCEPT !.rival = q, !.rivalRev = run[q].rev,
                                 !.rivalExp = run[q].exp]
       IN \/ /\ job[w].queued
             /\ Goto(w, "yield")
             /\ job' = [job EXCEPT ![w] = met]
             /\ UNCHANGED att
          \/ /\ ~job[w].queued /\ run[q].exp <= job[w].now
             /\ Goto(w, "takeover")
             /\ job' = [job EXCEPT ![w] = met]
             /\ UNCHANGED att
          \/ /\ ~job[w].queued /\ run[q].exp > job[w].now
             /\ Leave(w, "done")

Claim(w) ==
    LET r == job[w].run
        CanClaim == run[r].rev = job[w].runRev /\ Claimable(r, job[w].now)
    IN
    /\ pc[w] = "claim"
    /\ \/ ~CanClaim /\ Leave(w, "done") /\ UNCHANGED run
       \/ CanClaim /\ \E q \in Rivals(r) : MeetRival(w, q)
       \/ CanClaim /\ Rivals(r) = {} /\ TakeRun(w, r, FALSE)
    /\ UNCHANGED <<lease, item, input, dedupe, ckpt, fav, indexed, clock,
                   faults, sent>>

\* CancelRun on the queued candidate; its error is ignored.
Yield(w) ==
    LET r == job[w].run IN
    /\ pc[w] = "yield"
    /\ run' = IF run[r].rev = job[w].runRev
              THEN [run EXCEPT ![r] = Ended(@, "cancelled")] ELSE run
    /\ \/ job[w].rivalExp > job[w].now /\ Leave(w, "done")
       \/ /\ job[w].rivalExp <= job[w].now
          /\ Goto(w, "takeover")
          /\ UNCHANGED <<job, att>>
    /\ UNCHANGED <<lease, item, input, dedupe, ckpt, fav, indexed, clock,
                   faults, sent>>

\* The second ClaimRun, against the expired rival.
Takeover(w) ==
    LET q == job[w].rival
        CanClaim == /\ run[q].rev = job[w].rivalRev
                    /\ Claimable(q, job[w].now)
                    /\ Rivals(q) = {}
    IN
    /\ pc[w] = "takeover"
    /\ \/ ~CanClaim /\ Leave(w, "done") /\ UNCHANGED run
       \/ CanClaim /\ TakeRun(w, q, TRUE)
    /\ UNCHANGED <<lease, item, input, dedupe, ckpt, fav, indexed, clock,
                   faults, sent>>

\* FinalizeRun without reconciliation or lease: a recovered run of another
\* context is failed, a run whose workflow lease is busy is skipped.
Refuse(w) ==
    /\ pc[w] \in Refusing
    /\ run' = IF Owns(w)
              THEN [run EXCEPT ![job[w].run] =
                      Ended(@, IF pc[w] = "mismatch" THEN "failed" ELSE "skipped")]
              ELSE run
    /\ Leave(w, "done")
    /\ UNCHANGED <<lease, item, input, dedupe, ckpt, fav, indexed, clock,
                   faults, sent>>

AcquireLease(w) ==
    LET free == lease.owner = None \/ lease.exp <= job[w].now IN
    /\ pc[w] = "lease"
    /\ \/ /\ free
          /\ lease' = [owner |-> w, run |-> job[w].run,
                       exp |-> job[w].now + LeaseLen, rev |-> lease.rev + 1]
          /\ job' = [job EXCEPT ![w].leaseRev = lease.rev + 1]
          /\ Goto(w, "load")
       \/ ~free /\ Goto(w, "leaseBusy") /\ UNCHANGED <<lease, job>>
    /\ UNCHANGED <<run, item, input, dedupe, ckpt, fav, indexed, clock,
                   faults, sent, att>>

LoadCheckpoint(w) ==
    /\ pc[w] = "load"
    /\ job' = [job EXCEPT ![w].ckpt = ckpt]
    /\ Goto(w, "reconcile")
    /\ UNCHANGED <<run, lease, item, input, dedupe, ckpt, fav, indexed, clock,
                   faults, sent, att>>

\* Seeded fault: reservations deleted before those of sending items are marked.
QuarantineReleasingFirst(r) ==
    /\ dedupe' = [u \in Users |-> [a \in Articles |->
         IF dedupe[u][a].run = r /\ dedupe[u][a].status = "reserved"
         THEN NoRow ELSE dedupe[u][a]]]
    /\ item' = [item EXCEPT ![r] = [u \in Users |->
         CASE item[r][u].status = "sending" -> Ended(item[r][u], "unknown")
           [] item[r][u].status = "claimed" -> Ended(item[r][u], "pending")
           [] OTHER -> item[r][u]]]

\* Seeded fault: a sending item is reset like a claimed one.
QuarantineRetrying(r) ==
    /\ dedupe' = [u \in Users |-> [a \in Articles |->
         IF dedupe[u][a].run = r /\ dedupe[u][a].status = "reserved"
         THEN NoRow ELSE dedupe[u][a]]]
    /\ item' = [item EXCEPT ![r] = [u \in Users |->
         IF item[r][u].status \in {"sending", "claimed"}
         THEN Ended(item[r][u], "pending") ELSE item[r][u]]]

\* The four statements of ReconcileAfterTakeover on run r.
Quarantine(r) ==
    /\ dedupe' = [u \in Users |-> [a \in Articles |->
         LET row == dedupe[u][a] IN
         IF row.run = r /\ row.status = "reserved"
         THEN IF item[r][u].status = "sending"
              THEN Doubted(row)
              ELSE NoRow
         ELSE row]]
    /\ item' = [item EXCEPT ![r] = [u \in Users |->
         CASE item[r][u].status = "sending" -> Ended(item[r][u], "unknown")
           [] item[r][u].status = "claimed" -> Ended(item[r][u], "pending")
           [] OTHER -> item[r][u]]]

Reconcile(w) ==
    /\ pc[w] = "reconcile"
    /\ \/ /\ OwnsLive(w, job[w].now)
          /\ Quarantine(job[w].run)
          /\ Goto(w, "start")
          /\ UNCHANGED <<job, att>>
       \/ /\ ~OwnsLive(w, job[w].now)
          /\ Fail(w, job[w].now)
          /\ UNCHANGED <<item, dedupe>>
    /\ UNCHANGED <<run, lease, input, ckpt, fav, indexed, clock, faults, sent>>

StartRun(w) ==
    LET r == job[w].run
        ok == OwnsLive(w, job[w].now) /\ run[r].status = "claimed"
    IN
    /\ pc[w] = "start"
    /\ \/ /\ ok
          /\ run' = [run EXCEPT ![r] = Moved(@, "running")]
          /\ job' = [job EXCEPT ![w].runRev = @ + 1]
          /\ Goto(w, IF Retention > 0 THEN "cleanup" ELSE "snapshot")
          /\ UNCHANGED att
       \/ ~ok /\ Fail(w, job[w].now) /\ UNCHANGED run
    /\ UNCHANGED <<lease, item, input, dedupe, ckpt, fav, indexed, clock,
                   faults, sent>>

\* Seeded fault: retention also forgets rows in doubt.
ForgottenInDoubt(u, a, t) ==
    dedupe[u][a].status \in {"confirmed", "unknown"} /\ dedupe[u][a].at + Retention < t

\* CleanupConfirmedDedupe forgets what was confirmed before the cutoff.
Forgotten(u, a, t) ==
    dedupe[u][a].status = "confirmed" /\ dedupe[u][a].at + Retention < t

Cleanup(w) ==
    /\ pc[w] = "cleanup"
    /\ dedupe' = [u \in Users |-> [a \in Articles |->
                    IF Forgotten(u, a, job[w].now) THEN NoRow ELSE dedupe[u][a]]]
    /\ sent'   = [u \in Users |-> [a \in Articles |->
                    IF Forgotten(u, a, job[w].now) THEN 0 ELSE sent[u][a]]]
    /\ Goto(w, "snapshot")
    /\ UNCHANGED <<run, lease, item, input, ckpt, fav, indexed, clock, faults,
                   job, att>>

----------------------------------------------------------------------------
\* Execution under the lease: executeOwned

\* loadDeliverySnapshots reads the index as it is now.
ReadIndex(w) ==
    /\ pc[w] = "snapshot"
    /\ job' = [job EXCEPT ![w].current = indexed]
    /\ Goto(w, "input")
    /\ UNCHANGED <<run, lease, item, input, dedupe, ckpt, fav, indexed, clock,
                   faults, sent, att>>

\* inputFromSource: the manifest, or what the index gained since the checkpoint
Source(w) ==
    IF job[w].inv.manifest # None THEN job[w].inv.manifest
    ELSE job[w].current \ job[w].ckpt.snap

\* prepareDeliveryInput keeps durable input, otherwise persists the source;
\* then loadCandidates reads the articles that are in the index.
PersistInput(w) ==
    LET r == job[w].run
        src == IF input[r] # {} THEN input[r] ELSE Source(w)
        ok == (job[w].took => input[r] # {}) /\ run[r].status \notin Terminal
    IN
    /\ pc[w] = "input"
    /\ \/ /\ ok
          /\ input' = [input EXCEPT ![r] = src]
          /\ job' = [job EXCEPT ![w].cands = src \cap indexed,
                                ![w].end = IF src = {} THEN "idle" ELSE @]
          /\ Goto(w, IF src = {} THEN "finish" ELSE "prepare")
          /\ UNCHANGED att
       \/ ~ok /\ Fail(w, clock) /\ UNCHANGED input
    /\ UNCHANGED <<run, lease, item, dedupe, ckpt, fav, indexed, clock,
                   faults, sent>>

\* durableRun.renew, first the run row.  u is None in finalizeProgress, the
\* next subscriber in executeSubscriberPlans.
RenewRun(w, u) ==
    LET r == job[w].run IN
    /\ \/ pc[w] = "prepare" /\ u = None
       \/ pc[w] = "loop" /\ u \in job[w].todo
    /\ \/ /\ OwnsLive(w, clock)
          /\ run' = [run EXCEPT ![r] = Renewed(@, clock)]
          /\ job' = [job EXCEPT ![w].runRev = @ + 1, ![w].now = clock]
          /\ att' = [att EXCEPT ![w] = [NoAttempt EXCEPT !.user = u]]
          /\ Goto(w, "renewLease")
       \/ ~OwnsLive(w, clock) /\ Fail(w, clock) /\ UNCHANGED run
    /\ UNCHANGED <<lease, item, input, dedupe, ckpt, fav, indexed, clock,
                   faults, sent>>

\* ... then the workflow lease, with the same now.
RenewLease(w) ==
    LET ok == HoldsLease(w) /\ lease.exp > job[w].now IN
    /\ pc[w] = "renewLease"
    /\ \/ /\ ok
          /\ lease' = Renewed(lease, job[w].now)
          /\ job' = [job EXCEPT ![w].leaseRev = @ + 1]
          /\ Goto(w, IF att[w].user = None THEN "subscribers" ELSE "item")
          /\ UNCHANGED att
       \/ ~ok /\ Fail(w, clock) /\ UNCHANGED lease
    /\ UNCHANGED <<run, item, input, dedupe, ckpt, fav, indexed, clock,
                   faults, sent>>

\* The subscribers whose settings select this workflow and database right now
Eligible(w) ==
    SUBSET (IF job[w].inv.target = None THEN Users ELSE {job[w].inv.target})

\* filteredSubscribers and prepareSubscriberItems; no candidates or nobody to
\* serve ends the run early.
ListSubscribers(w) ==
    LET r == job[w].run
        early == IF job[w].cands = {} THEN "empty" ELSE "nobody"
        Listed(S) == [u \in Users |->
            IF u \in S /\ item[r][u].status = "absent"
            THEN [NoItem EXCEPT !.status = "pending"] ELSE item[r][u]]
    IN
    /\ pc[w] = "subscribers"
    /\ \E S \in Eligible(w) :
        \/ /\ job[w].cands = {} \/ S = {}
           /\ job' = [job EXCEPT ![w].end = early]
           /\ Goto(w, "finish")
           /\ UNCHANGED <<item, att>>
        \/ /\ job[w].cands # {} /\ S # {} /\ run[r].status \notin Terminal
           /\ item' = [item EXCEPT ![r] = Listed(S)]
           /\ job' = [job EXCEPT ![w].todo = S,
                                 ![w].seen = [u \in Users |-> Listed(S)[u].status]]
           /\ Goto(w, "scan")
           /\ UNCHANGED att
        \/ /\ job[w].cands # {} /\ S # {} /\ run[r].status \in Terminal
           /\ Fail(w, clock)
           /\ UNCHANGED item
    /\ UNCHANGED <<run, lease, input, dedupe, ckpt, fav, indexed, clock,
                   faults, sent>>

\* deliverySelectionRequest's ListDedupe, read once for all subscribers
ScanDedupe(w) ==
    /\ pc[w] = "scan"
    /\ job' = [job EXCEPT ![w].known =
                 [u \in Users |-> {a \in Articles : dedupe[u][a].status # "absent"}]]
    /\ Goto(w, "loop")
    /\ UNCHANGED <<run, lease, item, input, dedupe, ckpt, fav, indexed, clock,
                   faults, sent, att>>

\* The subscriber's plan is settled with an item status.
Settle(w, status) ==
    /\ job' = [job EXCEPT ![w].todo = @ \ {att[w].user},
                          ![w].plans[att[w].user] = status]
    /\ att' = [att EXCEPT ![w] = NoAttempt]
    /\ Goto(w, IF job[w].todo = {att[w].user} THEN "finish" ELSE "loop")

\* executeSubscriberItem: a terminal item only reports, any other is claimed.
ClaimItem(w) ==
    LET r == job[w].run
        u == att[w].user
        done == job[w].seen[u] \in ItemDone
        ok == /\ OwnsLive(w, clock)
              /\ \/ item[r][u].status = "pending"
                 \/ item[r][u].status = "claimed" /\ item[r][u].exp <= clock
    IN
    /\ pc[w] = "item"
    /\ \/ done /\ Settle(w, job[w].seen[u]) /\ UNCHANGED item
       \/ /\ ~done /\ ok
          /\ item' = [item EXCEPT ![r][u] = Taken(@, w, clock)]
          /\ att' = [att EXCEPT ![w].rev = item[r][u].rev + 1]
          /\ Goto(w, "select")
          /\ UNCHANGED job
       \/ ~done /\ ~ok /\ Fail(w, clock) /\ UNCHANGED item
    /\ UNCHANGED <<run, lease, input, dedupe, ckpt, fav, indexed, clock,
                   faults, sent>>

\* buildPlan: the selection fails, accepts nothing, or accepts some candidates
\* the dedupe scan did not know.  A dry run stops here.
Select(w) ==
    LET fresh == job[w].cands \ job[w].known[att[w].user]
        dry == job[w].inv.mode = "dry_run"
    IN
    /\ pc[w] = "select"
    /\ \/ \E fin \in {"failed", "skipped"} :
            /\ att' = [att EXCEPT ![w].fin = fin]
            /\ Goto(w, "finishItem")
       \/ /\ dry /\ fresh # {}
          /\ att' = [att EXCEPT ![w].fin = "succeeded"]
          /\ Goto(w, "finishItem")
       \/ /\ ~dry
          /\ \E S \in SUBSET fresh \ {{}} : att' = [att EXCEPT ![w].sel = S]
          /\ Goto(w, "reserve")
    /\ UNCHANGED <<run, lease, item, input, dedupe, ckpt, fav, indexed, clock,
                   faults, sent, job>>

\* reserveSubscriberArticles, one ReserveDedupe per article: an existing row
\* turns the whole subscriber into a skip.
Reserve(w) ==
    LET u == att[w].user IN
    /\ pc[w] = "reserve"
    /\ \E a \in att[w].sel \ att[w].got :
        \/ /\ dedupe[u][a].status = "absent"
           /\ dedupe' = [dedupe EXCEPT ![u][a] =
                [status |-> "reserved", owner |-> w, run |-> job[w].run, at |-> 0]]
           /\ att' = [att EXCEPT ![w].got = @ \union {a}]
           /\ Goto(w, IF att[w].got \union {a} = att[w].sel
                      THEN "favorites" ELSE "reserve")
        \/ /\ dedupe[u][a].status # "absent"
           /\ att' = [att EXCEPT ![w].fin = "skipped"]
           /\ Goto(w, "release")
           /\ UNCHANGED dedupe
    /\ UNCHANGED <<run, lease, item, input, ckpt, fav, indexed, clock, faults,
                   sent, job>>

\* Seeded fault: a failed favourite write is not noticed.
WriteFavoritesUnchecked(w) ==
    /\ pc[w] = "favorites"
    /\ Goto(w, IF Workflow = "notify" THEN "mark" ELSE "resolve")
    /\ att' = [att EXCEPT ![w].ok = Workflow = "push"]
    /\ UNCHANGED <<run, lease, item, input, dedupe, ckpt, fav, indexed, clock,
                   faults, sent, job>>

\* writeFavorites, one idempotent transaction for the subscriber's folder
WriteFavorites(w) ==
    LET u == att[w].user
        writes == IF Workflow = "push" \/ u \in SyncUsers THEN att[w].sel ELSE {}
    IN
    /\ pc[w] = "favorites"
    /\ \/ /\ fav' = [fav EXCEPT ![u] = @ \union writes]
          /\ Goto(w, IF Workflow = "notify" THEN "mark" ELSE "resolve")
          /\ att' = [att EXCEPT ![w].ok = Workflow = "push"]
       \/ /\ writes # {}
          /\ att' = [att EXCEPT ![w].fin = "failed"]
          /\ Goto(w, "release")
          /\ UNCHANGED fav
    /\ UNCHANGED <<run, lease, item, input, dedupe, ckpt, indexed, clock,
                   faults, sent, job>>

\* ReleaseReservations: all of the attempt's rows or none.
Release(w) ==
    /\ pc[w] = "release"
    /\ \/ /\ OwnsRows(w)
          /\ dedupe' = [dedupe EXCEPT ![att[w].user] = [a \in Articles |->
                          IF a \in att[w].got THEN NoRow ELSE @[a]]]
          /\ Goto(w, "finishItem")
          /\ UNCHANGED <<job, att>>
       \/ ~OwnsRows(w) /\ Fail(w, clock) /\ UNCHANGED dedupe
    /\ UNCHANGED <<run, lease, item, input, ckpt, fav, indexed, clock, faults,
                   sent>>

\* FinalizeItem of processSubscriber's finish
FinishItem(w) ==
    LET ok == OwnsItem(w, {"claimed", "sending"}) IN
    /\ pc[w] = "finishItem"
    /\ \/ /\ ok
          /\ item' = [item EXCEPT ![job[w].run][att[w].user] = Ended(@, att[w].fin)]
          /\ Settle(w, att[w].fin)
       \/ ~ok /\ Fail(w, clock) /\ UNCHANGED item
    /\ UNCHANGED <<run, lease, input, dedupe, ckpt, fav, indexed, clock,
                   faults, sent>>

\* MarkItemSending durably crosses the side-effect boundary.
MarkSending(w) ==
    LET i == item[job[w].run][att[w].user]
        ok == OwnsItem(w, {"claimed"}) /\ i.exp > clock
    IN
    /\ pc[w] = "mark"
    /\ \/ /\ ok
          /\ item' = [item EXCEPT ![job[w].run][att[w].user] = Moved(@, "sending")]
          /\ att' = [att EXCEPT ![w].rev = @ + 1]
          /\ Goto(w, "send")
          /\ UNCHANGED job
       \/ ~ok /\ Fail(w, clock) /\ UNCHANGED item
    /\ UNCHANGED <<run, lease, input, dedupe, ckpt, fav, indexed, clock,
                   faults, sent>>

\* PushplusClient.Send.  The provider may have delivered a message whose
\* answer was an error or was lost; a success answer means it did.
Send(w) ==
    LET u == att[w].user IN
    /\ pc[w] = "send"
    /\ \E delivered, ok \in BOOLEAN :
        /\ ok => delivered
        /\ att' = [att EXCEPT ![w].ok = ok]
        /\ sent' = [sent EXCEPT ![u] = [a \in Articles |->
                      IF delivered /\ a \in att[w].sel THEN @[a] + 1 ELSE @[a]]]
    /\ Goto(w, "resolve")
    /\ UNCHANGED <<run, lease, item, input, dedupe, ckpt, fav, indexed, clock,
                   faults, job>>

\* FinalizeAttempt: every reservation and the item in one transaction
Resolve(w) ==
    LET u == att[w].user
        ok == OwnsRows(w) /\ OwnsItem(w, {"claimed", "sending"})
        rowStatus == IF att[w].ok THEN "confirmed" ELSE "unknown"
        itemStatus == IF att[w].ok THEN "succeeded" ELSE "unknown"
    IN
    /\ pc[w] = "resolve"
    /\ \/ /\ ok
          /\ dedupe' = [dedupe EXCEPT ![u] = [a \in Articles |->
               IF a \in att[w].got
               THEN Resolved(@[a], rowStatus, clock)
               ELSE @[a]]]
          /\ item' = [item EXCEPT ![job[w].run][u] = Ended(@, itemStatus)]
          /\ Settle(w, itemStatus)
       \/ ~ok /\ Fail(w, clock) /\ UNCHANGED <<dedupe, item>>
    /\ UNCHANGED <<run, lease, input, ckpt, fav, indexed, clock, faults, sent>>

----------------------------------------------------------------------------
\* Endings

\* Seeded fault: the workflow lease is left to expire.
FinalizeRunKeepingLease(w, status, ckptStatus, snap) ==
    /\ run' = [run EXCEPT ![job[w].run] = Ended(@, status)]
    /\ ckpt' = NextCheckpoint(ckptStatus, snap)
    /\ UNCHANGED lease

\* FinalizeRunWithCheckpoint: checkpoint, run and lease move together or not
\* at all.
CanFinalize(w) == Owns(w) /\ HoldsLease(w) /\ CheckpointFits(w)
FinalizeRun(w, status, ckptStatus, snap) ==
    /\ run' = [run EXCEPT ![job[w].run] = Ended(@, status)]
    /\ ckpt' = NextCheckpoint(ckptStatus, snap)
    /\ lease' = ReleasedLease

\* Seeded fault: only doubt, not failure, keeps a run from completing.
OutcomeIgnoringFailure(w) ==
    IF \E u \in Users : job[w].plans[u] = "unknown"
    THEN <<"unknown", "unknown", job[w].ckpt.snap>>
    ELSE <<"completed", "completed", job[w].current>>

\* The status of a finished run and what happens to the snapshot:
\* finalizeSubscriberPlans and executeOwned's early exits.
Outcome(w) ==
    LET previous == job[w].ckpt.snap
        current  == job[w].current
        Some(status) == \E u \in Users : job[w].plans[u] = status
    IN CASE job[w].end = "idle"   -> <<"skipped", "idle", current>>
         [] job[w].end = "empty"  -> <<"completed", "completed", current>>
         [] job[w].end = "nobody" -> <<"skipped", "skipped", previous>>
         [] Some("unknown") -> <<"unknown", "unknown", previous>>
         [] Some("failed") -> <<"failed", "failed", previous>>
         [] OTHER -> <<"completed", "completed", current>>

Finish(w) ==
    LET o == Outcome(w) IN
    /\ pc[w] = "finish"
    /\ \/ /\ CanFinalize(w)
          /\ FinalizeRun(w, o[1], o[2], o[3])
          /\ Leave(w, "done")
       \/ ~CanFinalize(w) /\ Fail(w, clock) /\ UNCHANGED <<run, ckpt, lease>>
    /\ UNCHANGED <<item, input, dedupe, fav, indexed, clock, faults, sent>>

\* failBestEffort: reconcile if still the live owner, remember whether a send
\* was left ambiguous ...
FailReconcile(w) ==
    LET r == job[w].run
        ambiguous == \E u \in Users : item[r][u].status = "sending"
    IN
    /\ pc[w] = "failReconcile"
    /\ \/ /\ OwnsLive(w, job[w].now)
          /\ Quarantine(r)
          /\ job' = [job EXCEPT ![w].end = IF ambiguous THEN "unknown" ELSE "failed"]
       \/ /\ ~OwnsLive(w, job[w].now)
          /\ job' = [job EXCEPT ![w].end = "failed"]
          /\ UNCHANGED <<item, dedupe>>
    /\ Goto(w, "failFinal")
    /\ UNCHANGED <<run, lease, input, ckpt, fav, indexed, clock, faults, sent, att>>

\* ... finalise everything with the snapshot that was loaded ...
FailFinal(w) ==
    /\ pc[w] = "failFinal"
    /\ \/ /\ CanFinalize(w)
          /\ FinalizeRun(w, job[w].end, job[w].end, job[w].ckpt.snap)
          /\ Leave(w, "done")
       \/ /\ ~CanFinalize(w)
          /\ Goto(w, "failRun")
          /\ UNCHANGED <<run, ckpt, lease, job, att>>
    /\ UNCHANGED <<item, input, dedupe, fav, indexed, clock, faults, sent>>

\* ... or at least the run ...
FailRun(w) ==
    /\ pc[w] = "failRun"
    /\ run' = IF Owns(w) THEN [run EXCEPT ![job[w].run] = Ended(@, job[w].end)]
              ELSE run
    /\ Goto(w, "failRelease")
    /\ UNCHANGED <<lease, item, input, dedupe, ckpt, fav, indexed, clock,
                   faults, sent, job, att>>

\* ... and then the lease.
FailRelease(w) ==
    /\ pc[w] = "failRelease"
    /\ lease' = IF HoldsLease(w) THEN ReleasedLease ELSE lease
    /\ Leave(w, "done")
    /\ UNCHANGED <<run, item, input, dedupe, ckpt, fav, indexed, clock, faults,
                   sent>>

----------------------------------------------------------------------------
\* The environment

\* ExecutionControl.Check: a manual job is cancelled or past its deadline.
ControlStop(w) ==
    /\ pc[w] \in {"snapshot", "loop", "reserve", "mark"}
    /\ pc[w] = "reserve" => att[w].got = {}
    /\ job[w].inv.target # None
    /\ Fail(w, clock)
    /\ UNCHANGED <<run, lease, item, input, dedupe, ckpt, fav, indexed, clock,
                   faults, sent>>

\* failBestEffort carries on after an error of one of its own calls.
NextFailing(label) ==
    CASE label = "failReconcile" -> "failFinal"
      [] label = "failFinal"     -> "failRun"
      [] label = "failRun"       -> "failRelease"

\* A repository call fails and rolls back.
StorageError(w) ==
    /\ faults < MaxFaults
    /\ faults' = faults + 1
    /\ \/ pc[w] \in (Entering \ {"yield"}) \union {"failRelease"} /\ Leave(w, "done")
       \/ pc[w] \in Starting /\ Fail(w, job[w].now)
       \/ pc[w] \in Running \ {"select", "favorites", "send"} /\ Fail(w, clock)
       \/ /\ pc[w] \in Failing \ {"failRelease"}
          /\ job' = [job EXCEPT ![w].end =
                       IF pc[w] = "failReconcile" THEN "failed" ELSE @]
          /\ Goto(w, NextFailing(pc[w]))
          /\ UNCHANGED att
    /\ UNCHANGED <<run, lease, item, input, dedupe, ckpt, fav, indexed, clock,
                   sent>>

\* The process dies; its rows stay.
Crash(w) ==
    /\ pc[w] \notin Lost
    /\ Leave(w, "crashed")
    /\ UNCHANGED <<run, lease, item, input, dedupe, ckpt, fav, indexed, clock,
                   faults, sent>>

Tick ==
    /\ clock < MaxClock
    /\ clock' = clock + 1
    /\ UNCHANGED <<run, lease, item, input, dedupe, ckpt, fav, indexed, faults,
                   sent, pc, job, att>>

\* `litradar index` commits an article.
IndexArticle(a) ==
    /\ a \notin indexed
    /\ indexed' = indexed \union {a}
    /\ UNCHANGED <<run, lease, item, input, dedupe, ckpt, fav, clock, faults,
                   sent, pc, job, att>>

\* The next repository call (or provider call) of an executing invocation
Step(w) ==
    \/ Claim(w) \/ Yield(w) \/ Takeover(w) \/ Refuse(w) \/ AcquireLease(w)
    \/ LoadCheckpoint(w) \/ Reconcile(w) \/ StartRun(w) \/ Cleanup(w)
    \/ ReadIndex(w) \/ PersistInput(w)
    \/ \E u \in Users \union {None} : RenewRun(w, u)
    \/ RenewLease(w) \/ ListSubscribers(w) \/ ScanDedupe(w)
    \/ ClaimItem(w) \/ Select(w) \/ Reserve(w) \/ WriteFavorites(w)
    \/ Release(w) \/ FinishItem(w) \/ MarkSending(w) \/ Send(w) \/ Resolve(w)
    \/ Finish(w) \/ FailReconcile(w) \/ FailFinal(w) \/ FailRun(w)
    \/ FailRelease(w)

Next ==
    \/ \E w \in Workers : Admit(w) \/ Step(w) \/ ControlStop(w)
                          \/ StorageError(w) \/ Crash(w)
    \/ Tick
    \/ \E a \in Articles : IndexArticle(a)

Spec == Init /\ [][Next]_vars

\* A process that has started keeps executing unless it crashes.
FairSpec == Spec /\ \A w \in Workers : WF_vars(Step(w))

=============================================================================
