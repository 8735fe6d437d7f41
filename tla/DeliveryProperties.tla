------------------------- MODULE DeliveryProperties -------------------------
(***************************************************************************)
(* What module Delivery is checked against.                                *)
(***************************************************************************)
EXTENDS Delivery

----------------------------------------------------------------------------
\* Types

Owner   == Workers \union {None}
RunRow  == [status : {"absent", "queued"} \union Active \union Terminal,
            owner : Owner, exp : Nat, rev : Nat, mode : Modes,
            target : Users \union {None}]
Lease   == [owner : Owner, run : RunIds \union {None}, exp : Nat, rev : Nat]
ItemStatus == {"absent", "pending", "claimed", "sending"} \union ItemDone
ItemRow == [status : ItemStatus, owner : Owner, exp : Nat, rev : Nat]
Row     == [status : {"absent", "reserved", "confirmed", "unknown"},
            owner : Owner, run : RunIds \union {None}, at : Nat]
Ckpt    == [status : {"idle", "completed", "skipped", "failed", "unknown"},
            snap : SUBSET Articles, rev : Nat]
Job     == [inv : {None} \union Invocation, now : Nat,
            run : RunIds \union {None}, runRev : Nat, queued : BOOLEAN,
            rival : RunIds \union {None}, rivalRev : Nat, rivalExp : Nat,
            took : BOOLEAN, leaseRev : Nat, ckpt : Ckpt,
            current : SUBSET Articles, cands : SUBSET Articles,
            todo : SUBSET Users, seen : [Users -> ItemStatus],
            known : [Users -> SUBSET Articles],
            plans : [Users -> {"absent"} \union ItemDone],
            end : {"plans", "idle", "empty", "nobody", "failed", "unknown"}]
Attempt == [user : Users \union {None}, rev : Nat, sel : SUBSET Articles,
            got : SUBSET Articles, ok : BOOLEAN, fin : ItemDone]

\* Every variable has its type: the CHECK constraints of the delivery tables
\* and the field types of durableRun.
TypeOK ==
    /\ run \in [RunIds -> RunRow]
    /\ lease \in Lease
    /\ item \in [RunIds -> [Users -> ItemRow]]
    /\ input \in [RunIds -> SUBSET Articles]
    /\ dedupe \in [Users -> [Articles -> Row]]
    /\ ckpt \in Ckpt
    /\ fav \in [Users -> SUBSET Articles]
    /\ indexed \in SUBSET Articles
    /\ clock \in Nat
    /\ faults \in Nat
    /\ sent \in [Users -> [Articles -> Nat]]
    /\ pc \in [Workers -> Labels]
    /\ job \in [Workers -> Job]
    /\ att \in [Workers -> Attempt]

----------------------------------------------------------------------------
\* Safety

\* No article is delivered upstream to a subscriber twice, however many
\* invocations overlap, crash, stall past their lease or take each other over
\* (unless retention has forgotten the confirmation).
AtMostOnce ==
    \A u \in Users, a \in Articles : sent[u][a] <= 1

\* Whatever may have been sent is protected: its dedupe row exists, and while
\* that row is only reserved its item still says "sending", so that
\* ReconcileAfterTakeover will not release it.
SendBoundary ==
    \A u \in Users, a \in Articles :
        sent[u][a] > 0 =>
            /\ dedupe[u][a].status # "absent"
            /\ (dedupe[u][a].status = "reserved" =>
                  item[dedupe[u][a].run][u].status = "sending")

\* ClaimRun admits one executing run per scope, although each invocation
\* looks, withdraws its own candidate and takes over in separate transactions.
OneActiveRun ==
    Cardinality({r \in RunIds : run[r].status \in Active}) <= 1

\* What an invocation reports of a subscriber is what the item row says, even
\* for the items it only read before its loop (executeSubscriberPlans' byKey).
ReportIsDurable ==
    \A w \in Workers, u \in Users :
        \/ job[w].plans[u] = "absent"
        \/ item[job[w].run][u].status = job[w].plans[u]

\* A favourite is written before the message that announces it, and a
\* confirmed folder push is in the folder.
FolderFirst ==
    \A u \in Users, a \in Articles :
        (\/ Workflow = "push" /\ dedupe[u][a].status = "confirmed"
         \/ u \in SyncUsers /\ sent[u][a] > 0)
        => a \in fav[u]

\* An invocation that returns and met no storage error leaves neither the run
\* nor the workflow lease in its name: nothing waits for its expiry.
NoAbandon ==
    faults = 0 => \A w \in Workers :
        pc[w] = "done" =>
            /\ lease.owner # w
            /\ \A r \in RunIds : run[r].owner # w

\* The checkpoint never moves back: no failed, stale or overlapping
\* invocation makes an article new again.
SnapshotMonotone == [][ckpt.snap \subseteq ckpt'.snap]_ckpt

\* An invocation that completes a run has settled every subscriber it planned
\* for, without failure or doubt, and leaves no item of the run claimed or
\* sending.  (An item an earlier owner saw fail may stay failed in a completed
\* run, when its subscriber no longer selects the workflow.)
CompletedIsClean ==
    [][\A w \in Workers :
          LET r == job[w].run IN
          (/\ pc[w] = "finish" /\ pc'[w] = "done"
           /\ run[r].status # "completed"
           /\ run'[r].status = "completed")
              =>  \A u \in Users :
                      /\ item[r][u].status \notin {"claimed", "sending"}
                      /\ \/ job[w].plans[u] = "absent"
                         \/ item[r][u].status \in {"succeeded", "skipped"}]_vars

\* The inductive invariant behind AtMostOnce, SendBoundary and KeepsContract.
Preparing == {"reserve", "favorites", "release", "mark"}
Attempting == {"item", "select", "finishItem", "send", "resolve"} \union Preparing
Gone == {"done", "crashed"} \union Failing
Reserved(u, a) == dedupe[u][a].status = "reserved"
OwnRow(w, u, a) == /\ Reserved(u, a)
                   /\ dedupe[u][a].owner = w
                   /\ dedupe[u][a].run = job[w].run
Claims(w, u) == /\ item[job[w].run][u].status = "claimed"
                /\ item[job[w].run][u].owner = w

\* a reservation names its run and owner
RowsAreOwned ==
    \A u \in Users, a \in Articles :
        Reserved(u, a) => dedupe[u][a].run \in RunIds /\ dedupe[u][a].owner \in Workers

\* an invocation in progress knows its run, a rival it met, what it was asked
\* for, and how a failed run ends
InvocationShape ==
    \A w \in Workers :
        /\ pc[w] \notin Lost => job[w].run \in RunIds
        /\ pc[w] \notin Lost \union Failing => job[w].inv \in Invocation
        /\ pc[w] \in {"yield", "takeover"} => job[w].rival \in RunIds
        /\ pc[w] \in {"failFinal", "failRun"} => job[w].end \in {"failed", "unknown"}

\* an attempt works on a user, with reservations among its selection, and only
\* notify crosses the side-effect boundary
AttemptShape ==
    \A w \in Workers :
        /\ pc[w] \in Attempting => att[w].user \in Users
        /\ att[w].got \subseteq att[w].sel
        /\ pc[w] \in {"renewLease", "item", "select"} => att[w].got = {}
        /\ pc[w] \in {"mark", "send"} => Workflow = "notify"
        /\ pc[w] \in {"favorites", "mark", "send", "resolve"} =>
              att[w].got = att[w].sel

\* a sending item belongs to the worker between MarkSending and Resolve, or to
\* one that is past its attempt for good
SendingIsOwned ==
    \A r \in RunIds, u \in Users :
        item[r][u].status = "sending" =>
            \E w \in Workers :
                /\ item[r][u].owner = w
                /\ \/ pc[w] \in {"send", "resolve"} /\ job[w].run = r /\ att[w].user = u
                   \/ pc[w] \in Gone

\* what was sent under a reservation was sent for a sending item of the same
\* owner, which still knows the article or is past its attempt
SentIsProtected ==
    \A u \in Users, a \in Articles :
        sent[u][a] > 0 =>
            /\ dedupe[u][a].status # "absent"
            /\ Reserved(u, a) =>
                 LET w == dedupe[u][a].owner
                     i == item[dedupe[u][a].run][u]
                 IN /\ i.status = "sending"
                    /\ i.owner = w
                    /\ \/ pc[w] = "resolve" /\ a \in att[w].got
                       \/ pc[w] \in Gone

\* while a worker's claim stands, its reservations stand and nothing was sent
PreparedIsUnsent ==
    \A w \in Workers :
        pc[w] \in Preparing =>
            \A a \in att[w].got :
                LET u == att[w].user IN
                /\ Claims(w, u) => OwnRow(w, u, a)
                /\ OwnRow(w, u, a) => sent[u][a] = 0

\* a worker about to send holds what it sends, or doubt has taken it over
SendIsFirst ==
    \A w \in Workers :
        pc[w] = "send" =>
            \A a \in att[w].sel :
                LET u == att[w].user IN
                /\ sent[u][a] = 0
                /\ \/ dedupe[u][a].status = "unknown"
                   \/ /\ OwnRow(w, u, a)
                      /\ item[job[w].run][u].status = "sending"
                      /\ item[job[w].run][u].owner = w

\* two workers never are about to send the same article to the same subscriber
SendIsExclusive ==
    \A v, w \in Workers :
        (/\ pc[v] = "send" /\ pc[w] = "send"
         /\ att[v].user = att[w].user
         /\ att[v].sel \cap att[w].sel # {}) => v = w

\* a success that waits to be recorded was delivered
SuccessIsDelivered ==
    \A w \in Workers :
        (pc[w] = "resolve" /\ att[w].ok /\ Workflow = "notify") =>
            \A a \in att[w].got :
                OwnRow(w, att[w].user, a) => sent[att[w].user][a] = 1

DeliveryInv ==
    /\ TypeOK
    /\ InvocationShape
    /\ AttemptShape
    /\ AtMostOnce
    /\ RowsAreOwned
    /\ SendingIsOwned
    /\ SentIsProtected
    /\ PreparedIsUnsent
    /\ SendIsFirst
    /\ SendIsExclusive
    /\ SuccessIsDelivered

\* The dedupe table and the provider keep the contract of DeliveryContract.
Contract == INSTANCE DeliveryContract WITH
    Sends <- Workflow = "notify",
    state <- [u \in Users |-> [a \in Articles |-> dedupe[u][a].status]]
KeepsContract == Contract!CSpec

----------------------------------------------------------------------------
\* What the documents say and the code does not keep

\* docs/guides/notifications.md: an item that its process left in "sending" is
\* settled as unknown by the new owner.  validateRecoveredDelivery ends a run
\* of another context without reconciling it.
SendingIsSettled ==
    \A r \in RunIds, u \in Users :
        (run[r].status \in Terminal /\ item[r][u].status = "sending") =>
            pc[item[r][u].owner] \notin Gone

\* docs/guides/notifications.md: the reservation of a process that exits in
\* its claimed phase is released and retried.  ReserveDedupe does not ask
\* whether the run is still the caller's, or active at all.
ReservationIsReleased ==
    \A u \in Users, a \in Articles :
        (Reserved(u, a) /\ pc[dedupe[u][a].owner] \in {"done", "crashed"}) =>
            run[dedupe[u][a].run].status \notin Terminal

\* docs/architecture.md: run items are built from the difference between the
\* index and the checkpoint, so what the checkpoint has consumed was some
\* run's item.  A recovered run keeps its old items and stores the new index.
SnapshotWasInput == ckpt.snap \subseteq UNION {input[r] : r \in RunIds}

----------------------------------------------------------------------------
\* Liveness

\* The last invocation to start, if its own run is still as it was admitted,
\* does not leave an expired run behind: it settles that run or crashes.  The
\* scope never needs more than the lease and one more invocation to recover.
Recovery ==
    \A w \in Workers, r \in RunIds :
        (/\ pc[w] = "claim"
         /\ \A v \in Workers \ {w} : pc[v] \in {"done", "crashed"}
         /\ run[job[w].run].rev = job[w].runRev
         /\ Claimable(job[w].run, job[w].now)
         /\ run[r].status \in Active
         /\ run[r].exp <= job[w].now)
        ~> (run[r].status \in Terminal \/ pc[w] = "crashed")

=============================================================================
