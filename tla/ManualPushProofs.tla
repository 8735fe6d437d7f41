--------------------------- MODULE ManualPushProofs ---------------------------
(***************************************************************************)
(* Proofs about manual weekly pushes, for any number of services, children *)
(* and runs: a run is executed once, only its owner sends, and an unknown  *)
(* outcome stays until it is acknowledged.                                 *)
(***************************************************************************)
EXTENDS ManualPushProperties, TLAPS

RunRecord == [status : Statuses, owner : Children \union {None}, lease : Nat,
              deadline : Nat, cancel : BOOLEAN, revision : Nat]
ChildRecord == [phase : Phases, run : Nat, revision : Nat, now : Nat,
                outcome : TerminalStates \union {None},
                by : Services \union {None},
                stop : {"deadline", "cancellation", "termination", "shutdown", None}]

Executing == {"running", "cancelling"}

\* The shapes of the clock, the runs and the children.
ManualShape ==
    /\ pushNow \in Nat
    /\ pushRuns \in Seq(RunRecord) /\ Len(pushRuns) <= MaxRuns
    /\ pushChild \in [Children -> ChildRecord]
    /\ pushBegun \in [1..MaxRuns -> Nat]
    /\ pushAcked \subseteq 1..Len(pushRuns)

\* A deadline is set at admission, an owner has an active run, the lease of an
\* active run outlasts its deadline, and a queued run has not begun.
RunFits(i) ==
    /\ pushRuns[i].deadline <= pushNow + JobDeadline
    /\ pushRuns[i].owner # None => pushRuns[i].status \in ActiveStates
    /\ pushRuns[i].status \in ActiveStates => pushRuns[i].lease >= pushRuns[i].deadline + LeaseMargin
    /\ pushRuns[i].status = "queued" => pushBegun[i] = 0
    /\ pushBegun[i] <= 1

\* A child at work or tracked has a run.  One that may begin its own run has
\* one that none has begun, or one past its deadline.  One that executes owns
\* its run until that ends or its deadline passes; one that sends owns it,
\* and one that stops has an outcome.
ChildFits(w) ==
    LET c == pushChild[w] run == pushRuns[pushChild[w].run]
    IN  /\ c.phase \notin {"unborn", "gone"} \/ c.by # None => c.run \in 1..Len(pushRuns)
        /\ c.phase \in {"stopping", "finalising"} => c.outcome \in TerminalStates
        /\ c.phase = "claimed" =>
             /\ c.now <= pushNow
             /\ run.owner = w => pushBegun[c.run] = 0 \/ c.now >= run.deadline
        /\ c.phase = "running" =>
             run.status \in TerminalStates \/ pushNow >= run.deadline
               \/ (run.owner = w /\ run.status \in Executing)
        /\ c.phase = "sending" =>
             pushNow <= run.deadline /\ run.owner = w /\ run.status \in Executing

\* Only the latest run is open, and older unknown ones are acknowledged.
OlderHaveEnded ==
    /\ \A i \in 1..Len(pushRuns) : i < Len(pushRuns) => pushRuns[i].status \in TerminalStates
    /\ UnknownIsAcknowledged

ManualInv ==
    /\ ManualShape
    /\ \A i \in 1..Len(pushRuns) : RunFits(i)
    /\ \A i \in 1..MaxRuns : i > Len(pushRuns) => pushBegun[i] = 0
    /\ \A w \in Children : ChildFits(w)
    /\ OlderHaveEnded

----------------------------------------------------------------------------
\* Sequences and records

\* A run of the sequence is replaced.
LEMMA Replaced ==
    ASSUME NEW S, NEW runs \in Seq(S), NEW i \in 1..Len(runs), NEW r \in S
    PROVE  /\ [runs EXCEPT ![i] = r] \in Seq(S)
           /\ Len([runs EXCEPT ![i] = r]) = Len(runs)
           /\ \A j \in 1..Len(runs) : [runs EXCEPT ![i] = r][j] = IF j = i THEN r ELSE runs[j]
  OBVIOUS

\* A run is added at the end.
LEMMA Appended ==
    ASSUME NEW S, NEW runs \in Seq(S), NEW r \in S
    PROVE  /\ Append(runs, r) \in Seq(S)
           /\ Len(Append(runs, r)) = Len(runs) + 1
           /\ \A j \in 1..Len(runs) : Append(runs, r)[j] = runs[j]
           /\ Append(runs, r)[Len(runs) + 1] = r
  OBVIOUS

\* What an ended run is.
LEMMA EndedRun ==
    ASSUME NEW run \in RunRecord, NEW status \in TerminalStates
    PROVE  /\ Ended(run, status) \in RunRecord
           /\ Ended(run, status).status = status
           /\ Ended(run, status).owner = None
           /\ Ended(run, status).deadline = run.deadline
<1> DEFINE held == [run EXCEPT !.status = status, !.owner = None]
           n == run.revision + 1
<1>1. held \in RunRecord /\ held.status = status /\ held.owner = None /\ held.deadline = run.deadline
  BY DEF RunRecord, Statuses
<1>2. Ended(run, status) = [held EXCEPT !.lease = 0, !.revision = n]
  BY DEF Ended
<1>3. n \in Nat
  BY DEF RunRecord
<1> HIDE DEF held, n
<1>4. [held EXCEPT !.lease = 0] \in RunRecord
  BY <1>1 DEF RunRecord
<1>5. Ended(run, status) \in RunRecord
  BY <1>4, <1>2, <1>3 DEF RunRecord
<1>6. /\ Ended(run, status).status = held.status /\ Ended(run, status).owner = held.owner
      /\ Ended(run, status).deadline = held.deadline
  BY <1>1, <1>2, <1>3 DEF RunRecord
<1> QED BY <1>1, <1>5, <1>6

\* What a cancelled run is: it keeps its owner and lease.
LEMMA CancelledRun ==
    ASSUME NEW run \in RunRecord
    PROVE  /\ Cancelled(run) \in RunRecord
           /\ Cancelled(run).status = IF run.status = "queued" THEN "cancelled" ELSE "cancelling"
           /\ Cancelled(run).owner = run.owner /\ Cancelled(run).lease = run.lease
           /\ Cancelled(run).deadline = run.deadline
<1> DEFINE status == IF run.status = "queued" THEN "cancelled" ELSE "cancelling"
           n == run.revision + 1
<1>1. Cancelled(run) = [run EXCEPT !.status = status, !.cancel = TRUE, !.revision = n]
  BY DEF Cancelled
<1>2. status \in Statuses /\ n \in Nat
  BY DEF RunRecord, Statuses, ActiveStates, TerminalStates
<1>3. status = IF run.status = "queued" THEN "cancelled" ELSE "cancelling"
  OBVIOUS
<1> HIDE DEF status, n
<1>4. Cancelled(run) \in RunRecord
  BY <1>1, <1>2 DEF RunRecord
<1> QED BY <1>1, <1>3, <1>4 DEF RunRecord

\* What a started run is: it keeps its owner and lease.
LEMMA StartedRun ==
    ASSUME NEW run \in RunRecord
    PROVE  /\ Started(run) \in RunRecord
           /\ Started(run).status = "running"
           /\ Started(run).owner = run.owner /\ Started(run).lease = run.lease
           /\ Started(run).deadline = run.deadline
<1> DEFINE n == run.revision + 1
<1>1. Started(run) = [run EXCEPT !.status = "running", !.revision = n]
  BY DEF Started
<1>2. n \in Nat
  BY DEF RunRecord
<1> HIDE DEF n
<1>3. Started(run) \in RunRecord
  BY <1>1, <1>2 DEF RunRecord, Statuses, ActiveStates
<1> QED BY <1>1, <1>3 DEF RunRecord

\* A claimed run has an owner and a lease that outlasts its deadline.
LEMMA ClaimedRun ==
    ASSUME NEW run \in RunRecord, NEW w \in Children, NEW now \in Nat
    PROVE  /\ Claimed(run, w, now) \in RunRecord
           /\ Claimed(run, w, now).status \in {"claimed", "cancelling"}
           /\ Claimed(run, w, now).owner = w
           /\ Claimed(run, w, now).deadline = run.deadline
           /\ run.deadline <= now + JobDeadline
                => Claimed(run, w, now).lease >= run.deadline + LeaseMargin
<1> DEFINE status == IF run.cancel THEN "cancelling" ELSE "claimed"
           held == [run EXCEPT !.status = status, !.owner = w]
           lease == LeaseOf(run, now)
           n == run.revision + 1
<1>1. lease \in Nat /\ n \in Nat
  BY ManualConstants DEF LeaseOf, RunRecord
<1>2. run.deadline <= now + JobDeadline => lease >= run.deadline + LeaseMargin
  BY ManualConstants DEF LeaseOf, RunRecord
<1>3. status \in {"claimed", "cancelling"}
  OBVIOUS
<1>4. Claimed(run, w, now) = [held EXCEPT !.lease = lease, !.revision = n]
  BY DEF Claimed
<1> HIDE DEF status, lease, n
<1>5. held \in RunRecord /\ held.status = status /\ held.owner = w /\ held.deadline = run.deadline
  BY <1>3 DEF RunRecord, Statuses, ActiveStates
<1> HIDE DEF held
<1>6. [held EXCEPT !.lease = lease] \in RunRecord
  BY <1>1, <1>5 DEF RunRecord
<1>7. Claimed(run, w, now) \in RunRecord
  BY <1>1, <1>4, <1>6 DEF RunRecord
<1>8. /\ Claimed(run, w, now).status = held.status /\ Claimed(run, w, now).owner = held.owner
      /\ Claimed(run, w, now).deadline = held.deadline /\ Claimed(run, w, now).lease = lease
  BY <1>1, <1>4, <1>5 DEF RunRecord
<1> QED BY <1>2, <1>3, <1>5, <1>7, <1>8

\* What an admitted run is.
LEMMA NewRunShape ==
    ASSUME NEW now \in Nat
    PROVE  /\ NewRun(now) \in RunRecord
           /\ NewRun(now).status = "queued" /\ NewRun(now).owner = None
           /\ NewRun(now).deadline = now + JobDeadline
  BY ManualConstants DEF NewRun, RunRecord, Statuses

\* A forced outcome is for a queued run or one the stopped child owns.
LEMMA ForcedRun ==
    ASSUME NEW run \in RunRecord, NEW w \in Children, NEW stop
    PROVE  \/ Forced(run, w, stop) = run
           \/ run.status = "queued" /\ Forced(run, w, stop) = Ended(run, "timed_out")
           \/ run.status \in ActiveStates /\ run.owner = w /\ Forced(run, w, stop) = Ended(run, "unknown")
<1>1. run.status \in TerminalStates \/ run.status = "queued" \/ run.status \in ActiveStates
  BY DEF RunRecord, Statuses
<1> QED BY <1>1 DEF Forced

----------------------------------------------------------------------------
\* How a step may change a run and what the children keep

\* A run that was open is claimed, started, cancelled or ended.
Moved(i, r) ==
    /\ IsOpen(pushRuns[i]) /\ r.status # "queued"
    /\ r.deadline = pushRuns[i].deadline
    /\ r.owner # None => r.status \in ActiveStates
    /\ r.status \in ActiveStates => r.lease >= r.deadline + LeaseMargin

\* A child gains no run, and keeps the one it executes until the deadline.
Keeps(i, r, v) ==
    LET run == pushRuns[i]
    IN  /\ r.owner = v => run.owner = v
        /\ run.owner = v /\ run.status \in Executing /\ pushNow <= run.deadline
             => r.owner = v /\ r.status \in Executing

\* Replacing the open run leaves the older ones as they were.
LEMMA OlderStep ==
    ASSUME OlderHaveEnded, Len(pushRuns) \in Nat, pushAcked \subseteq 1..Len(pushRuns),
           NEW i \in 1..Len(pushRuns), NEW r,
           Len(pushRuns') = Len(pushRuns), pushAcked' = pushAcked,
           \A j \in 1..Len(pushRuns) : pushRuns'[j] = IF j = i THEN r ELSE pushRuns[j],
           Moved(i, r) \/ r = pushRuns[i]
    PROVE  OlderHaveEnded'
<1>1. ASSUME Moved(i, r) PROVE i = Len(pushRuns) /\ i \notin pushAcked
  <2>1. pushRuns[i].status \notin TerminalStates
    BY <1>1 DEF Moved, IsOpen, ActiveStates, TerminalStates
  <2>2. i \notin pushAcked
    BY <2>1 DEF OlderHaveEnded, UnknownIsAcknowledged, TerminalStates
  <2>3. ~(i < Len(pushRuns))
    BY <2>1 DEF OlderHaveEnded
  <2> QED BY <2>2, <2>3
<1>2. \A j \in 1..Len(pushRuns) : j < Len(pushRuns) \/ j \in pushAcked => pushRuns'[j] = pushRuns[j]
  <2>1. CASE r = pushRuns[i]
    BY <2>1
  <2>2. CASE Moved(i, r)
    BY <1>1, <2>2
  <2> QED BY <2>1, <2>2
<1>3. \A j \in 1..Len(pushRuns') : j < Len(pushRuns') => pushRuns'[j].status \in TerminalStates
  BY <1>2 DEF OlderHaveEnded
<1>4. UnknownIsAcknowledged'
  BY <1>2 DEF OlderHaveEnded, UnknownIsAcknowledged, Latest
<1> QED BY <1>3, <1>4 DEF OlderHaveEnded

\* A step that replaces one run by a run that fits keeps the invariant, if
\* every child fits or is unchanged and keeps its run.
LEMMA RunStep ==
    ASSUME ManualInv,
           NEW i \in 1..Len(pushRuns), NEW r \in RunRecord,
           pushRuns' = [pushRuns EXCEPT ![i] = r],
           Moved(i, r) \/ (r = pushRuns[i] /\ pushBegun' = pushBegun),
           pushNow' = pushNow, pushAcked' = pushAcked,
           pushBegun' \in [1..MaxRuns -> Nat], pushBegun'[i] <= 1,
           \A j \in 1..MaxRuns : j # i => pushBegun'[j] = pushBegun[j],
           pushChild' \in [Children -> ChildRecord],
           \A v \in Children :
              \/ ChildFits(v)'
              \/ /\ pushChild'[v] = pushChild[v] /\ Keeps(i, r, v)
                 /\ pushBegun'[i] = pushBegun[i] \/ r.owner # v
    PROVE  ManualInv'
<1> USE DEF ManualInv
<1>1. /\ pushRuns' \in Seq(RunRecord) /\ Len(pushRuns') = Len(pushRuns)
      /\ \A j \in 1..Len(pushRuns) : pushRuns'[j] = IF j = i THEN r ELSE pushRuns[j]
      /\ \A j \in 1..Len(pushRuns) : pushRuns[j] \in RunRecord
      /\ Len(pushRuns) \in Nat /\ MaxRuns \in Nat /\ Len(pushRuns) <= MaxRuns
  BY Replaced, ManualConstants DEF ManualShape
<1>2. ManualShape'
  BY <1>1 DEF ManualShape
<1>3. ASSUME NEW j \in 1..Len(pushRuns') PROVE RunFits(j)'
  BY <1>1 DEF RunFits, Moved
<1>4. \A j \in 1..MaxRuns : j > Len(pushRuns') => pushBegun'[j] = 0
  BY <1>1
<1>5. ASSUME NEW v \in Children PROVE ChildFits(v)'
  <2>1. SUFFICES ASSUME pushChild'[v] = pushChild[v], Keeps(i, r, v),
                        pushBegun'[i] = pushBegun[i] \/ r.owner # v
                 PROVE  ChildFits(v)'
    OBVIOUS
  <2>2. pushChild[v] \in ChildRecord /\ ChildFits(v) /\ pushNow \in Nat
    BY DEF ManualShape
  <2>3. CASE pushChild[v].run = i
    <3>1. /\ r.deadline = pushRuns[i].deadline
          /\ pushRuns[i].status \in TerminalStates => r.status \in TerminalStates
          /\ pushRuns[i].deadline \in Nat
      BY <1>1 DEF Moved, IsOpen, ActiveStates, TerminalStates, RunRecord
    <3>2. pushRuns'[i] = r
      BY <1>1
    <3> QED BY <1>1, <2>1, <2>2, <2>3, <3>1, <3>2 DEF ChildFits, Keeps, ChildRecord
  <2>4. CASE pushChild[v].run # i
    <3>1. pushChild[v].run \in 1..Len(pushRuns) =>
             /\ pushRuns'[pushChild[v].run] = pushRuns[pushChild[v].run]
             /\ pushBegun'[pushChild[v].run] = pushBegun[pushChild[v].run]
      BY <1>1, <2>4
    <3> QED BY <1>1, <2>1, <2>2, <3>1 DEF ChildFits, ChildRecord
  <2> QED BY <2>3, <2>4
<1>6. OlderHaveEnded'
  BY <1>1, OlderStep DEF ManualShape
<1> QED BY <1>2, <1>3, <1>4, <1>5, <1>6

\* A step of children alone keeps the invariant if every child fits.
LEMMA ChildStep ==
    ASSUME ManualInv,
           UNCHANGED <<pushNow, pushRuns, pushBegun, pushAcked>>,
           pushChild' \in [Children -> ChildRecord],
           \A v \in Children : pushChild'[v] = pushChild[v] \/ ChildFits(v)'
    PROVE  ManualInv'
<1>1. ASSUME NEW v \in Children PROVE ChildFits(v)'
  BY DEF ManualInv, ChildFits
<1>2. ManualShape' /\ OlderHaveEnded'
  BY DEF ManualInv, ManualShape, OlderHaveEnded, UnknownIsAcknowledged, Latest
<1> QED BY <1>1, <1>2 DEF ManualInv, RunFits

----------------------------------------------------------------------------
\* Each action keeps the invariant

\* The ranges the steps below need.
LEMMA Ranges ==
    ASSUME ManualInv
    PROVE  /\ \A i \in 1..Len(pushRuns) : pushRuns[i] \in RunRecord /\ RunFits(i)
           /\ \A w \in Children : pushChild[w] \in ChildRecord /\ ChildFits(w)
           /\ pushNow \in Nat /\ Len(pushRuns) \in Nat /\ Latest = Len(pushRuns)
           /\ pushBegun \in [1..MaxRuns -> Nat]
           /\ \A i \in 1..Len(pushRuns) : i \in 1..MaxRuns /\ pushBegun[i] <= 1
           /\ pushChild \in [Children -> ChildRecord]
<1>1. /\ \A i \in 1..Len(pushRuns) : pushRuns[i] \in RunRecord
      /\ Len(pushRuns) \in Nat /\ Len(pushRuns) <= MaxRuns /\ MaxRuns \in Nat
  BY ManualConstants DEF ManualInv, ManualShape
<1> QED BY <1>1 DEF ManualInv, ManualShape, RunFits, Latest

\* Nobody owns a run that is not active.
LEMMA Unowned ==
    ASSUME ManualInv, NEW i \in 1..Len(pushRuns), pushRuns[i].status = "queued", NEW w \in Children
    PROVE  pushRuns[i].owner # w
  BY Ranges, ManualConstants DEF RunFits, ActiveStates

\* An ended run is a run moved, and no other child minds if it was queued or
\* this child's.
LEMMA EndStep ==
    ASSUME ManualInv, NEW i \in 1..Len(pushRuns), NEW status \in TerminalStates,
           IsOpen(pushRuns[i])
    PROVE  /\ Ended(pushRuns[i], status) \in RunRecord
           /\ Moved(i, Ended(pushRuns[i], status))
           /\ \A v \in Children : Ended(pushRuns[i], status).owner # v
           /\ \A v \in Children : pushRuns[i].owner # v => Keeps(i, Ended(pushRuns[i], status), v)
  BY Ranges, EndedRun, ManualConstants DEF Moved, Keeps, TerminalStates, ActiveStates

\* Time passes: nothing is sent past a deadline.
LEMMA TickStep ==
    ASSUME ManualInv, Tick PROVE ManualInv'
<1>1. /\ pushNow' = pushNow + 1 /\ pushNow \in Nat
      /\ UNCHANGED <<pushRuns, pushChild, pushBegun, pushAcked>>
  BY Ranges DEF Tick
<1>2. ManualShape' /\ OlderHaveEnded'
  BY <1>1 DEF ManualInv, ManualShape, OlderHaveEnded, UnknownIsAcknowledged, Latest
<1>3. \A i \in 1..Len(pushRuns) : RunFits(i)'
  BY <1>1, Ranges, ManualConstants DEF RunFits, RunRecord
<1>4. ASSUME NEW w \in Children PROVE ChildFits(w)'
  <2>1. pushChild[w] \in ChildRecord /\ ChildFits(w)
    BY Ranges
  <2>2. pushChild[w].run \in 1..Len(pushRuns) => pushRuns[pushChild[w].run].deadline \in Nat
    BY Ranges DEF RunRecord
  <2>3. pushChild[w].phase = "sending" => pushNow < pushRuns[pushChild[w].run].deadline
    BY DEF Tick, At, Run
  <2> QED BY <1>1, <2>1, <2>2, <2>3 DEF ChildFits, ChildRecord
<1> QED BY <1>1, <1>2, <1>3, <1>4 DEF ManualInv

\* A run is added: nothing else changes, and the others have ended.
LEMMA AddStep ==
    ASSUME ManualInv, Len(pushRuns) < MaxRuns,
           \A i \in 1..Len(pushRuns) : ~IsOpen(pushRuns[i]),
           pushRuns' = Append(pushRuns, NewRun(pushNow)),
           UNCHANGED <<pushNow, pushChild, pushBegun>>,
           pushAcked' \subseteq 1..Len(pushRuns), pushAcked \subseteq pushAcked',
           \A i \in pushAcked' : pushRuns[i].status = "unknown",
           Len(pushRuns) \in 1..Len(pushRuns) /\ pushRuns[Len(pushRuns)].status = "unknown"
             => Len(pushRuns) \in pushAcked'
    PROVE  ManualInv'
<1> DEFINE n == Len(pushRuns)
<1>1. /\ pushRuns' \in Seq(RunRecord) /\ Len(pushRuns') = n + 1
      /\ \A i \in 1..n : pushRuns'[i] = pushRuns[i]
      /\ pushRuns'[n + 1] = NewRun(pushNow)
      /\ n \in Nat /\ MaxRuns \in Nat
  <2>1. pushRuns \in Seq(RunRecord) /\ pushNow \in Nat /\ MaxRuns \in Nat
    BY ManualConstants DEF ManualInv, ManualShape
  <2>2. NewRun(pushNow) \in RunRecord
    BY <2>1, NewRunShape
  <2> HIDE DEF n
  <2>3. /\ Append(pushRuns, NewRun(pushNow)) \in Seq(RunRecord)
        /\ Len(Append(pushRuns, NewRun(pushNow))) = Len(pushRuns) + 1
        /\ \A j \in 1..Len(pushRuns) : Append(pushRuns, NewRun(pushNow))[j] = pushRuns[j]
        /\ Append(pushRuns, NewRun(pushNow))[Len(pushRuns) + 1] = NewRun(pushNow)
    BY <2>1, <2>2, Appended
  <2> QED BY <2>1, <2>3 DEF n
<1>2. ManualShape'
  BY <1>1 DEF ManualInv, ManualShape
<1>3. ASSUME NEW i \in 1..n PROVE RunFits(i)'
  BY <1>1, Ranges DEF RunFits
<1>4. ASSUME NEW i \in Nat, i = n + 1 PROVE RunFits(i)'
  <2>1. /\ NewRun(pushNow).status = "queued" /\ NewRun(pushNow).owner = None
        /\ NewRun(pushNow).deadline = pushNow + JobDeadline
        /\ pushNow \in Nat /\ JobDeadline \in Nat
    BY NewRunShape, Ranges, ManualConstants
  <2>2. pushBegun'[i] = 0
    BY <1>1, <1>4 DEF ManualInv
  <2> QED BY <1>1, <1>4, <2>1, <2>2 DEF RunFits, ActiveStates
<1>5. \A i \in 1..MaxRuns : i > Len(pushRuns') => pushBegun'[i] = 0
  BY <1>1 DEF ManualInv
<1>6. ASSUME NEW w \in Children PROVE ChildFits(w)'
  BY <1>1, Ranges DEF ChildFits, ChildRecord
<1>7. \A i \in 1..n : pushRuns[i].status \in TerminalStates
  BY Ranges DEF IsOpen, RunRecord, Statuses
<1>8. UnknownIsAcknowledged'
  BY <1>1 DEF ManualInv, OlderHaveEnded, UnknownIsAcknowledged, Latest
<1>9. OlderHaveEnded'
  BY <1>1, <1>7, <1>8 DEF OlderHaveEnded
<1>10. \A i \in 1..Len(pushRuns') : i \in 1..n \/ i = n + 1
  BY <1>1
<1>11. \A i \in 1..Len(pushRuns') : RunFits(i)'
  BY <1>3, <1>4, <1>10
<1> QED BY <1>2, <1>5, <1>6, <1>9, <1>11 DEF ManualInv

\* A push is admitted or an unknown one acknowledged.
LEMMA AdmitStep ==
    ASSUME ManualInv, Admit \/ AcknowledgeUnknown PROVE ManualInv'
<1>1. CASE Admit
  <2>1. /\ Len(pushRuns) < MaxRuns /\ \A i \in 1..Len(pushRuns) : ~IsOpen(pushRuns[i])
        /\ pushRuns' = Append(pushRuns, NewRun(pushNow))
        /\ UNCHANGED <<pushNow, pushChild, pushBegun, pushAcked>>
        /\ pushRuns # <<>> => pushRuns[Len(pushRuns)].status # "unknown"
    BY <1>1 DEF Admit, Admits, Latest
  <2>2. /\ pushAcked \subseteq 1..Len(pushRuns)
        /\ \A i \in pushAcked : pushRuns[i].status = "unknown"
        /\ Len(pushRuns) \in 1..Len(pushRuns) => pushRuns # <<>>
    BY DEF ManualInv, ManualShape, OlderHaveEnded, UnknownIsAcknowledged
  <2> QED BY <2>1, <2>2, AddStep
<1>2. CASE AcknowledgeUnknown
  <2>1. /\ Len(pushRuns) \in 1..(MaxRuns - 1) /\ \A i \in 1..Len(pushRuns) : ~IsOpen(pushRuns[i])
        /\ pushRuns' = Append(pushRuns, NewRun(pushNow))
        /\ UNCHANGED <<pushNow, pushChild, pushBegun>>
        /\ pushAcked' = pushAcked \union {Len(pushRuns)}
        /\ pushRuns[Len(pushRuns)].status = "unknown"
    BY <1>2 DEF AcknowledgeUnknown, Latest
  <2>2. /\ pushAcked \subseteq 1..Len(pushRuns)
        /\ \A i \in pushAcked : pushRuns[i].status = "unknown"
    BY DEF ManualInv, ManualShape, OlderHaveEnded, UnknownIsAcknowledged
  <2>3. Len(pushRuns) < MaxRuns /\ Len(pushRuns) \in 1..Len(pushRuns)
    BY <2>1, ManualConstants
  <2> QED BY <2>1, <2>2, <2>3, AddStep
<1> QED BY <1>1, <1>2

\* A cancelled run keeps its owner.
LEMMA CancelStep ==
    ASSUME ManualInv, NEW i \in 1..Latest, CancelRun(i) PROVE ManualInv'
<1> DEFINE r == Cancelled(pushRuns[i])
<1>1. /\ i \in 1..Len(pushRuns) /\ IsOpen(pushRuns[i]) /\ pushRuns' = [pushRuns EXCEPT ![i] = r]
      /\ UNCHANGED <<pushNow, pushChild, pushBegun, pushAcked>>
  BY DEF CancelRun, Latest
<1>2. /\ r \in RunRecord /\ r.owner = pushRuns[i].owner /\ r.lease = pushRuns[i].lease
      /\ r.deadline = pushRuns[i].deadline
      /\ r.status = IF pushRuns[i].status = "queued" THEN "cancelled" ELSE "cancelling"
  BY <1>1, Ranges, CancelledRun
<1>3. Moved(i, r) /\ \A v \in Children : Keeps(i, r, v)
  BY <1>1, <1>2, Ranges DEF Moved, Keeps, RunFits, IsOpen, ActiveStates, Executing
<1> HIDE DEF r
<1> QED BY <1>1, <1>2, <1>3, Ranges, RunStep

\* The dispatcher ends a late run, fails one or spawns a child.
LEMMA DispatchStep ==
    ASSUME ManualInv, NEW s \in Services, NEW i \in 1..Latest,
           Dispatch(s, i) \/ FailSpawn(s, i)
    PROVE  ManualInv'
<1>1. i \in 1..Len(pushRuns)
  BY Ranges
<1>2. ASSUME NEW status \in TerminalStates, pushRuns[i].status = "queued",
             pushRuns' = [pushRuns EXCEPT ![i] = Ended(pushRuns[i], status)],
             UNCHANGED <<pushNow, pushChild, pushBegun, pushAcked>>
      PROVE  ManualInv'
  <2>1. IsOpen(pushRuns[i]) /\ \A v \in Children : pushRuns[i].owner # v
    BY <1>1, <1>2, Unowned DEF IsOpen
  <2>2. /\ Ended(pushRuns[i], status) \in RunRecord /\ Moved(i, Ended(pushRuns[i], status))
        /\ \A v \in Children : Keeps(i, Ended(pushRuns[i], status), v)
    BY <1>1, <2>1, EndStep
  <2> QED BY <1>1, <1>2, <2>2, Ranges, RunStep
<1>3. ASSUME NEW w \in Children,
             pushChild' = [pushChild EXCEPT ![w] = [Unborn EXCEPT !.phase = "spawned", !.run = i, !.by = s]],
             UNCHANGED <<pushNow, pushRuns, pushBegun, pushAcked>>
      PROVE  ManualInv'
  <2>1. /\ pushChild' \in [Children -> ChildRecord]
        /\ \A v \in Children : v # w => pushChild'[v] = pushChild[v]
        /\ pushChild'[w].run = i /\ pushChild'[w].phase = "spawned"
    <3> DEFINE c == [Unborn EXCEPT !.phase = "spawned", !.run = i, !.by = s]
    <3>1. c.run = i /\ c.phase = "spawned" /\ c \in ChildRecord
      <4> DEFINE d == [Unborn EXCEPT !.phase = "spawned"]
      <4>1. d \in ChildRecord /\ d.phase = "spawned"
        BY DEF Unborn, ChildRecord, Phases
      <4>2. c = [d EXCEPT !.run = i, !.by = s] /\ i \in Nat
        BY <1>1
      <4> HIDE DEF d, c
      <4> QED BY <4>1, <4>2 DEF ChildRecord
    <3> HIDE DEF c
    <3>2. pushChild \in [Children -> ChildRecord]
      BY Ranges
    <3> QED BY <1>3, <3>1, <3>2 DEF c
  <2>2. ChildFits(w)'
    BY <1>1, <1>3, <2>1 DEF ChildFits
  <2> QED BY <1>3, <2>1, <2>2, ChildStep
<1>4. CASE Dispatch(s, i)
  <2>1. CASE pushRuns[i].status = "queued" /\ pushRuns[i].deadline <= pushNow
    BY <1>2, <1>4, <2>1 DEF Dispatch, TerminalStates
  <2>2. CASE ~(pushRuns[i].status = "queued" /\ pushRuns[i].deadline <= pushNow)
    BY <1>3, <1>4, <2>2 DEF Dispatch
  <2> QED BY <2>1, <2>2
<1>5. CASE FailSpawn(s, i)
  BY <1>2, <1>5 DEF FailSpawn, TerminalStates
<1> QED BY <1>4, <1>5

\* A child that changes only what its fit does not depend on still fits, and
\* one that is gone fits whatever its run.
LEMMA GoneFits ==
    ASSUME ManualInv, NEW w \in Children, NEW c \in ChildRecord,
           pushChild' = [pushChild EXCEPT ![w] = c],
           c.phase \notin {"claimed", "running", "sending"},
           c.phase \in {"stopping", "finalising"} => c.outcome \in TerminalStates,
           (c.phase = "gone" /\ c.by = None) \/ c.run \in 1..Len(pushRuns),
           Len(pushRuns') = Len(pushRuns)
    PROVE  /\ pushChild' \in [Children -> ChildRecord]
           /\ ChildFits(w)'
           /\ \A v \in Children : v # w => pushChild'[v] = pushChild[v]
  BY Ranges DEF ChildFits

\* The run of a child that is not unborn, and not gone and reaped.
LEMMA HasRun ==
    ASSUME ManualInv, NEW w \in Children,
           pushChild[w].phase \notin {"unborn", "gone"} \/ pushChild[w].by # None
    PROVE  /\ pushChild[w].run \in 1..Len(pushRuns)
           /\ pushChild[w] \in ChildRecord
           /\ pushRuns[pushChild[w].run] \in RunRecord
           /\ RunFits(pushChild[w].run)
  BY Ranges DEF ChildFits

\* A child that exits.
LEMMA ExitShape ==
    ASSUME ManualInv, NEW w \in Children, Exits(w), pushChild[w].phase \notin {"unborn", "gone"},
           Len(pushRuns') = Len(pushRuns)
    PROVE  /\ pushChild' \in [Children -> ChildRecord]
           /\ ChildFits(w)'
           /\ \A v \in Children : v # w => pushChild'[v] = pushChild[v]
<1> DEFINE d == [pushChild[w] EXCEPT !.phase = "gone", !.revision = 0]
           c == [d EXCEPT !.now = 0, !.outcome = None]
<1>1. pushChild[w] \in ChildRecord /\ pushChild[w].run \in 1..Len(pushRuns)
  BY HasRun
<1>2. d \in ChildRecord /\ d.phase = "gone" /\ d.run = pushChild[w].run
  BY <1>1 DEF ChildRecord, Phases
<1>3. pushChild' = [pushChild EXCEPT ![w] = c]
  BY Ranges DEF Exits
<1> HIDE DEF d
<1>4. c \in ChildRecord /\ c.phase = "gone" /\ c.run = d.run
  BY <1>2 DEF ChildRecord
<1> HIDE DEF c
<1> QED BY <1>1, <1>2, <1>3, <1>4, GoneFits

\* A child is reaped or told to stop.
LEMMA ReapStep ==
    ASSUME ManualInv, NEW w \in Children, Reap(w) \/ BeginStop(w) PROVE ManualInv'
<1>1. UNCHANGED <<pushNow, pushRuns, pushBegun, pushAcked>>
  BY DEF Reap, BeginStop
<1>2. CASE Reap(w)
  <2> DEFINE c == [pushChild[w] EXCEPT !.by = None]
  <2>1. pushChild' = [pushChild EXCEPT ![w] = c] /\ c \in ChildRecord /\ c.phase = "gone" /\ c.by = None
    BY <1>2, Ranges DEF Reap, At, ChildRecord
  <2> HIDE DEF c
  <2> QED BY <1>1, <2>1, GoneFits, ChildStep
<1>3. CASE BeginStop(w)
  <2> DEFINE kind == StopKind(Run(w), pushNow)
             c == [pushChild[w] EXCEPT !.stop = kind]
  <2>1. kind \in {"deadline", "cancellation", "termination", None}
    BY DEF StopKind
  <2>2. pushChild[w] \in ChildRecord /\ pushChild' = [pushChild EXCEPT ![w] = c]
    BY <1>3, Ranges DEF BeginStop
  <2> HIDE DEF kind
  <2>3. c \in ChildRecord /\ c.phase = pushChild[w].phase /\ c.run = pushChild[w].run
        /\ c.now = pushChild[w].now /\ c.by = pushChild[w].by /\ c.outcome = pushChild[w].outcome
    BY <2>1, <2>2 DEF ChildRecord
  <2> HIDE DEF c
  <2>4. /\ pushChild' \in [Children -> ChildRecord] /\ pushChild'[w] = c
        /\ \A v \in Children : v # w => pushChild'[v] = pushChild[v]
    BY <2>2, <2>3, Ranges
  <2>5. ChildFits(w)'
    BY <1>1, <2>3, <2>4, Ranges DEF ChildFits
  <2> QED BY <1>1, <2>4, <2>5, ChildStep
<1> QED BY <1>2, <1>3

\* A crashed service leaves its children to themselves.
LEMMA CrashServiceStep ==
    ASSUME ManualInv, NEW s \in Services, CrashService(s) PROVE ManualInv'
<1>1. /\ UNCHANGED <<pushNow, pushRuns, pushBegun, pushAcked>>
      /\ pushChild' = [w \in Children |-> IF w \in Tracked(s)
                        THEN [pushChild[w] EXCEPT !.by = None, !.stop = None] ELSE pushChild[w]]
  BY DEF CrashService
<1>2. \A w \in Children : pushChild[w] \in ChildRecord /\ ChildFits(w)
  BY Ranges
<1>3. \A w \in Children : [pushChild[w] EXCEPT !.by = None, !.stop = None] \in ChildRecord
  BY <1>2 DEF ChildRecord
<1>4. pushChild' \in [Children -> ChildRecord]
  BY <1>1, <1>2, <1>3
<1>5. ASSUME NEW w \in Children, pushChild'[w] # pushChild[w] PROVE ChildFits(w)'
  <2>1. pushChild'[w] = [pushChild[w] EXCEPT !.by = None, !.stop = None]
    BY <1>1, <1>5
  <2>2. /\ pushChild'[w].phase = pushChild[w].phase /\ pushChild'[w].run = pushChild[w].run
        /\ pushChild'[w].now = pushChild[w].now /\ pushChild'[w].by = None
        /\ pushChild'[w].outcome = pushChild[w].outcome
    BY <1>2, <2>1 DEF ChildRecord
  <2>3. pushRuns' = pushRuns /\ pushNow' = pushNow /\ pushBegun' = pushBegun /\ ChildFits(w)
    BY <1>1, <1>2
  <2> QED BY <2>2, <2>3 DEF ChildFits
<1> QED BY <1>1, <1>4, <1>5, ChildStep

\* The service asks its children to stop and cancels the runs they own.
LEMMA ShutdownStep ==
    ASSUME ManualInv, NEW s \in Services, Shutdown(s) PROVE ManualInv'
<1> DEFINE Hit(i) == \E w \in Tracked(s) : pushChild[w].run = i /\ pushRuns[i].owner = w
<1>1. /\ UNCHANGED <<pushNow, pushBegun, pushAcked>>
      /\ pushRuns' = [i \in 1..Len(pushRuns) |-> IF Hit(i) THEN Cancelled(pushRuns[i]) ELSE pushRuns[i]]
      /\ pushChild' = [w \in Children |-> IF w \in Tracked(s)
                        THEN [pushChild[w] EXCEPT !.stop = "shutdown"] ELSE pushChild[w]]
  BY DEF Shutdown, Latest
<1>2. ASSUME NEW i \in 1..Len(pushRuns), Hit(i)
      PROVE  /\ pushRuns[i].status \in ActiveStates
             /\ Cancelled(pushRuns[i]) \in RunRecord
             /\ Cancelled(pushRuns[i]).status = "cancelling"
             /\ Cancelled(pushRuns[i]).owner = pushRuns[i].owner
             /\ Cancelled(pushRuns[i]).lease = pushRuns[i].lease
             /\ Cancelled(pushRuns[i]).deadline = pushRuns[i].deadline
  <2>1. pushRuns[i].status \in ActiveStates
    BY <1>2, Ranges, ManualConstants DEF RunFits, Tracked
  <2> QED BY <2>1, Ranges, CancelledRun DEF ActiveStates
<1>3. \A i \in 1..Len(pushRuns) : pushRuns'[i] = IF Hit(i) THEN Cancelled(pushRuns[i]) ELSE pushRuns[i]
  BY <1>1
<1> HIDE DEF Hit
<1>4. /\ pushRuns' \in Seq(RunRecord) /\ Len(pushRuns') = Len(pushRuns)
  <2>1. \A i \in 1..Len(pushRuns) : (IF Hit(i) THEN Cancelled(pushRuns[i]) ELSE pushRuns[i]) \in RunRecord
    BY <1>2, Ranges
  <2> QED BY <1>1, <2>1, Ranges
<1>5. /\ pushChild' \in [Children -> ChildRecord]
      /\ \A w \in Children : /\ pushChild'[w].phase = pushChild[w].phase /\ pushChild'[w].run = pushChild[w].run
                             /\ pushChild'[w].now = pushChild[w].now /\ pushChild'[w].by = pushChild[w].by
                             /\ pushChild'[w].outcome = pushChild[w].outcome
  <2>1. \A w \in Children : pushChild[w] \in ChildRecord
    BY Ranges
  <2>2. \A w \in Children : LET c == [pushChild[w] EXCEPT !.stop = "shutdown"]
                            IN  /\ c \in ChildRecord
                                /\ c.phase = pushChild[w].phase /\ c.run = pushChild[w].run
                                /\ c.now = pushChild[w].now /\ c.by = pushChild[w].by
                                /\ c.outcome = pushChild[w].outcome
    BY <2>1 DEF ChildRecord
  <2> QED BY <1>1, <2>1, <2>2
<1>6. ManualShape'
  BY <1>1, <1>4, <1>5 DEF ManualInv, ManualShape
<1>7. \A i \in 1..Len(pushRuns') : RunFits(i)'
  BY <1>1, <1>2, <1>3, <1>4, Ranges DEF RunFits, ActiveStates
<1>8. ASSUME NEW w \in Children PROVE ChildFits(w)'
  <2>1. pushChild[w] \in ChildRecord /\ ChildFits(w)
    BY Ranges
  <2>2. ASSUME pushChild[w].run \in 1..Len(pushRuns)
        PROVE  LET old == pushRuns[pushChild[w].run] new == pushRuns'[pushChild[w].run]
               IN  /\ new.deadline = old.deadline /\ new.owner = old.owner
                   /\ old.status \in TerminalStates => new.status = old.status
                   /\ old.status \in Executing => new.status \in Executing
    BY <1>2, <1>3, <2>2 DEF ActiveStates, TerminalStates, Executing
  <2> QED BY <1>1, <1>4, <1>5, <2>1, <2>2 DEF ChildFits
<1>9. OlderHaveEnded'
  <2>1. \A i \in 1..Len(pushRuns) : pushRuns[i].status \in TerminalStates => pushRuns'[i] = pushRuns[i]
    BY <1>2, <1>3 DEF ActiveStates, TerminalStates
  <2>2. \A i \in 1..Len(pushRuns') : i < Len(pushRuns') => pushRuns'[i].status \in TerminalStates
    BY <1>4, <2>1 DEF ManualInv, OlderHaveEnded
  <2>3. UnknownIsAcknowledged'
    BY <1>1, <1>4, <2>1 DEF ManualInv, ManualShape, OlderHaveEnded, UnknownIsAcknowledged, Latest, TerminalStates
  <2> QED BY <2>2, <2>3 DEF OlderHaveEnded
<1> QED BY <1>1, <1>4, <1>6, <1>7, <1>8, <1>9 DEF ManualInv

\* A child's own steps that leave the runs alone.
LEMMA QuietStep ==
    ASSUME ManualInv, NEW w \in Children,
           LoadRun(w) \/ CheckAndSend(w) \/ EndSend(w) \/ ReloadRun(w) \/ CrashChild(w)
    PROVE  ManualInv'
<1>1. UNCHANGED <<pushNow, pushRuns, pushBegun, pushAcked>>
  BY DEF LoadRun, CheckAndSend, EndSend, ReloadRun, CrashChild
<1>2. pushChild[w].phase \notin {"unborn", "gone"}
  BY DEF LoadRun, CheckAndSend, EndSend, ReloadRun, CrashChild, At, Alive
<1>3. /\ pushChild[w].run \in 1..Len(pushRuns) /\ pushChild[w] \in ChildRecord
      /\ Run(w) \in RunRecord /\ ChildFits(w) /\ pushNow \in Nat
  BY <1>2, HasRun, Ranges DEF Run
<1>4. ASSUME Exits(w) PROVE ManualInv'
  BY <1>1, <1>2, <1>4, ExitShape, ChildStep
<1>5. ASSUME NEW c \in ChildRecord, pushChild' = [pushChild EXCEPT ![w] = c],
             c.run = pushChild[w].run, c.phase \notin {"claimed", "running", "sending"},
             c.phase \in {"stopping", "finalising"} => c.outcome \in TerminalStates
      PROVE  ManualInv'
  BY <1>1, <1>3, <1>5, GoneFits, ChildStep
<1>6. ASSUME NEW c \in ChildRecord, pushChild' = [pushChild EXCEPT ![w] = c],
             c.run = pushChild[w].run, c.phase \in {"running", "sending"},
             c.phase = "running" => Run(w).owner = w /\ Run(w).status \in Executing,
             c.phase = "sending" => pushNow <= Run(w).deadline /\ Run(w).owner = w
                                      /\ Run(w).status \in Executing
      PROVE  ManualInv'
  <2>1. /\ pushChild' \in [Children -> ChildRecord] /\ pushChild'[w] = c
        /\ \A v \in Children : v # w => pushChild'[v] = pushChild[v]
    BY <1>6, Ranges
  <2>2. ChildFits(w)'
    BY <1>1, <1>3, <1>6, <2>1 DEF ChildFits, Run
  <2> QED BY <1>1, <2>1, <2>2, ChildStep
<1>7. CASE LoadRun(w)
  <2>1. [pushChild[w] EXCEPT !.phase = "loaded", !.revision = Run(w).revision] \in ChildRecord
    BY <1>3 DEF ChildRecord, RunRecord, Phases
  <2>2. Exits(w) \/ pushChild' = [pushChild EXCEPT ![w] =
           [pushChild[w] EXCEPT !.phase = "loaded", !.revision = Run(w).revision]]
    BY <1>7, Ranges DEF LoadRun
  <2> QED BY <1>3, <1>4, <1>5, <2>1, <2>2 DEF ChildRecord
<1>8. CASE CheckAndSend(w)
  <2> DEFINE stop == Run(w).cancel \/ Run(w).status \in TerminalStates \/ pushNow >= Run(w).deadline
             outcome == IF Run(w).cancel \/ Run(w).status \in TerminalStates THEN "cancelled"
                        ELSE IF pushNow >= Run(w).deadline THEN "timed_out" ELSE None
             phase == IF stop THEN "stopping" ELSE "sending"
             c == [pushChild[w] EXCEPT !.outcome = outcome, !.phase = phase]
  <2>1. pushChild' = [pushChild EXCEPT ![w] = c]
    BY <1>8, Ranges DEF CheckAndSend
  <2>2. /\ outcome \in TerminalStates \union {None} /\ phase \in {"stopping", "sending"}
        /\ phase = "stopping" => outcome \in TerminalStates
    BY DEF TerminalStates
  <2>3. phase = "sending" => Run(w).status \notin TerminalStates /\ ~(pushNow >= Run(w).deadline)
    OBVIOUS
  <2> HIDE DEF outcome, phase
  <2>4. c \in ChildRecord /\ c.phase = phase /\ c.run = pushChild[w].run /\ c.outcome = outcome
    BY <1>3, <2>2 DEF ChildRecord, Phases
  <2>5. phase = "sending" => pushNow <= Run(w).deadline /\ Run(w).owner = w /\ Run(w).status \in Executing
    BY <1>3, <1>8, <2>3 DEF CheckAndSend, At, ChildFits, Run, RunRecord
  <2> HIDE DEF c
  <2> QED BY <1>5, <1>6, <2>1, <2>2, <2>4, <2>5
<1>9. CASE EndSend(w)
  <2>1. /\ pushNow <= Run(w).deadline /\ Run(w).owner = w /\ Run(w).status \in Executing
    BY <1>3, <1>9 DEF EndSend, At, ChildFits, Run
  <2>2. CASE Goes(w, "running")
    <3>1. [pushChild[w] EXCEPT !.phase = "running"] \in ChildRecord
      BY <1>3 DEF ChildRecord, Phases
    <3>2. pushChild' = [pushChild EXCEPT ![w] = [pushChild[w] EXCEPT !.phase = "running"]]
      BY <2>2, Ranges DEF Goes
    <3> QED BY <1>3, <1>6, <2>1, <3>1, <3>2 DEF ChildRecord
  <2>3. ASSUME NEW outcome \in {"completed", "failed", "unknown"},
               pushChild' = [pushChild EXCEPT ![w].phase = "stopping", ![w].outcome = outcome]
        PROVE  ManualInv'
    <3> DEFINE c == [pushChild[w] EXCEPT !.phase = "stopping", !.outcome = outcome]
    <3>1. c \in ChildRecord /\ c.phase = "stopping" /\ c.run = pushChild[w].run
          /\ c.outcome \in TerminalStates
      BY <1>3 DEF ChildRecord, Phases, TerminalStates
    <3>2. pushChild' = [pushChild EXCEPT ![w] = c]
      BY <2>3, Ranges
    <3> HIDE DEF c
    <3> QED BY <1>5, <3>1, <3>2
  <2> QED BY <1>9, <2>2, <2>3 DEF EndSend
<1>10. CASE ReloadRun(w)
  <2> DEFINE c == [pushChild[w] EXCEPT !.phase = "finalising", !.revision = Run(w).revision]
  <2>1. c \in ChildRecord /\ c.phase = "finalising" /\ c.run = pushChild[w].run
        /\ c.outcome \in TerminalStates
    BY <1>3, <1>10 DEF ReloadRun, At, ChildFits, ChildRecord, RunRecord, Phases
  <2>2. Exits(w) \/ pushChild' = [pushChild EXCEPT ![w] = c]
    BY <1>10, Ranges DEF ReloadRun
  <2> HIDE DEF c
  <2> QED BY <1>4, <1>5, <2>1, <2>2
<1>11. CASE CrashChild(w)
  BY <1>4, <1>11 DEF CrashChild
<1> QED BY <1>7, <1>8, <1>9, <1>10, <1>11

\* A step of one child that may end its run, or leave it, keeps the invariant.
LEMMA OwnStep ==
    ASSUME ManualInv, NEW w \in Children, NEW r \in RunRecord,
           pushChild[w].run \in 1..Len(pushRuns),
           pushRuns' = [pushRuns EXCEPT ![pushChild[w].run] = r],
           \/ r = pushRuns[pushChild[w].run]
           \/ /\ Moved(pushChild[w].run, r)
              /\ \A v \in Children : v # w => Keeps(pushChild[w].run, r, v),
           UNCHANGED <<pushNow, pushBegun, pushAcked>>,
           pushChild' \in [Children -> ChildRecord],
           \A v \in Children : v # w => pushChild'[v] = pushChild[v],
           Len(pushRuns') = Len(pushRuns) => ChildFits(w)'
    PROVE  ManualInv'
<1> DEFINE i == pushChild[w].run
<1>1. Len(pushRuns') = Len(pushRuns)
  OBVIOUS
<1>2. r = pushRuns[i] => \A v \in Children : Keeps(i, r, v)
  BY DEF Keeps
<1>3. i \in 1..Len(pushRuns) /\ pushBegun[i] <= 1 /\ pushBegun \in [1..MaxRuns -> Nat]
  BY Ranges
<1> HIDE DEF i
<1>4. \A v \in Children : ChildFits(v)' \/ (pushChild'[v] = pushChild[v] /\ Keeps(i, r, v))
  BY <1>1, <1>2 DEF i
<1>5. pushRuns' = [pushRuns EXCEPT ![i] = r] /\ (Moved(i, r) \/ r = pushRuns[i])
  BY DEF i
<1> QED BY <1>3, <1>4, <1>5, RunStep

\* A stopped child is terminated and its outcome recorded.
LEMMA EnforceStep ==
    ASSUME ManualInv, NEW w \in Children, EnforceStop(w) PROVE ManualInv'
<1> DEFINE i == pushChild[w].run
           r == Forced(pushRuns[i], w, pushChild[w].stop)
<1>1. /\ i \in 1..Len(pushRuns) /\ pushRuns[i] \in RunRecord
      /\ UNCHANGED <<pushNow, pushBegun, pushAcked>>
      /\ pushRuns' = [pushRuns EXCEPT ![i] = r]
      /\ pushChild' = [pushChild EXCEPT ![w] = [Unborn EXCEPT !.phase = "gone"]]
  BY HasRun DEF EnforceStop, TerminateChild, ManualInv, ManualShape
<1>2. r = pushRuns[i] \/ (r \in RunRecord /\ Moved(i, r) /\ \A v \in Children : v # w => Keeps(i, r, v))
  <2>1. CASE pushRuns[i].status = "queued" /\ r = Ended(pushRuns[i], "timed_out")
    BY <1>1, <2>1, EndStep, Unowned DEF IsOpen, TerminalStates
  <2>2. CASE pushRuns[i].status \in ActiveStates /\ pushRuns[i].owner = w /\ r = Ended(pushRuns[i], "unknown")
    BY <1>1, <2>2, EndStep DEF IsOpen, TerminalStates
  <2> QED BY <1>1, <2>1, <2>2, ForcedRun
<1>3. [Unborn EXCEPT !.phase = "gone"] \in ChildRecord
  BY DEF Unborn, ChildRecord, Phases
<1> HIDE DEF r
<1>4. /\ pushChild' \in [Children -> ChildRecord]
      /\ \A v \in Children : v # w => pushChild'[v] = pushChild[v]
      /\ Len(pushRuns') = Len(pushRuns) => ChildFits(w)'
  <2> DEFINE c == [Unborn EXCEPT !.phase = "gone"]
  <2>1. c.phase = "gone" /\ c.by = None /\ c \in ChildRecord /\ pushChild' = [pushChild EXCEPT ![w] = c]
    BY <1>1, <1>3 DEF Unborn
  <2>2. Len(pushRuns') = Len(pushRuns)
    BY <1>1
  <2> HIDE DEF c
  <2> QED BY <2>1, <2>2, GoneFits
<1> QED BY <1>1, <1>2, <1>4, OwnStep

\* A child records the outcome of the run it owns.
LEMMA FinalizeStep ==
    ASSUME ManualInv, NEW w \in Children, FinalizeRun(w) PROVE ManualInv'
<1> DEFINE i == pushChild[w].run
           r == IF pushRuns[i].owner = w /\ pushRuns[i].revision = pushChild[w].revision
                THEN Ended(pushRuns[i], pushChild[w].outcome) ELSE pushRuns[i]
<1>1. pushChild[w].phase = "finalising"
  BY DEF FinalizeRun, At
<1>2. /\ i \in 1..Len(pushRuns) /\ pushRuns[i] \in RunRecord /\ RunFits(i)
      /\ UNCHANGED <<pushNow, pushBegun, pushAcked>>
      /\ pushRuns' = [pushRuns EXCEPT ![i] = r] /\ Exits(w)
      /\ pushChild[w].outcome \in TerminalStates
  BY <1>1, HasRun, Ranges DEF ChildFits, FinalizeRun, ManualInv, ManualShape
<1>3. r = pushRuns[i] \/ (r \in RunRecord /\ Moved(i, r) /\ \A v \in Children : v # w => Keeps(i, r, v))
  <2>1. pushRuns[i].owner = w => IsOpen(pushRuns[i])
    BY <1>2, ManualConstants DEF RunFits, IsOpen
  <2> QED BY <1>2, <2>1, EndStep
<1> HIDE DEF r
<1>4. Len(pushRuns') = Len(pushRuns)
  BY <1>2
<1> QED BY <1>1, <1>2, <1>3, <1>4, ExitShape, OwnStep

\* A claim takes a queued run or one whose lease, and so whose deadline, is over.
LEMMA ClaimStep ==
    ASSUME ManualInv, NEW w \in Children, ClaimRun(w) PROVE ManualInv'
<1> DEFINE i == pushChild[w].run
           r == Claimed(pushRuns[i], w, pushNow)
<1>1. pushChild[w].phase = "loaded" /\ UNCHANGED <<pushNow, pushBegun, pushAcked>>
  BY DEF ClaimRun, At
<1>2. /\ i \in 1..Len(pushRuns) /\ pushRuns[i] \in RunRecord /\ RunFits(i)
      /\ pushChild[w] \in ChildRecord /\ pushNow \in Nat
      /\ pushBegun \in [1..MaxRuns -> Nat] /\ i \in 1..MaxRuns
  BY <1>1, HasRun, Ranges
<1>3. CASE Exits(w) /\ pushRuns' = pushRuns
  BY <1>1, <1>3, ExitShape, ChildStep
<1>4. CASE /\ CanClaim(pushRuns[i], pushNow)
           /\ pushRuns' = [pushRuns EXCEPT ![i] = r]
           /\ pushChild' = [pushChild EXCEPT ![w].phase = "claimed", ![w].now = pushNow, ![w].revision = @ + 1]
  <2>1. /\ r \in RunRecord /\ r.status \in {"claimed", "cancelling"} /\ r.owner = w
        /\ r.deadline = pushRuns[i].deadline /\ r.lease >= r.deadline + LeaseMargin
    <3>1. pushRuns[i].deadline <= pushNow + JobDeadline
      BY <1>2 DEF RunFits
    <3> HIDE DEF i
    <3> QED BY <1>2, <3>1, ClaimedRun
  <2>2. pushRuns[i].status = "queued" \/
          (pushRuns[i].status \in ActiveStates /\ pushRuns[i].deadline < pushNow)
    <3>1. CASE pushRuns[i].status = "queued"
      BY <3>1
    <3>2. CASE pushRuns[i].status \in ActiveStates /\ pushRuns[i].lease <= pushNow
      <4>1. pushRuns[i].lease >= pushRuns[i].deadline + LeaseMargin
        BY <1>2, <3>2 DEF RunFits
      <4>2. pushRuns[i].lease \in Nat /\ pushRuns[i].deadline \in Nat
        BY <1>2 DEF RunRecord
      <4> HIDE DEF i
      <4> QED BY <1>2, <3>2, <4>1, <4>2, ManualConstants
    <3> QED BY <1>4, <3>1, <3>2 DEF CanClaim
  <2>3. Moved(i, r)
    BY <2>1, <2>2 DEF Moved, IsOpen, ActiveStates
  <2>4. \A v \in Children : v # w => Keeps(i, r, v)
    BY <1>2, <2>1, <2>2, Unowned DEF Keeps, RunRecord
  <2> DEFINE d == [pushChild[w] EXCEPT !.phase = "claimed", !.now = pushNow]
             n == pushChild[w].revision + 1
             c == [d EXCEPT !.revision = n]
  <2>5. pushChild' = [pushChild EXCEPT ![w] = c]
    BY <1>2, <1>4, Ranges DEF ChildRecord
  <2>6. d \in ChildRecord /\ d.phase = "claimed" /\ d.now = pushNow /\ d.run = i /\ n \in Nat
    <3> DEFINE e == [pushChild[w] EXCEPT !.phase = "claimed"]
    <3>1. e \in ChildRecord /\ e.phase = "claimed" /\ e.run = i
      BY <1>2 DEF ChildRecord, Phases
    <3>2. d = [e EXCEPT !.now = pushNow] /\ n \in Nat
      BY <1>2 DEF ChildRecord
    <3> HIDE DEF d, e, n
    <3> QED BY <1>2, <3>1, <3>2 DEF ChildRecord
  <2> HIDE DEF d, n
  <2>7. c \in ChildRecord /\ c.phase = "claimed" /\ c.now = pushNow /\ c.run = i
    BY <2>6 DEF ChildRecord
  <2> HIDE DEF c, r
  <2>8. /\ pushChild' \in [Children -> ChildRecord] /\ pushChild'[w] = c
        /\ \A v \in Children : v # w => pushChild'[v] = pushChild[v]
    BY <2>5, <2>7, Ranges
  <2>9. pushRuns'[i] = r /\ Len(pushRuns') = Len(pushRuns)
    BY <1>2, <1>4
  <2>10. ChildFits(w)'
    <3>1. pushBegun'[i] = 0 \/ pushNow >= pushRuns[i].deadline
      BY <1>1, <1>2, <2>2 DEF RunFits, RunRecord
    <3>2. pushChild'[w].run = i
      BY <2>7, <2>8
    <3> HIDE DEF i
    <3>3. c.run \in 1..Len(pushRuns')
      BY <1>2, <2>7, <2>9
    <3> QED BY <1>1, <1>2, <2>1, <2>7, <2>8, <2>9, <3>1, <3>2, <3>3 DEF ChildFits
  <2> QED BY <1>1, <1>2, <1>4, <2>1, <2>3, <2>4, <2>8, <2>10, OwnStep
<1> QED BY <1>3, <1>4 DEF ClaimRun, Run

\* A start begins a run that none has begun, or ends it.
LEMMA StartStep ==
    ASSUME ManualInv, NEW w \in Children, StartRun(w) PROVE ManualInv'
<1> DEFINE i == pushChild[w].run
           run == pushRuns[i]
           now == pushChild[w].now
           held == run.owner = w /\ run.revision = pushChild[w].revision
<1>1. pushChild[w].phase = "claimed" /\ UNCHANGED <<pushNow, pushAcked>>
  BY DEF StartRun, At
<1>2. /\ i \in 1..Len(pushRuns) /\ run \in RunRecord /\ RunFits(i)
      /\ pushChild[w] \in ChildRecord /\ pushNow \in Nat /\ ChildFits(w)
      /\ pushBegun \in [1..MaxRuns -> Nat] /\ i \in 1..MaxRuns
  BY <1>1, HasRun, Ranges
<1>3. run.owner = w => IsOpen(run) /\ run.status \in ActiveStates
  BY <1>2, ManualConstants DEF RunFits, IsOpen
<1>4. CASE held /\ StartsAs(run, now) = "running"
  <2> DEFINE r == Started(run)
  <2>1. /\ pushRuns' = [pushRuns EXCEPT ![i] = r]
        /\ pushChild' = [pushChild EXCEPT ![w].phase = "running", ![w].revision = 0, ![w].now = 0]
        /\ pushBegun' = [pushBegun EXCEPT ![i] = pushBegun[i] + 1]
    BY <1>2, <1>4 DEF StartRun, Run
  <2>2. pushBegun[i] = 0
    <3>1. ~(now >= run.deadline)
      BY <1>4 DEF StartsAs
    <3> QED BY <1>1, <1>2, <1>4, <3>1 DEF ChildFits
  <2>3. /\ r \in RunRecord /\ r.status = "running" /\ r.owner = w
        /\ r.lease = run.lease /\ r.deadline = run.deadline
    BY <1>2, <1>4, StartedRun
  <2>4. Moved(i, r)
    BY <1>2, <1>3, <1>4, <2>3 DEF Moved, RunFits, ActiveStates
  <2>5. \A v \in Children : v # w => Keeps(i, r, v) /\ r.owner # v
    BY <1>4, <2>3 DEF Keeps
  <2> DEFINE d == [pushChild[w] EXCEPT !.phase = "running", !.revision = 0]
             c == [d EXCEPT !.now = 0]
  <2>6. pushChild' = [pushChild EXCEPT ![w] = c]
    BY <2>1, Ranges
  <2>7. d \in ChildRecord /\ d.phase = "running" /\ d.run = i
    BY <1>2 DEF ChildRecord, Phases
  <2> HIDE DEF d
  <2>8. c \in ChildRecord /\ c.phase = "running" /\ c.run = i
    BY <2>7 DEF ChildRecord
  <2> HIDE DEF c, r
  <2>9. /\ pushChild' \in [Children -> ChildRecord] /\ pushChild'[w] = c
        /\ \A v \in Children : v # w => pushChild'[v] = pushChild[v]
    BY <2>6, <2>8, Ranges
  <2>10. pushRuns'[i] = r /\ Len(pushRuns') = Len(pushRuns)
    BY <1>2, <2>1
  <2>11. ChildFits(w)'
    BY <1>2, <2>3, <2>8, <2>9, <2>10 DEF ChildFits, Executing
  <2>12. /\ pushBegun' \in [1..MaxRuns -> Nat] /\ pushBegun'[i] <= 1
         /\ \A j \in 1..MaxRuns : j # i => pushBegun'[j] = pushBegun[j]
    BY <1>2, <2>1, <2>2
  <2>13. \A v \in Children : ChildFits(v)' \/
            (/\ pushChild'[v] = pushChild[v] /\ Keeps(i, r, v)
             /\ pushBegun'[i] = pushBegun[i] \/ r.owner # v)
    BY <2>5, <2>9, <2>11
  <2>14. /\ pushRuns' = [pushRuns EXCEPT ![i] = r] /\ pushNow' = pushNow /\ pushAcked' = pushAcked
         /\ r \in RunRecord /\ i \in 1..Len(pushRuns)
    BY <1>1, <1>2, <2>1, <2>3 DEF r
  <2>15. Moved(i, r) \/ (r = pushRuns[i] /\ pushBegun' = pushBegun)
    BY <2>4
  <2>16. pushChild' \in [Children -> ChildRecord]
    BY <2>9
  <2> HIDE DEF i
  <2> QED BY <2>12, <2>13, <2>14, <2>15, <2>16, RunStep
<1>5. CASE ~(held /\ StartsAs(run, now) = "running")
  <2> DEFINE r == IF held THEN Ended(run, StartsAs(run, now))
                  ELSE IF run.owner = w /\ run.cancel /\ now < run.deadline
                       THEN Ended(run, "cancelled") ELSE run
  <2>1. pushRuns' = [pushRuns EXCEPT ![i] = r] /\ Exits(w) /\ UNCHANGED pushBegun
    BY <1>2, <1>5 DEF StartRun, Run
  <2>2. held => StartsAs(run, now) \in TerminalStates
    BY <1>5 DEF StartsAs, TerminalStates
  <2>3. \A status \in TerminalStates : run.owner = w =>
           /\ Ended(run, status) \in RunRecord /\ Moved(i, Ended(run, status))
           /\ \A v \in Children : v # w => Keeps(i, Ended(run, status), v)
    BY <1>2, <1>3, EndStep
  <2>4. r = run \/ (r \in RunRecord /\ Moved(i, r) /\ \A v \in Children : v # w => Keeps(i, r, v))
    BY <2>2, <2>3 DEF TerminalStates
  <2> HIDE DEF r
  <2>5. Len(pushRuns') = Len(pushRuns)
    BY <1>2, <2>1
  <2>6. /\ pushChild' \in [Children -> ChildRecord] /\ ChildFits(w)'
        /\ \A v \in Children : v # w => pushChild'[v] = pushChild[v]
    BY <1>1, <2>1, <2>5, ExitShape
  <2>7. r \in RunRecord
    BY <1>2, <2>4
  <2> QED BY <1>1, <1>2, <2>1, <2>4, <2>6, <2>7, OwnStep
<1> QED BY <1>4, <1>5

----------------------------------------------------------------------------
\* The invariant

\* The invariant holds at the start.
LEMMA ManualStarts == PushInit => ManualInv
<1> SUFFICES ASSUME PushInit PROVE ManualInv
  OBVIOUS
<1>1. /\ pushNow = 0 /\ pushRuns = <<>> /\ Len(pushRuns) = 0 /\ pushAcked = {}
      /\ pushChild = [w \in Children |-> Unborn] /\ pushBegun = [i \in 1..MaxRuns |-> 0]
  BY DEF PushInit
<1>2. Unborn \in ChildRecord /\ Unborn.phase = "unborn" /\ Unborn.by = None
  BY DEF Unborn, ChildRecord, Phases
<1>3. ManualShape
  BY <1>1, <1>2, ManualConstants DEF ManualShape
<1>4. \A w \in Children : ChildFits(w)
  BY <1>1, <1>2 DEF ChildFits
<1>5. OlderHaveEnded
  BY <1>1 DEF OlderHaveEnded, UnknownIsAcknowledged, Latest
<1> QED BY <1>1, <1>3, <1>4, <1>5 DEF ManualInv

\* Every step keeps the invariant.
LEMMA ManualSteps == ManualInv /\ [PushNext]_pushVars => ManualInv'
<1> SUFFICES ASSUME ManualInv, [PushNext]_pushVars PROVE ManualInv'
  OBVIOUS
<1>1. CASE UNCHANGED pushVars
  BY <1>1, ChildStep, Ranges DEF pushVars
<1>2. CASE Tick
  BY <1>2, TickStep
<1>3. CASE Admit \/ AcknowledgeUnknown
  BY <1>3, AdmitStep
<1>4. ASSUME NEW i \in 1..Latest, CancelRun(i) PROVE ManualInv'
  BY <1>4, CancelStep
<1>5. ASSUME NEW s \in Services, NEW i \in 1..Latest, Dispatch(s, i) \/ FailSpawn(s, i) PROVE ManualInv'
  BY <1>5, DispatchStep
<1>6. ASSUME NEW s \in Services, Shutdown(s) PROVE ManualInv'
  BY <1>6, ShutdownStep
<1>7. ASSUME NEW s \in Services, Stopped(s) \/ Restart(s) PROVE ManualInv'
  BY <1>7, ChildStep, Ranges DEF Stopped, Restart
<1>8. ASSUME NEW s \in Services, CrashService(s) PROVE ManualInv'
  BY <1>8, CrashServiceStep
<1>9. ASSUME NEW w \in Children, Reap(w) \/ BeginStop(w) PROVE ManualInv'
  BY <1>9, ReapStep
<1>10. ASSUME NEW w \in Children, EnforceStop(w) PROVE ManualInv'
  BY <1>10, EnforceStep
<1>11. ASSUME NEW w \in Children,
              LoadRun(w) \/ CheckAndSend(w) \/ EndSend(w) \/ ReloadRun(w) \/ CrashChild(w)
       PROVE  ManualInv'
  BY <1>11, QuietStep
<1>12. ASSUME NEW w \in Children, ClaimRun(w) PROVE ManualInv'
  BY <1>12, ClaimStep
<1>13. ASSUME NEW w \in Children, StartRun(w) PROVE ManualInv'
  BY <1>13, StartStep
<1>14. ASSUME NEW w \in Children, FinalizeRun(w) PROVE ManualInv'
  BY <1>14, FinalizeStep
<1> QED
  BY <1>1, <1>2, <1>3, <1>4, <1>5, <1>6, <1>7, <1>8, <1>9, <1>10, <1>11, <1>12, <1>13, <1>14 DEF PushNext

\* The inductive invariant holds: the shapes of the records, and how the
\* lease, the deadline and the owner of a run bound what its children do.
THEOREM ManualInvariant == PushSpec => []ManualInv
  BY ManualStarts, ManualSteps, PTL DEF PushSpec

\* At most one child ever executes a run, whatever crashes and however slow
\* an orphaned child is: a run may be claimed again only past its deadline,
\* and a child that claims past the deadline does not begin.
THEOREM ManualOnce == PushSpec => []ManualExecutedOnce
<1>1. ManualInv => ManualExecutedOnce
  <2> SUFFICES ASSUME ManualInv, NEW i \in 1..MaxRuns PROVE pushBegun[i] <= 1
    BY DEF ManualExecutedOnce
  <2>1. CASE i > Len(pushRuns)
    BY <2>1 DEF ManualInv
  <2>2. CASE i <= Len(pushRuns)
    BY <2>2, Ranges, ManualConstants
  <2> QED BY <2>1, <2>2, Ranges, ManualConstants
<1> QED BY <1>1, ManualInvariant, PTL

\* A child that sends owns its run, so no two children send for the user at
\* once and nothing is sent for a run whose outcome is recorded.
THEOREM ManualSendsOwned == PushSpec => []SendsAreOwned
<1>1. ManualInv => SendsAreOwned
  BY DEF ManualInv, ChildFits, SendsAreOwned, At, Run, Executing
<1> QED BY <1>1, ManualInvariant, PTL

\* An unknown outcome is replaced only by acknowledging it, and only unknown
\* outcomes are acknowledged.
THEOREM ManualAcknowledged == PushSpec => []UnknownIsAcknowledged
<1>1. ManualInv => UnknownIsAcknowledged
  BY DEF ManualInv, OlderHaveEnded
<1> QED BY <1>1, ManualInvariant, PTL
=============================================================================
