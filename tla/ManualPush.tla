----------------------------- MODULE ManualPush -----------------------------
(***************************************************************************)
(* Manual weekly pushes of one user: runs in the delivery store, services  *)
(* whose dispatchers spawn a child process for each run to execute and     *)
(* stop it, and the children, which claim, start, send and finalise.       *)
(*                                                                         *)
(* A service may crash: its children go on without it.  A child may stop   *)
(* between any two steps and be slow for as long as it likes; only a send, *)
(* whose timeout is capped by the run's deadline, ends by the deadline.    *)
(***************************************************************************)
EXTENDS Naturals, Sequences, FiniteSets, Page

CONSTANTS
    Services,       \* processes of the service
    Children,       \* owner ids of spawned children, each used once
    JobDeadline,    \* ManualJobDeadlineSeconds
    LeaseMargin,    \* what the lease of a child outlasts the deadline by
    Concurrency,    \* delivery worker concurrency
    MaxRuns,        \* bound on admitted runs
    MaxClock,       \* bound on time
    MaxCrashes      \* bound on crashes of services and children

ASSUME ManualConstants ==
    /\ IsFiniteSet(Services) /\ IsFiniteSet(Children) /\ None \notin Services \union Children
    /\ JobDeadline \in Nat \ {0} /\ LeaseMargin \in Nat \ {0} /\ Concurrency \in Nat \ {0}
    /\ MaxRuns \in Nat /\ MaxClock \in Nat /\ MaxCrashes \in Nat

VARIABLES
    pushNow,      \* the clock
    pushRuns,     \* delivery_runs of the user, oldest first
    pushService,  \* each service: up, stopping or down
    pushChild,    \* each child: where it is, its run, who tracks it
    pushBegun,    \* how many children have begun to execute each run
    pushAcked,    \* runs acknowledged as unknown
    pushCrashes   \* what MaxCrashes bounds

pushVars == <<pushNow, pushRuns, pushService, pushChild, pushBegun, pushAcked, pushCrashes>>

----------------------------------------------------------------------------
\* Runs

ActiveStates   == {"claimed", "running", "cancelling"}
TerminalStates == {"completed", "failed", "cancelled", "timed_out", "unknown"}

IsOpen(run) == run.status \in {"queued"} \union ActiveStates
Latest == Len(pushRuns)

NewRun(now) ==
    [status |-> "queued", owner |-> None, lease |-> 0, deadline |-> now + JobDeadline,
     cancel |-> FALSE, revision |-> 0]

Ended(run, status) ==
    [run EXCEPT !.status = status, !.owner = None, !.lease = 0, !.revision = @ + 1]

\* Seeded fault: a new push needs only that none is under way.
AdmitsAny(runs) == \A i \in 1..Len(runs) : ~IsOpen(runs[i])

\* An unknown outcome blocks until it is acknowledged.
Admits(runs) ==
    /\ \A i \in 1..Len(runs) : ~IsOpen(runs[i])
    /\ runs # <<>> => runs[Len(runs)].status # "unknown"

\* Seeded fault: the lease is the time of the claim, nothing is added to it.
ShortLease(run, now) == now

\* The time left until the deadline, a second at least, and the margin.
LeaseOf(run, now) ==
    now + LeaseMargin + (IF run.deadline <= now THEN 1
                         ELSE IF run.deadline - now < JobDeadline THEN run.deadline - now
                         ELSE JobDeadline)

CanClaim(run, now) ==
    run.status = "queued" \/ (run.status \in ActiveStates /\ run.lease <= now)

Claimed(run, owner, now) ==
    [run EXCEPT !.status = IF run.cancel THEN "cancelling" ELSE "claimed",
                !.owner = owner, !.lease = LeaseOf(run, now), !.revision = @ + 1]

----------------------------------------------------------------------------
\* Children

Unborn == [phase |-> "unborn", run |-> 0, revision |-> 0, now |-> 0, outcome |-> None, by |-> None, stop |-> None]
Alive(w) == pushChild[w].phase \notin {"unborn", "gone"}
Run(w) == pushRuns[pushChild[w].run]
Tracked(s) == {w \in Children : pushChild[w].by = s}

At(w, phase) == pushChild[w].phase = phase
Goes(w, phase) == pushChild' = [pushChild EXCEPT ![w].phase = phase]
Exits(w) == pushChild' = [pushChild EXCEPT ![w] = [@ EXCEPT !.phase = "gone", !.revision = 0, !.now = 0, !.outcome = None]]

----------------------------------------------------------------------------
PushInit ==
    /\ pushNow = 0
    /\ pushRuns = <<>>
    /\ pushService = [s \in Services |-> "up"]
    /\ pushChild = [w \in Children |-> Unborn]
    /\ pushBegun = [i \in 1..MaxRuns |-> 0]
    /\ pushAcked = {}
    /\ pushCrashes = 0

\* Time passes, but not past the deadline of a run being sent for.
Tick ==
    /\ pushNow < MaxClock
    /\ \A w \in Children : At(w, "sending") => pushNow < Run(w).deadline
    /\ pushNow' = pushNow + 1
    /\ UNCHANGED <<pushRuns, pushService, pushChild, pushBegun, pushAcked, pushCrashes>>

Serving == \E s \in Services : pushService[s] = "up"

\* The API

Admit ==
    /\ Serving /\ Latest < MaxRuns
    /\ Admits(pushRuns)
    /\ pushRuns' = Append(pushRuns, NewRun(pushNow))
    /\ UNCHANGED <<pushNow, pushService, pushChild, pushBegun, pushAcked, pushCrashes>>

\* The latest run, if unknown, is kept and replaced.
AcknowledgeUnknown ==
    /\ Serving /\ Latest \in 1..(MaxRuns - 1)
    /\ pushRuns[Latest].status = "unknown"
    /\ \A i \in 1..Latest : ~IsOpen(pushRuns[i])
    /\ pushRuns' = Append(pushRuns, NewRun(pushNow))
    /\ pushAcked' = pushAcked \union {Latest}
    /\ UNCHANGED <<pushNow, pushService, pushChild, pushBegun, pushCrashes>>

Cancelled(run) ==
    [run EXCEPT !.status = IF @ = "queued" THEN "cancelled" ELSE "cancelling",
                !.cancel = TRUE, !.revision = @ + 1]

\* A cancellation that finds the run changed since it was loaded does
\* nothing.  A second one is not offered.
CancelRun(i) ==
    /\ Serving /\ IsOpen(pushRuns[i]) /\ ~pushRuns[i].cancel
    /\ pushRuns' = [pushRuns EXCEPT ![i] = Cancelled(@)]
    /\ UNCHANGED <<pushNow, pushService, pushChild, pushBegun, pushAcked, pushCrashes>>

----------------------------------------------------------------------------
\* The dispatcher

\* A queued run past its deadline ends; another queued or expired run that
\* no child of this service works on gets a child.
Dispatch(s, i) ==
    LET run == pushRuns[i]
    IN  /\ pushService[s] = "up"
        /\ CanClaim(run, pushNow)
        /\ \A w \in Tracked(s) : pushChild[w].run # i
        /\ Cardinality(Tracked(s)) < Concurrency
        /\ IF run.status = "queued" /\ run.deadline <= pushNow
           THEN pushRuns' = [pushRuns EXCEPT ![i] = Ended(run, "timed_out")] /\ UNCHANGED pushChild
           ELSE /\ UNCHANGED pushRuns
                /\ \E w \in Children :
                    /\ At(w, "unborn")
                    /\ pushChild' = [pushChild EXCEPT ![w] =
                            [Unborn EXCEPT !.phase = "spawned", !.run = i, !.by = s]]
        /\ UNCHANGED <<pushNow, pushService, pushBegun, pushAcked, pushCrashes>>

\* No child can be spawned: a queued run fails.
FailSpawn(s, i) ==
    /\ pushService[s] = "up" /\ pushRuns[i].status = "queued" /\ pushRuns[i].deadline > pushNow
    /\ \A w \in Tracked(s) : pushChild[w].run # i
    /\ pushCrashes < MaxCrashes
    /\ pushCrashes' = pushCrashes + 1
    /\ pushRuns' = [pushRuns EXCEPT ![i] = Ended(@, "failed")]
    /\ UNCHANGED <<pushNow, pushService, pushChild, pushBegun, pushAcked>>

Reap(w) ==
    /\ At(w, "gone") /\ pushChild[w].by # None
    /\ pushChild' = [pushChild EXCEPT ![w].by = None]
    /\ UNCHANGED <<pushNow, pushRuns, pushService, pushBegun, pushAcked, pushCrashes>>

\* The deadline first, then a cancellation, then a run that has ended.
StopKind(run, now) ==
    IF run.deadline <= now THEN "deadline"
    ELSE IF run.cancel THEN "cancellation"
    ELSE IF run.status \in TerminalStates THEN "termination" ELSE None

BeginStop(w) ==
    /\ pushChild[w].by # None /\ pushChild[w].stop = None
    /\ StopKind(Run(w), pushNow) # None
    /\ pushChild' = [pushChild EXCEPT ![w].stop = StopKind(Run(w), pushNow)]
    /\ UNCHANGED <<pushNow, pushRuns, pushService, pushBegun, pushAcked, pushCrashes>>

\* What is recorded for a child that was stopped: nothing for a run that has
\* ended or has another owner.
Forced(run, w, stop) ==
    IF run.status \in TerminalStates THEN run
    ELSE IF run.status = "queued" THEN IF stop = "deadline" THEN Ended(run, "timed_out") ELSE run
    ELSE IF run.owner = w THEN Ended(run, "unknown") ELSE run

\* Seeded fault: the outcome is recorded while the child still runs.
RecordedFirst(w) ==
    /\ pushRuns' = [pushRuns EXCEPT ![pushChild[w].run] = Forced(@, w, pushChild[w].stop)]
    /\ UNCHANGED pushChild

\* The child is terminated, then its outcome is recorded.
TerminateChild(w) ==
    /\ pushRuns' = [pushRuns EXCEPT ![pushChild[w].run] = Forced(@, w, pushChild[w].stop)]
    /\ pushChild' = [pushChild EXCEPT ![w] = [Unborn EXCEPT !.phase = "gone"]]

EnforceStop(w) ==
    /\ pushChild[w].by # None /\ pushChild[w].stop # None
    /\ TerminateChild(w)
    /\ UNCHANGED <<pushNow, pushService, pushBegun, pushAcked, pushCrashes>>

\* The service is asked to stop: every child's own run is cancelled.
Shutdown(s) ==
    /\ pushService[s] = "up"
    /\ pushService' = [pushService EXCEPT ![s] = "stopping"]
    /\ pushRuns' = [i \in 1..Latest |->
            IF \E w \in Tracked(s) : pushChild[w].run = i /\ pushRuns[i].owner = w
            THEN Cancelled(pushRuns[i]) ELSE pushRuns[i]]
    /\ pushChild' = [w \in Children |-> IF w \in Tracked(s) THEN [pushChild[w] EXCEPT !.stop = "shutdown"] ELSE pushChild[w]]
    /\ pushCrashes < MaxCrashes
    /\ pushCrashes' = pushCrashes + 1
    /\ UNCHANGED <<pushNow, pushBegun, pushAcked>>

Stopped(s) ==
    /\ pushService[s] = "stopping" /\ Tracked(s) = {}
    /\ pushService' = [pushService EXCEPT ![s] = "down"]
    /\ UNCHANGED <<pushNow, pushRuns, pushChild, pushBegun, pushAcked, pushCrashes>>

CrashService(s) ==
    /\ pushService[s] # "down"
    /\ pushCrashes < MaxCrashes
    /\ pushCrashes' = pushCrashes + 1
    /\ pushService' = [pushService EXCEPT ![s] = "down"]
    /\ pushChild' = [w \in Children |-> IF w \in Tracked(s) THEN [pushChild[w] EXCEPT !.by = None, !.stop = None] ELSE pushChild[w]]
    /\ UNCHANGED <<pushNow, pushRuns, pushBegun, pushAcked>>

Restart(s) ==
    /\ pushService[s] = "down"
    /\ pushService' = [pushService EXCEPT ![s] = "up"]
    /\ UNCHANGED <<pushNow, pushRuns, pushChild, pushBegun, pushAcked, pushCrashes>>

----------------------------------------------------------------------------
\* A child

LoadRun(w) ==
    /\ At(w, "spawned")
    /\ IF Run(w).status \in TerminalStates THEN Exits(w)
       ELSE pushChild' = [pushChild EXCEPT ![w].phase = "loaded", ![w].revision = Run(w).revision]
    /\ UNCHANGED <<pushNow, pushRuns, pushService, pushBegun, pushAcked, pushCrashes>>

ClaimRun(w) ==
    /\ At(w, "loaded")
    /\ IF Run(w).revision = pushChild[w].revision /\ CanClaim(Run(w), pushNow)
       THEN /\ pushRuns' = [pushRuns EXCEPT ![pushChild[w].run] = Claimed(@, w, pushNow)]
            /\ pushChild' = [pushChild EXCEPT ![w].phase = "claimed", ![w].now = pushNow,
                                              ![w].revision = @ + 1]
       ELSE Exits(w) /\ UNCHANGED pushRuns
    /\ UNCHANGED <<pushNow, pushService, pushBegun, pushAcked, pushCrashes>>

\* What a claimed run becomes, judged at the time of the claim.
StartsAs(run, now) ==
    IF run.status = "cancelling" THEN "cancelled"
    ELSE IF now >= run.deadline THEN "timed_out" ELSE "running"

Started(run) == [run EXCEPT !.status = "running", !.revision = @ + 1]

\* The claimed run is started, or ended unexecuted.  One cancelled since the
\* claim is reloaded and ended.
StartRun(w) ==
    LET child == pushChild[w]
        held == Run(w).owner = w /\ Run(w).revision = child.revision
        next == StartsAs(Run(w), child.now)
    IN  /\ At(w, "claimed")
        /\ IF held /\ next = "running"
           THEN /\ pushRuns' = [pushRuns EXCEPT ![child.run] = Started(@)]
                /\ pushChild' = [pushChild EXCEPT ![w].phase = "running", ![w].revision = 0, ![w].now = 0]
                /\ pushBegun' = [pushBegun EXCEPT ![child.run] = @ + 1]
           ELSE /\ pushRuns' = [pushRuns EXCEPT ![child.run] =
                        IF held THEN Ended(@, next)
                        ELSE IF @.owner = w /\ @.cancel /\ child.now < @.deadline THEN Ended(@, "cancelled") ELSE @]
                /\ Exits(w)
                /\ UNCHANGED pushBegun
        /\ UNCHANGED <<pushNow, pushService, pushAcked, pushCrashes>>

\* Before anything is sent the run and the deadline are checked; the check
\* does not ask who owns the run.
CheckAndSend(w) ==
    /\ At(w, "running")
    /\ pushChild' = [pushChild EXCEPT
            ![w].outcome = IF Run(w).cancel \/ Run(w).status \in TerminalStates THEN "cancelled"
                           ELSE IF pushNow >= Run(w).deadline THEN "timed_out" ELSE None,
            ![w].phase = IF Run(w).cancel \/ Run(w).status \in TerminalStates \/ pushNow >= Run(w).deadline
                         THEN "stopping" ELSE "sending"]
    /\ UNCHANGED <<pushNow, pushRuns, pushService, pushBegun, pushAcked, pushCrashes>>

\* A send is over; another may follow.
EndSend(w) ==
    /\ At(w, "sending")
    /\ \/ Goes(w, "running")
       \/ \E outcome \in {"completed", "failed", "unknown"} :
            pushChild' = [pushChild EXCEPT ![w].phase = "stopping", ![w].outcome = outcome]
    /\ UNCHANGED <<pushNow, pushRuns, pushService, pushBegun, pushAcked, pushCrashes>>

\* The run is loaded again and, if still owned and not ended, finalised.
ReloadRun(w) ==
    /\ At(w, "stopping")
    /\ IF Run(w).owner # w THEN Exits(w)
       ELSE pushChild' = [pushChild EXCEPT ![w].phase = "finalising", ![w].revision = Run(w).revision]
    /\ UNCHANGED <<pushNow, pushRuns, pushService, pushBegun, pushAcked, pushCrashes>>

FinalizeRun(w) ==
    /\ At(w, "finalising")
    /\ pushRuns' = [pushRuns EXCEPT ![pushChild[w].run] =
            IF @.owner = w /\ @.revision = pushChild[w].revision THEN Ended(@, pushChild[w].outcome) ELSE @]
    /\ Exits(w)
    /\ UNCHANGED <<pushNow, pushService, pushBegun, pushAcked, pushCrashes>>

CrashChild(w) ==
    /\ Alive(w)
    /\ pushCrashes < MaxCrashes
    /\ pushCrashes' = pushCrashes + 1
    /\ Exits(w)
    /\ UNCHANGED <<pushNow, pushRuns, pushService, pushBegun, pushAcked>>

PushNext ==
    \/ Tick \/ Admit \/ AcknowledgeUnknown
    \/ \E i \in 1..Latest : CancelRun(i)
    \/ \E s \in Services :
        \/ \E i \in 1..Latest : Dispatch(s, i) \/ FailSpawn(s, i)
        \/ Shutdown(s) \/ Stopped(s) \/ CrashService(s) \/ Restart(s)
    \/ \E w \in Children :
        \/ Reap(w) \/ BeginStop(w) \/ EnforceStop(w)
        \/ LoadRun(w) \/ ClaimRun(w) \/ StartRun(w)
        \/ CheckAndSend(w) \/ EndSend(w) \/ ReloadRun(w) \/ FinalizeRun(w) \/ CrashChild(w)

PushSpec == PushInit /\ [][PushNext]_pushVars
=============================================================================
