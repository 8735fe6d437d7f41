------------------------ MODULE ManualPushProperties ------------------------
(* What manual weekly pushes promise. *)
EXTENDS ManualPush

Statuses == {"queued"} \union ActiveStates \union TerminalStates
Phases == {"unborn", "spawned", "loaded", "claimed", "running", "sending", "stopping", "finalising", "gone"}

\* Types: runs, services and children have the states of the code; an owner
\* and a lease belong to active runs only, and one run at most is open.
PushTypeOK ==
    /\ pushNow \in 0..MaxClock
    /\ pushRuns \in Seq([status : Statuses, owner : Children \union {None}, lease : Nat,
                         deadline : Nat, cancel : BOOLEAN, revision : Nat])
    /\ Len(pushRuns) <= MaxRuns
    /\ \A i \in 1..Latest : (pushRuns[i].owner # None) = (pushRuns[i].status \in ActiveStates)
    /\ Cardinality({i \in 1..Latest : IsOpen(pushRuns[i])}) <= 1
    /\ pushService \in [Services -> {"up", "stopping", "down"}]
    /\ \A w \in Children : pushChild[w].phase \in Phases /\ pushChild[w].by \in Services \union {None}
    /\ pushBegun \in [1..MaxRuns -> 0..Cardinality(Children)]
    /\ pushAcked \subseteq 1..Latest
    /\ pushCrashes \in 0..MaxCrashes

\* A run is executed by one child at most, whatever crashes, however slow an
\* orphan is and however often the run is dispatched again: the lease
\* outlasts the deadline, and past the deadline no child begins.
ManualExecutedOnce == \A i \in 1..MaxRuns : pushBegun[i] <= 1

\* Nothing is sent for a run that has been given to another child or has a
\* recorded outcome, so two children never send for the user at a time.
SendsAreOwned ==
    \A w \in Children : At(w, "sending") => Run(w).owner = w /\ Run(w).status \in {"running", "cancelling"}

\* An unknown outcome stays the user's latest run until it is acknowledged,
\* once and as itself; no other outcome is ever acknowledged.
UnknownIsAcknowledged ==
    /\ \A i \in 1..Latest : pushRuns[i].status = "unknown" /\ i < Latest => i \in pushAcked
    /\ \A i \in pushAcked : pushRuns[i].status = "unknown"
=============================================================================
