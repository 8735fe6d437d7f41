----------------------------- MODULE MCDelivery -----------------------------
(***************************************************************************)
(* Instances of DeliveryProperties for TLC: which invocations the workers  *)
(* may be asked for.                                                       *)
(***************************************************************************)
EXTENDS DeliveryProperties, TLC

CONSTANTS w1, w2, w3, r1, r2, r3, u1, u2, a1, a2

WorkerSymmetry == Permutations(Workers)

Scheduled(r) ==
    [ext |-> r, mode |-> "execute", target |-> None, manifest |-> None]
DryRun(r) == [Scheduled(r) EXCEPT !.mode = "dry_run"]
FromManifest(r, S) == [Scheduled(r) EXCEPT !.manifest = S]
Manual(r, u, S) == [FromManifest(r, S) EXCEPT !.target = u]

\* one manifest handed over again and again: every invocation is the same run
Repeated == {FromManifest(r1, {a1})}
\* a manifest, a scheduled run of the snapshot and a dry run of it
Mixed == {FromManifest(r1, {a1}), Scheduled(r2), DryRun(r2)}
\* a manual push of one user's week beside scheduled runs
WithManual == {Scheduled(r1), Manual(r2, u1, {a1})}
\* snapshot runs only
Snapshots == {Scheduled(r1), Scheduled(r2)}

\* Bounds of three owners of one run: the second and the third begin a tick or
\* more after the one before, and one of them dies.  The others may stall for
\* ever at any call, which leaves the tables as a death does.
OneAfterAnother == Cardinality({w \in Workers : pc[w] # "idle"}) <= clock + 1
OneDies         == Cardinality({w \in Workers : pc[w] = "crashed"}) <= 1
Generations     == OneAfterAnother /\ OneDies
=============================================================================
