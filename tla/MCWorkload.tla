----------------------------- MODULE MCWorkload -----------------------------
(***************************************************************************)
(* Small instances of WorkloadController for TLC: requests, policies and   *)
(* outcomes, one set for each question the .cfg files ask.                 *)
(***************************************************************************)
EXTENDS WorkloadController, TLC

Symmetry == Permutations(Ops)

\* The runs stay open: run states only ever stop submit, and the policy instance moves them.
OpenRunsSpec == Init /\ [][ControllerStep \/ Tick]_vars

\* Clock readings are finer than ticks: no two rows have the same queued_at.
DistinctReadings ==
    \A p, q \in DOMAIN operation' : operation'[p].queuedAt = operation'[q].queuedAt => p = q
DistinctReadingsSpec == Init /\ [][(ControllerStep /\ DistinctReadings) \/ Tick]_vars

\* The same without symmetry, which liveness checking excludes: rows are inserted in the
\* order of their (interchangeable) ids.
InIdOrder == DOMAIN operation' \in {1..n : n \in 0..Cardinality(Ops)}
FairOpenRunsSpec ==
    Init /\ [][(ControllerStep /\ InIdOrder) \/ Tick]_vars /\ Fairness

\* A policy that allows everything; each instance says what it restricts.
Open ==
    [maxActive |-> 1, minInterval |-> 0, permitTtl |-> 2, maxBytes |-> 2, maxPages |-> 1,
     requestDeadline |-> 1, maxRunBytes |-> 9, maxRunOps |-> 9, profiling |-> TRUE,
     hoursStart |-> 0, hoursEnd |-> 24, zone |-> 0, zoneKnown |-> TRUE]

Request(key, gs) ==
    [workspace |-> "w", run |-> "run", idempotencyKey |-> key, fingerprint |-> key,
     groups |-> gs, costClass |-> "metadata", bytes |-> 1, pages |-> 1, seconds |-> 1,
     policyVersion |-> PolicyVersion, deadline |-> 9]

Finished == [state |-> "confirmed-finished", bytes |-> 1]
Unknown  == [state |-> "outcome-unknown", bytes |-> 0]
BothOutcomes == {Finished, Unknown}
OneRun == {"run"}

\* Operations compete for two groups of different capacity, one of them rate limited and open
\* for a part of the day, the other with a budget for each run; and requests that a policy
\* forbids: a profile, a stale policy revision, an unknown timezone.
SharedRequests ==
    {[Request("profile", {1, 2}) EXCEPT !.costClass = "profile"],
     [Request("stale", {2}) EXCEPT !.policyVersion = 2],
     [Request("unzoned", {1, 3}) EXCEPT !.fingerprint = "health"],
     [Request("health", {1}) EXCEPT !.deadline = 2, !.costClass = "health"],
     Request("a", {1, 2}), Request("b", {1, 2}), Request("c", {2})}
SharedPolicy ==
    1 :> [Open EXCEPT !.minInterval = 1, !.hoursStart = 1, !.hoursEnd = 3, !.zone = 1]
    @@ 2 :> [Open EXCEPT !.maxActive = 2, !.profiling = FALSE, !.maxRunOps = 2,
                         !.maxRunBytes = 1]
    @@ 3 :> [Open EXCEPT !.zoneKnown = FALSE]

\* Equal capacity-1 work behind an abandoned, a forbidden or an uncounted operation.
QueueRequests == {Request("a", {1}), Request("b", {1, 2}), Request("c", {2})}
QueuePolicy == 1 :> Open @@ 2 :> Open

\* One run closes while its operation is queued or reserved.
OneGroupRequests == {Request("a", {1}), Request("b", {1})}
OneGroupPolicy == 1 :> Open

\* A profile that is queued behind other work although the policy forbids it.
PoisonRequests == {Request("a", {1}), Request("c", {1}),
                   [Request("p", {1}) EXCEPT !.costClass = "profile"]}
PoisonPolicy == 1 :> [Open EXCEPT !.profiling = FALSE]

\* max_operations_per_run = 1, the least value SourcePolicy accepts.
SingleOperationPolicy == 1 :> [Open EXCEPT !.maxRunOps = 1]

\* Three requests for the same evidence and one for other evidence.
SameEvidenceRequests ==
    {[Request(key, {1}) EXCEPT !.fingerprint = "same"] : key \in {"a", "b", "c"}}
    \cup {Request("d", {1})}

\* A request that waits behind another one and expires meanwhile.
DeadlineRequests == {Request("a", {1}), [Request("b", {1}) EXCEPT !.deadline = 2]}

\* Room for two operations at a time and for one byte in the run.
BytesPolicy == 1 :> [Open EXCEPT !.maxActive = 2, !.maxRunBytes = 1]

=============================================================================
