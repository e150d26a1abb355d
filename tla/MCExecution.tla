---------------------------- MODULE MCExecution ----------------------------
(***************************************************************************)
(* Two operations of one capacity-1 group, with their workers, for TLC.    *)
(***************************************************************************)
EXTENDS SourceExecution, TLC

Symmetry == Permutations(Ops)

Request(key) ==
    [workspace |-> "w", run |-> "run", idempotencyKey |-> key, fingerprint |-> key,
     groups |-> {1}, costClass |-> "metadata", bytes |-> 1, pages |-> 1, seconds |-> 1,
     policyVersion |-> PolicyVersion, deadline |-> 9]

TwoRequests == {Request("a"), Request("b")}
OneRun == {"run"}

OneAtATime ==
    1 :> [maxActive |-> 1, minInterval |-> 0, permitTtl |-> 2, maxBytes |-> 2, maxPages |-> 1,
          requestDeadline |-> 1, maxRunBytes |-> 9, maxRunOps |-> 9, profiling |-> TRUE,
          hoursStart |-> 0, hoursEnd |-> 24, zone |-> 0, zoneKnown |-> TRUE]

BothOutcomes ==
    {[state |-> "confirmed-finished", bytes |-> 1], [state |-> "outcome-unknown", bytes |-> 0]}

=============================================================================
