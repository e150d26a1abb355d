---------------------------- MODULE RunLifecycle ----------------------------
(***************************************************************************)
(* What the controller may rely on about assessment runs: a run admits     *)
(* source work, pauses and resumes, until it is closed for good.           *)
(* AssessmentRuns implements this specification; WorkloadController takes  *)
(* its steps as steps of the controller's surroundings.                    *)
(***************************************************************************)

CONSTANT Runs \* assessments.id

VARIABLE runState \* runState[r]: whether run r admits source work

Init == runState = [r \in Runs |-> "open"]

Pause(r) ==
    /\ runState[r] = "open"
    /\ runState' = [runState EXCEPT ![r] = "paused"]

Resume(r) ==
    /\ runState[r] = "paused"
    /\ runState' = [runState EXCEPT ![r] = "open"]

Close(r) ==
    /\ runState[r] # "closed"
    /\ runState' = [runState EXCEPT ![r] = "closed"]

Next == \E r \in Runs : Pause(r) \/ Resume(r) \/ Close(r)

Spec == Init /\ [][Next]_runState

=============================================================================
