--------------------------- MODULE SourceExecution ---------------------------
(***************************************************************************)
(* The controller together with the workers that use its permits           *)
(* (src/backend/src/reweft/connectors/sdk/runtime.py), the source they read *)
(* and whoever reconciles the executions whose outcome is unknown.         *)
(*                                                                         *)
(* A worker's call of ControlledConnectorRuntime.run is a sequence of      *)
(* steps here, because other workers, the lease sweep and the reconciler   *)
(* run between them; and the source's work may go on when the worker that  *)
(* started it is gone.  Every step that touches the database is a step of  *)
(* WorkloadController, taken with the clock, the runs and the requests of  *)
(* that module.                                                            *)
(***************************************************************************)
EXTENDS WorkloadController

CONSTANT
    CollectorChecked \* whether the reconciler also knows that the worker is gone

ASSUME CollectorCheckedAssumption == CollectorChecked \in BOOLEAN

VARIABLES
    collector,  \* collector[o]: how far run() has come with o's permit
    source      \* source[o]: o's work at the source

execVars == <<now, runState, operation, group, collector, source>>

\* "begun" is between begin_execution and the handler's first I/O; "returned" and "raised"
\* hold a result not yet recorded; "over" is a run() that returned, raised or died.
CollectorPhase == {"idle", "begun", "calling", "returned", "raised", "over"}

\* The type of the workers' and the source's state.
ExecTypeOK ==
    /\ TypeOK
    /\ collector \in [Ops -> CollectorPhase]
    /\ source \in [Ops -> {"none", "running", "ended"}]

ExecInit ==
    /\ Init
    /\ collector = [o \in Ops |-> "idle"]
    /\ source = [o \in Ops |-> "none"]

-----------------------------------------------------------------------------
(* ControlledConnectorRuntime.run                                          *)

\* The permit is consumed.  Several workers may hold it: the controller picks one.
RunBegins(o, t, seconds) ==
    /\ BeginExecution(o, t, seconds)
    /\ collector' = [collector EXCEPT ![o] = "begun"]
    /\ UNCHANGED source

\* The secret is resolved and the handler starts work at the source.  Nothing is asked of
\* the controller again, however long ago the permit was consumed.
HandlerCalls(o) ==
    /\ collector[o] = "begun"
    /\ collector' = [collector EXCEPT ![o] = "calling"]
    /\ source' = [source EXCEPT ![o] = "running"]
    /\ UNCHANGED vars

\* A handler returns only when the source confirmed the end of its work.
HandlerReturns(o) ==
    /\ collector[o] = "calling"
    /\ source[o] = "ended"
    /\ collector' = [collector EXCEPT ![o] = "returned"]
    /\ UNCHANGED <<vars, source>>

\* Secret resolution, the handler or the construction of its result raises; work it
\* started may still run.
HandlerRaises(o) ==
    /\ collector[o] \in {"begun", "calling"}
    /\ collector' = [collector EXCEPT ![o] = "raised"]
    /\ UNCHANGED <<vars, source>>

\* Mutant: an exception is reported as an end.
EndReported(o) == "confirmed-finished"

\* The state run() reports.
StateReported(o) ==
    IF collector[o] = "returned" THEN "confirmed-finished" ELSE "outcome-unknown"

RunReports(o, outcome) ==
    /\ collector[o] \in {"returned", "raised"}
    /\ outcome.state = StateReported(o)
    /\ RecordResult(o, outcome)
    /\ collector' = [collector EXCEPT ![o] = "over"]
    /\ UNCHANGED source

\* The worker dies, or record_result raises: the database is busy, or the operation was
\* reconciled first.  Nothing is recorded and the source is not told.
RunStops(o) ==
    /\ collector[o] \in {"begun", "calling", "returned", "raised"}
    /\ collector' = [collector EXCEPT ![o] = "over"]
    /\ UNCHANGED <<vars, source>>

-----------------------------------------------------------------------------
(* The source and the reconciler                                           *)

\* The source ends the work, finished or terminated, whoever still waits for it.
WorkEnds(o) ==
    /\ source[o] = "running"
    /\ source' = [source EXCEPT ![o] = "ended"]
    /\ UNCHANGED <<vars, collector>>

\* reconcile takes its caller's word.  The caller has looked at the source and found no
\* work of o; whether it also made sure of the worker is CollectorChecked.
Confirmable(o) ==
    /\ source[o] # "running"
    /\ CollectorChecked => collector[o] = "over"

Reconciled(o, confirmed) ==
    /\ Confirmable(o)
    /\ Reconcile(o, confirmed)
    /\ UNCHANGED <<collector, source>>

-----------------------------------------------------------------------------

\* The controller's other handlers.  The runtime sends no heartbeats.
OtherHandler ==
    \/ \E o \in Ops, r \in Requests, t \in Readings : Submit(o, r, t)
    \/ \E o \in DOMAIN operation : TryAdmitQueued(o)
    \/ \E o \in DOMAIN operation : RequestCancellation(o)
    \/ \E t \in Readings : ExpireLeases(t)

RunStep ==
    \/ \E o \in DOMAIN operation, t \in Readings, s \in Leases : RunBegins(o, t, s)
    \/ \E o \in DOMAIN operation, outcome \in Outcomes : RunReports(o, outcome)
    \/ \E o \in Ops :
          HandlerCalls(o) \/ HandlerReturns(o) \/ HandlerRaises(o) \/ RunStops(o)

ExecNext ==
    \/ RunStep
    \/ \E o \in Ops : WorkEnds(o)
    \/ \E o \in DOMAIN operation, c \in ConfirmedStates : Reconciled(o, c)
    \/ (OtherHandler \/ EnvironmentStep) /\ UNCHANGED <<collector, source>>

ExecSpec == ExecInit /\ [][ExecNext]_execVars

-----------------------------------------------------------------------------
(* What the slots are for                                                  *)

\* The work that runs at the source.
AtSource(g) ==
    {o \in DOMAIN operation : source[o] = "running" /\ g \in operation[o].request.groups}

\* No group's source ever runs more work at once than the group's policy allows, through
\* worker crashes, lost results, lease expiry, cancellation and reconciliation
\* (contracts/acceptance.yaml SOURCE-02 and SOURCE-03).
SourceWithinCapacity ==
    \A g \in Groups : Cardinality(AtSource(g)) <= Policy[g].maxActive

\* Once the table says that an execution was confirmed to have ended, nothing of it runs at
\* the source and no worker is about to start it.
ConfirmedHasEnded ==
    \A o \in DOMAIN operation :
        operation[o].state \in ConfirmedStates
            => source[o] # "running" /\ collector[o] \notin {"begun", "calling"}

WorkEndedStaysEnded == \A o \in Ops : source[o] = "ended" => source'[o] = "ended"

\* One permit starts work at the source once: after the work has ended, no replayed permit,
\* crash or late worker starts it again.
NeverRestarts == [][WorkEndedStaysEnded]_execVars

-----------------------------------------------------------------------------
(* Liveness                                                                *)

\* The source's work ends, the lease sweep runs and the reconciler asks again until it can
\* tell.  No worker is bound to do anything.
ExecFairness ==
    /\ WF_execVars(Tick /\ UNCHANGED <<collector, source>>)
    /\ WF_execVars((\E t \in Readings : ExpireLeases(t)) /\ UNCHANGED <<collector, source>>)
    /\ \A o \in Ops : WF_execVars(WorkEnds(o))
    /\ \A o \in Ops : WF_execVars(/\ o \in DOMAIN operation
                                  /\ \E c \in ConfirmedStates : Reconciled(o, c))

FairExecSpec == ExecSpec /\ ExecFairness

\* A worker that dies, or cannot record its result, holds its slot only until the end of its
\* work at the source is confirmed.
AbandonedWorkSettles ==
    \A o \in Ops : (collector[o] = "over") ~> InState(o, TerminalStates)

=============================================================================
