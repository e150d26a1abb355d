----------------------- MODULE SourceExecution_proofs -----------------------
(***************************************************************************)
(* What the controller's guarantees mean at the source, for every set of   *)
(* operations, groups, requests and policies.                              *)
(***************************************************************************)
EXTENDS SourceExecution, WorkloadController_proofs

-----------------------------------------------------------------------------
(* The workers and the controller's specification                          *)

\* Every step of the composed system is a step of the controller, or none of its tables
\* change.
LEMMA ExecNextIsNext ==
    ASSUME [ExecNext]_execVars
    PROVE  [Next]_vars
  <1>1. CASE RunStep
    <2>1. CASE \E o \in DOMAIN operation, t \in Readings, s \in Leases : RunBegins(o, t, s)
      BY <2>1 DEF RunBegins, Next, ControllerStep
    <2>2. CASE \E o \in DOMAIN operation, outcome \in Outcomes : RunReports(o, outcome)
      BY <2>2 DEF RunReports, Next, ControllerStep
    <2>3. CASE \E o \in Ops :
                  HandlerCalls(o) \/ HandlerReturns(o) \/ HandlerRaises(o) \/ RunStops(o)
      BY <2>3 DEF HandlerCalls, HandlerReturns, HandlerRaises, RunStops
    <2> QED
      BY <1>1, <2>1, <2>2, <2>3 DEF RunStep
  <1>2. CASE \E o \in Ops : WorkEnds(o)
    BY <1>2 DEF WorkEnds
  <1>3. CASE \E o \in DOMAIN operation, c \in ConfirmedStates : Reconciled(o, c)
    BY <1>3 DEF Reconciled, Next, ControllerStep
  <1>4. CASE OtherHandler
    BY <1>4 DEF OtherHandler, Next, ControllerStep
  <1>5. CASE EnvironmentStep
    BY <1>5 DEF Next
  <1>6. CASE UNCHANGED execVars
    BY <1>6 DEF execVars, vars
  <1> QED
    BY <1>1, <1>2, <1>3, <1>4, <1>5, <1>6 DEF ExecNext

\* The workers use the controller as it is specified, so everything proved of the
\* controller holds of the composed system.
THEOREM ExecutionUsesController == ExecSpec => Spec
  <1>1. ExecInit => Init
    BY DEF ExecInit
  <1>2. [ExecNext]_execVars => [Next]_vars
    BY ExecNextIsNext
  <1> QED
    BY <1>1, <1>2, PTL DEF ExecSpec, Spec

-----------------------------------------------------------------------------
(* Types                                                                   *)

\* Workers and work at the source keep their types, whoever reconciles and on what evidence.
LEMMA WorkersKeepTypes ==
    ASSUME TypeOK', ExecTypeOK, [ExecNext]_execVars
    PROVE  ExecTypeOK'
  <1>1. CASE \E o \in DOMAIN operation, t \in Readings, s \in Leases : RunBegins(o, t, s)
    BY <1>1 DEF ExecTypeOK, RunBegins, CollectorPhase
  <1>2. CASE \E o \in DOMAIN operation, outcome \in Outcomes : RunReports(o, outcome)
    BY <1>2 DEF ExecTypeOK, RunReports, CollectorPhase
  <1>3. CASE \E o \in Ops :
                HandlerCalls(o) \/ HandlerReturns(o) \/ HandlerRaises(o) \/ RunStops(o)
    BY <1>3 DEF ExecTypeOK, HandlerCalls, HandlerReturns, HandlerRaises, RunStops, CollectorPhase
  <1>4. CASE \E o \in Ops : WorkEnds(o)
    BY <1>4 DEF ExecTypeOK, WorkEnds
  <1>5. CASE UNCHANGED <<collector, source>>
    BY <1>5 DEF ExecTypeOK
  <1> QED
    BY <1>1, <1>2, <1>3, <1>4, <1>5 DEF ExecNext, RunStep, Reconciled, execVars

\* The composed system keeps its types, with and without a reconciler that makes sure of the
\* worker.
THEOREM ExecTypeCorrect == ExecSpec => []ExecTypeOK
  <1>1. ExecInit => ExecTypeOK
    BY InitIInv DEF ExecInit, ExecTypeOK, IInv, CollectorPhase
  <1>2. TypeOK' /\ ExecTypeOK /\ [ExecNext]_execVars => ExecTypeOK'
    BY WorkersKeepTypes
  <1>3. ExecSpec => []TypeOK
    BY ExecutionUsesController, TypeCorrect, PTL
  <1> QED
    BY <1>1, <1>2, <1>3, PTL DEF ExecSpec

-----------------------------------------------------------------------------
(* The inductive invariant                                                 *)

\* The states of an operation whose source work may be running or about to run.
BegunStates == {"executing", "cancel-requested", "outcome-unknown"}

\* A worker has the operation only once its permit is consumed, and there is work at the
\* source only between the worker's first call and the end of the work.
WorkerInv(o) ==
    /\ collector[o] = "idle" \/ (o \in DOMAIN operation /\ operation[o].attempts > 0)
    /\ collector[o] \in {"idle", "begun"} => source[o] = "none"
    /\ collector[o] = "returned" => source[o] = "ended"

\* Work that runs, or that a worker is about to start, belongs to a row whose outcome is
\* open.
OpenInv(o) ==
    source[o] = "running" \/ collector[o] \in {"begun", "calling"}
        => o \in DOMAIN operation /\ operation[o].state \in BegunStates

\* The strengthening: the slots alone say nothing of the workers that hold them.
ExecInv ==
    /\ IInv
    /\ ExecTypeOK
    /\ \A o \in Ops : WorkerInv(o) /\ OpenInv(o)

\* What a row may become in a step that leaves the workers alone: its attempts stay, and a
\* begun row with an open outcome keeps one.
RowsFollow ==
    /\ DOMAIN operation \subseteq DOMAIN operation'
    /\ \A q \in DOMAIN operation :
          /\ operation'[q].attempts = operation[q].attempts
          /\ operation[q].state \in BegunStates => operation'[q].state \in BegunStates

\* Such a step keeps the workers' part of the invariant.
LEMMA WorkersKept ==
    ASSUME ExecInv, RowsFollow, UNCHANGED <<collector, source>>
    PROVE  \A o \in Ops : WorkerInv(o)' /\ OpenInv(o)'
    BY DEF ExecInv, RowsFollow, WorkerInv, OpenInv

\* Admission writes no begun row.
LEMMA ReserveFollows ==
    ASSUME NEW table, NEW o \in DOMAIN table, NEW t, Reserve(table, o, t),
           table \in [DOMAIN table -> OperationRow],
           table[o].state \notin BegunStates,
           DOMAIN operation \subseteq DOMAIN table,
           \A q \in DOMAIN operation : table[q] = operation[q]
    PROVE  RowsFollow
  <1> DEFINE r == table[o].request
  <1>1. PICK newest \in {group[g].generation : g \in r.groups},
             expires \in {t + Policy[g].permitTtl : g \in r.groups} \cup {r.deadline} :
          operation' = [table EXCEPT ![o].state = "reserved",
                                     ![o].slotCharged = TRUE,
                                     ![o].generation = newest + 1,
                                     ![o].permitExpires = expires]
    BY DEF Reserve
  <1>2. DOMAIN operation' = DOMAIN table
    BY <1>1
  <1>3. \A q \in DOMAIN table :
          /\ operation'[q].attempts = table[q].attempts
          /\ q # o => operation'[q].state = table[q].state
    BY <1>1 DEF OperationRow
  <1> QED
    BY <1>2, <1>3 DEF RowsFollow

\* submit leaves every other row as it is.
LEMMA SubmitFollows ==
    ASSUME TypeOK, NEW o \in Ops, NEW r \in Requests, NEW t \in Readings, Submit(o, r, t)
    PROVE  RowsFollow
  <1> DEFINE table == Inserted(o, r, t)
  <1>1. t \in Nat
    BY ReadingType
  <1>2. o \notin DOMAIN operation
    BY DEF Submit
  <1>3. DOMAIN table = DOMAIN operation \cup {o} /\ table \in [DOMAIN table -> OperationRow]
    BY <1>1, InsertedType
  <1>4. /\ table[o].state \notin BegunStates
        /\ \A q \in DOMAIN operation : table[q] = operation[q]
    BY <1>2 DEF Inserted, QueuedRow, BegunStates
  <1>5. CASE Reserve(table, o, t)
    BY <1>3, <1>4, <1>5, ReserveFollows
  <1>6. CASE operation' = table
    BY <1>3, <1>4, <1>6 DEF RowsFollow
  <1> QED
    BY <1>5, <1>6 DEF Submit

\* Every handler that no worker calls leaves the workers' rows begun and open.
LEMMA OtherHandlerFollows ==
    ASSUME ExecInv, OtherHandler
    PROVE  RowsFollow
  <1>0. TypeOK /\ operation \in [DOMAIN operation -> OperationRow]
    BY DEF ExecInv, ExecTypeOK, TypeOK
  <1>1. CASE \E o \in Ops, r \in Requests, t \in Readings : Submit(o, r, t)
    BY <1>0, <1>1, SubmitFollows
  <1>2. ASSUME NEW o \in DOMAIN operation, TryAdmitQueued(o)
        PROVE  RowsFollow
    <2>1. Reserve(operation, o, now) /\ operation[o].state \notin BegunStates
      BY <1>2 DEF TryAdmitQueued, BegunStates
    <2> QED
      BY <1>0, <2>1, ReserveFollows
  <1>3. ASSUME NEW o \in DOMAIN operation, RequestCancellation(o)
        PROVE  RowsFollow
    <2>1. operation' = [operation EXCEPT ![o].state = "cancel-requested"]
      BY <1>3 DEF RequestCancellation
    <2> QED
      BY <1>0, <2>1 DEF RowsFollow, BegunStates, OperationRow
  <1>4. ASSUME NEW t \in Readings, ExpireLeases(t)
        PROVE  RowsFollow
    <2>1. operation' = [q \in DOMAIN operation |->
                           IF LeaseExpired(q, t) THEN Lost(operation[q]) ELSE operation[q]]
      BY <1>4 DEF ExpireLeases
    <2> QED
      BY <1>0, <2>1 DEF RowsFollow, BegunStates, OperationRow, Lost
  <1> QED
    BY <1>1, <1>2, <1>3, <1>4 DEF OtherHandler

-----------------------------------------------------------------------------
(* Preservation                                                            *)

\* begin_execution by a worker: the row was never begun, so nothing of it is at the source.
LEMMA RunBeginsStep ==
    ASSUME ExecInv, NEW o \in DOMAIN operation, NEW t \in Readings, NEW s \in Leases,
           RunBegins(o, t, s)
    PROVE  \A q \in Ops : WorkerInv(q)' /\ OpenInv(q)'
  <1>0. /\ operation \in [DOMAIN operation -> OperationRow]
        /\ collector \in [Ops -> CollectorPhase]
        /\ o \in Ops
    BY DEF ExecInv, ExecTypeOK, TypeOK
  <1>1. operation[o].state = "reserved"
    BY DEF RunBegins, BeginExecution, PermitUsable
  <1>2. operation[o].attempts = 0
    BY <1>1 DEF ExecInv, IInv, PermitUsedOnce
  <1>3. collector[o] = "idle" /\ source[o] = "none"
    BY <1>0, <1>2 DEF ExecInv, WorkerInv
  <1>4. /\ operation' = [operation EXCEPT ![o].state = "executing",
                                          ![o].attempts = @ + 1,
                                          ![o].lease = t + s]
        /\ collector' = [collector EXCEPT ![o] = "begun"]
        /\ source' = source
    BY DEF RunBegins, BeginExecution
  <1>5. /\ DOMAIN operation' = DOMAIN operation
        /\ operation'[o].state = "executing"
        /\ operation'[o].attempts = operation[o].attempts + 1
        /\ \A q \in DOMAIN operation : q # o => operation'[q] = operation[q]
    BY <1>0, <1>4 DEF OperationRow
  <1>6. collector'[o] = "begun" /\ \A q \in Ops : q # o => collector'[q] = collector[q]
    BY <1>0, <1>4
  <1>7. WorkerInv(o)' /\ OpenInv(o)'
    BY <1>0, <1>2, <1>3, <1>4, <1>5, <1>6 DEF WorkerInv, OpenInv, BegunStates
  <1>8. ASSUME NEW q \in Ops, q # o
        PROVE  WorkerInv(q)' /\ OpenInv(q)'
    BY <1>4, <1>5, <1>6, <1>8 DEF ExecInv, WorkerInv, OpenInv
  <1> QED
    BY <1>7, <1>8

\* record_result by a worker: work that is not known to have ended keeps an open outcome.
LEMMA RunReportsStep ==
    ASSUME ExecInv, NEW o \in DOMAIN operation, NEW outcome \in Outcomes,
           RunReports(o, outcome)
    PROVE  \A q \in Ops : WorkerInv(q)' /\ OpenInv(q)'
  <1>0. /\ operation \in [DOMAIN operation -> OperationRow]
        /\ collector \in [Ops -> CollectorPhase]
        /\ o \in Ops
    BY DEF ExecInv, ExecTypeOK, TypeOK
  <1>1. /\ operation' = [operation EXCEPT ![o].state = outcome.state,
                                          ![o].slotCharged = KeepsSlot(outcome),
                                          ![o].result = outcome]
        /\ operation[o].attempts > 0
        /\ collector' = [collector EXCEPT ![o] = "over"]
        /\ source' = source
    BY DEF RunReports, RecordResult, ResultAccepted
  <1>2. /\ DOMAIN operation' = DOMAIN operation
        /\ operation'[o].state = outcome.state
        /\ operation'[o].attempts = operation[o].attempts
        /\ \A q \in DOMAIN operation : q # o => operation'[q] = operation[q]
    BY <1>0, <1>1 DEF OperationRow
  <1>3. collector'[o] = "over" /\ \A q \in Ops : q # o => collector'[q] = collector[q]
    BY <1>0, <1>1
  <1>4. source[o] = "running" => outcome.state = "outcome-unknown"
    BY <1>0 DEF RunReports, StateReported, ExecInv, WorkerInv
  <1>5. WorkerInv(o)' /\ OpenInv(o)'
    BY <1>1, <1>2, <1>3, <1>4 DEF WorkerInv, OpenInv, BegunStates
  <1>6. ASSUME NEW q \in Ops, q # o
        PROVE  WorkerInv(q)' /\ OpenInv(q)'
    BY <1>1, <1>2, <1>3, <1>6 DEF ExecInv, WorkerInv, OpenInv
  <1> QED
    BY <1>5, <1>6

\* The worker's and the source's own steps.
LEMMA WorkerStep ==
    ASSUME ExecInv, NEW o \in Ops,
           \/ HandlerCalls(o) \/ HandlerReturns(o) \/ HandlerRaises(o) \/ RunStops(o)
           \/ WorkEnds(o)
    PROVE  /\ \A q \in Ops : WorkerInv(q)' /\ OpenInv(q)'
           /\ collector' \in [Ops -> CollectorPhase]
           /\ source' \in [Ops -> {"none", "running", "ended"}]
  <1>0. /\ operation' = operation
        /\ collector \in [Ops -> CollectorPhase]
        /\ source \in [Ops -> {"none", "running", "ended"}]
    BY DEF ExecInv, ExecTypeOK, HandlerCalls, HandlerReturns, HandlerRaises, RunStops,
           WorkEnds, vars
  <1>1. \A q \in Ops : WorkerInv(q) /\ OpenInv(q)
    BY DEF ExecInv
  <1>2. CASE HandlerCalls(o)
    BY <1>0, <1>1, <1>2 DEF HandlerCalls, CollectorPhase, WorkerInv, OpenInv
  <1>3. CASE HandlerReturns(o)
    BY <1>0, <1>1, <1>3 DEF HandlerReturns, CollectorPhase, WorkerInv, OpenInv
  <1>4. CASE HandlerRaises(o)
    BY <1>0, <1>1, <1>4 DEF HandlerRaises, CollectorPhase, WorkerInv, OpenInv
  <1>5. CASE RunStops(o)
    BY <1>0, <1>1, <1>5 DEF RunStops, CollectorPhase, WorkerInv, OpenInv
  <1>6. CASE WorkEnds(o)
    BY <1>0, <1>1, <1>6 DEF WorkEnds, WorkerInv, OpenInv
  <1> QED
    BY <1>2, <1>3, <1>4, <1>5, <1>6

\* reconcile, by a caller that knows the worker is gone and the source quiet: nothing of
\* the operation is left to keep its outcome open.
LEMMA ReconciledStep ==
    ASSUME ExecInv, CollectorChecked, NEW o \in DOMAIN operation,
           NEW confirmed \in ConfirmedStates, Reconciled(o, confirmed)
    PROVE  \A q \in Ops : WorkerInv(q)' /\ OpenInv(q)'
  <1>0. operation \in [DOMAIN operation -> OperationRow]
    BY DEF ExecInv, ExecTypeOK, TypeOK
  <1>1. /\ operation' = [operation EXCEPT ![o].state = confirmed, ![o].slotCharged = FALSE]
        /\ UNCHANGED <<collector, source>>
        /\ source[o] # "running" /\ collector[o] = "over"
    BY DEF Reconciled, Reconcile, Confirmable
  <1>2. /\ DOMAIN operation' = DOMAIN operation
        /\ operation'[o].attempts = operation[o].attempts
        /\ \A q \in DOMAIN operation : q # o => operation'[q] = operation[q]
    BY <1>0, <1>1 DEF OperationRow
  <1> QED
    BY <1>1, <1>2 DEF ExecInv, WorkerInv, OpenInv

\* The initial state satisfies the invariant.
LEMMA InitExecInv ==
    ASSUME ExecInit
    PROVE  ExecInv
  <1>1. IInv
    BY InitIInv DEF ExecInit
  <1>2. ExecTypeOK
    BY <1>1 DEF ExecInit, ExecTypeOK, CollectorPhase, IInv
  <1>3. \A o \in Ops : WorkerInv(o) /\ OpenInv(o)
    BY DEF ExecInit, WorkerInv, OpenInv
  <1> QED
    BY <1>1, <1>2, <1>3 DEF ExecInv

\* The types of the workers' and the source's state are kept.
LEMMA ExecTypeKept ==
    ASSUME ExecInv, [ExecNext]_execVars
    PROVE  /\ collector' \in [Ops -> CollectorPhase]
           /\ source' \in [Ops -> {"none", "running", "ended"}]
  <1>0. /\ collector \in [Ops -> CollectorPhase]
        /\ source \in [Ops -> {"none", "running", "ended"}]
    BY DEF ExecInv, ExecTypeOK
  <1>1. CASE UNCHANGED <<collector, source>>
    BY <1>0, <1>1
  <1>2. ASSUME NEW o, \/ \E t \in Readings, s \in Leases : RunBegins(o, t, s)
                      \/ \E outcome \in Outcomes : RunReports(o, outcome)
        PROVE  /\ collector' \in [Ops -> CollectorPhase]
               /\ source' \in [Ops -> {"none", "running", "ended"}]
    BY <1>0, <1>2 DEF RunBegins, RunReports, CollectorPhase
  <1>3. ASSUME NEW o \in Ops,
               \/ HandlerCalls(o) \/ HandlerReturns(o) \/ HandlerRaises(o) \/ RunStops(o)
               \/ WorkEnds(o)
        PROVE  /\ collector' \in [Ops -> CollectorPhase]
               /\ source' \in [Ops -> {"none", "running", "ended"}]
    BY <1>3, WorkerStep
  <1> QED
    BY <1>1, <1>2, <1>3 DEF ExecNext, RunStep, Reconciled, execVars

\* Every step of the composed system keeps the invariant.
LEMMA NextExecInv ==
    ASSUME ExecInv, CollectorChecked, [ExecNext]_execVars
    PROVE  ExecInv'
  <1>1. IInv'
    BY ExecNextIsNext, NextIInv DEF ExecInv
  <1>2. ExecTypeOK'
    BY <1>1, ExecTypeKept DEF ExecTypeOK, IInv
  <1>3. \A q \in Ops : WorkerInv(q)' /\ OpenInv(q)'
    <2>1. CASE \E o \in DOMAIN operation, t \in Readings, s \in Leases : RunBegins(o, t, s)
      BY <2>1, RunBeginsStep
    <2>2. CASE \E o \in DOMAIN operation, outcome \in Outcomes : RunReports(o, outcome)
      BY <2>2, RunReportsStep
    <2>3. CASE \E o \in Ops :
                  \/ HandlerCalls(o) \/ HandlerReturns(o) \/ HandlerRaises(o) \/ RunStops(o)
                  \/ WorkEnds(o)
      BY <2>3, WorkerStep
    <2>4. CASE \E o \in DOMAIN operation, c \in ConfirmedStates : Reconciled(o, c)
      BY <2>4, ReconciledStep
    <2>5. CASE OtherHandler /\ UNCHANGED <<collector, source>>
      BY <2>5, OtherHandlerFollows, WorkersKept
    <2>6. CASE EnvironmentStep /\ UNCHANGED <<collector, source>>
      <3>1. operation' = operation
        BY <2>6 DEF EnvironmentStep, PauseRun, ResumeRun, CloseRun, Tick
      <3> QED
        BY <2>6, <3>1, WorkersKept DEF RowsFollow
    <2>7. CASE UNCHANGED execVars
      BY <2>7, WorkersKept DEF RowsFollow, execVars
    <2> QED
      BY <2>1, <2>2, <2>3, <2>4, <2>5, <2>6, <2>7 DEF ExecNext, RunStep
  <1> QED
    BY <1>1, <1>2, <1>3 DEF ExecInv

-----------------------------------------------------------------------------
(* What the slots are for                                                  *)

\* The work that runs at a source belongs to operations that hold slots of its group.
LEMMA RunningIsCharged ==
    ASSUME ExecInv, NEW g \in Groups
    PROVE  AtSource(g) \subseteq Charged(operation, g)
  <1>1. DOMAIN operation \subseteq Ops
    BY DEF ExecInv, ExecTypeOK, TypeOK
  <1>2. ASSUME NEW o \in AtSource(g)
        PROVE  o \in Charged(operation, g)
    <2>1. o \in DOMAIN operation /\ source[o] = "running" /\ g \in operation[o].request.groups
      BY <1>2 DEF AtSource
    <2>2. operation[o].state \in BegunStates
      BY <1>1, <2>1 DEF ExecInv, OpenInv
    <2>3. operation[o].slotCharged
      BY <2>1, <2>2 DEF ExecInv, IInv, ChargedWhileUncertain, BegunStates, ActiveStates
    <2> QED
      BY <2>1, <2>3 DEF Charged
  <1> QED
    BY <1>2

\* The work at a source is within the capacity of the slots.
LEMMA InvariantBoundsWork ==
    ASSUME ExecInv
    PROVE  SourceWithinCapacity
  <1> SUFFICES ASSUME NEW g \in Groups
               PROVE  Cardinality(AtSource(g)) <= Policy[g].maxActive
    BY DEF SourceWithinCapacity
  <1>1. DOMAIN operation \subseteq Ops /\ Cardinality(Charged(operation, g)) <= Policy[g].maxActive
    BY DEF ExecInv, IInv, TypeOK, CapacityRespected
  <1>2. IsFiniteSet(Charged(operation, g)) /\ Cardinality(Charged(operation, g)) \in Nat
    BY <1>1, ChargedFinite
  <1>3. /\ Cardinality(AtSource(g)) \in Nat
        /\ Cardinality(AtSource(g)) <= Cardinality(Charged(operation, g))
    BY <1>2, RunningIsCharged, FS_Subset, FS_CardinalityType
  <1>4. Policy[g].maxActive \in Nat
    BY PolicyAssumption DEF SourcePolicy
  <1> QED
    BY <1>1, <1>2, <1>3, <1>4

\* With a reconciler that confirms an end only when the source shows none of the work and
\* the worker is gone, the invariant always holds.
THEOREM ExecInvariance ==
    ASSUME CollectorChecked
    PROVE  ExecSpec => []ExecInv
  <1>1. ExecInit => ExecInv
    BY InitExecInv
  <1>2. ExecInv /\ [ExecNext]_execVars => ExecInv'
    BY NextExecInv
  <1> QED
    BY <1>1, <1>2, PTL DEF ExecSpec

\* Given such a reconciler, no number of workers, crashes, lost results and expired leases
\* makes a source run more work at once than its policy allows.
THEOREM SourceIsWithinCapacity ==
    ASSUME CollectorChecked
    PROVE  ExecSpec => []SourceWithinCapacity
  <1>1. ExecInv => SourceWithinCapacity
    BY InvariantBoundsWork
  <1> QED
    BY <1>1, ExecInvariance, PTL

\* Given such a reconciler, a confirmed end is one at the source, and no worker is about to
\* contradict it.
THEOREM ConfirmedEndsAreReal ==
    ASSUME CollectorChecked
    PROVE  ExecSpec => []ConfirmedHasEnded
  <1>1. ExecInv => ConfirmedHasEnded
    BY DEF ExecInv, ExecTypeOK, TypeOK, OpenInv, ConfirmedHasEnded, ConfirmedStates,
           BegunStates
  <1> QED
    BY <1>1, ExecInvariance, PTL

\* Given such a reconciler, work that has ended at the source is never started again.
THEOREM WorkStartsOnce ==
    ASSUME CollectorChecked
    PROVE  ExecSpec => NeverRestarts
  <1>1. ASSUME ExecInv, [ExecNext]_execVars, NEW o \in Ops, source[o] = "ended"
        PROVE  source'[o] = "ended"
    <2>0. source \in [Ops -> {"none", "running", "ended"}] /\ collector[o] # "begun"
      BY <1>1 DEF ExecInv, ExecTypeOK, WorkerInv
    <2>1. ASSUME NEW q \in Ops, HandlerCalls(q) \/ WorkEnds(q)
          PROVE  source'[o] = "ended"
      BY <1>1, <2>0, <2>1 DEF HandlerCalls, WorkEnds
    <2>2. (\A q \in Ops : ~HandlerCalls(q) /\ ~WorkEnds(q)) => UNCHANGED source
      BY <1>1 DEF ExecNext, RunStep, RunBegins, RunReports, HandlerReturns, HandlerRaises,
                  RunStops, Reconciled, execVars
    <2> QED
      BY <1>1, <2>1, <2>2
  <1>2. ExecInv /\ [ExecNext]_execVars => [WorkEndedStaysEnded]_execVars
    BY <1>1 DEF WorkEndedStaysEnded
  <1> QED
    BY <1>2, ExecInvariance, PTL DEF ExecSpec, NeverRestarts

=============================================================================
