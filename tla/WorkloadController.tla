------------------------- MODULE WorkloadController -------------------------
(***************************************************************************)
(* The durable admission and permit service of                             *)
(* src/backend/src/reweft/source_control/controller.py.                    *)
(*                                                                         *)
(* Every handler of the code is one BEGIN IMMEDIATE transaction, so every  *)
(* handler is one atomic action here; a handler that raises is rolled back *)
(* and therefore is no step at all.  What is NOT atomic is the clock: most *)
(* handlers read it before they wait for the write lock, so an action is   *)
(* given a reading t that may be up to MaxLag ticks old when it takes      *)
(* effect (Readings).                                                      *)
(***************************************************************************)
EXTENDS Integers, FiniteSets, FiniteSetsExt

CONSTANTS
    Ops,        \* the identifiers uuid4 may draw for source_operations rows
    Groups,     \* resource_groups.id; numbers, because the code sorts them
    Runs,       \* assessments.id
    Requests,   \* the EvidenceRequests _resolve_alias lets through
    Policy,     \* Policy[g]: the SourcePolicy of group g
    Outcomes,   \* the OperationResults a collector may report
    Leases,     \* the lease_seconds begin_execution and heartbeat are given
    DayLength,  \* ticks in a day, for the permitted window
    MaxLag,     \* bound: ticks between a handler's clock reading and its effect
    MaxTime     \* bound: the last instant modelled

\* domain/models.py EvidenceRequest: what admission reads of a request.
EvidenceRequest ==
    [workspace : STRING, run : Runs, idempotencyKey : STRING, fingerprint : STRING,
     groups : SUBSET Groups, costClass : STRING, bytes : Nat, pages : Nat,
     seconds : Nat, policyVersion : Nat, deadline : Nat]

\* domain/models.py SourcePolicy; zone is the offset of its timezone, zoneKnown whether
\* ZoneInfo knows it.
SourcePolicy ==
    [maxActive : Nat \ {0}, minInterval : Nat, permitTtl : Nat, maxBytes : Nat,
     maxPages : Nat, requestDeadline : Nat, maxRunBytes : Nat, maxRunOps : Nat,
     profiling : BOOLEAN, hoursStart : Nat, hoursEnd : Nat, zone : Nat,
     zoneKnown : BOOLEAN]

SourceExecutionState ==
    {"queued", "reserved", "dispatched", "executing", "cancel-requested",
     "confirmed-finished", "confirmed-cancelled", "outcome-unknown", "rejected"}

ActiveStates ==
    {"reserved", "dispatched", "executing", "cancel-requested", "outcome-unknown"}

TerminalStates == {"confirmed-finished", "confirmed-cancelled", "rejected"}

\* The states record_result accepts and, of these, the ones reconcile accepts.
ConfirmedStates == {"confirmed-finished", "confirmed-cancelled"}
ResultStates == ConfirmedStates \cup {"outcome-unknown"}

\* domain/models.py OperationResult: its source_execution_state and actual_usage.
OperationResult == [state : ResultStates, bytes : Nat]

\* result_json IS NULL: it adds nothing to the bytes a run has used.
NoResult == [state |-> "none", bytes |-> 0]

\* last_admitted_at IS NULL.
Never == -1

\* policy_version: inserted as 1 and updated by no handler.
PolicyVersion == 1

ASSUME OpsAssumption == IsFiniteSet(Ops)
ASSUME GroupsAssumption == Groups \subseteq Nat
ASSUME RequestsAssumption ==
    /\ Requests \subseteq EvidenceRequest
    /\ \A r \in Requests : r.groups # {}
ASSUME PolicyAssumption == Policy \in [Groups -> SourcePolicy]
ASSUME OutcomesAssumption == Outcomes \subseteq OperationResult
ASSUME TimeAssumption ==
    /\ Leases \subseteq Nat
    /\ MaxLag \in Nat
    /\ MaxTime \in Nat
    /\ DayLength \in Nat \ {0}

VARIABLES
    now,        \* the wall clock, _now()
    runState,   \* runState[r]: whether run r admits source work
    operation,  \* the table source_operations: a function on the inserted ids
    group       \* group[g]: fencing_generation and last_admitted_at of g

vars == <<now, runState, operation, group>>

\* One row of source_operations.  attempts is attempt_count, and names the attempt:
\* attempt_id is set exactly when it is raised.
OperationRow ==
    [request : Requests, state : SourceExecutionState, queuedAt : Nat,
     slotCharged : BOOLEAN, generation : Nat, permitExpires : Nat, attempts : Nat,
     lease : Nat, result : Outcomes \cup {NoResult}]

\* The type of the database: rows and groups hold what the schema of
\* persistence/database.py and the code's column updates allow.
TypeOK ==
    /\ now \in 0..MaxTime
    /\ runState \in [Runs -> {"open", "paused", "closed"}]
    /\ DOMAIN operation \subseteq Ops
    /\ operation \in [DOMAIN operation -> OperationRow]
    /\ group \in [Groups -> [generation : Nat, lastAdmitted : Nat \cup {Never}]]

Init ==
    /\ now = 0
    /\ runState = [r \in Runs |-> "open"]
    /\ operation = [o \in {} |-> NoResult]
    /\ group = [g \in Groups |-> [generation |-> 0, lastAdmitted |-> Never]]

\* The values _now() may have returned to a handler whose transaction starts now.
Readings == {t \in 0..now : now - t <= MaxLag}

-----------------------------------------------------------------------------
(* Admission: _try_admit_locked, over the table it sees in its transaction *)

\* Mutant: a tie in queued_at makes two operations wait for each other.
AwaitsEarlierOrEqual(table, o) ==
    \E q \in DOMAIN table \ {o} :
        /\ table[q].state = "queued"
        /\ table[q].queuedAt <= table[o].queuedAt
        /\ table[q].request.groups \cap table[o].request.groups # {}

\* An earlier queued operation that names one of o's groups holds o back.
AwaitsEarlier(table, o) ==
    \E q \in DOMAIN table :
        /\ table[q].state = "queued"
        /\ table[q].queuedAt < table[o].queuedAt
        /\ table[q].request.groups \cap table[o].request.groups # {}

\* The operations that hold a slot in group g.
Charged(table, g) ==
    {o \in DOMAIN table : table[o].slotCharged /\ g \in table[o].request.groups}

\* Mutant: an unknown outcome is not counted as active.
CapacityTakenByKnown(table, g) ==
    Cardinality({o \in Charged(table, g) : table[o].state # "outcome-unknown"})
        >= Policy[g].maxActive

CapacityTaken(table, g) == Cardinality(Charged(table, g)) >= Policy[g].maxActive

\* Mutant: the interval is checked against a fresh clock, the admission is stamped with t.
TooSoonNow(g, t) ==
    /\ group[g].lastAdmitted # Never
    /\ now < group[g].lastAdmitted + Policy[g].minInterval

TooSoon(g, t) ==
    /\ group[g].lastAdmitted # Never
    /\ t < group[g].lastAdmitted + Policy[g].minInterval

LocalHour(g, t) == (t + Policy[g].zone) % DayLength

OutsideWindow(g, t) ==
    ~(Policy[g].hoursStart <= LocalHour(g, t) /\ LocalHour(g, t) < Policy[g].hoursEnd)

Forbidden(r, g) ==
    \/ r.costClass = "profile" /\ ~Policy[g].profiling
    \/ r.bytes > Policy[g].maxBytes
    \/ r.pages > Policy[g].maxPages
    \/ r.seconds > Policy[g].requestDeadline

\* The rows of r's run and cost class, whatever their state, r's own row among them.
SameBudget(table, r) ==
    {o \in DOMAIN table : /\ table[o].request.run = r.run
                          /\ table[o].request.costClass = r.costClass}

\* The bytes the results of a set of rows report.
BytesOf(table, rows) == MapThenSumSet(LAMBDA o : table[o].result.bytes, rows)

\* Mutant: only operations still charged count against the run's budget.
BudgetExhaustedByCharged(table, r, g) ==
    Cardinality({o \in SameBudget(table, r) : table[o].slotCharged}) >= Policy[g].maxRunOps

\* Mutant: the request's own estimate is not added.
BudgetExhaustedSoFar(table, r, g) ==
    LET used == SameBudget(table, r) IN
        \/ Cardinality(used) >= Policy[g].maxRunOps
        \/ BytesOf(table, used) > Policy[g].maxRunBytes

BudgetExhausted(table, r, g) ==
    LET used == SameBudget(table, r) IN
        \/ Cardinality(used) >= Policy[g].maxRunOps
        \/ BytesOf(table, used) + r.bytes > Policy[g].maxRunBytes

\* What the loop body decides for one group: "wait" leaves the row queued, "refuse"
\* raises an AdmissionError, "clear" goes on to the next group.
GroupVerdict(table, r, g, t) ==
    IF CapacityTaken(table, g) \/ TooSoon(g, t) THEN "wait"
    ELSE IF ~Policy[g].zoneKnown THEN "refuse"
    ELSE IF OutsideWindow(g, t) THEN "wait"
    ELSE IF Forbidden(r, g) THEN "refuse"
    ELSE IF BudgetExhausted(table, r, g) THEN "wait"
    ELSE "clear"

\* Mutant: the loop returns at the first group that is clear.
AnyClear(table, o, t) ==
    \E g \in table[o].request.groups : GroupVerdict(table, table[o].request, g, t) = "clear"

AllClear(table, o, t) ==
    \A g \in table[o].request.groups : GroupVerdict(table, table[o].request, g, t) = "clear"

\* The call raises: the first group in id order that is not clear refuses, or all are
\* clear and the policy revision is stale.
Refused(table, o, t) ==
    LET r == table[o].request IN
        /\ ~AwaitsEarlier(table, o)
        /\ \/ \E g \in r.groups :
                 /\ GroupVerdict(table, r, g, t) = "refuse"
                 /\ \A h \in r.groups : h < g => GroupVerdict(table, r, h, t) = "clear"
           \/ AllClear(table, o, t) /\ r.policyVersion # PolicyVersion

Admitted(table, o, t) ==
    /\ ~AwaitsEarlier(table, o)
    /\ AllClear(table, o, t)
    /\ table[o].request.policyVersion = PolicyVersion

\* Mutant: the fence moves on from the oldest group.
IsOldest(generation, gs) == \A g \in gs : generation <= group[g].generation

\* generation is max(group["fencing_generation"] for group in group_rows).
IsNewest(generation, gs) == \A g \in gs : group[g].generation <= generation

Stamped(g, generation, t) == [generation |-> generation, lastAdmitted |-> t]

\* The permit is signed, the slots are charged and every group's generation moves to one
\* above the newest of them.
Reserve(table, o, t) ==
    LET r == table[o].request IN
    \E newest \in {group[g].generation : g \in r.groups},
       expires \in {t + Policy[g].permitTtl : g \in r.groups} \cup {r.deadline} :
        /\ IsNewest(newest, r.groups)
        /\ \A g \in r.groups : expires <= t + Policy[g].permitTtl
        /\ expires <= r.deadline
        /\ operation' = [table EXCEPT ![o].state = "reserved",
                                      ![o].slotCharged = TRUE,
                                      ![o].generation = newest + 1,
                                      ![o].permitExpires = expires]
        /\ group' = [g \in Groups |-> IF g \in r.groups
                                      THEN Stamped(g, newest + 1, t)
                                      ELSE group[g]]

-----------------------------------------------------------------------------
(* The handlers                                                            *)

QueuedRow(r, t) ==
    [request |-> r, state |-> "queued", queuedAt |-> t, slotCharged |-> FALSE,
     generation |-> 0, permitExpires |-> 0, attempts |-> 0, lease |-> 0,
     result |-> NoResult]

\* The idempotency key was used before: submit hands back that row's decision.
KeyUsed(r) ==
    \E q \in DOMAIN operation :
        /\ operation[q].request.workspace = r.workspace
        /\ operation[q].request.idempotencyKey = r.idempotencyKey

SameEvidence(r) ==
    {q \in DOMAIN operation : /\ operation[q].request.workspace = r.workspace
                              /\ operation[q].request.fingerprint = r.fingerprint}

InFlightStates == ActiveStates \cup {"queued"}

\* Mutant: queued work is not in flight yet.
NoEquivalentActive(r) ==
    \A q \in SameEvidence(r) : operation[q].state \notin ActiveStates

\* The newest row (ORDER BY queued_at DESC LIMIT 1) with r's fingerprint, if any, is not in
\* flight; were it, submit would hand back its decision.  Which of several equally new rows
\* is read is left open.
NoEquivalentInFlight(r) ==
    \/ SameEvidence(r) = {}
    \/ \E q \in SameEvidence(r) :
           /\ \A p \in SameEvidence(r) : operation[p].queuedAt <= operation[q].queuedAt
           /\ operation[q].state \notin InFlightStates

Inserted(o, r, t) ==
    [q \in DOMAIN operation \cup {o} |-> IF q = o THEN QueuedRow(r, t) ELSE operation[q]]

\* submit: the row is inserted as queued and admission is tried in the same transaction;
\* a refusal takes the insert back with it.
Submit(o, r, t) ==
    /\ o \notin DOMAIN operation
    /\ t < r.deadline
    /\ runState[r.run] = "open"
    /\ ~KeyUsed(r)
    /\ NoEquivalentInFlight(r)
    /\ LET table == Inserted(o, r, t) IN
        \/ /\ Admitted(table, o, t)
           /\ Reserve(table, o, t)
        \/ /\ ~Admitted(table, o, t)
           /\ ~Refused(table, o, t)
           /\ operation' = table
           /\ UNCHANGED group
    /\ UNCHANGED <<now, runState>>

\* try_admit_queued: its clock is read inside the transaction.
TryAdmitQueued(o) ==
    /\ operation[o].state = "queued"
    /\ Admitted(operation, o, now)
    /\ Reserve(operation, o, now)
    /\ UNCHANGED <<now, runState>>

\* Mutant: an unexpired permit starts I/O again.
PermitUnexpired(o, t) == operation[o].attempts <= 1 /\ t < operation[o].permitExpires

\* begin_execution accepts the permit.  _verify_signature reads the clock again
\* and refuses an expired token before the transaction, so the branch that would mark the
\* row rejected and free its slot is never reached with a reading that passed (and what it
\* writes is rolled back by the exception it raises): an expired permit changes nothing.
PermitUsable(o, t) ==
    /\ operation[o].state = "reserved"
    /\ t < operation[o].permitExpires

BeginExecution(o, t, seconds) ==
    /\ PermitUsable(o, t)
    /\ t + seconds < MaxTime
    /\ operation' = [operation EXCEPT ![o].state = "executing",
                                      ![o].attempts = @ + 1,
                                      ![o].lease = t + seconds]
    /\ UNCHANGED <<now, runState, group>>

Heartbeat(o, t, seconds) ==
    /\ operation[o].state \in {"executing", "cancel-requested"}
    /\ t + seconds < MaxTime
    /\ operation' = [operation EXCEPT ![o].lease = t + seconds]
    /\ UNCHANGED <<now, runState, group>>

\* Mutant: a late result overwrites a committed one.
AttemptBegun(o) == operation[o].attempts > 0

\* The result comes from the attempt begun for o, and none is committed yet.
ResultAccepted(o) ==
    /\ operation[o].attempts > 0
    /\ operation[o].state \notin TerminalStates

\* Mutant: any recorded result frees the slot.
NeverKeepsSlot(outcome) == FALSE

KeepsSlot(outcome) == outcome.state = "outcome-unknown"

RecordResult(o, outcome) ==
    /\ ResultAccepted(o)
    /\ operation' = [operation EXCEPT ![o].state = outcome.state,
                                      ![o].slotCharged = KeepsSlot(outcome),
                                      ![o].result = outcome]
    /\ UNCHANGED <<now, runState, group>>

RequestCancellation(o) ==
    /\ operation[o].state \in {"executing", "dispatched"}
    /\ operation' = [operation EXCEPT ![o].state = "cancel-requested"]
    /\ UNCHANGED <<now, runState, group>>

\* The rows the sweep selects at reading t.
LeaseExpired(o, t) ==
    /\ operation[o].state \in {"executing", "cancel-requested"}
    /\ operation[o].lease < t

\* Mutant: the sweep writes the name of its event as the state.
LostByEventName(row) ==
    [row EXCEPT !.state = "lease-expired-outcome-unknown", !.slotCharged = TRUE]

\* Mutant: the sweep gives the slot back.
LostAndFreed(row) == [row EXCEPT !.state = "outcome-unknown", !.slotCharged = FALSE]

Lost(row) == [row EXCEPT !.state = "outcome-unknown", !.slotCharged = TRUE]

\* expire_leases: every overdue row at once.
ExpireLeases(t) ==
    /\ \E o \in DOMAIN operation : LeaseExpired(o, t)
    /\ operation' = [o \in DOMAIN operation |->
                        IF LeaseExpired(o, t) THEN Lost(operation[o]) ELSE operation[o]]
    /\ UNCHANGED <<now, runState, group>>

\* Mutant: only requested cancellations can be reconciled.
CancellationPending(o) == operation[o].state = "cancel-requested"

Reconcilable(o) == operation[o].state \in {"outcome-unknown", "cancel-requested"}

Reconcile(o, confirmed) ==
    /\ Reconcilable(o)
    /\ operation' = [operation EXCEPT ![o].state = confirmed,
                                      ![o].slotCharged = FALSE]
    /\ UNCHANGED <<now, runState, group>>

-----------------------------------------------------------------------------
(* The surroundings: what the controller reads and does not write          *)

\* transition_assessment, as far as _validate_domain_links sees it.
Lifecycle == INSTANCE RunLifecycle

PauseRun(r) == Lifecycle!Pause(r) /\ UNCHANGED <<now, operation, group>>

ResumeRun(r) == Lifecycle!Resume(r) /\ UNCHANGED <<now, operation, group>>

CloseRun(r) == Lifecycle!Close(r) /\ UNCHANGED <<now, operation, group>>

Tick ==
    /\ now < MaxTime
    /\ now' = now + 1
    /\ UNCHANGED <<runState, operation, group>>

\* The steps of the controller's own tables.
ControllerStep ==
    \/ \E o \in Ops, r \in Requests, t \in Readings : Submit(o, r, t)
    \/ \E o \in DOMAIN operation : TryAdmitQueued(o)
    \/ \E o \in DOMAIN operation, t \in Readings, s \in Leases : BeginExecution(o, t, s)
    \/ \E o \in DOMAIN operation, t \in Readings, s \in Leases : Heartbeat(o, t, s)
    \/ \E o \in DOMAIN operation, outcome \in Outcomes : RecordResult(o, outcome)
    \/ \E o \in DOMAIN operation : RequestCancellation(o)
    \/ \E t \in Readings : ExpireLeases(t)
    \/ \E o \in DOMAIN operation, c \in ConfirmedStates : Reconcile(o, c)

EnvironmentStep ==
    \/ \E r \in Runs : PauseRun(r) \/ ResumeRun(r) \/ CloseRun(r)
    \/ Tick

Next == ControllerStep \/ EnvironmentStep

Spec == Init /\ [][Next]_vars

\* Rows are inserted in the order of their queued_at readings: what one process that submits
\* one request after the other ensures, and the code does not ask for.
InsertsNewest ==
    \A o \in DOMAIN operation' \ DOMAIN operation, q \in DOMAIN operation :
        operation[q].queuedAt < operation'[o].queuedAt

InOrderSpec == Init /\ [][Next /\ InsertsNewest]_vars

-----------------------------------------------------------------------------
(* Safety                                                                  *)

\* The operations whose work at the source may be running or about to run are exactly the
\* ones holding slots: no timeout, expiry, replay or late result frees a slot while the
\* outcome is open, and none keeps it once the outcome is confirmed.
ChargedWhileUncertain ==
    \A o \in DOMAIN operation :
        operation[o].slotCharged <=> operation[o].state \in ActiveStates

\* Aliases, runs and workers together never hold more slots of a group than its policy
\* allows, whatever mix of groups their operations name (acceptance SOURCE-02).
CapacityRespected ==
    \A g \in Groups : Cardinality(Charged(operation, g)) <= Policy[g].maxActive

\* No group's fence is behind a permit issued for it.
FenceBound ==
    \A o \in DOMAIN operation : \A g \in operation[o].request.groups :
        operation[o].generation <= group[g].generation

\* A permit is consumed once: an operation never has a second attempt, through expiry,
\* cancellation, reconciliation and replays.
PermitUsedOnce ==
    \A o \in DOMAIN operation :
        /\ operation[o].attempts <= 1
        /\ operation[o].state \in {"queued", "reserved"} => operation[o].attempts = 0

\* The request is one that its groups' policies allow at all.
Allowed(r) ==
    /\ r.policyVersion = PolicyVersion
    /\ \A g \in r.groups : Policy[g].zoneKnown /\ ~Forbidden(r, g)

\* No admitted operation breaks the policy of ANY group it names, whichever group made it
\* wait before and whenever it was admitted.
AdmittedWithinPolicy ==
    \A o \in DOMAIN operation :
        operation[o].generation > 0 => Allowed(operation[o].request)

\* A run never gets more operations of a cost class admitted to a group than the group's
\* per-run budget, counting every operation it ever got admitted.
RunOperationsBounded ==
    \A o \in DOMAIN operation : \A g \in operation[o].request.groups :
        Cardinality({p \in SameBudget(operation, operation[o].request) :
                        /\ operation[p].generation > 0
                        /\ g \in operation[p].request.groups}) <= Policy[g].maxRunOps

\* The bytes of a set of operations, and whether none collected more than it asked for.
CollectedBytes(used) == BytesOf(operation, used)
KeepEstimates(used) == \A p \in used : operation[p].result.bytes <= operation[p].request.bytes

\* The bytes a run collects from a group stay within max_collection_bytes_per_run where its
\* operations run one at a time, because they share a group of capacity one: late results,
\* reconciliation and retried admission never let two of them count on the same remainder.
SerialBytesBounded ==
    \A o \in DOMAIN operation : \A g, single \in operation[o].request.groups :
        LET used == SameBudget(operation, operation[o].request) IN
            /\ Policy[single].maxActive = 1
            /\ \A p \in used : {g, single} \subseteq operation[p].request.groups
            /\ KeepEstimates(used)
            => CollectedBytes(used) <= Policy[g].maxRunBytes

\* Equivalent work is in flight once at a time ("equivalent-operation-in-flight",
\* controller.py:168): while an operation waits, runs or is unaccounted for, no other of the
\* same workspace gathers the same evidence.  It holds of InOrderSpec.
SingleFlight ==
    \A p, q \in DOMAIN operation :
        /\ operation[p].state \in InFlightStates
        /\ operation[q].state \in InFlightStates
        /\ operation[p].request.workspace = operation[q].request.workspace
        /\ operation[p].request.fingerprint = operation[q].request.fingerprint
        => p = q

-----------------------------------------------------------------------------
(* What a step may never do                                                *)

KeepsTerminalRows ==
    \A o \in DOMAIN operation :
        operation[o].state \in TerminalStates => operation'[o] = operation[o]

\* A committed result or reconciliation is final: a late result, a replay, a cancellation or
\* a lease sweep that comes after it changes nothing of the row.
TerminalIsFinal == [][KeepsTerminalRows]_vars

\* o is given its permit in this step.
Reserves(o) ==
    /\ o \in DOMAIN operation'
    /\ operation'[o].state = "reserved"
    /\ o \in DOMAIN operation => operation[o].state # "reserved"

OutranksEarlierPermits ==
    \A o \in Ops : Reserves(o) =>
        \A p \in DOMAIN operation :
            operation[p].request.groups \cap operation'[o].request.groups # {}
                => operation[p].generation < operation'[o].generation

\* A new permit outranks every permit ever issued in any of its groups, so a source that
\* remembers the highest fencing generation it saw can tell the two apart.
FenceAdvances == [][OutranksEarlierPermits]_vars

SpacesAdmissions ==
    \A g \in Groups :
        /\ group[g].lastAdmitted # Never
        /\ group'[g].generation # group[g].generation
        => group'[g].lastAdmitted >= group[g].lastAdmitted + Policy[g].minInterval

\* Admissions to a group are spaced by its minimum interval, and never go back in time, on
\* the clock readings the controller records, however stale those are.
AdmissionSpacing == [][SpacesAdmissions]_vars

-----------------------------------------------------------------------------
(* Refinement: the slots of the table are a CapacityLedger                 *)

\* The groups in which o holds a slot, and the operations whose end is confirmed.
Claim ==
    [o \in Ops |-> IF o \in DOMAIN operation /\ operation[o].slotCharged
                   THEN operation[o].request.groups
                   ELSE {}]
Settled == {o \in DOMAIN operation : operation[o].state \in TerminalStates}

Ledger == INSTANCE CapacityLedger WITH
    Capacity <- [g \in Groups |-> Policy[g].maxActive],
    claim <- Claim,
    settled <- Settled

\* Admission, leases, cancellation, results and reconciliation together implement the
\* ledger: slots are taken in all groups at once, only where there is room, at most once
\* per operation, and given back only together with a confirmed end.
ImplementsLedger == Ledger!Spec

-----------------------------------------------------------------------------
(* Liveness                                                                *)

\* The deployment's loops: the clock, a lease sweep, a dispatcher that retries queued
\* operations and a reconciler that learns how an unknown execution ended.  Nobody is bound
\* to use a permit, send a heartbeat or report a result.
Fairness ==
    /\ WF_vars(Tick)
    /\ WF_vars(\E t \in Readings : ExpireLeases(t))
    /\ \A o \in Ops : WF_vars(o \in DOMAIN operation /\ TryAdmitQueued(o))
    /\ \A o \in Ops : WF_vars(/\ o \in DOMAIN operation
                              /\ \E c \in ConfirmedStates : Reconcile(o, c))

FairSpec == Spec /\ Fairness

InState(o, states) == o \in DOMAIN operation /\ operation[o].state \in states

\* Whatever its collector does after begin_execution, an execution reaches a confirmed end
\* (heartbeats end with the modelled time).
BegunSettles ==
    \A o \in Ops :
        InState(o, ActiveStates \ {"reserved"}) ~> InState(o, TerminalStates)

\* Queued work its policies allow is admitted, unless some permit is left unused forever:
\* first-in-first-out order, other requests, capacity and unknown outcomes alone never
\* starve it (controller.py:207).
QueueDrains ==
    (\A p \in Ops : []<>~InState(p, {"reserved"}))
        => \A o \in Ops : (InState(o, {"queued"}) /\ Allowed(operation[o].request))
                              ~> ~InState(o, {"queued"})

-----------------------------------------------------------------------------
(* What the repository says and the code does not do                       *)

\* A permit that expires before I/O gives its slot back (controller.py:290-293).
ExpiredPermitFreesSlot ==
    \A o \in Ops :
        (InState(o, {"reserved"}) /\ operation[o].permitExpires <= now)
            ~> ~InState(o, ActiveStates)

\* Cancellation prevents new work (docs/product-spec.md:64): no operation of a closed run
\* is admitted or starts.
CancellationPreventsNewWork ==
    [][\A o \in DOMAIN operation :
          runState[operation[o].request.run] = "closed"
          => \/ operation'[o].state = operation[o].state
             \/ operation'[o].state \notin {"reserved", "executing"}]_vars

\* A request whose deadline has expired gets no permit (controller.py:151-152), not even when
\* it has waited in the queue since before its deadline.
ExpiredRequestsStayOut ==
    [][\A o \in DOMAIN operation :
          Reserves(o) => now < operation[o].request.deadline]_vars

\* Policies bound bytes (docs/product-spec.md:70): the bytes a run collects from a group stay
\* within max_collection_bytes_per_run as long as no result is larger than its estimate.
RunBytesBounded ==
    \A o \in DOMAIN operation : \A g \in operation[o].request.groups :
        LET used == SameBudget(operation, operation[o].request) IN
            KeepEstimates(used) => CollectedBytes(used) <= Policy[g].maxRunBytes

=============================================================================
