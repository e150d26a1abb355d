---------------------- MODULE WorkloadController_proofs ----------------------
(***************************************************************************)
(* What holds of WorkloadController for every set of operations, groups,   *)
(* requests and policies, whatever the bounds on time and lag.             *)
(***************************************************************************)
EXTENDS WorkloadController, FiniteSetTheorems, TLAPS

-----------------------------------------------------------------------------
(* Type correctness                                                        *)

\* A request's fields, as RequestsAssumption gives them.
LEMMA RequestType ==
    ASSUME NEW r \in Requests
    PROVE  /\ r.run \in Runs
           /\ r.groups \subseteq Groups
           /\ r.groups # {}
           /\ r.policyVersion \in Nat
           /\ r.deadline \in Nat
  <1>1. r \in EvidenceRequest /\ r.groups # {}
    BY RequestsAssumption
  <1>2. r.groups \subseteq Groups
    BY <1>1 DEF EvidenceRequest
  <1>3. r.run \in Runs /\ r.policyVersion \in Nat /\ r.deadline \in Nat
    BY <1>1 DEF EvidenceRequest
  <1> QED
    BY <1>1, <1>2, <1>3

\* A clock reading is an instant that has been.
LEMMA ReadingType ==
    ASSUME TypeOK, NEW t \in Readings
    PROVE  t \in Nat /\ t <= now
    BY TimeAssumption DEF TypeOK, Readings

\* The state after Reserve, for a table of rows of the right type, is of the right type.
LEMMA ReserveType ==
    ASSUME TypeOK,
           NEW table, DOMAIN table \subseteq Ops, table \in [DOMAIN table -> OperationRow],
           NEW o \in DOMAIN table, NEW t \in Nat,
           Reserve(table, o, t)
    PROVE  /\ DOMAIN operation' = DOMAIN table
           /\ operation' \in [DOMAIN table -> OperationRow]
           /\ group' \in [Groups -> [generation : Nat, lastAdmitted : Nat \cup {Never}]]
  <1> DEFINE r == table[o].request
  <1>1. r \in Requests
    BY DEF OperationRow
  <1>2. PICK newest \in {group[g].generation : g \in r.groups},
             expires \in {t + Policy[g].permitTtl : g \in r.groups} \cup {r.deadline} :
          /\ operation' = [table EXCEPT ![o].state = "reserved",
                                        ![o].slotCharged = TRUE,
                                        ![o].generation = newest + 1,
                                        ![o].permitExpires = expires]
          /\ group' = [g \in Groups |-> IF g \in r.groups
                                        THEN Stamped(g, newest + 1, t)
                                        ELSE group[g]]
    BY DEF Reserve
  <1>3. newest \in Nat
    BY <1>1, RequestType DEF TypeOK
  <1>4. expires \in Nat
    BY <1>1, RequestType, PolicyAssumption DEF SourcePolicy
  <1>5. operation' \in [DOMAIN table -> OperationRow]
    BY <1>2, <1>3, <1>4 DEF OperationRow, SourceExecutionState
  <1>6. group' \in [Groups -> [generation : Nat, lastAdmitted : Nat \cup {Never}]]
    BY <1>2, <1>3 DEF TypeOK, Stamped
  <1> QED
    BY <1>2, <1>5, <1>6

\* The table submit works on once its row is inserted.
LEMMA InsertedType ==
    ASSUME TypeOK, NEW o \in Ops, NEW r \in Requests, NEW t \in Nat
    PROVE  /\ DOMAIN Inserted(o, r, t) = DOMAIN operation \cup {o}
           /\ DOMAIN Inserted(o, r, t) \subseteq Ops
           /\ Inserted(o, r, t) \in [DOMAIN Inserted(o, r, t) -> OperationRow]
  <1>1. QueuedRow(r, t) \in OperationRow
    BY DEF QueuedRow, OperationRow, SourceExecutionState, NoResult
  <1> QED
    BY <1>1 DEF TypeOK, Inserted

-----------------------------------------------------------------------------
(* The inductive invariant                                                 *)

\* Capacity alone is not inductive: record_result and expire_leases write slot_charged
\* without counting, which is sound only because the row they write held its slots before.
\* That follows from the state (ChargedWhileUncertain) once queued rows are known to have no
\* attempt (PermitUsedOnce).  FenceBound is what makes a new generation new.
IInv ==
    /\ TypeOK
    /\ ChargedWhileUncertain
    /\ PermitUsedOnce
    /\ CapacityRespected
    /\ FenceBound

\* The slot holders of a group are finitely many.
LEMMA ChargedFinite ==
    ASSUME NEW table, DOMAIN table \subseteq Ops, NEW g
    PROVE  IsFiniteSet(Charged(table, g)) /\ Cardinality(Charged(table, g)) \in Nat
  <1>1. Charged(table, g) \in SUBSET Ops
    BY DEF Charged
  <1>2. IsFiniteSet(Charged(table, g))
    BY <1>1, OpsAssumption, FS_Subset
  <1> QED
    BY <1>2, FS_CardinalityType

\* A step that inserts no row, charges no slot and moves no fence keeps the invariant, if
\* the rows it writes agree with their own state.
LEMMA RowsStep ==
    ASSUME IInv,
           now' = now, runState' = runState, group' = group,
           DOMAIN operation' = DOMAIN operation,
           operation' \in [DOMAIN operation -> OperationRow],
           \A q \in DOMAIN operation :
               /\ operation'[q].request = operation[q].request
               /\ operation'[q].generation = operation[q].generation
               /\ operation'[q].slotCharged => operation[q].slotCharged
               /\ operation'[q].slotCharged <=> operation'[q].state \in ActiveStates
               /\ operation'[q].attempts <= 1
               /\ operation'[q].state \in {"queued", "reserved"}
                      => operation'[q].attempts = 0
    PROVE  IInv'
  <1>1. TypeOK'
    BY DEF IInv, TypeOK
  <1>2. ChargedWhileUncertain'
    BY DEF ChargedWhileUncertain
  <1>3. PermitUsedOnce'
    BY DEF PermitUsedOnce
  <1>4. CapacityRespected'
    <2> SUFFICES ASSUME NEW g \in Groups
                 PROVE  Cardinality(Charged(operation', g)) <= Policy[g].maxActive
      BY DEF CapacityRespected
    <2>1. Charged(operation', g) \in SUBSET Charged(operation, g)
      BY DEF Charged
    <2>2. IsFiniteSet(Charged(operation, g)) /\ Cardinality(Charged(operation, g)) \in Nat
      BY ChargedFinite DEF IInv, TypeOK
    <2>3. Cardinality(Charged(operation', g)) <= Cardinality(Charged(operation, g))
      BY <2>1, <2>2, FS_Subset
    <2>4. Cardinality(Charged(operation', g)) \in Nat
      BY <1>1, ChargedFinite DEF TypeOK
    <2>5. Cardinality(Charged(operation, g)) <= Policy[g].maxActive
      BY DEF IInv, CapacityRespected
    <2>6. Policy[g].maxActive \in Nat
      BY PolicyAssumption DEF SourcePolicy
    <2> QED
      BY <2>2, <2>3, <2>4, <2>5, <2>6
  <1>5. FenceBound'
    BY DEF IInv, FenceBound
  <1> QED
    BY <1>1, <1>2, <1>3, <1>4, <1>5 DEF IInv

\* The invariant's parts that speak of the table, for the table an admission works on.
TableInv(table) ==
    /\ DOMAIN table \subseteq Ops
    /\ table \in [DOMAIN table -> OperationRow]
    /\ \A q \in DOMAIN table :
           /\ table[q].slotCharged <=> table[q].state \in ActiveStates
           /\ table[q].attempts <= 1
           /\ table[q].state \in {"queued", "reserved"} => table[q].attempts = 0
           /\ \A g \in table[q].request.groups : table[q].generation <= group[g].generation
    /\ \A g \in Groups : Cardinality(Charged(table, g)) <= Policy[g].maxActive

\* The table a handler starts from satisfies what admission relies on.
LEMMA OperationTableInv ==
    ASSUME IInv
    PROVE  TableInv(operation)
    BY DEF IInv, TypeOK, ChargedWhileUncertain, PermitUsedOnce, CapacityRespected,
           FenceBound, TableInv

\* An inserted row holds no slot and no fence.
LEMMA InsertedTableInv ==
    ASSUME IInv, NEW o \in Ops, o \notin DOMAIN operation,
           NEW r \in Requests, NEW t \in Nat
    PROVE  TableInv(Inserted(o, r, t))
  <1> DEFINE table == Inserted(o, r, t)
  <1>1. /\ DOMAIN table = DOMAIN operation \cup {o}
        /\ DOMAIN table \subseteq Ops
        /\ table \in [DOMAIN table -> OperationRow]
    BY InsertedType DEF IInv
  <1>2. /\ table[o] = QueuedRow(r, t)
        /\ \A q \in DOMAIN operation : table[q] = operation[q]
    BY DEF Inserted
  <1>3. ASSUME NEW q \in DOMAIN table
        PROVE  /\ table[q].slotCharged <=> table[q].state \in ActiveStates
               /\ table[q].attempts <= 1
               /\ table[q].state \in {"queued", "reserved"} => table[q].attempts = 0
               /\ \A g \in table[q].request.groups :
                      table[q].generation <= group[g].generation
    <2>1. CASE q = o
      <3>1. /\ table[q].state = "queued" /\ table[q].slotCharged = FALSE
            /\ table[q].attempts = 0 /\ table[q].generation = 0
            /\ table[q].request = r
        BY <1>2, <2>1 DEF QueuedRow
      <3>2. \A g \in r.groups : group[g].generation \in Nat
        BY RequestType DEF IInv, TypeOK
      <3> QED
        BY <3>1, <3>2 DEF ActiveStates
    <2>2. CASE q \in DOMAIN operation
      BY <1>2, <2>2, OperationTableInv DEF TableInv
    <2> QED
      BY <1>1, <2>1, <2>2
  <1>4. ASSUME NEW g \in Groups
        PROVE  Cardinality(Charged(table, g)) <= Policy[g].maxActive
    <2>1. table[o].slotCharged = FALSE
      BY <1>2 DEF QueuedRow
    <2>2. Charged(table, g) = Charged(operation, g)
      BY <1>1, <1>2, <2>1 DEF Charged
    <2> QED
      BY <2>2 DEF IInv, CapacityRespected
  <1> QED
    BY <1>1, <1>3, <1>4 DEF TableInv

\* Submitting without being admitted.
LEMMA InsertStep ==
    ASSUME IInv, NEW table, TableInv(table), operation' = table,
           now' = now, runState' = runState, group' = group
    PROVE  IInv'
  <1>1. TypeOK'
    BY DEF IInv, TypeOK, TableInv
  <1>2. ChargedWhileUncertain' /\ PermitUsedOnce' /\ FenceBound'
    BY DEF TableInv, ChargedWhileUncertain, PermitUsedOnce, FenceBound
  <1>3. CapacityRespected'
    BY DEF TableInv, CapacityRespected, Charged
  <1> QED
    BY <1>1, <1>2, <1>3 DEF IInv

\* Admission: every group the operation names has room for one more.
LEMMA AdmitStep ==
    ASSUME IInv, NEW table, TableInv(table), NEW o \in DOMAIN table, NEW t \in Nat,
           table[o].state = "queued",
           Admitted(table, o, t), Reserve(table, o, t),
           now' = now, runState' = runState
    PROVE  IInv'
  <1> DEFINE r == table[o].request
  <1>1. r \in Requests /\ r.groups \subseteq Groups
    BY RequestType DEF TableInv, OperationRow
  <1>2. PICK newest \in {group[g].generation : g \in r.groups},
             expires \in {t + Policy[g].permitTtl : g \in r.groups} \cup {r.deadline} :
          /\ IsNewest(newest, r.groups)
          /\ operation' = [table EXCEPT ![o].state = "reserved",
                                        ![o].slotCharged = TRUE,
                                        ![o].generation = newest + 1,
                                        ![o].permitExpires = expires]
          /\ group' = [g \in Groups |-> IF g \in r.groups
                                        THEN Stamped(g, newest + 1, t)
                                        ELSE group[g]]
    BY DEF Reserve
  <1>3. newest \in Nat
    BY <1>1, <1>2 DEF IInv, TypeOK
  <1>4. /\ DOMAIN operation' = DOMAIN table
        /\ operation' \in [DOMAIN table -> OperationRow]
        /\ group' \in [Groups -> [generation : Nat, lastAdmitted : Nat \cup {Never}]]
    BY ReserveType DEF IInv, TableInv
  <1>5. /\ operation'[o].state = "reserved" /\ operation'[o].slotCharged = TRUE
        /\ operation'[o].generation = newest + 1 /\ operation'[o].request = r
        /\ operation'[o].attempts = table[o].attempts
        /\ \A q \in DOMAIN table \ {o} : operation'[q] = table[q]
    BY <1>2 DEF TableInv, OperationRow
  <1>6. TypeOK'
    BY <1>4 DEF IInv, TypeOK, TableInv
  <1>7. ChargedWhileUncertain'
    BY <1>4, <1>5 DEF TableInv, ChargedWhileUncertain, ActiveStates
  <1>8. PermitUsedOnce'
    BY <1>4, <1>5 DEF TableInv, PermitUsedOnce
  <1>9. CapacityRespected'
    <2> SUFFICES ASSUME NEW g \in Groups
                 PROVE  Cardinality(Charged(operation', g)) <= Policy[g].maxActive
      BY DEF CapacityRespected
    <2>1. /\ IsFiniteSet(Charged(table, g)) /\ Cardinality(Charged(table, g)) \in Nat
          /\ Cardinality(Charged(table, g)) <= Policy[g].maxActive
          /\ Policy[g].maxActive \in Nat
      BY ChargedFinite, PolicyAssumption DEF TableInv, SourcePolicy
    <2>2. table[o].slotCharged = FALSE
      BY DEF TableInv, ActiveStates, OperationRow
    <2>3. CASE g \in r.groups
      <3>1. Charged(operation', g) = Charged(table, g) \cup {o}
        BY <1>4, <1>5, <2>3 DEF Charged
      <3>2. o \notin Charged(table, g)
        BY <2>2 DEF Charged
      <3>3. Cardinality(Charged(operation', g)) = Cardinality(Charged(table, g)) + 1
        BY <2>1, <3>1, <3>2, FS_AddElement
      <3>4. GroupVerdict(table, r, g, t) = "clear"
        BY <2>3 DEF Admitted, AllClear
      <3>5. ~CapacityTaken(table, g)
        BY <3>4 DEF GroupVerdict
      <3> QED
        BY <2>1, <3>3, <3>5 DEF CapacityTaken
    <2>4. CASE g \notin r.groups
      <3>1. Charged(operation', g) = Charged(table, g)
        BY <1>4, <1>5, <2>2, <2>4 DEF Charged
      <3> QED
        BY <2>1, <3>1
    <2> QED
      BY <2>3, <2>4
  <1>10. FenceBound'
    <2> SUFFICES ASSUME NEW q \in DOMAIN operation', NEW g \in operation'[q].request.groups
                 PROVE  operation'[q].generation <= group'[g].generation
      BY DEF FenceBound
    <2>1. q \in DOMAIN table /\ operation'[q].request = table[q].request
      BY <1>4, <1>5
    <2>2. g \in Groups
      BY <2>1, RequestType DEF TableInv, OperationRow
    <2>3. group[g].generation \in Nat
      BY <2>2 DEF IInv, TypeOK
    <2>4. group'[g] = IF g \in r.groups THEN Stamped(g, newest + 1, t) ELSE group[g]
      BY <1>2, <2>2
    <2>5. group[g].generation <= group'[g].generation
      BY <1>2, <1>3, <2>3, <2>4 DEF Stamped, IsNewest
    <2>6. CASE q = o
      BY <1>3, <1>5, <2>4, <2>6 DEF Stamped
    <2>7. CASE q # o
      <3>1. operation'[q].generation = table[q].generation
        BY <1>5, <2>1, <2>7
      <3>2. table[q].generation <= group[g].generation /\ table[q].generation \in Nat
        BY <2>1 DEF TableInv, OperationRow
      <3>3. group'[g].generation \in Nat
        BY <1>4, <2>2
      <3> QED
        BY <2>3, <2>5, <3>1, <3>2, <3>3
    <2> QED
      BY <2>6, <2>7
  <1> QED
    BY <1>6, <1>7, <1>8, <1>9, <1>10 DEF IInv

-----------------------------------------------------------------------------
(* Every step keeps the invariant                                          *)

\* submit keeps the invariant, whether the new row is admitted at once or queued.
LEMMA SubmitStep ==
    ASSUME IInv, NEW o \in Ops, NEW r \in Requests, NEW t \in Readings, Submit(o, r, t)
    PROVE  IInv'
  <1> DEFINE table == Inserted(o, r, t)
  <1>1. t \in Nat
    BY ReadingType DEF IInv
  <1>2. o \notin DOMAIN operation /\ now' = now /\ runState' = runState
    BY DEF Submit
  <1>3. TableInv(table) /\ o \in DOMAIN table /\ table[o].state = "queued"
    <2>1. TableInv(table)
      BY <1>1, <1>2, InsertedTableInv
    <2> QED
      BY <2>1 DEF Inserted, QueuedRow
  <1>4. CASE Admitted(table, o, t) /\ Reserve(table, o, t)
    <2> HIDE DEF table
    <2> QED
      BY <1>1, <1>2, <1>3, <1>4, AdmitStep
  <1>5. CASE operation' = table /\ group' = group
    <2> HIDE DEF table
    <2> QED
      BY <1>2, <1>3, <1>5, InsertStep
  <1> QED
    BY <1>4, <1>5 DEF Submit

\* try_admit_queued keeps the invariant.
LEMMA TryAdmitQueuedStep ==
    ASSUME IInv, NEW o \in DOMAIN operation, TryAdmitQueued(o)
    PROVE  IInv'
  <1>1. TableInv(operation)
    BY OperationTableInv
  <1>2. now \in Nat
    BY TimeAssumption DEF IInv, TypeOK
  <1> QED
    BY <1>1, <1>2, AdmitStep DEF TryAdmitQueued

\* begin_execution keeps the invariant: the permit it consumes was never used.
LEMMA BeginExecutionStep ==
    ASSUME IInv, NEW o \in DOMAIN operation, NEW t \in Readings, NEW seconds \in Leases,
           BeginExecution(o, t, seconds)
    PROVE  IInv'
  <1>1. t + seconds \in Nat
    BY ReadingType, TimeAssumption DEF IInv
  <1>2. operation \in [DOMAIN operation -> OperationRow]
    BY DEF IInv, TypeOK
  <1>3. operation[o].state = "reserved" /\ operation[o].attempts = 0
        /\ operation[o].slotCharged = TRUE
    BY DEF BeginExecution, PermitUsable, IInv, PermitUsedOnce, ChargedWhileUncertain,
           ActiveStates, TypeOK, OperationRow
  <1>4. operation' = [operation EXCEPT ![o].state = "executing",
                                       ![o].attempts = 1,
                                       ![o].lease = t + seconds]
    BY <1>2, <1>3 DEF BeginExecution
  <1>5. operation' \in [DOMAIN operation -> OperationRow]
    BY <1>1, <1>2, <1>4 DEF OperationRow, SourceExecutionState
  <1>6. \A q \in DOMAIN operation :
            /\ operation'[q].request = operation[q].request
            /\ operation'[q].generation = operation[q].generation
            /\ operation'[q].slotCharged = operation[q].slotCharged
            /\ operation'[q].slotCharged <=> operation'[q].state \in ActiveStates
            /\ operation'[q].attempts <= 1
            /\ operation'[q].state \in {"queued", "reserved"}
                   => operation'[q].attempts = 0
    BY <1>2, <1>3, <1>4 DEF IInv, ChargedWhileUncertain, PermitUsedOnce, ActiveStates,
                            OperationRow
  <1> QED
    BY <1>4, <1>5, <1>6, RowsStep DEF BeginExecution

\* heartbeat keeps the invariant.
LEMMA HeartbeatStep ==
    ASSUME IInv, NEW o \in DOMAIN operation, NEW t \in Readings, NEW seconds \in Leases,
           Heartbeat(o, t, seconds)
    PROVE  IInv'
  <1>1. t + seconds \in Nat
    BY ReadingType, TimeAssumption DEF IInv
  <1>2. operation \in [DOMAIN operation -> OperationRow]
    BY DEF IInv, TypeOK
  <1>3. operation' \in [DOMAIN operation -> OperationRow]
    BY <1>1, <1>2 DEF Heartbeat, OperationRow
  <1>4. \A q \in DOMAIN operation :
            /\ operation'[q].request = operation[q].request
            /\ operation'[q].generation = operation[q].generation
            /\ operation'[q].slotCharged = operation[q].slotCharged
            /\ operation'[q].state = operation[q].state
            /\ operation'[q].attempts = operation[q].attempts
    BY <1>2 DEF Heartbeat, OperationRow
  <1>5. DOMAIN operation' = DOMAIN operation
    BY <1>3
  <1> QED
    BY <1>3, <1>4, <1>5, RowsStep
    DEF Heartbeat, IInv, ChargedWhileUncertain, PermitUsedOnce

\* record_result keeps the invariant: only an unknown outcome keeps the slot.
LEMMA RecordResultStep ==
    ASSUME IInv, NEW o \in DOMAIN operation, NEW outcome \in Outcomes,
           RecordResult(o, outcome)
    PROVE  IInv'
  <1>1. outcome.state \in ResultStates
    BY OutcomesAssumption DEF OperationResult
  <1>2. operation \in [DOMAIN operation -> OperationRow]
    BY DEF IInv, TypeOK
  <1>3. operation[o].slotCharged = TRUE /\ operation[o].attempts <= 1
    BY <1>2 DEF RecordResult, ResultAccepted, IInv, PermitUsedOnce, ChargedWhileUncertain,
                OperationRow, SourceExecutionState, ActiveStates, TerminalStates
  <1>4. operation' = [operation EXCEPT ![o].state = outcome.state,
                                       ![o].slotCharged = KeepsSlot(outcome),
                                       ![o].result = outcome]
    BY DEF RecordResult
  <1>5. KeepsSlot(outcome) \in BOOLEAN
        /\ (KeepsSlot(outcome) <=> outcome.state \in ActiveStates)
        /\ outcome.state \in SourceExecutionState \ {"queued", "reserved"}
    BY <1>1 DEF KeepsSlot, ResultStates, ConfirmedStates, ActiveStates,
                SourceExecutionState
  <1>6. operation' \in [DOMAIN operation -> OperationRow]
    BY <1>2, <1>4, <1>5 DEF OperationRow
  <1>7. \A q \in DOMAIN operation :
            /\ operation'[q].request = operation[q].request
            /\ operation'[q].generation = operation[q].generation
            /\ operation'[q].slotCharged => operation[q].slotCharged
            /\ operation'[q].slotCharged <=> operation'[q].state \in ActiveStates
            /\ operation'[q].attempts <= 1
            /\ operation'[q].state \in {"queued", "reserved"}
                   => operation'[q].attempts = 0
    BY <1>2, <1>3, <1>4, <1>5
    DEF IInv, ChargedWhileUncertain, PermitUsedOnce, OperationRow
  <1>8. DOMAIN operation' = DOMAIN operation
    BY <1>6
  <1> QED
    BY <1>6, <1>7, <1>8, RowsStep DEF RecordResult

\* request_cancellation keeps the invariant: the slot stays charged.
LEMMA RequestCancellationStep ==
    ASSUME IInv, NEW o \in DOMAIN operation, RequestCancellation(o)
    PROVE  IInv'
  <1>1. operation \in [DOMAIN operation -> OperationRow]
    BY DEF IInv, TypeOK
  <1>2. operation[o].slotCharged
    BY DEF RequestCancellation, IInv, ChargedWhileUncertain, ActiveStates
  <1>3. operation' = [operation EXCEPT ![o].state = "cancel-requested"]
    BY DEF RequestCancellation
  <1>4. operation' \in [DOMAIN operation -> OperationRow]
    BY <1>1, <1>3 DEF OperationRow, SourceExecutionState
  <1>5. \A q \in DOMAIN operation :
            /\ operation'[q].request = operation[q].request
            /\ operation'[q].generation = operation[q].generation
            /\ operation'[q].slotCharged = operation[q].slotCharged
            /\ operation'[q].attempts = operation[q].attempts
            /\ operation'[q].state = IF q = o THEN "cancel-requested"
                                              ELSE operation[q].state
    BY <1>1, <1>3 DEF OperationRow
  <1>6. DOMAIN operation' = DOMAIN operation
    BY <1>4
  <1> QED
    BY <1>2, <1>4, <1>5, <1>6, RowsStep
    DEF RequestCancellation, IInv, ChargedWhileUncertain, PermitUsedOnce, ActiveStates

\* expire_leases keeps the invariant: every row it writes already held its slot.
LEMMA ExpireLeasesStep ==
    ASSUME IInv, NEW t \in Readings, ExpireLeases(t)
    PROVE  IInv'
  <1>1. operation \in [DOMAIN operation -> OperationRow]
    BY DEF IInv, TypeOK
  <1>2. operation' = [q \in DOMAIN operation |->
                         IF LeaseExpired(q, t) THEN Lost(operation[q]) ELSE operation[q]]
    BY DEF ExpireLeases
  <1>3. ASSUME NEW q \in DOMAIN operation, LeaseExpired(q, t)
        PROVE  /\ operation[q].slotCharged
               /\ operation[q].attempts <= 1
    BY <1>3 DEF LeaseExpired, IInv, ChargedWhileUncertain, PermitUsedOnce, ActiveStates
  <1>4. operation' \in [DOMAIN operation -> OperationRow]
    BY <1>1, <1>2 DEF Lost, OperationRow, SourceExecutionState
  <1>5. ASSUME NEW q \in DOMAIN operation
        PROVE  /\ operation'[q].request = operation[q].request
               /\ operation'[q].generation = operation[q].generation
               /\ operation'[q].slotCharged => operation[q].slotCharged
               /\ operation'[q].slotCharged <=> operation'[q].state \in ActiveStates
               /\ operation'[q].attempts <= 1
               /\ operation'[q].state \in {"queued", "reserved"}
                      => operation'[q].attempts = 0
    <2>1. CASE LeaseExpired(q, t)
      <3>1. operation'[q] = [operation[q] EXCEPT !.state = "outcome-unknown",
                                                 !.slotCharged = TRUE]
        BY <1>2, <2>1 DEF Lost
      <3> QED
        BY <1>1, <1>3, <2>1, <3>1 DEF OperationRow, ActiveStates
    <2>2. CASE ~LeaseExpired(q, t)
      BY <1>2, <2>2 DEF IInv, ChargedWhileUncertain, PermitUsedOnce
    <2> QED
      BY <2>1, <2>2
  <1>6. DOMAIN operation' = DOMAIN operation
    BY <1>4
  <1> QED
    BY <1>4, <1>5, <1>6, RowsStep DEF ExpireLeases

\* reconcile keeps the invariant: the slot goes with the open outcome.
LEMMA ReconcileStep ==
    ASSUME IInv, NEW o \in DOMAIN operation, NEW confirmed \in ConfirmedStates,
           Reconcile(o, confirmed)
    PROVE  IInv'
  <1>1. operation \in [DOMAIN operation -> OperationRow]
    BY DEF IInv, TypeOK
  <1>2. operation' = [operation EXCEPT ![o].state = confirmed, ![o].slotCharged = FALSE]
    BY DEF Reconcile
  <1>3. /\ confirmed \in SourceExecutionState \ {"queued", "reserved"}
        /\ confirmed \notin ActiveStates
    BY DEF ConfirmedStates, SourceExecutionState, ActiveStates
  <1>4. operation' \in [DOMAIN operation -> OperationRow]
    BY <1>1, <1>2, <1>3 DEF OperationRow
  <1>5. \A q \in DOMAIN operation :
            /\ operation'[q].request = operation[q].request
            /\ operation'[q].generation = operation[q].generation
            /\ operation'[q].slotCharged = IF q = o THEN FALSE ELSE operation[q].slotCharged
            /\ operation'[q].attempts = operation[q].attempts
            /\ operation'[q].state = IF q = o THEN confirmed ELSE operation[q].state
    BY <1>1, <1>2 DEF OperationRow
  <1>6. DOMAIN operation' = DOMAIN operation
    BY <1>4
  <1> QED
    BY <1>3, <1>4, <1>5, <1>6, RowsStep
    DEF Reconcile, IInv, ChargedWhileUncertain, PermitUsedOnce

\* What the surroundings do leaves the tables alone.
LEMMA EnvironmentKeeps ==
    ASSUME IInv, EnvironmentStep
    PROVE  IInv'
  <1>1. operation' = operation /\ group' = group
    BY DEF EnvironmentStep, PauseRun, ResumeRun, CloseRun, Tick
  <1>2. now' \in 0..MaxTime
    BY TimeAssumption
    DEF EnvironmentStep, PauseRun, ResumeRun, CloseRun, Tick, IInv, TypeOK
  <1>3. runState' \in [Runs -> {"open", "paused", "closed"}]
    BY DEF EnvironmentStep, PauseRun, ResumeRun, CloseRun, Tick, Lifecycle!Pause,
           Lifecycle!Resume, Lifecycle!Close, IInv, TypeOK
  <1> QED
    BY <1>1, <1>2, <1>3 DEF IInv, TypeOK, ChargedWhileUncertain, PermitUsedOnce,
                            CapacityRespected, FenceBound, Charged

\* Nor does a stuttering step.
LEMMA StutterKeeps ==
    ASSUME IInv, UNCHANGED vars
    PROVE  IInv'
    BY DEF vars, IInv, TypeOK, ChargedWhileUncertain, PermitUsedOnce, CapacityRespected,
           FenceBound, Charged

\* An empty table satisfies the invariant.
LEMMA InitIInv ==
    ASSUME Init
    PROVE  IInv
  <1>1. DOMAIN operation = {}
    BY DEF Init
  <1>2. TypeOK
    BY <1>1, TimeAssumption DEF Init, TypeOK, Never
  <1>3. ChargedWhileUncertain /\ PermitUsedOnce /\ FenceBound
    BY <1>1 DEF ChargedWhileUncertain, PermitUsedOnce, FenceBound
  <1>4. CapacityRespected
    <2> SUFFICES ASSUME NEW g \in Groups
                 PROVE  Cardinality(Charged(operation, g)) <= Policy[g].maxActive
      BY DEF CapacityRespected
    <2>1. Charged(operation, g) = {}
      BY <1>1 DEF Charged
    <2>2. Policy[g].maxActive \in Nat
      BY PolicyAssumption DEF SourcePolicy
    <2> QED
      BY <2>1, <2>2, FS_EmptySet
  <1> QED
    BY <1>2, <1>3, <1>4 DEF IInv

\* Every handler keeps the invariant.
LEMMA NextIInv ==
    ASSUME IInv, [Next]_vars
    PROVE  IInv'
  <1>1. CASE \E o \in Ops, r \in Requests, t \in Readings : Submit(o, r, t)
    BY <1>1, SubmitStep
  <1>2. CASE \E o \in DOMAIN operation : TryAdmitQueued(o)
    BY <1>2, TryAdmitQueuedStep
  <1>3. CASE \E o \in DOMAIN operation, t \in Readings, s \in Leases :
                 BeginExecution(o, t, s)
    BY <1>3, BeginExecutionStep
  <1>4. CASE \E o \in DOMAIN operation, t \in Readings, s \in Leases : Heartbeat(o, t, s)
    BY <1>4, HeartbeatStep
  <1>5. CASE \E o \in DOMAIN operation, outcome \in Outcomes : RecordResult(o, outcome)
    BY <1>5, RecordResultStep
  <1>6. CASE \E o \in DOMAIN operation : RequestCancellation(o)
    BY <1>6, RequestCancellationStep
  <1>7. CASE \E t \in Readings : ExpireLeases(t)
    BY <1>7, ExpireLeasesStep
  <1>8. CASE \E o \in DOMAIN operation, c \in ConfirmedStates : Reconcile(o, c)
    BY <1>8, ReconcileStep
  <1>9. CASE EnvironmentStep
    BY <1>9, EnvironmentKeeps
  <1>10. CASE UNCHANGED vars
    BY <1>10, StutterKeeps
  <1> QED
    BY <1>1, <1>2, <1>3, <1>4, <1>5, <1>6, <1>7, <1>8, <1>9, <1>10
    DEF Next, ControllerStep

\* The invariant holds in every state the controller reaches.
THEOREM Invariance == Spec => []IInv
  <1>1. Init => IInv
    BY InitIInv
  <1>2. IInv /\ [Next]_vars => IInv'
    BY NextIInv
  <1> QED
    BY <1>1, <1>2, PTL DEF Spec

\* The database keeps its types.
THEOREM TypeCorrect == Spec => []TypeOK
  <1>1. IInv => TypeOK
    BY DEF IInv
  <1> QED
    BY <1>1, Invariance, PTL

\* Acceptance SOURCE-02 for any number of groups, aliases, operations and processes: no mix
\* of handlers and stale clocks makes a group's slot holders outnumber its policy.
THEOREM CapacityIsRespected == Spec => []CapacityRespected
  <1>1. IInv => CapacityRespected
    BY DEF IInv
  <1> QED
    BY <1>1, Invariance, PTL

\* Acceptance SOURCE-03: an operation holds its slots exactly while its outcome is open.
THEOREM SlotsFollowOutcome == Spec => []ChargedWhileUncertain
  <1>1. IInv => ChargedWhileUncertain
    BY DEF IInv
  <1> QED
    BY <1>1, Invariance, PTL

\* No permit starts source I/O twice.
THEOREM PermitsAreUsedOnce == Spec => []PermitUsedOnce
  <1>1. IInv => PermitUsedOnce
    BY DEF IInv
  <1> QED
    BY <1>1, Invariance, PTL

\* No group forgets a permit it issued: its fence is at least every permit's generation.
THEOREM FencesAreBounds == Spec => []FenceBound
  <1>1. IInv => FenceBound
    BY DEF IInv
  <1> QED
    BY <1>1, Invariance, PTL

-----------------------------------------------------------------------------
(* What a step may never do                                                *)

\* A handler that passes the guards of a row update is not working on a terminal row.
LEMMA TerminalRowsKept ==
    ASSUME IInv, [Next]_vars
    PROVE  KeepsTerminalRows
  <1> SUFFICES ASSUME NEW o \in DOMAIN operation, operation[o].state \in TerminalStates
               PROVE  operation'[o] = operation[o]
    BY DEF KeepsTerminalRows
  <1> USE DEF TerminalStates
  <1>0. operation \in [DOMAIN operation -> OperationRow]
    BY DEF IInv, TypeOK
  <1>1. CASE \E p \in Ops, r \in Requests, t \in Readings : Submit(p, r, t)
    <2> PICK p \in Ops, r \in Requests, t \in Readings : Submit(p, r, t)
      BY <1>1
    <2> DEFINE table == Inserted(p, r, t)
    <2>1. p # o /\ table[o] = operation[o] /\ o \in DOMAIN table
      BY DEF Submit, Inserted
    <2> HIDE DEF table
    <2>2. operation' = table \/ Reserve(table, p, t)
      BY DEF Submit, table
    <2> QED
      BY <2>1, <2>2 DEF Reserve
  <1>2. CASE \E p \in DOMAIN operation : TryAdmitQueued(p)
    BY <1>2 DEF TryAdmitQueued, Reserve
  <1>3. CASE \E p \in DOMAIN operation, t \in Readings, s \in Leases :
                 BeginExecution(p, t, s)
    BY <1>0, <1>3 DEF BeginExecution, PermitUsable
  <1>4. CASE \E p \in DOMAIN operation, t \in Readings, s \in Leases : Heartbeat(p, t, s)
    BY <1>0, <1>4 DEF Heartbeat
  <1>5. CASE \E p \in DOMAIN operation, outcome \in Outcomes : RecordResult(p, outcome)
    BY <1>0, <1>5 DEF RecordResult, ResultAccepted
  <1>6. CASE \E p \in DOMAIN operation : RequestCancellation(p)
    BY <1>0, <1>6 DEF RequestCancellation
  <1>7. CASE \E t \in Readings : ExpireLeases(t)
    BY <1>7 DEF ExpireLeases, LeaseExpired
  <1>8. CASE \E p \in DOMAIN operation, c \in ConfirmedStates : Reconcile(p, c)
    BY <1>0, <1>8 DEF Reconcile, Reconcilable
  <1>9. CASE EnvironmentStep \/ UNCHANGED vars
    BY <1>9 DEF EnvironmentStep, PauseRun, ResumeRun, CloseRun, Tick, vars
  <1> QED
    BY <1>1, <1>2, <1>3, <1>4, <1>5, <1>6, <1>7, <1>8, <1>9 DEF Next, ControllerStep

\* A committed end is final.
THEOREM TerminalRowsAreFinal == Spec => TerminalIsFinal
  <1>1. IInv /\ [Next]_vars => [KeepsTerminalRows]_vars
    BY TerminalRowsKept
  <1> QED
    BY <1>1, Invariance, PTL DEF Spec, TerminalIsFinal

\* The step admits o from a table that holds the old rows, o's and no other.
Admits(table, o, t) ==
    /\ TableInv(table)
    /\ o \in DOMAIN table
    /\ table[o].state = "queued"
    /\ DOMAIN table = DOMAIN operation \cup {o}
    /\ \A q \in DOMAIN operation : table[q] = operation[q]
    /\ Admitted(table, o, t)
    /\ Reserve(table, o, t)

Admission == \E o \in Ops, t \in Nat : \E table : Admits(table, o, t)

\* Rows keep their request and generation, and a new row has no permit.
KeepsPermits ==
    /\ DOMAIN operation \subseteq DOMAIN operation'
    /\ \A q \in DOMAIN operation : /\ operation'[q].request = operation[q].request
                                   /\ operation'[q].generation = operation[q].generation
    /\ \A q \in DOMAIN operation' \ DOMAIN operation : operation'[q].generation = 0

NoAdmission ==
    /\ group' = group
    /\ \A o \in Ops : ~Reserves(o)
    /\ KeepsPermits

\* Only submit and try_admit_queued issue permits and touch groups.
LEMMA AdmissionOnly ==
    ASSUME IInv, [Next]_vars
    PROVE  NoAdmission \/ Admission
  <1>0. operation \in [DOMAIN operation -> OperationRow] /\ DOMAIN operation \subseteq Ops
    BY DEF IInv, TypeOK
  <1>1. CASE \E o \in Ops, r \in Requests, t \in Readings : Submit(o, r, t)
    <2> PICK o \in Ops, r \in Requests, t \in Readings : Submit(o, r, t)
      BY <1>1
    <2> DEFINE table == Inserted(o, r, t)
    <2>1. t \in Nat /\ o \notin DOMAIN operation
      BY ReadingType DEF IInv, Submit
    <2>2. TableInv(table)
      BY <2>1, InsertedTableInv
    <2>3. /\ o \in DOMAIN table
          /\ DOMAIN table = DOMAIN operation \cup {o}
          /\ \A q \in DOMAIN operation : table[q] = operation[q]
          /\ table[o].state = "queued"
      BY <2>1 DEF Inserted, QueuedRow
    <2>5. \/ Admitted(table, o, t) /\ Reserve(table, o, t)
          \/ operation' = table /\ group' = group
      BY DEF Submit
    <2> HIDE DEF table
    <2>6. CASE Admitted(table, o, t) /\ Reserve(table, o, t)
      BY <2>1, <2>2, <2>3, <2>6 DEF Admits, Admission
    <2>7. CASE operation' = table /\ group' = group
      <3>1. table[o].generation = 0
        BY DEF table, Inserted, QueuedRow
      <3> QED
        BY <2>1, <2>3, <2>7, <3>1 DEF Reserves, NoAdmission, KeepsPermits
    <2> QED
      BY <2>5, <2>6, <2>7
  <1>2. CASE \E o \in DOMAIN operation : TryAdmitQueued(o)
    <2>1. now \in Nat
      BY TimeAssumption DEF IInv, TypeOK
    <2> QED
      <3> PICK o \in DOMAIN operation : TryAdmitQueued(o)
        BY <1>2
      <3>1. Admits(operation, o, now)
        BY <1>0, OperationTableInv DEF TryAdmitQueued, Admits
      <3> QED
        BY <1>0, <2>1, <3>1 DEF Admission
  <1>3. CASE \E o \in DOMAIN operation, t \in Readings, s \in Leases :
                 BeginExecution(o, t, s)
    BY <1>0, <1>3 DEF BeginExecution, Reserves, NoAdmission, KeepsPermits, OperationRow
  <1>4. CASE \E o \in DOMAIN operation, t \in Readings, s \in Leases : Heartbeat(o, t, s)
    BY <1>0, <1>4 DEF Heartbeat, Reserves, NoAdmission, KeepsPermits, OperationRow
  <1>5. CASE \E o \in DOMAIN operation, outcome \in Outcomes : RecordResult(o, outcome)
    <2>1. \A outcome \in Outcomes : outcome.state # "reserved"
      BY OutcomesAssumption DEF OperationResult, ResultStates, ConfirmedStates
    <2> QED
      BY <1>0, <1>5, <2>1 DEF RecordResult, Reserves, NoAdmission, KeepsPermits, OperationRow
  <1>6. CASE \E o \in DOMAIN operation : RequestCancellation(o)
    BY <1>0, <1>6 DEF RequestCancellation, Reserves, NoAdmission, KeepsPermits, OperationRow
  <1>7. CASE \E t \in Readings : ExpireLeases(t)
    <2>1. \A row \in OperationRow : /\ Lost(row).state = "outcome-unknown"
                                    /\ Lost(row).request = row.request
                                    /\ Lost(row).generation = row.generation
      BY DEF Lost, OperationRow
    <2>2. /\ DOMAIN operation' = DOMAIN operation
          /\ group' = group
          /\ \A q \in DOMAIN operation :
                operation'[q] = operation[q] \/ operation'[q] = Lost(operation[q])
      BY <1>7 DEF ExpireLeases
    <2> QED
      BY <1>0, <2>1, <2>2 DEF Reserves, NoAdmission, KeepsPermits
  <1>8. CASE \E o \in DOMAIN operation, c \in ConfirmedStates : Reconcile(o, c)
    BY <1>0, <1>8 DEF Reconcile, ConfirmedStates, Reserves, NoAdmission,
                          KeepsPermits, OperationRow
  <1>9. CASE EnvironmentStep \/ UNCHANGED vars
    BY <1>9 DEF EnvironmentStep, PauseRun, ResumeRun, CloseRun, Tick, vars, Reserves,
                    NoAdmission, KeepsPermits
  <1> QED
    BY <1>1, <1>2, <1>3, <1>4, <1>5, <1>6, <1>7, <1>8, <1>9 DEF Next, ControllerStep

\* The new generation is above every generation its groups and their operations have.
LEMMA AdmissionOutranks ==
    ASSUME IInv, [Next]_vars
    PROVE  OutranksEarlierPermits
  <1>1. CASE NoAdmission
    BY <1>1 DEF NoAdmission, OutranksEarlierPermits
  <1>2. CASE Admission
    <2> PICK o \in Ops, t \in Nat : \E table : Admits(table, o, t)
      BY <1>2 DEF Admission
    <2> PICK table : Admits(table, o, t)
      OBVIOUS
    <2> DEFINE r == table[o].request
    <2>1. r \in Requests /\ r.groups \subseteq Groups
      BY RequestType DEF Admits, TableInv, OperationRow
    <2>2. PICK newest \in {group[g].generation : g \in r.groups},
               expires \in {t + Policy[g].permitTtl : g \in r.groups} \cup {r.deadline} :
            /\ IsNewest(newest, r.groups)
            /\ operation' = [table EXCEPT ![o].state = "reserved",
                                          ![o].slotCharged = TRUE,
                                          ![o].generation = newest + 1,
                                          ![o].permitExpires = expires]
      <3>1. Reserve(table, o, t)
        BY DEF Admits
      <3> QED
        BY <3>1 DEF Reserve
    <2>3. newest \in Nat
      BY <2>1, <2>2 DEF IInv, TypeOK
    <2>4. /\ operation'[o].generation = newest + 1
          /\ operation'[o].request = r
          /\ \A q \in DOMAIN operation : q # o => operation'[q] = operation[q]
      BY <2>2 DEF Admits, TableInv, OperationRow
    <2>5. ASSUME NEW q \in Ops, Reserves(q)
          PROVE  q = o
      <3>1. q \in DOMAIN operation \cup {o}
        BY <2>2, <2>5 DEF Reserves, Admits
      <3>2. q \in DOMAIN operation => operation'[q] # operation[q]
        BY <2>5 DEF Reserves
      <3> QED
        BY <2>4, <3>1, <3>2
    <2>6. ASSUME NEW p \in DOMAIN operation,
                 operation[p].request.groups \cap r.groups # {}
          PROVE  operation[p].generation < newest + 1
      <3>1. PICK g \in r.groups : g \in operation[p].request.groups
        BY <2>6
      <3>2. operation[p].generation <= group[g].generation
        BY <3>1 DEF IInv, FenceBound
      <3>3. group[g].generation <= newest
        BY <2>2 DEF IsNewest
      <3>4. operation[p].generation \in Nat /\ group[g].generation \in Nat
        BY <2>1 DEF IInv, TypeOK, OperationRow
      <3> QED
        BY <2>3, <3>2, <3>3, <3>4
    <2> QED
      BY <2>4, <2>5, <2>6 DEF OutranksEarlierPermits
  <1> QED
    BY <1>1, <1>2, AdmissionOnly

\* Fencing generations order the permits of every group by the time they were issued.
THEOREM FencesAdvance == Spec => FenceAdvances
  <1>1. IInv /\ [Next]_vars => [OutranksEarlierPermits]_vars
    BY AdmissionOutranks
  <1> QED
    BY <1>1, Invariance, PTL DEF Spec, FenceAdvances

\* The reading that passed the rate check is the one the group is stamped with.
LEMMA AdmissionIsSpaced ==
    ASSUME IInv, [Next]_vars
    PROVE  SpacesAdmissions
  <1>1. CASE NoAdmission
    BY <1>1 DEF NoAdmission, SpacesAdmissions
  <1>2. CASE Admission
    <2> PICK o \in Ops, t \in Nat : \E table : Admits(table, o, t)
      BY <1>2 DEF Admission
    <2> PICK table : Admits(table, o, t)
      OBVIOUS
    <2> DEFINE r == table[o].request
    <2> SUFFICES ASSUME NEW g \in Groups,
                        group[g].lastAdmitted # Never,
                        group'[g].generation # group[g].generation
                 PROVE  group'[g].lastAdmitted
                            >= group[g].lastAdmitted + Policy[g].minInterval
      BY DEF SpacesAdmissions
    <2>1. PICK newest : group' = [h \in Groups |-> IF h \in r.groups
                                                   THEN Stamped(h, newest + 1, t)
                                                   ELSE group[h]]
      BY DEF Admits, Reserve
    <2>2. g \in r.groups
      BY <2>1
    <2>3. group'[g].lastAdmitted = t
      BY <2>1, <2>2 DEF Stamped
    <2>4. ~TooSoon(g, t)
      <3>1. GroupVerdict(table, r, g, t) = "clear"
        BY <2>2 DEF Admits, Admitted, AllClear
      <3> QED
        BY <3>1 DEF GroupVerdict
    <2>5. group[g].lastAdmitted \in Nat /\ Policy[g].minInterval \in Nat
      BY PolicyAssumption DEF IInv, TypeOK, SourcePolicy
    <2> QED
      BY <2>3, <2>4, <2>5 DEF TooSoon
  <1> QED
    BY <1>1, <1>2, AdmissionOnly

\* A group's admissions are spaced by its minimum interval, whatever the lag of the clocks.
THEOREM AdmissionsAreSpaced == Spec => AdmissionSpacing
  <1>1. IInv /\ [Next]_vars => [SpacesAdmissions]_vars
    BY AdmissionIsSpaced
  <1> QED
    BY <1>1, Invariance, PTL DEF Spec, AdmissionSpacing

-----------------------------------------------------------------------------
(* Policies and budgets of what was admitted                               *)

\* What an admission leaves in the table.
LEMMA AdmittedRows ==
    ASSUME NEW o \in Ops, NEW t \in Nat, NEW table, Admits(table, o, t)
    PROVE  /\ DOMAIN operation' = DOMAIN operation \cup {o}
           /\ operation'[o].request = table[o].request
           /\ table[o].request \in Requests
           /\ \A q \in DOMAIN operation : q # o => operation'[q] = operation[q]
  <1>1. PICK newest, expires :
          operation' = [table EXCEPT ![o].state = "reserved",
                                     ![o].slotCharged = TRUE,
                                     ![o].generation = newest + 1,
                                     ![o].permitExpires = expires]
    <2>1. Reserve(table, o, t)
      BY DEF Admits
    <2> QED
      BY <2>1 DEF Reserve
  <1> QED
    BY <1>1 DEF Admits, TableInv, OperationRow

\* The admitted row holds its slots.
LEMMA AdmittedRowCharged ==
    ASSUME NEW o \in Ops, NEW t \in Nat, NEW table, Admits(table, o, t)
    PROVE  operation'[o].slotCharged = TRUE /\ operation'[o].state = "reserved"
  <1>1. PICK newest, expires :
          operation' = [table EXCEPT ![o].state = "reserved",
                                     ![o].slotCharged = TRUE,
                                     ![o].generation = newest + 1,
                                     ![o].permitExpires = expires]
    <2>1. Reserve(table, o, t)
      BY DEF Admits
    <2> QED
      BY <2>1 DEF Reserve
  <1> QED
    BY <1>1 DEF Admits, TableInv, OperationRow

\* An admission passed every check of every group it names, and permits stay as they are.
LEMMA PolicyKept ==
    ASSUME IInv, AdmittedWithinPolicy, [Next]_vars
    PROVE  AdmittedWithinPolicy'
  <1>1. CASE NoAdmission
    BY <1>1 DEF NoAdmission, KeepsPermits, AdmittedWithinPolicy, Allowed
  <1>2. CASE Admission
    <2> PICK o \in Ops, t \in Nat : \E table : Admits(table, o, t)
      BY <1>2 DEF Admission
    <2> PICK table : Admits(table, o, t)
      OBVIOUS
    <2>1. Allowed(table[o].request)
      BY DEF Admits, Admitted, AllClear, GroupVerdict, Allowed
    <2> SUFFICES ASSUME NEW q \in DOMAIN operation', operation'[q].generation > 0
                 PROVE  Allowed(operation'[q].request)
      BY DEF AdmittedWithinPolicy
    <2>2. CASE q = o
      BY <2>1, <2>2, AdmittedRows
    <2>3. CASE q # o
      <3>1. q \in DOMAIN operation /\ operation'[q] = operation[q]
        BY <2>3, AdmittedRows
      <3> QED
        BY <3>1 DEF AdmittedWithinPolicy
    <2> QED
      BY <2>2, <2>3
  <1> QED
    BY <1>1, <1>2, AdmissionOnly

\* Whatever queue, window or budget held an operation back, and whichever handler admitted
\* it, its permit is one that every group it names allows.
THEOREM AdmissionsArePermitted == Spec => []AdmittedWithinPolicy
  <1>1. Init => AdmittedWithinPolicy
    BY DEF Init, AdmittedWithinPolicy
  <1>2. IInv /\ AdmittedWithinPolicy /\ [Next]_vars => AdmittedWithinPolicy'
    BY PolicyKept
  <1> QED
    BY <1>1, <1>2, Invariance, PTL DEF Spec

\* The operations of r's run and cost class that were admitted to g.
AdmittedTo(table, r, g) ==
    {p \in SameBudget(table, r) : table[p].generation > 0 /\ g \in table[p].request.groups}

\* The bound for every request, whether or not a row of it is there: a new row then brings
\* no new bound with it.
BudgetInv ==
    \A r \in Requests, g \in Groups :
        Cardinality(AdmittedTo(operation, r, g)) <= Policy[g].maxRunOps

\* The row that asks counts itself, so one more admission stays within the budget.
LEMMA BudgetKept ==
    ASSUME IInv, BudgetInv, [Next]_vars
    PROVE  BudgetInv'
  <1> SUFFICES ASSUME NEW r \in Requests, NEW g \in Groups
               PROVE  Cardinality(AdmittedTo(operation', r, g)) <= Policy[g].maxRunOps
    BY DEF BudgetInv
  <1>0. Cardinality(AdmittedTo(operation, r, g)) <= Policy[g].maxRunOps
    BY DEF BudgetInv
  <1>1. CASE NoAdmission
    <2>1. AdmittedTo(operation', r, g) = AdmittedTo(operation, r, g)
      BY <1>1 DEF NoAdmission, KeepsPermits, AdmittedTo, SameBudget
    <2> QED
      BY <1>0, <2>1
  <1>2. CASE Admission
    <2> PICK o \in Ops, t \in Nat : \E table : Admits(table, o, t)
      BY <1>2 DEF Admission
    <2> PICK table : Admits(table, o, t)
      OBVIOUS
    <2> DEFINE mine == table[o].request
    <2>1. /\ DOMAIN table = DOMAIN operation \cup {o}
          /\ DOMAIN table \subseteq Ops
          /\ \A q \in DOMAIN operation : table[q] = operation[q]
      BY DEF Admits, TableInv
    <2>2. CASE mine.run = r.run /\ mine.costClass = r.costClass /\ g \in mine.groups
      <3>1. SameBudget(table, mine) = SameBudget(table, r)
        BY <2>2 DEF SameBudget
      <3>2. AdmittedTo(operation', r, g) \in SUBSET SameBudget(table, mine)
        BY <2>1, <3>1, AdmittedRows DEF AdmittedTo, SameBudget
      <3>3. SameBudget(table, mine) \in SUBSET Ops
        BY <2>1 DEF SameBudget
      <3>4. IsFiniteSet(SameBudget(table, mine))
        BY <3>3, OpsAssumption, FS_Subset
      <3>5. /\ IsFiniteSet(AdmittedTo(operation', r, g))
            /\ Cardinality(AdmittedTo(operation', r, g))
                   <= Cardinality(SameBudget(table, mine))
        BY <3>2, <3>4, FS_Subset
      <3>6. GroupVerdict(table, mine, g, t) = "clear"
        BY <2>2 DEF Admits, Admitted, AllClear
      <3>7. ~(Cardinality(SameBudget(table, mine)) >= Policy[g].maxRunOps)
        BY <3>6 DEF GroupVerdict, BudgetExhausted
      <3>8. /\ Cardinality(SameBudget(table, mine)) \in Nat
            /\ Cardinality(AdmittedTo(operation', r, g)) \in Nat
            /\ Policy[g].maxRunOps \in Nat
        BY <3>4, <3>5, FS_CardinalityType, PolicyAssumption DEF SourcePolicy
      <3> QED
        BY <3>5, <3>7, <3>8
    <2>3. CASE ~(mine.run = r.run /\ mine.costClass = r.costClass /\ g \in mine.groups)
      <3>1. AdmittedTo(operation', r, g) = AdmittedTo(operation, r, g)
        BY <2>1, <2>3, AdmittedRows DEF AdmittedTo, SameBudget
      <3> QED
        BY <1>0, <3>1
    <2> QED
      BY <2>2, <2>3
  <1> QED
    BY <1>1, <1>2, AdmissionOnly

\* No run ever gets more operations of a cost class admitted to a group than the group's
\* budget for a run, for any number of operations, groups and requests.
THEOREM RunOperationsAreBounded == Spec => []RunOperationsBounded
  <1>1. Init => BudgetInv
    <2> SUFFICES ASSUME Init, NEW r \in Requests, NEW g \in Groups
                 PROVE  Cardinality(AdmittedTo(operation, r, g)) <= Policy[g].maxRunOps
      BY DEF BudgetInv
    <2>1. AdmittedTo(operation, r, g) = {}
      BY DEF Init, AdmittedTo, SameBudget
    <2>2. Policy[g].maxRunOps \in Nat
      BY PolicyAssumption DEF SourcePolicy
    <2> QED
      BY <2>1, <2>2, FS_EmptySet
  <1>2. IInv /\ BudgetInv /\ [Next]_vars => BudgetInv'
    BY BudgetKept
  <1>3. IInv /\ BudgetInv => RunOperationsBounded
    <2> SUFFICES ASSUME IInv, BudgetInv, NEW o \in DOMAIN operation,
                        NEW g \in operation[o].request.groups
                 PROVE  Cardinality(AdmittedTo(operation, operation[o].request, g))
                            <= Policy[g].maxRunOps
      BY DEF RunOperationsBounded, AdmittedTo
    <2>1. operation[o].request \in Requests
      BY DEF IInv, TypeOK, OperationRow
    <2>2. g \in Groups
      BY <2>1, RequestType
    <2> QED
      BY <2>1, <2>2 DEF BudgetInv
  <1> QED
    BY <1>1, <1>2, <1>3, Invariance, PTL DEF Spec

-----------------------------------------------------------------------------
(* The bytes of a set of rows.  The library's induction theorems take a    *)
(* predicate as a parameter; the two lemmas here, for the sets of elements *)
(* that satisfy one, do what they do, from WFMin.                          *)

\* What holds of a finite set's subset as soon as it holds of the subset less any one element
\* holds of all its subsets: a smallest exception would have none.
LEMMA SubsetInduction ==
    ASSUME NEW S, IsFiniteSet(S), NEW T,
           \A s \in SUBSET S : (\A x \in s : s \ {x} \in T) => s \in T
    PROVE  SUBSET S \subseteq T
  <1> DEFINE bad == (SUBSET S) \ T
  <1> SUFFICES ASSUME bad # {}
               PROVE  FALSE
    OBVIOUS
  <1>1. IsWellFoundedOn(StrictSubsetOrdering(S), SUBSET S)
    <2>1. FiniteSubsetsOf(S) = SUBSET S
      BY FS_FiniteSubsetsOfFinite
    <2>2. IsWellFoundedOn(StrictSubsetOrdering(S), FiniteSubsetsOf(S))
      BY FS_StrictSubsetOrderingWellFounded
    <2> QED
      BY <2>1, <2>2
  <1>2. PICK s \in bad : \A u \in bad : ~(<<u, s>> \in StrictSubsetOrdering(S))
    <2>1. bad \subseteq SUBSET S
      OBVIOUS
    <2> HIDE DEF bad
    <2> QED
      BY <1>1, <2>1, WFMin
  <1>3. ASSUME NEW x \in s
        PROVE  s \ {x} \in T
    <2>1. <<s \ {x}, s>> \in StrictSubsetOrdering(S)
      BY DEF StrictSubsetOrdering
    <2> QED
      BY <1>2, <2>1
  <1> QED
    BY <1>3

\* Likewise for the numbers up to any n.
LEMMA NumberInduction ==
    ASSUME NEW N, 0 \in N, \A n \in Nat : n \in N => n + 1 \in N
    PROVE  Nat \subseteq N
  <1> DEFINE bad == Nat \ N
  <1> SUFFICES ASSUME bad # {}
               PROVE  FALSE
    OBVIOUS
  <1>1. PICK n \in bad : \A m \in bad : ~(<<m, n>> \in OpToRel(<, Nat))
    <2>1. bad \subseteq Nat
      OBVIOUS
    <2> HIDE DEF bad
    <2> QED
      BY <2>1, NatLessThanWellFounded, WFMin
  <1>2. n # 0 /\ n \in Nat
    OBVIOUS
  <1>3. n - 1 \in Nat /\ n - 1 < n
    BY <1>2
  <1>4. <<n - 1, n>> \in OpToRel(<, Nat)
    BY <1>2, <1>3 DEF OpToRel
  <1>5. n - 1 \in N
    BY <1>1, <1>3, <1>4
  <1>6. (n - 1) + 1 \in N
    BY <1>3, <1>5
  <1> QED
    BY <1>2, <1>6

\* The element that a fold of s takes first.
Pick(s) == CHOOSE x \in s : TRUE

\* it sums the bytes of every set of rows in a family, as MapThenSumSet does.
IsByteSum(it, table, family) ==
    it = [s \in family |->
             IF s = {} THEN 0
             ELSE table[CHOOSE x \in s : TRUE].result.bytes
                      + it[s \ {CHOOSE x \in s : TRUE}]]

\* BytesOf is a value of that recursion.
LEMMA BytesOfIsFold ==
    ASSUME NEW table, NEW S
    PROVE  BytesOf(table, S) = (CHOOSE it : IsByteSum(it, table, SUBSET S))[S]
  BY DEF BytesOf, IsByteSum, MapThenSumSet, MapThenFoldSet

\* The recursion goes down these layers: a set and the rest it sums up are one apart.
Layer(S, n) == {s \in SUBSET S : Cardinality(s) <= n}

\* Taking an element out goes one layer down.
LEMMA NextLayer ==
    ASSUME NEW S, IsFiniteSet(S), NEW n \in Nat, NEW s \in Layer(S, n + 1), s # {}
    PROVE  /\ Pick(s) \in s
           /\ s \ {Pick(s)} \in Layer(S, n)
  <1>1. Pick(s) \in s
    BY DEF Pick
  <1>2. IsFiniteSet(s) /\ Cardinality(s) \in Nat
    BY FS_Subset, FS_CardinalityType DEF Layer
  <1>3. Cardinality(s \ {Pick(s)}) = Cardinality(s) - 1
    BY <1>1, <1>2, FS_RemoveElement
  <1> QED
    BY <1>1, <1>2, <1>3 DEF Layer

\* The recursion has a solution: a function on one layer extends to the next.
LEMMA ByteSumExists ==
    ASSUME NEW table, NEW S, IsFiniteSet(S)
    PROVE  \E it : IsByteSum(it, table, SUBSET S)
  <1> DEFINE N == {n \in Nat : \E it : IsByteSum(it, table, Layer(S, n))}
  <1>1. 0 \in N
    <2> DEFINE it == [s \in Layer(S, 0) |-> 0]
    <2>1. \A s \in Layer(S, 0) : s = {}
      BY FS_Subset, FS_CardinalityType, FS_EmptySet DEF Layer
    <2>2. IsByteSum(it, table, Layer(S, 0))
      BY <2>1 DEF IsByteSum
    <2> QED
      BY <2>2
  <1>2. ASSUME NEW n \in Nat, n \in N
        PROVE  n + 1 \in N
    <2>1. PICK it : IsByteSum(it, table, Layer(S, n))
      BY <1>2
    <2> DEFINE
         w(s) == table[Pick(s)].result.bytes
         more == [s \in Layer(S, n + 1) |-> IF s = {} THEN 0 ELSE w(s) + it[s \ {Pick(s)}]]
    <2>2. \A s \in Layer(S, n) : /\ s \in Layer(S, n + 1)
                                 /\ it[s] = IF s = {} THEN 0 ELSE w(s) + it[s \ {Pick(s)}]
      <3>1. Layer(S, n) \subseteq Layer(S, n + 1)
        BY FS_Subset, FS_CardinalityType DEF Layer
      <3> QED
        BY <2>1, <3>1 DEF IsByteSum, Pick
    <2>3. \A s \in Layer(S, n) : more[s] = it[s]
      BY <2>2
    <2>4. \A s \in Layer(S, n + 1) :
              more[s] = IF s = {} THEN 0 ELSE w(s) + more[s \ {Pick(s)}]
      BY <2>3, NextLayer
    <2>5. more = [s \in Layer(S, n + 1) |->
                      IF s = {} THEN 0 ELSE w(s) + more[s \ {Pick(s)}]]
      BY <2>4
    <2>6. IsByteSum(more, table, Layer(S, n + 1))
      BY <2>5 DEF IsByteSum, Pick
    <2> QED
      BY <2>6
  <1>3. Cardinality(S) \in N
    <2>1. Nat \subseteq N
      <3> HIDE DEF N
      <3> QED
        BY <1>1, <1>2, NumberInduction
    <2> QED
      BY <2>1, FS_CardinalityType
  <1>4. Layer(S, Cardinality(S)) = SUBSET S
    BY FS_Subset DEF Layer
  <1> QED
    BY <1>3, <1>4

\* It has one only: the sum of a set does not depend on the larger set it is a part of.
LEMMA ByteSumUnique ==
    ASSUME NEW table, NEW S, IsFiniteSet(S), NEW R \in SUBSET S,
           NEW f, IsByteSum(f, table, SUBSET R), NEW g, IsByteSum(g, table, SUBSET S)
    PROVE  f[R] = g[R]
  <1> DEFINE T == {s \in SUBSET R : f[s] = g[s]}
  <1>1. ASSUME NEW s \in SUBSET R, \A x \in s : s \ {x} \in T
        PROVE  s \in T
    <2>1. /\ f[s] = IF s = {} THEN 0
                    ELSE table[Pick(s)].result.bytes + f[s \ {Pick(s)}]
          /\ g[s] = IF s = {} THEN 0
                    ELSE table[Pick(s)].result.bytes + g[s \ {Pick(s)}]
      BY DEF IsByteSum, Pick
    <2>2. s # {} => Pick(s) \in s
      BY DEF Pick
    <2> QED
      BY <1>1, <2>1, <2>2
  <1>2. IsFiniteSet(R)
    BY FS_Subset
  <1>3. SUBSET R \subseteq T
    <2> HIDE DEF T
    <2> QED
      BY <1>1, <1>2, SubsetInduction
  <1> QED
    BY <1>3

\* What BytesOf computes: the CHOOSE in the fold is of a function that exists.
LEMMA BytesOfRecursion ==
    ASSUME NEW table, NEW S, IsFiniteSet(S)
    PROVE  BytesOf(table, S)
               = IF S = {} THEN 0
                 ELSE table[Pick(S)].result.bytes + BytesOf(table, S \ {Pick(S)})
  <1> DEFINE Sum(R) == CHOOSE it : IsByteSum(it, table, SUBSET R)
  <1>1. ASSUME NEW R, IsFiniteSet(R)
        PROVE  IsByteSum(Sum(R), table, SUBSET R) /\ BytesOf(table, R) = Sum(R)[R]
    BY <1>1, ByteSumExists, BytesOfIsFold
  <1>2. Sum(S)[S] = IF S = {} THEN 0
                    ELSE table[Pick(S)].result.bytes + Sum(S)[S \ {Pick(S)}]
    <2>1. IsByteSum(Sum(S), table, SUBSET S)
      BY <1>1
    <2> HIDE DEF Sum
    <2> QED
      BY <2>1 DEF IsByteSum, Pick
  <1>3. CASE S # {}
    <2> DEFINE R == S \ {Pick(S)}
    <2>1. IsFiniteSet(R) /\ R \in SUBSET S
      BY FS_Subset
    <2>2. IsByteSum(Sum(R), table, SUBSET R) /\ IsByteSum(Sum(S), table, SUBSET S)
      BY <1>1, <2>1
    <2>3. BytesOf(table, R) = Sum(R)[R] /\ BytesOf(table, S) = Sum(S)[S]
      BY <1>1, <2>1
    <2> HIDE DEF R, Sum
    <2>4. Sum(R)[R] = Sum(S)[R]
      BY <2>1, <2>2, ByteSumUnique
    <2> QED
      BY <1>2, <1>3, <2>3, <2>4 DEF R
  <1>4. CASE S = {}
    BY <1>1, <1>2, <1>4
  <1> QED
    BY <1>3, <1>4

\* The bytes of a set are a number.
LEMMA BytesOfType ==
    ASSUME NEW table, NEW S, IsFiniteSet(S), \A x \in S : table[x].result.bytes \in Nat
    PROVE  BytesOf(table, S) \in Nat
  <1> DEFINE T == {s \in SUBSET S : BytesOf(table, s) \in Nat}
  <1>1. ASSUME NEW s \in SUBSET S, \A x \in s : s \ {x} \in T
        PROVE  s \in T
    <2>1. IsFiniteSet(s)
      BY FS_Subset
    <2>2. CASE s # {}
      <3>1. Pick(s) \in s
        BY <2>2 DEF Pick
      <3>2. BytesOf(table, s \ {Pick(s)}) \in Nat /\ table[Pick(s)].result.bytes \in Nat
        BY <1>1, <3>1
      <3>3. BytesOf(table, s)
                = table[Pick(s)].result.bytes + BytesOf(table, s \ {Pick(s)})
        BY <2>1, <2>2, BytesOfRecursion
      <3> QED
        BY <3>2, <3>3
    <2>3. CASE s = {}
      <3>1. BytesOf(table, s) = 0
        BY <2>1, <2>3, BytesOfRecursion
      <3> QED
        BY <3>1
    <2> QED
      BY <2>2, <2>3
  <1>2. SUBSET S \subseteq T
    <2> HIDE DEF T
    <2> QED
      BY <1>1, SubsetInduction
  <1> QED
    BY <1>2

\* Any row may be counted first.
LEMMA BytesOfRemove ==
    ASSUME NEW table, NEW S, IsFiniteSet(S), \A x \in S : table[x].result.bytes \in Nat,
           NEW o \in S
    PROVE  BytesOf(table, S) = table[o].result.bytes + BytesOf(table, S \ {o})
  <1> DEFINE w(x) == table[x].result.bytes
             T == {s \in SUBSET S : \A x \in s : BytesOf(table, s) = w(x) + BytesOf(table, s \ {x})}
  <1>1. ASSUME NEW s \in SUBSET S, \A x \in s : s \ {x} \in T
        PROVE  s \in T
    <2> SUFFICES ASSUME NEW x \in s
                 PROVE  BytesOf(table, s) = w(x) + BytesOf(table, s \ {x})
      OBVIOUS
    <2> DEFINE y == Pick(s)
    <2>1. y \in s
      BY DEF Pick
    <2>2. BytesOf(table, s) = w(y) + BytesOf(table, s \ {y})
      <3>1. IsFiniteSet(s)
        BY FS_Subset
      <3> QED
        BY <3>1, BytesOfRecursion
    <2>3. CASE x # y
      <3>1. BytesOf(table, s \ {y}) = w(x) + BytesOf(table, (s \ {y}) \ {x})
        BY <1>1, <2>1, <2>3
      <3>2. BytesOf(table, s \ {x}) = w(y) + BytesOf(table, (s \ {x}) \ {y})
        BY <1>1, <2>1, <2>3
      <3>3. (s \ {x}) \ {y} = (s \ {y}) \ {x}
        OBVIOUS
      <3>4. IsFiniteSet((s \ {y}) \ {x}) /\ \A z \in (s \ {y}) \ {x} : w(z) \in Nat
        BY FS_Subset
      <3>5. BytesOf(table, (s \ {y}) \ {x}) \in Nat /\ w(x) \in Nat /\ w(y) \in Nat
        BY <2>1, <3>4, BytesOfType
      <3>6. BytesOf(table, s) = w(x) + (w(y) + BytesOf(table, (s \ {y}) \ {x}))
        <4> HIDE DEF y, w
        <4> QED
          BY <2>2, <3>1, <3>5
      <3>7. BytesOf(table, s \ {x}) = w(y) + BytesOf(table, (s \ {y}) \ {x})
        BY <3>2, <3>3
      <3> HIDE DEF y, w
      <3> QED
        BY <3>6, <3>7
    <2> QED
      BY <2>2, <2>3
  <1>2. SUBSET S \subseteq T
    <2> HIDE DEF T
    <2> QED
      BY <1>1, SubsetInduction
  <1> QED
    BY <1>2

\* More bytes in every row are more bytes in all of them.
LEMMA BytesOfMonotone ==
    ASSUME NEW few, NEW many, NEW S, IsFiniteSet(S),
           \A x \in S : /\ few[x].result.bytes \in Nat /\ many[x].result.bytes \in Nat
                        /\ few[x].result.bytes <= many[x].result.bytes
    PROVE  BytesOf(few, S) <= BytesOf(many, S)
  <1> DEFINE T == {s \in SUBSET S : BytesOf(few, s) <= BytesOf(many, s)}
  <1>1. ASSUME NEW s \in SUBSET S, \A x \in s : s \ {x} \in T
        PROVE  s \in T
    <2> DEFINE rest == s \ {Pick(s)}
    <2>1. IsFiniteSet(s) /\ IsFiniteSet(rest)
      BY FS_Subset
    <2>2. CASE s # {}
      <3>1. Pick(s) \in s
        BY <2>2 DEF Pick
      <3>2. BytesOf(few, rest) \in Nat /\ BytesOf(many, rest) \in Nat
        BY <2>1, BytesOfType
      <3>3. BytesOf(few, rest) <= BytesOf(many, rest)
        BY <1>1, <3>1
      <3>4. /\ BytesOf(few, s) = few[Pick(s)].result.bytes + BytesOf(few, rest)
            /\ BytesOf(many, s) = many[Pick(s)].result.bytes + BytesOf(many, rest)
        BY <2>1, <2>2, BytesOfRecursion
      <3> HIDE DEF rest
      <3> QED
        BY <3>1, <3>2, <3>3, <3>4
    <2>3. CASE s = {}
      BY <2>1, <2>3, BytesOfRecursion
    <2> QED
      BY <2>2, <2>3
  <1>2. SUBSET S \subseteq T
    <2> HIDE DEF T
    <2> QED
      BY <1>1, SubsetInduction
  <1> QED
    BY <1>2

\* Rows without bytes do not count.
LEMMA BytesOfZero ==
    ASSUME NEW table, NEW S, IsFiniteSet(S), \A x \in S : table[x].result.bytes \in Nat,
           NEW R \in SUBSET S, \A x \in S \ R : table[x].result.bytes = 0
    PROVE  BytesOf(table, S) = BytesOf(table, R)
  <1> DEFINE T == {s \in SUBSET S : BytesOf(table, s) = BytesOf(table, s \cap R)}
  <1>1. ASSUME NEW s \in SUBSET S, \A x \in s : s \ {x} \in T
        PROVE  s \in T
    <2> DEFINE y == Pick(s)
    <2>1. IsFiniteSet(s) /\ IsFiniteSet(s \cap R) /\ IsFiniteSet(s \ {y})
      BY FS_Subset
    <2>2. CASE s # {}
      <3>1. y \in s
        BY <2>2 DEF Pick
      <3>2. BytesOf(table, s) = table[y].result.bytes + BytesOf(table, s \ {y})
        BY <2>1, <2>2, BytesOfRecursion
      <3>3. BytesOf(table, s \ {y}) = BytesOf(table, (s \ {y}) \cap R)
        BY <1>1, <3>1
      <3>4. CASE y \in R
        <4>1. BytesOf(table, s \cap R)
                  = table[y].result.bytes + BytesOf(table, (s \cap R) \ {y})
          BY <2>1, <3>1, <3>4, BytesOfRemove
        <4>2. (s \cap R) \ {y} = (s \ {y}) \cap R
          OBVIOUS
        <4> QED
          BY <3>2, <3>3, <4>1, <4>2
      <3>5. CASE y \notin R
        <4>1. (s \ {y}) \cap R = s \cap R
          BY <3>5
        <4>2. table[y].result.bytes = 0
          BY <3>1, <3>5
        <4>3. BytesOf(table, s \ {y}) \in Nat
          BY <2>1, BytesOfType
        <4>4. BytesOf(table, s) = BytesOf(table, s \ {y})
          <5> HIDE DEF y
          <5> QED
            BY <3>2, <4>2, <4>3
        <4>5. BytesOf(table, s) = BytesOf(table, s \cap R)
          BY <3>3, <4>1, <4>4
        <4> HIDE DEF y
        <4> QED
          BY <4>5
      <3> QED
        BY <3>4, <3>5
    <2>3. CASE s = {}
      <3>1. s \cap R = s
        BY <2>3
      <3> QED
        BY <3>1
    <2> QED
      BY <2>2, <2>3
  <1>2. SUBSET S \subseteq T
    <2> HIDE DEF T
    <2> QED
      BY <1>1, SubsetInduction
  <1>3. S \cap R = R
    OBVIOUS
  <1> QED
    BY <1>2, <1>3

-----------------------------------------------------------------------------
(* The byte budget of operations that run one at a time                    *)

\* The bytes a row may still add up to: a row that holds its slots stands for its estimate.
Committed(table) ==
    [o \in DOMAIN table |->
        [result |-> [bytes |-> IF table[o].slotCharged THEN table[o].request.bytes
                                                       ELSE table[o].result.bytes]]]

\* The operations of r's run and cost class run one at a time, because all of them name the
\* group single of capacity one, they collect from g, and none that has given its slots back
\* collected more than its estimate.
OneAtATime(table, r, g, single) ==
    /\ Policy[single].maxActive = 1
    /\ \A p \in SameBudget(table, r) :
           /\ {g, single} \subseteq table[p].request.groups
           /\ table[p].slotCharged \/ table[p].result.bytes <= table[p].request.bytes

\* The strengthening: estimates of running work count as if they were collected, which is
\* what makes the one operation that runs stay within what was left when it was admitted.
BytesInv ==
    \A r \in Requests, g, single \in Groups :
        OneAtATime(operation, r, g, single)
            => BytesOf(Committed(operation), SameBudget(operation, r)) <= Policy[g].maxRunBytes

\* What a step without an admission does to slots: they are only given back, a row without
\* slots stays as it is, and a new row has none.
KeepsCharges ==
    /\ DOMAIN operation \subseteq DOMAIN operation'
    /\ \A q \in DOMAIN operation :
           /\ operation'[q].request = operation[q].request
           /\ operation'[q].slotCharged => operation[q].slotCharged
           /\ ~operation[q].slotCharged => operation'[q] = operation[q]
    /\ \A q \in DOMAIN operation' \ DOMAIN operation :
           operation'[q].slotCharged = FALSE /\ operation'[q].result = NoResult

\* Only an admission charges a slot, and only a row that holds slots gets a result.
LEMMA ChargesKept ==
    ASSUME IInv, [Next]_vars
    PROVE  KeepsCharges \/ Admission
  <1> USE DEF KeepsCharges
  <1>0. operation \in [DOMAIN operation -> OperationRow] /\ DOMAIN operation \subseteq Ops
    BY DEF IInv, TypeOK
  <1>1. CASE \E o \in Ops, r \in Requests, t \in Readings : Submit(o, r, t)
    <2> PICK o \in Ops, r \in Requests, t \in Readings : Submit(o, r, t)
      BY <1>1
    <2> DEFINE table == Inserted(o, r, t)
    <2>1. t \in Nat /\ o \notin DOMAIN operation
      BY ReadingType DEF IInv, Submit
    <2>2. TableInv(table)
      BY <2>1, InsertedTableInv
    <2>3. /\ DOMAIN table = DOMAIN operation \cup {o}
          /\ \A q \in DOMAIN operation : table[q] = operation[q]
          /\ table[o].state = "queued"
          /\ table[o].slotCharged = FALSE /\ table[o].result = NoResult
      BY <2>1 DEF Inserted, QueuedRow
    <2>4. \/ Admitted(table, o, t) /\ Reserve(table, o, t)
          \/ operation' = table
      BY DEF Submit
    <2> HIDE DEF table
    <2>5. CASE Admitted(table, o, t) /\ Reserve(table, o, t)
      BY <2>1, <2>2, <2>3, <2>5 DEF Admits, Admission
    <2>6. CASE operation' = table
      BY <2>1, <2>3, <2>6
    <2> QED
      BY <2>4, <2>5, <2>6
  <1>2. CASE \E o \in DOMAIN operation : TryAdmitQueued(o)
    <2> PICK o \in DOMAIN operation : TryAdmitQueued(o)
      BY <1>2
    <2>1. o \in Ops /\ now \in Nat
      BY <1>0, TimeAssumption DEF IInv, TypeOK
    <2>2. Admits(operation, o, now)
      BY <1>0, OperationTableInv DEF TryAdmitQueued, Admits
    <2> QED
      BY <2>1, <2>2 DEF Admission
  <1>3. CASE \E o \in DOMAIN operation, t \in Readings, s \in Leases :
                 BeginExecution(o, t, s)
    BY <1>0, <1>3 DEF BeginExecution, PermitUsable, IInv, ChargedWhileUncertain,
                      ActiveStates, OperationRow
  <1>4. CASE \E o \in DOMAIN operation, t \in Readings, s \in Leases : Heartbeat(o, t, s)
    BY <1>0, <1>4 DEF Heartbeat, IInv, ChargedWhileUncertain, ActiveStates, OperationRow
  <1>5. CASE \E o \in DOMAIN operation, outcome \in Outcomes : RecordResult(o, outcome)
    <2> PICK o \in DOMAIN operation, outcome \in Outcomes : RecordResult(o, outcome)
      BY <1>5
    <2>1. operation[o].slotCharged
      BY <1>0 DEF RecordResult, ResultAccepted, IInv, PermitUsedOnce, ChargedWhileUncertain,
                  OperationRow, SourceExecutionState, ActiveStates, TerminalStates
    <2> QED
      BY <1>0, <2>1 DEF RecordResult, OperationRow
  <1>6. CASE \E o \in DOMAIN operation : RequestCancellation(o)
    BY <1>0, <1>6 DEF RequestCancellation, IInv, ChargedWhileUncertain, ActiveStates,
                      OperationRow
  <1>7. CASE \E t \in Readings : ExpireLeases(t)
    <2> PICK t \in Readings : ExpireLeases(t)
      BY <1>7
    <2>1. ASSUME NEW q \in DOMAIN operation, LeaseExpired(q, t)
          PROVE  operation[q].slotCharged
      BY <2>1 DEF LeaseExpired, IInv, ChargedWhileUncertain, ActiveStates
    <2>2. \A row \in OperationRow : Lost(row).request = row.request
      BY DEF Lost, OperationRow
    <2> QED
      BY <1>0, <2>1, <2>2 DEF ExpireLeases
  <1>8. CASE \E o \in DOMAIN operation, c \in ConfirmedStates : Reconcile(o, c)
    BY <1>0, <1>8 DEF Reconcile, Reconcilable, IInv, ChargedWhileUncertain, ActiveStates,
                      OperationRow
  <1>9. CASE EnvironmentStep \/ UNCHANGED vars
    BY <1>9 DEF EnvironmentStep, PauseRun, ResumeRun, CloseRun, Tick, vars
  <1> QED
    BY <1>1, <1>2, <1>3, <1>4, <1>5, <1>6, <1>7, <1>8, <1>9 DEF Next, ControllerStep

\* The rows of a budget are finitely many, and their bytes are numbers.
LEMMA CommittedType ==
    ASSUME NEW table, DOMAIN table \subseteq Ops,
           table \in [DOMAIN table -> OperationRow], NEW r
    PROVE  /\ IsFiniteSet(SameBudget(table, r))
           /\ \A p \in DOMAIN table :
                  /\ table[p].request.bytes \in Nat
                  /\ table[p].result.bytes \in Nat
                  /\ Committed(table)[p].result.bytes
                         = IF table[p].slotCharged THEN table[p].request.bytes
                                                   ELSE table[p].result.bytes
  <1>1. IsFiniteSet(SameBudget(table, r))
    BY OpsAssumption, FS_Subset DEF SameBudget
  <1>2. ASSUME NEW p \in DOMAIN table
        PROVE  table[p].request.bytes \in Nat /\ table[p].result.bytes \in Nat
    <2>1. /\ table[p].request \in Requests
          /\ table[p].result \in Outcomes \cup {NoResult}
      BY DEF OperationRow
    <2> QED
      BY <2>1, RequestsAssumption, OutcomesAssumption
      DEF EvidenceRequest, OperationResult, NoResult
  <1> QED
    BY <1>1, <1>2 DEF Committed

\* Giving slots back turns an estimate into at most as many bytes; a new row brings none.
LEMMA ChargesKeepBytes ==
    ASSUME IInv, IInv', BytesInv, KeepsCharges,
           NEW r \in Requests, NEW g \in Groups, NEW single \in Groups,
           OneAtATime(operation', r, g, single)
    PROVE  BytesOf(Committed(operation'), SameBudget(operation', r)) <= Policy[g].maxRunBytes
  <1> DEFINE old == SameBudget(operation, r)
             new == SameBudget(operation', r)
             before(p) == Committed(operation)[p].result.bytes
             after(p) == Committed(operation')[p].result.bytes
  <1>1. /\ DOMAIN operation \subseteq Ops /\ DOMAIN operation' \subseteq Ops
        /\ operation \in [DOMAIN operation -> OperationRow]
        /\ operation' \in [DOMAIN operation' -> OperationRow]
    BY DEF IInv, TypeOK
  <1>2. /\ IsFiniteSet(old) /\ IsFiniteSet(new)
        /\ \A p \in DOMAIN operation :
               /\ operation[p].request.bytes \in Nat /\ operation[p].result.bytes \in Nat
               /\ before(p) = IF operation[p].slotCharged THEN operation[p].request.bytes
                                                          ELSE operation[p].result.bytes
        /\ \A p \in DOMAIN operation' :
               /\ operation'[p].request.bytes \in Nat /\ operation'[p].result.bytes \in Nat
               /\ after(p) = IF operation'[p].slotCharged THEN operation'[p].request.bytes
                                                          ELSE operation'[p].result.bytes
    BY <1>1, CommittedType
  <1>3. /\ old \subseteq new /\ old \subseteq DOMAIN operation
        /\ new \subseteq DOMAIN operation' /\ new \ old \subseteq DOMAIN operation' \ DOMAIN operation
    BY DEF SameBudget, KeepsCharges
  <1>4. OneAtATime(operation, r, g, single)
    BY <1>3 DEF OneAtATime, KeepsCharges
  <1>5. BytesOf(Committed(operation), old) <= Policy[g].maxRunBytes
    BY <1>4 DEF BytesInv
  <1>6. \A p \in new \ old : after(p) = 0
    <2> SUFFICES ASSUME NEW p \in new \ old
                 PROVE  after(p) = 0
      OBVIOUS
    <2>1. operation'[p].slotCharged = FALSE /\ operation'[p].result = NoResult
      BY <1>3 DEF KeepsCharges
    <2> QED
      BY <1>2, <1>3, <2>1 DEF NoResult
  <1>7. \A p \in old : after(p) <= before(p)
    <2> SUFFICES ASSUME NEW p \in old
                 PROVE  after(p) <= before(p)
      OBVIOUS
    <2>1. /\ operation'[p].request = operation[p].request
          /\ operation'[p].slotCharged => operation[p].slotCharged
          /\ ~operation[p].slotCharged => operation'[p] = operation[p]
      BY <1>3 DEF KeepsCharges
    <2>2. operation'[p].slotCharged \/ operation'[p].result.bytes <= operation'[p].request.bytes
      BY <1>3 DEF OneAtATime
    <2> HIDE DEF before, after
    <2> QED
      BY <1>2, <1>3, <2>1, <2>2
  <1>8. /\ \A p \in new : after(p) \in Nat
        /\ \A p \in old : before(p) \in Nat
    BY <1>2, <1>3
  <1>9. BytesOf(Committed(operation'), new) = BytesOf(Committed(operation'), old)
    BY <1>2, <1>3, <1>6, <1>8, BytesOfZero
  <1>10. BytesOf(Committed(operation'), old) <= BytesOf(Committed(operation), old)
    BY <1>2, <1>3, <1>7, <1>8, BytesOfMonotone
  <1>11. /\ BytesOf(Committed(operation'), old) \in Nat
         /\ BytesOf(Committed(operation), old) \in Nat
         /\ Policy[g].maxRunBytes \in Nat
    BY <1>2, <1>3, <1>8, BytesOfType, PolicyAssumption DEF SourcePolicy
  <1> HIDE DEF old, new
  <1> QED
    BY <1>5, <1>9, <1>10, <1>11 DEF new

\* The group of capacity one has room only when no other operation of the budget holds its
\* slots, and then the byte check has counted all they will ever collect.
LEMMA AdmissionKeepsBytes ==
    ASSUME IInv, IInv', BytesInv, Admission,
           NEW r \in Requests, NEW g \in Groups, NEW single \in Groups,
           OneAtATime(operation', r, g, single)
    PROVE  BytesOf(Committed(operation'), SameBudget(operation', r)) <= Policy[g].maxRunBytes
  <1> PICK o \in Ops, t \in Nat : \E table : Admits(table, o, t)
    BY DEF Admission
  <1> PICK table : Admits(table, o, t)
    OBVIOUS
  <1> DEFINE mine == table[o].request
             new == SameBudget(operation', r)
             after(p) == Committed(operation')[p].result.bytes
  <1>1. /\ DOMAIN operation \subseteq Ops /\ DOMAIN operation' \subseteq Ops
        /\ operation \in [DOMAIN operation -> OperationRow]
        /\ operation' \in [DOMAIN operation' -> OperationRow]
    BY DEF IInv, TypeOK
  <1>2. /\ DOMAIN table \subseteq Ops /\ table \in [DOMAIN table -> OperationRow]
        /\ o \in DOMAIN table
        /\ DOMAIN table = DOMAIN operation \cup {o}
        /\ \A q \in DOMAIN operation : table[q] = operation[q]
    BY DEF Admits, TableInv
  <1>3. /\ DOMAIN operation' = DOMAIN operation \cup {o}
        /\ operation'[o].request = mine
        /\ operation'[o].slotCharged = TRUE
        /\ mine \in Requests
        /\ \A q \in DOMAIN operation : q # o => operation'[q] = operation[q]
    BY AdmittedRows, AdmittedRowCharged
  <1>4. /\ IsFiniteSet(new) /\ new \subseteq DOMAIN operation'
        /\ \A p \in DOMAIN operation' :
               /\ operation'[p].request.bytes \in Nat /\ operation'[p].result.bytes \in Nat
               /\ after(p) = IF operation'[p].slotCharged THEN operation'[p].request.bytes
                                                          ELSE operation'[p].result.bytes
    BY <1>1, CommittedType DEF SameBudget
  <1>5. Policy[g].maxRunBytes \in Nat
    BY PolicyAssumption DEF SourcePolicy
  <1>6. CASE mine.run = r.run /\ mine.costClass = r.costClass
    <2>1. SameBudget(table, mine) = new /\ o \in new
      BY <1>2, <1>3, <1>6 DEF SameBudget
    <2>2. g \in mine.groups /\ single \in mine.groups
      BY <1>3, <2>1 DEF OneAtATime
    <2>3. ~CapacityTaken(table, single) /\ ~BudgetExhausted(table, mine, g)
      <3>1. /\ GroupVerdict(table, mine, single, t) = "clear"
            /\ GroupVerdict(table, mine, g, t) = "clear"
        BY <2>2 DEF Admits, Admitted, AllClear
      <3> QED
        BY <3>1 DEF GroupVerdict
    <2>4. Charged(table, single) = {}
      <3>1. /\ IsFiniteSet(Charged(table, single))
            /\ Cardinality(Charged(table, single)) \in Nat
        BY <1>2, ChargedFinite
      <3>2. Cardinality(Charged(table, single)) = 0
        BY <2>3, <3>1 DEF CapacityTaken, OneAtATime
      <3> QED
        BY <3>1, <3>2, FS_EmptySet
    <2>5. BytesOf(table, new) + mine.bytes <= Policy[g].maxRunBytes
      <3>1. /\ IsFiniteSet(new) /\ \A p \in new : table[p].result.bytes \in Nat
            /\ mine.bytes \in Nat
        BY <1>2, <1>3, <1>4, CommittedType
      <3>2. BytesOf(table, new) \in Nat
        BY <3>1, BytesOfType
      <3>3. ~(BytesOf(table, new) + mine.bytes > Policy[g].maxRunBytes)
        BY <2>1, <2>3 DEF BudgetExhausted
      <3> HIDE DEF new, mine
      <3> QED
        BY <1>5, <3>1, <3>2, <3>3
    <2> DEFINE others == new \ {o}
    <2>6. /\ \A p \in others : p \in DOMAIN operation /\ p # o /\ operation'[p] = table[p]
          /\ \A p \in others : table[p].slotCharged = FALSE
      <3>1. \A p \in others : p \in DOMAIN operation /\ p # o /\ operation'[p] = table[p]
        BY <1>2, <1>3, <1>4
      <3>2. \A p \in others : single \in table[p].request.groups
        BY <3>1 DEF OneAtATime
      <3> QED
        BY <1>2, <2>4, <3>1, <3>2 DEF Charged, OperationRow
    <2>7. /\ \A p \in others : after(p) = table[p].result.bytes
          /\ \A p \in others : after(p) \in Nat
          /\ after(o) = mine.bytes /\ mine.bytes \in Nat
          /\ \A p \in new : after(p) \in Nat
      BY <1>3, <1>4, <2>6
    <2>8. BytesOf(Committed(operation'), new) = mine.bytes + BytesOf(Committed(operation'), others)
      BY <1>4, <2>1, <2>7, BytesOfRemove
    <2>9. /\ IsFiniteSet(others)
          /\ BytesOf(Committed(operation'), others) <= BytesOf(table, others)
      <3>1. IsFiniteSet(others)
        BY <1>4, FS_Subset
      <3> QED
        BY <2>7, <3>1, BytesOfMonotone
    <2>10. BytesOf(table, new) = table[o].result.bytes + BytesOf(table, others)
      <3>1. \A p \in new : table[p].result.bytes \in Nat
        BY <1>2, <1>3, <1>4, CommittedType
      <3> QED
        BY <1>4, <2>1, <3>1, BytesOfRemove
    <2>11. /\ table[o].result.bytes \in Nat
           /\ BytesOf(Committed(operation'), others) \in Nat
           /\ BytesOf(table, others) \in Nat
      BY <1>2, <2>7, <2>9, BytesOfType, CommittedType
    <2> HIDE DEF new, others, mine
    <2>12. BytesOf(Committed(operation'), new) <= Policy[g].maxRunBytes
      BY <1>5, <2>5, <2>7, <2>8, <2>9, <2>10, <2>11
    <2> QED
      BY <2>12 DEF new
  <1>7. CASE ~(mine.run = r.run /\ mine.costClass = r.costClass)
    <2>1. /\ new = SameBudget(operation, r)
          /\ \A p \in new : p \in DOMAIN operation /\ operation'[p] = operation[p]
      BY <1>2, <1>3, <1>7 DEF SameBudget
    <2>2. OneAtATime(operation, r, g, single)
      BY <2>1 DEF OneAtATime
    <2>3. BytesOf(Committed(operation), new) <= Policy[g].maxRunBytes
      BY <2>1, <2>2 DEF BytesInv
    <2>4. \A p \in new : /\ after(p) = Committed(operation)[p].result.bytes
                         /\ after(p) \in Nat
      BY <1>4, <2>1 DEF Committed
    <2>5. BytesOf(Committed(operation'), new) <= BytesOf(Committed(operation), new)
      BY <1>4, <2>4, BytesOfMonotone
    <2>6. /\ BytesOf(Committed(operation'), new) \in Nat
          /\ BytesOf(Committed(operation), new) \in Nat
      BY <1>4, <2>4, BytesOfType
    <2> HIDE DEF new
    <2> QED
      BY <1>5, <2>3, <2>5, <2>6 DEF new
  <1> QED
    BY <1>6, <1>7

\* The bytes a run collects from a group, where its operations run one at a time, never
\* exceed the group's budget for a run: not through late results, reconciliation, lost
\* leases or retried admission, for any number of operations, groups and requests.
THEOREM SerialBytesAreBounded == Spec => []SerialBytesBounded
  <1>1. Init => BytesInv
    <2> SUFFICES ASSUME Init, NEW r \in Requests, NEW g \in Groups
                 PROVE  BytesOf(Committed(operation), SameBudget(operation, r))
                            <= Policy[g].maxRunBytes
      BY DEF BytesInv
    <2>1. SameBudget(operation, r) = {}
      BY DEF Init, SameBudget
    <2>2. BytesOf(Committed(operation), {}) = 0
      BY FS_EmptySet, BytesOfRecursion
    <2>3. Policy[g].maxRunBytes \in Nat
      BY PolicyAssumption DEF SourcePolicy
    <2> QED
      BY <2>1, <2>2, <2>3
  <1>2. IInv /\ IInv' /\ BytesInv /\ [Next]_vars => BytesInv'
    BY ChargesKept, ChargesKeepBytes, AdmissionKeepsBytes DEF BytesInv
  <1>3. IInv /\ BytesInv => SerialBytesBounded
    <2> SUFFICES ASSUME IInv, BytesInv, NEW o \in DOMAIN operation,
                        NEW g \in operation[o].request.groups,
                        NEW single \in operation[o].request.groups,
                        Policy[single].maxActive = 1,
                        \A p \in SameBudget(operation, operation[o].request) :
                            {g, single} \subseteq operation[p].request.groups,
                        KeepEstimates(SameBudget(operation, operation[o].request))
                 PROVE  CollectedBytes(SameBudget(operation, operation[o].request))
                            <= Policy[g].maxRunBytes
      BY DEF SerialBytesBounded
    <2> DEFINE r == operation[o].request
               used == SameBudget(operation, r)
    <2>1. /\ r \in Requests /\ g \in Groups /\ single \in Groups
          /\ DOMAIN operation \subseteq Ops
          /\ operation \in [DOMAIN operation -> OperationRow]
      BY RequestType DEF IInv, TypeOK, OperationRow
    <2>2. OneAtATime(operation, r, g, single)
      BY DEF OneAtATime, KeepEstimates
    <2>3. BytesOf(Committed(operation), used) <= Policy[g].maxRunBytes
      BY <2>1, <2>2 DEF BytesInv
    <2>4. /\ IsFiniteSet(used) /\ used \subseteq DOMAIN operation
          /\ \A p \in used :
                 /\ operation[p].result.bytes \in Nat
                 /\ Committed(operation)[p].result.bytes \in Nat
                 /\ operation[p].result.bytes <= Committed(operation)[p].result.bytes
      <3>1. used \subseteq DOMAIN operation
        BY DEF SameBudget
      <3>2. \A p \in used : operation[p].result.bytes <= operation[p].request.bytes
        BY DEF KeepEstimates
      <3> HIDE DEF used
      <3>3. IsFiniteSet(used)
        BY <2>1, CommittedType DEF used
      <3> QED
        BY <2>1, <3>1, <3>2, <3>3, CommittedType
    <2>5. BytesOf(operation, used) <= BytesOf(Committed(operation), used)
      BY <2>4, BytesOfMonotone
    <2>6. /\ BytesOf(operation, used) \in Nat /\ BytesOf(Committed(operation), used) \in Nat
          /\ Policy[g].maxRunBytes \in Nat
      BY <2>1, <2>4, BytesOfType, PolicyAssumption DEF SourcePolicy
    <2> HIDE DEF used, r
    <2>7. BytesOf(operation, used) <= Policy[g].maxRunBytes
      BY <2>3, <2>5, <2>6
    <2> QED
      BY <2>7 DEF used, r, CollectedBytes
  <1> QED
    BY <1>1, <1>2, <1>3, Invariance, PTL DEF Spec

-----------------------------------------------------------------------------
(* Rows that wait                                                          *)

\* A queued row leaves the queue by its own admission, a reserved one by begin_execution:
\* no sweep, result, cancellation or reconciliation reaches either.
LEMMA WaitingRowsStay ==
    ASSUME IInv, [Next]_vars,
           NEW o \in DOMAIN operation, operation[o].state \in {"queued", "reserved"}
    PROVE  \/ operation'[o] = operation[o]
           \/ /\ operation[o].state = "queued"
              /\ \E t \in Nat : Admits(operation, o, t)
           \/ \E t \in Readings, s \in Leases : BeginExecution(o, t, s)
  <1>0. operation \in [DOMAIN operation -> OperationRow]
    BY DEF IInv, TypeOK
  <1>1. CASE \E p \in Ops, r \in Requests, t \in Readings : Submit(p, r, t)
    <2> PICK p \in Ops, r \in Requests, t \in Readings : Submit(p, r, t)
      BY <1>1
    <2> DEFINE table == Inserted(p, r, t)
    <2>1. p # o /\ table[o] = operation[o] /\ o \in DOMAIN table
      BY DEF Submit, Inserted
    <2> HIDE DEF table
    <2>2. operation' = table \/ Reserve(table, p, t)
      BY DEF Submit, table
    <2> QED
      BY <2>1, <2>2 DEF Reserve
  <1>2. CASE \E p \in DOMAIN operation : TryAdmitQueued(p)
    <2> PICK p \in DOMAIN operation : TryAdmitQueued(p)
      BY <1>2
    <2>1. CASE p = o
      <3>1. now \in Nat /\ o \in Ops
        BY TimeAssumption DEF IInv, TypeOK
      <3>2. Admits(operation, o, now)
        BY <2>1, <3>1, OperationTableInv DEF TryAdmitQueued, Admits
      <3>3. operation[o].state = "queued"
        BY <2>1 DEF TryAdmitQueued
      <3> QED
        BY <3>1, <3>2, <3>3
    <2>2. CASE p # o
      <3>1. Reserve(operation, p, now)
        BY DEF TryAdmitQueued
      <3> QED
        BY <2>2, <3>1 DEF Reserve
    <2> QED
      BY <2>1, <2>2
  <1>3. CASE \E p \in DOMAIN operation, t \in Readings, s \in Leases :
                 BeginExecution(p, t, s)
    <2> PICK p \in DOMAIN operation, t \in Readings, s \in Leases : BeginExecution(p, t, s)
      BY <1>3
    <2>1. p # o => operation'[o] = operation[o]
      BY <1>0 DEF BeginExecution
    <2> QED
      BY <2>1
  <1>4. CASE \E p \in DOMAIN operation, t \in Readings, s \in Leases : Heartbeat(p, t, s)
    BY <1>0, <1>4 DEF Heartbeat
  <1>5. CASE \E p \in DOMAIN operation, outcome \in Outcomes : RecordResult(p, outcome)
    BY <1>0, <1>5 DEF RecordResult, ResultAccepted, IInv, PermitUsedOnce
  <1>6. CASE \E p \in DOMAIN operation : RequestCancellation(p)
    BY <1>0, <1>6 DEF RequestCancellation
  <1>7. CASE \E t \in Readings : ExpireLeases(t)
    BY <1>7 DEF ExpireLeases, LeaseExpired
  <1>8. CASE \E p \in DOMAIN operation, c \in ConfirmedStates : Reconcile(p, c)
    BY <1>0, <1>8 DEF Reconcile, Reconcilable
  <1>9. CASE EnvironmentStep \/ UNCHANGED vars
    BY <1>9 DEF EnvironmentStep, PauseRun, ResumeRun, CloseRun, Tick, vars
  <1> QED
    BY <1>1, <1>2, <1>3, <1>4, <1>5, <1>6, <1>7, <1>8, <1>9 DEF Next, ControllerStep

\* Rows begin in the queue or with a permit, and none returns to the queue.
LEMMA NoneIsRequeued ==
    ASSUME IInv, [Next]_vars
    PROVE  /\ \A o \in DOMAIN operation :
                  operation'[o].state = "queued" => operation[o].state = "queued"
           /\ \A o \in DOMAIN operation' \ DOMAIN operation :
                  operation'[o].state \in {"queued", "reserved"}
  <1>0. operation \in [DOMAIN operation -> OperationRow] /\ DOMAIN operation \subseteq Ops
    BY DEF IInv, TypeOK
  <1>1. CASE \E p \in Ops, r \in Requests, t \in Readings : Submit(p, r, t)
    <2> PICK p \in Ops, r \in Requests, t \in Readings : Submit(p, r, t)
      BY <1>1
    <2> DEFINE table == Inserted(p, r, t)
    <2>1. p \notin DOMAIN operation /\ t \in Nat
      BY ReadingType DEF Submit, IInv
    <2>2. /\ DOMAIN table = DOMAIN operation \cup {p}
          /\ \A q \in DOMAIN operation : table[q] = operation[q]
          /\ table[p].state = "queued"
          /\ table \in [DOMAIN table -> OperationRow]
      BY <2>1, InsertedType DEF Inserted, QueuedRow, IInv
    <2> HIDE DEF table
    <2>3. operation' = table \/ Reserve(table, p, t)
      BY DEF Submit, table
    <2>4. CASE operation' = table
      BY <2>1, <2>2, <2>4
    <2>5. CASE Reserve(table, p, t)
      <3>1. PICK newest, expires :
              operation' = [table EXCEPT ![p].state = "reserved",
                                         ![p].slotCharged = TRUE,
                                         ![p].generation = newest + 1,
                                         ![p].permitExpires = expires]
        BY <2>5 DEF Reserve
      <3>2. operation'[p].state = "reserved"
        BY <2>2, <3>1 DEF OperationRow
      <3>3. /\ DOMAIN operation' = DOMAIN table
            /\ \A q \in DOMAIN operation : operation'[q] = operation[q]
        BY <2>1, <2>2, <3>1
      <3> QED
        BY <2>2, <3>2, <3>3
    <2> QED
      BY <2>3, <2>4, <2>5
  <1>2. CASE \E p \in DOMAIN operation : TryAdmitQueued(p)
    BY <1>0, <1>2 DEF TryAdmitQueued, Reserve, OperationRow
  <1>3. CASE \E p \in DOMAIN operation, t \in Readings, s \in Leases :
                 BeginExecution(p, t, s)
    BY <1>0, <1>3 DEF BeginExecution, OperationRow
  <1>4. CASE \E p \in DOMAIN operation, t \in Readings, s \in Leases : Heartbeat(p, t, s)
    BY <1>0, <1>4 DEF Heartbeat, OperationRow
  <1>5. CASE \E p \in DOMAIN operation, outcome \in Outcomes : RecordResult(p, outcome)
    <2>1. \A outcome \in Outcomes : outcome.state # "queued"
      BY OutcomesAssumption DEF OperationResult, ResultStates, ConfirmedStates
    <2> QED
      BY <1>0, <1>5, <2>1 DEF RecordResult, OperationRow
  <1>6. CASE \E p \in DOMAIN operation : RequestCancellation(p)
    BY <1>0, <1>6 DEF RequestCancellation, OperationRow
  <1>7. CASE \E t \in Readings : ExpireLeases(t)
    <2>1. \A row \in OperationRow : Lost(row).state = "outcome-unknown"
      BY DEF Lost, OperationRow
    <2> QED
      BY <1>0, <1>7, <2>1 DEF ExpireLeases
  <1>8. CASE \E p \in DOMAIN operation, c \in ConfirmedStates : Reconcile(p, c)
    BY <1>0, <1>8 DEF Reconcile, ConfirmedStates, OperationRow
  <1>9. CASE EnvironmentStep \/ UNCHANGED vars
    BY <1>9 DEF EnvironmentStep, PauseRun, ResumeRun, CloseRun, Tick, vars
  <1> QED
    BY <1>1, <1>2, <1>3, <1>4, <1>5, <1>6, <1>7, <1>8, <1>9 DEF Next, ControllerStep

\* The rows with a permit are the ones that have left the queue.
PermitsLeaveQueue ==
    \A o \in DOMAIN operation : operation[o].generation = 0 <=> operation[o].state = "queued"

\* What a step does to permits: a row gets its permit once, with a new generation, and rows
\* that get none in this step keep what they have.
PermitsIssued ==
    /\ DOMAIN operation \subseteq DOMAIN operation'
    /\ \A o \in Ops : Reserves(o) =>
           /\ operation'[o].generation > 0
           /\ o \in DOMAIN operation => operation[o].generation = 0
    /\ \A o \in DOMAIN operation :
           ~Reserves(o) => operation'[o].generation = operation[o].generation
    /\ \A o \in DOMAIN operation' \ DOMAIN operation :
           ~Reserves(o) => operation'[o].generation = 0

\* The one operation that an admission gives a permit.
LEMMA AdmittedReserves ==
    ASSUME IInv, PermitsLeaveQueue, NEW o \in Ops, NEW t \in Nat, NEW table,
           Admits(table, o, t)
    PROVE  PermitsIssued /\ \A q \in Ops : Reserves(q) <=> q = o
  <1>1. PICK newest \in {group[g].generation : g \in table[o].request.groups} : \E expires :
          operation' = [table EXCEPT ![o].state = "reserved",
                                     ![o].slotCharged = TRUE,
                                     ![o].generation = newest + 1,
                                     ![o].permitExpires = expires]
    <2>1. Reserve(table, o, t)
      BY DEF Admits
    <2> QED
      BY <2>1 DEF Reserve
  <1>2. newest \in Nat
    <2>1. table[o].request.groups \subseteq Groups
      BY RequestType DEF Admits, TableInv, OperationRow
    <2> QED
      BY <1>1, <2>1 DEF IInv, TypeOK
  <1>3. /\ DOMAIN operation' = DOMAIN operation \cup {o}
        /\ operation'[o].state = "reserved"
        /\ operation'[o].generation = newest + 1
        /\ \A q \in DOMAIN operation : q # o => operation'[q] = operation[q]
    BY <1>1 DEF Admits, TableInv, OperationRow
  <1>4. o \in DOMAIN operation => operation[o].state = "queued" /\ operation[o].generation = 0
    BY DEF Admits, PermitsLeaveQueue
  <1>5. \A q \in Ops : Reserves(q) <=> q = o
    BY <1>3, <1>4 DEF Reserves
  <1> QED
    BY <1>2, <1>3, <1>4, <1>5 DEF PermitsIssued, IInv, TypeOK

\* Every step issues permits so, and leaves in the queue what has none.
LEMMA PermitsAreIssued ==
    ASSUME IInv, IInv', PermitsLeaveQueue, [Next]_vars
    PROVE  PermitsIssued /\ PermitsLeaveQueue'
  <1>0. DOMAIN operation \subseteq Ops /\ DOMAIN operation' \subseteq Ops
    BY DEF IInv, TypeOK
  <1>1. CASE NoAdmission
    <2>1. PermitsIssued
      BY <1>0, <1>1 DEF NoAdmission, KeepsPermits, PermitsIssued
    <2>2. ASSUME NEW q \in DOMAIN operation'
          PROVE  operation'[q].generation = 0 <=> operation'[q].state = "queued"
      <3>1. CASE q \in DOMAIN operation
        <4>1. operation'[q].generation = operation[q].generation
          BY <1>1, <3>1 DEF NoAdmission, KeepsPermits
        <4>2. operation[q].generation = 0 <=> operation[q].state = "queued"
          BY <3>1 DEF PermitsLeaveQueue
        <4>3. operation'[q].state = "queued" => operation[q].state = "queued"
          BY <3>1, NoneIsRequeued
        <4>4. operation[q].state = "queued" => operation'[q].state = "queued"
          <5> SUFFICES ASSUME operation[q].state = "queued"
                       PROVE  operation'[q].state = "queued"
            OBVIOUS
          <5>1. ~ \E t \in Nat : Admits(operation, q, t)
            BY <1>0, <1>1, <3>1, AdmittedReserves DEF NoAdmission
          <5>2. ~ \E t \in Readings, s \in Leases : BeginExecution(q, t, s)
            BY DEF BeginExecution, PermitUsable
          <5> QED
            BY <3>1, <5>1, <5>2, WaitingRowsStay
        <4> QED
          BY <4>1, <4>2, <4>3, <4>4
      <3>2. CASE q \notin DOMAIN operation
        <4>1. operation'[q].generation = 0 /\ ~Reserves(q)
          BY <1>0, <1>1, <3>2 DEF NoAdmission, KeepsPermits
        <4>2. operation'[q].state \in {"queued", "reserved"}
          BY <3>2, NoneIsRequeued
        <4> QED
          BY <3>2, <4>1, <4>2 DEF Reserves
      <3> QED
        BY <3>1, <3>2
    <2> QED
      BY <2>1, <2>2 DEF PermitsLeaveQueue
  <1>2. CASE Admission
    <2> PICK o \in Ops, t \in Nat : \E table : Admits(table, o, t)
      BY <1>2 DEF Admission
    <2> PICK table : Admits(table, o, t)
      OBVIOUS
    <2>1. PermitsIssued /\ Reserves(o)
      BY AdmittedReserves
    <2>2. ASSUME NEW q \in DOMAIN operation'
          PROVE  operation'[q].generation = 0 <=> operation'[q].state = "queued"
      <3>1. CASE q = o
        BY <2>1, <3>1 DEF PermitsIssued, Reserves
      <3>2. CASE q # o
        BY <3>2, AdmittedRows DEF PermitsLeaveQueue
      <3> QED
        BY <3>1, <3>2
    <2> QED
      BY <2>1, <2>2 DEF PermitsLeaveQueue
  <1> QED
    BY <1>1, <1>2, AdmissionOnly

\* A row has a permit exactly when it has left the queue.
THEOREM PermittedRowsLeftQueue == Spec => []PermitsLeaveQueue
  <1>1. Init => PermitsLeaveQueue
    BY DEF Init, PermitsLeaveQueue
  <1>2. IInv /\ IInv' /\ PermitsLeaveQueue /\ [Next]_vars => PermitsLeaveQueue'
    BY PermitsAreIssued
  <1> QED
    BY <1>1, <1>2, Invariance, PTL DEF Spec

\* A permit too old for any clock reading.
PermitTooOld(o) == operation[o].state = "reserved" /\ operation[o].permitExpires + MaxLag <= now

ExpiredRowsAreStuck == \A o \in DOMAIN operation : PermitTooOld(o) => operation'[o] = operation[o]

\* What expired_permit.cfg shows of one operation holds of every one, in every
\* deployment: no handler ever touches a reservation again whose permit has expired before
\* its I/O, so its slots are never given back.  The branch of begin_execution that was to do
\* so (controller.py:290-293) cannot be reached.
THEOREM ExpiredReservationsAreStuck == Spec => [][ExpiredRowsAreStuck]_vars
  <1>1. ASSUME IInv, [Next]_vars, NEW o \in DOMAIN operation, PermitTooOld(o)
        PROVE  operation'[o] = operation[o]
    <2>1. operation[o].state = "reserved" /\ operation[o].permitExpires + MaxLag <= now
      BY <1>1 DEF PermitTooOld
    <2>2. ~ \E t \in Readings, s \in Leases : BeginExecution(o, t, s)
      <3> SUFFICES ASSUME NEW t \in Readings, t < operation[o].permitExpires
                   PROVE  FALSE
        BY DEF BeginExecution, PermitUsable
      <3>1. t \in Nat /\ now - t <= MaxLag /\ now \in Nat
        BY <1>1, ReadingType, TimeAssumption DEF Readings, IInv, TypeOK
      <3>2. operation[o].permitExpires \in Nat /\ MaxLag \in Nat
        BY <1>1, TimeAssumption DEF IInv, TypeOK, OperationRow
      <3> QED
        BY <2>1, <3>1, <3>2
    <2> QED
      BY <1>1, <2>1, <2>2, WaitingRowsStay
  <1>2. IInv /\ [Next]_vars => [ExpiredRowsAreStuck]_vars
    BY <1>1 DEF ExpiredRowsAreStuck
  <1> QED
    BY <1>2, Invariance, PTL DEF Spec

ForbiddenRowsAreStuck ==
    \A o \in DOMAIN operation :
        operation[o].state = "queued" /\ ~Allowed(operation[o].request)
            => operation'[o] = operation[o]

\* What poisoned_queue.cfg shows of one operation holds of every one: work that was
\* queued although a policy it names forbids it is neither admitted nor refused nor removed
\* by any handler, and stays ahead of what was queued after it.
THEOREM ForbiddenWorkIsStuck == Spec => [][ForbiddenRowsAreStuck]_vars
  <1>1. ASSUME IInv, [Next]_vars, NEW o \in DOMAIN operation,
               operation[o].state = "queued", ~Allowed(operation[o].request)
        PROVE  operation'[o] = operation[o]
    <2>1. ~ \E t \in Nat : Admits(operation, o, t)
      BY <1>1 DEF Admits, Admitted, AllClear, GroupVerdict, Allowed
    <2>2. ~ \E t \in Readings, s \in Leases : BeginExecution(o, t, s)
      BY <1>1 DEF BeginExecution, PermitUsable
    <2> QED
      BY <1>1, <2>1, <2>2, WaitingRowsStay
  <1>2. IInv /\ [Next]_vars => [ForbiddenRowsAreStuck]_vars
    BY <1>1 DEF ForbiddenRowsAreStuck
  <1> QED
    BY <1>2, Invariance, PTL DEF Spec

-----------------------------------------------------------------------------
(* What fencing generations tell a source                                  *)

\* The permits of operations that share a group have different generations.
FencesAreDistinct ==
    \A p, q \in DOMAIN operation :
        /\ p # q
        /\ operation[p].generation > 0
        /\ operation[q].generation > 0
        /\ operation[p].request.groups \cap operation[q].request.groups # {}
        => operation[p].generation # operation[q].generation

\* A new permit's generation is above the others.
LEMMA FencesStayDistinct ==
    ASSUME IInv, FencesAreDistinct, [Next]_vars
    PROVE  FencesAreDistinct'
  <1>1. CASE NoAdmission
    BY <1>1 DEF NoAdmission, KeepsPermits, FencesAreDistinct
  <1>2. CASE Admission
    <2> PICK o \in Ops, t \in Nat : \E table : Admits(table, o, t)
      BY <1>2 DEF Admission
    <2> PICK table : Admits(table, o, t)
      OBVIOUS
    <2>1. /\ DOMAIN operation' = DOMAIN operation \cup {o}
          /\ \A q \in DOMAIN operation : q # o => operation'[q] = operation[q]
          /\ operation'[o].state = "reserved"
      BY AdmittedRows, AdmittedRowCharged
    <2>2. Reserves(o)
      <3>1. o \in DOMAIN operation => operation[o].state = "queued"
        BY DEF Admits
      <3> QED
        BY <2>1, <3>1 DEF Reserves
    <2>3. ASSUME NEW q \in DOMAIN operation, q # o,
                 operation'[q].request.groups \cap operation'[o].request.groups # {}
          PROVE  operation'[q].generation # operation'[o].generation
      <3>1. operation[q].generation < operation'[o].generation
        BY <2>1, <2>2, <2>3, AdmissionOutranks DEF OutranksEarlierPermits
      <3>2. operation[q].generation \in Nat
        BY DEF IInv, TypeOK, OperationRow
      <3> QED
        BY <2>1, <2>3, <3>1, <3>2
    <2> QED
      BY <2>1, <2>3 DEF FencesAreDistinct
  <1> QED
    BY <1>1, <1>2, AdmissionOnly

\* A source that is shown two permits of one of its groups can always tell which of them was
\* issued later, however the operations' other groups differ (controller.py:242 and 266).
THEOREM FencesAreNeverShared == Spec => []FencesAreDistinct
  <1>1. Init => FencesAreDistinct
    BY DEF Init, FencesAreDistinct
  <1>2. IInv /\ FencesAreDistinct /\ [Next]_vars => FencesAreDistinct'
    BY FencesStayDistinct
  <1> QED
    BY <1>1, <1>2, Invariance, PTL DEF Spec

\* The operation that holds the only slot of a group has the group's newest generation.
HolderHasNewestFence ==
    \A g \in Groups : Policy[g].maxActive = 1 =>
        \A o \in Charged(operation, g) : operation[o].generation = group[g].generation

\* No permit is issued in a group whose only slot is held.
LEMMA HolderKeepsNewestFence ==
    ASSUME IInv, HolderHasNewestFence, [Next]_vars
    PROVE  HolderHasNewestFence'
  <1> SUFFICES ASSUME NEW g \in Groups, Policy[g].maxActive = 1,
                      NEW p \in Charged(operation, g)'
               PROVE  operation'[p].generation = group'[g].generation
    BY DEF HolderHasNewestFence
  <1>1. p \in DOMAIN operation' /\ operation'[p].slotCharged /\ g \in operation'[p].request.groups
    BY DEF Charged
  <1>2. CASE NoAdmission /\ KeepsCharges
    <2>1. p \in Charged(operation, g)
      BY <1>1, <1>2 DEF KeepsCharges, Charged
    <2>2. operation'[p].generation = operation[p].generation /\ group' = group
      BY <1>2, <2>1 DEF NoAdmission, KeepsPermits, Charged
    <2> QED
      BY <2>1, <2>2 DEF HolderHasNewestFence
  <1>3. CASE Admission
    <2> PICK o \in Ops, t \in Nat : \E table : Admits(table, o, t)
      BY <1>3 DEF Admission
    <2> PICK table : Admits(table, o, t)
      OBVIOUS
    <2> DEFINE r == table[o].request
    <2>1. PICK newest, expires :
            /\ operation' = [table EXCEPT ![o].state = "reserved",
                                          ![o].slotCharged = TRUE,
                                          ![o].generation = newest + 1,
                                          ![o].permitExpires = expires]
            /\ group' = [h \in Groups |-> IF h \in r.groups
                                          THEN Stamped(h, newest + 1, t)
                                          ELSE group[h]]
      <3>1. Reserve(table, o, t)
        BY DEF Admits
      <3> QED
        BY <3>1 DEF Reserve
    <2>2. /\ operation'[o].generation = newest + 1
          /\ operation'[o].request = r
          /\ DOMAIN operation' = DOMAIN operation \cup {o}
          /\ \A q \in DOMAIN operation : q # o => operation'[q] = operation[q]
      BY <2>1 DEF Admits, TableInv, OperationRow
    <2>3. CASE p = o
      BY <1>1, <2>1, <2>2, <2>3 DEF Stamped
    <2>4. CASE p # o
      <3>1. p \in Charged(operation, g) /\ operation'[p] = operation[p]
        BY <1>1, <2>2, <2>4 DEF Charged
      <3>2. g \notin r.groups
        <4> SUFFICES ASSUME g \in r.groups
                     PROVE  FALSE
          OBVIOUS
        <4>1. ~CapacityTaken(table, g)
          BY DEF Admits, Admitted, AllClear, GroupVerdict
        <4>2. IsFiniteSet(Charged(table, g)) /\ Cardinality(Charged(table, g)) \in Nat
          BY ChargedFinite DEF Admits, TableInv
        <4>3. Cardinality(Charged(table, g)) = 0
          BY <4>1, <4>2 DEF CapacityTaken
        <4>4. p \in Charged(table, g)
          BY <3>1 DEF Charged, Admits
        <4> QED
          BY <4>2, <4>3, <4>4, FS_EmptySet
      <3>3. group'[g] = group[g]
        BY <2>1, <3>2
      <3> QED
        BY <3>1, <3>3 DEF HolderHasNewestFence
    <2> QED
      BY <2>3, <2>4
  <1> QED
    BY <1>2, <1>3, AdmissionOnly, ChargesKept

\* Fencing never shuts out the rightful holder of a group of capacity one: from its admission
\* to its confirmed end, through expiry, lost leases and reconciliation, no permit of the group
\* is newer than its own.
THEOREM HoldersAreNewest == Spec => []HolderHasNewestFence
  <1>1. Init => HolderHasNewestFence
    BY DEF Init, HolderHasNewestFence, Charged
  <1>2. IInv /\ HolderHasNewestFence /\ [Next]_vars => HolderHasNewestFence'
    BY HolderKeepsNewestFence
  <1> QED
    BY <1>1, <1>2, Invariance, PTL DEF Spec

-----------------------------------------------------------------------------
(* Queued work never waits in a circle                                     *)

\* The rows of a table that are queued.
QueuedIn(table) == {o \in DOMAIN table : table[o].state = "queued"}

\* Of the queued rows one was queued first, and first-in-first-out order does not hold it
\* back.  It is for the strict comparison of queued_at: rows queued at the same instant do
\* not wait for each other.
LEMMA QueueHasHead ==
    ASSUME NEW table, table \in [DOMAIN table -> OperationRow], QueuedIn(table) # {}
    PROVE  \E o \in QueuedIn(table) : ~AwaitsEarlier(table, o)
  <1> DEFINE times == {table[o].queuedAt : o \in QueuedIn(table)}
  <1>1. times \subseteq Nat /\ times # {}
    BY DEF QueuedIn, OperationRow
  <1>2. PICK t \in times : \A u \in times : ~(<<u, t>> \in OpToRel(<, Nat))
    <2> HIDE DEF times
    <2> QED
      BY <1>1, NatLessThanWellFounded, WFMin
  <1>3. PICK o \in QueuedIn(table) : table[o].queuedAt = t
    OBVIOUS
  <1>4. \A q \in QueuedIn(table) : ~(table[q].queuedAt < table[o].queuedAt)
    BY <1>1, <1>2, <1>3 DEF OpToRel
  <1> QED
    BY <1>3, <1>4 DEF AwaitsEarlier, QueuedIn

\* Nothing but the clock or the budgets of its run keeps a dispatcher from admitting o now.
AwaitsOnlyClockOrBudget(o) ==
    /\ ~AwaitsEarlier(operation, o)
    /\ \A g \in operation[o].request.groups :
           \/ GroupVerdict(operation, operation[o].request, g, now) = "clear"
           \/ TooSoon(g, now)
           \/ OutsideWindow(g, now)
           \/ BudgetExhausted(operation, operation[o].request, g)

\* Once all that was admitted is accounted for, some queued operation can go on.
NobodyWaitsInACircle ==
    /\ QueuedIn(operation) # {}
    /\ \A o \in DOMAIN operation : operation[o].state \notin ActiveStates
    /\ \A o \in QueuedIn(operation) : Allowed(operation[o].request)
    => \E o \in QueuedIn(operation) : AwaitsOnlyClockOrBudget(o)

\* The order of the queue (controller.py:207-210) and the slots of several groups, which
\* an operation takes all at once, never make queued operations wait for one another: with no
\* execution open and no forbidden request in the queue, one waits for the clock or a budget
\* at most.
THEOREM QueueIsNotDeadlocked == Spec => []NobodyWaitsInACircle
  <1>1. IInv => NobodyWaitsInACircle
    <2> SUFFICES ASSUME IInv,
                        QueuedIn(operation) # {},
                        \A o \in DOMAIN operation : operation[o].state \notin ActiveStates,
                        \A o \in QueuedIn(operation) : Allowed(operation[o].request)
                 PROVE  \E o \in QueuedIn(operation) : AwaitsOnlyClockOrBudget(o)
      BY DEF NobodyWaitsInACircle
    <2>1. operation \in [DOMAIN operation -> OperationRow]
      BY DEF IInv, TypeOK
    <2>2. PICK o \in QueuedIn(operation) : ~AwaitsEarlier(operation, o)
      BY <2>1, QueueHasHead
    <2>3. operation[o].request.groups \subseteq Groups
      BY <2>1, RequestType DEF QueuedIn, OperationRow
    <2>4. ASSUME NEW g \in Groups
          PROVE  ~CapacityTaken(operation, g)
      <3>1. Charged(operation, g) = {}
        BY DEF Charged, IInv, ChargedWhileUncertain
      <3>2. Cardinality(Charged(operation, g)) = 0
        BY <3>1, FS_EmptySet
      <3>3. Policy[g].maxActive \in Nat \ {0}
        BY PolicyAssumption DEF SourcePolicy
      <3> QED
        BY <3>2, <3>3 DEF CapacityTaken
    <2>5. \A g \in operation[o].request.groups :
              Policy[g].zoneKnown /\ ~Forbidden(operation[o].request, g)
      BY DEF Allowed
    <2> QED
      BY <2>2, <2>3, <2>4, <2>5 DEF AwaitsOnlyClockOrBudget, GroupVerdict
  <1> QED
    BY <1>1, Invariance, PTL

-----------------------------------------------------------------------------
(* The runs                                                                *)

\* The controller assumes nothing of runs but RunLifecycle, which AssessmentRuns is proved
\* to implement (AssessmentRuns_proofs, LifecycleImplemented): no handler of the controller
\* changes what a run admits.
THEOREM RunsFollowLifecycle == Spec => Lifecycle!Spec
  <1>1. Init => Lifecycle!Init
    BY DEF Init, Lifecycle!Init
  <1>2. [Next]_vars => [Lifecycle!Next]_runState
    BY DEF Next, ControllerStep, Submit, TryAdmitQueued, BeginExecution, Heartbeat,
           RecordResult, RequestCancellation, ExpireLeases, Reconcile, EnvironmentStep,
           PauseRun, ResumeRun, CloseRun, Tick, Lifecycle!Next, vars
  <1> QED
    BY <1>1, <1>2, PTL DEF Spec, Lifecycle!Spec

-----------------------------------------------------------------------------
(* Equivalent work, when rows are inserted in the order of their readings  *)

SameFlight(p, q) ==
    /\ operation[p].request.workspace = operation[q].request.workspace
    /\ operation[p].request.fingerprint = operation[q].request.fingerprint

\* The strengthening: work in flight is newer than all other work for its evidence, which
\* makes the newest row the one submit has to look at.
InFlightIsNewest ==
    \A p, q \in DOMAIN operation :
        operation[p].state \in InFlightStates /\ SameFlight(p, q) /\ p # q
            => operation[q].queuedAt < operation[p].queuedAt

\* What every step but an insert does to rows, as far as their flights go.
KeepsFlights ==
    /\ DOMAIN operation' = DOMAIN operation
    /\ \A q \in DOMAIN operation :
           /\ operation'[q].request = operation[q].request
           /\ operation'[q].queuedAt = operation[q].queuedAt
           /\ operation'[q].state \in InFlightStates => operation[q].state \in InFlightStates

\* Only submit brings new work into flight.
LEMMA FlightsKept ==
    ASSUME IInv, [Next]_vars
    PROVE  \/ KeepsFlights
           \/ \E o \in Ops, r \in Requests, t \in Readings : Submit(o, r, t)
  <1> USE DEF KeepsFlights, InFlightStates, ActiveStates
  <1>0. operation \in [DOMAIN operation -> OperationRow]
    BY DEF IInv, TypeOK
  <1>1. CASE \E o \in DOMAIN operation : TryAdmitQueued(o)
    BY <1>0, <1>1 DEF TryAdmitQueued, Reserve, OperationRow
  <1>2. CASE \E o \in DOMAIN operation, t \in Readings, s \in Leases :
                 BeginExecution(o, t, s)
    BY <1>0, <1>2 DEF BeginExecution, PermitUsable, OperationRow
  <1>3. CASE \E o \in DOMAIN operation, t \in Readings, s \in Leases : Heartbeat(o, t, s)
    BY <1>0, <1>3 DEF Heartbeat, OperationRow
  <1>4. CASE \E o \in DOMAIN operation, outcome \in Outcomes : RecordResult(o, outcome)
    <2> PICK o \in DOMAIN operation, outcome \in Outcomes : RecordResult(o, outcome)
      BY <1>4
    <2>1. operation[o].state \in InFlightStates
      BY <1>0 DEF RecordResult, ResultAccepted, TerminalStates, OperationRow,
                  SourceExecutionState
    <2> QED
      BY <1>0, <2>1 DEF RecordResult, OperationRow
  <1>5. CASE \E o \in DOMAIN operation : RequestCancellation(o)
    BY <1>0, <1>5 DEF RequestCancellation, OperationRow
  <1>6. CASE \E t \in Readings : ExpireLeases(t)
    <2> PICK t \in Readings : ExpireLeases(t)
      BY <1>6
    <2>1. \A row \in OperationRow : /\ Lost(row).request = row.request
                                    /\ Lost(row).queuedAt = row.queuedAt
      BY DEF Lost, OperationRow
    <2> QED
      BY <1>0, <2>1 DEF ExpireLeases, LeaseExpired
  <1>7. CASE \E o \in DOMAIN operation, c \in ConfirmedStates : Reconcile(o, c)
    BY <1>0, <1>7 DEF Reconcile, Reconcilable, OperationRow
  <1>8. CASE EnvironmentStep \/ UNCHANGED vars
    BY <1>8 DEF EnvironmentStep, PauseRun, ResumeRun, CloseRun, Tick, vars
  <1> QED
    BY <1>1, <1>2, <1>3, <1>4, <1>5, <1>6, <1>7, <1>8 DEF Next, ControllerStep

\* The row submit inserts as the newest finds no other of its evidence in flight.
LEMMA NewestKept ==
    ASSUME IInv, InFlightIsNewest, [Next /\ InsertsNewest]_vars
    PROVE  InFlightIsNewest'
  <1>1. CASE KeepsFlights
    BY <1>1 DEF KeepsFlights, InFlightIsNewest, SameFlight
  <1>2. CASE \E o \in Ops, r \in Requests, t \in Readings : Submit(o, r, t)
    <2> PICK o \in Ops, r \in Requests, t \in Readings : Submit(o, r, t)
      BY <1>2
    <2>1. o \notin DOMAIN operation /\ NoEquivalentInFlight(r)
      BY DEF Submit
    <2>2. /\ DOMAIN operation' = DOMAIN operation \cup {o}
          /\ operation'[o].request = r
          /\ \A q \in DOMAIN operation : operation'[q] = operation[q]
      <3> DEFINE table == Inserted(o, r, t)
      <3>1. /\ DOMAIN table = DOMAIN operation \cup {o}
            /\ table[o].request = r
            /\ \A q \in DOMAIN operation : table[q] = operation[q]
            /\ table \in [DOMAIN table -> OperationRow]
        <4>1. t \in Nat
          BY ReadingType DEF IInv
        <4> QED
          BY <2>1, <4>1, InsertedType DEF Inserted, QueuedRow, IInv
      <3>2. operation' = table \/ Reserve(table, o, t)
        BY DEF Submit
      <3> HIDE DEF table
      <3>3. \/ operation' = table
            \/ \E newest, expires :
                   operation' = [table EXCEPT ![o].state = "reserved",
                                              ![o].slotCharged = TRUE,
                                              ![o].generation = newest + 1,
                                              ![o].permitExpires = expires]
        BY <3>2 DEF Reserve
      <3>4. CASE operation' = table
        BY <3>1, <3>4
      <3>5. ASSUME NEW newest, NEW expires,
                   operation' = [table EXCEPT ![o].state = "reserved",
                                              ![o].slotCharged = TRUE,
                                              ![o].generation = newest + 1,
                                              ![o].permitExpires = expires]
            PROVE  /\ DOMAIN operation' = DOMAIN operation \cup {o}
                   /\ operation'[o].request = r
                   /\ \A q \in DOMAIN operation : operation'[q] = operation[q]
        BY <2>1, <3>1, <3>5 DEF OperationRow
      <3> QED
        BY <3>3, <3>4, <3>5
    <2>3. InsertsNewest
      BY <2>1, <2>2 DEF vars
    <2>4. \A q \in DOMAIN operation : operation[q].queuedAt < operation'[o].queuedAt
      BY <2>1, <2>2, <2>3 DEF InsertsNewest
    <2>5. ASSUME NEW p \in SameEvidence(r)
          PROVE  operation[p].state \notin InFlightStates
      <3>1. PICK q \in SameEvidence(r) :
                /\ \A k \in SameEvidence(r) : operation[k].queuedAt <= operation[q].queuedAt
                /\ operation[q].state \notin InFlightStates
        BY <2>1, <2>5 DEF NoEquivalentInFlight
      <3>2. p # q /\ operation[p].state \in InFlightStates
                => operation[q].queuedAt < operation[p].queuedAt
        BY DEF SameEvidence, InFlightIsNewest, SameFlight
      <3>3. operation[p].queuedAt \in Nat /\ operation[q].queuedAt \in Nat
        BY DEF SameEvidence, IInv, TypeOK, OperationRow
      <3> QED
        BY <3>1, <3>2, <3>3
    <2>6. SUFFICES ASSUME NEW p \in DOMAIN operation', NEW q \in DOMAIN operation',
                          operation'[p].state \in InFlightStates,
                          operation'[p].request.workspace = operation'[q].request.workspace,
                          operation'[p].request.fingerprint
                              = operation'[q].request.fingerprint,
                          p # q
                   PROVE  operation'[q].queuedAt < operation'[p].queuedAt
      BY DEF InFlightIsNewest, SameFlight
    <2>7. CASE p = o
      BY <2>2, <2>4, <2>6, <2>7
    <2>8. CASE q = o
      <3>1. p \in SameEvidence(r)
        BY <2>2, <2>6, <2>8 DEF SameEvidence
      <3> QED
        BY <2>2, <2>5, <2>6, <2>8, <3>1
    <2>9. CASE p # o /\ q # o
      BY <2>2, <2>6, <2>9 DEF InFlightIsNewest, SameFlight
    <2> QED
      BY <2>7, <2>8, <2>9
  <1> QED
    BY <1>1, <1>2, FlightsKept

\* Submissions whose readings are in the order of their inserts never gather the same
\* evidence twice at once, however slow, lost or cancelled the first of them is.
THEOREM OrderedFlightsAreSingle == InOrderSpec => []SingleFlight
  <1>1. Init => InFlightIsNewest
    BY DEF Init, InFlightIsNewest
  <1>2. IInv /\ InFlightIsNewest /\ [Next /\ InsertsNewest]_vars => InFlightIsNewest'
    BY NewestKept
  <1>3. IInv /\ InFlightIsNewest => SingleFlight
    <2> SUFFICES ASSUME IInv, InFlightIsNewest,
                        NEW p \in DOMAIN operation, NEW q \in DOMAIN operation,
                        operation[p].state \in InFlightStates,
                        operation[q].state \in InFlightStates,
                        SameFlight(p, q), p # q
                 PROVE  FALSE
      BY DEF SingleFlight, SameFlight
    <2>1. /\ operation[q].queuedAt < operation[p].queuedAt
          /\ operation[p].queuedAt < operation[q].queuedAt
      BY DEF InFlightIsNewest, SameFlight
    <2> QED
      BY <2>1 DEF IInv, TypeOK, OperationRow
  <1>4. [Next /\ InsertsNewest]_vars => [Next]_vars
    OBVIOUS
  <1> QED
    BY <1>1, <1>2, <1>3, <1>4, Invariance, PTL DEF InOrderSpec, Spec

-----------------------------------------------------------------------------
(* Refinement                                                              *)

\* The ledger's holders of a slot are the table's charged rows.
LEMMA HoldersAreCharged ==
    ASSUME IInv, NEW g \in Groups
    PROVE  Ledger!Holders(g) = Charged(operation, g)
    BY DEF Ledger!Holders, Claim, Charged, IInv, TypeOK

\* Rows that keep their request, their slot and their terminality are the same ledger.
LEMMA SameLedger ==
    ASSUME DOMAIN operation' = DOMAIN operation,
           \A q \in DOMAIN operation :
               /\ operation'[q].request = operation[q].request
               /\ operation'[q].slotCharged = operation[q].slotCharged
               /\ operation'[q].state \in TerminalStates
                      <=> operation[q].state \in TerminalStates
    PROVE  UNCHANGED Ledger!ledgerVars
  <1>1. Claim' = Claim
    BY DEF Claim
  <1>2. Settled' = Settled
    BY DEF Settled
  <1> QED
    BY <1>1, <1>2 DEF Ledger!ledgerVars

\* One charged row that becomes terminal and gives up its slot settles in the ledger.
LEMMA SettlesInLedger ==
    ASSUME IInv, NEW o \in DOMAIN operation,
           operation[o].slotCharged,
           DOMAIN operation' = DOMAIN operation,
           operation'[o].slotCharged = FALSE,
           operation'[o].state \in TerminalStates,
           \A q \in DOMAIN operation : q # o => operation'[q] = operation[q]
    PROVE  Ledger!Next
  <1>1. o \in Ops /\ operation[o].request.groups # {}
    BY RequestType DEF IInv, TypeOK, OperationRow
  <1>2. Claim[o] # {}
    BY <1>1 DEF Claim
  <1>3. Claim' = [Claim EXCEPT ![o] = {}]
    BY <1>1 DEF Claim
  <1>4. Settled' = Settled \cup {o}
    BY DEF Settled
  <1>5. Ledger!Settle(o)
    BY <1>2, <1>3, <1>4 DEF Ledger!Settle
  <1> QED
    BY <1>1, <1>5 DEF Ledger!Next

\* An admission takes the slots of all its groups, each of which has room.
LEMMA AdmissionTakes ==
    ASSUME IInv, NEW o \in Ops, NEW t \in Nat, NEW table, Admits(table, o, t)
    PROVE  Ledger!Next
  <1> DEFINE r == table[o].request
  <1>1. r \in Requests /\ r.groups \subseteq Groups /\ r.groups # {}
    BY RequestType DEF Admits, TableInv, OperationRow
  <1>2. PICK newest, expires :
          operation' = [table EXCEPT ![o].state = "reserved",
                                     ![o].slotCharged = TRUE,
                                     ![o].generation = newest + 1,
                                     ![o].permitExpires = expires]
    <2>1. Reserve(table, o, t)
      BY DEF Admits
    <2> QED
      BY <2>1 DEF Reserve
  <1>3. /\ table \in [DOMAIN table -> OperationRow]
        /\ o \in DOMAIN table
        /\ table[o].state = "queued"
        /\ DOMAIN table = DOMAIN operation \cup {o}
        /\ \A q \in DOMAIN operation : table[q] = operation[q]
    BY DEF Admits, TableInv
  <1>4. /\ DOMAIN operation' = DOMAIN operation \cup {o}
        /\ operation'[o].request = r
        /\ operation'[o].slotCharged = TRUE
        /\ operation'[o].state = "reserved"
        /\ \A q \in DOMAIN operation : q # o => operation'[q] = operation[q]
    BY <1>2, <1>3 DEF OperationRow
  <1>5. o \in DOMAIN operation =>
            /\ operation[o].state = "queued"
            /\ operation[o].slotCharged = FALSE
    BY <1>3 DEF IInv, ChargedWhileUncertain, ActiveStates, TypeOK, OperationRow
  <1>6. Claim[o] = {} /\ o \notin Settled
    BY <1>5 DEF Claim, Settled, TerminalStates
  <1>7. Claim' = [Claim EXCEPT ![o] = r.groups]
    BY <1>4 DEF Claim
  <1>8. Settled' = Settled
    BY <1>4, <1>5 DEF Settled, TerminalStates
  <1>9. ASSUME NEW g \in r.groups
        PROVE  Cardinality(Ledger!Holders(g)) < [h \in Groups |-> Policy[h].maxActive][g]
    <2>1. g \in Groups
      BY <1>1
    <2>2. GroupVerdict(table, r, g, t) = "clear"
      BY DEF Admits, Admitted, AllClear
    <2>3. ~(Cardinality(Charged(table, g)) >= Policy[g].maxActive)
      BY <2>2 DEF GroupVerdict, CapacityTaken
    <2>4. Charged(table, g) = Charged(operation, g)
      <3>1. table[o].slotCharged = FALSE
        BY <1>3 DEF Admits, TableInv, ActiveStates, OperationRow
      <3> QED
        BY <1>3, <1>5, <3>1 DEF Charged
    <2>5. Cardinality(Charged(operation, g)) \in Nat /\ Policy[g].maxActive \in Nat
      BY <2>1, ChargedFinite, PolicyAssumption DEF IInv, TypeOK, SourcePolicy
    <2>6. Ledger!Holders(g) = Charged(operation, g)
      BY <2>1, HoldersAreCharged
    <2> QED
      BY <2>1, <2>3, <2>4, <2>5, <2>6
  <1> HIDE DEF r
  <1>10. Ledger!Take(o, r.groups)
    <2>1. /\ Claim[o] = {} /\ o \notin Settled
          /\ Claim' = [Claim EXCEPT ![o] = r.groups] /\ Settled' = Settled
      BY <1>6, <1>7, <1>8
    <2>2. \A g \in r.groups :
              Cardinality(Ledger!Holders(g)) < [h \in Groups |-> Policy[h].maxActive][g]
      BY <1>9
    <2>3. \A g \in r.groups :
              Ledger!Cardinality(Ledger!Holders(g))
                  < [h \in Groups |-> Policy[h].maxActive][g]
      BY <2>2 DEF Ledger!Cardinality, Cardinality
    <2> QED
      BY <2>1, <2>3 DEF Ledger!Take
  <1>11. r.groups \in (SUBSET Groups) \ {{}}
    BY <1>1
  <1> QED
    BY <1>10, <1>11 DEF Ledger!Next

\* Every step of the controller is a step of the ledger or leaves it alone.
LEMMA StepImplementsLedger ==
    ASSUME IInv, IInv', [Next]_vars
    PROVE  [Ledger!Next]_(Ledger!ledgerVars)
  <1>0. operation \in [DOMAIN operation -> OperationRow] /\ DOMAIN operation \subseteq Ops
    BY DEF IInv, TypeOK
  <1>1. CASE \E o \in Ops, r \in Requests, t \in Readings : Submit(o, r, t)
    <2> PICK o \in Ops, r \in Requests, t \in Readings : Submit(o, r, t)
      BY <1>1
    <2> DEFINE table == Inserted(o, r, t)
    <2>1. t \in Nat /\ o \notin DOMAIN operation
      BY ReadingType DEF IInv, Submit
    <2>2. TableInv(table)
      BY <2>1, InsertedTableInv
    <2>3. /\ DOMAIN table = DOMAIN operation \cup {o}
          /\ \A q \in DOMAIN operation : table[q] = operation[q]
          /\ table[o].state = "queued"
          /\ table[o].slotCharged = FALSE
      BY <2>1 DEF Inserted, QueuedRow
    <2>4. \/ Admitted(table, o, t) /\ Reserve(table, o, t)
          \/ operation' = table
      BY DEF Submit
    <2> HIDE DEF table
    <2>5. CASE Admitted(table, o, t) /\ Reserve(table, o, t)
      BY <2>1, <2>2, <2>3, <2>5, AdmissionTakes DEF Admits
    <2>6. CASE operation' = table
      <3>1. Claim' = Claim
        BY <2>1, <2>3, <2>6 DEF Claim
      <3>2. Settled' = Settled
        BY <2>1, <2>3, <2>6 DEF Settled, TerminalStates
      <3> QED
        BY <3>1, <3>2 DEF Ledger!ledgerVars
    <2> QED
      BY <2>4, <2>5, <2>6
  <1>2. CASE \E o \in DOMAIN operation : TryAdmitQueued(o)
    <2> PICK o \in DOMAIN operation : TryAdmitQueued(o)
      BY <1>2
    <2>1. o \in Ops /\ now \in Nat
      BY <1>0, TimeAssumption DEF IInv, TypeOK
    <2>2. Admits(operation, o, now)
      BY <1>0, OperationTableInv DEF TryAdmitQueued, Admits
    <2> QED
      BY <2>1, <2>2, AdmissionTakes
  <1>3. CASE \E o \in DOMAIN operation, t \in Readings, s \in Leases :
                 BeginExecution(o, t, s)
    BY <1>0, <1>3, SameLedger
    DEF BeginExecution, PermitUsable, TerminalStates, OperationRow
  <1>4. CASE \E o \in DOMAIN operation, t \in Readings, s \in Leases : Heartbeat(o, t, s)
    BY <1>0, <1>4, SameLedger DEF Heartbeat, OperationRow
  <1>5. CASE \E o \in DOMAIN operation, outcome \in Outcomes : RecordResult(o, outcome)
    <2> PICK o \in DOMAIN operation, outcome \in Outcomes : RecordResult(o, outcome)
      BY <1>5
    <2>1. /\ outcome.state \in ResultStates
          /\ operation[o].state \notin TerminalStates
          /\ operation[o].slotCharged = TRUE
      BY <1>0, OutcomesAssumption
      DEF OperationResult, RecordResult, ResultAccepted, IInv, PermitUsedOnce,
          ChargedWhileUncertain, OperationRow, SourceExecutionState, ActiveStates,
          TerminalStates
    <2>2. /\ DOMAIN operation' = DOMAIN operation
          /\ operation'[o].request = operation[o].request
          /\ operation'[o].state = outcome.state
          /\ operation'[o].slotCharged = KeepsSlot(outcome)
          /\ \A q \in DOMAIN operation : q # o => operation'[q] = operation[q]
      BY <1>0 DEF RecordResult, OperationRow
    <2>3. CASE outcome.state = "outcome-unknown"
      <3>1. operation'[o].slotCharged = TRUE /\ operation'[o].state \notin TerminalStates
        BY <2>2, <2>3 DEF KeepsSlot, TerminalStates
      <3> QED
        BY <2>1, <2>2, <3>1, SameLedger
    <2>4. CASE outcome.state # "outcome-unknown"
      <3>1. operation'[o].slotCharged = FALSE /\ operation'[o].state \in TerminalStates
        BY <2>1, <2>2, <2>4 DEF KeepsSlot, ResultStates, ConfirmedStates, TerminalStates
      <3> QED
        BY <2>1, <2>2, <3>1, SettlesInLedger
    <2> QED
      BY <2>3, <2>4
  <1>6. CASE \E o \in DOMAIN operation : RequestCancellation(o)
    BY <1>0, <1>6, SameLedger DEF RequestCancellation, TerminalStates, OperationRow
  <1>7. CASE \E t \in Readings : ExpireLeases(t)
    <2> PICK t \in Readings : ExpireLeases(t)
      BY <1>7
    <2>1. ASSUME NEW q \in DOMAIN operation, LeaseExpired(q, t)
          PROVE  operation[q].slotCharged = TRUE /\ operation[q].state \notin TerminalStates
      BY <1>0, <2>1 DEF LeaseExpired, IInv, ChargedWhileUncertain, ActiveStates,
                        TerminalStates, OperationRow
    <2>2. \A row \in OperationRow : /\ Lost(row).state \notin TerminalStates
                                    /\ Lost(row).slotCharged = TRUE
                                    /\ Lost(row).request = row.request
      BY DEF Lost, OperationRow, TerminalStates
    <2>3. /\ DOMAIN operation' = DOMAIN operation
          /\ \A q \in DOMAIN operation :
                 operation'[q] = IF LeaseExpired(q, t) THEN Lost(operation[q])
                                                       ELSE operation[q]
      BY DEF ExpireLeases
    <2> QED
      BY <1>0, <2>1, <2>2, <2>3, SameLedger
  <1>8. CASE \E o \in DOMAIN operation, c \in ConfirmedStates : Reconcile(o, c)
    <2> PICK o \in DOMAIN operation, c \in ConfirmedStates : Reconcile(o, c)
      BY <1>8
    <2>1. operation[o].slotCharged
      BY DEF Reconcile, Reconcilable, IInv, ChargedWhileUncertain, ActiveStates
    <2>2. /\ DOMAIN operation' = DOMAIN operation
          /\ operation'[o].slotCharged = FALSE
          /\ operation'[o].state = c
          /\ \A q \in DOMAIN operation : q # o => operation'[q] = operation[q]
      BY <1>0 DEF Reconcile, OperationRow
    <2>3. c \in TerminalStates
      BY DEF ConfirmedStates, TerminalStates
    <2> QED
      BY <2>1, <2>2, <2>3, SettlesInLedger
  <1>9. CASE EnvironmentStep \/ UNCHANGED vars
    <2>1. operation' = operation
      BY <1>9 DEF EnvironmentStep, PauseRun, ResumeRun, CloseRun, Tick, vars
    <2> QED
      BY <2>1, SameLedger
  <1> QED
    BY <1>1, <1>2, <1>3, <1>4, <1>5, <1>6, <1>7, <1>8, <1>9 DEF Next, ControllerStep

\* The controller's tables implement the capacity ledger: every behaviour of the handlers,
\* the clock and the runs takes and returns slots only as the ledger allows.
THEOREM LedgerIsImplemented == Spec => ImplementsLedger
  <1>1. Init => Ledger!Init
    BY DEF Init, Ledger!Init, Claim, Settled
  <1>2. IInv /\ IInv' /\ [Next]_vars => [Ledger!Next]_(Ledger!ledgerVars)
    BY StepImplementsLedger
  <1> QED
    BY <1>1, <1>2, Invariance, PTL DEF Spec, ImplementsLedger, Ledger!Spec

=============================================================================
