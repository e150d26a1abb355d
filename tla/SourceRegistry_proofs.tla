------------------------ MODULE SourceRegistry_proofs ------------------------
(***************************************************************************)
(* What holds of SourceRegistry for every set of registrations, sources    *)
(* and requests.                                                           *)
(***************************************************************************)
EXTENDS SourceRegistry, WorkloadController_proofs

\* The registry only adds guards to the controller's handlers, so every theorem of
\* WorkloadController_proofs holds in it.
THEOREM RegistryUsesController == RegistrySpec => UsesController
  <1>1. RegistryInit => Init
    BY DEF RegistryInit
  <1>2. [RegistryNext]_registryVars => [Next]_vars
    BY DEF RegistryNext, CreateResourceGroup, RegisterConnectionAlias, ResolvedStep,
           ReadAliases, ReadOperations, ForgetAnswer, registryVars, vars
  <1> QED
    BY <1>1, <1>2, PTL DEF RegistrySpec, Spec, UsesController

\* Rows of source_operations are never removed and keep their request.
LEMMA RequestsKept ==
    ASSUME IInv, [Next]_vars
    PROVE  /\ DOMAIN operation \subseteq DOMAIN operation'
           /\ \A q \in DOMAIN operation : operation'[q].request = operation[q].request
  <1>1. CASE NoAdmission
    BY <1>1 DEF NoAdmission, KeepsPermits
  <1>2. CASE Admission
    <2> PICK o \in Ops, t \in Nat : \E table : Admits(table, o, t)
      BY <1>2 DEF Admission
    <2> PICK table : Admits(table, o, t)
      OBVIOUS
    <2>1. \A q \in DOMAIN operation : table[q] = operation[q]
      BY DEF Admits
    <2>2. /\ DOMAIN operation \subseteq DOMAIN operation'
          /\ operation'[o].request = table[o].request
      BY AdmittedRows
    <2>3. ASSUME NEW q \in DOMAIN operation
          PROVE  operation'[q].request = operation[q].request
      <3>1. CASE q = o
        BY <2>1, <2>2, <3>1
      <3>2. CASE q # o
        BY <3>2, AdmittedRows
      <3> QED
        BY <3>1, <3>2
    <2> QED
      BY <2>2, <2>3
  <1> QED
    BY <1>1, <1>2, AdmissionOnly

\* Rows of connection_aliases are only added.
AliasesGrow ==
    /\ DOMAIN alias \subseteq DOMAIN alias'
    /\ \A k \in DOMAIN alias : alias'[k] = alias[k]

LEMMA AliasesKept ==
    ASSUME [RegistryNext]_registryVars
    PROVE  AliasesGrow
  <1>1. CASE \E reg \in Registrations : RegisterConnectionAlias(reg)
    BY <1>1 DEF RegisterConnectionAlias, NoConflict, AliasesGrow
  <1>2. CASE UNCHANGED alias
    BY <1>2 DEF AliasesGrow
  <1> QED
    BY <1>1, <1>2 DEF RegistryNext, CreateResourceGroup, ResolvedStep, ReadAliases,
                      ReadOperations, ForgetAnswer, registryVars, registry

\* A source's rows, once there, stay its rows.
LEMMA SourceRowsKept ==
    ASSUME AliasesGrow, NEW w, NEW s
    PROVE  /\ SourceRows(w, s) \subseteq SourceRows(w, s)'
           /\ \A k \in SourceRows(w, s) : alias'[k] = alias[k]
    BY DEF AliasesGrow, SourceRows

\* The operation is authorized in each of its groups by the rows of its source.
Authorized(r) ==
    \A g \in r.groups : \E k \in SourceRows(r.workspace, Target[r].source) :
        /\ k.group = g
        /\ alias[k].connector = Target[r].connector
        /\ Target[r].operation \in alias[k].operations

\* A request that resolves is authorized, and an authorized one stays so.
LEMMA ResolvesAuthorized ==
    ASSUME NEW r, Resolves(r)
    PROVE  Authorized(r)
    BY DEF Resolves, ConfiguredGroups, AllowedOperations, Authorized

LEMMA AuthorizedKept ==
    ASSUME AliasesGrow, NEW r, Authorized(r)
    PROVE  Authorized(r)'
  <1> SUFFICES ASSUME NEW g \in r.groups
               PROVE  \E k \in SourceRows(r.workspace, Target[r].source)' :
                          /\ k.group = g
                          /\ alias'[k].connector = Target[r].connector
                          /\ Target[r].operation \in alias'[k].operations
    BY DEF Authorized
  <1>1. PICK k \in SourceRows(r.workspace, Target[r].source) :
            /\ k.group = g
            /\ alias[k].connector = Target[r].connector
            /\ Target[r].operation \in alias[k].operations
    BY DEF Authorized
  <1> QED
    BY <1>1, SourceRowsKept

\* The strengthening: a health call between its reads knows the groups of every operation it
\* must not miss, because those operations are authorized by rows it has read.
RInv ==
    /\ OperationsStayAuthorized
    /\ probe.phase = "reading" =>
           \A o \in probe.unknown : /\ o \in DOMAIN operation
                                    /\ operation[o].request.groups # {}
                                    /\ operation[o].request.groups \subseteq probe.groups
    /\ HealthSeesUnknown

\* Operations stay authorized while rows are added and requests do not change.
LEMMA AuthorizationKept ==
    ASSUME IInv, OperationsStayAuthorized, [RegistryNext]_registryVars
    PROVE  OperationsStayAuthorized'
  <1> SUFFICES ASSUME NEW o \in DOMAIN operation', NEW r, r = operation'[o].request
               PROVE  Authorized(r)'
    BY DEF OperationsStayAuthorized, Authorized
  <1>1. AliasesGrow
    BY AliasesKept
  <1>2. [Next]_vars
    BY DEF RegistryNext, CreateResourceGroup, RegisterConnectionAlias, ResolvedStep,
           ReadAliases, ReadOperations, ForgetAnswer, registryVars, vars
  <1>3. Authorized(r)
    <2>1. CASE o \in DOMAIN operation
      <3>1. operation'[o].request = operation[o].request
        BY <1>2, <2>1, RequestsKept
      <3>2. Authorized(operation[o].request)
        BY <2>1 DEF OperationsStayAuthorized, Authorized
      <3> QED
        BY <3>1, <3>2
    <2>2. CASE o \notin DOMAIN operation
      <3>1. ResolvedStep
        BY <2>2 DEF RegistryNext, CreateResourceGroup, RegisterConnectionAlias,
                    ReadAliases, ReadOperations, ForgetAnswer, registryVars, vars
      <3>2. Resolves(operation'[o].request)
        BY <2>2, <3>1 DEF ResolvedStep
      <3> QED
        BY <3>2, ResolvesAuthorized
    <2> QED
      BY <2>1, <2>2
  <1> QED
    BY <1>1, <1>3, AuthorizedKept

LEMMA RegistryStep ==
    ASSUME IInv, RInv, [RegistryNext]_registryVars
    PROVE  RInv'
  <1>0. OperationsStayAuthorized'
    BY AuthorizationKept DEF RInv
  <1> DEFINE Known ==
          probe.phase = "reading" =>
              \A o \in probe.unknown : /\ o \in DOMAIN operation
                                       /\ operation[o].request.groups # {}
                                       /\ operation[o].request.groups \subseteq probe.groups
  <1>1. CASE \E r \in Requests, s \in Sources : ReadAliases(r.workspace, s)
    <2> PICK r \in Requests, s \in Sources : ReadAliases(r.workspace, s)
      BY <1>1
    <2> DEFINE w == r.workspace
    <2>1. /\ probe' = [phase |-> "reading", workspace |-> w, source |-> s,
                       groups |-> ConfiguredGroups(w, s), unknown |-> UnknownOf(w, s)]
          /\ operation' = operation
      BY DEF ReadAliases, vars
    <2>2. ASSUME NEW o \in UnknownOf(w, s)
          PROVE  /\ o \in DOMAIN operation
                 /\ operation[o].request.groups # {}
                 /\ operation[o].request.groups \subseteq ConfiguredGroups(w, s)
      <3>1. /\ o \in DOMAIN operation
            /\ operation[o].request.workspace = w
            /\ Target[operation[o].request].source = s
        BY DEF UnknownOf
      <3>2. operation[o].request.groups \subseteq ConfiguredGroups(w, s)
        BY <3>1 DEF RInv, OperationsStayAuthorized, ConfiguredGroups
      <3>3. operation[o].request.groups # {}
        BY <3>1, RequestType DEF IInv, TypeOK, OperationRow
      <3> QED
        BY <3>1, <3>2, <3>3
    <2>3. Known'
      BY <2>1, <2>2
    <2>4. HealthSeesUnknown'
      BY <2>1 DEF HealthSeesUnknown
    <2> QED
      BY <1>0, <2>3, <2>4 DEF RInv
  <1>2. CASE ReadOperations
    <2>1. /\ probe.phase = "reading"
          /\ probe'.phase = "answered"
          /\ probe'.reported = \E o \in Relevant(probe.groups) :
                                   operation[o].state = "outcome-unknown"
          /\ probe'.unknown = probe.unknown \cap UnknownOf(probe.workspace, probe.source)
      BY <1>2 DEF ReadOperations
    <2>2. ASSUME NEW o \in probe'.unknown
          PROVE  probe'.reported
      <3>1. /\ o \in DOMAIN operation
            /\ operation[o].state = "outcome-unknown"
            /\ operation[o].request.groups \cap probe.groups # {}
        BY <2>1, <2>2 DEF UnknownOf, RInv
      <3>2. operation[o].slotCharged
        BY <3>1 DEF IInv, ChargedWhileUncertain, ActiveStates
      <3>3. o \in Relevant(probe.groups)
        BY <3>1, <3>2 DEF Relevant
      <3> QED
        BY <2>1, <3>1, <3>3
    <2>3. HealthSeesUnknown'
      BY <2>2 DEF HealthSeesUnknown
    <2> QED
      BY <1>0, <2>1, <2>3 DEF RInv
  <1>3. CASE ForgetAnswer
    <2>1. probe'.phase = "idle"
      BY <1>3 DEF ForgetAnswer, Idle
    <2> QED
      BY <1>0, <2>1 DEF RInv, HealthSeesUnknown
  <1>4. CASE probe' = probe
    <2>1. [Next]_vars
      BY DEF RegistryNext, CreateResourceGroup, RegisterConnectionAlias, ResolvedStep,
             ReadAliases, ReadOperations, ForgetAnswer, registryVars, vars
    <2>2. Known'
      BY <1>4, <2>1, RequestsKept DEF RInv
    <2>3. HealthSeesUnknown'
      BY <1>4 DEF RInv, HealthSeesUnknown
    <2> QED
      BY <1>0, <2>2, <2>3 DEF RInv
  <1> QED
    BY <1>1, <1>2, <1>3, <1>4
    DEF RegistryNext, CreateResourceGroup, RegisterConnectionAlias, ResolvedStep, registryVars

\* The invariant of the registry, on top of the controller's.
THEOREM RegistryInvariance == RegistrySpec => []RInv
  <1>1. RegistryInit => RInv
    BY DEF RegistryInit, Init, RInv, OperationsStayAuthorized, HealthSeesUnknown, Idle
  <1>2. IInv /\ RInv /\ [RegistryNext]_registryVars => RInv'
    BY RegistryStep
  <1>3. RegistrySpec => []IInv
    BY RegistryUsesController, Invariance, PTL DEF UsesController
  <1> QED
    BY <1>1, <1>2, <1>3, PTL DEF RegistrySpec

\* Registering a source again never takes back the ground on which an operation was queued.
THEOREM AuthorizationStays == RegistrySpec => []OperationsStayAuthorized
  <1>1. RInv => OperationsStayAuthorized
    BY DEF RInv
  <1> QED
    BY <1>1, RegistryInvariance, PTL

\* The two reads of resource_health need no common snapshot to see every unknown outcome of
\* the source.
THEOREM HealthIsConservative == RegistrySpec => []HealthSeesUnknown
  <1>1. RInv => HealthSeesUnknown
    BY DEF RInv
  <1> QED
    BY <1>1, RegistryInvariance, PTL

\* No sequence of registrations lets a configured source be asked for more.
THEOREM RegistrationsNarrow == RegistrySpec => RegistrationNarrows
  <1>1. ASSUME [RegistryNext]_registryVars
        PROVE  NarrowsOperations
    <2> SUFFICES ASSUME NEW w, NEW s, SourceRows(w, s) # {}
                 PROVE  AllowedOperations(w, s)' \subseteq AllowedOperations(w, s)
      BY DEF NarrowsOperations
    <2>1. AliasesGrow
      BY <1>1, AliasesKept
    <2>2. /\ SourceRows(w, s) \subseteq SourceRows(w, s)'
          /\ \A k \in SourceRows(w, s) : alias'[k] = alias[k]
      BY <2>1, SourceRowsKept
    <2>3. ASSUME NEW op \in AllowedOperations(w, s)'
          PROVE  op \in AllowedOperations(w, s)
      <3>1. \A k \in SourceRows(w, s) : op \in alias[k].operations
        BY <2>2, <2>3 DEF AllowedOperations
      <3> QED
        BY <3>1 DEF AllowedOperations
    <2> QED
      BY <2>3
  <1>2. [RegistryNext]_registryVars => [NarrowsOperations]_registryVars
    BY <1>1
  <1> QED
    BY <1>2, PTL DEF RegistrySpec, RegistrationNarrows

=============================================================================
