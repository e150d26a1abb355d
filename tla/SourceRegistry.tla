--------------------------- MODULE SourceRegistry ---------------------------
(***************************************************************************)
(* The registry of the workload controller: create_resource_group,         *)
(* register_connection_alias, the resolution of a request against the      *)
(* registered rows (_resolve_alias), and the health of a source, read in   *)
(* two statements without a transaction (resource_health), around every    *)
(* step of WorkloadController.                                             *)
(***************************************************************************)
EXTENDS WorkloadController

CONSTANTS
    Fingerprint,    \* Fingerprint[g]: the resource_fingerprint group g is created with
    Registrations,  \* the arguments register_connection_alias is called with
    Target,         \* Target[r]: what request r asks for, and of which source
    NoGroup         \* parent_id IS NULL

Sources == {reg.source : reg \in Registrations} \cup {Target[r].source : r \in Requests}

\* The arguments of register_connection_alias; a group that occurs twice in the list violates
\* the primary key, so a list that succeeds is a set.
Registration ==
    [workspace : STRING, connection : STRING, source : STRING,
     groups : (SUBSET Groups) \ {{}}, connector : STRING, operations : SUBSET STRING,
     scope : SUBSET STRING]

ASSUME RegistrationsAssumption == Registrations \subseteq Registration
ASSUME TargetAssumption ==
    Target \in [Requests -> [source : STRING, connector : STRING, operation : STRING,
                             assets : SUBSET STRING]]
ASSUME NoGroupAssumption == NoGroup \notin Groups

VARIABLES
    parent,  \* the created rows of resource_groups, with their parent_id
    alias,   \* connection_aliases: a function on its primary keys
    probe    \* a resource_health call, between and after its two reads

registry == <<parent, alias>>
registryVars == <<vars, registry, probe>>

\* A connection_aliases row and its primary key.
AliasKey == [workspace : STRING, connection : STRING, group : Groups]
AliasRow ==
    [source : STRING, connector : STRING, operations : SUBSET STRING, scope : SUBSET STRING]

\* A health call: the workspace and source it is about, the groups its first read gave, the
\* unknown operations of that source it must not miss, and whether it reported unknown ones.
Idle == [phase |-> "idle"]
Probes ==
    [phase : {"reading"}, workspace : STRING, source : STRING, groups : SUBSET Groups,
     unknown : SUBSET Ops]
    \cup [phase : {"answered"}, reported : BOOLEAN, unknown : SUBSET Ops]

RegistryTypeOK ==
    /\ TypeOK
    /\ DOMAIN parent \subseteq Groups
    /\ parent \in [DOMAIN parent -> Groups \cup {NoGroup}]
    /\ DOMAIN alias \subseteq AliasKey
    /\ alias \in [DOMAIN alias -> AliasRow]
    /\ probe \in Probes \cup {Idle}

RegistryInit ==
    /\ Init
    /\ parent = [g \in {} |-> NoGroup]
    /\ alias = [k \in {} |-> NoGroup]
    /\ probe = Idle

-----------------------------------------------------------------------------
(* Registration                                                            *)

\* create_resource_group: UNIQUE fingerprint, and the parent, if any, is a row.
CreateResourceGroup(g, p) ==
    /\ g \notin DOMAIN parent
    /\ \A h \in DOMAIN parent : Fingerprint[h] # Fingerprint[g]
    /\ p \in DOMAIN parent \cup {NoGroup}
    /\ parent' = [h \in DOMAIN parent \cup {g} |-> IF h = g THEN p ELSE parent[h]]
    /\ UNCHANGED <<vars, alias, probe>>

\* The keys and the content of the rows a registration inserts.
Keys(reg) ==
    {[workspace |-> reg.workspace, connection |-> reg.connection, group |-> g] :
        g \in reg.groups}

RowOf(reg) ==
    [source |-> reg.source, connector |-> reg.connector, operations |-> reg.operations,
     scope |-> reg.scope]

\* Mutant: INSERT OR REPLACE.
NoConflictNeeded(reg) == TRUE

\* No row has one of the registration's primary keys.
NoConflict(reg) == Keys(reg) \cap DOMAIN alias = {}

\* register_connection_alias: one row for each group, all or none.
RegisterConnectionAlias(reg) ==
    /\ reg.operations # {} /\ reg.scope # {}
    /\ reg.groups \subseteq DOMAIN parent
    /\ NoConflict(reg)
    /\ alias' = [k \in DOMAIN alias \cup Keys(reg) |->
                    IF k \in Keys(reg) THEN RowOf(reg) ELSE alias[k]]
    /\ UNCHANGED <<vars, parent, probe>>

\* The rows of a source in a workspace.
SourceRows(w, s) == {k \in DOMAIN alias : k.workspace = w /\ alias[k].source = s}

ConfiguredGroups(w, s) == {k.group : k \in SourceRows(w, s)}

\* Mutant: the union of the rows' operations.
AllowedSomewhere(w, s) == UNION {alias[k].operations : k \in SourceRows(w, s)}

\* The operations every row of the source allows.
AllowedOperations(w, s) ==
    {op \in UNION {alias[k].operations : k \in SourceRows(w, s)} :
        \A k \in SourceRows(w, s) : op \in alias[k].operations}

\* _resolve_alias accepts r: one connection, its connector, all its groups, an operation of
\* every row, and assets in the scope of the first row in group order.
Resolves(r) ==
    LET rows == SourceRows(r.workspace, Target[r].source) IN
        /\ rows # {}
        /\ \A j, k \in rows : j.connection = k.connection
        /\ \A k \in rows : alias[k].connector = Target[r].connector
        /\ ConfiguredGroups(r.workspace, Target[r].source) = r.groups
        /\ Target[r].operation \in AllowedOperations(r.workspace, Target[r].source)
        /\ \E first \in rows :
               /\ \A k \in rows : first.group <= k.group
               /\ Target[r].assets \subseteq alias[first].scope

\* The controller's steps, with submit's call of _resolve_alias in its transaction.
ResolvedStep ==
    /\ Next
    /\ \A o \in DOMAIN operation' \ DOMAIN operation : Resolves(operation'[o].request)
    /\ UNCHANGED <<registry, probe>>

-----------------------------------------------------------------------------
(* resource_health                                                         *)

\* The operations of source s whose outcome is unknown.
UnknownOf(w, s) ==
    {o \in DOMAIN operation : /\ operation[o].state = "outcome-unknown"
                              /\ operation[o].request.workspace = w
                              /\ Target[operation[o].request].source = s}

\* The first statement reads the groups of the source.
ReadAliases(w, s) ==
    /\ probe = Idle
    /\ SourceRows(w, s) # {}
    /\ probe' = [phase |-> "reading", workspace |-> w, source |-> s,
                 groups |-> ConfiguredGroups(w, s), unknown |-> UnknownOf(w, s)]
    /\ UNCHANGED <<vars, registry>>

\* Mutant: only operations of exactly the source's groups are relevant.
RelevantExactly(groups) ==
    {o \in DOMAIN operation : /\ operation[o].slotCharged \/ operation[o].state = "queued"
                              /\ operation[o].request.groups = groups}

\* What the second statement finds: charged or queued work, of whatever workspace, that
\* shares a group with the source.
Relevant(groups) ==
    {o \in DOMAIN operation : /\ operation[o].slotCharged \/ operation[o].state = "queued"
                              /\ operation[o].request.groups \cap groups # {}}

\* The second statement, and the answer: unknown as soon as one relevant outcome is.
ReadOperations ==
    /\ probe.phase = "reading"
    /\ probe' = [phase |-> "answered",
                 reported |-> \E o \in Relevant(probe.groups) :
                                  operation[o].state = "outcome-unknown",
                 unknown |-> probe.unknown \cap UnknownOf(probe.workspace, probe.source)]
    /\ UNCHANGED <<vars, registry>>

ForgetAnswer ==
    /\ probe.phase = "answered"
    /\ probe' = Idle
    /\ UNCHANGED <<vars, registry>>

RegistryNext ==
    \/ \E g \in Groups, p \in Groups \cup {NoGroup} : CreateResourceGroup(g, p)
    \/ \E reg \in Registrations : RegisterConnectionAlias(reg)
    \/ ResolvedStep
    \/ \E r \in Requests, s \in Sources : ReadAliases(r.workspace, s)
    \/ ReadOperations
    \/ ForgetAnswer

RegistrySpec == RegistryInit /\ [][RegistryNext]_registryVars

-----------------------------------------------------------------------------
(* Properties                                                              *)

\* The controller below the registry: whatever is registered, and when, requests reach the
\* tables only as WorkloadController says.
UsesController == Spec

\* Everything that was ever submitted is still what the registry allows: each group an
\* operation is charged in has a row of its source, with its connector and its operation,
\* however the source was registered again after the operation was queued.
OperationsStayAuthorized ==
    \A o \in DOMAIN operation :
        LET r == operation[o].request IN
            \A g \in r.groups : \E k \in SourceRows(r.workspace, Target[r].source) :
                /\ k.group = g
                /\ alias[k].connector = Target[r].connector
                /\ Target[r].operation \in alias[k].operations

\* A health answer of "no-unknown-execution" is not given over an operation of the source
\* whose outcome was unknown at both reads, whatever was registered in between.
HealthSeesUnknown ==
    probe.phase = "answered" /\ probe.unknown # {} => probe.reported

NarrowsOperations ==
    \A reg \in Registrations :
        LET w == reg.workspace
            s == reg.source
        IN SourceRows(w, s) # {} => AllowedOperations(w, s)' \subseteq AllowedOperations(w, s)

\* A source that is registered again never gains an operation: further rows only narrow what
\* it may be asked.
RegistrationNarrows == [][NarrowsOperations]_registryVars

\* All source work consumes the actual resource group's shared budget
\* (docs/product-spec.md:17): an operation is admitted in the groups its source has.
AdmittedInActualGroups ==
    [][\A o \in Ops : Reserves(o) =>
          LET r == operation'[o].request IN
              ConfiguredGroups(r.workspace, Target[r].source) \subseteq r.groups]_registryVars

=============================================================================
