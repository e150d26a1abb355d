----------------------------- MODULE MCRegistry -----------------------------
(***************************************************************************)
(* A source that is registered group by group and again under another      *)
(* connection, and a second workspace that shares a group, for TLC.        *)
(***************************************************************************)
EXTENDS SourceRegistry, TLC

Symmetry == Permutations(Ops)

Registered(w, c, s, gs, ops) ==
    [workspace |-> w, connection |-> c, source |-> s, groups |-> gs, connector |-> "pg",
     operations |-> ops, scope |-> {"public"}]

\* Source "s" in one group, then in a second one with fewer operations, or again under
\* another connection; another workspace's alias of the same group.
AllRegistrations ==
    {Registered("w", "c", "s", {1}, {"list", "read"}),
     Registered("w", "c", "s", {2}, {"read"}),
     Registered("w", "d", "s", {1}, {"list", "read"}),
     Registered("w", "c", "u", {1}, {"read"}),
     [Registered("v", "c", "s", {1, 2}, {"read"}) EXCEPT !.scope = {"other"}]}

Request(w, key, gs) ==
    [workspace |-> w, run |-> "run", idempotencyKey |-> key, fingerprint |-> key,
     groups |-> gs, costClass |-> "metadata", bytes |-> 1, pages |-> 1, seconds |-> 1,
     policyVersion |-> PolicyVersion, deadline |-> 9]

List  == Request("w", "list", {1})
Read  == Request("w", "read", {1, 2})
Other == Request("v", "other", {1, 2})
AllRequests == {List, Read, Other}

Asks(op, assets) ==
    [source |-> "s", connector |-> "pg", operation |-> op, assets |-> assets]
AllTargets ==
    List :> Asks("list", {"public"}) @@ Read :> Asks("read", {"public"})
    @@ Other :> Asks("read", {"other"})

OneRun == {"run"}
UnknownOutcome == {[state |-> "outcome-unknown", bytes |-> 0]}
OneAtATime ==
    [g \in Groups |->
        [maxActive |-> 1, minInterval |-> 0, permitTtl |-> 2, maxBytes |-> 2, maxPages |-> 1,
         requestDeadline |-> 1, maxRunBytes |-> 9, maxRunOps |-> 9, profiling |-> TRUE,
         hoursStart |-> 0, hoursEnd |-> 24, zone |-> 0, zoneKnown |-> TRUE]]

\* Three groups, two of which are the same resource under one fingerprint.
Resources == 1 :> "db" @@ 2 :> "host" @@ 3 :> "host"

\* Without the clock and the runs, which no registry handler reads.
QuietSpec ==
    RegistryInit /\ [][RegistryNext /\ UNCHANGED <<now, runState>>]_registryVars

=============================================================================
