--------------------------- MODULE CapacityLedger ---------------------------
(***************************************************************************)
(* What the workload controller promises about shared source capacity,     *)
(* without its queue, its clock, its permits or its leases: an operation   *)
(* takes one slot in every resource group it names, all at once, keeps     *)
(* them, and gives them back once, for good, when the source's work is     *)
(* confirmed to have ended (acceptance SOURCE-02 and SOURCE-03).           *)
(***************************************************************************)
EXTENDS Integers, FiniteSets

CONSTANTS
    Ops,       \* operation identifiers
    Groups,    \* resource groups
    Capacity   \* [Groups -> Nat]: max_active_operations of each group

VARIABLES
    claim,     \* claim[o]: the groups in which o holds a slot now
    settled    \* the operations whose source work is confirmed to be over

ledgerVars == <<claim, settled>>

\* The operations that hold a slot in g.
Holders(g) == {o \in Ops : g \in claim[o]}

Init ==
    /\ claim = [o \in Ops |-> {}]
    /\ settled = {}

\* o takes a slot in each group of gs: only if each of them has room, and only once.
Take(o, gs) ==
    /\ claim[o] = {}
    /\ o \notin settled
    /\ \A g \in gs : Cardinality(Holders(g)) < Capacity[g]
    /\ claim' = [claim EXCEPT ![o] = gs]
    /\ UNCHANGED settled

\* o's work is confirmed to be over: its slots are given back, for good.
Settle(o) ==
    /\ claim[o] # {}
    /\ claim' = [claim EXCEPT ![o] = {}]
    /\ settled' = settled \cup {o}

Next ==
    \/ \E o \in Ops, gs \in (SUBSET Groups) \ {{}} : Take(o, gs)
    \/ \E o \in Ops : Settle(o)

Spec == Init /\ [][Next]_ledgerVars

=============================================================================
