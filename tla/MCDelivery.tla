----------------------------- MODULE MCDelivery -----------------------------
(***************************************************************************)
(* Two operations for one slot, whose answers may be lost, for TLC.        *)
(***************************************************************************)
EXTENDS PermitDelivery, MCWorkload

\* Two requests for the same evidence and one for other evidence, which wait for the window
\* and for each other and share a budget of one byte.
TwiceRequests ==
    {[Request(k, {1}) EXCEPT !.fingerprint = "same"] : k \in {"a", "b"}}
    \cup {Request("c", {1})}
WindowPolicy == 1 :> [Open EXCEPT !.hoursStart = 1, !.maxRunBytes = 1]

\* The runs stay open, and the one process inserts in the order of its queue times.
OpenDeliverySpec ==
    DeliveryInit /\ [][DeliveryNext /\ InsertsNewest /\ UNCHANGED runState]_deliveryVars

\* One operation, and no clock.
FairQuietSpec ==
    DeliveryInit /\ [][DeliveryNext /\ UNCHANGED <<now, runState>>]_deliveryVars
        /\ DeliveryFairness

=============================================================================
