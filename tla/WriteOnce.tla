------------------------------ MODULE WriteOnce ------------------------------
(***************************************************************************)
(* What a table with a natural key promises its clients: the first entry   *)
(* under a key is the entry for ever, and whoever is answered about the    *)
(* key, first or again, is answered with it.                               *)
(***************************************************************************)

CONSTANTS
    Keys,    \* natural keys
    Entries  \* what may be stored under a key

VARIABLES
    stored,   \* the pairs <<key, entry>> stored so far
    answered  \* the pairs clients have been answered with

vars == <<stored, answered>>

Init == stored = {} /\ answered = {}

\* The answer about a new entry may be lost.
Store(k, e) ==
    /\ \A pair \in stored : pair[1] # k
    /\ stored' = stored \cup {<<k, e>>}
    /\ answered' \in {answered, answered \cup {<<k, e>>}}

Answer(pair) ==
    /\ pair \in stored
    /\ answered' = answered \cup {pair}
    /\ UNCHANGED stored

Next ==
    \/ \E k \in Keys, e \in Entries : Store(k, e)
    \/ \E pair \in stored : Answer(pair)

Spec == Init /\ [][Next]_vars

=============================================================================
