--------------------------- MODULE MCNeighborhood ---------------------------
(***************************************************************************)
(* One search over a graph of a few nodes that grows meanwhile, for TLC.   *)
(***************************************************************************)
EXTENDS LineageNeighborhood, TLC

Symmetry == Permutations(Edges)

OneWorkspace == {"w"}
OneProject == {"p"}
OneEvidence == {"e"}
NodeIds == {"l", "m", "n"}

Artifacts ==
    {[workspace |-> "w", project |-> "p", run |-> NoRun, sha |-> "sha", span |-> "line"]}
NoRequests == {}
Objects ==
    {[workspace |-> "w", project |-> "p", native |-> s] : s \in {"source", "view", "report"}}
Joins(m, n) ==
    [workspace |-> "w", project |-> "p", from |-> m, to |-> n, cites |-> {"e"}]
Relations == {Joins(m, n) : m \in NodeIds, n \in NodeIds}

Asks(depth, limit, directions) ==
    [workspace : {"w"}, root : {"l"}, depth : {depth}, direction : directions, limit : {limit}]
DeepQueries ==
    Asks(2, 2, Direction) \cup Asks(2, 3, {"both"}) \cup Asks(2, 4, Direction)
    \cup Asks(0, 1, {"both"})
WideQueries == Asks(1, 3, {"downstream"})

\* The answers to the handlers are beside the point here.
UntoldSpec == SearchInit /\ [][SearchNext /\ UNCHANGED told]_searchVars

=============================================================================
