------------------------- MODULE LineageNeighborhood -------------------------
(***************************************************************************)
(* lineage_neighborhood of src/backend/src/reweft/api/app.py: a search     *)
(* that reads the root, the edges of one level after the other, and the    *)
(* nodes, each in a statement of its own, while the handlers of            *)
(* EvidenceGraph insert.  Which rows a LIMIT leaves out, and which nodes a *)
(* slice of a set leaves out, is nobody's choice.                          *)
(***************************************************************************)
EXTENDS EvidenceGraph, Integers, FiniteSets

CONSTANT Queries \* the searches that are asked for

Direction == {"upstream", "downstream", "both"}

ASSUME QueriesAssumption ==
    Queries \subseteq
        [workspace : Workspaces, root : Nodes, depth : Nat, direction : Direction,
         limit : Nat \ {0}]
ASSUME FiniteIdsAssumption == IsFiniteSet(Nodes) /\ IsFiniteSet(Edges)

VARIABLE search \* the request that is being answered

searchVars == <<vars, search>>

Idle == [phase |-> "idle"]

\* seen, frontier and edges (their ids) of the code, level the number of levels read, nodes
\* the answer's; before: the edges there were at the start.
Search ==
    [phase : {"levels", "answered"}, query : Queries, level : Nat, seen : SUBSET Nodes,
     frontier : SUBSET Nodes, edges : SUBSET Edges, nodes : SUBSET Nodes,
     before : SUBSET Edges]

SearchTypeOK == search \in Search \cup {Idle}

SearchInit == Init /\ search = Idle

-----------------------------------------------------------------------------
(* The search                                                              *)

Begin(q) ==
    /\ search = Idle
    /\ q.root \in DOMAIN node /\ node[q.root].workspace = q.workspace
    /\ search' = [phase |-> "levels", query |-> q, level |-> 0, seen |-> {q.root},
                  frontier |-> {q.root}, edges |-> {}, nodes |-> {}, before |-> DOMAIN edge]
    /\ UNCHANGED vars

\* Mutant: every edge of the frontier is followed.
TouchingAnyway(q, frontier) ==
    {x \in DOMAIN edge :
        edge[x].workspace = q.workspace /\ {edge[x].from, edge[x].to} \cap frontier # {}}

\* The edges that leave the frontier in the direction asked for.
Touching(q, frontier) ==
    {x \in DOMAIN edge :
        /\ edge[x].workspace = q.workspace
        /\ \/ q.direction \in {"downstream", "both"} /\ edge[x].from \in frontier
           \/ q.direction \in {"upstream", "both"} /\ edge[x].to \in frontier}

\* What is left of S when it is cut at n.
Cut(S, n) == IF Cardinality(S) <= n THEN {S} ELSE {T \in SUBSET S : Cardinality(T) = n}

Ends(xs) == {edge[x].from : x \in xs} \cup {edge[x].to : x \in xs}

\* The nodes of a level that are seen: as many as the limit has room for.
Kept(s, next) == Cut(next, s.query.limit - Cardinality(s.seen))

\* Mutant: the last level is not read.
ContinuesShort(s) ==
    s.level + 1 < s.query.depth /\ s.frontier # {} /\ Cardinality(s.seen) < s.query.limit

Continues(s) ==
    s.level < s.query.depth /\ s.frontier # {} /\ Cardinality(s.seen) < s.query.limit

ReadLevel ==
    /\ search.phase = "levels"
    /\ Continues(search)
    /\ \E rows \in Cut(Touching(search.query, search.frontier), search.query.limit) :
       \E kept \in Kept(search, Ends(rows) \ search.seen) :
          search' = [search EXCEPT !.level = @ + 1, !.seen = @ \cup kept, !.frontier = kept,
                                   !.edges = @ \cup rows]
    /\ UNCHANGED vars

ReadNodes ==
    /\ search.phase = "levels"
    /\ ~ Continues(search)
    /\ search' = [search EXCEPT !.phase = "answered",
                                !.nodes = {n \in search.seen :
                                              /\ n \in DOMAIN node
                                              /\ node[n].workspace = search.query.workspace}]
    /\ UNCHANGED vars

ForgetAnswer ==
    /\ search # Idle /\ search.phase = "answered"
    /\ search' = Idle
    /\ UNCHANGED vars

SearchNext ==
    \/ \E q \in Queries : Begin(q)
    \/ ReadLevel
    \/ ReadNodes
    \/ ForgetAnswer
    \/ Next /\ UNCHANGED search

SearchSpec == SearchInit /\ [][SearchNext]_searchVars

-----------------------------------------------------------------------------
(* Properties                                                              *)

\* Mutant: a full answer is not called truncated.
TruncatedBeyond(s) == Cardinality(s.seen) > s.query.limit

\* The answer's "truncated".
Truncated(s) == Cardinality(s.seen) >= s.query.limit

Answered == search # Idle /\ search.phase = "answered"

\* Edge x leads from m to n in a direction.
Leads(x, m, n, direction) ==
    \/ direction # "upstream" /\ edge[x].from = m /\ edge[x].to = n
    \/ direction # "downstream" /\ edge[x].to = m /\ edge[x].from = n

\* The walks along a set of edges of at most k steps: a walk may rest.
Walks(q, k, xs) ==
    {p \in [0..k -> Nodes] :
        /\ p[0] = q.root
        /\ \A i \in 0..(k - 1) :
              p[i] = p[i + 1] \/ \E x \in xs : Leads(x, p[i], p[i + 1], q.direction)}

Within(q, k, xs) == {p[k] : p \in Walks(q, k, xs)}

\* An answer has no more nodes than its limit.
AnswerWithinLimit == Answered => Cardinality(search.nodes) <= search.query.limit

\* Every node of an answer is of the caller's workspace and within the depth asked for of the
\* root, along edges of the answer itself.
NothingInvented ==
    Answered =>
        \A n \in search.nodes :
            /\ node[n].workspace = search.query.workspace
            /\ n \in Within(search.query, search.query.depth, search.edges)

\* The edges of an answer that is not called truncated join nodes of the answer, whatever was
\* inserted between the statements.
UncutAnswerIsClosed ==
    Answered /\ ~ Truncated(search) => Ends(search.edges) \subseteq search.nodes

\* An answer with fewer nodes and fewer edges than the limit has every node that was within
\* the depth asked for when the search began.
SmallAnswerIsComplete ==
    Answered /\ ~ Truncated(search) /\ Cardinality(search.edges) < search.query.limit =>
        Within(search.query, search.query.depth, search.before) \subseteq search.nodes

-----------------------------------------------------------------------------
(* What the documents say and the code does not do                         *)

\* Partial scans cannot create false completeness (contracts/acceptance.yaml, EVIDENCE-02): an
\* answer that is not called truncated has every node that was within the depth asked for.
UncutAnswerIsComplete ==
    Answered /\ ~ Truncated(search) =>
        Within(search.query, search.query.depth, search.before) \subseteq search.nodes

=============================================================================
