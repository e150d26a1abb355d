--------------------- MODULE LineageNeighborhood_proofs ---------------------
(***************************************************************************)
(* What holds of projects, evidence, findings and lineage for all sets of  *)
(* ids, workspaces and requests, and of the answers of                     *)
(* lineage_neighborhood for every graph, every search, and whatever is     *)
(* inserted while it reads.                                                *)
(***************************************************************************)
EXTENDS LineageNeighborhood, FiniteSetTheorems, TLAPS

-----------------------------------------------------------------------------
(* The tables of evidence and lineage                                      *)

\* Every row would be accepted again: what a handler checks stays true, because rows are
\* only added.
RowsStayAllowed ==
    /\ \A r \in DOMAIN run : InWorkspace(run[r].project, run[r].workspace)
    /\ \A e \in DOMAIN evidence : EvidenceAllowed(evidence[e])
    /\ \A f \in DOMAIN finding : FindingAllowed(finding[f])
    /\ \A x \in DOMAIN edge : EdgeAllowed(edge[x])

IInv == TypeOK /\ RowsStayAllowed

\* A table that loses no row and changes none.
Grows(f, g) == DOMAIN f \subseteq DOMAIN g /\ \A x \in DOMAIN f : g[x] = f[x]

-----------------------------------------------------------------------------
(* Tables that grow                                                        *)

\* What an insertion makes of a table.
LEMMA WithRow ==
    ASSUME NEW f, NEW x, x \notin DOMAIN f, NEW row
    PROVE  /\ DOMAIN With(f, x, row) = DOMAIN f \cup {x}
           /\ With(f, x, row)[x] = row
           /\ \A y \in DOMAIN f : With(f, x, row)[y] = f[y]
           /\ Grows(f, With(f, x, row))
    BY DEF With, Grows

\* The type of a table with another row.
LEMMA WithType ==
    ASSUME NEW Ids, NEW Rows, NEW f, DOMAIN f \subseteq Ids, f \in [DOMAIN f -> Rows],
           NEW x \in Ids, NEW row \in Rows
    PROVE  /\ DOMAIN With(f, x, row) \subseteq Ids
           /\ With(f, x, row) \in [DOMAIN With(f, x, row) -> Rows]
    BY DEF With

\* No handler removes or changes a row.
LEMMA TablesGrow ==
    ASSUME [Next]_vars
    PROVE  /\ Grows(project, project') /\ Grows(run, run') /\ Grows(evidence, evidence')
           /\ Grows(finding, finding') /\ Grows(node, node') /\ Grows(edge, edge')
  <1>1. \A f : Grows(f, f)
    BY DEF Grows
  <1>2. CASE UNCHANGED vars
    BY <1>1, <1>2 DEF vars, tables
  <1>3. ASSUME NEW p \in Projects, NEW w \in Workspaces, NEW n \in Names, CreateProject(p, w, n)
        PROVE  /\ Grows(project, project') /\ Grows(run, run') /\ Grows(evidence, evidence')
               /\ Grows(finding, finding') /\ Grows(node, node') /\ Grows(edge, edge')
    BY <1>1, <1>3, WithRow DEF CreateProject
  <1>4. ASSUME NEW r \in Runs, NEW w \in Workspaces, NEW p \in Projects,
               CreateAssessment(r, w, p)
        PROVE  /\ Grows(project, project') /\ Grows(run, run') /\ Grows(evidence, evidence')
               /\ Grows(finding, finding') /\ Grows(node, node') /\ Grows(edge, edge')
    BY <1>1, <1>4, WithRow DEF CreateAssessment
  <1>5. ASSUME NEW req \in EvidenceRequests, NEW e \in Evidence, CreateEvidence(req, e)
        PROVE  /\ Grows(project, project') /\ Grows(run, run') /\ Grows(evidence, evidence')
               /\ Grows(finding, finding') /\ Grows(node, node') /\ Grows(edge, edge')
    <2>1. Grows(evidence, evidence')
      BY <1>1, <1>5, WithRow DEF CreateEvidence, EvidenceId
    <2> QED
      BY <1>1, <1>5, <2>1 DEF CreateEvidence
  <1>6. ASSUME NEW req \in FindingRequests, NEW f \in Findings, CreateFinding(req, f)
        PROVE  /\ Grows(project, project') /\ Grows(run, run') /\ Grows(evidence, evidence')
               /\ Grows(finding, finding') /\ Grows(node, node') /\ Grows(edge, edge')
    <2>1. Grows(finding, finding')
      BY <1>1, <1>6, WithRow DEF CreateFinding, FindingId
    <2> QED
      BY <1>1, <1>6, <2>1 DEF CreateFinding
  <1>7. ASSUME NEW req \in NodeRequests, NEW n \in Nodes, CreateLineageNode(req, n)
        PROVE  /\ Grows(project, project') /\ Grows(run, run') /\ Grows(evidence, evidence')
               /\ Grows(finding, finding') /\ Grows(node, node') /\ Grows(edge, edge')
    BY <1>1, <1>7, WithRow DEF CreateLineageNode
  <1>8. ASSUME NEW req \in EdgeRequests, NEW x \in Edges, CreateLineageEdge(req, x)
        PROVE  /\ Grows(project, project') /\ Grows(run, run') /\ Grows(evidence, evidence')
               /\ Grows(finding, finding') /\ Grows(node, node') /\ Grows(edge, edge')
    BY <1>1, <1>8, WithRow DEF CreateLineageEdge
  <1> QED
    BY <1>2, <1>3, <1>4, <1>5, <1>6, <1>7, <1>8 DEF Next

\* A check that has succeeded succeeds for ever.
LEMMA AllowedForEver ==
    ASSUME Grows(project, project'), Grows(run, run'), Grows(evidence, evidence'),
           Grows(node, node')
    PROVE  /\ \A p, w : InWorkspace(p, w) => InWorkspace(p, w)'
           /\ \A req : EvidenceAllowed(req) => EvidenceAllowed(req)'
           /\ \A req : FindingAllowed(req) => FindingAllowed(req)'
           /\ \A req : EdgeAllowed(req) => EdgeAllowed(req)'
  <1>1. \A p, w : InWorkspace(p, w) => InWorkspace(p, w)'
    BY DEF InWorkspace, Grows
  <1>2. \A req : EvidenceAllowed(req) => EvidenceAllowed(req)'
    BY <1>1 DEF EvidenceAllowed, Grows
  <1>3. \A req : CitesResolve(req) => CitesResolve(req)'
    BY DEF CitesResolve, Grows
  <1>4. \A req : FindingAllowed(req) => FindingAllowed(req)'
    BY <1>3 DEF FindingAllowed, Grows
  <1>5. \A req, n : EndpointResolves(req, n) => EndpointResolves(req, n)'
    BY DEF EndpointResolves, Grows
  <1>6. \A req : EdgeAllowed(req) => EdgeAllowed(req)'
    BY <1>3, <1>5 DEF EdgeAllowed, CitesResolve, Grows
  <1> QED
    BY <1>1, <1>2, <1>4, <1>6

-----------------------------------------------------------------------------
(* Types                                                                   *)

\* The empty tables satisfy the invariant.
LEMMA InitIInv ==
    ASSUME Init
    PROVE  IInv
    BY DEF Init, Empty, IInv, TypeOK, RowsStayAllowed

\* Every step keeps the types.
LEMMA TypeStep ==
    ASSUME TypeOK, [Next]_vars
    PROVE  TypeOK'
  <1>1. CASE UNCHANGED vars
    BY <1>1 DEF vars, tables, TypeOK
  <1>2. ASSUME NEW p \in Projects, NEW w \in Workspaces, NEW n \in Names, CreateProject(p, w, n)
        PROVE  TypeOK'
    <2>1. /\ [workspace |-> w, name |-> n] \in [workspace : Workspaces, name : Names]
          /\ project' = With(project, p, [workspace |-> w, name |-> n])
          /\ UNCHANGED <<run, evidence, finding, node, edge, told>>
      BY <1>2 DEF CreateProject
    <2>2. /\ DOMAIN project' \subseteq Projects
          /\ project' \in [DOMAIN project' -> [workspace : Workspaces, name : Names]]
      BY <2>1 DEF TypeOK, With
    <2> QED
      BY <2>1, <2>2 DEF TypeOK
  <1>3. ASSUME NEW r \in Runs, NEW w \in Workspaces, NEW p \in Projects,
               CreateAssessment(r, w, p)
        PROVE  TypeOK'
    <2>1. /\ [workspace |-> w, project |-> p] \in [workspace : Workspaces, project : Projects]
          /\ run' = With(run, r, [workspace |-> w, project |-> p])
          /\ UNCHANGED <<project, evidence, finding, node, edge, told>>
      BY <1>3 DEF CreateAssessment
    <2>2. /\ DOMAIN run' \subseteq Runs
          /\ run' \in [DOMAIN run' -> [workspace : Workspaces, project : Projects]]
      BY <2>1 DEF TypeOK, With
    <2> QED
      BY <2>1, <2>2 DEF TypeOK
  <1>4. ASSUME NEW req \in EvidenceRequests, NEW e \in Evidence, CreateEvidence(req, e)
        PROVE  TypeOK'
    <2>1. /\ DOMAIN evidence' \subseteq Evidence
          /\ evidence' \in [DOMAIN evidence' -> EvidenceRequests]
      BY <1>4, WithType DEF CreateEvidence, TypeOK
    <2>2. /\ DOMAIN evidence \subseteq DOMAIN evidence'
          /\ e \in DOMAIN evidence'
      <3>1. CASE SameEvidence(req) = {}
        BY <1>4, <3>1 DEF CreateEvidence, With
      <3>2. CASE SameEvidence(req) # {}
        BY <1>4, <3>2 DEF CreateEvidence, EvidenceId, SameEvidence
      <3> QED
        BY <3>1, <3>2
    <2>3. PICK answers \in Hears(told.evidence, req, e) :
              told' = [told EXCEPT !.evidence = answers]
      BY <1>4 DEF CreateEvidence
    <2>4. told.evidence \in SUBSET (EvidenceRequests \X DOMAIN evidence)
      BY DEF TypeOK
    <2>5. answers \in SUBSET (EvidenceRequests \X DOMAIN evidence')
      BY <2>2, <2>3, <2>4 DEF Hears
    <2>6. UNCHANGED <<project, run, finding, node, edge>>
      BY <1>4 DEF CreateEvidence
    <2> QED
      BY <2>1, <2>3, <2>5, <2>6 DEF TypeOK
  <1>5. ASSUME NEW req \in FindingRequests, NEW f \in Findings, CreateFinding(req, f)
        PROVE  TypeOK'
    <2>1. /\ DOMAIN finding' \subseteq Findings
          /\ finding' \in [DOMAIN finding' -> FindingRequests]
      BY <1>5, WithType DEF CreateFinding, TypeOK
    <2>2. /\ DOMAIN finding \subseteq DOMAIN finding'
          /\ f \in DOMAIN finding'
      <3>1. CASE SameFinding(req) = {}
        BY <1>5, <3>1 DEF CreateFinding, With
      <3>2. CASE SameFinding(req) # {}
        BY <1>5, <3>2 DEF CreateFinding, FindingId, SameFinding
      <3> QED
        BY <3>1, <3>2
    <2>3. PICK answers \in Hears(told.finding, req, f) :
              told' = [told EXCEPT !.finding = answers]
      BY <1>5 DEF CreateFinding
    <2>4. told.finding \in SUBSET (FindingRequests \X DOMAIN finding)
      BY DEF TypeOK
    <2>5. answers \in SUBSET (FindingRequests \X DOMAIN finding')
      BY <2>2, <2>3, <2>4 DEF Hears
    <2>6. UNCHANGED <<project, run, evidence, node, edge>>
      BY <1>5 DEF CreateFinding
    <2> QED
      BY <2>1, <2>3, <2>5, <2>6 DEF TypeOK
  <1>6. ASSUME NEW req \in NodeRequests, NEW n \in Nodes, CreateLineageNode(req, n)
        PROVE  TypeOK'
    <2>1. /\ DOMAIN node' \subseteq Nodes
          /\ node' \in [DOMAIN node' -> NodeRequests]
      BY <1>6, WithType DEF CreateLineageNode, TypeOK
    <2>2. /\ DOMAIN node \subseteq DOMAIN node'
          /\ n \in DOMAIN node'
      BY <1>6 DEF CreateLineageNode, With
    <2>3. PICK answers \in Hears(told.node, req, n) : told' = [told EXCEPT !.node = answers]
      BY <1>6 DEF CreateLineageNode
    <2>4. told.node \in SUBSET (NodeRequests \X DOMAIN node)
      BY DEF TypeOK
    <2>5. answers \in SUBSET (NodeRequests \X DOMAIN node')
      BY <2>2, <2>3, <2>4 DEF Hears
    <2>6. UNCHANGED <<project, run, evidence, finding, edge>>
      BY <1>6 DEF CreateLineageNode
    <2> QED
      BY <2>1, <2>3, <2>5, <2>6 DEF TypeOK
  <1>7. ASSUME NEW req \in EdgeRequests, NEW x \in Edges, CreateLineageEdge(req, x)
        PROVE  TypeOK'
    BY <1>7, WithType DEF CreateLineageEdge, TypeOK
  <1> QED
    BY <1>1, <1>2, <1>3, <1>4, <1>5, <1>6, <1>7 DEF Next

-----------------------------------------------------------------------------
(* References                                                              *)

\* A row that is new was checked by its handler; an old one still passes.
LEMMA AllowedStep ==
    ASSUME IInv, [Next]_vars
    PROVE  RowsStayAllowed'
  <1>1. /\ Grows(project, project') /\ Grows(run, run') /\ Grows(evidence, evidence')
        /\ Grows(finding, finding') /\ Grows(node, node') /\ Grows(edge, edge')
    BY TablesGrow
  <1>2. /\ \A p, w : InWorkspace(p, w) => InWorkspace(p, w)'
        /\ \A req : EvidenceAllowed(req) => EvidenceAllowed(req)'
        /\ \A req : FindingAllowed(req) => FindingAllowed(req)'
        /\ \A req : EdgeAllowed(req) => EdgeAllowed(req)'
    BY <1>1, AllowedForEver
  <1>3. /\ \A r \in DOMAIN run' \ DOMAIN run :
              InWorkspace(run'[r].project, run'[r].workspace)
        /\ \A e \in DOMAIN evidence' \ DOMAIN evidence : EvidenceAllowed(evidence'[e])
        /\ \A f \in DOMAIN finding' \ DOMAIN finding : FindingAllowed(finding'[f])
        /\ \A x \in DOMAIN edge' \ DOMAIN edge : EdgeAllowed(edge'[x])
    <2>1. CASE UNCHANGED vars
      BY <2>1 DEF vars, tables
    <2>2. CASE \E p \in Projects, w \in Workspaces, n \in Names : CreateProject(p, w, n)
      BY <2>2 DEF CreateProject
    <2>3. CASE \E r \in Runs, w \in Workspaces, p \in Projects : CreateAssessment(r, w, p)
      BY <2>3 DEF CreateAssessment, With
    <2>4. CASE \E req \in EvidenceRequests, e \in Evidence : CreateEvidence(req, e)
      <3>1. PICK req \in EvidenceRequests, e \in Evidence : CreateEvidence(req, e)
        BY <2>4
      <3>2. /\ EvidenceAllowed(req)
            /\ evidence' \in {evidence, With(evidence, e, req)}
            /\ UNCHANGED <<run, finding, edge>>
        BY <3>1 DEF CreateEvidence
      <3> QED
        BY <3>2 DEF With
    <2>5. CASE \E req \in FindingRequests, f \in Findings : CreateFinding(req, f)
      <3>1. PICK req \in FindingRequests, f \in Findings : CreateFinding(req, f)
        BY <2>5
      <3>2. /\ FindingAllowed(req)
            /\ finding' \in {finding, With(finding, f, req)}
            /\ UNCHANGED <<run, evidence, edge>>
        BY <3>1 DEF CreateFinding
      <3> QED
        BY <3>2 DEF With
    <2>6. CASE \E req \in NodeRequests, n \in Nodes : CreateLineageNode(req, n)
      BY <2>6 DEF CreateLineageNode
    <2>7. CASE \E req \in EdgeRequests, x \in Edges : CreateLineageEdge(req, x)
      BY <2>7 DEF CreateLineageEdge, With
    <2> QED
      BY <2>1, <2>2, <2>3, <2>4, <2>5, <2>6, <2>7 DEF Next
  <1>4. \A r \in DOMAIN run' : InWorkspace(run[r].project, run[r].workspace)'
    BY <1>1, <1>2, <1>3 DEF IInv, RowsStayAllowed, Grows
  <1>5. \A e \in DOMAIN evidence' : EvidenceAllowed(evidence[e])'
    BY <1>1, <1>2, <1>3 DEF IInv, RowsStayAllowed, Grows
  <1>6. \A f \in DOMAIN finding' : FindingAllowed(finding[f])'
    BY <1>1, <1>2, <1>3 DEF IInv, RowsStayAllowed, Grows
  <1>7. \A x \in DOMAIN edge' : EdgeAllowed(edge[x])'
    BY <1>1, <1>2, <1>3 DEF IInv, RowsStayAllowed, Grows
  <1> QED
    BY <1>4, <1>5, <1>6, <1>7 DEF RowsStayAllowed

\* The invariant holds in every reachable state.
THEOREM Invariance == Spec => []IInv
  <1>1. Init => IInv
    BY InitIInv
  <1>2. IInv /\ [Next]_vars => IInv'
    BY TypeStep, AllowedStep DEF IInv
  <1> QED
    BY <1>1, <1>2, PTL DEF Spec

\* The tables keep their types (the tables of app.py's evidence and lineage handlers).
THEOREM TypeCorrect == Spec => []TypeOK
  <1>1. IInv => TypeOK
    BY DEF IInv
  <1> QED
    BY <1>1, Invariance, PTL

\* No reference of a row leaves the row's workspace, or its project where evidence and lineage
\* are concerned: rows that were accepted would be accepted again.
THEOREM ReferencesAreInside == Spec => []ReferencesStayInside
  <1>1. ASSUME IInv
        PROVE  ReferencesStayInside
    <2>1. \A r \in DOMAIN run : InWorkspace(run[r].project, run[r].workspace)
      BY <1>1 DEF IInv, RowsStayAllowed
    <2>2. ASSUME NEW e \in DOMAIN evidence
          PROVE  /\ InWorkspace(evidence[e].project, evidence[e].workspace)
                 /\ evidence[e].run # NoRun => run[evidence[e].run].project = evidence[e].project
      <3>1. EvidenceAllowed(evidence[e])
        BY <1>1 DEF IInv, RowsStayAllowed
      <3>2. InWorkspace(evidence[e].project, evidence[e].workspace)
        BY <3>1 DEF EvidenceAllowed
      <3>3. ASSUME evidence[e].run # NoRun
            PROVE  run[evidence[e].run].project = evidence[e].project
        BY <3>1, <3>3 DEF EvidenceAllowed
      <3> QED
        BY <3>2, <3>3
    <2>3. ASSUME NEW f \in DOMAIN finding, NEW e \in finding[f].cites
          PROVE  /\ e \in DOMAIN evidence
                 /\ evidence[e].workspace = run[finding[f].run].workspace
      BY <1>1 DEF IInv, RowsStayAllowed, FindingAllowed, CitesResolve
    <2>4. ASSUME NEW x \in DOMAIN edge, NEW n \in {edge[x].from, edge[x].to},
                 NEW e \in edge[x].cites
          PROVE  /\ n \in DOMAIN node /\ e \in DOMAIN evidence
                 /\ node[n].workspace = evidence[e].workspace
                 /\ node[n].project = evidence[e].project
      BY <1>1 DEF IInv, RowsStayAllowed, EdgeAllowed, CitesResolve, EndpointResolves
    <2> QED
      BY <2>1, <2>2, <2>3, <2>4 DEF ReferencesStayInside
  <1> QED
    BY <1>1, Invariance, PTL

-----------------------------------------------------------------------------
(* Steps and tables                                                        *)

\* A table and its answers are changed by the table's own handler only.
LEMMA ElsewhereUnchanged ==
    ASSUME TypeOK, [Next]_vars
    PROVE  /\ \/ \E req \in EvidenceRequests, e \in Evidence : CreateEvidence(req, e)
              \/ evidence' = evidence /\ told'.evidence = told.evidence
           /\ \/ \E req \in FindingRequests, f \in Findings : CreateFinding(req, f)
              \/ finding' = finding /\ told'.finding = told.finding
           /\ \/ \E req \in NodeRequests, n \in Nodes : CreateLineageNode(req, n)
              \/ node' = node /\ told'.node = told.node
  <1>1. CASE UNCHANGED vars
    BY <1>1 DEF vars, tables
  <1>2. CASE \E p \in Projects, w \in Workspaces, n \in Names : CreateProject(p, w, n)
    BY <1>2 DEF CreateProject
  <1>3. CASE \E r \in Runs, w \in Workspaces, p \in Projects : CreateAssessment(r, w, p)
    BY <1>3 DEF CreateAssessment
  <1>4. CASE \E req \in EvidenceRequests, e \in Evidence : CreateEvidence(req, e)
    BY <1>4 DEF CreateEvidence, TypeOK
  <1>5. CASE \E req \in FindingRequests, f \in Findings : CreateFinding(req, f)
    BY <1>5 DEF CreateFinding, TypeOK
  <1>6. CASE \E req \in NodeRequests, n \in Nodes : CreateLineageNode(req, n)
    BY <1>6 DEF CreateLineageNode, TypeOK
  <1>7. CASE \E req \in EdgeRequests, x \in Edges : CreateLineageEdge(req, x)
    BY <1>7 DEF CreateLineageEdge
  <1> QED
    BY <1>1, <1>2, <1>3, <1>4, <1>5, <1>6, <1>7 DEF Next

-----------------------------------------------------------------------------
(* Refinement: the evidence table                                           *)

\* The first state of the table.
LEMMA EvidenceTableInit ==
    ASSUME Init
    PROVE  EvidenceTable!Init
    BY DEF Init, Empty, EvidenceTable!Init

\* A step that does not concern the table is a stutter of it.
LEMMA EvidenceTableStutter ==
    ASSUME evidence' = evidence, told'.evidence = told.evidence
    PROVE  UNCHANGED EvidenceTable!vars
    BY DEF EvidenceTable!vars

\* A request that finds no row stores one, and one that finds a row is answered with it.
LEMMA EvidenceTableRequest ==
    ASSUME TypeOK, NEW req \in EvidenceRequests, NEW e \in Evidence, CreateEvidence(req, e)
    PROVE  [EvidenceTable!Next]_EvidenceTable!vars
  <1> DEFINE entry(a) == <<EvidenceKey(a[1]), <<a[2], evidence[a[2]]>>>>
             pair == <<EvidenceKey(req), <<e, evidence'[e]>>>>
             stored == {<<EvidenceKey(evidence[x]), <<x, evidence[x]>>>> : x \in DOMAIN evidence}
             answered == {entry(a) : a \in told.evidence}
  <1>1. /\ evidence \in [DOMAIN evidence -> EvidenceRequests]
        /\ told.evidence \in SUBSET (EvidenceRequests \X DOMAIN evidence)
    BY DEF TypeOK
  <1>2. /\ e \in DOMAIN evidence'
        /\ \A x \in DOMAIN evidence : x \in DOMAIN evidence' /\ evidence'[x] = evidence[x]
    BY DEF CreateEvidence, EvidenceId, SameEvidence, With
  <1>3. told'.evidence \in {told.evidence, told.evidence \cup {<<req, e>>}}
    <2>1. PICK answers \in Hears(told.evidence, req, e) : told' = [told EXCEPT !.evidence = answers]
      BY DEF CreateEvidence
    <2>2. told'.evidence = answers
      BY <2>1 DEF TypeOK
    <2> QED
      BY <2>1, <2>2 DEF Hears
  <1>4. answered' \in {answered, answered \cup {pair}}
    <2>1. \A a \in told.evidence : entry(a)' = entry(a)
      BY <1>1, <1>2
    <2>2. entry(<<req, e>>)' = pair
      OBVIOUS
    <2>3. CASE told'.evidence = told.evidence
      BY <2>1, <2>3
    <2>4. CASE told'.evidence = told.evidence \cup {<<req, e>>}
      BY <2>1, <2>2, <2>4
    <2> QED
      BY <1>3, <2>3, <2>4
  <1>5. CASE SameEvidence(req) = {}
    <2>1. e \notin DOMAIN evidence /\ evidence' = With(evidence, e, req)
      BY <1>5 DEF CreateEvidence, EvidenceId
    <2>2. stored' = stored \cup {pair}
      BY <2>1 DEF With
    <2>3. \A old \in stored : old[1] # EvidenceKey(req)
      BY <1>5 DEF SameEvidence
    <2>4. <<e, evidence'[e]>> \in Evidence \X EvidenceRequests
      BY <2>1 DEF With
    <2> QED
      BY <1>4, <2>2, <2>3, <2>4 DEF EvidenceTable!Next, EvidenceTable!Store
  <1>6. CASE SameEvidence(req) # {}
    <2>1. e \in SameEvidence(req) /\ evidence' = evidence
      BY <1>6 DEF CreateEvidence, EvidenceId
    <2>2. pair \in stored
      BY <2>1 DEF SameEvidence
    <2>3. stored' = stored
      BY <2>1
    <2> QED
      BY <1>4, <2>2, <2>3 DEF EvidenceTable!Next, EvidenceTable!Answer, EvidenceTable!vars
  <1> QED
    BY <1>5, <1>6

\* One artifact of a project is one piece of evidence for ever, and every answer about it is that
\* one (create_evidence).
THEOREM EvidenceTableRefines == Spec => ImplementsEvidenceTable
  <1>1. Init => EvidenceTable!Init
    BY EvidenceTableInit
  <1>2. TypeOK /\ [Next]_vars => [EvidenceTable!Next]_EvidenceTable!vars
    <2> SUFFICES ASSUME TypeOK, [Next]_vars
                 PROVE  [EvidenceTable!Next]_EvidenceTable!vars
      OBVIOUS
    <2>1. CASE \E req \in EvidenceRequests, e \in Evidence : CreateEvidence(req, e)
      BY <2>1, EvidenceTableRequest
    <2>2. ASSUME ~ \E req \in EvidenceRequests, e \in Evidence : CreateEvidence(req, e)
          PROVE  evidence' = evidence /\ told'.evidence = told.evidence
      BY <2>2, ElsewhereUnchanged
    <2> QED
      BY <2>1, <2>2, EvidenceTableStutter
  <1> QED
    BY <1>1, <1>2, TypeCorrect, PTL DEF Spec, ImplementsEvidenceTable, EvidenceTable!Spec

-----------------------------------------------------------------------------
(* Refinement: the findings table                                           *)

\* The first state of the table.
LEMMA FindingTableInit ==
    ASSUME Init
    PROVE  FindingTable!Init
    BY DEF Init, Empty, FindingTable!Init

\* A step that does not concern the table is a stutter of it.
LEMMA FindingTableStutter ==
    ASSUME finding' = finding, told'.finding = told.finding
    PROVE  UNCHANGED FindingTable!vars
    BY DEF FindingTable!vars

\* A request that finds no row stores one, and one that finds a row is answered with it.
LEMMA FindingTableRequest ==
    ASSUME TypeOK, NEW req \in FindingRequests, NEW f \in Findings, CreateFinding(req, f)
    PROVE  [FindingTable!Next]_FindingTable!vars
  <1> DEFINE entry(a) == <<FindingKey(a[1]), <<a[2], finding[a[2]]>>>>
             pair == <<FindingKey(req), <<f, finding'[f]>>>>
             stored == {<<FindingKey(finding[x]), <<x, finding[x]>>>> : x \in DOMAIN finding}
             answered == {entry(a) : a \in told.finding}
  <1>1. /\ finding \in [DOMAIN finding -> FindingRequests]
        /\ told.finding \in SUBSET (FindingRequests \X DOMAIN finding)
    BY DEF TypeOK
  <1>2. /\ f \in DOMAIN finding'
        /\ \A x \in DOMAIN finding : x \in DOMAIN finding' /\ finding'[x] = finding[x]
    BY DEF CreateFinding, FindingId, SameFinding, With
  <1>3. told'.finding \in {told.finding, told.finding \cup {<<req, f>>}}
    <2>1. PICK answers \in Hears(told.finding, req, f) : told' = [told EXCEPT !.finding = answers]
      BY DEF CreateFinding
    <2>2. told'.finding = answers
      BY <2>1 DEF TypeOK
    <2> QED
      BY <2>1, <2>2 DEF Hears
  <1>4. answered' \in {answered, answered \cup {pair}}
    <2>1. \A a \in told.finding : entry(a)' = entry(a)
      BY <1>1, <1>2
    <2>2. entry(<<req, f>>)' = pair
      OBVIOUS
    <2>3. CASE told'.finding = told.finding
      BY <2>1, <2>3
    <2>4. CASE told'.finding = told.finding \cup {<<req, f>>}
      BY <2>1, <2>2, <2>4
    <2> QED
      BY <1>3, <2>3, <2>4
  <1>5. CASE SameFinding(req) = {}
    <2>1. f \notin DOMAIN finding /\ finding' = With(finding, f, req)
      BY <1>5 DEF CreateFinding, FindingId
    <2>2. stored' = stored \cup {pair}
      BY <2>1 DEF With
    <2>3. \A old \in stored : old[1] # FindingKey(req)
      BY <1>5 DEF SameFinding
    <2>4. <<f, finding'[f]>> \in Findings \X FindingRequests
      BY <2>1 DEF With
    <2> QED
      BY <1>4, <2>2, <2>3, <2>4 DEF FindingTable!Next, FindingTable!Store
  <1>6. CASE SameFinding(req) # {}
    <2>1. f \in SameFinding(req) /\ finding' = finding
      BY <1>6 DEF CreateFinding, FindingId
    <2>2. pair \in stored
      BY <2>1 DEF SameFinding
    <2>3. stored' = stored
      BY <2>1
    <2> QED
      BY <1>4, <2>2, <2>3 DEF FindingTable!Next, FindingTable!Answer, FindingTable!vars
  <1> QED
    BY <1>5, <1>6

\* A stable key of a run is one finding for ever, and every answer about it is that one
\* (create_finding).
THEOREM FindingTableRefines == Spec => ImplementsFindingTable
  <1>1. Init => FindingTable!Init
    BY FindingTableInit
  <1>2. TypeOK /\ [Next]_vars => [FindingTable!Next]_FindingTable!vars
    <2> SUFFICES ASSUME TypeOK, [Next]_vars
                 PROVE  [FindingTable!Next]_FindingTable!vars
      OBVIOUS
    <2>1. CASE \E req \in FindingRequests, f \in Findings : CreateFinding(req, f)
      BY <2>1, FindingTableRequest
    <2>2. ASSUME ~ \E req \in FindingRequests, f \in Findings : CreateFinding(req, f)
          PROVE  finding' = finding /\ told'.finding = told.finding
      BY <2>2, ElsewhereUnchanged
    <2> QED
      BY <2>1, <2>2, FindingTableStutter
  <1> QED
    BY <1>1, <1>2, TypeCorrect, PTL DEF Spec, ImplementsFindingTable, FindingTable!Spec

-----------------------------------------------------------------------------
(* Refinement: the lineage node table                                      *)

\* A node that is created is new under its key.
LEMMA NodeTableRequest ==
    ASSUME TypeOK, NEW req \in NodeRequests, NEW n \in Nodes, CreateLineageNode(req, n)
    PROVE  NodeTable!Next
  <1> DEFINE stored == {<<node[x], x>> : x \in DOMAIN node}
  <1>1. \A old \in stored : old[1] # req
    BY DEF CreateLineageNode, NodeIsNew
  <1>2. stored' = stored \cup {<<req, n>>}
    BY DEF CreateLineageNode, With
  <1>3. told'.node \in {told.node, told.node \cup {<<req, n>>}}
    <2>1. PICK answers \in Hears(told.node, req, n) : told' = [told EXCEPT !.node = answers]
      BY DEF CreateLineageNode
    <2>2. told'.node = answers
      BY <2>1 DEF TypeOK
    <2> QED
      BY <2>1, <2>2 DEF Hears
  <1> QED
    BY <1>1, <1>2, <1>3 DEF NodeTable!Next, NodeTable!Store

\* A native object of a project is one lineage node for ever (create_lineage_node).
THEOREM NodeTableRefines == Spec => ImplementsNodeTable
  <1>1. Init => NodeTable!Init
    BY DEF Init, Empty, NodeTable!Init
  <1>2. TypeOK /\ [Next]_vars => [NodeTable!Next]_NodeTable!vars
    <2> SUFFICES ASSUME TypeOK, [Next]_vars
                 PROVE  [NodeTable!Next]_NodeTable!vars
      OBVIOUS
    <2>1. CASE \E req \in NodeRequests, n \in Nodes : CreateLineageNode(req, n)
      BY <2>1, NodeTableRequest
    <2>2. CASE node' = node /\ told'.node = told.node
      BY <2>2 DEF NodeTable!vars
    <2> QED
      BY <2>1, <2>2, ElsewhereUnchanged
  <1> QED
    BY <1>1, <1>2, TypeCorrect, PTL DEF Spec, ImplementsNodeTable, NodeTable!Spec

-----------------------------------------------------------------------------
(* The search                                                              *)

\* What is seen is of the graph, of the caller's workspace, and no more than the limit.
Grounded(s) ==
    /\ s.query.root \in s.seen
    /\ s.frontier \subseteq s.seen
    /\ s.seen \subseteq DOMAIN node
    /\ \A n \in s.seen : node[n].workspace = s.query.workspace
    /\ s.edges \subseteq DOMAIN edge
    /\ s.before \subseteq DOMAIN edge
    /\ Cardinality(s.seen) <= s.query.limit
    /\ s.level <= s.query.depth

\* A level gives walks of its length along the edges that were read.
Reached(s) == s.seen \subseteq Within(s.query, s.level, s.edges)

\* While nothing is cut, both ends of what was read are seen.
Closed(s) == ~ Truncated(s) => Ends(s.edges) \subseteq s.seen

\* While nothing is cut, whatever the edges of the start lead to is seen, of a node that has
\* left the frontier and of the first steps of a walk.
Complete(s) ==
    ~ Truncated(s) /\ Cardinality(s.edges) < s.query.limit =>
        /\ \A n \in s.seen \ s.frontier, x \in s.before, m \in Nodes :
              Leads(x, n, m, s.query.direction) => m \in s.seen
        /\ \A p \in Walks(s.query, s.query.depth, s.before) :
              \A i \in 0..s.level : p[i] \in s.seen

\* An answer is what was seen, and was given when there was nothing left to read.
Finished(s) == s.phase = "answered" => s.nodes = s.seen /\ ~ Continues(s)

SearchInv ==
    /\ IInv
    /\ SearchTypeOK
    /\ search # Idle =>
          Grounded(search) /\ Reached(search) /\ Closed(search) /\ Complete(search)
          /\ Finished(search)

-----------------------------------------------------------------------------
(* Cutting                                                                 *)

\* A cut leaves at most n elements, and everything when it leaves fewer.
LEMMA CutIsPart ==
    ASSUME NEW S, IsFiniteSet(S), NEW n \in Nat, NEW T \in Cut(S, n)
    PROVE  /\ T \subseteq S
           /\ IsFiniteSet(T) /\ IsFiniteSet(S)
           /\ Cardinality(T) \in Nat
           /\ Cardinality(T) <= n
           /\ Cardinality(T) < n => T = S
  <1>1. T \subseteq S
    BY DEF Cut
  <1>2. IsFiniteSet(T) /\ Cardinality(T) \in Nat /\ Cardinality(S) \in Nat
    BY <1>1, FS_Subset, FS_CardinalityType
  <1>3. CASE Cardinality(S) <= n
    BY <1>1, <1>2, <1>3 DEF Cut
  <1>4. CASE ~ (Cardinality(S) <= n)
    BY <1>1, <1>2, <1>4 DEF Cut
  <1> QED
    BY <1>3, <1>4

\* Nothing is cut from a level that leaves room.
LEMMA KeptIsAll ==
    ASSUME NEW seen, NEW next, NEW limit \in Nat, IsFiniteSet(seen), IsFiniteSet(next),
           Cardinality(seen) <= limit, seen \cap next = {},
           NEW kept \in Cut(next, limit - Cardinality(seen))
    PROVE  /\ kept \subseteq next
           /\ IsFiniteSet(seen \cup kept)
           /\ Cardinality(seen \cup kept) <= limit
           /\ Cardinality(seen \cup kept) < limit => kept = next
  <1>1. Cardinality(seen) \in Nat /\ limit - Cardinality(seen) \in Nat
    BY FS_CardinalityType
  <1>2. /\ kept \subseteq next /\ IsFiniteSet(kept) /\ Cardinality(kept) \in Nat
        /\ Cardinality(kept) <= limit - Cardinality(seen)
        /\ Cardinality(kept) < limit - Cardinality(seen) => kept = next
    BY <1>1, CutIsPart
  <1>3. seen \cap kept = {}
    BY <1>2
  <1>4. /\ IsFiniteSet(seen \cup kept)
        /\ Cardinality(seen \cup kept) =
              Cardinality(seen) + Cardinality(kept) - Cardinality(seen \cap kept)
    BY <1>2, FS_Union
  <1>5. Cardinality(seen \cap kept) = 0
    BY <1>3, FS_EmptySet
  <1> QED
    BY <1>1, <1>2, <1>4, <1>5

-----------------------------------------------------------------------------
(* Walks                                                                   *)

\* A walk along fewer edges is one along more, and it may rest for a step.
LEMMA WithinGrows ==
    ASSUME NEW q, NEW k \in Nat, NEW xs, NEW ys, xs \subseteq ys
    PROVE  Within(q, k, xs) \subseteq Within(q, k, ys)
    BY DEF Within, Walks

\* One more step, or a rest, at the end of a walk.
LEMMA WithinStep ==
    ASSUME NEW q, NEW k \in Nat, NEW xs, NEW n \in Within(q, k, xs), NEW m \in Nodes,
           n = m \/ \E x \in xs : Leads(x, n, m, q.direction)
    PROVE  m \in Within(q, k + 1, xs)
  <1>1. PICK p \in Walks(q, k, xs) : p[k] = n
    BY DEF Within
  <1> DEFINE r == [i \in 0..(k + 1) |-> IF i = k + 1 THEN m ELSE p[i]]
  <1>2. /\ p \in [0..k -> Nodes] /\ p[0] = q.root
        /\ \A i \in 0..(k - 1) :
              p[i] = p[i + 1] \/ \E x \in xs : Leads(x, p[i], p[i + 1], q.direction)
    BY DEF Walks
  <1>3. r \in [0..(k + 1) -> Nodes] /\ r[0] = q.root /\ r[k + 1] = m
    BY <1>2
  <1>4. ASSUME NEW i \in 0..k
        PROVE  r[i] = r[i + 1] \/ \E x \in xs : Leads(x, r[i], r[i + 1], q.direction)
    <2>1. CASE i = k
      <3>1. r[i] = n /\ r[i + 1] = m
        BY <1>1, <2>1
      <3> QED
        BY <3>1
    <2>2. CASE i # k
      <3>1. i \in 0..(k - 1) /\ r[i] = p[i] /\ r[i + 1] = p[i + 1]
        BY <2>2
      <3> QED
        BY <1>2, <3>1
    <2> QED
      BY <2>1, <2>2
  <1>5. (k + 1) - 1 = k
    OBVIOUS
  <1>6. r \in Walks(q, k + 1, xs)
    BY <1>3, <1>4, <1>5 DEF Walks
  <1> QED
    BY <1>3, <1>6 DEF Within

\* A walk may rest to the end.
LEMMA WithinRests ==
    ASSUME NEW q, NEW k \in Nat, NEW l \in Nat, k <= l, NEW xs, NEW n \in Within(q, k, xs)
    PROVE  n \in Within(q, l, xs)
  <1>1. PICK p \in Walks(q, k, xs) : p[k] = n
    BY DEF Within
  <1> DEFINE r == [i \in 0..l |-> IF i <= k THEN p[i] ELSE n]
  <1>2. /\ p \in [0..k -> Nodes] /\ p[0] = q.root
        /\ \A i \in 0..(k - 1) :
              p[i] = p[i + 1] \/ \E x \in xs : Leads(x, p[i], p[i + 1], q.direction)
    BY DEF Walks
  <1>3. r \in [0..l -> Nodes] /\ r[0] = q.root /\ r[l] = n
    BY <1>1, <1>2
  <1>4. ASSUME NEW i \in 0..(l - 1)
        PROVE  r[i] = r[i + 1] \/ \E x \in xs : Leads(x, r[i], r[i + 1], q.direction)
    <2>1. CASE i < k
      <3>1. i \in 0..(k - 1) /\ r[i] = p[i] /\ r[i + 1] = p[i + 1]
        BY <2>1
      <3> QED
        BY <1>2, <3>1
    <2>2. CASE i >= k
      BY <1>1, <2>2
    <2> QED
      BY <2>1, <2>2
  <1>5. r \in Walks(q, l, xs)
    BY <1>3, <1>4 DEF Walks
  <1> QED
    BY <1>3, <1>5 DEF Within

\* A walk that starts in a set that edges do not leave stays in it.
LEMMA WalksStayInside ==
    ASSUME NEW q, NEW k \in Nat, NEW xs, NEW S, q.root \in S,
           \A n \in S, x \in xs, m \in Nodes : Leads(x, n, m, q.direction) => m \in S,
           NEW p \in Walks(q, k, xs), NEW j \in 0..k
    PROVE  p[j] \in S
  <1> DEFINE T == {0..i : i \in {l \in 0..k : p[l] \notin S}}
  <1> SUFFICES ASSUME p[j] \notin S
               PROVE  FALSE
    OBVIOUS
  <1>1. T \subseteq FiniteSubsetsOf(Nat) /\ T # {}
    <2>1. ASSUME NEW i \in 0..k
          PROVE  0..i \in FiniteSubsetsOf(Nat)
      <3>1. 0..i \subseteq Nat /\ 0 \in Int /\ i \in Int
        OBVIOUS
      <3>2. IsFiniteSet(0..i)
        BY <3>1, FS_Interval
      <3> QED
        BY <3>1, <3>2 DEF FiniteSubsetsOf
    <2>2. 0..j \in T
      OBVIOUS
    <2> QED
      BY <2>1, <2>2
  <1>2. IsWellFoundedOn(StrictSubsetOrdering(Nat), FiniteSubsetsOf(Nat))
    BY FS_StrictSubsetOrderingWellFounded
  <1>3. PICK I \in T : \A J \in T : <<J, I>> \notin StrictSubsetOrdering(Nat)
    BY <1>1, <1>2, WFMin
  <1>4. PICK i \in 0..k : I = 0..i /\ p[i] \notin S
    BY <1>3
  <1>5. p[0] = q.root /\ p \in [0..k -> Nodes]
    BY DEF Walks
  <1>6. i # 0 /\ i - 1 \in 0..(k - 1) /\ i - 1 \in 0..k /\ (i - 1) + 1 = i
    BY <1>4, <1>5
  <1>7. p[i - 1] \in S
    <2> SUFFICES ASSUME p[i - 1] \notin S
                 PROVE  FALSE
      OBVIOUS
    <2>1. 0..(i - 1) \in T
      BY <1>6
    <2>2. 0..(i - 1) \subseteq 0..i /\ 0..i \subseteq Nat /\ i \in 0..i /\ i \notin 0..(i - 1)
      BY <1>6
    <2>3. <<0..(i - 1), 0..i>> \in StrictSubsetOrdering(Nat)
      BY <2>2 DEF StrictSubsetOrdering
    <2> QED
      BY <1>3, <1>4, <2>1, <2>3
  <1>8. p[i - 1] = p[i] \/ \E x \in xs : Leads(x, p[i - 1], p[i], q.direction)
    BY <1>6 DEF Walks
  <1> QED
    BY <1>4, <1>5, <1>6, <1>7, <1>8

-----------------------------------------------------------------------------
(* The search                                                              *)

\* The cardinalities of a search.
LEMMA SearchSizes ==
    ASSUME SearchTypeOK, search # Idle
    PROVE  /\ search \in Search
           /\ search.query \in Queries
           /\ search.query.limit \in Nat \ {0} /\ search.query.depth \in Nat
           /\ search.query.direction \in Direction /\ search.query.root \in Nodes
           /\ search.level \in Nat
           /\ IsFiniteSet(search.seen) /\ Cardinality(search.seen) \in Nat
           /\ IsFiniteSet(search.edges) /\ Cardinality(search.edges) \in Nat
           /\ search.frontier \subseteq Nodes /\ search.seen \subseteq Nodes
  <1>1. search \in Search
    BY DEF SearchTypeOK
  <1>2. search.seen \in SUBSET Nodes /\ search.edges \in SUBSET Edges
    BY <1>1 DEF Search
  <1>3. /\ IsFiniteSet(search.seen) /\ Cardinality(search.seen) \in Nat
        /\ IsFiniteSet(search.edges) /\ Cardinality(search.edges) \in Nat
    BY <1>2, FiniteIdsAssumption, FS_Subset, FS_CardinalityType
  <1>4. search.query \in Queries
    BY <1>1 DEF Search
  <1>5. /\ search.query.limit \in Nat \ {0} /\ search.query.depth \in Nat
        /\ search.query.direction \in Direction /\ search.query.root \in Nodes
    BY <1>4, QueriesAssumption
  <1>6. search.level \in Nat /\ search.frontier \subseteq Nodes
    BY <1>1 DEF Search
  <1> QED
    BY <1>1, <1>2, <1>3, <1>4, <1>5, <1>6

\* A search starts at its root.
LEMMA BeginStep ==
    ASSUME SearchInv, NEW q \in Queries, Begin(q)
    PROVE  SearchInv'
  <1> DEFINE s == [phase |-> "levels", query |-> q, level |-> 0, seen |-> {q.root},
                   frontier |-> {q.root}, edges |-> {}, nodes |-> {}, before |-> DOMAIN edge]
  <1>1. /\ search' = s /\ UNCHANGED vars
        /\ q.root \in DOMAIN node /\ node[q.root].workspace = q.workspace
    BY DEF Begin
  <1>2. /\ s.phase = "levels" /\ s.query = q /\ s.level = 0 /\ s.seen = {q.root}
        /\ s.frontier = {q.root} /\ s.edges = {} /\ s.nodes = {} /\ s.before = DOMAIN edge
    OBVIOUS
  <1>3. /\ q.limit \in Nat \ {0} /\ q.depth \in Nat /\ q.root \in Nodes
    BY QueriesAssumption
  <1>4. IInv'
    BY <1>1 DEF SearchInv, IInv, TypeOK, RowsStayAllowed, InWorkspace, EvidenceAllowed,
                FindingAllowed, EdgeAllowed, CitesResolve, EndpointResolves, vars, tables
  <1>5. SearchTypeOK'
    <2>1. DOMAIN edge \subseteq Edges
      BY DEF SearchInv, IInv, TypeOK
    <2>2. s \in Search
      BY <1>3, <2>1 DEF Search
    <2> QED
      BY <1>1, <2>2 DEF SearchTypeOK
  <1>6. Cardinality({q.root}) = 1
    BY FS_Singleton
  <1>7. Grounded(s)
    BY <1>1, <1>2, <1>3, <1>6 DEF Grounded
  <1>8. Reached(s)
    <2> DEFINE p == [i \in 0..0 |-> q.root]
    <2>1. p \in Walks(q, 0, {})
      BY <1>3 DEF Walks
    <2>2. p[0] = q.root
      OBVIOUS
    <2>3. q.root \in Within(q, 0, {})
      BY <2>1, <2>2 DEF Within
    <2> QED
      BY <1>2, <2>3 DEF Reached
  <1>9. Closed(s)
    BY <1>2 DEF Closed, Ends
  <1>10. Complete(s)
    <2>1. ASSUME NEW p \in Walks(q, q.depth, s.before), NEW i \in 0..0
          PROVE  p[i] \in {q.root}
      BY <1>3, <2>1 DEF Walks
    <2> QED
      BY <1>2, <2>1 DEF Complete
  <1>11. Finished(s)
    BY <1>2 DEF Finished
  <1>12. (Grounded(search) /\ Reached(search) /\ Closed(search) /\ Complete(search)
          /\ Finished(search))'
    BY <1>1, <1>7, <1>8, <1>9, <1>10, <1>11
       DEF Grounded, Reached, Closed, Complete, Finished, Ends, Leads, Truncated, Continues,
           Within, Walks, vars, tables
  <1> QED
    BY <1>4, <1>5, <1>12 DEF SearchInv

\* An edge that leaves a node of the caller's workspace is of that workspace, and so is its
\* other end.
LEMMA EdgesStayInside ==
    ASSUME IInv, NEW x \in DOMAIN edge
    PROVE  /\ edge[x].from \in DOMAIN node /\ edge[x].to \in DOMAIN node
           /\ node[edge[x].from].workspace = edge[x].workspace
           /\ node[edge[x].to].workspace = edge[x].workspace
           /\ DOMAIN node \subseteq Nodes
  <1>1. EdgeAllowed(edge[x])
    BY DEF IInv, RowsStayAllowed
  <1>2. DOMAIN node \subseteq Nodes
    BY DEF IInv, TypeOK
  <1> QED
    BY <1>1, <1>2 DEF EdgeAllowed, EndpointResolves

\* The other end of an edge that touches the frontier is seen, or one step further.
LEMMA TouchingLeads ==
    ASSUME NEW q, q.direction \in Direction, NEW frontier,
           NEW x \in Touching(q, frontier), NEW m \in {edge[x].from, edge[x].to}, m \notin frontier
    PROVE  \E n \in frontier : Leads(x, n, m, q.direction)
  <1>1. CASE q.direction \in {"downstream", "both"} /\ edge[x].from \in frontier
    <2>1. m = edge[x].to /\ q.direction # "upstream"
      BY <1>1
    <2> QED
      BY <1>1, <2>1 DEF Leads
  <1>2. CASE q.direction \in {"upstream", "both"} /\ edge[x].to \in frontier
    <2>1. m = edge[x].from /\ q.direction # "downstream"
      BY <1>2
    <2> QED
      BY <1>2, <2>1 DEF Leads
  <1> QED
    BY <1>1, <1>2 DEF Touching

\* An edge that leads out of the frontier touches it.
LEMMA LeadsTouches ==
    ASSUME NEW q, q.direction \in Direction, NEW frontier, NEW n \in frontier, NEW m,
           NEW x \in DOMAIN edge, edge[x].workspace = q.workspace, Leads(x, n, m, q.direction)
    PROVE  x \in Touching(q, frontier) /\ m \in Ends({x})
    BY DEF Touching, Leads, Ends, Direction

\* A level that is read keeps the invariant.
LEMMA LevelStep ==
    ASSUME SearchInv, ReadLevel
    PROVE  SearchInv'
  <1> DEFINE q == search.query
             touching == Touching(q, search.frontier)
  <1>1. search # Idle /\ search.phase = "levels" /\ Continues(search)
    BY DEF ReadLevel, Idle
  <1>2. /\ IInv /\ SearchTypeOK /\ Grounded(search) /\ Reached(search) /\ Closed(search)
        /\ Complete(search)
    BY <1>1 DEF SearchInv
  <1>3. /\ search \in Search
        /\ q \in Queries /\ q.limit \in Nat \ {0} /\ q.depth \in Nat
        /\ q.direction \in Direction
        /\ search.level \in Nat
        /\ IsFiniteSet(search.seen) /\ Cardinality(search.seen) \in Nat
        /\ IsFiniteSet(search.edges) /\ Cardinality(search.edges) \in Nat
    BY <1>1, <1>2, SearchSizes
  <1>4. PICK rows \in Cut(touching, q.limit) :
            \E kept \in Kept(search, Ends(rows) \ search.seen) :
                search' = [search EXCEPT !.level = search.level + 1,
                                         !.seen = search.seen \cup kept,
                                         !.frontier = kept, !.edges = search.edges \cup rows]
    BY DEF ReadLevel
  <1> DEFINE next == Ends(rows) \ search.seen
  <1>5. PICK kept \in Kept(search, next) :
            search' = [search EXCEPT !.level = search.level + 1,
                                     !.seen = search.seen \cup kept,
                                     !.frontier = kept, !.edges = search.edges \cup rows]
    BY <1>4
  <1> DEFINE t == [search EXCEPT !.level = search.level + 1,
                                 !.seen = search.seen \cup kept,
                                 !.frontier = kept, !.edges = search.edges \cup rows]
  <1>6. /\ t.phase = "levels" /\ t.query = q /\ t.level = search.level + 1
        /\ t.seen = search.seen \cup kept /\ t.frontier = kept
        /\ t.edges = search.edges \cup rows /\ t.before = search.before
        /\ t.nodes = search.nodes
    BY <1>1, <1>3 DEF Search
  <1> HIDE DEF t
  <1>7. touching \subseteq DOMAIN edge /\ DOMAIN edge \subseteq Edges
    BY <1>2 DEF Touching, IInv, TypeOK
  <1>8. IsFiniteSet(touching)
    BY <1>7, FiniteIdsAssumption, FS_Subset
  <1>9. /\ rows \subseteq touching /\ IsFiniteSet(rows) /\ Cardinality(rows) \in Nat
        /\ Cardinality(rows) < q.limit => rows = touching
    BY <1>3, <1>8, CutIsPart
  <1>10. \A x \in rows : /\ x \in DOMAIN edge /\ edge[x].workspace = q.workspace
                         /\ edge[x].from \in DOMAIN node /\ edge[x].to \in DOMAIN node
                         /\ node[edge[x].from].workspace = q.workspace
                         /\ node[edge[x].to].workspace = q.workspace
    BY <1>2, <1>9, EdgesStayInside DEF Touching
  <1>11. /\ Ends(rows) \subseteq DOMAIN node /\ DOMAIN node \subseteq Nodes
         /\ \A n \in Ends(rows) : node[n].workspace = q.workspace
    BY <1>2, <1>10 DEF Ends, IInv, TypeOK
  <1>12. IsFiniteSet(next)
    BY <1>11, FiniteIdsAssumption, FS_Subset
  <1>13. /\ kept \subseteq next
         /\ IsFiniteSet(t.seen)
         /\ Cardinality(t.seen) <= q.limit
         /\ Cardinality(t.seen) < q.limit => kept = next
    <2>1. Cardinality(search.seen) <= q.limit /\ search.seen \cap next = {}
      BY <1>2 DEF Grounded
    <2>2. kept \in Cut(next, q.limit - Cardinality(search.seen))
      BY <1>5 DEF Kept
    <2>3. q.limit \in Nat /\ IsFiniteSet(search.seen)
      BY <1>3
    <2>4. /\ kept \subseteq next
          /\ IsFiniteSet(search.seen \cup kept)
          /\ Cardinality(search.seen \cup kept) <= q.limit
          /\ Cardinality(search.seen \cup kept) < q.limit => kept = next
      <3> HIDE DEF q, next
      <3> QED
        BY <1>12, <2>1, <2>2, <2>3, KeptIsAll
    <2> QED
      BY <1>6, <2>4
  <1>14. Cardinality(search.seen) <= Cardinality(t.seen) /\ Cardinality(t.seen) \in Nat
    <2>1. search.seen \in SUBSET t.seen
      BY <1>6
    <2> QED
      BY <1>13, <2>1, FS_Subset, FS_CardinalityType
  <1>15. /\ Cardinality(search.edges) <= Cardinality(t.edges)
         /\ Cardinality(rows) <= Cardinality(t.edges)
         /\ Cardinality(t.edges) \in Nat
    <2>1. IsFiniteSet(t.edges)
      <3>1. IsFiniteSet(search.edges \cup rows)
        BY <1>3, <1>9, FS_Union
      <3> QED
        BY <1>6, <3>1
    <2>2. search.edges \in SUBSET t.edges /\ rows \in SUBSET t.edges
      BY <1>6
    <2> QED
      BY <2>1, <2>2, FS_Subset, FS_CardinalityType
  <1>16. Grounded(t)
    <2>1. search.level < q.depth
      BY <1>1 DEF Continues
    <2> QED
      BY <1>2, <1>3, <1>6, <1>7, <1>9, <1>11, <1>13, <2>1 DEF Grounded
  <1>17. Reached(t)
    <2>1. ASSUME NEW n \in search.seen
          PROVE  n \in Within(q, search.level, t.edges)
      <3>1. search.edges \subseteq t.edges
        BY <1>6
      <3> QED
        BY <1>2, <1>3, <3>1, WithinGrows DEF Reached
    <2>2. ASSUME NEW n \in search.seen
          PROVE  n \in Within(q, search.level + 1, t.edges)
      <3>1. n \in Nodes
        BY <1>2, <1>11 DEF Grounded
      <3> QED
        BY <1>3, <2>1, <3>1, WithinStep
    <2>3. ASSUME NEW m \in kept
          PROVE  m \in Within(q, search.level + 1, t.edges)
      <3>1. PICK x \in rows : m \in {edge[x].from, edge[x].to}
        BY <1>13 DEF Ends
      <3>2. m \notin search.frontier /\ m \in Nodes
        BY <1>2, <1>11, <1>13 DEF Grounded
      <3>3. x \in touching
        BY <1>9
      <3>4. PICK n \in search.frontier : Leads(x, n, m, q.direction)
        BY <1>3, <3>1, <3>2, <3>3, TouchingLeads
      <3>5. n \in Within(q, search.level, t.edges)
        BY <1>2, <2>1 DEF Grounded
      <3>6. x \in t.edges
        BY <1>6
      <3> QED
        BY <1>3, <3>2, <3>4, <3>5, <3>6, WithinStep
    <2> QED
      BY <1>6, <2>2, <2>3 DEF Reached
  <1>18. ASSUME ~ Truncated(t)
         PROVE  /\ ~ Truncated(search) /\ kept = next
                /\ Ends(rows) \subseteq t.seen
    <2>1. Cardinality(t.seen) < q.limit
      BY <1>3, <1>6, <1>14, <1>18 DEF Truncated
    <2>2. kept = next
      BY <1>13, <2>1
    <2>3. ~ Truncated(search)
      BY <1>3, <1>14, <2>1 DEF Truncated
    <2> QED
      BY <1>6, <2>2, <2>3
  <1>19. Closed(t)
    <2>1. Ends(t.edges) = Ends(search.edges) \cup Ends(rows)
      BY <1>6 DEF Ends
    <2> QED
      BY <1>2, <1>6, <1>18, <2>1 DEF Closed
  <1>20. ASSUME ~ Truncated(t), Cardinality(t.edges) < q.limit
         PROVE  \A n \in search.seen, x \in search.before, m \in Nodes :
                    Leads(x, n, m, q.direction) => m \in t.seen
    <2> SUFFICES ASSUME NEW n \in search.seen, NEW x \in search.before, NEW m \in Nodes,
                        Leads(x, n, m, q.direction)
                 PROVE  m \in t.seen
      OBVIOUS
    <2>1. ~ Truncated(search) /\ Cardinality(search.edges) < q.limit
      BY <1>3, <1>15, <1>18, <1>20
    <2>2. CASE n \notin search.frontier
      BY <1>2, <1>6, <2>1, <2>2 DEF Complete
    <2>3. CASE n \in search.frontier
      <3>1. x \in DOMAIN edge /\ node[n].workspace = q.workspace
        BY <1>2 DEF Grounded
      <3>2. n \in {edge[x].from, edge[x].to}
        BY DEF Leads
      <3>3. edge[x].workspace = q.workspace
        BY <1>2, <3>1, <3>2, EdgesStayInside
      <3>4. x \in touching /\ m \in Ends({x})
        BY <1>3, <2>3, <3>1, <3>3, LeadsTouches
      <3>5. rows = touching
        BY <1>3, <1>9, <1>15, <1>20
      <3>6. m \in Ends(rows)
        BY <3>4, <3>5 DEF Ends
      <3> QED
        BY <1>18, <1>20, <3>6
    <2> QED
      BY <2>2, <2>3
  <1>21. Complete(t)
    <2> SUFFICES ASSUME ~ Truncated(t), Cardinality(t.edges) < q.limit
                 PROVE  /\ \A n \in t.seen \ t.frontier, x \in t.before, m \in Nodes :
                              Leads(x, n, m, q.direction) => m \in t.seen
                        /\ \A p \in Walks(q, q.depth, t.before) :
                              \A i \in 0..t.level : p[i] \in t.seen
      BY <1>6 DEF Complete
    <2>1. t.seen \ t.frontier \subseteq search.seen
      BY <1>6
    <2>2. ~ Truncated(search) /\ Cardinality(search.edges) < q.limit
      BY <1>3, <1>15, <1>18
    <2>3. ASSUME NEW p \in Walks(q, q.depth, search.before), NEW i \in 0..t.level
          PROVE  p[i] \in t.seen
      <3>1. \A j \in 0..search.level : p[j] \in search.seen
        BY <1>2, <2>2 DEF Complete
      <3>2. CASE i \in 0..search.level
        BY <1>6, <3>1, <3>2
      <3>3. CASE i = search.level + 1
        <4>1. /\ search.level \in 0..(q.depth - 1) /\ search.level \in 0..search.level
              /\ i \in 0..q.depth
          BY <1>1, <1>3, <3>3 DEF Continues
        <4>2. /\ p[i] \in Nodes
              /\ \/ p[search.level] = p[i]
                 \/ \E x \in search.before : Leads(x, p[search.level], p[i], q.direction)
          BY <3>3, <4>1 DEF Walks
        <4>3. p[search.level] \in search.seen
          BY <3>1, <4>1
        <4> QED
          BY <1>6, <1>20, <4>2, <4>3
      <3> QED
        BY <1>3, <1>6, <3>2, <3>3
    <2> QED
      BY <1>6, <1>20, <2>1, <2>3
  <1>22. Finished(t)
    BY <1>6 DEF Finished
  <1>23. t \in Search
    <2>1. kept \in SUBSET Nodes /\ rows \in SUBSET Edges
      BY <1>7, <1>9, <1>11, <1>13
    <2>2. search.seen \cup kept \in SUBSET Nodes /\ search.edges \cup rows \in SUBSET Edges
      BY <1>3, <2>1 DEF Search
    <2>3. search.level + 1 \in Nat
      BY <1>3
    <2> QED
      BY <1>3, <2>1, <2>2, <2>3 DEF t, Search
  <1>24. search' = t /\ UNCHANGED vars
    BY <1>5 DEF ReadLevel, t
  <1>25. IInv'
    BY <1>2, <1>24 DEF IInv, TypeOK, RowsStayAllowed, InWorkspace, EvidenceAllowed,
                FindingAllowed, EdgeAllowed, CitesResolve, EndpointResolves, vars, tables
  <1>26. (Grounded(search) /\ Reached(search) /\ Closed(search) /\ Complete(search)
          /\ Finished(search))'
    BY <1>16, <1>17, <1>19, <1>21, <1>22, <1>24
       DEF Grounded, Reached, Closed, Complete, Finished, Ends, Leads, Truncated, Continues,
           Within, Walks, vars, tables
  <1> QED
    BY <1>23, <1>24, <1>25, <1>26 DEF SearchInv, SearchTypeOK

\* The answer is what was seen.
LEMMA NodesStep ==
    ASSUME SearchInv, ReadNodes
    PROVE  SearchInv'
  <1> DEFINE found == {n \in search.seen : /\ n \in DOMAIN node
                                          /\ node[n].workspace = search.query.workspace}
             t == [search EXCEPT !.phase = "answered", !.nodes = found]
  <1>1. search # Idle /\ search.phase = "levels" /\ ~ Continues(search)
    BY DEF ReadNodes, Idle
  <1>2. /\ IInv /\ search \in Search /\ Grounded(search) /\ Reached(search)
        /\ Closed(search) /\ Complete(search)
    BY <1>1 DEF SearchInv, SearchTypeOK
  <1>3. search' = t /\ UNCHANGED vars
    BY DEF ReadNodes
  <1>4. found = search.seen
    BY <1>2 DEF Grounded
  <1>5. /\ t.phase = "answered" /\ t.query = search.query /\ t.level = search.level
        /\ t.seen = search.seen /\ t.frontier = search.frontier /\ t.edges = search.edges
        /\ t.before = search.before /\ t.nodes = search.seen
    BY <1>2, <1>4 DEF Search
  <1>6. t \in Search
    BY <1>2 DEF Search
  <1> HIDE DEF t
  <1>7. Grounded(t)
    BY <1>2, <1>5 DEF Grounded
  <1>8. Reached(t) /\ Closed(t)
    BY <1>2, <1>5 DEF Reached, Closed, Truncated
  <1>9. Complete(t)
    BY <1>2, <1>5 DEF Complete, Truncated
  <1>10. Finished(t)
    BY <1>1, <1>5 DEF Finished, Continues
  <1>11. IInv'
    BY <1>2, <1>3 DEF IInv, TypeOK, RowsStayAllowed, InWorkspace, EvidenceAllowed,
                FindingAllowed, EdgeAllowed, CitesResolve, EndpointResolves, vars, tables
  <1>12. (Grounded(search) /\ Reached(search) /\ Closed(search) /\ Complete(search)
          /\ Finished(search))'
    BY <1>3, <1>7, <1>8, <1>9, <1>10
       DEF Grounded, Reached, Closed, Complete, Finished, Ends, Leads, Truncated, Continues,
           Within, Walks, vars, tables
  <1> QED
    BY <1>3, <1>6, <1>11, <1>12 DEF SearchInv, SearchTypeOK

\* What a search has found stays true of a graph that grows.
LEMMA GraphGrows ==
    ASSUME NEW s, Grows(node, node'), Grows(edge, edge'),
           Grounded(s), Reached(s), Closed(s), Complete(s)
    PROVE  Grounded(s)' /\ Reached(s)' /\ Closed(s)' /\ Complete(s)'
  <1>1. Grounded(s)'
    BY DEF Grounded, Grows
  <1>2. \A x \in DOMAIN edge : edge'[x] = edge[x]
    BY DEF Grows
  <1>3. \A x \in DOMAIN edge : \A m, n : Leads(x, m, n, s.query.direction)'
                                      <=> Leads(x, m, n, s.query.direction)
    BY <1>2 DEF Leads
  <1>4. s.edges \subseteq DOMAIN edge /\ s.before \subseteq DOMAIN edge
    BY DEF Grounded
  <1>5. ASSUME NEW k, NEW xs, xs \subseteq DOMAIN edge
        PROVE  Walks(s.query, k, xs)' = Walks(s.query, k, xs)
    BY <1>3, <1>5 DEF Walks
  <1>6. Reached(s)'
    <2>1. Walks(s.query, s.level, s.edges)' = Walks(s.query, s.level, s.edges)
      BY <1>4, <1>5
    <2> QED
      BY <2>1 DEF Reached, Within
  <1>7. Closed(s)'
    <2>1. Ends(s.edges)' = Ends(s.edges)
      BY <1>2, <1>4 DEF Ends
    <2> QED
      BY <2>1 DEF Closed, Truncated
  <1>8. Complete(s)'
    <2>1. Walks(s.query, s.query.depth, s.before)' = Walks(s.query, s.query.depth, s.before)
      BY <1>4, <1>5
    <2> QED
      BY <1>3, <1>4, <2>1 DEF Complete, Truncated
  <1> QED
    BY <1>1, <1>6, <1>7, <1>8

\* What is inserted meanwhile does not disturb a search.
LEMMA GraphStep ==
    ASSUME SearchInv, [Next]_vars, search' = search
    PROVE  SearchInv'
  <1>1. IInv'
    BY TypeStep, AllowedStep DEF SearchInv, IInv
  <1>2. SearchTypeOK'
    BY DEF SearchInv, SearchTypeOK, Search
  <1>3. ASSUME search # Idle
        PROVE  (Grounded(search) /\ Reached(search) /\ Closed(search) /\ Complete(search)
                /\ Finished(search))'
    <2>1. PICK s : s = search
      OBVIOUS
    <2>2. Grounded(s) /\ Reached(s) /\ Closed(s) /\ Complete(s) /\ Finished(s)
      BY <1>3, <2>1 DEF SearchInv
    <2>3. Grounded(s)' /\ Reached(s)' /\ Closed(s)' /\ Complete(s)'
      BY <2>2, TablesGrow, GraphGrows
    <2>4. search' = s
      BY <2>1
    <2> QED
      BY <2>2, <2>3, <2>4
         DEF Grounded, Reached, Closed, Complete, Finished, Ends, Leads, Truncated, Continues,
             Within, Walks
  <1> QED
    BY <1>1, <1>2, <1>3 DEF SearchInv

\* The invariant holds in every reachable state.
THEOREM SearchInvariance == SearchSpec => []SearchInv
  <1>1. SearchInit => SearchInv
    BY InitIInv DEF SearchInit, SearchInv, SearchTypeOK
  <1>2. SearchInv /\ [SearchNext]_searchVars => SearchInv'
    <2> SUFFICES ASSUME SearchInv, [SearchNext]_searchVars
                 PROVE  SearchInv'
      OBVIOUS
    <2>1. ASSUME NEW q \in Queries, Begin(q)
          PROVE  SearchInv'
      BY <2>1, BeginStep
    <2>2. CASE ReadLevel
      BY <2>2, LevelStep
    <2>3. CASE ReadNodes
      BY <2>3, NodesStep
    <2>4. CASE ForgetAnswer
      <3>1. search' = Idle /\ [Next]_vars
        BY <2>4 DEF ForgetAnswer
      <3>2. IInv'
        BY <3>1, TypeStep, AllowedStep DEF SearchInv, IInv
      <3> QED
        BY <3>1, <3>2 DEF SearchInv, SearchTypeOK
    <2>5. CASE [Next]_vars /\ search' = search
      BY <2>5, GraphStep
    <2> QED
      BY <2>1, <2>2, <2>3, <2>4, <2>5 DEF SearchNext, searchVars
  <1> QED
    BY <1>1, <1>2, PTL DEF SearchSpec

-----------------------------------------------------------------------------
(* Answers                                                                 *)

\* The search keeps its type (lineage_neighborhood).
THEOREM SearchTypeCorrect == SearchSpec => []SearchTypeOK
  <1>1. SearchInv => SearchTypeOK
    BY DEF SearchInv
  <1> QED
    BY <1>1, SearchInvariance, PTL

\* No answer has more nodes than its limit: each level is cut at the room the limit leaves.
THEOREM AnswersAreLimited == SearchSpec => []AnswerWithinLimit
  <1>1. SearchInv => AnswerWithinLimit
    BY DEF SearchInv, AnswerWithinLimit, Answered, Finished, Grounded
  <1> QED
    BY <1>1, SearchInvariance, PTL

\* Every node of an answer is of the caller's workspace, and within the depth asked for of the
\* root: the graph's edges join nodes of one workspace.
THEOREM AnswersAreGrounded == SearchSpec => []NothingInvented
  <1>1. ASSUME SearchInv
        PROVE  NothingInvented
    <2> SUFFICES ASSUME Answered, NEW n \in search.nodes
                 PROVE  /\ node[n].workspace = search.query.workspace
                        /\ n \in Within(search.query, search.query.depth, search.edges)
      BY DEF NothingInvented
    <2>1. /\ SearchTypeOK /\ search # Idle /\ Grounded(search) /\ Reached(search)
          /\ n \in search.seen
      BY <1>1 DEF SearchInv, Answered, Finished
    <2>2. node[n].workspace = search.query.workspace
      BY <2>1 DEF Grounded
    <2>3. /\ search.query.depth \in Nat /\ search.level \in Nat /\ n \in Nodes
          /\ search.level <= search.query.depth
      BY <2>1, SearchSizes DEF Grounded
    <2>4. n \in Within(search.query, search.level, search.edges)
      BY <2>1 DEF Reached
    <2> QED
      BY <2>2, <2>3, <2>4, WithinRests
  <1> QED
    BY <1>1, SearchInvariance, PTL

\* The edges of an answer that is not called truncated join nodes of the answer.
THEOREM UncutAnswersAreClosed == SearchSpec => []UncutAnswerIsClosed
  <1>1. SearchInv => UncutAnswerIsClosed
    BY DEF SearchInv, UncutAnswerIsClosed, Answered, Finished, Closed
  <1> QED
    BY <1>1, SearchInvariance, PTL

\* An answer below the limit in nodes and in edges has every node within the depth asked for.
THEOREM SmallAnswersAreComplete == SearchSpec => []SmallAnswerIsComplete
  <1>1. ASSUME SearchInv
        PROVE  SmallAnswerIsComplete
    <2> DEFINE q == search.query
    <2> SUFFICES ASSUME Answered, ~ Truncated(search), Cardinality(search.edges) < q.limit,
                        NEW p \in Walks(q, q.depth, search.before)
                 PROVE  p[q.depth] \in search.nodes
      BY DEF SmallAnswerIsComplete, Within
    <2>1. /\ SearchTypeOK /\ search # Idle /\ Grounded(search) /\ Complete(search)
          /\ search.nodes = search.seen /\ ~ Continues(search)
      BY <1>1 DEF SearchInv, Answered, Finished
    <2>2. /\ q.depth \in Nat /\ search.level \in Nat /\ search.level <= q.depth
          /\ q.limit \in Nat /\ Cardinality(search.seen) \in Nat
      BY <2>1, SearchSizes DEF Grounded
    <2>3. /\ \A n \in search.seen \ search.frontier, x \in search.before, m \in Nodes :
                Leads(x, n, m, q.direction) => m \in search.seen
          /\ \A i \in 0..search.level : p[i] \in search.seen
      BY <2>1 DEF Complete
    <2>4. CASE search.level = q.depth
      BY <2>1, <2>2, <2>3, <2>4
    <2>5. CASE search.frontier = {}
      <3>1. \A n \in search.seen, x \in search.before, m \in Nodes :
                Leads(x, n, m, q.direction) => m \in search.seen
        BY <2>3, <2>5
      <3>2. q.root \in search.seen /\ q.depth \in 0..q.depth
        BY <2>1, <2>2 DEF Grounded
      <3>3. p[q.depth] \in search.seen
        <4> HIDE DEF q
        <4> QED
          BY <2>2, <3>1, <3>2, WalksStayInside
      <3> QED
        BY <2>1, <3>3
    <2> QED
      BY <2>1, <2>2, <2>4, <2>5 DEF Continues, Truncated
  <1> QED
    BY <1>1, SearchInvariance, PTL

=============================================================================
