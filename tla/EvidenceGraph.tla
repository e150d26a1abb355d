---------------------------- MODULE EvidenceGraph ----------------------------
(***************************************************************************)
(* Projects, evidence, findings and lineage of                             *)
(* src/backend/src/reweft/api/app.py, with the keys of                     *)
(* persistence/database.py, and the clients that send them.  Each handler  *)
(* is one immediate transaction and so one action; its answer may be lost, *)
(* and then the client sends the same request again.  A row is what its    *)
(* request said, so the tables hold requests.                              *)
(***************************************************************************)

CONSTANTS
    Workspaces, Names,
    Projects, Runs, Evidence, Findings, Nodes, Edges,  \* the ids rows may get
    NoRun,                                             \* evidence outside of any run
    EvidenceRequests, FindingRequests, NodeRequests, EdgeRequests

\* The bodies of the requests, with the workspace of their path; a span stands for the locator
\* and what else a body says of an artifact.
EvidenceCreate ==
    [workspace : Workspaces, project : Projects, run : Runs \cup {NoRun}, sha : STRING,
     span : STRING]
FindingCreate ==
    [workspace : Workspaces, run : Runs, key : STRING, cites : (SUBSET Evidence) \ {{}}]
LineageNodeCreate == [workspace : Workspaces, project : Projects, native : STRING]
LineageEdgeCreate ==
    [workspace : Workspaces, project : Projects, from : Nodes, to : Nodes,
     cites : (SUBSET Evidence) \ {{}}]

ASSUME EvidenceRequestsAssumption == EvidenceRequests \subseteq EvidenceCreate
ASSUME FindingRequestsAssumption == FindingRequests \subseteq FindingCreate
ASSUME NodeRequestsAssumption == NodeRequests \subseteq LineageNodeCreate
ASSUME EdgeRequestsAssumption == EdgeRequests \subseteq LineageEdgeCreate
ASSUME NoRunAssumption == NoRun \notin Runs

VARIABLES
    project, run, evidence, finding, node, edge,  \* the tables: functions on the inserted ids
    told  \* the answers that arrived, <<request, id>>, of the tables with a natural key

tables == <<project, run, evidence, finding, node, edge>>
vars == <<tables, told>>

Empty == [x \in {} |-> NoRun]
With(f, x, row) == [y \in DOMAIN f \cup {x} |-> IF y = x THEN row ELSE f[y]]

Init ==
    /\ project = Empty /\ run = Empty /\ evidence = Empty
    /\ finding = Empty /\ node = Empty /\ edge = Empty
    /\ told = [evidence |-> {}, finding |-> {}, node |-> {}]

\* The type of the tables and of the answers.
TypeOK ==
    /\ DOMAIN project \subseteq Projects
    /\ project \in [DOMAIN project -> [workspace : Workspaces, name : Names]]
    /\ DOMAIN run \subseteq Runs
    /\ run \in [DOMAIN run -> [workspace : Workspaces, project : Projects]]
    /\ DOMAIN evidence \subseteq Evidence /\ evidence \in [DOMAIN evidence -> EvidenceRequests]
    /\ DOMAIN finding \subseteq Findings /\ finding \in [DOMAIN finding -> FindingRequests]
    /\ DOMAIN node \subseteq Nodes /\ node \in [DOMAIN node -> NodeRequests]
    /\ DOMAIN edge \subseteq Edges /\ edge \in [DOMAIN edge -> EdgeRequests]
    /\ told \in [evidence : SUBSET (EvidenceRequests \X DOMAIN evidence),
                 finding : SUBSET (FindingRequests \X DOMAIN finding),
                 node : SUBSET (NodeRequests \X DOMAIN node)]

\* The answers to a request of a table, when id is the answer and it arrives or is lost.
Hears(answers, req, id) == {answers, answers \cup {<<req, id>>}}

-----------------------------------------------------------------------------
(* Handlers                                                                *)

\* UNIQUE(workspace_id, name).
CreateProject(p, w, n) ==
    LET row == [workspace |-> w, name |-> n] IN
        /\ p \notin DOMAIN project
        /\ \A q \in DOMAIN project : project[q] # row
        /\ project' = With(project, p, row)
        /\ UNCHANGED <<run, evidence, finding, node, edge, told>>

\* The project exists and is the workspace's.
InWorkspace(p, w) == p \in DOMAIN project /\ project[p].workspace = w

CreateAssessment(r, w, p) ==
    /\ r \notin DOMAIN run
    /\ InWorkspace(p, w)
    /\ run' = With(run, r, [workspace |-> w, project |-> p])
    /\ UNCHANGED <<project, evidence, finding, node, edge, told>>

\* create_evidence's checks: the project is the workspace's, and the run, if any, of both.
EvidenceAllowed(req) ==
    /\ InWorkspace(req.project, req.workspace)
    /\ req.run # NoRun =>
          /\ req.run \in DOMAIN run
          /\ run[req.run] = [workspace |-> req.workspace, project |-> req.project]

\* What the existing row is looked up by, and UNIQUE in the table.
EvidenceKey(req) == <<req.workspace, req.project, req.sha>>

\* Mutant: an artifact is looked up in the workspace.
SameArtifact(req) ==
    {e \in DOMAIN evidence : evidence[e].workspace = req.workspace /\ evidence[e].sha = req.sha}

SameEvidence(req) == {e \in DOMAIN evidence : EvidenceKey(evidence[e]) = EvidenceKey(req)}

\* The id a request is answered with: the existing row's, or a new one.
EvidenceId(req) ==
    IF SameEvidence(req) # {} THEN SameEvidence(req) ELSE Evidence \ DOMAIN evidence

CreateEvidence(req, e) ==
    /\ EvidenceAllowed(req)
    /\ e \in EvidenceId(req)
    /\ evidence' = IF SameEvidence(req) = {} THEN With(evidence, e, req) ELSE evidence
    /\ \E answers \in Hears(told.evidence, req, e) : told' = [told EXCEPT !.evidence = answers]
    /\ UNCHANGED <<project, run, finding, node, edge>>

\* Mutant: evidence resolves in any workspace.
CitesSomewhere(req) == req.cites \subseteq DOMAIN evidence

\* The cited ids that are rows of the workspace are as many as the cited ids.
CitesResolve(req) ==
    \A e \in req.cites : e \in DOMAIN evidence /\ evidence[e].workspace = req.workspace

FindingKey(req) == <<req.workspace, req.run, req.key>>

\* Mutant: a stable key is looked up in the workspace.
SameClaim(req) ==
    {f \in DOMAIN finding : finding[f].workspace = req.workspace /\ finding[f].key = req.key}

SameFinding(req) == {f \in DOMAIN finding : FindingKey(finding[f]) = FindingKey(req)}

\* create_finding's checks, of a repeated finding too.
FindingAllowed(req) ==
    /\ req.run \in DOMAIN run /\ run[req.run].workspace = req.workspace
    /\ CitesResolve(req)

FindingId(req) ==
    IF SameFinding(req) # {} THEN SameFinding(req) ELSE Findings \ DOMAIN finding

CreateFinding(req, f) ==
    /\ FindingAllowed(req)
    /\ f \in FindingId(req)
    /\ finding' = IF SameFinding(req) = {} THEN With(finding, f, req) ELSE finding
    /\ \E answers \in Hears(told.finding, req, f) : told' = [told EXCEPT !.finding = answers]
    /\ UNCHANGED <<project, run, evidence, node, edge>>

\* UNIQUE(workspace_id, project_id, namespace, environment, native_id), of which a request is
\* made: nothing looks an existing node up, so a repeated request fails.
NodeIsNew(req) == \A n \in DOMAIN node : node[n] # req

CreateLineageNode(req, n) ==
    /\ InWorkspace(req.project, req.workspace)
    /\ NodeIsNew(req)
    /\ n \notin DOMAIN node
    /\ node' = With(node, n, req)
    /\ \E answers \in Hears(told.node, req, n) : told' = [told EXCEPT !.node = answers]
    /\ UNCHANGED <<project, run, evidence, finding, edge>>

\* The node is one of the edge's workspace and project.
EndpointResolves(req, n) ==
    /\ n \in DOMAIN node
    /\ node[n].workspace = req.workspace /\ node[n].project = req.project

\* create_lineage_edge's checks.  Two nodes are counted, so an edge from a node to itself is
\* refused.
EdgeAllowed(req) ==
    /\ req.from # req.to
    /\ \A n \in {req.from, req.to} : EndpointResolves(req, n)
    /\ CitesResolve(req)
    /\ \A e \in req.cites : evidence[e].project = req.project

CreateLineageEdge(req, x) ==
    /\ x \notin DOMAIN edge
    /\ EdgeAllowed(req)
    /\ edge' = With(edge, x, req)
    /\ UNCHANGED <<project, run, evidence, finding, node, told>>

Next ==
    \/ \E p \in Projects, w \in Workspaces, n \in Names : CreateProject(p, w, n)
    \/ \E r \in Runs, w \in Workspaces, p \in Projects : CreateAssessment(r, w, p)
    \/ \E req \in EvidenceRequests, e \in Evidence : CreateEvidence(req, e)
    \/ \E req \in FindingRequests, f \in Findings : CreateFinding(req, f)
    \/ \E req \in NodeRequests, n \in Nodes : CreateLineageNode(req, n)
    \/ \E req \in EdgeRequests, x \in Edges : CreateLineageEdge(req, x)

Spec == Init /\ [][Next]_vars

\* The client has been answered.
EvidenceTold(req) == \E e \in Evidence : <<req, e>> \in told.evidence
FindingTold(req) == \E f \in Findings : <<req, f>> \in told.finding
NodeTold(req) == \E n \in Nodes : <<req, n>> \in told.node

\* Clients that send a request again until an answer arrives, over a network that does not
\* lose all answers.
FairSpec ==
    /\ Spec
    /\ \A req \in EvidenceRequests :
          WF_vars(\E e \in Evidence : CreateEvidence(req, e) /\ EvidenceTold(req)')
    /\ \A req \in FindingRequests :
          WF_vars(\E f \in Findings : CreateFinding(req, f) /\ FindingTold(req)')
    /\ \A req \in NodeRequests :
          WF_vars(\E n \in Nodes : CreateLineageNode(req, n) /\ NodeTold(req)')

-----------------------------------------------------------------------------
(* Properties                                                              *)

\* Whatever a row refers to is there, in the row's own workspace, and of the row's own project
\* where evidence and lineage are concerned, however the rows came together.
ReferencesStayInside ==
    /\ \A r \in DOMAIN run : InWorkspace(run[r].project, run[r].workspace)
    /\ \A e \in DOMAIN evidence :
          LET row == evidence[e] IN
              /\ InWorkspace(row.project, row.workspace)
              /\ row.run # NoRun => run[row.run].project = row.project
    /\ \A f \in DOMAIN finding : \A e \in finding[f].cites :
          /\ e \in DOMAIN evidence
          /\ evidence[e].workspace = run[finding[f].run].workspace
    /\ \A x \in DOMAIN edge : \A n \in {edge[x].from, edge[x].to}, e \in edge[x].cites :
          /\ n \in DOMAIN node /\ e \in DOMAIN evidence
          /\ node[n].workspace = evidence[e].workspace
          /\ node[n].project = evidence[e].project

EvidenceTable == INSTANCE WriteOnce WITH
    Keys <- {EvidenceKey(req) : req \in EvidenceRequests},
    Entries <- Evidence \X EvidenceRequests,
    stored <- {<<EvidenceKey(evidence[e]), <<e, evidence[e]>>>> : e \in DOMAIN evidence},
    answered <- {<<EvidenceKey(a[1]), <<a[2], evidence[a[2]]>>>> : a \in told.evidence}

\* One artifact of a project is one piece of evidence for ever, and every client that stores
\* it, first or again, is answered with that one.
ImplementsEvidenceTable == EvidenceTable!Spec

FindingTable == INSTANCE WriteOnce WITH
    Keys <- {FindingKey(req) : req \in FindingRequests},
    Entries <- Findings \X FindingRequests,
    stored <- {<<FindingKey(finding[f]), <<f, finding[f]>>>> : f \in DOMAIN finding},
    answered <- {<<FindingKey(a[1]), <<a[2], finding[a[2]]>>>> : a \in told.finding}

\* A stable key of a run is one finding for ever, and every client that reports it is answered
\* with that one.
ImplementsFindingTable == FindingTable!Spec

NodeTable == INSTANCE WriteOnce WITH
    Keys <- NodeRequests,
    Entries <- Nodes,
    stored <- {<<node[n], n>> : n \in DOMAIN node},
    answered <- told.node

\* A native object of a project is one lineage node for ever.
ImplementsNodeTable == NodeTable!Spec

\* Evidence and findings a client keeps sending are answered at last, however many answers
\* are lost and whoever stored the row first.
RetriesAreAnswered ==
    /\ \A req \in EvidenceRequests : EvidenceAllowed(req) ~> EvidenceTold(req)
    /\ \A req \in FindingRequests : FindingAllowed(req) ~> FindingTold(req)

-----------------------------------------------------------------------------
(* What the documents say and the code does not do                         *)

\* Significant findings cite resolvable evidence spans (docs/product-spec.md:24): who stores
\* a span is answered with evidence of that span.
AnswersTheSpan == \A a \in told.evidence : evidence[a[2]].span = a[1].span

\* Tasks have idempotency journals and bounded retries (docs/product-spec.md:62): a client
\* that keeps sending a node is told its id at last.
NodeRetriesAreAnswered ==
    \A req \in NodeRequests : InWorkspace(req.project, req.workspace) ~> NodeTold(req)

=============================================================================
