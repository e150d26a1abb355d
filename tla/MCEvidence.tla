----------------------------- MODULE MCEvidence -----------------------------
(***************************************************************************)
(* Two workspaces and two projects, whose clients name the same ids, for   *)
(* TLC.                                                                    *)
(***************************************************************************)
EXTENDS EvidenceGraph, TLC

TwoWorkspaces == {"w", "v"}
TwoProjects == {"p", "q"}
OneRun == {"r"}
TwoRuns == {"r", "s"}
TwoEvidence == {"e", "f"}
TwoNodes == {"m", "n"}

Artifact(w, p, r, span) ==
    [workspace |-> w, project |-> p, run |-> r, sha |-> "sha", span |-> span]

\* One artifact: in a run, at another span without one, in another project or workspace.
Artifacts ==
    {Artifact("w", "p", "r", "line 1"), Artifact("w", "p", NoRun, "line 2"),
     Artifact("w", "q", NoRun, "line 1"), Artifact("v", "q", NoRun, "line 1")}

Claims ==
    {[workspace |-> w, run |-> r, key |-> "key", cites |-> es] :
        w \in TwoWorkspaces, r \in Runs, es \in {{"e"}, TwoEvidence}}

Objects ==
    {[workspace |-> w, project |-> p, native |-> "table"] : w \in {"w"}, p \in TwoProjects}
    \cup {[workspace |-> "w", project |-> "p", native |-> "view"]}

Edge(p, es) ==
    [workspace |-> "w", project |-> p, from |-> "m", to |-> "n", cites |-> es]
Relations == {Edge("p", {"e"}), Edge("q", {"f"}), Edge("p", TwoEvidence)}

NoRequests == {}

\* All the tables together, with fewer claims and relations, and where each project has a
\* name of its own: names matter to CreateProject only.
FewClaims ==
    {[workspace |-> "w", run |-> "r", key |-> "key", cites |-> es] : es \in {{"e"}, TwoEvidence}}
    \cup {[workspace |-> w, run |-> IF w = "w" THEN "s" ELSE "r", key |-> "key", cites |-> {"e"}] :
             w \in TwoWorkspaces}
FewRelations == {Edge("p", {"e"}), Edge("p", TwoEvidence)}
NameOf == [p |-> "n1", q |-> "n2"]
NamedProjects == \A p \in DOMAIN project' : project'[p].name = NameOf[p]
NamedSpec == Init /\ [][Next /\ NamedProjects]_vars

=============================================================================
