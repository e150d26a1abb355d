--------------------------- MODULE AssessmentRuns ---------------------------
(***************************************************************************)
(* The assessment runs of src/backend/src/reweft/api/app.py and the        *)
(* clients that move them.  Each request is one immediate transaction and  *)
(* so one action.  A client decides on a row it has seen, and the row may  *)
(* have moved on since: expected_version is what guards against that.      *)
(***************************************************************************)
EXTENDS Integers

CONSTANTS
    Runs,       \* assessments.id
    Clients,    \* the callers of the API
    Gaps,       \* the gaps a request may list
    MaxVersion  \* bound: the last version modelled

ASSUME MaxVersionAssumption == MaxVersion \in Nat

VARIABLES
    assessment, \* the table assessments: a function on the inserted ids
    seen        \* seen[c]: the rows client c has been sent, as it was sent them last

vars == <<assessment, seen>>

RunState ==
    {"queued", "collecting", "analyzing", "designing", "verifying", "paused-by-user",
     "paused-by-source-policy", "paused-by-budget", "completed", "completed-with-gaps",
     "failed", "cancelled"}

Paused == {"paused-by-user", "paused-by-source-policy", "paused-by-budget"}
Ended == {"completed", "completed-with-gaps", "failed", "cancelled"}

Working == {"collecting", "analyzing", "designing", "verifying"}

RunAction ==
    {"start", "pause", "resume", "cancel", "advance", "complete", "complete-with-gaps", "fail"}

\* Mutant: a failed run can be resumed.
TransitionsWithRetry ==
    {<<"queued", "start", "collecting">>, <<"failed", "resume", "collecting">>}
    \cup {<<s, "fail", "failed">> : s \in RunState \ Ended}

\* The dictionary TRANSITIONS, as (state, action, target).
Transitions ==
    {<<"queued", "start", "collecting">>,
     <<"collecting", "advance", "analyzing">>,
     <<"analyzing", "advance", "designing">>,
     <<"designing", "advance", "verifying">>,
     <<"paused-by-user", "resume", "collecting">>,
     <<"verifying", "complete", "completed">>}
    \cup {<<s, "pause", "paused-by-user">> : s \in Working}
    \cup {<<s, "complete-with-gaps", "completed-with-gaps">> : s \in Working}
    \cup {<<s, "cancel", "cancelled">> : s \in RunState \ Ended}
    \cup {<<s, "fail", "failed">> : s \in RunState \ Ended}

Row == [state : RunState, version : Nat \ {0}, gaps : SUBSET Gaps]

\* Mutant: versions start below what expected_version may be.
NewRowUnversioned == [state |-> "queued", version |-> 0, gaps |-> {}]

\* The row of a new assessment.
NewRow == [state |-> "queued", version |-> 1, gaps |-> {}]

\* The type of the table and of what clients hold of it.
TypeOK ==
    /\ DOMAIN assessment \subseteq Runs
    /\ assessment \in [DOMAIN assessment -> Row]
    /\ DOMAIN seen = Clients
    /\ \A c \in Clients :
          /\ DOMAIN seen[c] \subseteq DOMAIN assessment
          /\ seen[c] \in [DOMAIN seen[c] -> Row]

NoRows == [r \in {} |-> NewRow]

Init ==
    /\ assessment = NoRows
    /\ seen = [c \in Clients |-> NoRows]

\* f with r mapped to row.
With(f, r, row) == [q \in DOMAIN f \cup {r} |-> IF q = r THEN row ELSE f[q]]

-----------------------------------------------------------------------------
(* The requests                                                            *)

CreateAssessment(c, r) ==
    /\ r \notin DOMAIN assessment
    /\ assessment' = With(assessment, r, NewRow)
    /\ seen' = [seen EXCEPT ![c] = With(@, r, NewRow)]

\* list_assessments sends the rows as they are.
ListAssessments(c) ==
    /\ seen' = [seen EXCEPT ![c] = assessment]
    /\ UNCHANGED assessment

\* Mutant: the version is not compared.
RowKnown(c, r) == r \in DOMAIN seen[c]

\* The request's expected_version, the one its client saw, is still the row's.
VersionExpected(c, r) ==
    /\ r \in DOMAIN seen[c]
    /\ seen[c][r].version = assessment[r].version

\* Mutant: a request without gaps clears the recorded ones.
GapsReplaced(r, gaps) == gaps

\* Gaps a request lists replace the recorded ones; a request that lists none keeps them.
GapsRecorded(r, gaps) == IF gaps = {} THEN assessment[r].gaps ELSE gaps

\* Mutant: the version stays.
MovedInPlace(r, target, gaps) ==
    [state |-> target, version |-> assessment[r].version, gaps |-> GapsRecorded(r, gaps)]

Moved(r, target, gaps) ==
    [state |-> target, version |-> assessment[r].version + 1, gaps |-> GapsRecorded(r, gaps)]

TransitionAssessment(c, r, action, gaps) ==
    /\ assessment[r].version < MaxVersion
    /\ VersionExpected(c, r)
    /\ \E target \in RunState :
        /\ <<assessment[r].state, action, target>> \in Transitions
        /\ target = "completed-with-gaps" => gaps # {}
        /\ assessment' = [assessment EXCEPT ![r] = Moved(r, target, gaps)]
        /\ seen' = [seen EXCEPT ![c] = With(@, r, Moved(r, target, gaps))]

Next ==
    \E c \in Clients :
        \/ \E r \in Runs : CreateAssessment(c, r)
        \/ ListAssessments(c)
        \/ \E r \in DOMAIN assessment, a \in RunAction, gaps \in SUBSET Gaps :
              TransitionAssessment(c, r, a, gaps)

Spec == Init /\ [][Next]_vars

-----------------------------------------------------------------------------
(* What a client may rely on                                               *)

\* Whoever holds a row with the table's version holds the table's row: comparing versions is
\* as good as comparing rows.
VersionNamesRow ==
    \A c \in Clients : \A r \in DOMAIN seen[c] :
        /\ seen[c][r].version <= assessment[r].version
        /\ seen[c][r].version = assessment[r].version => seen[c][r] = assessment[r]

\* The client whose view changes is the one whose request is served.
MovesAsSeen ==
    \A r \in DOMAIN assessment : assessment'[r] # assessment[r] =>
        \A c \in Clients : seen'[c] # seen[c] =>
            r \in DOMAIN seen[c] /\ seen[c][r] = assessment[r]

\* A run only moves from the row that the client who moves it has seen: of two clients that
\* decide on the same row, one is refused.
NoLostDecision == [][MovesAsSeen]_vars

KeepsRecordedGaps ==
    \A r \in DOMAIN assessment :
        assessment[r].gaps # {} => assessment'[r].gaps # {}

\* A run with recorded gaps never becomes one without any, whatever requests follow.
GapsStayExplicit == [][KeepsRecordedGaps]_vars

-----------------------------------------------------------------------------
(* Refinement: what the controller relies on                               *)

\* What _validate_domain_links makes of a run's state.  A run that is not created yet is
\* unknown to everyone, and open as soon as it is known.
Admission(r) ==
    IF r \notin DOMAIN assessment THEN "open"
    ELSE IF assessment[r].state \in Paused THEN "paused"
    ELSE IF assessment[r].state \in Ended THEN "closed"
    ELSE "open"

Lifecycle == INSTANCE RunLifecycle WITH runState <- [r \in Runs |-> Admission(r)]

\* Runs behave as the controller expects: whoever sends whatever requests, a run that has
\* ended never admits source work again.
ImplementsLifecycle == Lifecycle!Spec

-----------------------------------------------------------------------------
(* What the documents say and the code does not do                         *)

\* Runs distinguish "completed" from "completed with gaps" (docs/product-spec.md:64): a
\* completed run has no recorded gaps.
CompletedHasNoGaps ==
    \A r \in DOMAIN assessment :
        assessment[r].state = "completed" => assessment[r].gaps = {}

=============================================================================
