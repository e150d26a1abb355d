------------------------ MODULE AssessmentRuns_proofs ------------------------
(***************************************************************************)
(* What holds of the assessment runs for every set of runs and clients.    *)
(***************************************************************************)
EXTENDS AssessmentRuns, TLAPS

\* Comparing versions is inductive once the table has its types.
IInv == TypeOK /\ VersionNamesRow

-----------------------------------------------------------------------------
(* The table and the views                                                 *)

\* The row of a transition is a row, one version newer.
LEMMA MovedType ==
    ASSUME TypeOK, NEW r \in DOMAIN assessment, NEW target \in RunState,
           NEW gaps \in SUBSET Gaps
    PROVE  /\ Moved(r, target, gaps) \in Row
           /\ Moved(r, target, gaps).version = assessment[r].version + 1
  <1>1. assessment[r] \in Row
    BY DEF TypeOK
  <1>2. GapsRecorded(r, gaps) \in SUBSET Gaps
    BY <1>1 DEF GapsRecorded, Row
  <1>3. assessment[r].version + 1 \in Nat \ {0}
    BY <1>1 DEF Row
  <1> QED
    BY <1>2, <1>3 DEF Moved, Row

-----------------------------------------------------------------------------
(* Preservation                                                            *)

\* The empty table satisfies the invariant.
LEMMA InitIInv ==
    ASSUME Init
    PROVE  IInv
    BY DEF Init, NoRows, IInv, TypeOK, VersionNamesRow

\* A new row is unknown to every client but the one who created it.
LEMMA CreateAssessmentStep ==
    ASSUME IInv, NEW c \in Clients, NEW r \in Runs, CreateAssessment(c, r)
    PROVE  IInv'
  <1>1. NewRow \in Row
    BY DEF NewRow, Row, RunState
  <1>2. /\ r \notin DOMAIN assessment
        /\ assessment' = With(assessment, r, NewRow)
        /\ seen' = [seen EXCEPT ![c] = With(seen[c], r, NewRow)]
    BY DEF CreateAssessment
  <1>3. assessment \in [DOMAIN assessment -> Row] /\ seen[c] \in [DOMAIN seen[c] -> Row]
    BY DEF IInv, TypeOK
  <1>4. /\ DOMAIN assessment' = DOMAIN assessment \cup {r}
        /\ assessment' \in [DOMAIN assessment' -> Row]
        /\ assessment'[r] = NewRow
        /\ \A q \in DOMAIN assessment : assessment'[q] = assessment[q]
    BY <1>1, <1>2, <1>3 DEF With
  <1>5. /\ DOMAIN seen' = Clients
        /\ DOMAIN seen'[c] = DOMAIN seen[c] \cup {r}
        /\ seen'[c] \in [DOMAIN seen'[c] -> Row]
        /\ seen'[c][r] = NewRow
        /\ \A q \in DOMAIN seen[c] : q # r => seen'[c][q] = seen[c][q]
        /\ \A d \in Clients : d # c => seen'[d] = seen[d]
    BY <1>1, <1>2, <1>3 DEF With, IInv, TypeOK
  <1>6. TypeOK'
    BY <1>4, <1>5 DEF IInv, TypeOK
  <1>7. NewRow.version <= NewRow.version
    BY DEF NewRow
  <1>8. VersionNamesRow'
    BY <1>2, <1>4, <1>5, <1>7 DEF IInv, TypeOK, VersionNamesRow
  <1> QED
    BY <1>6, <1>8 DEF IInv

\* A client that lists the runs holds the table.
LEMMA ListAssessmentsStep ==
    ASSUME IInv, NEW c \in Clients, ListAssessments(c)
    PROVE  IInv'
  <1>1. /\ assessment' = assessment
        /\ DOMAIN seen' = Clients
        /\ seen'[c] = assessment
        /\ \A d \in Clients : d # c => seen'[d] = seen[d]
    BY DEF ListAssessments, IInv, TypeOK
  <1>2. \A r \in DOMAIN assessment : assessment[r].version \in Nat
    BY DEF IInv, TypeOK, Row
  <1>3. TypeOK'
    BY <1>1 DEF IInv, TypeOK
  <1>4. VersionNamesRow'
    BY <1>1, <1>2 DEF IInv, VersionNamesRow
  <1> QED
    BY <1>3, <1>4 DEF IInv

\* A transition makes a version that nobody has seen.
LEMMA TransitionAssessmentStep ==
    ASSUME IInv, NEW c \in Clients, NEW r \in DOMAIN assessment, NEW action,
           NEW gaps \in SUBSET Gaps, TransitionAssessment(c, r, action, gaps)
    PROVE  IInv'
  <1>1. PICK target \in RunState :
          /\ assessment' = [assessment EXCEPT ![r] = Moved(r, target, gaps)]
          /\ seen' = [seen EXCEPT ![c] = With(seen[c], r, Moved(r, target, gaps))]
    BY DEF TransitionAssessment
  <1> DEFINE row == Moved(r, target, gaps)
  <1>2. row \in Row /\ row.version = assessment[r].version + 1
    BY MovedType DEF IInv
  <1> HIDE DEF row
  <1>3. assessment \in [DOMAIN assessment -> Row] /\ seen[c] \in [DOMAIN seen[c] -> Row]
    BY DEF IInv, TypeOK
  <1>4. /\ DOMAIN assessment' = DOMAIN assessment
        /\ assessment' \in [DOMAIN assessment' -> Row]
        /\ assessment'[r] = row
        /\ \A q \in DOMAIN assessment : q # r => assessment'[q] = assessment[q]
    BY <1>1, <1>2, <1>3 DEF row
  <1>5. /\ DOMAIN seen' = Clients
        /\ \A d \in Clients : d # c => seen'[d] = seen[d]
        /\ seen'[c] = With(seen[c], r, row)
    BY <1>1 DEF IInv, TypeOK, row
  <1>6. /\ DOMAIN seen'[c] = DOMAIN seen[c] \cup {r}
        /\ seen'[c] \in [DOMAIN seen'[c] -> Row]
        /\ seen'[c][r] = row
        /\ \A q \in DOMAIN seen[c] : q # r => seen'[c][q] = seen[c][q]
    BY <1>2, <1>3, <1>5 DEF With
  <1>7. TypeOK'
    BY <1>4, <1>5, <1>6 DEF IInv, TypeOK
  <1>8. assessment[r].version \in Nat
    BY <1>3 DEF Row
  <1>9. ASSUME NEW d \in Clients, NEW q \in DOMAIN seen'[d]
        PROVE  /\ seen'[d][q].version <= assessment'[q].version
               /\ seen'[d][q].version = assessment'[q].version
                      => seen'[d][q] = assessment'[q]
    <2>1. CASE d = c /\ q = r
      BY <1>2, <1>4, <1>6, <1>8, <2>1
    <2>2. CASE d # c /\ q = r
      <3>1. q \in DOMAIN seen[d] /\ seen'[d][q] = seen[d][q]
        BY <1>5, <2>2
      <3>2. seen[d][q].version <= assessment[r].version /\ seen[d][q].version \in Nat
        BY <2>2, <3>1 DEF IInv, TypeOK, VersionNamesRow, Row
      <3> QED
        BY <1>2, <1>4, <1>8, <2>2, <3>1, <3>2
    <2>3. CASE q # r
      <3>1. q \in DOMAIN seen[d] /\ seen'[d][q] = seen[d][q]
        BY <1>5, <1>6, <2>3
      <3>2. assessment'[q] = assessment[q]
        BY <1>4, <2>3, <3>1 DEF IInv, TypeOK
      <3> QED
        BY <3>1, <3>2 DEF IInv, VersionNamesRow
    <2> QED
      BY <2>1, <2>2, <2>3
  <1> QED
    BY <1>7, <1>9 DEF IInv, VersionNamesRow

\* Every request keeps the invariant.
LEMMA NextIInv ==
    ASSUME IInv, [Next]_vars
    PROVE  IInv'
  <1>1. CASE UNCHANGED vars
    BY <1>1 DEF IInv, TypeOK, VersionNamesRow, vars
  <1> QED
    BY <1>1, CreateAssessmentStep, ListAssessmentsStep, TransitionAssessmentStep DEF Next

\* The inductive invariant always holds.
THEOREM Invariance == Spec => []IInv
  <1>1. Init => IInv
    BY InitIInv
  <1>2. IInv /\ [Next]_vars => IInv'
    BY NextIInv
  <1> QED
    BY <1>1, <1>2, PTL DEF Spec

\* Clients' views and the table agree wherever their versions do, for any number of clients
\* and however long a client holds on to what it has seen.
THEOREM VersionsNameRows == Spec => []VersionNamesRow
  <1>1. IInv => VersionNamesRow
    BY DEF IInv
  <1> QED
    BY <1>1, Invariance, PTL

\* The table and the views keep their types.
THEOREM TypeCorrect == Spec => []TypeOK
  <1>1. IInv => TypeOK
    BY DEF IInv
  <1> QED
    BY <1>1, Invariance, PTL

-----------------------------------------------------------------------------
(* What a client may rely on                                               *)

\* No run moves from a row that the client who moves it has not seen.
THEOREM DecisionsAreNotLost == Spec => NoLostDecision
  <1>1. ASSUME IInv, NEW c \in Clients, NEW r \in DOMAIN assessment, NEW action,
               NEW gaps, TransitionAssessment(c, r, action, gaps)
        PROVE  MovesAsSeen
    <2>1. r \in DOMAIN seen[c] /\ seen[c][r] = assessment[r]
      BY <1>1 DEF TransitionAssessment, VersionExpected, IInv, VersionNamesRow
    <2>2. \A q \in DOMAIN assessment : q # r => assessment'[q] = assessment[q]
      BY <1>1 DEF TransitionAssessment, IInv, TypeOK
    <2>3. \A d \in Clients : d # c => seen'[d] = seen[d]
      BY <1>1 DEF TransitionAssessment, IInv, TypeOK
    <2> QED
      BY <2>1, <2>2, <2>3 DEF MovesAsSeen
  <1>2. ASSUME IInv, NEW c \in Clients, NEW r \in Runs, CreateAssessment(c, r)
        PROVE  MovesAsSeen
    BY <1>2 DEF CreateAssessment, With, MovesAsSeen
  <1>3. ASSUME NEW c \in Clients, ListAssessments(c)
        PROVE  MovesAsSeen
    BY <1>3 DEF ListAssessments, MovesAsSeen
  <1>4. IInv /\ [Next]_vars => [MovesAsSeen]_vars
    BY <1>1, <1>2, <1>3 DEF Next
  <1> QED
    BY <1>4, Invariance, PTL DEF Spec, NoLostDecision

\* Recorded gaps are never cleared.
THEOREM GapsAreKept == Spec => GapsStayExplicit
  <1>1. ASSUME IInv, NEW c \in Clients, NEW r \in DOMAIN assessment, NEW action,
               NEW gaps, TransitionAssessment(c, r, action, gaps)
        PROVE  KeepsRecordedGaps
    <2>1. PICK target : assessment' = [assessment EXCEPT ![r] = Moved(r, target, gaps)]
      BY <1>1 DEF TransitionAssessment
    <2> QED
      BY <1>1, <2>1 DEF IInv, TypeOK, Moved, GapsRecorded, KeepsRecordedGaps
  <1>2. ASSUME IInv, NEW c \in Clients, NEW r \in Runs, CreateAssessment(c, r)
        PROVE  KeepsRecordedGaps
    BY <1>2 DEF CreateAssessment, With, KeepsRecordedGaps
  <1>3. ASSUME NEW c \in Clients, ListAssessments(c)
        PROVE  KeepsRecordedGaps
    BY <1>3 DEF ListAssessments, KeepsRecordedGaps
  <1>4. IInv /\ [Next]_vars => [KeepsRecordedGaps]_vars
    BY <1>1, <1>2, <1>3 DEF Next
  <1> QED
    BY <1>4, Invariance, PTL DEF Spec, GapsStayExplicit

-----------------------------------------------------------------------------
(* What the controller relies on                                           *)

\* Every transition is one the lifecycle allows.
LEMMA TransitionAdmission ==
    ASSUME NEW s, NEW a, NEW target, <<s, a, target>> \in Transitions
    PROVE  s \notin Ended /\ (s \in Paused => target \notin Paused)
    BY DEF Transitions, Working, RunState, Ended, Paused

\* Whatever the clients send, a run admits source work, pauses, resumes and closes as
\* WorkloadController's surroundings do.
THEOREM LifecycleImplemented == Spec => ImplementsLifecycle
  <1> DEFINE Mapped == [r \in Runs |-> Admission(r)]
  <1>1. Init => Lifecycle!Init
    BY DEF Init, NoRows, Lifecycle!Init, Admission
  <1>2. ASSUME IInv, NEW c \in Clients, NEW r \in Runs, CreateAssessment(c, r)
        PROVE  UNCHANGED Mapped
    <2>1. Admission(r)' = "open" /\ Admission(r) = "open"
      BY <1>2 DEF CreateAssessment, With, NewRow, Admission, Paused, Ended
    <2>2. ASSUME NEW q \in Runs, q # r
          PROVE  Admission(q)' = Admission(q)
      BY <1>2, <2>2 DEF CreateAssessment, With, Admission
    <2> QED
      BY <2>1, <2>2
  <1>3. ASSUME IInv, NEW c \in Clients, ListAssessments(c)
        PROVE  UNCHANGED Mapped
    BY <1>3 DEF ListAssessments, Admission
  <1>4. ASSUME IInv, NEW c \in Clients, NEW r \in DOMAIN assessment, NEW action,
               NEW gaps, TransitionAssessment(c, r, action, gaps)
        PROVE  [Lifecycle!Next]_Mapped
    <2>0. r \in Runs /\ DOMAIN assessment \subseteq Runs
          /\ assessment \in [DOMAIN assessment -> Row]
      BY <1>4 DEF IInv, TypeOK
    <2>1. PICK target \in RunState :
            /\ <<assessment[r].state, action, target>> \in Transitions
            /\ assessment' = [assessment EXCEPT ![r] = Moved(r, target, gaps)]
      BY <1>4 DEF TransitionAssessment
    <2>2. /\ DOMAIN assessment' = DOMAIN assessment
          /\ assessment'[r].state = target
          /\ \A q \in DOMAIN assessment : q # r => assessment'[q] = assessment[q]
      BY <2>0, <2>1 DEF Moved
    <2>3. \A q \in Runs : q # r => Admission(q)' = Admission(q)
      BY <2>2 DEF Admission
    <2>4. Admission(r) # "closed"
      BY <2>0, <2>1, TransitionAdmission DEF Admission
    <2>5. Admission(r) = "paused" => Admission(r)' # "paused"
      BY <2>0, <2>1, <2>2, TransitionAdmission DEF Admission
    <2>6. Admission(r)' \in {"open", "paused", "closed"}
          /\ Admission(r) \in {"open", "paused", "closed"}
      BY DEF Admission
    <2>7. Mapped' = [Mapped EXCEPT ![r] = Admission(r)']
      BY <2>0, <2>3
    <2>8. CASE Admission(r)' = Admission(r)
      BY <2>3, <2>8
    <2>9. CASE Admission(r)' # Admission(r)
      <3>1. Mapped[r] = Admission(r)
        BY <2>0
      <3>2. CASE Admission(r)' = "closed"
        BY <2>0, <2>4, <2>7, <3>1, <3>2 DEF Lifecycle!Next, Lifecycle!Close
      <3>3. CASE Admission(r)' = "paused"
        BY <2>0, <2>4, <2>6, <2>7, <2>9, <3>1, <3>3 DEF Lifecycle!Next, Lifecycle!Pause
      <3>4. CASE Admission(r)' = "open"
        BY <2>0, <2>4, <2>6, <2>7, <2>9, <3>1, <3>4 DEF Lifecycle!Next, Lifecycle!Resume
      <3> QED
        BY <2>6, <3>2, <3>3, <3>4
    <2> QED
      BY <2>8, <2>9
  <1>5. UNCHANGED vars => UNCHANGED Mapped
    BY DEF vars, Admission
  <1>6. IInv /\ [Next]_vars => [Lifecycle!Next]_Mapped
    BY <1>2, <1>3, <1>4, <1>5 DEF Next
  <1> QED
    BY <1>1, <1>6, Invariance, PTL DEF Spec, ImplementsLifecycle, Lifecycle!Spec

=============================================================================
