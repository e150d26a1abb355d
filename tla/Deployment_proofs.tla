-------------------------- MODULE Deployment_proofs --------------------------
(***************************************************************************)
(* What holds of PermitDelivery for every number of restarts, lost answers *)
(* and operations, and of the deployment as a whole: the registry, the     *)
(* delivery of permits and the collectors, around one controller.          *)
(***************************************************************************)
EXTENDS PermitDelivery, SourceRegistry_proofs, SourceExecution_proofs

-----------------------------------------------------------------------------
(* Delivery uses the controller                                            *)

\* Restarts, answers and repeated requests leave the controller's tables alone.
LEMMA DeliveryNextIsNext ==
    ASSUME [DeliveryNext]_deliveryVars
    PROVE  [Next]_vars
    BY DEF DeliveryNext, ServedStep, SubmitAgain, Deliver, Lose, Restart, deliveryVars,
           delivery, vars

\* Delivery only adds guards to the controller's handlers, so every theorem of
\* WorkloadController_proofs holds across restarts and lost answers.
THEOREM DeliveryUsesController == DeliverySpec => Spec
  <1>1. DeliveryInit => Init
    BY DEF DeliveryInit
  <1>2. [DeliveryNext]_deliveryVars => [Next]_vars
    BY DeliveryNextIsNext
  <1> QED
    BY <1>1, <1>2, PTL DEF DeliverySpec, Spec

-----------------------------------------------------------------------------
(* Where a permit is                                                       *)

\* An answer on its way carries o's permit.
Carried(o) == [op |-> o, permit |-> TRUE] \in answer

\* Each permit is in one place: its client has it, an answer carries it, or it is lost.
OnePlace ==
    /\ \A o \in DOMAIN operation :
           operation[o].generation > 0 => o \in held \/ o \in lost \/ Carried(o)
    /\ \A o \in Ops : Carried(o) => o \notin held /\ o \notin lost
    /\ \A o \in held : o \notin lost

\* Permits on their way are permits of the table, and only held ones were ever used.
PermitsAreReal ==
    /\ \A o \in Ops : Carried(o) => o \in DOMAIN signedBy
    /\ \A o \in DOMAIN operation : operation[o].attempts > 0 => o \in held

DeliveryInv ==
    /\ IInv
    /\ PermitsLeaveQueue
    /\ DeliveryTypeOK
    /\ OnePlace
    /\ PermitsAreReal

\* The permits in a set of decisions.
LEMMA PermitsInDecisions ==
    ASSUME NEW answers, answers \subseteq Decision, NEW o
    PROVE  o \in PermitsIn(answers) <=> [op |-> o, permit |-> TRUE] \in answers
  <1>1. \A b \in answers : b.permit => b = [op |-> b.op, permit |-> TRUE]
    BY DEF Decision
  <1> QED
    BY <1>1 DEF PermitsIn

\* A decision that carries a permit is the one that Carried speaks of.
LEMMA CarriedIs ==
    ASSUME answer \subseteq Decision, NEW a \in answer, a.permit
    PROVE  a = [op |-> a.op, permit |-> TRUE] /\ Carried(a.op) /\ a.op \in Ops
  <1>1. a = [op |-> a.op, permit |-> TRUE] /\ a.op \in Ops
    BY DEF Decision
  <1> QED
    BY <1>1 DEF Carried

\* A step of the controller sends the new permit in its answer.
LEMMA ServedStepKeeps ==
    ASSUME DeliveryInv, IInv', ServedStep
    PROVE  DeliveryInv'
  <1>0. /\ DOMAIN operation \subseteq Ops /\ DOMAIN operation' \subseteq Ops
        /\ operation \in [DOMAIN operation -> OperationRow]
        /\ operation' \in [DOMAIN operation' -> OperationRow]
    BY DEF DeliveryInv, IInv, TypeOK
  <1>1. PermitsIssued /\ PermitsLeaveQueue'
    BY PermitsAreIssued DEF DeliveryInv, ServedStep
  <1>2. UNCHANGED <<key, restarts, held, lost>>
    BY DEF ServedStep
  <1>3. \A o \in Ops : Carried(o)' <=> Carried(o) \/ Reserves(o)
    <2> SUFFICES ASSUME NEW o \in Ops
                 PROVE  [op |-> o, permit |-> TRUE] \in Answers <=> Reserves(o)
      BY DEF Carried, ServedStep
    <2>1. Reserves(o) => o \in DOMAIN operation'
      BY DEF Reserves
    <2>2. \A p : AnswersPermit(p) \in BOOLEAN
      BY DEF AnswersPermit, Reserves
    <2>3. ASSUME [op |-> o, permit |-> TRUE] \in Answers
          PROVE  Reserves(o)
      <3>1. PICK p : [op |-> o, permit |-> TRUE] = [op |-> p, permit |-> AnswersPermit(p)]
        BY <2>3 DEF Answers
      <3>2. o = p /\ AnswersPermit(p) = TRUE
        BY <3>1
      <3> QED
        BY <3>2 DEF AnswersPermit
    <2>4. ASSUME Reserves(o)
          PROVE  [op |-> o, permit |-> TRUE] \in Answers
      <3>1. AnswersPermit(o) = TRUE
        BY <2>2, <2>4 DEF AnswersPermit
      <3> QED
        BY <2>1, <2>4, <3>1 DEF Answers
    <2> QED
      BY <2>3, <2>4
  <1>4. /\ DOMAIN signedBy = {o \in DOMAIN operation : operation[o].generation > 0}
        /\ DOMAIN signedBy' = {o \in DOMAIN operation' : operation'[o].generation > 0}
    BY DEF DeliveryInv, DeliveryTypeOK, ServedStep
  <1>5. /\ DOMAIN signedBy \subseteq DOMAIN signedBy'
        /\ \A o \in Ops : Reserves(o) => o \in DOMAIN signedBy' /\ o \notin DOMAIN signedBy
        /\ \A o \in DOMAIN signedBy' \ DOMAIN signedBy : Reserves(o)
    <2>1. \A o \in DOMAIN operation : operation[o].generation \in Nat
      BY <1>0 DEF OperationRow
    <2>2. \A o \in Ops : Reserves(o) => o \in DOMAIN operation'
      BY DEF Reserves
    <2>3. \A o \in DOMAIN operation : operation[o].generation > 0 => ~Reserves(o)
      BY <1>0, <1>1, <2>1 DEF PermitsIssued
    <2> QED
      BY <1>0, <1>1, <1>4, <2>1, <2>2, <2>3 DEF PermitsIssued
  <1>6. DeliveryTypeOK'
    <2>1. TypeOK' /\ key \in 0..restarts /\ restarts \in 0..MaxRestarts
      BY DEF IInv, DeliveryInv, DeliveryTypeOK
    <2>2. signedBy' \in [DOMAIN signedBy' -> 0..restarts]
      <3>1. /\ signedBy' = [o \in DOMAIN signedBy' |-> IF Reserves(o) THEN key ELSE signedBy[o]]
            /\ signedBy \in [DOMAIN signedBy -> 0..restarts]
        BY <1>4 DEF ServedStep, DeliveryInv, DeliveryTypeOK
      <3> QED
        BY <1>5, <2>1, <3>1
    <2>3. answer' \subseteq Decision
      <3>1. Answers \subseteq Decision
        <4>1. \A p : AnswersPermit(p) \in BOOLEAN
          BY DEF AnswersPermit, Reserves
        <4>2. \A p \in DOMAIN operation' : [op |-> p, permit |-> AnswersPermit(p)] \in Decision
          BY <1>0, <4>1 DEF Decision
        <4> QED
          BY <4>2 DEF Answers
      <3> QED
        BY <3>1 DEF ServedStep, DeliveryInv, DeliveryTypeOK
    <2>4. held \subseteq DOMAIN signedBy /\ lost \subseteq DOMAIN signedBy
      BY DEF DeliveryInv, DeliveryTypeOK
    <2> QED
      BY <1>2, <1>4, <1>5, <2>1, <2>2, <2>3, <2>4 DEF DeliveryTypeOK
  <1>7. OnePlace'
    <2>1. held \subseteq DOMAIN signedBy /\ lost \subseteq DOMAIN signedBy
      BY DEF DeliveryInv, DeliveryTypeOK
    <2>2. ASSUME NEW o \in DOMAIN operation', operation'[o].generation > 0
          PROVE  o \in held \/ o \in lost \/ Carried(o)'
      <3>1. o \in DOMAIN signedBy \/ Reserves(o)
        BY <1>4, <1>5, <2>2
      <3> QED
        BY <1>0, <1>3, <1>4, <3>1 DEF DeliveryInv, OnePlace
    <2>3. \A o \in Ops : Carried(o)' => o \notin held /\ o \notin lost
      BY <1>3, <1>5, <2>1 DEF DeliveryInv, OnePlace
    <2>4. \A o \in held : o \notin lost
      BY DEF DeliveryInv, OnePlace
    <2> QED
      BY <1>2, <2>2, <2>3, <2>4 DEF OnePlace
  <1>8. PermitsAreReal'
    <2>1. \A o \in Ops : Carried(o)' => o \in DOMAIN signedBy'
      BY <1>3, <1>5 DEF DeliveryInv, PermitsAreReal
    <2>2. ASSUME NEW o \in DOMAIN operation', operation'[o].attempts > 0
          PROVE  o \in held
      <3>1. CASE o \in DOMAIN operation
        <4>1. CASE operation'[o].attempts = operation[o].attempts
          BY <2>2, <3>1, <4>1 DEF DeliveryInv, PermitsAreReal
        <4>2. CASE operation'[o].attempts # operation[o].attempts
          BY <3>1, <4>2 DEF ServedStep, PermitVerified
        <4> QED
          BY <4>1, <4>2
      <3>2. CASE o \notin DOMAIN operation
        <4>1. operation'[o].state \in {"queued", "reserved"}
          BY <3>2, NoneIsRequeued DEF DeliveryInv, ServedStep
        <4>2. operation'[o].attempts = 0
          BY <4>1 DEF IInv, PermitUsedOnce
        <4> QED
          BY <2>2, <4>2
      <3> QED
        BY <3>1, <3>2
    <2> QED
      BY <1>2, <2>1, <2>2 DEF PermitsAreReal
  <1> QED
    BY <1>1, <1>6, <1>7, <1>8 DEF DeliveryInv

\* What delivery does between two steps of the controller leaves its tables alone.
LEMMA TablesKept ==
    ASSUME DeliveryInv, UNCHANGED vars
    PROVE  IInv' /\ PermitsLeaveQueue' /\ TypeOK' /\ operation' = operation
  <1>1. IInv'
    BY StutterKeeps DEF DeliveryInv
  <1>2. operation' = operation
    BY DEF vars
  <1> QED
    BY <1>1, <1>2 DEF IInv, DeliveryInv, PermitsLeaveQueue

\* A repeated request is answered without a permit.
LEMMA SubmitAgainKeeps ==
    ASSUME DeliveryInv, NEW o \in Ops, SubmitAgain(o)
    PROVE  DeliveryInv'
  <1>1. /\ UNCHANGED <<key, restarts, signedBy, held, lost>>
        /\ answer' = answer \cup {[op |-> o, permit |-> FALSE]}
        /\ IInv' /\ PermitsLeaveQueue' /\ TypeOK' /\ operation' = operation
    BY TablesKept DEF SubmitAgain
  <1>2. \A p \in Ops : Carried(p)' <=> Carried(p)
    BY <1>1 DEF Carried
  <1>3. DeliveryTypeOK'
    <2>1. [op |-> o, permit |-> FALSE] \in Decision
      BY DEF Decision
    <2>2. answer' \subseteq Decision
      BY <1>1, <2>1 DEF DeliveryInv, DeliveryTypeOK
    <2> QED
      BY <1>1, <2>2 DEF DeliveryInv, DeliveryTypeOK
  <1>4. OnePlace'
    <2>1. DOMAIN operation \subseteq Ops
      BY DEF DeliveryInv, IInv, TypeOK
    <2> QED
      BY <1>1, <1>2, <2>1 DEF DeliveryInv, OnePlace
  <1>5. PermitsAreReal'
    BY <1>1, <1>2 DEF DeliveryInv, PermitsAreReal
  <1> QED
    BY <1>1, <1>3, <1>4, <1>5 DEF DeliveryInv

\* An answer that arrives gives the client the permit it carries, if any.
LEMMA DeliverKeeps ==
    ASSUME DeliveryInv, NEW a \in answer, Deliver(a)
    PROVE  DeliveryInv'
  <1>0. /\ DOMAIN operation \subseteq Ops /\ answer \subseteq Decision
        /\ held \subseteq DOMAIN signedBy
    BY DEF DeliveryInv, DeliveryTypeOK, TypeOK
  <1>1. /\ UNCHANGED <<key, restarts, signedBy, lost>>
        /\ answer' = answer \ {a}
        /\ held' = IF a.permit THEN held \cup {a.op} ELSE held
        /\ IInv' /\ PermitsLeaveQueue' /\ TypeOK' /\ operation' = operation
    BY TablesKept DEF Deliver
  <1>2. \A p \in Ops : Carried(p)' <=> Carried(p) /\ ~(a.permit /\ a.op = p)
    <2>1. a \in [op : Ops, permit : BOOLEAN]
      BY <1>0 DEF Decision
    <2> QED
      BY <1>1, <2>1 DEF Carried
  <1>3. a.permit => Carried(a.op) /\ a.op \in Ops
    BY <1>0, CarriedIs
  <1>4. DeliveryTypeOK'
    <2>1. held' \subseteq DOMAIN signedBy
      BY <1>0, <1>1, <1>3 DEF DeliveryInv, PermitsAreReal
    <2> QED
      BY <1>1, <2>1 DEF DeliveryInv, DeliveryTypeOK
  <1>5. OnePlace'
    BY <1>0, <1>1, <1>2, <1>3 DEF DeliveryInv, OnePlace
  <1>6. PermitsAreReal'
    BY <1>1, <1>2 DEF DeliveryInv, PermitsAreReal
  <1> QED
    BY <1>1, <1>4, <1>5, <1>6 DEF DeliveryInv

\* An answer that does not arrive loses the permit it carries.
LEMMA LoseKeeps ==
    ASSUME DeliveryInv, NEW a \in answer, Lose(a)
    PROVE  DeliveryInv'
  <1>0. /\ DOMAIN operation \subseteq Ops /\ answer \subseteq Decision
        /\ lost \subseteq DOMAIN signedBy
    BY DEF DeliveryInv, DeliveryTypeOK, TypeOK
  <1>1. /\ UNCHANGED <<key, restarts, signedBy, held>>
        /\ answer' = answer \ {a}
        /\ lost' = lost \cup PermitsIn({a})
        /\ IInv' /\ PermitsLeaveQueue' /\ TypeOK' /\ operation' = operation
    BY TablesKept DEF Lose
  <1>2. \A p \in Ops : Carried(p)' <=> Carried(p) /\ ~(a.permit /\ a.op = p)
    <2>1. a \in [op : Ops, permit : BOOLEAN]
      BY <1>0 DEF Decision
    <2> QED
      BY <1>1, <2>1 DEF Carried
  <1>3. /\ a.permit => Carried(a.op) /\ a.op \in Ops
        /\ PermitsIn({a}) = IF a.permit THEN {a.op} ELSE {}
    BY <1>0, CarriedIs DEF PermitsIn
  <1>4. DeliveryTypeOK'
    <2>1. lost' \subseteq DOMAIN signedBy
      BY <1>0, <1>1, <1>3 DEF DeliveryInv, PermitsAreReal
    <2> QED
      BY <1>1, <2>1 DEF DeliveryInv, DeliveryTypeOK
  <1>5. OnePlace'
    BY <1>0, <1>1, <1>2, <1>3 DEF DeliveryInv, OnePlace
  <1>6. PermitsAreReal'
    BY <1>1, <1>2 DEF DeliveryInv, PermitsAreReal
  <1> QED
    BY <1>1, <1>4, <1>5, <1>6 DEF DeliveryInv

\* A restart loses the permits of all answers on their way.
LEMMA RestartKeeps ==
    ASSUME DeliveryInv, Restart
    PROVE  DeliveryInv'
  <1>0. /\ DOMAIN operation \subseteq Ops /\ answer \subseteq Decision
        /\ lost \subseteq DOMAIN signedBy /\ DOMAIN signedBy \subseteq Ops
    BY DEF DeliveryInv, DeliveryTypeOK, TypeOK
  <1>1. /\ UNCHANGED <<signedBy, held>>
        /\ answer' = {}
        /\ lost' = lost \cup PermitsIn(answer)
        /\ IInv' /\ PermitsLeaveQueue' /\ TypeOK' /\ operation' = operation
    BY TablesKept DEF Restart
  <1>2. \A p \in Ops : ~Carried(p)'
    BY <1>1 DEF Carried
  <1>3. PermitsIn(answer) = {p \in Ops : Carried(p)}
    BY <1>0, PermitsInDecisions DEF Carried, PermitsIn, Decision
  <1>4. DeliveryTypeOK'
    <2>1. /\ restarts' \in 0..MaxRestarts /\ key' \in 0..restarts'
          /\ 0..restarts \subseteq 0..restarts'
      BY DeliveryAssumption DEF Restart, NextKey, DeliveryInv, DeliveryTypeOK
    <2>2. lost' \subseteq DOMAIN signedBy
      BY <1>0, <1>1, <1>3 DEF DeliveryInv, PermitsAreReal
    <2>3. /\ signedBy \in [DOMAIN signedBy -> 0..restarts]
          /\ held \subseteq DOMAIN signedBy
          /\ DOMAIN signedBy = {o \in DOMAIN operation : operation[o].generation > 0}
      BY DEF DeliveryInv, DeliveryTypeOK
    <2>4. signedBy \in [DOMAIN signedBy -> 0..restarts']
      BY <2>1, <2>3
    <2> QED
      BY <1>1, <2>1, <2>2, <2>3, <2>4 DEF DeliveryTypeOK
  <1>5. OnePlace'
    <2>1. \A o \in DOMAIN operation :
              operation[o].generation > 0 => o \in held \/ o \in lost'
      BY <1>0, <1>1, <1>3 DEF DeliveryInv, OnePlace
    <2>2. \A o \in held : o \notin lost'
      BY <1>1, <1>3 DEF DeliveryInv, OnePlace
    <2> QED
      BY <1>1, <1>2, <2>1, <2>2 DEF OnePlace
  <1>6. PermitsAreReal'
    BY <1>1, <1>2 DEF DeliveryInv, PermitsAreReal
  <1> QED
    BY <1>1, <1>4, <1>5, <1>6 DEF DeliveryInv

\* Every step of the deployment keeps each permit in its place.
LEMMA NextDeliveryInv ==
    ASSUME DeliveryInv, [DeliveryNext]_deliveryVars
    PROVE  DeliveryInv'
  <1>1. CASE ServedStep
    <2>1. IInv'
      BY <1>1, NextIInv DEF DeliveryInv, ServedStep
    <2> QED
      BY <1>1, <2>1, ServedStepKeeps
  <1>2. CASE \E o \in Ops : SubmitAgain(o)
    BY <1>2, SubmitAgainKeeps
  <1>3. CASE \E a \in answer : Deliver(a) \/ Lose(a)
    BY <1>3, DeliverKeeps, LoseKeeps
  <1>4. CASE Restart
    BY <1>4, RestartKeeps
  <1>5. CASE UNCHANGED deliveryVars
    <2>1. IInv' /\ PermitsLeaveQueue' /\ TypeOK' /\ operation' = operation
      BY <1>5, TablesKept DEF deliveryVars
    <2> QED
      BY <1>5, <2>1 DEF deliveryVars, delivery, DeliveryInv, DeliveryTypeOK, OnePlace,
                        PermitsAreReal, Carried
  <1> QED
    BY <1>1, <1>2, <1>3, <1>4, <1>5 DEF DeliveryNext

\* Every permit is in exactly one place, in every state.
THEOREM DeliveryInvariance == DeliverySpec => []DeliveryInv
  <1>1. DeliveryInit => DeliveryInv
    <2> SUFFICES ASSUME DeliveryInit
                 PROVE  DeliveryInv
      OBVIOUS
    <2>1. IInv
      BY InitIInv DEF DeliveryInit
    <2>2. DOMAIN operation = {} /\ DOMAIN signedBy = {}
      BY DEF DeliveryInit, Init
    <2>3. DeliveryTypeOK
      BY <2>1, <2>2, DeliveryAssumption DEF DeliveryInit, DeliveryTypeOK, IInv
    <2> QED
      BY <2>1, <2>2, <2>3 DEF DeliveryInit, DeliveryInv, PermitsLeaveQueue, OnePlace,
                              PermitsAreReal, Carried
  <1>2. DeliveryInv /\ [DeliveryNext]_deliveryVars => DeliveryInv'
    BY NextDeliveryInv
  <1> QED
    BY <1>1, <1>2, PTL DEF DeliverySpec

\* The types of what a restart keeps and loses.
THEOREM DeliveryTypeCorrect == DeliverySpec => []DeliveryTypeOK
  <1>1. DeliveryInv => DeliveryTypeOK
    BY DEF DeliveryInv
  <1> QED
    BY <1>1, DeliveryInvariance, PTL

\* No reservation is without a holder but by an answer that was lost: for every number of
\* operations, repeated requests, lost answers and restarts.
THEOREM PermitsReachSomeoneAlways == DeliverySpec => []PermitsReachSomeone
  <1>1. DeliveryInv => PermitsReachSomeone
    <2> SUFFICES ASSUME DeliveryInv, NEW o \in DOMAIN operation,
                        operation[o].state = "reserved"
                 PROVE  o \in held \cup lost \/ [op |-> o, permit |-> TRUE] \in answer
      BY DEF PermitsReachSomeone
    <2>1. operation[o].generation \in Nat /\ operation[o].generation # 0
      BY DEF DeliveryInv, IInv, TypeOK, OperationRow, PermitsLeaveQueue
    <2> QED
      BY <2>1 DEF DeliveryInv, OnePlace, Carried
  <1> QED
    BY <1>1, DeliveryInvariance, PTL

\* A permit that no client has was not used.
UnheldIsReserved ==
    \A o \in DOMAIN operation :
        operation[o].generation > 0 /\ o \notin held => operation[o].state = "reserved"

\* Without its permit nobody can take an operation out of its reservation.
LEMMA UnheldStaysReserved ==
    ASSUME DeliveryInv, DeliveryInv', UnheldIsReserved, [DeliveryNext]_deliveryVars
    PROVE  UnheldIsReserved'
  <1> SUFFICES ASSUME NEW o \in DOMAIN operation', operation'[o].generation > 0, o \notin held'
               PROVE  operation'[o].state = "reserved"
    BY DEF UnheldIsReserved
  <1>1. CASE ServedStep
    <2>1. PermitsIssued /\ held' = held /\ [Next]_vars /\ o \in Ops
      BY <1>1, PermitsAreIssued DEF DeliveryInv, ServedStep, IInv, TypeOK
    <2>2. CASE Reserves(o)
      BY <2>2 DEF Reserves
    <2>3. CASE ~Reserves(o)
      <3>1. /\ o \in DOMAIN operation
            /\ operation'[o].generation = operation[o].generation
        BY <2>1, <2>3 DEF PermitsIssued
      <3>2. operation[o].state = "reserved"
        BY <2>1, <3>1 DEF UnheldIsReserved
      <3>3. ~ \E t \in Readings, s \in Leases : BeginExecution(o, t, s)
        <4> SUFFICES ASSUME NEW t \in Readings, NEW s \in Leases, BeginExecution(o, t, s)
                     PROVE  FALSE
          OBVIOUS
        <4>1. operation \in [DOMAIN operation -> OperationRow] /\ operation[o].attempts \in Nat
          BY <3>1 DEF DeliveryInv, IInv, TypeOK, OperationRow
        <4>2. operation'[o].attempts = operation[o].attempts + 1
          BY <3>1, <4>1 DEF BeginExecution, OperationRow
        <4>3. operation'[o].attempts # operation[o].attempts
          BY <4>1, <4>2
        <4> QED
          BY <1>1, <2>1, <3>1, <4>3 DEF ServedStep, PermitVerified
      <3>4. operation'[o] = operation[o]
        BY <2>1, <3>1, <3>2, <3>3, WaitingRowsStay DEF DeliveryInv
      <3> QED
        BY <3>2, <3>4
    <2> QED
      BY <2>2, <2>3
  <1>2. CASE /\ UNCHANGED vars
             /\ held \subseteq held'
    BY <1>2 DEF vars, UnheldIsReserved
  <1>3. ServedStep \/ (UNCHANGED vars /\ held \subseteq held')
    BY DEF DeliveryNext, SubmitAgain, Deliver, Lose, Restart, deliveryVars, delivery
  <1> QED
    BY <1>1, <1>2, <1>3

LostPermitsHoldSlots ==
    \A o \in lost :
        /\ o \notin held
        /\ InState(o, {"reserved"})
        /\ operation[o].slotCharged

\* What lost_permit.cfg shows of one operation holds of every one: a permit lost with its
\* answer is never given again, and the slots it reserved are held for good, whatever the
\* client, the clock, the sweeps and the reconciler do.
THEOREM LostPermitsAreForGood == DeliverySpec => []LostPermitsHoldSlots
  <1>1. DeliveryInit => UnheldIsReserved
    BY DEF DeliveryInit, Init, UnheldIsReserved
  <1>2. DeliveryInv /\ DeliveryInv' /\ UnheldIsReserved /\ [DeliveryNext]_deliveryVars
            => UnheldIsReserved'
    BY UnheldStaysReserved
  <1>3. DeliveryInv /\ UnheldIsReserved => LostPermitsHoldSlots
    <2> SUFFICES ASSUME DeliveryInv, UnheldIsReserved, NEW o \in lost
                 PROVE  /\ o \notin held
                        /\ InState(o, {"reserved"})
                        /\ operation[o].slotCharged
      BY DEF LostPermitsHoldSlots
    <2>1. o \notin held /\ o \in DOMAIN operation /\ operation[o].generation > 0
      BY DEF DeliveryInv, DeliveryTypeOK, OnePlace
    <2>2. operation[o].state = "reserved"
      BY <2>1 DEF UnheldIsReserved
    <2>3. operation[o].slotCharged
      BY <2>1, <2>2 DEF DeliveryInv, IInv, ChargedWhileUncertain, ActiveStates
    <2> QED
      BY <2>1, <2>2, <2>3 DEF InState
  <1> QED
    BY <1>1, <1>2, <1>3, DeliveryInvariance, PTL DEF DeliverySpec

\* With a configured key every permit is signed with the key the process runs with.
SignedWithKey == \A o \in DOMAIN signedBy : signedBy[o] = key

\* A configured signing key makes restarts harmless to the permits that clients hold.
THEOREM ConfiguredKeysSurvive ==
    ASSUME KeyConfigured
    PROVE  DeliverySpec => []PermitsSurviveRestart
  <1>1. DeliveryInit => SignedWithKey
    BY DEF DeliveryInit, SignedWithKey
  <1>2. DeliveryInv /\ DeliveryInv' /\ SignedWithKey /\ [DeliveryNext]_deliveryVars => SignedWithKey'
    <2> SUFFICES ASSUME DeliveryInv, DeliveryInv', SignedWithKey, [DeliveryNext]_deliveryVars,
                        NEW o \in DOMAIN signedBy'
                 PROVE  signedBy'[o] = key'
      BY DEF SignedWithKey
    <2>1. CASE ServedStep
      <3>1. PermitsIssued
        BY <2>1, PermitsAreIssued DEF DeliveryInv, ServedStep
      <3>2. /\ o \in DOMAIN operation' /\ operation'[o].generation > 0 /\ o \in Ops
            /\ signedBy'[o] = IF Reserves(o) THEN key ELSE signedBy[o]
            /\ key' = key
        BY <2>1 DEF ServedStep, DeliveryInv, IInv, TypeOK
      <3>3. ~Reserves(o) => o \in DOMAIN signedBy
        BY <3>1, <3>2 DEF PermitsIssued, DeliveryInv, DeliveryTypeOK
      <3> QED
        BY <3>2, <3>3 DEF SignedWithKey
    <2>2. CASE UNCHANGED <<signedBy, key>>
      BY <2>2 DEF SignedWithKey
    <2>3. ServedStep \/ UNCHANGED <<signedBy, key>>
      BY KeyConfigured DEF DeliveryNext, SubmitAgain, Deliver, Lose, Restart, NextKey,
                           deliveryVars, delivery
    <2> QED
      BY <2>1, <2>2, <2>3
  <1>3. DeliveryInv /\ SignedWithKey => PermitsSurviveRestart
    BY DEF DeliveryInv, DeliveryTypeOK, SignedWithKey, PermitsSurviveRestart, PermitVerified
  <1> QED
    BY <1>1, <1>2, <1>3, DeliveryInvariance, PTL DEF DeliverySpec

-----------------------------------------------------------------------------
(* The deployment                                                          *)

\* The three modules around one controller: a step of its tables is a step of each of them,
\* so a request is resolved by the registry, a permit is used by the collector that was
\* answered it, and everything else is theirs alone.
Deployment == RegistrySpec /\ DeliverySpec /\ ExecSpec

\* The registry has a row of o's source for each group of o, with o's connector and o's
\* operation.
Registered(o) ==
    LET r == operation[o].request IN
        \A g \in r.groups : \E k \in SourceRows(r.workspace, Target[r].source) :
            /\ k.group = g
            /\ alias[k].connector = Target[r].connector
            /\ Target[r].operation \in alias[k].operations

\* Whatever a worker has begun, or is at the source because of one, was answered a permit, is
\* what the groups' policies allow and what the registry has.
BegunWorkIsPermitted ==
    \A o \in Ops : collector[o] # "idle" \/ source[o] # "none" =>
        /\ o \in DOMAIN operation
        /\ o \in held
        /\ operation[o].generation > 0
        /\ Allowed(operation[o].request)
        /\ Registered(o)

\* A worker has an operation, and the source its work, only after its permit was delivered.
WorkersHavePermits ==
    \A o \in Ops : collector[o] # "idle" \/ source[o] # "none" => o \in held

\* Only begin_execution, with a delivered permit, brings a worker, and only a worker's call
\* brings work.
LEMMA WorkersKeepPermits ==
    ASSUME DeliveryInv, ExecTypeOK, WorkersHavePermits,
           [DeliveryNext]_deliveryVars, [ExecNext]_execVars
    PROVE  WorkersHavePermits'
  <1> SUFFICES ASSUME NEW o \in Ops, collector'[o] # "idle" \/ source'[o] # "none"
               PROVE  o \in held'
    BY DEF WorkersHavePermits
  <1>1. held \subseteq held'
    BY DEF DeliveryNext, ServedStep, SubmitAgain, Deliver, Lose, Restart, deliveryVars,
           delivery
  <1>2. CASE o \in DOMAIN operation /\ \E t \in Readings, s \in Leases : RunBegins(o, t, s)
    <2>1. operation \in [DOMAIN operation -> OperationRow] /\ operation[o].attempts \in Nat
      BY <1>2 DEF ExecTypeOK, TypeOK, OperationRow
    <2>2. operation'[o].attempts = operation[o].attempts + 1
      <3> PICK t \in Readings, s \in Leases : BeginExecution(o, t, s)
        BY <1>2 DEF RunBegins
      <3>1. operation' = [operation EXCEPT ![o].state = "executing",
                                           ![o].attempts = @ + 1,
                                           ![o].lease = t + s]
        BY DEF BeginExecution
      <3> QED
        BY <1>2, <2>1, <3>1 DEF OperationRow
    <2>3. operation'[o].attempts # operation[o].attempts
      BY <2>1, <2>2
    <2>4. operation' # operation
      BY <2>3
    <2>5. ServedStep
      BY <2>4 DEF DeliveryNext, SubmitAgain, Deliver, Lose, Restart, deliveryVars, vars
    <2>6. PermitVerified(o)
      BY <1>2, <2>3, <2>5 DEF ServedStep
    <2> QED
      BY <1>1, <2>6 DEF PermitVerified
  <1>3. CASE ~(o \in DOMAIN operation /\ \E t \in Readings, s \in Leases : RunBegins(o, t, s))
    <2>1. collector[o] # "idle" \/ source[o] # "none"
      BY <1>3 DEF ExecTypeOK, ExecNext, RunStep, RunBegins, RunReports, HandlerCalls,
                  HandlerReturns, HandlerRaises, RunStops, WorkEnds, Reconciled, execVars
    <2> QED
      BY <1>1, <2>1 DEF WorkersHavePermits
  <1> QED
    BY <1>2, <1>3

\* Nothing is done at a source, and no worker starts, but for an operation whose permit was
\* answered to a client, whose request the policies of all its groups allow and which the
\* registry still has in each of them: through restarts, lost answers, late registrations,
\* crashes of workers and whatever the reconciler confirms.
THEOREM SourceWorkIsPermitted == Deployment => []BegunWorkIsPermitted
  <1>1. DeliveryInit /\ ExecInit => WorkersHavePermits
    BY DEF ExecInit, WorkersHavePermits
  <1>2. /\ DeliveryInv /\ ExecTypeOK /\ WorkersHavePermits
        /\ [DeliveryNext]_deliveryVars /\ [ExecNext]_execVars
        => WorkersHavePermits'
    BY WorkersKeepPermits
  <1>3. DeliveryInv /\ WorkersHavePermits /\ AdmittedWithinPolicy /\ OperationsStayAuthorized
            => BegunWorkIsPermitted
    <2> SUFFICES ASSUME DeliveryInv, WorkersHavePermits, AdmittedWithinPolicy,
                        OperationsStayAuthorized,
                        NEW o \in Ops, collector[o] # "idle" \/ source[o] # "none"
                 PROVE  /\ o \in DOMAIN operation
                        /\ o \in held
                        /\ operation[o].generation > 0
                        /\ Allowed(operation[o].request)
                        /\ Registered(o)
      BY DEF BegunWorkIsPermitted
    <2>1. o \in held
      BY DEF WorkersHavePermits
    <2>2. o \in DOMAIN operation /\ operation[o].generation > 0
      BY <2>1 DEF DeliveryInv, DeliveryTypeOK
    <2>3. Allowed(operation[o].request)
      BY <2>2 DEF AdmittedWithinPolicy
    <2>4. Registered(o)
      BY <2>2 DEF OperationsStayAuthorized, Registered
    <2> QED
      BY <2>1, <2>2, <2>3, <2>4
  <1>4. DeliverySpec => []AdmittedWithinPolicy
    BY DeliveryUsesController, AdmissionsArePermitted, PTL
  <1> QED
    BY <1>1, <1>2, <1>3, <1>4, DeliveryInvariance, ExecTypeCorrect, AuthorizationStays, PTL
       DEF Deployment, DeliverySpec, ExecSpec

\* Work that runs at a source holds its slots, with the newest fence where a slot is the only
\* one, and there is never more of it than the policy of any group allows.
RunningWorkIsCharged ==
    /\ \A g \in Groups : AtSource(g) \subseteq Charged(operation, g)
    /\ \A g \in Groups : Policy[g].maxActive = 1 =>
           \A o \in AtSource(g) : operation[o].generation = group[g].generation
    /\ SourceWithinCapacity

\* What the deployment is for: with a reconciler that confirms an end only when nothing of
\* the work is left, all work at all sources is permitted, charged and within capacity, and a
\* source that honours fences never refuses the one operation that may use it.
THEOREM SourcesAreProtected ==
    ASSUME CollectorChecked
    PROVE  Deployment => [](BegunWorkIsPermitted /\ RunningWorkIsCharged)
  <1>1. ExecInv /\ HolderHasNewestFence => RunningWorkIsCharged
    BY RunningIsCharged, InvariantBoundsWork DEF HolderHasNewestFence, RunningWorkIsCharged
  <1>2. ExecSpec => []HolderHasNewestFence
    BY ExecutionUsesController, HoldersAreNewest, PTL
  <1> QED
    BY <1>1, <1>2, ExecInvariance, SourceWorkIsPermitted, PTL DEF Deployment

=============================================================================
