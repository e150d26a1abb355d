---------------------------- MODULE PermitDelivery ----------------------------
(***************************************************************************)
(* How a permit reaches the collector that uses it: the process that       *)
(* signs permits (create_app, _sign, _verify_signature) may restart, and   *)
(* the one answer that carries a permit may be lost, around every step of  *)
(* WorkloadController.  Everything but the signing key and the answers on  *)
(* their way is in the database and survives.                              *)
(***************************************************************************)
EXTENDS WorkloadController

CONSTANTS
    KeyConfigured, \* REWEFT_PERMIT_SIGNING_KEY or REWEFT_SECRET_KEY is set
    MaxRestarts    \* bound: restarts of the process

ASSUME DeliveryAssumption == KeyConfigured \in BOOLEAN /\ MaxRestarts \in Nat

VARIABLES
    restarts, \* how often the process was started again
    key,      \* its signing key; keys are numbered by the start that made them
    signedBy, \* the key each permit was signed with, on the operations that have one
    answer,   \* decisions on their way to a client
    held,     \* the operations whose permit a client has
    lost      \* the operations whose permit was in an answer that did not arrive

delivery == <<key, restarts, signedBy, answer, held, lost>>
deliveryVars == <<vars, delivery>>

Decision == [op : Ops, permit : BOOLEAN]

DeliveryTypeOK ==
    /\ TypeOK
    /\ restarts \in 0..MaxRestarts /\ key \in 0..restarts
    /\ DOMAIN signedBy = {o \in DOMAIN operation : operation[o].generation > 0}
    /\ signedBy \in [DOMAIN signedBy -> 0..restarts]
    /\ answer \subseteq Decision
    /\ held \subseteq DOMAIN signedBy
    /\ lost \subseteq DOMAIN signedBy

DeliveryInit ==
    /\ Init
    /\ restarts = 0 /\ key = 0
    /\ signedBy = [o \in {} |-> 0]
    /\ answer = {} /\ held = {} /\ lost = {}

-----------------------------------------------------------------------------

\* Mutant: only submit's caller is given the permit.
AdmittedBySubmit(o) == Reserves(o) /\ o \notin DOMAIN operation

\* The step's answer carries o's permit.
AnswersPermit(o) == Reserves(o)

\* The answers of submit and try_admit_queued.
Answers ==
    {[op |-> o, permit |-> AnswersPermit(o)] :
        o \in {p \in DOMAIN operation' : p \notin DOMAIN operation \/ Reserves(p)}}

\* _verify_signature, of a permit some client holds.
PermitVerified(o) == o \in held /\ signedBy[o] = key

\* A step of the controller, in the running process.
ServedStep ==
    /\ Next
    /\ \A o \in DOMAIN operation :
          operation'[o].attempts # operation[o].attempts => PermitVerified(o)
    /\ signedBy' = [o \in {p \in DOMAIN operation' : operation'[p].generation > 0} |->
                       IF Reserves(o) THEN key ELSE signedBy[o]]
    /\ answer' = answer \cup Answers
    /\ UNCHANGED <<key, restarts, held, lost>>

\* A client without a permit sends its request again and gets the decision of the row
\* (_decision_from_row), which has no permit.
SubmitAgain(o) ==
    /\ o \in DOMAIN operation \ held
    /\ \A a \in answer : a.op # o
    /\ answer' = answer \cup {[op |-> o, permit |-> FALSE]}
    /\ UNCHANGED <<vars, key, restarts, signedBy, held, lost>>

Deliver(a) ==
    /\ a \in answer
    /\ answer' = answer \ {a}
    /\ held' = IF a.permit THEN held \cup {a.op} ELSE held
    /\ UNCHANGED <<vars, key, restarts, signedBy, lost>>

\* The operations whose permit is in one of the answers.
PermitsIn(answers) == {a.op : a \in {b \in answers : b.permit}}

Lose(a) ==
    /\ a \in answer
    /\ answer' = answer \ {a}
    /\ lost' = lost \cup PermitsIn({a})
    /\ UNCHANGED <<vars, key, restarts, signedBy, held>>

\* create_app's choice of a key at the next start.
NextKey == IF KeyConfigured THEN key ELSE restarts + 1

\* The process ends, with the answers it had not sent, and is started again.
Restart ==
    /\ restarts < MaxRestarts
    /\ restarts' = restarts + 1
    /\ key' = NextKey
    /\ answer' = {}
    /\ lost' = lost \cup PermitsIn(answer)
    /\ UNCHANGED <<vars, signedBy, held>>

DeliveryNext ==
    \/ ServedStep
    \/ \E o \in Ops : SubmitAgain(o)
    \/ \E a \in answer : Deliver(a) \/ Lose(a)
    \/ Restart

DeliverySpec == DeliveryInit /\ [][DeliveryNext]_deliveryVars

\* A client asks until it has the permit, and the network does not lose every answer.
DeliveryFairness ==
    /\ \A o \in Ops : WF_deliveryVars(SubmitAgain(o))
    /\ \A a \in Decision : SF_deliveryVars(Deliver(a))

FairDeliverySpec == DeliverySpec /\ DeliveryFairness

-----------------------------------------------------------------------------
(* Properties                                                              *)

\* A reservation whose permit nobody has is the work of a lost answer: neither the queue,
\* nor a repeated request, nor a restart between two answers leaves one behind.
PermitsReachSomeone ==
    \A o \in DOMAIN operation : operation[o].state = "reserved" =>
        \/ o \in held \cup lost
        \/ [op |-> o, permit |-> TRUE] \in answer

\* A permit that a client has, and that has not expired, is accepted across restarts.
PermitsSurviveRestart ==
    \A o \in held : operation[o].state = "reserved" /\ now < operation[o].permitExpires
        => PermitVerified(o)

-----------------------------------------------------------------------------
(* What the documents say and the code does not do                         *)

\* A client that repeats its request, under its idempotency key, until it is answered gets
\* the permit of its reservation (docs/product-spec.md:62).
RepeatedRequestsGetPermits ==
    \A o \in Ops : InState(o, {"reserved"}) ~> o \in held \/ ~InState(o, {"reserved"})

=============================================================================
