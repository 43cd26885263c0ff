------------------------------ MODULE FFTPlans ------------------------------
(***************************************************************************)
(* The ownership of FFT plans: FFTPlanMany over its backends (gt-fft/      *)
(* backend/cuda.h, hip.h, sycl.h, bbfft.h), objects that can be moved but  *)
(* not copied and whose resources the backend library holds.               *)
(*                                                                         *)
(* CUDA and HIP move and destroy by hand, with the mark is_valid_; the     *)
(* SYCL backends own their plans by objects that are null when moved from. *)
(* bbfft differs from SYCL in that it always has a plan per direction.     *)
(* A failing library call ends the program (gtFFTCheck), or throws in the  *)
(* constructor of bbfft: no object results.                                *)
(*                                                                         *)
(* holds is what the application may rely on: the plan made for it by the  *)
(* constructor belongs to one object after the other.                      *)
(***************************************************************************)
EXTENDS FiniteSets

CONSTANTS
  Plan,      \* the names of FFTPlanMany objects
  Handle,    \* identities of backend plans and work buffers
  None,      \* no handle: a null pointer, or a member that was never set
  DeadPlan,      \* marks a name whose object is not alive
  PlanBackends,  \* the backends to check
  FromMoved  \* may the application move from an object it moved from before

(* The members of a plan object, those a backend does not have included.  *)
PlanObjects ==
  [forward : Handle \cup {None}, inverse : Handle \cup {None}, buffer : Handle \cup {None},
   asymmetric : BOOLEAN, is_valid_ : BOOLEAN]

PlanResources == {"forward", "inverse", "both", "buffer"}

ASSUME PlansAssumption ==
  /\ None \notin Handle
  /\ DeadPlan \notin PlanObjects \cup PlanResources
  /\ PlanBackends \subseteq {"cuda", "hip", "sycl", "bbfft"}
  /\ FromMoved \in BOOLEAN

VARIABLES
  backend,  \* the backend of this build
  plan,     \* plan[o]: the members of object o, or DeadPlan
  live,     \* live[h]: what the library holds under handle h, or DeadPlan
  holds     \* holds[o]: the handles the application made for object o

plansVars == <<backend, plan, live, holds>>

PlanAlive(o) == plan[o] # DeadPlan

(* The classes of transforms that init() tells apart: domain REAL, and     *)
(* COMPLEX with equal or with different layouts of input and output.       *)
Transform == {"real", "complex", "complex strided"}

(* is_layout_asymmetric_; on SYCL with a current MKL, whose older releases *)
(* served some asymmetric layouts by one plan. *)
Asymmetric(t) == t \in {"real", "complex strided"}

(* Is there a plan of its own for the inverse? *)
SeparateInverse(t) == backend \in {"hip", "bbfft"} \/ Asymmetric(t)

(* "can't use a moved-from plan" *)
Throws(o) ==
  IF backend \in {"cuda", "hip"} THEN ~ plan[o].is_valid_ ELSE plan[o].forward = None

(* Mutant: the forward plan serves both directions.                        *)
InverseHandleForward(o) == plan[o].forward

(* The plan that inverse() executes. *)
InverseHandle(o) ==
  CASE backend \in {"hip", "bbfft"} -> plan[o].inverse
    [] OTHER -> IF plan[o].asymmetric THEN plan[o].inverse ELSE plan[o].forward

(* What the destructor gives back: by hand, or member by member. *)
Destroyed(p) ==
  (CASE backend = "cuda" -> IF ~ p.is_valid_ THEN {}
                            ELSE {p.forward} \cup (IF p.asymmetric THEN {p.inverse} ELSE {})
     [] backend = "hip" -> IF p.is_valid_ THEN {p.forward, p.inverse, p.buffer} ELSE {}
     [] OTHER -> {p.forward, p.inverse})
  \ {None}

PlansInit ==
  /\ backend \in PlanBackends
  /\ plan = [o \in Plan |-> DeadPlan]
  /\ live = [h \in Handle |-> DeadPlan]
  /\ holds = [o \in Plan |-> {}]

(* The members that init() leaves, with plans f and i and work buffer b.   *)
Members(f, i, b, t) ==
  [forward |-> f, inverse |-> i, buffer |-> b, asymmetric |-> Asymmetric(t), is_valid_ |-> TRUE]

-----------------------------------------------------------------------------
(* Mutant: a work buffer is allocated but not noted.                       *)
CreateForgetsBuffer(o, t) ==
  /\ ~ PlanAlive(o)
  /\ \E f, b \in {h \in Handle : live[h] = DeadPlan} :
       /\ f # b
       /\ live' = [live EXCEPT ![f] = "both", ![b] = "buffer"]
       /\ plan' = [plan EXCEPT ![o] = [forward |-> f, inverse |-> None,
                                       asymmetric |-> Asymmetric(t), is_valid_ |-> TRUE]]
       /\ holds' = [holds EXCEPT ![o] = {f, b}]
  /\ UNCHANGED backend

(* The constructors: init() makes a forward plan, which serves both        *)
(* directions when it is the only one, perhaps an inverse plan, and on HIP *)
(* a work buffer if the library asks for one.                              *)
Create(o, t) ==
  /\ ~ PlanAlive(o)
  /\ \E f, i, b \in {h \in Handle : live[h] = DeadPlan} \cup {None} :
       /\ f # None /\ f \notin {i, b} /\ (i = b => i = None)
       /\ i # None <=> SeparateInverse(t)
       /\ b # None => backend = "hip"
       /\ live' = [h \in Handle |->
                     CASE h = f -> IF i = None THEN "both" ELSE "forward"
                       [] h = i -> "inverse"
                       [] h = b -> "buffer"
                       [] OTHER -> live[h]]
       /\ plan' = [plan EXCEPT ![o] = Members(f, i, b, t)]
       /\ holds' = [holds EXCEPT ![o] = {f, i, b} \ {None}]
  /\ UNCHANGED backend

(* What a move leaves of its source: the members are copied by hand and    *)
(* the source is marked, or they are null afterwards.                      *)
MovedFrom(p) ==
  IF backend \in {"cuda", "hip"} THEN [p EXCEPT !.is_valid_ = FALSE]
                                 ELSE [p EXCEPT !.forward = None, !.inverse = None]

HoldsMoved(o, s) == holds' = [holds EXCEPT ![o] = holds[s], ![s] = {}]

(* The application moves from objects that hold a plan. *)
Movable(s) == PlanAlive(s) /\ (FromMoved \/ holds[s] # {})

(* Mutant: the source does not notice that it was moved from.              *)
MoveConstructShares(o, s) ==
  /\ ~ PlanAlive(o) /\ Movable(s)
  /\ plan' = [plan EXCEPT ![o] = [plan[s] EXCEPT !.is_valid_ = TRUE]]
  /\ HoldsMoved(o, s)
  /\ UNCHANGED <<backend, live>>

(* FFTPlanMany o(std::move(s)): on CUDA and HIP the new object is valid,   *)
(* whatever s was.                                                         *)
MoveConstructPlan(o, s) ==
  /\ ~ PlanAlive(o) /\ Movable(s)
  /\ plan' = [plan EXCEPT ![o] = [plan[s] EXCEPT !.is_valid_ = TRUE], ![s] = MovedFrom(@)]
  /\ HoldsMoved(o, s)
  /\ UNCHANGED <<backend, live>>

(* Mutant: the mark is exchanged like the other members.                   *)
MoveAssignSwaps(o, s) ==
  /\ o # s /\ PlanAlive(o) /\ Movable(s)
  /\ plan' = [plan EXCEPT ![o] = plan[s], ![s] = plan[o]]
  /\ HoldsMoved(o, s)
  /\ UNCHANGED <<backend, live>>

(* o = std::move(s), of two objects: by hand, the plans that o had are     *)
(* overwritten and not destroyed; HIP makes o valid, CUDA leaves the mark  *)
(* of o as it was.  The SYCL backends destroy the old plans.               *)
MoveAssignPlan(o, s) ==
  /\ o # s /\ PlanAlive(o) /\ Movable(s)
  /\ plan' = [plan EXCEPT
       ![o] = [plan[s] EXCEPT !.is_valid_ = IF backend = "cuda" THEN plan[o].is_valid_ ELSE TRUE],
       ![s] = MovedFrom(@)]
  /\ live' = IF backend \in {"cuda", "hip"} THEN live
             ELSE [h \in Handle |-> IF h \in Destroyed(plan[o]) THEN DeadPlan ELSE live[h]]
  /\ HoldsMoved(o, s)
  /\ UNCHANGED backend

DestroyPlan(o) ==
  /\ PlanAlive(o)
  /\ live' = [h \in Handle |-> IF h \in Destroyed(plan[o]) THEN DeadPlan ELSE live[h]]
  /\ plan' = [plan EXCEPT ![o] = DeadPlan]
  /\ holds' = [holds EXCEPT ![o] = {}]
  /\ UNCHANGED backend

PlansNext ==
  \/ \E o \in Plan : DestroyPlan(o) \/ \E t \in Transform : Create(o, t)
  \/ \E o, s \in Plan : MoveConstructPlan(o, s) \/ MoveAssignPlan(o, s)

PlansSpec == PlansInit /\ [][PlansNext]_plansVars

-----------------------------------------------------------------------------
(* Properties *)

(* Objects and handles have their declared ranges. *)
PlansTypeOK ==
  /\ backend \in PlanBackends
  /\ plan \in [Plan -> PlanObjects \cup {DeadPlan}]
  /\ live \in [Handle -> PlanResources \cup {DeadPlan}]
  /\ holds \in [Plan -> SUBSET Handle]

(* "custom move to avoid double destroy in moved-from object" (cuda.h:155, *)
(* hip.h:132): what the destructor of an object would give back is live,   *)
(* and no other object's destructor would give it back too.                *)
SolePlanOwner ==
  \A o \in Plan : PlanAlive(o) =>
    /\ \A h \in Destroyed(plan[o]) : live[h] # DeadPlan
    /\ \A s \in Plan \ {o} : PlanAlive(s) => Destroyed(plan[o]) \cap Destroyed(plan[s]) = {}

(* A call that does not throw executes a plan of the library that is live, *)
(* that was made for what the object now holds, and for the direction      *)
(* called: through all moves the parts of a plan stay together.            *)
ExecutesOwnPlan ==
  \A o \in Plan : PlanAlive(o) /\ ~ Throws(o) =>
    /\ plan[o].forward \in holds[o] /\ live[plan[o].forward] \in {"forward", "both"}
    /\ InverseHandle(o) \in holds[o] /\ live[InverseHandle(o)] \in {"inverse", "both"}
    /\ plan[o].buffer # None => plan[o].buffer \in holds[o] /\ live[plan[o].buffer] = "buffer"

(* "original plan is not valid, should throw error"                        *)
(* (tests/test_fft.cxx:588): an object whose plan has moved on throws,     *)
(* also after it was the target of other moves.                            *)
MovedFromThrows ==
  \A o \in Plan : PlanAlive(o) /\ holds[o] = {} => Throws(o)
=============================================================================
