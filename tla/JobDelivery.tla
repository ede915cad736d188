---------------------------- MODULE JobDelivery ----------------------------
(***************************************************************************)
(* What the jobs queue and its worker promise, with no queue and no worker *)
(* in sight: a published bundle of jobs is either completed, which takes   *)
(* every job of it to have landed, or parked after MaxReceive deliveries,  *)
(* and one of the two happens.                                             *)
(***************************************************************************)
EXTENDS Naturals

CONSTANTS
    Messages,   \* the bundles that may be published
    Works,      \* what a bundle may consist of: sets of job positions
    MaxReceive  \* deliveries before a bundle is parked

VARIABLES
    phase,      \* phase[m]: "absent", "pending", "done" or "parked"
    work,       \* work[m]: the jobs of the bundle
    landed,     \* landed[m]: the jobs that landed, in any delivery
    tries       \* tries[m]: deliveries so far

vars == <<phase, work, landed, tries>>

(* The one job of a body that is no list of jobs: it never lands. *)
NoJob == 0

Init ==
    /\ phase = [m \in Messages |-> "absent"]
    /\ work = [m \in Messages |-> {}]
    /\ landed = [m \in Messages |-> {}]
    /\ tries = [m \in Messages |-> 0]

Accept(m) ==
    /\ phase[m] = "absent"
    /\ phase' = [phase EXCEPT ![m] = "pending"]
    /\ \E w \in Works : work' = [work EXCEPT ![m] = w]
    /\ UNCHANGED <<landed, tries>>

Try(m) ==
    /\ phase[m] = "pending"
    /\ tries[m] < MaxReceive
    /\ tries' = [tries EXCEPT ![m] = @ + 1]
    /\ UNCHANGED <<phase, work, landed>>

(* A job lands. A delivery already under way may outlive its bundle. *)
Land(m) ==
    /\ tries[m] > 0
    /\ \E j \in work[m] \ {NoJob} :
          landed' = [landed EXCEPT ![m] = @ \union {j}]
    /\ UNCHANGED <<phase, work, tries>>

Complete(m) ==
    /\ phase[m] = "pending"
    /\ tries[m] > 0
    /\ work[m] = landed[m]
    /\ phase' = [phase EXCEPT ![m] = "done"]
    /\ UNCHANGED <<work, landed, tries>>

Park(m) ==
    /\ phase[m] = "pending"
    /\ tries[m] = MaxReceive
    /\ phase' = [phase EXCEPT ![m] = "parked"]
    /\ UNCHANGED <<work, landed, tries>>

Next ==
    \E m \in Messages : Accept(m) \/ Try(m) \/ Land(m) \/ Complete(m) \/ Park(m)

Spec == Init /\ [][Next]_vars

(* A pending bundle is tried until it completes or is parked. *)
FairSpec == Spec /\ \A m \in Messages : WF_vars(Try(m) \/ Complete(m) \/ Park(m))

=============================================================================
