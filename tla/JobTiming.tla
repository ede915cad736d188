----------------------------- MODULE JobTiming -----------------------------
(***************************************************************************)
(* JobPipeline in time. The queue hides a message for its visibility       *)
(* timeout (deploy/main.tf, 960 s unless told otherwise), counted from the *)
(* receive; the worker is killed after its own timeout (900 s), counted    *)
(* from the moment it begins. An invocation that was throttled, and is     *)
(* tried again while its message is still hidden, begins later than the    *)
(* first of the two clocks. Time passes in units of the instance's choice, *)
(* and each timer stops at its bound, beyond which nothing depends on it.  *)
(***************************************************************************)
EXTENDS JobPipeline

CONSTANTS
    LambdaTimeout,     \* how long the worker may run
    VisibilityTimeout  \* how long a received message stays hidden

(* variables.tf: "Must be >= lambda_timeout_seconds". *)
ASSUME TimingAssumption ==
    /\ LambdaTimeout \in Nat \ {0}
    /\ VisibilityTimeout \in Nat
    /\ VisibilityTimeout >= LambdaTimeout

VARIABLES
    age,    \* age[m][a]: time since the a-th receive, at most VisibilityTimeout
    late,   \* late[m][a]: how much later than that its invocation began
    ran,    \* ran[m][a]: how long the invocation has run
    copies  \* copies[m]: the deliveries SQS made of a message it was hiding

timers == <<age, late, ran, copies>>

timedVars == <<vars, timers>>

AllZero == [m \in Messages |-> [a \in Deliveries |-> 0]]

TimedInit ==
    /\ Init
    /\ age = AllZero /\ late = AllZero /\ ran = AllZero
    /\ copies = [m \in Messages |-> {}]

(* The timers of a new delivery are at zero: its visibility timeout runs   *)
(* from here, whether an invocation begins or is throttled.                *)
Received(m) == (Deliver(m) \/ Throttle(m)) /\ UNCHANGED timers

ReceivedCopy(m) ==
    /\ DeliverCopy(m)
    /\ copies' = [copies EXCEPT ![m] = @ \union {received[m] + 1}]
    /\ UNCHANGED <<age, late, ran>>

(* The event source gives a throttled message up with its visibility.      *)
RetryWhileHidden(m, a) ==
    /\ age[m][a] < VisibilityTimeout
    /\ Retry(m, a)
    /\ late' = [late EXCEPT ![m][a] = age[m][a]]
    /\ UNCHANGED <<age, ran, copies>>

(* Mutant: the message stays hidden for no longer than the worker may run. *)
ReappearTooSoon(m) ==
    /\ Reappear(m)
    /\ age[m][received[m]] >= LambdaTimeout
    /\ UNCHANGED timers

(* Mutant: a receive does not restart the visibility timeout. *)
ReappearByFirst(m) ==
    /\ Reappear(m)
    /\ age[m][1] >= VisibilityTimeout
    /\ UNCHANGED timers

(* The visibility timeout of the latest receive has run out. *)
ReappearInTime(m) ==
    /\ Reappear(m)
    /\ age[m][received[m]] >= VisibilityTimeout
    /\ UNCHANGED timers

(* All else takes no time that matters, or as much as Tick gives it. *)
Otherwise ==
    /\ \/ \E m \in Messages : (\E b \in Bodies : Publish(m, b)) \/ Park(m)
       \/ \E m \in Messages, a \in Deliveries : Execute(m, a) \/ Ack(m, a) \/ Die(m, a)
    /\ UNCHANGED timers

Older(t) == IF t < VisibilityTimeout THEN t + 1 ELSE t

(* Time passes, but not for an invocation that has run its time: Lambda    *)
(* kills it, which is its Die, unless it ends by itself.                   *)
Tick ==
    /\ \A m \in Messages : \A a \in Running(m) : ran[m][a] < LambdaTimeout
    /\ age' = [m \in Messages |-> [a \in Deliveries |->
                 IF a <= received[m] THEN Older(age[m][a]) ELSE age[m][a]]]
    /\ ran' = [m \in Messages |-> [a \in Deliveries |->
                 IF a \in Running(m) THEN ran[m][a] + 1 ELSE 0]]
    /\ UNCHANGED <<vars, late, copies>>

TimedNext ==
    \/ \E m \in Messages : Received(m) \/ ReceivedCopy(m) \/ ReappearInTime(m)
    \/ \E m \in Messages, a \in Deliveries : RetryWhileHidden(m, a)
    \/ Otherwise
    \/ Tick

TimedSpec == TimedInit /\ [][TimedNext]_timedVars

-----------------------------------------------------------------------------
(* Properties. *)

(* What the visibility timeout leaves over when the worker's is taken off. *)
Slack == VisibilityTimeout - LambdaTimeout

BeganLate(m, a) == late[m][a] >= Slack

(* A message is run by two invocations at once only if the later one is of *)
(* a copy SQS delivered while hiding it, or the earlier one was throttled  *)
(* and retried too late to end within the visibility timeout: 60 s after   *)
(* the receive, as deployed.                                               *)
AloneUnlessLate ==
    \A m \in Messages : \A a, b \in Running(m) :
        a < b => b \in copies[m] \/ BeganLate(m, a)

(* Nor does SQS make a message visible again, or park it, with an          *)
(* invocation still at work on it, copies or not, unless that one began so *)
(* late: what is on the dead-letter queue is else no longer being posted   *)
(* and billed.                                                             *)
HeldUnlessLate ==
    \A m \in Messages : queue[m] \in {"visible", "parked"} =>
        \A a \in Running(m) : BeganLate(m, a)

=============================================================================
