------------------------- MODULE JobContractProofs -------------------------
(***************************************************************************)
(* More theorems of the pipeline: in time, what it takes for two           *)
(* invocations to work on a message at once; it implements JobDelivery,    *)
(* step by step; and no step can be repeated for ever.                     *)
(***************************************************************************)
EXTENDS JobPipelineProofs, JobTiming

TimersOK ==
    /\ age \in [Messages -> [Deliveries -> 0 .. VisibilityTimeout]]
    /\ late \in [Messages -> [Deliveries -> 0 .. VisibilityTimeout]]
    /\ ran \in [Messages -> [Deliveries -> 0 .. LambdaTimeout]]
    /\ copies \in [Messages -> SUBSET Deliveries]

(* A delivery that has not happened has no age, and its timers are at zero;*)
(* one whose invocation has not begun has not run.                         *)
AtZero ==
    \A m \in Messages, a \in Deliveries :
        /\ a > received[m] => age[m][a] = 0 /\ late[m][a] = 0 /\ ran[m][a] = 0
        /\ inv[m][a].pc = "throttled" => ran[m][a] = 0

(* A delivery is as old as its invocation began late and has run since; a  *)
(* timer that has stopped has no less to show.                             *)
Clocked ==
    \A m \in Messages, a \in Deliveries : inv[m][a].pc \in Executing =>
        \/ age[m][a] = late[m][a] + ran[m][a]
        \/ age[m][a] = VisibilityTimeout /\ late[m][a] + ran[m][a] >= VisibilityTimeout

(* A later delivery is no older, and but for copies it was made when the   *)
(* visibility timeout of every earlier one had run out.                    *)
Spaced ==
    \A m \in Messages, a, b \in Deliveries : a < b /\ b <= received[m] =>
        /\ age[m][b] <= age[m][a]
        /\ b \notin copies[m] => age[m][a] = VisibilityTimeout

(* A message that is shown again was last received that long ago. *)
Shown ==
    \A m \in Messages : queue[m] \in {"visible", "parked"} /\ received[m] > 0 =>
        age[m][received[m]] = VisibilityTimeout

TInv == TimersOK /\ AtZero /\ Clocked /\ Spaced /\ Shown

(* Every step in time is a step of the pipeline, or leaves it alone. *)
LEMMA TimedStep == [TimedNext]_timedVars => [Next]_vars
  BY DEF TimedNext, timedVars, Received, ReceivedCopy, RetryWhileHidden, ReappearInTime,
         Otherwise, Tick, Next, Serve

LEMMA TimedTyping == TimedSpec => []Typing
  <1>1. TimedInit => Typing
    BY InitTyping DEF TimedInit
  <1>2. Typing /\ [TimedNext]_timedVars => Typing'
    BY TimedStep, NextTyping
  <1> QED
    BY <1>1, <1>2, PTL DEF TimedSpec

LEMMA InitTimed == TimedInit => TInv
  <1> SUFFICES ASSUME TimedInit PROVE TInv
    OBVIOUS
  <1>0. /\ age = AllZero /\ late = AllZero /\ ran = AllZero
        /\ copies = [m \in Messages |-> {}]
        /\ \A m \in Messages : queue[m] = "unsent" /\ received[m] = 0
        /\ \A m \in Messages, a \in Deliveries : inv[m][a].pc = "none"
    BY DEF TimedInit, Init, Idle
  <1>1. TimersOK
    <2>1. 0 \in 0 .. VisibilityTimeout /\ 0 \in 0 .. LambdaTimeout
      BY TimingAssumption
    <2> QED
      BY <1>0, <2>1 DEF TimersOK, AllZero
  <1>2. AtZero
    BY <1>0 DEF AtZero, AllZero
  <1>3. Clocked /\ Shown
    BY <1>0 DEF Clocked, Shown, Executing
  <1>4. Spaced
    <2>1. \A b \in Deliveries : ~ (b <= 0)
      BY QueueAssumption DEF Deliveries
    <2> QED
      BY <1>0, <2>1 DEF Spaced
  <1> QED
    BY <1>1, <1>2, <1>3, <1>4 DEF TInv

(* What does not move the timers, receives nothing and begins nothing.     *)
LEMMA FrameTimed ==
    ASSUME Typing, Typing', TInv, UNCHANGED <<timers, received>>,
           \A m \in Messages, a \in Deliveries :
              /\ inv'[m][a].pc \in Executing => inv[m][a].pc \in Executing
              /\ inv'[m][a].pc = "throttled" => inv[m][a].pc = "throttled",
           \A m \in Messages : queue'[m] \in {"visible", "parked"} =>
              \/ queue[m] \in {"visible", "parked"} \/ received[m] = 0
              \/ age[m][received[m]] = VisibilityTimeout
    PROVE  TInv'
  <1>0. UNCHANGED <<age, late, ran, copies, received>>
    BY DEF timers
  <1>1. TimersOK' /\ AtZero' /\ Clocked' /\ Spaced'
    BY <1>0 DEF TInv, TimersOK, AtZero, Clocked, Spaced
  <1>2. Shown'
    <2>1. \A m \in Messages : received[m] \in Nat
      BY QueueAssumption DEF Typing, TypeOK
    <2> QED
      BY <1>0, <2>1 DEF TInv, Shown
  <1> QED
    BY <1>1, <1>2 DEF TInv

(* A message that is visible has only deliveries whose time is over. *)
LEMMA AllExpired ==
    ASSUME Typing, TInv, NEW m \in Messages, queue[m] \in {"visible", "parked"},
           NEW a \in Deliveries, a <= received[m]
    PROVE  age[m][a] = VisibilityTimeout
  <1>1. a \in Nat \ {0} /\ received[m] \in 0 .. MaxReceive /\ MaxReceive \in Nat
    BY QueueAssumption DEF Typing, TypeOK, Deliveries
  <1>2. age[m][received[m]] = VisibilityTimeout /\ received[m] \in Deliveries
    BY <1>1 DEF TInv, Shown, Deliveries
  <1>3. CASE a = received[m]
    BY <1>2, <1>3
  <1>4. CASE a < received[m]
    <2>1. age[m][received[m]] <= age[m][a]
      BY <1>1, <1>2, <1>4 DEF TInv, Spaced
    <2>2. age[m][a] \in 0 .. VisibilityTimeout
      BY DEF TInv, TimersOK
    <2> QED
      BY <1>2, <2>1, <2>2, TimingAssumption
  <1> QED
    BY <1>1, <1>3, <1>4

(* A receive: the new delivery is the youngest, and its timers are at zero.*)
LEMMA ReceiveTimed ==
    ASSUME Typing, Typing', TInv, NEW m \in Messages, NEW pc \in {"invoked", "throttled"},
           Receive(m, pc), UNCHANGED <<age, late, ran>>,
           \/ queue[m] = "visible" /\ UNCHANGED copies
           \/ copies' = [copies EXCEPT ![m] = @ \union {received[m] + 1}]
    PROVE  TInv'
  <1> DEFINE n == received[m] + 1
             r == [Idle EXCEPT !.pc = pc]
  <1>1. /\ received[m] \in 0 .. MaxReceive /\ MaxReceive \in Nat /\ received[m] < MaxReceive
        /\ n \in Deliveries /\ n > received[m]
    BY QueueAssumption DEF Typing, TypeOK, Receive, Deliveries
  <1>2. /\ inv' = [inv EXCEPT ![m][n] = r]
        /\ received' = [received EXCEPT ![m] = n]
        /\ queue' = [queue EXCEPT ![m] = "hidden"]
    BY DEF Receive
  <1>3. r.pc = pc
    BY DEF Idle
  <1>4. age[m][n] = 0 /\ late[m][n] = 0 /\ ran[m][n] = 0
    BY <1>1 DEF TInv, AtZero
  <1>00. /\ queue \in [Messages -> QueueStates]
         /\ inv \in [Messages -> [Deliveries -> Invocation]]
         /\ received \in [Messages -> 0 .. MaxReceive]
         /\ copies \in [Messages -> SUBSET Deliveries]
         /\ age \in [Messages -> [Deliveries -> 0 .. VisibilityTimeout]]
    BY DEF Typing, TypeOK, TInv, TimersOK
  <1> HIDE DEF r
  <1>5. inv'[m][n] = r /\ \A k \in Messages, a \in Deliveries : k # m \/ a # n => inv'[k][a] = inv[k][a]
    BY <1>00, <1>1, <1>2
  <1>6. /\ received'[m] = n /\ queue'[m] = "hidden"
        /\ \A k \in Messages : k # m => received'[k] = received[k] /\ queue'[k] = queue[k]
    BY <1>00, <1>2
  <1>7. /\ copies' \in [Messages -> SUBSET Deliveries]
        /\ \A k \in Messages : k # m => copies'[k] = copies[k]
        /\ copies'[m] \subseteq copies[m] \union {n}
        /\ copies[m] \subseteq copies'[m]
        /\ n \notin copies'[m] => queue[m] = "visible"
    BY <1>00, <1>1
  <1> HIDE DEF n
  <1>8. TimersOK'
    BY <1>7 DEF TInv, TimersOK
  <1>9. AtZero'
    <2> SUFFICES ASSUME NEW k \in Messages, NEW a \in Deliveries
                 PROVE  /\ a > received'[k] => age[k][a] = 0 /\ late[k][a] = 0 /\ ran[k][a] = 0
                        /\ inv'[k][a].pc = "throttled" => ran[k][a] = 0
      BY DEF AtZero
    <2>1. a > received'[k] => a > received[k]
      <3>1. CASE k = m
        BY <1>1, <1>6, <3>1 DEF Deliveries, n
      <3> QED
        BY <1>6, <3>1
    <2> QED
      BY <1>4, <1>5, <2>1 DEF TInv, AtZero
  <1>10. Clocked'
    <2> SUFFICES ASSUME NEW k \in Messages, NEW a \in Deliveries, inv'[k][a].pc \in Executing
                 PROVE  \/ age[k][a] = late[k][a] + ran[k][a]
                        \/ /\ age[k][a] = VisibilityTimeout
                           /\ late[k][a] + ran[k][a] >= VisibilityTimeout
      BY DEF Clocked
    <2>1. CASE k = m /\ a = n
      BY <1>4, <2>1
    <2>2. CASE ~ (k = m /\ a = n)
      BY <1>5, <2>2 DEF TInv, Clocked
    <2> QED
      BY <2>1, <2>2
  <1>11. Spaced'
    <2> SUFFICES ASSUME NEW k \in Messages, NEW a \in Deliveries, NEW b \in Deliveries,
                        a < b, b <= received'[k]
                 PROVE  /\ age[k][b] <= age[k][a]
                        /\ b \notin copies'[k] => age[k][a] = VisibilityTimeout
      BY DEF Spaced
    <2>1. CASE k # m
      BY <1>6, <1>7, <2>1 DEF TInv, Spaced
    <2>2. CASE k = m /\ b # n
      <3>1. b <= received[m]
        BY <1>1, <1>6, <2>2 DEF Deliveries, n
      <3> QED
        BY <1>7, <2>2, <3>1 DEF TInv, Spaced
    <2>3. CASE k = m /\ b = n
      <3>1. a <= received[m]
        BY <1>1, <2>3 DEF Deliveries, n
      <3>2. age[m][a] \in 0 .. VisibilityTimeout
        BY <1>00
      <3>3. age[m][b] <= age[m][a]
        BY <1>4, <2>3, <3>2, TimingAssumption
      <3>4. b \notin copies'[m] => age[m][a] = VisibilityTimeout
        BY <1>7, <2>3, <3>1, AllExpired
      <3> QED
        BY <2>3, <3>3, <3>4
    <2> QED
      BY <2>1, <2>2, <2>3
  <1>12. Shown'
    BY <1>6 DEF TInv, Shown
  <1> QED
    BY <1>8, <1>9, <1>10, <1>11, <1>12 DEF TInv

(* Only a receive or a retry begins an invocation. *)
LEMMA StepEnds ==
    ASSUME Typing, NEW m \in Messages, NEW a \in Deliveries,
           Execute(m, a) \/ Ack(m, a) \/ Die(m, a)
    PROVE  /\ inv'[m][a].pc \in Executing => inv[m][a].pc \in Executing
           /\ inv'[m][a].pc # "throttled"
  <1> DEFINE i == inv[m][a]
  <1>1. i \in Invocation /\ inv \in [Messages -> [Deliveries -> Invocation]]
    BY DEF Typing, TypeOK
  <1>3. ASSUME NEW p, Goto(m, a, p) PROVE inv'[m][a].pc = p
    <2>1. inv'[m][a] = [i EXCEPT !.pc = p]
      BY <1>1, <1>3 DEF Goto
    <2> QED
      BY <1>1, <2>1 DEF Invocation
  <1>4. CASE Ack(m, a)
    <2>1. inv'[m][a].pc = "acked"
      BY <1>3, <1>4 DEF Ack, Goto
    <2> QED
      BY <2>1 DEF Executing
  <1>5. CASE Begin(m, a) \/ LeaveLoop(m, a) \/ Return(m, a) \/ Die(m, a)
    <2>1. i.pc \in Executing /\ \E p \in Points \ {"throttled"} : Goto(m, a, p)
      BY <1>5 DEF Begin, LeaveLoop, AtJob, Return, Die, Goto, Points, Executing
    <2> QED
      BY <1>3, <2>1
  <1>6. CASE NoPostback(m, a) \/ NothingToPost(m, a) \/ RefuseSlot(m, a)
    <2>1. i.pc \in Executing /\ \E result : Conclude(m, a, result)
      BY <1>6 DEF NoPostback, NothingToPost, RefuseSlot, AtJob, Executing
    <2>2. PICK result : inv' = [inv EXCEPT ![m][a] = [@ EXCEPT !.pc = "report", !.result = result]]
      BY <2>1 DEF Conclude
    <2>3. inv'[m][a] = [i EXCEPT !.pc = "report", !.result = result]
      BY <1>1, <2>2
    <2>4. inv'[m][a].pc = "report"
      BY <1>1, <2>3 DEF Invocation
    <2> QED
      BY <2>1, <2>4
  <1>7. CASE Compute(m, a)
    <2>1. i.pc = "next" /\ inv'[m][a] = [i EXCEPT !.pc = "posting", !.out = 1, !.result = {}]
      BY <1>1, <1>7 DEF Compute, AtJob
    <2>2. inv'[m][a].pc = "posting"
      BY <1>1, <2>1 DEF Invocation
    <2> QED
      BY <2>1, <2>2 DEF Executing
  <1>8. ASSUME NEW answer \in PostAnswers, PostOutput(m, a, answer)
        PROVE  i.pc \in Executing /\ inv'[m][a].pc # "throttled"
    <2>1. i.pc = "posting" /\ inv'[m][a] = AfterPost(i, JobIn(m, a), answer)
      BY <1>1, <1>8 DEF PostOutput
    <2>2. AfterPost(i, JobIn(m, a), answer).pc \in {"report", "posting"}
      BY <1>1, <2>1 DEF AfterPost, Invocation
    <2> QED
      BY <2>1, <2>2 DEF Executing
  <1>9. CASE Report(m, a)
    <2>1. i.pc = "report" /\ inv'[m][a] = AfterReport(i)
      BY <1>1, <1>9 DEF Report
    <2>2. AfterReport(i).pc = "next"
      BY <1>1 DEF AfterReport, Invocation
    <2> QED
      BY <2>1, <2>2 DEF Executing
  <1> QED
    BY <1>4, <1>5, <1>6, <1>7, <1>8, <1>9 DEF Execute

(* A throttled invocation begins: as late as its message is old. *)
LEMMA RetryTimed ==
    ASSUME Typing, Typing', TInv, NEW m \in Messages, NEW c \in Deliveries, RetryWhileHidden(m, c)
    PROVE  TInv'
  <1>1. /\ inv[m][c].pc = "throttled"
        /\ inv' = [inv EXCEPT ![m][c].pc = "invoked"]
        /\ late' = [late EXCEPT ![m][c] = age[m][c]]
        /\ UNCHANGED <<queue, received, age, ran, copies>>
    BY DEF RetryWhileHidden, Retry
  <1>2. /\ inv \in [Messages -> [Deliveries -> Invocation]]
        /\ late \in [Messages -> [Deliveries -> 0 .. VisibilityTimeout]]
        /\ age \in [Messages -> [Deliveries -> 0 .. VisibilityTimeout]]
    BY DEF Typing, TypeOK, TInv, TimersOK
  <1>3. /\ inv'[m][c].pc = "invoked"
        /\ \A k \in Messages, a \in Deliveries : k # m \/ a # c =>
              inv'[k][a] = inv[k][a] /\ late'[k][a] = late[k][a]
        /\ late'[m][c] = age[m][c]
        /\ late' \in [Messages -> [Deliveries -> 0 .. VisibilityTimeout]]
    <2>1. inv'[m][c] = [inv[m][c] EXCEPT !.pc = "invoked"]
      BY <1>1, <1>2
    <2>2. inv'[m][c].pc = "invoked"
      BY <1>2, <2>1 DEF Invocation
    <2> QED
      BY <1>1, <1>2, <2>2
  <1>4. ran[m][c] = 0 /\ ~ (c > received[m])
    BY <1>1 DEF TInv, AtZero, Typing, Undelivered, Idle
  <1>5. TimersOK' /\ Spaced' /\ Shown'
    BY <1>1, <1>3 DEF TInv, TimersOK, Spaced, Shown
  <1>6. AtZero'
    BY <1>1, <1>3, <1>4 DEF TInv, AtZero
  <1>7. Clocked'
    <2> SUFFICES ASSUME NEW k \in Messages, NEW a \in Deliveries, inv'[k][a].pc \in Executing
                 PROVE  \/ age[k][a] = late'[k][a] + ran[k][a]
                        \/ /\ age[k][a] = VisibilityTimeout
                           /\ late'[k][a] + ran[k][a] >= VisibilityTimeout
      BY <1>1 DEF Clocked
    <2>1. CASE k = m /\ a = c
      <3>1. age[m][c] \in Int
        BY <1>2, TimingAssumption
      <3>2. age[m][c] = late'[m][c] + ran[m][c]
        BY <1>3, <1>4, <3>1
      <3> QED
        BY <2>1, <3>2
    <2>2. CASE ~ (k = m /\ a = c)
      BY <1>3, <2>2 DEF TInv, Clocked
    <2> QED
      BY <2>1, <2>2
  <1> QED
    BY <1>5, <1>6, <1>7 DEF TInv

(* Time passes for all alike. *)
LEMMA TickTimed ==
    ASSUME Typing, TInv, Tick
    PROVE  TInv'
  <1>1. UNCHANGED <<queue, received, inv, late, copies>>
    BY DEF Tick, vars
  <1>2. ASSUME NEW m \in Messages, NEW a \in Deliveries
        PROVE  /\ age[m][a] \in 0 .. VisibilityTimeout /\ late[m][a] \in 0 .. VisibilityTimeout
               /\ ran[m][a] \in 0 .. LambdaTimeout
               /\ age'[m][a] = IF a <= received[m] THEN Older(age[m][a]) ELSE age[m][a]
               /\ ran'[m][a] = IF inv[m][a].pc \in Executing THEN ran[m][a] + 1 ELSE 0
               /\ inv[m][a].pc \in Executing => ran[m][a] < LambdaTimeout
               /\ received[m] \in Nat /\ a \in Nat
    BY QueueAssumption DEF Tick, Running, TInv, TimersOK, Typing, TypeOK, Deliveries
  <1>3. \A t \in 0 .. VisibilityTimeout :
           /\ Older(t) \in 0 .. VisibilityTimeout
           /\ t < VisibilityTimeout => Older(t) = t + 1
           /\ t = VisibilityTimeout => Older(t) = VisibilityTimeout
    BY TimingAssumption DEF Older
  <1>4. \A s, t \in 0 .. VisibilityTimeout : s <= t => Older(s) <= Older(t)
    BY TimingAssumption DEF Older
  <1>5. TimersOK'
    <2>1. ASSUME NEW m \in Messages, NEW a \in Deliveries
          PROVE  age'[m][a] \in 0 .. VisibilityTimeout /\ ran'[m][a] \in 0 .. LambdaTimeout
      <3>1. age'[m][a] \in 0 .. VisibilityTimeout
        BY <1>2, <1>3
      <3>2. ran'[m][a] \in 0 .. LambdaTimeout
        BY <1>2, TimingAssumption
      <3> QED
        BY <3>1, <3>2
    <2>2. /\ age' = [m \in Messages |-> [a \in Deliveries |-> age'[m][a]]]
          /\ ran' = [m \in Messages |-> [a \in Deliveries |-> ran'[m][a]]]
      BY DEF Tick
    <2>3. age' \in [Messages -> [Deliveries -> 0 .. VisibilityTimeout]]
          /\ ran' \in [Messages -> [Deliveries -> 0 .. LambdaTimeout]]
      BY <2>1, <2>2
    <2> QED
      BY <1>1, <2>3 DEF TInv, TimersOK
  <1>6. AtZero'
    <2> SUFFICES ASSUME NEW m \in Messages, NEW a \in Deliveries
                 PROVE  /\ a > received[m] => age'[m][a] = 0 /\ late[m][a] = 0 /\ ran'[m][a] = 0
                        /\ inv[m][a].pc = "throttled" => ran'[m][a] = 0
      BY <1>1 DEF AtZero
    <2>1. a > received[m] => ~ (a <= received[m]) /\ inv[m][a].pc \notin Executing
      BY <1>2 DEF Typing, Undelivered, Idle, Executing
    <2> QED
      BY <1>2, <2>1 DEF TInv, AtZero, Executing
  <1>7. Clocked'
    <2> SUFFICES ASSUME NEW m \in Messages, NEW a \in Deliveries, inv[m][a].pc \in Executing
                 PROVE  \/ age'[m][a] = late[m][a] + ran'[m][a]
                        \/ /\ age'[m][a] = VisibilityTimeout
                           /\ late[m][a] + ran'[m][a] >= VisibilityTimeout
      BY <1>1 DEF Clocked
    <2>1. a <= received[m]
      BY <1>2 DEF Typing, Undelivered, Idle, Executing
    <2>2. age'[m][a] = Older(age[m][a]) /\ ran'[m][a] = ran[m][a] + 1
      BY <1>2, <2>1
    <2>3. \/ age[m][a] = late[m][a] + ran[m][a]
          \/ age[m][a] = VisibilityTimeout /\ late[m][a] + ran[m][a] >= VisibilityTimeout
      BY DEF TInv, Clocked
    <2> QED
      BY <1>2, <1>3, <2>2, <2>3, TimingAssumption
  <1>8. Spaced'
    <2> SUFFICES ASSUME NEW m \in Messages, NEW a \in Deliveries, NEW b \in Deliveries,
                        a < b, b <= received[m]
                 PROVE  /\ age'[m][b] <= age'[m][a]
                        /\ b \notin copies[m] => age'[m][a] = VisibilityTimeout
      BY <1>1 DEF Spaced
    <2>1. age'[m][a] = Older(age[m][a]) /\ age'[m][b] = Older(age[m][b])
      BY <1>2
    <2> QED
      BY <1>2, <1>3, <1>4, <2>1 DEF TInv, Spaced
  <1>9. Shown'
    <2> SUFFICES ASSUME NEW m \in Messages, queue[m] \in {"visible", "parked"}, received[m] > 0
                 PROVE  age'[m][received[m]] = VisibilityTimeout
      BY <1>1 DEF Shown
    <2>1. received[m] \in Deliveries /\ received[m] <= received[m]
      BY QueueAssumption DEF Typing, TypeOK, Deliveries
    <2>2. age[m][received[m]] = VisibilityTimeout
      BY DEF TInv, Shown
    <2> QED
      BY <1>2, <1>3, <2>1, <2>2
  <1> QED
    BY <1>5, <1>6, <1>7, <1>8, <1>9 DEF TInv

LEMMA NextTimed == Typing /\ Typing' /\ TInv /\ [TimedNext]_timedVars => TInv'
  <1> SUFFICES ASSUME Typing, Typing', TInv, [TimedNext]_timedVars PROVE TInv'
    OBVIOUS
  <1>0. queue \in [Messages -> QueueStates] /\ received \in [Messages -> 0 .. MaxReceive]
    BY DEF Typing, TypeOK
  <1>1. ASSUME NEW m \in Messages, Received(m)
        PROVE  TInv'
    <2>1. /\ queue[m] = "visible" /\ UNCHANGED <<age, late, ran, copies>>
          /\ Receive(m, "invoked") \/ Receive(m, "throttled")
      BY <1>1 DEF Received, Deliver, Throttle, timers
    <2> QED
      BY <2>1, ReceiveTimed
  <1>2. ASSUME NEW m \in Messages, ReceivedCopy(m)
        PROVE  TInv'
    <2>1. /\ copies' = [copies EXCEPT ![m] = @ \union {received[m] + 1}]
          /\ UNCHANGED <<age, late, ran>> /\ Receive(m, "invoked")
      BY <1>2 DEF ReceivedCopy, DeliverCopy
    <2> QED
      BY <2>1, ReceiveTimed
  <1>3. ASSUME NEW m \in Messages, ReappearInTime(m)
        PROVE  TInv'
    <2>1. /\ queue[m] = "hidden" /\ queue' = [queue EXCEPT ![m] = "visible"]
          /\ age[m][received[m]] >= VisibilityTimeout
          /\ UNCHANGED <<timers, received, inv>>
      BY <1>3 DEF ReappearInTime, Reappear
    <2>2. received[m] = 0 \/ age[m][received[m]] = VisibilityTimeout
      <3>1. CASE received[m] # 0
        <4>1. received[m] \in Deliveries
          BY <1>0, <3>1, QueueAssumption DEF Deliveries
        <4>2. age[m][received[m]] \in 0 .. VisibilityTimeout
          BY <4>1 DEF TInv, TimersOK
        <4> QED
          BY <2>1, <4>2, TimingAssumption
      <3> QED
        BY <3>1
    <2>3. \A k \in Messages : k # m => queue'[k] = queue[k]
      BY <1>0, <2>1
    <2> QED
      BY <2>1, <2>2, <2>3, FrameTimed
  <1>4. ASSUME NEW m \in Messages, NEW b \in Bodies, Publish(m, b), UNCHANGED timers
        PROVE  TInv'
    <2>1. /\ queue[m] = "unsent" /\ queue' = [queue EXCEPT ![m] = "visible"]
          /\ UNCHANGED <<timers, received, inv>>
      BY <1>4 DEF Publish
    <2>2. received[m] = 0
      BY <2>1 DEF Typing, Fresh
    <2>3. \A k \in Messages : k # m => queue'[k] = queue[k]
      BY <1>0, <2>1
    <2> QED
      BY <2>1, <2>2, <2>3, FrameTimed
  <1>5. ASSUME NEW m \in Messages, Park(m), UNCHANGED timers
        PROVE  TInv'
    <2>1. /\ queue[m] = "visible" /\ queue' = [queue EXCEPT ![m] = "parked"]
          /\ UNCHANGED <<timers, received, inv>>
      BY <1>5 DEF Park
    <2>2. \A k \in Messages : k # m => queue'[k] = queue[k]
      BY <1>0, <2>1
    <2> QED
      BY <2>1, <2>2, FrameTimed
  <1>6. ASSUME NEW m \in Messages, NEW a \in Deliveries,
               Execute(m, a) \/ Ack(m, a) \/ Die(m, a), UNCHANGED timers
        PROVE  TInv'
    <2>1. PICK r \in Invocation : Moves(m, a, r)
      BY <1>6, ExecuteMoves
    <2>2. received' = received /\ inv'[m][a] = r
          /\ \A k \in Messages, c \in Deliveries : k # m \/ c # a => inv'[k][c] = inv[k][c]
      BY <2>1, MovesFrame DEF Typing, Moves
    <2>3. /\ r.pc \in Executing => inv[m][a].pc \in Executing
          /\ r.pc # "throttled"
      BY <1>6, <2>2, StepEnds
    <2>4. queue' = queue \/ queue' = [queue EXCEPT ![m] = "deleted"]
      BY <1>6, ExecuteEffects
    <2>5. \A k \in Messages : queue'[k] \in {"visible", "parked"} => queue'[k] = queue[k]
      BY <1>0, <2>4
    <2> QED
      BY <1>6, <2>2, <2>3, <2>5, FrameTimed
  <1>7. CASE UNCHANGED timedVars
    <2>1. UNCHANGED <<timers, received, inv, queue>>
      BY <1>7 DEF timedVars, vars
    <2> QED
      BY <2>1, FrameTimed
  <1>8. CASE Otherwise
    BY <1>4, <1>5, <1>6, <1>8 DEF Otherwise
  <1> QED
    BY <1>1, <1>2, <1>3, <1>7, <1>8, RetryTimed, TickTimed DEF TimedNext

LEMMA SpecTimed == TimedSpec => [](Typing /\ TInv)
  BY InitTimed, NextTimed, TimedTyping, PTL DEF TimedSpec

(* What runs when the visibility timeout of its delivery is over began     *)
(* late: the worker's own timeout would have ended it before.              *)
LEMMA ExpiredIsLate ==
    ASSUME Typing, TInv, NEW m \in Messages, NEW a \in Running(m),
           age[m][a] = VisibilityTimeout
    PROVE  BeganLate(m, a)
  <1>1. a \in Deliveries /\ inv[m][a].pc \in Executing
    BY DEF Running
  <1>2. late[m][a] + ran[m][a] >= VisibilityTimeout
    BY <1>1, TimingAssumption DEF TInv, Clocked, TimersOK
  <1>3. late[m][a] \in 0 .. VisibilityTimeout /\ ran[m][a] \in 0 .. LambdaTimeout
    BY <1>1 DEF TInv, TimersOK
  <1> QED
    BY <1>2, <1>3, TimingAssumption DEF BeganLate, Slack

(* A delivery that runs has been received. *)
LEMMA RunningReceived ==
    ASSUME Typing, NEW m \in Messages, NEW a \in Running(m)
    PROVE  a \in Deliveries /\ a <= received[m]
  <1>1. a \in Deliveries /\ inv[m][a].pc \in Executing
    BY DEF Running
  <1>2. ~ (a > received[m])
    BY <1>1 DEF Typing, Undelivered, Idle, Executing
  <1>3. a \in Nat /\ received[m] \in Nat
    BY <1>1, QueueAssumption DEF Typing, TypeOK, Deliveries
  <1> QED
    BY <1>1, <1>2, <1>3

(* For any timeouts, concurrency and number of copies and retries: a       *)
(* message is run twice at once only by a copy, or if the earlier of the   *)
(* two invocations began too late to end before its message reappeared.    *)
THEOREM AloneCorrect == TimedSpec => []AloneUnlessLate
  <1>1. Typing /\ TInv => AloneUnlessLate
    <2> SUFFICES ASSUME Typing, TInv, NEW m \in Messages, NEW a \in Running(m),
                        NEW b \in Running(m), a < b, b \notin copies[m]
                 PROVE  BeganLate(m, a)
      BY DEF AloneUnlessLate
    <2>1. a \in Deliveries /\ b \in Deliveries /\ b <= received[m]
      BY RunningReceived
    <2>2. age[m][a] = VisibilityTimeout
      BY <2>1 DEF TInv, Spaced
    <2> QED
      BY <2>2, ExpiredIsLate
  <1> QED
    BY <1>1, SpecTimed, PTL

(* ... and SQS shows or parks a message with an invocation at work on it   *)
(* only if that one began so late, copies or not.                          *)
THEOREM HeldCorrect == TimedSpec => []HeldUnlessLate
  <1>1. Typing /\ TInv => HeldUnlessLate
    <2> SUFFICES ASSUME Typing, TInv, NEW m \in Messages, queue[m] \in {"visible", "parked"},
                        NEW a \in Running(m)
                 PROVE  BeganLate(m, a)
      BY DEF HeldUnlessLate
    <2>1. age[m][a] = VisibilityTimeout
      BY RunningReceived, AllExpired
    <2> QED
      BY <2>1, ExpiredIsLate
  <1> QED
    BY <1>1, SpecTimed, PTL

(* The pipeline in time is the pipeline: what holds of every behaviour of  *)
(* JobPipeline holds of it under the deployed timeouts, whatever they are. *)
THEOREM TimedIsPipeline == TimedSpec => Spec
  <1>1. TimedInit => Init
    BY DEF TimedInit
  <1> QED
    BY <1>1, TimedStep, PTL DEF TimedSpec, Spec

-----------------------------------------------------------------------------
(***************************************************************************)
(* The refinement. A step of the pipeline is described by what it does to  *)
(* the abstract state of the one message it is about: its phase, its work, *)
(* the jobs that have landed and its deliveries.                           *)
(***************************************************************************)
WorkOf(m) == IF queue[m] = "unsent" THEN {} ELSE Work(body[m])
LandedOf(m) == UNION {Landed(m, a) : a \in Deliveries}

(* The abstract state of message m does not change. *)
Still(m) ==
    /\ Phase(m)' = Phase(m) /\ WorkOf(m)' = WorkOf(m)
    /\ LandedOf(m)' = LandedOf(m) /\ received'[m] = received[m]

(* What Contract's variables are, in these words. *)
LEMMA ContractState ==
    /\ Contract!Init <=>
          /\ [m \in Messages |-> Phase(m)] = [m \in Messages |-> "absent"]
          /\ [m \in Messages |-> WorkOf(m)] = [m \in Messages |-> {}]
          /\ [m \in Messages |-> LandedOf(m)] = [m \in Messages |-> {}]
          /\ received = [m \in Messages |-> 0]
    /\ UNCHANGED Contract!vars <=>
          /\ [m \in Messages |-> Phase(m)]' = [m \in Messages |-> Phase(m)]
          /\ [m \in Messages |-> WorkOf(m)]' = [m \in Messages |-> WorkOf(m)]
          /\ [m \in Messages |-> LandedOf(m)]' = [m \in Messages |-> LandedOf(m)]
          /\ received' = received
  BY DEF Contract!Init, Contract!vars, WorkOf, LandedOf

(* Nothing changes for any message. *)
LEMMA StutterStep ==
    ASSUME TypeOK, TypeOK', \A m \in Messages : Still(m)
    PROVE  UNCHANGED Contract!vars
  <1>1. received' = received
    BY DEF TypeOK, Still
  <1> QED
    BY <1>1, ContractState DEF Still

LEMMA InitContract == Init => Contract!Init
  <1> SUFFICES ASSUME Init PROVE Contract!Init
    OBVIOUS
  <1>1. \A m \in Messages : Phase(m) = "absent" /\ WorkOf(m) = {}
    BY DEF Init, Phase, WorkOf
  <1>2. ASSUME NEW m \in Messages PROVE LandedOf(m) = {}
    <2>1. \A a \in Deliveries : Landed(m, a) = {}
      BY QueueAssumption DEF Init, Landed, Idle
    <2> QED
      BY <2>1 DEF LandedOf
  <1> QED
    BY <1>1, <1>2, ContractState DEF Init

(* A step that changes the abstract state of no message but m. *)
About(m) == \A k \in Messages : k # m => Still(k)

(* JobDelivery's variables as JobPipeline's state maps to them. *)
PhaseMap == [m \in Messages |-> Phase(m)]
WorkMap == [m \in Messages |-> WorkOf(m)]
LandedMap == [m \in Messages |-> LandedOf(m)]

(* A function changed at one point only is an EXCEPT of the old one. *)
LEMMA OnePoint ==
    ASSUME NEW S, NEW f, NEW g, NEW x \in S,
           f = [y \in S |-> f[y]], g = [y \in S |-> g[y]],
           \A y \in S : y # x => g[y] = f[y]
    PROVE  g = [f EXCEPT ![x] = g[x]] /\ (g[x] = f[x] => g = f)
  <1>1. \A y \in S : g[y] = [f EXCEPT ![x] = g[x]][y]
    OBVIOUS
  <1>2. [f EXCEPT ![x] = g[x]] = [y \in S |-> [f EXCEPT ![x] = g[x]][y]]
    OBVIOUS
  <1>3. g = [f EXCEPT ![x] = g[x]]
    BY <1>1, <1>2
  <1>4. g[x] = f[x] => \A y \in S : g[y] = f[y]
    OBVIOUS
  <1> QED
    BY <1>3, <1>4

(* ... so with each of the four variables in a step about m. *)
LEMMA MovedMaps ==
    ASSUME NEW m \in Messages, TypeOK, TypeOK', About(m)
    PROVE  /\ PhaseMap[m] = Phase(m) /\ WorkMap[m] = WorkOf(m) /\ LandedMap[m] = LandedOf(m)
           /\ PhaseMap' = [PhaseMap EXCEPT ![m] = Phase(m)']
           /\ WorkMap' = [WorkMap EXCEPT ![m] = WorkOf(m)']
           /\ LandedMap' = [LandedMap EXCEPT ![m] = LandedOf(m)']
           /\ received' = [received EXCEPT ![m] = received'[m]]
           /\ Phase(m)' = Phase(m) => PhaseMap' = PhaseMap
           /\ WorkOf(m)' = WorkOf(m) => WorkMap' = WorkMap
           /\ LandedOf(m)' = LandedOf(m) => LandedMap' = LandedMap
           /\ received'[m] = received[m] => received' = received
  <1>1. \A k \in Messages : k # m =>
           /\ Phase(k)' = Phase(k) /\ WorkOf(k)' = WorkOf(k)
           /\ LandedOf(k)' = LandedOf(k) /\ received'[k] = received[k]
    BY DEF About, Still
  <1>2. /\ PhaseMap = [k \in Messages |-> PhaseMap[k]]
        /\ PhaseMap' = [k \in Messages |-> PhaseMap'[k]]
        /\ \A k \in Messages : PhaseMap[k] = Phase(k) /\ PhaseMap'[k] = Phase(k)'
    BY DEF PhaseMap
  <1>3. /\ WorkMap = [k \in Messages |-> WorkMap[k]]
        /\ WorkMap' = [k \in Messages |-> WorkMap'[k]]
        /\ \A k \in Messages : WorkMap[k] = WorkOf(k) /\ WorkMap'[k] = WorkOf(k)'
    BY DEF WorkMap
  <1>4. /\ LandedMap = [k \in Messages |-> LandedMap[k]]
        /\ LandedMap' = [k \in Messages |-> LandedMap'[k]]
        /\ \A k \in Messages : LandedMap[k] = LandedOf(k) /\ LandedMap'[k] = LandedOf(k)'
    BY DEF LandedMap
  <1>5. received = [k \in Messages |-> received[k]] /\ received' = [k \in Messages |-> received'[k]]
    <2>1. received \in [Messages -> 0 .. MaxReceive] /\ received' \in [Messages -> 0 .. MaxReceive]
      BY DEF TypeOK
    <2> QED
      BY <2>1
  <1>6. /\ PhaseMap' = [PhaseMap EXCEPT ![m] = PhaseMap'[m]]
        /\ PhaseMap'[m] = PhaseMap[m] => PhaseMap' = PhaseMap
    BY <1>1, <1>2, OnePoint
  <1>7. /\ WorkMap' = [WorkMap EXCEPT ![m] = WorkMap'[m]]
        /\ WorkMap'[m] = WorkMap[m] => WorkMap' = WorkMap
    BY <1>1, <1>3, OnePoint
  <1>8. /\ LandedMap' = [LandedMap EXCEPT ![m] = LandedMap'[m]]
        /\ LandedMap'[m] = LandedMap[m] => LandedMap' = LandedMap
    BY <1>1, <1>4, OnePoint
  <1>9. /\ received' = [received EXCEPT ![m] = received'[m]]
        /\ received'[m] = received[m] => received' = received
    BY <1>1, <1>5, OnePoint
  <1> QED
    BY <1>2, <1>3, <1>4, <1>6, <1>7, <1>8, <1>9

(* Contract's actions, in the words of these maps. *)
LEMMA ContractActions ==
    ASSUME NEW m \in Messages
    PROVE  /\ Contract!Accept(m) <=>
                  /\ PhaseMap[m] = "absent"
                  /\ PhaseMap' = [PhaseMap EXCEPT ![m] = "pending"]
                  /\ \E w \in {Work(b) : b \in Bodies} : WorkMap' = [WorkMap EXCEPT ![m] = w]
                  /\ LandedMap' = LandedMap /\ received' = received
           /\ Contract!Try(m) <=>
                  /\ PhaseMap[m] = "pending" /\ received[m] < MaxReceive
                  /\ received' = [received EXCEPT ![m] = received[m] + 1]
                  /\ PhaseMap' = PhaseMap /\ WorkMap' = WorkMap /\ LandedMap' = LandedMap
           /\ Contract!Land(m) <=>
                  /\ received[m] > 0
                  /\ \E j \in WorkMap[m] \ {0} :
                        LandedMap' = [LandedMap EXCEPT ![m] = LandedMap[m] \union {j}]
                  /\ PhaseMap' = PhaseMap /\ WorkMap' = WorkMap /\ received' = received
           /\ Contract!Complete(m) <=>
                  /\ PhaseMap[m] = "pending" /\ received[m] > 0 /\ WorkMap[m] = LandedMap[m]
                  /\ PhaseMap' = [PhaseMap EXCEPT ![m] = "done"]
                  /\ WorkMap' = WorkMap /\ LandedMap' = LandedMap /\ received' = received
           /\ Contract!Park(m) <=>
                  /\ PhaseMap[m] = "pending" /\ received[m] = MaxReceive
                  /\ PhaseMap' = [PhaseMap EXCEPT ![m] = "parked"]
                  /\ WorkMap' = WorkMap /\ LandedMap' = LandedMap /\ received' = received
  BY DEF Contract!Accept, Contract!Try, Contract!Land, Contract!Complete, Contract!Park,
         Contract!NoJob, PhaseMap, WorkMap, LandedMap, WorkOf, LandedOf

(* A step about m is one of JobDelivery if m's abstract state changes as   *)
(* one of its actions has it.                                              *)
LEMMA AcceptStep ==
    ASSUME NEW m \in Messages, TypeOK, TypeOK', About(m),
           Phase(m) = "absent", Phase(m)' = "pending", NEW b \in Bodies,
           WorkOf(m)' = Work(b), LandedOf(m)' = LandedOf(m), received'[m] = received[m]
    PROVE  Contract!Accept(m)
  BY MovedMaps, ContractActions

(* The same of a delivery. *)
LEMMA TryStep ==
    ASSUME NEW m \in Messages, TypeOK, TypeOK', About(m),
           Phase(m) = "pending", Phase(m)' = Phase(m), WorkOf(m)' = WorkOf(m),
           LandedOf(m)' = LandedOf(m), received[m] < MaxReceive,
           received'[m] = received[m] + 1
    PROVE  Contract!Try(m)
  BY MovedMaps, ContractActions

(* The same of a job that lands. *)
LEMMA LandStep ==
    ASSUME NEW m \in Messages, TypeOK, TypeOK', About(m),
           received[m] > 0, Phase(m)' = Phase(m), WorkOf(m)' = WorkOf(m),
           NEW j \in WorkOf(m) \ {0}, LandedOf(m)' = LandedOf(m) \union {j},
           received'[m] = received[m]
    PROVE  Contract!Land(m)
  BY MovedMaps, ContractActions

(* The same of a deletion. *)
LEMMA CompleteStep ==
    ASSUME NEW m \in Messages, TypeOK, TypeOK', About(m),
           Phase(m) = "pending", Phase(m)' = "done", received[m] > 0,
           WorkOf(m) = LandedOf(m), WorkOf(m)' = WorkOf(m),
           LandedOf(m)' = LandedOf(m), received'[m] = received[m]
    PROVE  Contract!Complete(m)
  BY MovedMaps, ContractActions

(* The same of the dead-letter queue. *)
LEMMA ParkStep ==
    ASSUME NEW m \in Messages, TypeOK, TypeOK', About(m),
           Phase(m) = "pending", Phase(m)' = "parked", received[m] = MaxReceive,
           WorkOf(m)' = WorkOf(m), LandedOf(m)' = LandedOf(m),
           received'[m] = received[m]
    PROVE  Contract!Park(m)
  BY MovedMaps, ContractActions

-----------------------------------------------------------------------------
(* What the abstract state of a message is read from. *)
LEMMA SameState ==
    ASSUME NEW m \in Messages, queue'[m] = queue[m], body'[m] = body[m],
           received'[m] = received[m],
           \A a \in Deliveries : /\ inv'[m][a].job = inv[m][a].job
                                 /\ inv'[m][a].failures = inv[m][a].failures
    PROVE  Still(m)
  <1>1. Phase(m)' = Phase(m)
    BY DEF Phase
  <1>2. WorkOf(m)' = WorkOf(m)
    BY DEF WorkOf, Work
  <1>3. \A a \in Deliveries : Landed(m, a)' = Landed(m, a)
    BY DEF Landed
  <1>4. LandedOf(m)' = LandedOf(m)
    BY <1>3 DEF LandedOf
  <1> QED
    BY <1>1, <1>2, <1>4 DEF Still

(* A delivery that has just begun has landed nothing. *)
LEMMA StartLanded ==
    ASSUME NEW m \in Messages, NEW n \in Deliveries,
           inv[m][n].job = 1, inv'[m][n].job = 1,
           \A a \in Deliveries : a # n => inv'[m][a] = inv[m][a]
    PROVE  LandedOf(m)' = LandedOf(m)
  <1>1. Landed(m, n) = {} /\ Landed(m, n)' = {}
    BY QueueAssumption DEF Landed
  <1>2. \A a \in Deliveries : a # n => Landed(m, a)' = Landed(m, a)
    BY DEF Landed
  <1>3. \A a \in Deliveries : Landed(m, a)' = Landed(m, a)
    BY <1>1, <1>2
  <1> QED
    BY <1>3 DEF LandedOf

LEMMA PublishRefines ==
    ASSUME Typing, TypeOK', NEW m \in Messages, NEW b \in Bodies, Publish(m, b)
    PROVE  Contract!Accept(m)
  <1>1. /\ queue[m] = "unsent" /\ queue' = [queue EXCEPT ![m] = "visible"]
        /\ body' = [body EXCEPT ![m] = b] /\ UNCHANGED <<received, inv>>
        /\ queue \in [Messages -> QueueStates] /\ body \in [Messages -> Bodies \union {NoBody}]
    BY DEF Publish, Typing, TypeOK
  <1>2. /\ queue'[m] = "visible" /\ body'[m] = b
        /\ \A k \in Messages : k # m => queue'[k] = queue[k] /\ body'[k] = body[k]
    BY <1>1
  <1>3. About(m)
    BY <1>1, <1>2, SameState DEF About
  <1>4. Phase(m) = "absent" /\ Phase(m)' = "pending"
    BY <1>1, <1>2 DEF Phase
  <1>5. WorkOf(m)' = Work(b)
    BY <1>2 DEF WorkOf, Work
  <1>6. LandedOf(m)' = LandedOf(m)
    BY <1>1 DEF LandedOf, Landed
  <1> QED
    BY <1>1, <1>3, <1>4, <1>5, <1>6, AcceptStep DEF Typing

LEMMA ReceiveRefines ==
    ASSUME Typing, TypeOK', NEW m \in Messages, NEW pc \in {"invoked", "throttled"},
           queue[m] \in {"visible", "hidden"}, Receive(m, pc)
    PROVE  Contract!Try(m)
  <1> DEFINE n == received[m] + 1
             r == [Idle EXCEPT !.pc = pc]
  <1>0. /\ received \in [Messages -> 0 .. MaxReceive] /\ queue \in [Messages -> QueueStates]
        /\ inv \in [Messages -> [Deliveries -> Invocation]]
    BY DEF Typing, TypeOK
  <1>1. /\ received[m] < MaxReceive /\ received' = [received EXCEPT ![m] = n]
        /\ inv' = [inv EXCEPT ![m][n] = r] /\ queue' = [queue EXCEPT ![m] = "hidden"]
        /\ body' = body
    BY <1>0 DEF Receive
  <1>2. n \in Deliveries /\ n > received[m]
    BY <1>0, <1>1, QueueAssumption DEF Deliveries
  <1>3. inv[m][n].job = 1
    BY <1>2 DEF Typing, Undelivered, Idle
  <1>4. r.job = 1
    BY DEF Idle
  <1>n. received'[m] = received[m] + 1 /\ \A k \in Messages : k # m => received'[k] = received[k]
    BY <1>0, <1>1
  <1> HIDE DEF n, r
  <1>5. /\ inv'[m][n] = r
        /\ \A k \in Messages, a \in Deliveries : k # m \/ a # n => inv'[k][a] = inv[k][a]
    BY <1>0, <1>1, <1>2
  <1>6. /\ queue'[m] = "hidden"
        /\ \A k \in Messages : k # m => queue'[k] = queue[k]
    BY <1>0, <1>1
  <1>7. About(m)
    BY <1>1, <1>n, <1>5, <1>6, SameState DEF About
  <1>8. Phase(m) = "pending" /\ Phase(m)' = Phase(m)
    BY <1>6 DEF Phase
  <1>9. WorkOf(m)' = WorkOf(m)
    BY <1>1, <1>6 DEF WorkOf, Work
  <1>10. LandedOf(m)' = LandedOf(m)
    BY <1>2, <1>3, <1>4, <1>5, StartLanded
  <1> QED
    BY <1>1, <1>n, <1>7, <1>8, <1>9, <1>10, TryStep DEF Typing

LEMMA ReappearRefines ==
    ASSUME Typing, TypeOK', NEW m \in Messages, Reappear(m)
    PROVE  UNCHANGED Contract!vars
  <1>1. /\ queue[m] = "hidden" /\ queue'[m] = "visible"
        /\ \A k \in Messages : k # m => queue'[k] = queue[k]
        /\ UNCHANGED <<body, received, inv>>
    BY DEF Reappear, Typing, TypeOK
  <1>2. \A k \in Messages : k # m => Still(k)
    BY <1>1, SameState
  <1>3. Phase(m)' = Phase(m) /\ WorkOf(m)' = WorkOf(m)
    BY <1>1 DEF Phase, WorkOf, Work
  <1>4. LandedOf(m)' = LandedOf(m)
    BY <1>1 DEF LandedOf, Landed
  <1>5. Still(m)
    BY <1>1, <1>3, <1>4 DEF Still
  <1> QED
    BY <1>2, <1>5, StutterStep DEF Typing

LEMMA ParkRefines ==
    ASSUME Typing, TypeOK', NEW m \in Messages, Park(m)
    PROVE  Contract!Park(m)
  <1>1. /\ queue[m] = "visible" /\ queue'[m] = "parked" /\ received[m] = MaxReceive
        /\ \A k \in Messages : k # m => queue'[k] = queue[k]
        /\ UNCHANGED <<body, received, inv>>
    <2>1. queue \in [Messages -> QueueStates] /\ received[m] \in 0 .. MaxReceive
      BY DEF Typing, TypeOK
    <2> QED
      BY <2>1, QueueAssumption DEF Park
  <1>2. About(m)
    BY <1>1, SameState DEF About
  <1>3. Phase(m) = "pending" /\ Phase(m)' = "parked"
    BY <1>1 DEF Phase
  <1>4. WorkOf(m)' = WorkOf(m)
    BY <1>1 DEF WorkOf, Work
  <1>5. LandedOf(m)' = LandedOf(m)
    BY <1>1 DEF LandedOf, Landed
  <1> QED
    BY <1>1, <1>2, <1>3, <1>4, <1>5, ParkStep DEF Typing

-----------------------------------------------------------------------------
(* A step of invocation <<m, a>> is a step about m. *)
LEMMA InvocationAbout ==
    ASSUME Typing, NEW m \in Messages, NEW a \in Deliveries,
           Retry(m, a) \/ Execute(m, a) \/ Ack(m, a) \/ Die(m, a)
    PROVE  /\ About(m) /\ body' = body /\ received' = received
           /\ inv[m][a].pc # "none"
           /\ \A c \in Deliveries : c # a => inv'[m][c] = inv[m][c]
  <1>1. PICK r \in Invocation : Moves(m, a, r)
    BY ExecuteMoves
  <1>2. \A k \in Messages, c \in Deliveries : k # m \/ c # a => inv'[k][c] = inv[k][c]
    BY <1>1, MovesFrame DEF Typing
  <1>3. body' = body /\ received' = received /\ inv[m][a].pc # "none"
    BY <1>1 DEF Moves
  <1>4. \A k \in Messages : k # m => queue'[k] = queue[k]
    <2>1. queue \in [Messages -> QueueStates]
      BY DEF Typing, TypeOK
    <2> QED
      BY <2>1, ExecuteEffects
  <1>5. About(m)
    BY <1>2, <1>3, <1>4, SameState DEF About
  <1> QED
    BY <1>2, <1>3, <1>5

(* Only Report moves an invocation on to another job. *)
LEMMA SameJob ==
    ASSUME Typing, NEW m \in Messages, NEW a \in Deliveries,
           Retry(m, a) \/ Execute(m, a) \/ Ack(m, a) \/ Die(m, a), ~ Report(m, a)
    PROVE  inv'[m][a].job = inv[m][a].job /\ inv'[m][a].failures = inv[m][a].failures
  <1> DEFINE i == inv[m][a]
  <1>1. i \in Invocation /\ inv \in [Messages -> [Deliveries -> Invocation]]
    BY DEF Typing, TypeOK
  <1>2. ASSUME NEW r, inv' = [inv EXCEPT ![m][a] = r], r.job = i.job, r.failures = i.failures
        PROVE  inv'[m][a].job = i.job /\ inv'[m][a].failures = i.failures
    BY <1>1, <1>2
  <1>3. ASSUME NEW pc, inv' = [inv EXCEPT ![m][a].pc = pc]
        PROVE  inv'[m][a].job = i.job /\ inv'[m][a].failures = i.failures
    <2>1. inv'[m][a] = [i EXCEPT !.pc = pc]
      BY <1>1, <1>3
    <2> QED
      BY <1>1, <2>1 DEF Invocation
  <1>4. ASSUME NEW result, Conclude(m, a, result)
        PROVE  inv'[m][a].job = i.job /\ inv'[m][a].failures = i.failures
    <2>1. inv'[m][a] = [i EXCEPT !.pc = "report", !.result = result]
      BY <1>1, <1>4 DEF Conclude
    <2> QED
      BY <1>1, <2>1 DEF Invocation
  <1>5. CASE Compute(m, a)
    <2>1. inv'[m][a] = [i EXCEPT !.pc = "posting", !.out = 1, !.result = {}]
      BY <1>1, <1>5 DEF Compute
    <2> QED
      BY <1>1, <2>1 DEF Invocation
  <1>6. ASSUME NEW answer \in PostAnswers, PostOutput(m, a, answer)
        PROVE  inv'[m][a].job = i.job /\ inv'[m][a].failures = i.failures
    <2>1. inv'[m][a] = AfterPost(i, JobIn(m, a), answer)
      BY <1>1, <1>6 DEF PostOutput
    <2>2. AfterPost(i, JobIn(m, a), answer).job = i.job
          /\ AfterPost(i, JobIn(m, a), answer).failures = i.failures
      BY <1>1 DEF AfterPost, Invocation
    <2> QED
      BY <2>1, <2>2
  <1> HIDE DEF i
  <1>7. CASE \/ Retry(m, a) \/ Begin(m, a) \/ LeaveLoop(m, a)
             \/ Return(m, a) \/ Ack(m, a) \/ Die(m, a)
    BY <1>3, <1>7 DEF Retry, Begin, LeaveLoop, Return, Ack, Die, Goto, i
  <1>8. CASE NoPostback(m, a) \/ NothingToPost(m, a) \/ RefuseSlot(m, a)
    BY <1>4, <1>8 DEF NoPostback, NothingToPost, RefuseSlot, i
  <1> QED
    BY <1>5, <1>6, <1>7, <1>8 DEF Execute, i

(* Outside Report and Ack, code and crashes change nothing in the abstract. *)
LEMMA QuietRefines ==
    ASSUME Typing, TypeOK', NEW m \in Messages, NEW a \in Deliveries,
           Retry(m, a) \/ Execute(m, a) \/ Die(m, a), ~ Report(m, a)
    PROVE  UNCHANGED Contract!vars
  <1>1. queue' = queue
    BY DEF Retry, Execute, Begin, LeaveLoop, NoPostback, NothingToPost, Compute, RefuseSlot,
           PostOutput, Return, Die
  <1>2. /\ About(m) /\ body' = body /\ received' = received
        /\ \A c \in Deliveries : c # a => inv'[m][c] = inv[m][c]
    BY InvocationAbout
  <1>3. inv'[m][a].job = inv[m][a].job /\ inv'[m][a].failures = inv[m][a].failures
    BY SameJob
  <1>4. Still(m)
    BY <1>1, <1>2, <1>3, SameState
  <1> QED
    BY <1>2, <1>4, StutterStep DEF About, Typing

(* An invocation exists only of a message that was published and received. *)
LEMMA InvocationPublished ==
    ASSUME Typing, NEW m \in Messages, NEW a \in Deliveries, inv[m][a].pc # "none"
    PROVE  received[m] > 0 /\ queue[m] # "unsent"
  <1>1. received[m] \in Nat /\ a \in Nat \ {0}
    BY QueueAssumption DEF Typing, TypeOK, Deliveries
  <1>2. ~ (a > received[m])
    BY DEF Typing, Undelivered, Idle
  <1>3. received[m] > 0
    BY <1>1, <1>2
  <1> QED
    BY <1>3 DEF Typing, Fresh

LEMMA ReportRefines ==
    ASSUME IInv, TypeOK', NEW m \in Messages, NEW a \in Deliveries, Report(m, a)
    PROVE  Contract!Land(m) \/ UNCHANGED Contract!vars
  <1> DEFINE i == inv[m][a]
             b == body[m]
  <1>1. /\ About(m) /\ body' = body /\ received' = received
        /\ \A c \in Deliveries : c # a => inv'[m][c] = inv[m][c]
        /\ received[m] > 0 /\ queue[m] # "unsent"
    BY InvocationAbout, InvocationPublished DEF Execute, IInv
  <1>2. /\ i \in Invocation /\ i.pc = "report" /\ queue' = queue /\ inv'[m][a] = AfterReport(i)
    <2>1. inv \in [Messages -> [Deliveries -> Invocation]]
      BY DEF IInv, Typing, TypeOK
    <2> QED
      BY <2>1 DEF Report
  <1>3. /\ b.parsed /\ i.failures \subseteq 1 .. i.job - 1
        /\ i.job \in 1 .. MaxJobs /\ i.job \in 1 .. Len(b.jobs)
    <2>1. b.parsed /\ i.failures \subseteq 1 .. i.job - 1
      BY <1>2 DEF IInv, AllSound, Sound, InLoop
    <2>2. Placed(m, i) /\ Len(b.jobs) \in 0 .. MaxJobs
      BY BodyShape DEF IInv, Typing, TypeOK, AtWork
    <2>3. i.job \in Nat \ {0} /\ i.job <= Len(b.jobs)
      BY <1>2, <2>2, QueueAssumption DEF Placed, Jobs, Invocation
    <2> QED
      BY <2>1, <2>2, <2>3, QueueAssumption
  <1>4. /\ AfterReport(i).job = i.job + 1
        /\ AfterReport(i).failures =
              IF JobSucceeded(i.result) THEN i.failures ELSE i.failures \union {i.job}
    BY <1>2 DEF AfterReport, Invocation
  <1> HIDE DEF i
  <1>5. \A c \in Deliveries : c # a => Landed(m, c)' = Landed(m, c)
    BY <1>1 DEF Landed
  <1>6. Phase(m)' = Phase(m) /\ WorkOf(m)' = WorkOf(m)
    BY <1>1, <1>2 DEF Phase, WorkOf, Work
  <1>7. CASE JobSucceeded(i.result)
    <2>1. Landed(m, a)' = Landed(m, a) \union {i.job}
      BY <1>2, <1>3, <1>4, <1>7, QueueAssumption DEF Landed, i
    <2>2. LandedOf(m)' = LandedOf(m) \union {i.job}
      BY <1>5, <2>1 DEF LandedOf
    <2>3. i.job \in WorkOf(m) \ {0}
      BY <1>1, <1>3 DEF WorkOf, Work
    <2> QED
      BY <1>1, <1>6, <2>2, <2>3, LandStep DEF IInv, Typing
  <1>8. CASE ~ JobSucceeded(i.result)
    <2>1. Landed(m, a)' = Landed(m, a)
      BY <1>2, <1>3, <1>4, <1>8, QueueAssumption DEF Landed, i
    <2>2. LandedOf(m)' = LandedOf(m)
      BY <1>5, <2>1 DEF LandedOf
    <2>3. Still(m)
      BY <1>1, <1>6, <2>2 DEF Still
    <2> QED
      BY <1>1, <2>3, StutterStep DEF About, IInv, Typing
  <1> QED
    BY <1>7, <1>8

LEMMA AckRefines ==
    ASSUME IInv, TypeOK', NEW m \in Messages, NEW a \in Deliveries, Ack(m, a)
    PROVE  Contract!Complete(m) \/ UNCHANGED Contract!vars
  <1>1. /\ About(m) /\ body' = body /\ received' = received
        /\ inv[m][a].pc = "succeeded" /\ ~ Report(m, a)
        /\ \A c \in Deliveries : c # a => inv'[m][c] = inv[m][c]
        /\ received[m] > 0 /\ queue[m] # "unsent"
    BY InvocationAbout, InvocationPublished DEF Ack, Report, IInv
  <1>2. inv'[m][a].job = inv[m][a].job /\ inv'[m][a].failures = inv[m][a].failures
    BY <1>1, SameJob DEF IInv
  <1>3. LandedOf(m)' = LandedOf(m)
    BY <1>1, <1>2 DEF LandedOf, Landed
  <1>4. CASE queue' = queue
    <2>1. Still(m)
      BY <1>1, <1>2, <1>4, SameState
    <2> QED
      BY <1>1, <2>1, StutterStep DEF About, IInv, Typing
  <1>5. CASE queue[m] \in {"visible", "hidden"} /\ queue' = [queue EXCEPT ![m] = "deleted"]
    <2>1. queue'[m] = "deleted"
      BY <1>5 DEF IInv, Typing, TypeOK
    <2>2. Phase(m) = "pending" /\ Phase(m)' = "done"
      BY <1>5, <2>1 DEF Phase
    <2>3. WorkOf(m)' = WorkOf(m)
      BY <1>1, <2>1 DEF WorkOf, Work
    <2>4. /\ body[m].parsed /\ inv[m][a].failures = {} /\ inv[m][a].job = Len(Jobs(m)) + 1
          /\ Len(Jobs(m)) \in 0 .. MaxJobs
      BY <1>1, BodyShape DEF IInv, AllSound, Sound, InLoop, Clean, Jobs, Typing, TypeOK
    <2>5. WorkOf(m) = 1 .. Len(Jobs(m))
      BY <1>1, <2>4 DEF WorkOf, Work, Jobs
    <2>6. Landed(m, a) = 1 .. Len(Jobs(m))
      BY <2>4, QueueAssumption DEF Landed
    <2>7. \A c \in Deliveries : Landed(m, c) \subseteq 1 .. Len(Jobs(m))
      <3> SUFFICES ASSUME NEW c \in Deliveries PROVE Landed(m, c) \subseteq 1 .. Len(Jobs(m))
        OBVIOUS
      <3>1. inv[m][c].job <= Len(Jobs(m)) + 1
        BY DEF IInv, AllSound, Sound, InLoop, Jobs
      <3>2. inv[m][c].job \in Nat
        BY QueueAssumption DEF IInv, Typing, TypeOK, Invocation
      <3> QED
        BY <2>4, <3>1, <3>2, QueueAssumption DEF Landed
    <2>8. LandedOf(m) = WorkOf(m)
      BY <2>5, <2>6, <2>7 DEF LandedOf
    <2> QED
      BY <1>1, <1>3, <2>2, <2>3, <2>8, CompleteStep DEF IInv, Typing
  <1> QED
    BY <1>4, <1>5 DEF Ack

-----------------------------------------------------------------------------
(* Every step of the pipeline is a step of JobDelivery or a stutter. *)
LEMMA NextRefines == IInv /\ IInv' /\ [Next]_vars => [Contract!Next]_(Contract!vars)
  <1> SUFFICES ASSUME IInv, IInv', [Next]_vars
               PROVE  [Contract!Next]_(Contract!vars)
    OBVIOUS
  <1>0. Typing /\ TypeOK /\ TypeOK'
    BY DEF IInv, Typing
  <1>1. ASSUME NEW m \in Messages, NEW b \in Bodies, Publish(m, b)
        PROVE  Contract!Next
    BY <1>0, <1>1, PublishRefines DEF Contract!Next
  <1>2. ASSUME NEW m \in Messages, Deliver(m) \/ DeliverCopy(m) \/ Throttle(m)
        PROVE  Contract!Next
    <2>1. Contract!Try(m)
      BY <1>0, <1>2, ReceiveRefines DEF Deliver, DeliverCopy, Throttle
    <2> QED
      BY <2>1 DEF Contract!Next
  <1>3. ASSUME NEW m \in Messages, Reappear(m)
        PROVE  UNCHANGED Contract!vars
    BY <1>0, <1>3, ReappearRefines
  <1>4. ASSUME NEW m \in Messages, Park(m)
        PROVE  Contract!Next
    BY <1>0, <1>4, ParkRefines DEF Contract!Next
  <1>5. ASSUME NEW m \in Messages, NEW a \in Deliveries, Report(m, a)
        PROVE  Contract!Next \/ UNCHANGED Contract!vars
    BY <1>0, <1>5, ReportRefines DEF Contract!Next
  <1>6. ASSUME NEW m \in Messages, NEW a \in Deliveries, Ack(m, a)
        PROVE  Contract!Next \/ UNCHANGED Contract!vars
    BY <1>0, <1>6, AckRefines DEF Contract!Next
  <1>7. ASSUME NEW m \in Messages, NEW a \in Deliveries,
               Retry(m, a) \/ Execute(m, a) \/ Die(m, a), ~ Report(m, a)
        PROVE  UNCHANGED Contract!vars
    BY <1>0, <1>7, QuietRefines
  <1>8. CASE UNCHANGED vars
    <2>1. \A m \in Messages : Still(m)
      BY <1>8, SameState DEF vars
    <2> QED
      BY <1>0, <2>1, StutterStep
  <1>9. CASE Next
    BY <1>1, <1>2, <1>3, <1>4, <1>5, <1>6, <1>7, <1>9 DEF Next, Serve
  <1> QED
    BY <1>8, <1>9

(* The pipeline implements JobDelivery: a bundle is completed only when    *)
(* every job of it has landed, and parked only after MaxReceive deliveries.*)
THEOREM ContractCorrect == Spec => ImplementsContract
  <1> USE DEF ImplementsContract
  <1>1. Init => Contract!Init
    BY InitContract
  <1>2. IInv /\ IInv' /\ [Next]_vars => [Contract!Next]_(Contract!vars)
    BY NextRefines
  <1> QED
    BY <1>1, <1>2, SpecInvariant, PTL DEF Spec, Contract!Spec

-----------------------------------------------------------------------------
(* That a message settles: every step takes one message a step further, in *)
(* an order that cannot go on for ever. What is left of Settles is that    *)
(* the steps are taken, which is its fairness. Of one message: it is       *)
(* received at most MaxReceive times; meanwhile its invocations come       *)
(* closer to their ends, each by its own jobs and outputs; and with all of *)
(* them still, it moves towards the end of the queue.                      *)

Level(i) ==
    CASE i.pc = "throttled" -> 4
      [] i.pc = "invoked" -> 3
      [] i.pc \in {"next", "posting", "report"} -> 2
      [] i.pc = "succeeded" -> 1
      [] OTHER -> 0
JobsLeft(i) == MaxJobs + 1 - i.job
Turn(i) == CASE i.pc = "next" -> 2 [] i.pc = "posting" -> 1 [] OTHER -> 0
OutsLeft(b, i) == IF i.pc = "posting" THEN Len(b.jobs[i.job].outs) - i.out ELSE 0

(* Invocation r is closer to its end than i, for a message with body b.    *)
Falls(b, i, r) ==
    \/ Level(r) < Level(i)
    \/ Level(r) = Level(i) /\ JobsLeft(r) < JobsLeft(i)
    \/ Level(r) = Level(i) /\ JobsLeft(r) = JobsLeft(i) /\ Turn(r) < Turn(i)
    \/ /\ Level(r) = Level(i) /\ JobsLeft(r) = JobsLeft(i) /\ Turn(r) = Turn(i)
       /\ OutsLeft(b, r) < OutsLeft(b, i)

Place(q) == CASE q = "unsent" -> 3 [] q = "hidden" -> 2 [] q = "visible" -> 1 [] OTHER -> 0

Advances(m) ==
    \/ received[m] < received'[m]
    \/ /\ received'[m] = received[m]
       /\ \E a \in Deliveries :
             /\ Falls(body[m], inv[m][a], inv'[m][a])
             /\ \A b \in Deliveries : b # a => inv'[m][b] = inv[m][b]
    \/ /\ received'[m] = received[m] /\ inv'[m] = inv[m]
       /\ Place(queue'[m]) < Place(queue[m])

Rests(m) == received'[m] = received[m] /\ inv'[m] = inv[m] /\ queue'[m] = queue[m]

MovesOn == \E m \in Messages : Advances(m) /\ \A n \in Messages \ {m} : Rests(n)

(* What falls cannot fall for ever.                                        *)
Measured ==
    \A m \in Messages :
        /\ MaxReceive - received[m] \in Nat
        /\ \A a \in Deliveries :
              /\ Level(inv[m][a]) \in Nat /\ JobsLeft(inv[m][a]) \in Nat
              /\ Turn(inv[m][a]) \in Nat /\ OutsLeft(body[m], inv[m][a]) \in Nat
        /\ Place(queue[m]) \in Nat

LEMMA MeasuredAll == Typing => Measured
  <1> SUFFICES ASSUME Typing, NEW m \in Messages
               PROVE  /\ MaxReceive - received[m] \in Nat
                      /\ \A a \in Deliveries :
                            /\ Level(inv[m][a]) \in Nat /\ JobsLeft(inv[m][a]) \in Nat
                            /\ Turn(inv[m][a]) \in Nat /\ OutsLeft(body[m], inv[m][a]) \in Nat
                      /\ Place(queue[m]) \in Nat
    BY DEF Measured
  <1>1. MaxReceive - received[m] \in Nat
    BY QueueAssumption DEF Typing, TypeOK
  <1>2. Place(queue[m]) \in Nat
    BY DEF Place
  <1>3. ASSUME NEW a \in Deliveries
        PROVE  /\ Level(inv[m][a]) \in Nat /\ JobsLeft(inv[m][a]) \in Nat
               /\ Turn(inv[m][a]) \in Nat /\ OutsLeft(body[m], inv[m][a]) \in Nat
    <2> DEFINE i == inv[m][a]
    <2>1. i \in Invocation /\ Placed(m, i)
      BY DEF Typing, TypeOK, AtWork
    <2> HIDE DEF i
    <2>2. Level(i) \in Nat /\ Turn(i) \in Nat
      BY DEF Level, Turn
    <2>3. i.job \in 1 .. MaxJobs + 1 /\ i.out \in Nat \ {0}
      BY <2>1 DEF Invocation
    <2>4. JobsLeft(i) \in Nat
      BY <2>3, QueueAssumption DEF JobsLeft
    <2>5. OutsLeft(body[m], i) \in Nat
      <3> SUFFICES ASSUME i.pc = "posting" PROVE Len(Jobs(m)[i.job].outs) - i.out \in Nat
        BY DEF OutsLeft, Jobs
      <3>1. i.job <= Len(Jobs(m)) /\ i.out <= Len(Jobs(m)[i.job].outs)
        BY <2>1 DEF Placed
      <3>2. Len(Jobs(m)) \in 0 .. MaxJobs
        BY BodyShape DEF Typing, TypeOK, Jobs
      <3>3. i.job \in 1 .. Len(Jobs(m))
        BY <2>3, <3>1, <3>2, QueueAssumption
      <3>4. Len(Jobs(m)[i.job].outs) \in Nat
        BY <3>3, JobShape DEF Typing
      <3> QED
        BY <2>3, <3>1, <3>4
    <2> QED
      BY <2>2, <2>4, <2>5 DEF i
  <1> QED
    BY <1>1, <1>2, <1>3

(* A step of an invocation brings it closer to its end: the next job, the  *)
(* next output, its report, its return, its death.                         *)
LEMMA InvocationFalls ==
    ASSUME Typing, NEW m \in Messages, NEW a \in Deliveries,
           Retry(m, a) \/ Execute(m, a) \/ Ack(m, a) \/ Die(m, a)
    PROVE  Falls(body[m], inv[m][a], inv'[m][a])
  <1> DEFINE i == inv[m][a]
             r == inv'[m][a]
  <1>1. /\ i \in Invocation /\ Placed(m, i)
        /\ inv \in [Messages -> [Deliveries -> Invocation]]
    BY DEF Typing, TypeOK, AtWork
  <1>2. i.job \in Int /\ i.out \in Int /\ MaxJobs \in Int
    BY <1>1, QueueAssumption DEF Invocation
  <1>3. ASSUME NEW p \in Points, Goto(m, a, p) PROVE r = [i EXCEPT !.pc = p] /\ r.pc = p
    <2>1. r = [i EXCEPT !.pc = p]
      BY <1>1, <1>3 DEF Goto
    <2> QED
      BY <1>1, <2>1 DEF Invocation
  <1>4. ASSUME NEW result, Conclude(m, a, result) PROVE r.pc = "report" /\ r.job = i.job
    <2>1. r = [i EXCEPT !.pc = "report", !.result = result]
      BY <1>1, <1>4 DEF Conclude
    <2> QED
      BY <1>1, <2>1 DEF Invocation
  <1>5. CASE \/ Retry(m, a) \/ Begin(m, a) \/ LeaveLoop(m, a)
             \/ Return(m, a) \/ Ack(m, a) \/ Die(m, a)
    <2>1. \/ i.pc = "throttled" /\ Goto(m, a, "invoked")
          \/ i.pc = "invoked" /\ \E p \in {"next", "failed"} : Goto(m, a, p)
          \/ i.pc = "next" /\ \E p \in {"succeeded", "failed"} : Goto(m, a, p)
          \/ i.pc = "succeeded" /\ Goto(m, a, "acked")
          \/ i.pc \in Executing /\ Goto(m, a, "dead")
      BY <1>5 DEF Retry, Begin, LeaveLoop, AtJob, Return, Ack, Die, Goto
    <2>2. \/ i.pc = "throttled" /\ r.pc = "invoked"
          \/ i.pc = "invoked" /\ r.pc \in {"next", "failed"}
          \/ i.pc = "next" /\ r.pc \in {"succeeded", "failed"}
          \/ i.pc = "succeeded" /\ r.pc = "acked"
          \/ i.pc \in Executing /\ r.pc = "dead"
      BY <1>3, <2>1 DEF Points, Executing
    <2> HIDE DEF i, r
    <2>3. Level(r) < Level(i)
      BY <2>2 DEF Level, Executing
    <2> QED
      BY <2>3 DEF Falls, i, r
  <1>6. CASE NoPostback(m, a) \/ NothingToPost(m, a) \/ RefuseSlot(m, a)
    <2>1. i.pc \in {"next", "posting"} /\ \E result : Conclude(m, a, result)
      BY <1>6 DEF NoPostback, NothingToPost, RefuseSlot, AtJob
    <2>2. r.pc = "report" /\ r.job = i.job
      BY <1>4, <2>1
    <2> HIDE DEF i, r
    <2>3. Level(r) = Level(i) /\ JobsLeft(r) = JobsLeft(i) /\ Turn(r) < Turn(i)
      BY <2>1, <2>2 DEF Level, JobsLeft, Turn
    <2> QED
      BY <2>3 DEF Falls, i, r
  <1>7. CASE Compute(m, a)
    <2>1. i.pc = "next" /\ r = [i EXCEPT !.pc = "posting", !.out = 1, !.result = {}]
      BY <1>1, <1>7 DEF Compute, AtJob
    <2>2. r.pc = "posting" /\ r.job = i.job
      BY <1>1, <2>1 DEF Invocation
    <2> HIDE DEF i, r
    <2>3. Level(r) = Level(i) /\ JobsLeft(r) = JobsLeft(i) /\ Turn(r) < Turn(i)
      BY <2>1, <2>2 DEF Level, JobsLeft, Turn
    <2> QED
      BY <2>3 DEF Falls, i, r
  <1>8. ASSUME NEW answer \in PostAnswers, PostOutput(m, a, answer)
        PROVE  Falls(body[m], i, r)
    <2>1. i.pc = "posting" /\ r = AfterPost(i, JobIn(m, a), answer)
      BY <1>1, <1>8 DEF PostOutput
    <2>2. \/ r.pc = "report" /\ r.job = i.job
          \/ r.pc = "posting" /\ r.job = i.job /\ r.out = i.out + 1
      BY <1>1, <2>1 DEF AfterPost, Invocation
    <2>3. Len(body[m].jobs[i.job].outs) \in Nat
      <3>1. i.job <= Len(Jobs(m)) /\ Len(Jobs(m)) \in 0 .. MaxJobs
        BY <1>1, <2>1, BodyShape DEF Placed, Typing, TypeOK, Jobs
      <3>2. i.job \in 1 .. Len(Jobs(m))
        BY <1>1, <3>1, QueueAssumption DEF Invocation
      <3>3. Len(Jobs(m)[i.job].outs) \in Nat
        BY <3>2, JobShape DEF Typing
      <3> QED
        BY <3>3 DEF Jobs
    <2> HIDE DEF i, r
    <2>4. CASE r.pc = "report" /\ r.job = i.job
      <3>1. Level(r) = Level(i) /\ JobsLeft(r) = JobsLeft(i) /\ Turn(r) < Turn(i)
        BY <2>1, <2>4 DEF Level, JobsLeft, Turn
      <3> QED
        BY <3>1 DEF Falls
    <2>5. CASE r.pc = "posting" /\ r.job = i.job /\ r.out = i.out + 1
      <3>1. Level(r) = Level(i) /\ JobsLeft(r) = JobsLeft(i) /\ Turn(r) = Turn(i)
        BY <2>1, <2>5 DEF Level, JobsLeft, Turn
      <3>2. OutsLeft(body[m], r) < OutsLeft(body[m], i)
        <4> DEFINE n == Len(body[m].jobs[i.job].outs)
        <4>1. OutsLeft(body[m], i) = n - i.out /\ OutsLeft(body[m], r) = n - r.out
          BY <2>1, <2>5 DEF OutsLeft
        <4>2. n \in Nat /\ i.out \in Int /\ r.out = i.out + 1
          BY <1>2, <2>3, <2>5 DEF i
        <4> HIDE DEF n
        <4> QED
          BY <4>1, <4>2
      <3> QED
        BY <3>1, <3>2 DEF Falls
    <2> QED
      BY <2>2, <2>4, <2>5
  <1>9. CASE Report(m, a)
    <2>1. i.pc = "report" /\ r = AfterReport(i)
      BY <1>1, <1>9 DEF Report
    <2>2. r.pc = "next" /\ r.job = i.job + 1
      BY <1>1, <2>1 DEF AfterReport, Invocation
    <2> HIDE DEF i, r
    <2>3. Level(r) = Level(i) /\ JobsLeft(r) < JobsLeft(i)
      BY <1>2, <2>1, <2>2 DEF Level, JobsLeft
    <2> QED
      BY <2>3 DEF Falls, i, r
  <1> QED
    BY <1>5, <1>6, <1>7, <1>8, <1>9 DEF Execute

LEMMA NextMovesOn == Typing /\ Next => MovesOn
  <1> SUFFICES ASSUME Typing, Next PROVE MovesOn
    OBVIOUS
  <1>0. /\ queue \in [Messages -> QueueStates] /\ received \in [Messages -> 0 .. MaxReceive]
        /\ inv \in [Messages -> [Deliveries -> Invocation]] /\ MaxReceive \in Nat
    BY QueueAssumption DEF Typing, TypeOK
  <1>1. ASSUME NEW m \in Messages, NEW q, Place(q) < Place(queue[m]),
               queue' = [queue EXCEPT ![m] = q], UNCHANGED <<received, inv>>
        PROVE  MovesOn
    <2>1. queue'[m] = q /\ \A n \in Messages \ {m} : queue'[n] = queue[n]
      BY <1>0, <1>1
    <2> QED
      BY <1>1, <2>1 DEF MovesOn, Advances, Rests
  <1>2. ASSUME NEW m \in Messages, NEW b \in Bodies, Publish(m, b) PROVE MovesOn
    <2>1. queue[m] = "unsent" /\ queue' = [queue EXCEPT ![m] = "visible"] /\ UNCHANGED <<received, inv>>
      BY <1>2 DEF Publish
    <2>2. Place("visible") < Place(queue[m])
      BY <2>1 DEF Place
    <2> QED
      BY <1>1, <2>1, <2>2
  <1>3. ASSUME NEW m \in Messages, Reappear(m) PROVE MovesOn
    <2>1. queue[m] = "hidden" /\ queue' = [queue EXCEPT ![m] = "visible"] /\ UNCHANGED <<received, inv>>
      BY <1>3 DEF Reappear
    <2>2. Place("visible") < Place(queue[m])
      BY <2>1 DEF Place
    <2> QED
      BY <1>1, <2>1, <2>2
  <1>4. ASSUME NEW m \in Messages, Park(m) PROVE MovesOn
    <2>1. queue[m] = "visible" /\ queue' = [queue EXCEPT ![m] = "parked"] /\ UNCHANGED <<received, inv>>
      BY <1>4 DEF Park
    <2>2. Place("parked") < Place(queue[m])
      BY <2>1 DEF Place
    <2> QED
      BY <1>1, <2>1, <2>2
  <1>5. ASSUME NEW m \in Messages, Deliver(m) \/ DeliverCopy(m) \/ Throttle(m) PROVE MovesOn
    <2>1. PICK p : Receive(m, p)
      BY <1>5 DEF Deliver, DeliverCopy, Throttle
    <2>2. received'[m] = received[m] + 1 /\ \A n \in Messages \ {m} : Rests(n)
      BY <1>0, <2>1 DEF Receive, Rests
    <2>3. received[m] < received'[m]
      BY <1>0, <2>2
    <2> QED
      BY <2>2, <2>3 DEF MovesOn, Advances
  <1>6. ASSUME NEW m \in Messages, NEW a \in Deliveries, Retry(m, a) \/ Execute(m, a) \/ Ack(m, a) \/ Die(m, a)
        PROVE  MovesOn
    <2>1. PICK r \in Invocation : Moves(m, a, r)
      BY <1>6, ExecuteMoves
    <2>2. /\ received' = received /\ inv' = [inv EXCEPT ![m][a] = r]
          /\ \A b \in Deliveries : b # a => inv'[m][b] = inv[m][b]
      BY <2>1, MovesFrame DEF Moves, Typing
    <2>3. queue' = queue \/ queue' = [queue EXCEPT ![m] = "deleted"]
      BY <1>6, ExecuteEffects
    <2>4. \A n \in Messages \ {m} : Rests(n)
      BY <1>0, <2>2, <2>3 DEF Rests
    <2>5. Falls(body[m], inv[m][a], inv'[m][a])
      BY <1>6, InvocationFalls
    <2>6. Advances(m)
      BY <2>2, <2>5 DEF Advances
    <2> QED
      BY <2>4, <2>6 DEF MovesOn
  <1> QED
    BY <1>2, <1>3, <1>4, <1>5, <1>6 DEF Next, Serve

(* Whatever the bodies, the answers, the copies and the deaths, nothing is *)
(* delivered, run or requeued for ever: each step uses something up.       *)
THEOREM StepsDescend == Spec => [][MovesOn]_vars /\ []Measured
  <1>1. Typing /\ [Next]_vars => [MovesOn]_vars
    BY NextMovesOn
  <1> QED
    BY <1>1, SpecTyping, MeasuredAll, PTL DEF Spec

(* What no delivery can complete is never deleted: a body that is no list, *)
(* a job without a function_name, a name that resolves to nothing. With    *)
(* that, RejectedIsParked is a case of Settles.                            *)
THEOREM RejectedStays ==
    Spec => [](\A m \in Messages :
                  ~ body[m].parsed \/ (\E j \in Positions(m) : Jobs(m)[j].fn \in {"unknown", "missing"})
                      => queue[m] # "deleted")
  <1>1. ASSUME DeletedMeansAccepted, NEW m \in Messages, queue[m] = "deleted"
        PROVE  body[m].parsed /\ \A j \in Positions(m) : Jobs(m)[j].fn \notin {"unknown", "missing"}
    <2>1. PICK a \in Deliveries : \A j \in Positions(m) : LooksLanded(m, a, j)
      BY <1>1 DEF DeletedMeansAccepted
    <2>2. \A j \in Positions(m) : Jobs(m)[j].fn \in Posting \union {"helper"}
      BY <2>1 DEF LooksLanded
    <2> QED
      BY <1>1, <2>2 DEF DeletedMeansAccepted, Posting, Inspecting
  <1>2. DeletedMeansAccepted =>
            \A m \in Messages :
                ~ body[m].parsed \/ (\E j \in Positions(m) : Jobs(m)[j].fn \in {"unknown", "missing"})
                    => queue[m] # "deleted"
    BY <1>1
  <1> QED
    BY <1>2, DeletionCorrect, PTL

=============================================================================
