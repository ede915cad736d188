------------------------- MODULE JobPipelineProofs -------------------------
(***************************************************************************)
(* Theorems of JobPipeline, for every set of messages, of bodies and of    *)
(* answers, every maxReceiveCount and every concurrency.                   *)
(***************************************************************************)
EXTENDS JobPipeline, SequenceTheorems, TLAPS

(* A message nobody sent has not been received. *)
Fresh == \A m \in Messages : queue[m] = "unsent" => received[m] = 0

(* A delivery that has not happened has left no trace. *)
Undelivered ==
    \A m \in Messages, a \in Deliveries : a > received[m] =>
        inv[m][a] = Idle /\ answers[m][a] = {} /\ usage[m][a] = NoUsage

(* Inside and just after a job function, `job` is a job of the body, and   *)
(* inside the posting loop `out` is one of its outputs.                    *)
Placed(m, r) ==
    /\ r.pc \in {"posting", "report"} => r.job <= Len(Jobs(m))
    /\ r.pc = "posting" => r.out <= Len(Jobs(m)[r.job].outs)

AtWork == \A m \in Messages, a \in Deliveries : Placed(m, inv[m][a])

Typing == TypeOK /\ Fresh /\ Undelivered /\ AtWork

-----------------------------------------------------------------------------
(* The first and later elements of a body's jobs are jobs. *)
LEMMA BodyShape ==
    ASSUME NEW b \in Bodies \union {NoBody}
    PROVE  /\ b.parsed \in BOOLEAN
           /\ b.jobs \in Seq(Job)
           /\ Len(b.jobs) \in 0 .. MaxJobs
           /\ ~ b.parsed => b.jobs = <<>>
  <1>1. CASE b \in Bodies
    <2>1. b \in BodyType /\ Len(b.jobs) <= MaxJobs /\ (~ b.parsed => b.jobs = <<>>)
      BY <1>1, BodiesAssumption
    <2>2. b.parsed \in BOOLEAN /\ b.jobs \in Seq(Job)
      BY <2>1 DEF BodyType
    <2>3. Len(b.jobs) \in Nat
      BY <2>2, LenProperties
    <2>4. Len(b.jobs) \in 0 .. MaxJobs
      BY <2>1, <2>3, QueueAssumption
    <2> QED
      BY <2>1, <2>2, <2>4
  <1>2. CASE b = NoBody
    <2>1. b.parsed = FALSE /\ b.jobs = <<>>
      BY <1>2 DEF NoBody
    <2>2. <<>> \in Seq(Job) /\ Len(<<>>) = 0
      BY EmptySeq
    <2>3. 0 \in 0 .. MaxJobs
      BY QueueAssumption
    <2> QED
      BY <2>1, <2>2, <2>3
  <1> QED
    BY <1>1, <1>2

(* The job an invocation is at has outputs one can count. *)
LEMMA JobShape ==
    ASSUME TypeOK, NEW m \in Messages, NEW j \in 1 .. Len(Jobs(m))
    PROVE  /\ Jobs(m)[j] \in Job
           /\ Jobs(m)[j].fn \in Families
           /\ Jobs(m)[j].outs \in Seq(Slots)
           /\ Len(Jobs(m)[j].outs) \in Nat
           /\ Jobs(m)[j].metered \in BOOLEAN
  <1>1. Jobs(m) \in Seq(Job)
    BY BodyShape DEF TypeOK, Jobs
  <1>2. Jobs(m)[j] \in Job
    BY <1>1, ElementOfSeq
  <1>3. /\ Jobs(m)[j].fn \in Families
        /\ Jobs(m)[j].outs \in Seq(Slots)
        /\ Jobs(m)[j].metered \in BOOLEAN
    BY <1>2 DEF Job
  <1>4. Len(Jobs(m)[j].outs) \in Nat
    BY <1>3, LenProperties
  <1> QED
    BY <1>2, <1>3, <1>4

LEMMA InitTyping == Init => Typing
  <1> SUFFICES ASSUME Init PROVE Typing
    OBVIOUS
  <1> USE DEF Init, Deliveries
  <1>1. Idle \in Invocation
    BY QueueAssumption DEF Idle, Invocation, Points, Executing
  <1>2. TypeOK
    BY <1>1, QueueAssumption DEF TypeOK, QueueStates, NoUsage
  <1>3. Fresh /\ Undelivered
    BY DEF Fresh, Undelivered
  <1>4. AtWork
    BY DEF AtWork, Placed, Idle
  <1> QED
    BY <1>2, <1>3, <1>4 DEF Typing

(* What a step of invocation <<m, a>> may do to the state. *)
Moves(m, a, r) ==
    /\ inv[m][a].pc # "none"
    /\ r \in Invocation
    /\ inv' = [inv EXCEPT ![m][a] = r]
    /\ r.pc # "none" /\ Placed(m, r)
    /\ body' = body /\ received' = received

LEMMA ExecuteMoves ==
    ASSUME Typing, NEW m \in Messages, NEW a \in Deliveries,
           Retry(m, a) \/ Execute(m, a) \/ Ack(m, a) \/ Die(m, a)
    PROVE  \E r \in Invocation : Moves(m, a, r)
  <1> DEFINE i == inv[m][a]
  <1>1. /\ i \in Invocation
        /\ inv \in [Messages -> [Deliveries -> Invocation]]
        /\ Len(Jobs(m)) \in 0 .. MaxJobs
    BY BodyShape DEF Typing, TypeOK, Jobs
  <1>2. Placed(m, i)
    BY DEF Typing, AtWork
  <1>3. ASSUME NEW r \in Invocation, i.pc # "none", r.pc # "none", Placed(m, r),
               inv' = [inv EXCEPT ![m][a] = r], UNCHANGED <<body, received>>
        PROVE  \E q \in Invocation : Moves(m, a, q)
    BY <1>3 DEF Moves
  <1>4. ASSUME NEW p \in Points \ {"none", "posting", "report"}, i.pc # "none",
               Goto(m, a, p), UNCHANGED <<body, received>>
        PROVE  \E q \in Invocation : Moves(m, a, q)
    <2> DEFINE r == [i EXCEPT !.pc = p]
    <2>1. r \in Invocation /\ r.pc = p
      BY <1>1 DEF Invocation
    <2>2. inv' = [inv EXCEPT ![m][a] = r]
      BY <1>4 DEF Goto
    <2>3. Placed(m, r)
      BY <2>1 DEF Placed
    <2> HIDE DEF r
    <2> QED
      BY <1>3, <1>4, <2>1, <2>2, <2>3
  <1>5. ASSUME NEW result \in SUBSET ResultItems, i.pc # "none", i.job <= Len(Jobs(m)),
               Conclude(m, a, result), UNCHANGED <<body, received>>
        PROVE  \E q \in Invocation : Moves(m, a, q)
    <2> DEFINE r == [i EXCEPT !.pc = "report", !.result = result]
    <2>1. r \in Invocation /\ r.pc = "report" /\ r.job = i.job
      BY <1>1 DEF Invocation, Points, Executing
    <2>2. inv' = [inv EXCEPT ![m][a] = r]
      BY <1>5 DEF Conclude
    <2>3. Placed(m, r)
      BY <1>5, <2>1 DEF Placed
    <2> HIDE DEF r
    <2> QED
      BY <1>3, <1>5, <2>1, <2>2, <2>3
  <1> HIDE DEF i
  <1>6. CASE Begin(m, a)
    BY <1>4, <1>6 DEF Begin, Goto, Points, Executing, i
  <1>7. CASE LeaveLoop(m, a)
    BY <1>4, <1>7 DEF LeaveLoop, AtJob, Points, Executing, i
  <1>8. CASE NoPostback(m, a)
    BY <1>5, <1>8 DEF NoPostback, AtJob, ErrorResult, ResultItems, i
  <1>9. CASE NothingToPost(m, a)
    BY <1>5, <1>9 DEF NothingToPost, AtJob, i
  <1>10. CASE Compute(m, a)
    <2> DEFINE r == [i EXCEPT !.pc = "posting", !.out = 1, !.result = {}]
    <2>1. i.pc = "next" /\ i.job <= Len(Jobs(m)) /\ JobIn(m, a).outs # <<>>
      BY <1>10 DEF Compute, AtJob, i
    <2>2. r \in Invocation /\ r.pc = "posting" /\ r.job = i.job /\ r.out = 1
      <3>1. 1 \in Nat \ {0} /\ {} \in SUBSET ResultItems
        OBVIOUS
      <3> QED
        BY <1>1, <3>1 DEF Invocation, Points, Executing
    <2>3. i.job \in 1 .. Len(Jobs(m))
      BY <1>1, <2>1 DEF Invocation
    <2>4. Len(JobIn(m, a).outs) >= 1
      <3>1. JobIn(m, a).outs \in Seq(Slots)
        BY <2>3, JobShape DEF JobIn, Typing, i
      <3>2. Len(JobIn(m, a).outs) \in Nat \ {0}
        BY <2>1, <3>1, EmptySeq
      <3> QED
        BY <3>2
    <2>5. Placed(m, r)
      BY <2>1, <2>2, <2>4 DEF Placed, JobIn, i
    <2>6. inv' = [inv EXCEPT ![m][a] = r] /\ UNCHANGED <<body, received>>
      BY <1>10 DEF Compute, i
    <2> HIDE DEF r
    <2> QED
      BY <1>3, <2>1, <2>2, <2>5, <2>6
  <1>11. CASE RefuseSlot(m, a)
    BY <1>2, <1>5, <1>11 DEF RefuseSlot, ErrorResult, ResultItems, Placed, i
  <1>12. ASSUME NEW answer \in PostAnswers, PostOutput(m, a, answer)
         PROVE  \E q \in Invocation : Moves(m, a, q)
    <2> DEFINE r == AfterPost(i, JobIn(m, a), answer)
    <2>1. i.pc = "posting" /\ i.job \in 1 .. Len(Jobs(m)) /\ i.out <= Len(JobIn(m, a).outs)
      BY <1>1, <1>2, <1>12 DEF PostOutput, Placed, JobIn, Invocation, i
    <2>2. Len(JobIn(m, a).outs) \in Nat
      BY <2>1, JobShape DEF JobIn, Typing, i
    <2>3. PostItem(JobIn(m, a).fn, answer) \in ResultItems /\ ErrorResult \in SUBSET ResultItems
      BY DEF PostItem, ResultItems, ErrorResult
    <2>4. r \in Invocation /\ r.job = i.job
      <3> DEFINE items == i.result \union {PostItem(JobIn(m, a).fn, answer)}
      <3>1. items \in SUBSET ResultItems
        BY <1>1, <2>3 DEF Invocation
      <3>2. r = IF Raises(answer)
                THEN [i EXCEPT !.pc = "report", !.result = ErrorResult]
                ELSE IF i.out = Len(JobIn(m, a).outs)
                     THEN [i EXCEPT !.pc = "report", !.result = items]
                     ELSE [i EXCEPT !.out = i.out + 1, !.result = items]
        BY DEF AfterPost
      <3> HIDE DEF items, r
      <3>3. \A res \in SUBSET ResultItems :
               /\ [i EXCEPT !.pc = "report", !.result = res] \in Invocation
               /\ [i EXCEPT !.pc = "report", !.result = res].job = i.job
        BY <1>1 DEF Invocation, Points, Executing
      <3>4. [i EXCEPT !.out = i.out + 1, !.result = items] \in Invocation
            /\ [i EXCEPT !.out = i.out + 1, !.result = items].job = i.job
        <4>1. i.out + 1 \in Nat \ {0}
          BY <1>1 DEF Invocation
        <4> QED
          BY <1>1, <3>1, <4>1 DEF Invocation
      <3> QED
        BY <2>3, <3>1, <3>2, <3>3, <3>4
    <2>5. r.pc \in {"report", "posting"} /\ (r.pc = "posting" => r.out <= Len(JobIn(m, a).outs))
      BY <1>1, <2>1, <2>2 DEF AfterPost, Invocation
    <2>6. Placed(m, r)
      BY <2>1, <2>4, <2>5 DEF Placed, JobIn, i
    <2>7. inv' = [inv EXCEPT ![m][a] = r] /\ UNCHANGED <<body, received>>
      BY <1>12 DEF PostOutput, i
    <2> HIDE DEF r
    <2> QED
      BY <1>3, <2>1, <2>4, <2>5, <2>6, <2>7
  <1>13. CASE Report(m, a)
    <2> DEFINE r == AfterReport(i)
    <2>1. i.pc = "report" /\ i.job \in 1 .. MaxJobs
      BY <1>1, <1>2, <1>13, QueueAssumption DEF Report, Placed, Invocation, i
    <2>2. i.job + 1 \in 1 .. MaxJobs + 1
      BY <2>1, QueueAssumption
    <2>3. inv' = [inv EXCEPT ![m][a] = r] /\ UNCHANGED <<body, received>>
      BY <1>13 DEF Report, i
    <2>4. r \in Invocation /\ r.pc = "next"
      BY <1>1, <2>1, <2>2 DEF Invocation, Points, Executing, AfterReport
    <2>5. Placed(m, r)
      BY <2>4 DEF Placed
    <2> HIDE DEF r
    <2> QED
      BY <1>3, <2>1, <2>3, <2>4, <2>5
  <1>14. CASE Return(m, a)
    BY <1>4, <1>14 DEF Return, Points, Executing, i
  <1>15. CASE Ack(m, a)
    BY <1>4, <1>15 DEF Ack, Goto, Points, Executing, i
  <1>16. CASE Die(m, a)
    BY <1>4, <1>16 DEF Die, Goto, Points, Executing, i
  <1>17. CASE Retry(m, a)
    BY <1>4, <1>17 DEF Retry, Goto, Points, Executing, i
  <1> QED
    BY <1>6, <1>7, <1>8, <1>9, <1>10, <1>11, <1>12, <1>13, <1>14, <1>15, <1>16, <1>17 DEF Execute

(* Such a step leaves every other invocation alone. *)
LEMMA MovesFrame ==
    ASSUME TypeOK, NEW m \in Messages, NEW a \in Deliveries, NEW r \in Invocation, Moves(m, a, r)
    PROVE  /\ inv' \in [Messages -> [Deliveries -> Invocation]]
           /\ inv'[m][a] = r
           /\ \A n \in Messages, b \in Deliveries :
                 n # m \/ b # a => inv'[n][b] = inv[n][b]
  BY DEF TypeOK, Moves

(* It touches the queue, the answers and the usage of its own delivery. *)
LEMMA ExecuteEffects ==
    ASSUME Typing, NEW m \in Messages, NEW a \in Deliveries,
           Retry(m, a) \/ Execute(m, a) \/ Ack(m, a) \/ Die(m, a)
    PROVE  /\ queue' = queue \/ (queue' = [queue EXCEPT ![m] = "deleted"] /\ queue[m] # "unsent")
           /\ answers' \in [Messages -> [Deliveries -> SUBSET (Nat \X Nat \X Answers)]]
           /\ usage' \in [Messages -> [Deliveries -> [1 .. MaxJobs -> Nat]]]
           /\ \A n \in Messages, b \in Deliveries :
                 n # m \/ b # a => answers'[n][b] = answers[n][b] /\ usage'[n][b] = usage[n][b]
  <1>0. /\ queue \in [Messages -> QueueStates]
        /\ answers \in [Messages -> [Deliveries -> SUBSET (Nat \X Nat \X Answers)]]
        /\ usage \in [Messages -> [Deliveries -> [1 .. MaxJobs -> Nat]]]
    BY DEF Typing, TypeOK
  <1>1. CASE UNCHANGED <<queue, answers, usage>>
    BY <1>0, <1>1
  <1>2. CASE Ack(m, a)
    <2>1. /\ UNCHANGED <<answers, usage>>
          /\ queue' = queue \/ (queue' = [queue EXCEPT ![m] = "deleted"] /\ queue[m] # "unsent")
      BY <1>2 DEF Ack
    <2> QED
      BY <1>0, <2>1
  <1>3. ASSUME NEW answer \in PostAnswers, PostOutput(m, a, answer)
        PROVE  /\ queue' = queue /\ usage' = usage
               /\ answers' \in [Messages -> [Deliveries -> SUBSET (Nat \X Nat \X Answers)]]
               /\ \A n \in Messages, b \in Deliveries :
                     n # m \/ b # a => answers'[n][b] = answers[n][b]
    <2>1. inv[m][a].job \in Nat /\ inv[m][a].out \in Nat /\ answer \in Answers
      BY AnswersAssumption, QueueAssumption DEF Typing, TypeOK, Invocation
    <2> DEFINE e == <<inv[m][a].job, inv[m][a].out, answer>>
    <2>2. e \in Nat \X Nat \X Answers
      BY <2>1
    <2>3. /\ answers' = [answers EXCEPT ![m][a] = @ \union {e}]
          /\ UNCHANGED <<queue, usage>>
      BY <1>3 DEF PostOutput
    <2> HIDE DEF e
    <2> QED
      BY <1>0, <2>2, <2>3
  <1>4. CASE Report(m, a)
    <2>1. inv[m][a].job \in 1 .. MaxJobs
      <3>1. inv[m][a] \in Invocation /\ Len(Jobs(m)) \in 0 .. MaxJobs
        BY BodyShape DEF Typing, TypeOK, Jobs
      <3>2. inv[m][a].job <= Len(Jobs(m))
        BY <1>4 DEF Report, Typing, AtWork, Placed
      <3> QED
        BY <3>1, <3>2, QueueAssumption DEF Invocation
    <2>2. /\ UNCHANGED <<queue, answers>>
          /\ \/ UNCHANGED usage
             \/ usage' = [usage EXCEPT ![m][a][inv[m][a].job] = @ + 1]
      BY <1>4 DEF Report, UsageCount
    <2>3. CASE UNCHANGED usage
      BY <1>0, <2>2, <2>3
    <2>4. CASE usage' = [usage EXCEPT ![m][a][inv[m][a].job] = @ + 1]
      <3> DEFINE j == inv[m][a].job
                 f == [usage[m][a] EXCEPT ![j] = usage[m][a][j] + 1]
      <3>1. f \in [1 .. MaxJobs -> Nat]
        <4>1. usage[m][a] \in [1 .. MaxJobs -> Nat]
          BY <1>0
        <4> HIDE DEF j
        <4>2. usage[m][a][j] \in Nat
          BY <2>1, <4>1 DEF j
        <4>3. usage[m][a][j] + 1 \in Nat
          BY <4>2
        <4> QED
          BY <4>1, <4>3
      <3>2. usage' = [usage EXCEPT ![m][a] = f]
        BY <1>0, <2>4
      <3> HIDE DEF f
      <3> QED
        BY <1>0, <2>2, <3>1, <3>2
    <2> QED
      BY <2>2, <2>3, <2>4
  <1>5. Retry(m, a) \/ Execute(m, a) \/ Die(m, a) =>
           \/ UNCHANGED <<queue, answers, usage>>
           \/ \E answer \in PostAnswers : PostOutput(m, a, answer)
           \/ Report(m, a)
    BY DEF Retry, Execute, Begin, LeaveLoop, NoPostback, NothingToPost, Compute, RefuseSlot, Return, Die
  <1>6. CASE \E answer \in PostAnswers : PostOutput(m, a, answer)
    BY <1>0, <1>3, <1>6
  <1> QED
    BY <1>1, <1>2, <1>4, <1>5, <1>6

(* The other two effects on an invocation: none at all, or a new one. *)
LEMMA ReceiveTyping ==
    ASSUME Typing, NEW m \in Messages, NEW pc \in {"invoked", "throttled"},
           queue[m] \in {"visible", "hidden"}, Receive(m, pc)
    PROVE  Typing'
  <1> DEFINE n == received[m] + 1
             r == [Idle EXCEPT !.pc = pc]
  <1> USE DEF Typing
  <1>1. n \in Deliveries /\ n > received[m]
    BY QueueAssumption DEF TypeOK, Receive, Deliveries
  <1>2. r \in Invocation /\ r.pc = pc
    <2>1. 1 \in Nat \ {0} /\ 1 \in 1 .. MaxJobs + 1 /\ pc \in Points
      BY QueueAssumption DEF Points, Executing
    <2> QED
      BY <2>1 DEF Idle, Invocation
  <1>3. Placed(m, r)
    BY <1>2 DEF Placed
  <1> HIDE DEF r
  <1>4. /\ inv' = [inv EXCEPT ![m][n] = r]
        /\ received' = [received EXCEPT ![m] = n]
        /\ queue' = [queue EXCEPT ![m] = "hidden"]
        /\ UNCHANGED <<body, answers, usage>>
    BY DEF Receive, r
  <1>5. TypeOK'
    <2>1. inv' \in [Messages -> [Deliveries -> Invocation]]
      BY <1>1, <1>2, <1>4 DEF TypeOK
    <2>2. received' \in [Messages -> 0 .. MaxReceive] /\ queue' \in [Messages -> QueueStates]
      BY <1>1, <1>4, QueueAssumption DEF TypeOK, Deliveries, QueueStates
    <2> QED
      BY <1>4, <2>1, <2>2 DEF TypeOK
  <1>6. Fresh'
    BY <1>4 DEF TypeOK, Fresh
  <1>7. Undelivered'
    <2>1. ASSUME NEW k \in Messages, NEW b \in Deliveries, b > received'[k]
          PROVE  inv'[k][b] = inv[k][b] /\ b > received[k]
      BY <1>1, <1>4, <2>1, QueueAssumption DEF TypeOK, Deliveries
    <2>2. answers' = answers /\ usage' = usage
      BY <1>4
    <2> QED
      BY <2>1, <2>2 DEF Undelivered
  <1>8. AtWork'
    BY <1>1, <1>3, <1>4 DEF TypeOK, AtWork, Placed, Jobs
  <1> QED
    BY <1>5, <1>6, <1>7, <1>8

LEMMA NextTyping == Typing /\ [Next]_vars => Typing'
  <1> SUFFICES ASSUME Typing, [Next]_vars PROVE Typing'
    OBVIOUS
  <1>1. ASSUME NEW m \in Messages, NEW b \in Bodies, Publish(m, b)
        PROVE  Typing'
    <2>1. /\ queue[m] = "unsent" /\ received[m] = 0
          /\ queue' = [queue EXCEPT ![m] = "visible"]
          /\ body' = [body EXCEPT ![m] = b]
          /\ UNCHANGED <<received, inv, answers, usage>>
      BY <1>1 DEF Publish, Typing, Fresh
    <2>2. TypeOK'
      BY <2>1 DEF Typing, TypeOK, QueueStates
    <2>3. Fresh' /\ Undelivered'
      BY <2>1 DEF Typing, TypeOK, Fresh, Undelivered
    <2>4. \A a \in Deliveries : inv[m][a].pc = "none"
      BY <2>1 DEF Typing, Undelivered, Deliveries, Idle
    <2>5. AtWork'
      BY <2>1, <2>4 DEF Typing, TypeOK, AtWork, Placed, Jobs
    <2> QED
      BY <2>2, <2>3, <2>5 DEF Typing
  <1>2. ASSUME NEW m \in Messages, Deliver(m) \/ DeliverCopy(m) \/ Throttle(m)
        PROVE  Typing'
    BY <1>2, ReceiveTyping DEF Deliver, DeliverCopy, Throttle
  <1>3. ASSUME NEW m \in Messages, Reappear(m) \/ Park(m)
        PROVE  Typing'
    <2>1. /\ queue[m] # "unsent"
          /\ \E q \in {"visible", "parked"} : queue' = [queue EXCEPT ![m] = q]
          /\ UNCHANGED <<body, received, inv, answers, usage>>
      BY <1>3 DEF Reappear, Park
    <2> QED
      BY <2>1 DEF Typing, TypeOK, Fresh, Undelivered, AtWork, Placed, Jobs, QueueStates
  <1>4. ASSUME NEW m \in Messages, NEW a \in Deliveries,
               Retry(m, a) \/ Execute(m, a) \/ Ack(m, a) \/ Die(m, a)
        PROVE  Typing'
    <2>1. PICK r \in Invocation : Moves(m, a, r)
      BY <1>4, ExecuteMoves
    <2>2. queue' \in [Messages -> QueueStates]
          /\ \A n \in Messages : queue'[n] = "unsent" => queue[n] = "unsent"
      BY <1>4, ExecuteEffects DEF Typing, TypeOK, QueueStates
    <2>5. a <= received[m]
      <3>1. ~ (a > received[m])
        BY <2>1 DEF Moves, Typing, Undelivered, Idle
      <3>2. a \in Nat /\ received[m] \in Nat
        BY QueueAssumption DEF Typing, TypeOK, Deliveries
      <3> QED
        BY <3>1, <3>2
    <2>6. TypeOK'
      <3>1. inv' \in [Messages -> [Deliveries -> Invocation]]
        BY <2>1, MovesFrame DEF Typing
      <3>2. body' = body /\ received' = received
        BY <2>1 DEF Moves
      <3> QED
        BY <1>4, <2>2, <3>1, <3>2, ExecuteEffects DEF Typing, TypeOK
    <2>7. Fresh' /\ Undelivered'
      <3>1. received' = received
        BY <2>1 DEF Moves
      <3>2. Fresh'
        BY <2>2, <3>1 DEF Typing, Fresh
      <3>3. ASSUME NEW n \in Messages, NEW b \in Deliveries, b > received[n]
            PROVE  inv'[n][b] = inv[n][b] /\ answers'[n][b] = answers[n][b] /\ usage'[n][b] = usage[n][b]
        <4>1. n # m \/ b # a
          BY <2>5, <3>3, QueueAssumption DEF Typing, TypeOK, Deliveries
        <4> QED
          BY <1>4, <2>1, <4>1, ExecuteEffects, MovesFrame DEF Typing
      <3>4. Undelivered'
        BY <3>1, <3>3 DEF Typing, Undelivered
      <3> QED
        BY <3>2, <3>4
    <2>8. AtWork'
      BY <2>1, MovesFrame DEF Moves, Typing, AtWork, Placed, Jobs
    <2> QED
      BY <2>6, <2>7, <2>8 DEF Typing
  <1>5. CASE UNCHANGED vars
    BY <1>5 DEF vars, Typing, TypeOK, Fresh, Undelivered, AtWork, Placed, Jobs
  <1> QED
    BY <1>1, <1>2, <1>3, <1>4, <1>5 DEF Next, Serve

LEMMA SpecTyping == Spec => []Typing
  BY InitTyping, NextTyping, PTL DEF Spec

(* Whatever is published, however SQS delivers and Django answers, the     *)
(* queue, the invocations and what they leave behind keep to their types:  *)
(* a job index never runs past its bundle, a message is never received     *)
(* more often than maxReceiveCount.                                        *)
THEOREM TypeCorrect == Spec => []TypeOK
  <1>1. Typing => TypeOK
    BY DEF Typing
  <1> QED
    BY <1>1, SpecTyping, PTL

-----------------------------------------------------------------------------
(***************************************************************************)
(* What an invocation's record says about its own delivery. The parts are  *)
(* stated for a body b, a record i, a set of answers and a usage count, so *)
(* that a step of the code is an argument about values; the invariant      *)
(* applies them to every delivery.                                         *)
(***************************************************************************)
LandedIn(b, j, ans) ==
    \/ /\ b.jobs[j].fn \in Posting
       /\ \A o \in 1 .. Len(b.jobs[j].outs) :
             \E x \in Accepted(b.jobs[j].fn) : <<j, o, x>> \in ans
    \/ b.jobs[j].fn = "helper"

(* Only a readable body gets into the loop, and not past its end. *)
InLoop(b, i) ==
    /\ i.pc \in {"next", "posting", "report", "succeeded", "acked"} => b.parsed
    /\ i.job <= Len(b.jobs) + 1
    /\ i.failures \subseteq 1 .. i.job - 1

(* A job left behind that is not a failure has landed. *)
Behind(b, i, ans) ==
    \A j \in 1 .. Len(b.jobs) : j < i.job /\ j \notin i.failures => LandedIn(b, j, ans)

(* Half way through its outputs, a result without an error marker means    *)
(* that the outputs posted so far were accepted.                           *)
HalfWay(b, i, ans) ==
    i.pc = "posting" =>
        /\ b.jobs[i.job].fn \in Posting
        /\ JobSucceeded(i.result) =>
              \A o \in 1 .. i.out - 1 :
                 \E x \in Accepted(b.jobs[i.job].fn) : <<i.job, o, x>> \in ans

(* A result without an error marker means that the job has landed. *)
Judged(b, i, ans) == i.pc = "report" /\ JobSucceeded(i.result) => LandedIn(b, i.job, ans)

(* process_payload returns only at the end of a loop without failures. *)
Clean(b, i) ==
    i.pc \in {"succeeded", "acked"} => i.failures = {} /\ i.job = Len(b.jobs) + 1

(* It raises JobFailed only there, and only with a failure to show.        *)
Escalated(b, i) ==
    i.pc = "failed" /\ b.parsed /\ (\A j \in 1 .. Len(b.jobs) : b.jobs[j].fn # "missing")
        => i.failures # {} /\ i.job = Len(b.jobs) + 1

(* Usage: once, for a metered job left behind that is not a failure. *)
Billed(b, i, use) ==
    \A j \in 1 .. MaxJobs :
        /\ use[j] \in {0, 1}
        /\ use[j] = 1 => /\ j \in 1 .. Len(b.jobs) /\ b.jobs[j].metered
                         /\ j < i.job /\ j \notin i.failures

Sound(b, i, ans, use) ==
    /\ InLoop(b, i) /\ Behind(b, i, ans) /\ HalfWay(b, i, ans)
    /\ Judged(b, i, ans) /\ Clean(b, i) /\ Escalated(b, i) /\ Billed(b, i, use)

AllSound ==
    \A m \in Messages, a \in Deliveries :
        Sound(body[m], inv[m][a], answers[m][a], usage[m][a])

(* Only an acknowledged delivery deletes a message. *)
DeletedByAck ==
    \A m \in Messages : queue[m] = "deleted" => \E a \in Deliveries : inv[m][a].pc = "acked"

IInv == Typing /\ AllSound /\ DeletedByAck

-----------------------------------------------------------------------------
(* A delivery that has done nothing yet is sound for any body. *)
LEMMA FreshSound ==
    ASSUME NEW b \in Bodies \union {NoBody}, NEW pc \in {"none", "invoked", "throttled"}
    PROVE  Sound(b, [Idle EXCEPT !.pc = pc], {}, NoUsage)
  <1> DEFINE i == [Idle EXCEPT !.pc = pc]
  <1>1. i.pc = pc /\ i.job = 1 /\ i.failures = {}
    BY DEF Idle
  <1>2. Len(b.jobs) \in Nat
    BY BodyShape, QueueAssumption
  <1> HIDE DEF i
  <1>3. /\ InLoop(b, i) /\ Behind(b, i, {}) /\ HalfWay(b, i, {}) /\ Judged(b, i, {})
        /\ Clean(b, i) /\ Escalated(b, i)
    BY <1>1, <1>2 DEF InLoop, Behind, HalfWay, Judged, Clean, Escalated
  <1>4. Billed(b, i, NoUsage)
    BY <1>1 DEF Billed, NoUsage
  <1> QED
    BY <1>3, <1>4 DEF Sound, i

(* A delivery of which only the control point moves on keeps what it had. *)
LEMMA EndSound ==
    ASSUME NEW b, NEW i \in Invocation, NEW ans, NEW use, Sound(b, i, ans, use),
           NEW pc \in {"invoked", "failed", "dead", "acked", "next", "succeeded"},
           pc = "next" => b.parsed,
           pc \in {"acked", "succeeded"} =>
              b.parsed /\ i.failures = {} /\ i.job = Len(b.jobs) + 1,
           Escalated(b, [i EXCEPT !.pc = pc])
    PROVE  Sound(b, [i EXCEPT !.pc = pc], ans, use)
  <1> DEFINE r == [i EXCEPT !.pc = pc]
  <1>1. r.pc = pc /\ r.job = i.job /\ r.failures = i.failures
    BY DEF Invocation
  <1> HIDE DEF r
  <1> QED
    <2>1. InLoop(b, r) /\ Behind(b, r, ans) /\ Clean(b, r) /\ Billed(b, r, use)
      BY <1>1 DEF Sound, InLoop, Behind, Clean, Billed
    <2>2. HalfWay(b, r, ans) /\ Judged(b, r, ans)
      BY <1>1 DEF HalfWay, Judged
    <2>3. Escalated(b, r)
      BY DEF r
    <2> QED
      BY <2>1, <2>2, <2>3 DEF Sound, r

(* The result of a job is known: an error, or every output accepted. *)
LEMMA ConcludeSound ==
    ASSUME NEW b, NEW i \in Invocation, NEW ans, NEW use, Sound(b, i, ans, use), b.parsed,
           NEW more, ans \subseteq more,
           NEW result, JobSucceeded(result) => LandedIn(b, i.job, more)
    PROVE  Sound(b, [i EXCEPT !.pc = "report", !.result = result], more, use)
  <1> DEFINE r == [i EXCEPT !.pc = "report", !.result = result]
  <1>1. r.pc = "report" /\ r.job = i.job /\ r.failures = i.failures /\ r.result = result
    BY DEF Invocation
  <1> HIDE DEF r
  <1>2. /\ InLoop(b, r) /\ HalfWay(b, r, more) /\ Judged(b, r, more)
        /\ Clean(b, r) /\ Escalated(b, r) /\ Billed(b, r, use)
    BY <1>1 DEF Sound, InLoop, HalfWay, Judged, Clean, Escalated, Billed
  <1>3. Behind(b, r, more)
    BY <1>1 DEF Sound, Behind, LandedIn
  <1> QED
    BY <1>2, <1>3 DEF Sound, r

(* An error marker is never lost from a result that grows. *)
LEMMA MarkersStay ==
    ASSUME NEW result, NEW item, JobSucceeded(result \union {item})
    PROVE  JobSucceeded(result) /\ ~ HasErrorMarker(item)
  BY DEF JobSucceeded

LEMMA ErrorFails == ~ JobSucceeded(ErrorResult)
  BY DEF JobSucceeded, ErrorResult, HasErrorMarker

(* An answer that does not raise and whose item has no marker is accepted. *)
LEMMA ItemAccepted ==
    ASSUME NEW fn, NEW answer \in Answers, ~ Raises(answer), ~ HasErrorMarker(PostItem(fn, answer))
    PROVE  answer \in Accepted(fn)
  BY DEF PostItem, HasErrorMarker, Accepted, Inspecting

(* One more output posted: the loop goes on, or the job is judged. *)
LEMMA PostSound ==
    ASSUME NEW b \in Bodies \union {NoBody}, NEW i \in Invocation, NEW ans, NEW use,
           Sound(b, i, ans, use), i.pc = "posting", i.job \in 1 .. Len(b.jobs),
           NEW answer \in Answers
    PROVE  Sound(b, AfterPost(i, b.jobs[i.job], answer), ans \union {<<i.job, i.out, answer>>}, use)
  <1> DEFINE job == b.jobs[i.job]
             fn == job.fn
             item == PostItem(fn, answer)
             items == i.result \union {item}
             more == ans \union {<<i.job, i.out, answer>>}
             r == AfterPost(i, job, answer)
  <1>1. b.parsed /\ fn \in Posting /\ i.out \in Nat \ {0}
    BY DEF Sound, InLoop, HalfWay, Invocation
  <1>2. JobSucceeded(items) /\ ~ Raises(answer) =>
           \A o \in 1 .. i.out : \E x \in Accepted(fn) : <<i.job, o, x>> \in more
    <2> SUFFICES ASSUME JobSucceeded(items), ~ Raises(answer), NEW o \in 1 .. i.out
                 PROVE  \E x \in Accepted(fn) : <<i.job, o, x>> \in more
      OBVIOUS
    <2>1. JobSucceeded(i.result) /\ answer \in Accepted(fn)
      BY MarkersStay, ItemAccepted
    <2>2. CASE o = i.out
      BY <2>1, <2>2
    <2>3. CASE o \in 1 .. i.out - 1
      BY <2>1, <2>3 DEF Sound, HalfWay
    <2> QED
      BY <1>1, <2>2, <2>3
  <1>3. CASE Raises(answer)
    <2>1. r = [i EXCEPT !.pc = "report", !.result = ErrorResult]
      BY <1>3 DEF AfterPost
    <2> HIDE DEF more, r
    <2>2. ans \subseteq more
      BY DEF more
    <2>3. JobSucceeded(ErrorResult) => LandedIn(b, i.job, more)
      BY ErrorFails
    <2>4. Sound(b, [i EXCEPT !.pc = "report", !.result = ErrorResult], more, use)
      BY <1>1, <2>2, <2>3, ConcludeSound
    <2> QED
      BY <2>1, <2>4 DEF more, r
  <1>4. CASE ~ Raises(answer) /\ i.out = Len(job.outs)
    <2>1. r = [i EXCEPT !.pc = "report", !.result = items]
      BY <1>4 DEF AfterPost
    <2>2. JobSucceeded(items) => LandedIn(b, i.job, more)
      BY <1>1, <1>2, <1>4 DEF LandedIn
    <2> HIDE DEF items, more, r
    <2>3. ans \subseteq more
      BY DEF more
    <2>4. Sound(b, [i EXCEPT !.pc = "report", !.result = items], more, use)
      BY <1>1, <2>2, <2>3, ConcludeSound
    <2> QED
      BY <2>1, <2>4 DEF r, more
  <1>5. CASE ~ Raises(answer) /\ i.out # Len(job.outs)
    <2>1. r = [i EXCEPT !.out = i.out + 1, !.result = items]
      BY <1>5 DEF AfterPost
    <2>2. /\ r.pc = "posting" /\ r.job = i.job /\ r.failures = i.failures
          /\ r.out = i.out + 1 /\ r.result = items
      BY <2>1 DEF Invocation
    <2> HIDE DEF items, more, r
    <2>3. /\ InLoop(b, r) /\ Judged(b, r, more)
          /\ Clean(b, r) /\ Escalated(b, r) /\ Billed(b, r, use)
      BY <2>2 DEF Sound, InLoop, Judged, Clean, Escalated, Billed
    <2>4. Behind(b, r, more)
      BY <2>2 DEF Sound, Behind, LandedIn, more
    <2>5. HalfWay(b, r, more)
      BY <1>1, <1>2, <1>5, <2>2 DEF HalfWay
    <2> QED
      BY <2>3, <2>4, <2>5 DEF Sound, r, more
  <1> QED
    BY <1>3, <1>4, <1>5

(* The job is left behind, as landed or as a failure, billed or not. *)
LEMMA ReportSound ==
    ASSUME NEW b \in Bodies \union {NoBody}, NEW i \in Invocation, NEW ans,
           NEW use \in [1 .. MaxJobs -> Nat], Sound(b, i, ans, use),
           i.pc = "report", i.job \in 1 .. Len(b.jobs),
           NEW new, \/ new = use
                    \/ /\ b.jobs[i.job].metered /\ JobSucceeded(i.result)
                       /\ new = [use EXCEPT ![i.job] = use[i.job] + 1]
    PROVE  Sound(b, AfterReport(i), ans, new)
  <1> DEFINE r == AfterReport(i)
             ok == JobSucceeded(i.result)
  <1>1. /\ r.pc = "next" /\ r.job = i.job + 1
        /\ r.failures = IF ok THEN i.failures ELSE i.failures \union {i.job}
    BY DEF AfterReport, Invocation
  <1>2. Len(b.jobs) \in 0 .. MaxJobs /\ i.job \in Nat /\ b.parsed
    BY BodyShape, QueueAssumption DEF Sound, InLoop
  <1>3. i.failures \subseteq 1 .. i.job - 1
    BY DEF Sound, InLoop
  <1> HIDE DEF r, ok
  <1>4. InLoop(b, r)
    BY <1>1, <1>2, <1>3 DEF InLoop
  <1>5. HalfWay(b, r, ans) /\ Judged(b, r, ans) /\ Clean(b, r) /\ Escalated(b, r)
    BY <1>1 DEF HalfWay, Judged, Clean, Escalated
  <1>6. Behind(b, r, ans)
    <2> SUFFICES ASSUME NEW j \in 1 .. Len(b.jobs), j < r.job, j \notin r.failures
                 PROVE  LandedIn(b, j, ans)
      BY DEF Behind
    <2>1. CASE j = i.job
      BY <1>1, <2>1 DEF Sound, Judged, ok
    <2>2. CASE j < i.job
      BY <1>1, <2>2 DEF Sound, Behind
    <2> QED
      BY <1>1, <1>2, <2>1, <2>2
  <1>7. Billed(b, r, new)
    <2> SUFFICES ASSUME NEW j \in 1 .. MaxJobs
                 PROVE  /\ new[j] \in {0, 1}
                        /\ new[j] = 1 => /\ j \in 1 .. Len(b.jobs) /\ b.jobs[j].metered
                                         /\ j < r.job /\ j \notin r.failures
      BY DEF Billed
    <2>1. /\ use[j] \in {0, 1}
          /\ use[j] = 1 => /\ j \in 1 .. Len(b.jobs) /\ b.jobs[j].metered
                           /\ j < i.job /\ j \notin i.failures
      BY DEF Sound, Billed
    <2>2. CASE new[j] = use[j]
      BY <1>1, <1>2, <2>1, <2>2
    <2>3. CASE /\ j = i.job /\ b.jobs[i.job].metered /\ ok
               /\ new = [use EXCEPT ![i.job] = use[i.job] + 1]
      <3>1. use[j] = 0
        BY <1>2, <2>1, <2>3
      <3>2. new[j] = 1
        BY <2>3, <3>1
      <3>3. j < r.job /\ j \notin r.failures
        BY <1>1, <1>2, <1>3, <2>3
      <3> QED
        BY <2>3, <3>2, <3>3
    <2> QED
      BY <2>2, <2>3 DEF ok
  <1> QED
    BY <1>4, <1>5, <1>6, <1>7 DEF Sound, r

-----------------------------------------------------------------------------
(* Every step of an invocation keeps its own delivery sound. *)
LEMMA ExecuteSound ==
    ASSUME Typing, AllSound, NEW m \in Messages, NEW a \in Deliveries,
           Retry(m, a) \/ Execute(m, a) \/ Ack(m, a) \/ Die(m, a)
    PROVE  Sound(body[m], inv'[m][a], answers'[m][a], usage'[m][a])
  <1> DEFINE b == body[m]
             i == inv[m][a]
             ans == answers[m][a]
             use == usage[m][a]
  <1>1. /\ i \in Invocation /\ b \in Bodies \union {NoBody} /\ use \in [1 .. MaxJobs -> Nat]
        /\ inv \in [Messages -> [Deliveries -> Invocation]]
        /\ answers \in [Messages -> [Deliveries -> SUBSET (Nat \X Nat \X Answers)]]
        /\ usage \in [Messages -> [Deliveries -> [1 .. MaxJobs -> Nat]]]
    BY DEF Typing, TypeOK
  <1>2. Sound(b, i, ans, use)
    BY DEF AllSound
  <1>3. /\ i.job \in 1 .. MaxJobs + 1 /\ Len(b.jobs) \in Nat /\ i.job <= Len(b.jobs) + 1
        /\ i.pc \in {"posting", "report"} => i.job \in 1 .. Len(b.jobs)
        /\ i.pc \in {"next", "posting", "report", "succeeded"} => b.parsed
    BY <1>1, <1>2, BodyShape, QueueAssumption
    DEF Typing, AtWork, Placed, Sound, InLoop, Invocation, Jobs
  <1>4. ASSUME NEW pc \in {"invoked", "failed", "dead", "acked", "next", "succeeded"}, Goto(m, a, pc),
               UNCHANGED <<answers, usage>>,
               pc = "next" => b.parsed,
               pc \in {"acked", "succeeded"} =>
                  b.parsed /\ i.failures = {} /\ i.job = Len(b.jobs) + 1,
               pc = "failed" =>
                  \/ ~ b.parsed
                  \/ \E j \in 1 .. Len(b.jobs) : b.jobs[j].fn = "missing"
                  \/ i.failures # {} /\ i.job = Len(b.jobs) + 1
        PROVE  Sound(b, inv'[m][a], answers'[m][a], usage'[m][a])
    <2>1. inv'[m][a] = [i EXCEPT !.pc = pc]
      BY <1>1, <1>4 DEF Goto
    <2>0. Escalated(b, [i EXCEPT !.pc = pc])
      BY <1>1, <1>4 DEF Escalated, Invocation
    <2> HIDE DEF b, i, ans, use
    <2>2. Sound(b, [i EXCEPT !.pc = pc], ans, use)
      BY <1>1, <1>2, <1>4, <2>0, EndSound
    <2> QED
      BY <1>4, <2>1, <2>2 DEF ans, use
  <1>5. ASSUME NEW result, Conclude(m, a, result), UNCHANGED <<answers, usage>>, b.parsed,
               JobSucceeded(result) => LandedIn(b, i.job, ans)
        PROVE  Sound(b, inv'[m][a], answers'[m][a], usage'[m][a])
    <2>1. inv'[m][a] = [i EXCEPT !.pc = "report", !.result = result]
      BY <1>1, <1>5 DEF Conclude
    <2> HIDE DEF b, i, ans, use
    <2>2. Sound(b, [i EXCEPT !.pc = "report", !.result = result], ans, use)
      BY <1>1, <1>2, <1>5, ConcludeSound
    <2> QED
      BY <1>5, <2>1, <2>2 DEF ans, use
  <1>6. CASE Begin(m, a)
    BY <1>4, <1>6 DEF Begin, Goto
  <1>7. CASE LeaveLoop(m, a)
    <2>1. i.job \in 1 .. Len(b.jobs) /\ b.jobs[i.job].fn = "missing"
      BY <1>3, <1>7 DEF LeaveLoop, AtJob, JobIn, Jobs
    <2> QED
      BY <1>4, <1>7, <2>1 DEF LeaveLoop
  <1>8. CASE NoPostback(m, a)
    BY <1>3, <1>5, <1>8, ErrorFails DEF NoPostback, AtJob
  <1>9. CASE NothingToPost(m, a)
    <2>1. LandedIn(b, i.job, ans)
      <3>1. \/ b.jobs[i.job].fn = "helper"
            \/ b.jobs[i.job].fn \in Posting /\ b.jobs[i.job].outs = <<>>
        BY <1>9 DEF NothingToPost, JobIn, Jobs
      <3>2. Len(<<>>) = 0
        BY EmptySeq
      <3> QED
        BY <3>1, <3>2 DEF LandedIn
    <2> QED
      BY <1>3, <1>5, <1>9, <2>1 DEF NothingToPost, AtJob
  <1>10. CASE Compute(m, a)
    <2> DEFINE r == [i EXCEPT !.pc = "posting", !.out = 1, !.result = {}]
    <2>1. /\ inv'[m][a] = r /\ answers'[m][a] = ans /\ usage'[m][a] = use
          /\ i.pc = "next" /\ i.job <= Len(b.jobs) /\ b.jobs[i.job].fn \in Posting
      BY <1>1, <1>10 DEF Compute, AtJob, JobIn, Jobs
    <2>2. r.pc = "posting" /\ r.job = i.job /\ r.out = 1 /\ r.failures = i.failures
      BY <1>1 DEF Invocation
    <2> HIDE DEF r, b, i, ans, use
    <2>3. /\ InLoop(b, r) /\ Behind(b, r, ans) /\ Judged(b, r, ans)
          /\ Clean(b, r) /\ Escalated(b, r) /\ Billed(b, r, use)
      BY <1>2, <1>3, <2>1, <2>2 DEF Sound, InLoop, Behind, Judged, Clean, Escalated, Billed
    <2>4. HalfWay(b, r, ans)
      BY <2>1, <2>2 DEF HalfWay
    <2> QED
      BY <2>1, <2>3, <2>4 DEF Sound, b
  <1>11. CASE RefuseSlot(m, a)
    BY <1>3, <1>5, <1>11, ErrorFails DEF RefuseSlot
  <1>12. ASSUME NEW answer \in PostAnswers, PostOutput(m, a, answer)
         PROVE  Sound(b, inv'[m][a], answers'[m][a], usage'[m][a])
    <2>1. /\ i.pc = "posting" /\ inv'[m][a] = AfterPost(i, b.jobs[i.job], answer)
          /\ answers'[m][a] = ans \union {<<i.job, i.out, answer>>}
          /\ usage'[m][a] = use /\ answer \in Answers
      BY <1>1, <1>12, AnswersAssumption DEF PostOutput, JobIn, Jobs
    <2> HIDE DEF b, i, ans, use
    <2>2. Sound(b, AfterPost(i, b.jobs[i.job], answer), ans \union {<<i.job, i.out, answer>>}, use)
      BY <1>1, <1>2, <1>3, <2>1, PostSound
    <2> QED
      BY <2>1, <2>2
  <1>13. CASE Report(m, a)
    <2>1. /\ i.pc = "report" /\ inv'[m][a] = AfterReport(i) /\ answers'[m][a] = ans
          /\ \/ usage'[m][a] = use
             \/ /\ b.jobs[i.job].metered /\ JobSucceeded(i.result)
                /\ usage'[m][a] = [use EXCEPT ![i.job] = use[i.job] + 1]
      BY <1>1, <1>3, <1>13 DEF Report, Billable, UsageCount, JobIn, Jobs
    <2> HIDE DEF b, i, ans, use
    <2>2. Sound(b, AfterReport(i), ans, usage'[m][a])
      BY <1>1, <1>2, <1>3, <2>1, ReportSound
    <2> QED
      BY <2>1, <2>2 DEF b
  <1>14. CASE Return(m, a)
    <2>1. i.pc = "next" /\ i.job = Len(b.jobs) + 1
      BY <1>3, <1>14 DEF Return, Jobs
    <2> QED
      BY <1>3, <1>4, <1>14, <2>1 DEF Return
  <1>15. CASE Ack(m, a)
    <2>1. i.pc = "succeeded" /\ Goto(m, a, "acked") /\ UNCHANGED <<answers, usage>>
      BY <1>15 DEF Ack, Goto
    <2>2. i.failures = {} /\ i.job = Len(b.jobs) + 1
      BY <1>2, <2>1 DEF Sound, Clean
    <2> QED
      BY <1>3, <1>4, <2>1, <2>2
  <1>16. CASE Die(m, a)
    BY <1>4, <1>16 DEF Die, Goto
  <1>17. CASE Retry(m, a)
    BY <1>4, <1>17 DEF Retry, Goto
  <1> QED
    BY <1>6, <1>7, <1>8, <1>9, <1>10, <1>11, <1>12, <1>13, <1>14, <1>15, <1>16, <1>17 DEF Execute

LEMMA NextSound == IInv /\ [Next]_vars => AllSound' /\ DeletedByAck'
  <1> SUFFICES ASSUME IInv, [Next]_vars PROVE AllSound' /\ DeletedByAck'
    OBVIOUS
  <1> USE DEF IInv
  <1>1. ASSUME NEW m \in Messages, NEW b \in Bodies, Publish(m, b)
        PROVE  AllSound' /\ DeletedByAck'
    <2>1. /\ queue[m] = "unsent" /\ received[m] = 0
          /\ queue' = [queue EXCEPT ![m] = "visible"]
          /\ body' = [body EXCEPT ![m] = b]
          /\ UNCHANGED <<inv, answers, usage>>
      BY <1>1 DEF Publish, Typing, Fresh
    <2>2. \A a \in Deliveries :
             inv[m][a] = Idle /\ answers[m][a] = {} /\ usage[m][a] = NoUsage
      BY <2>1 DEF Typing, Undelivered, Deliveries
    <2>3. Sound(b, Idle, {}, NoUsage)
      <3>1. Idle = [Idle EXCEPT !.pc = "none"]
        BY DEF Idle
      <3> QED
        BY <3>1, FreshSound
    <2>4. AllSound'
      BY <2>1, <2>2, <2>3 DEF Typing, TypeOK, AllSound
    <2>5. DeletedByAck'
      BY <2>1 DEF Typing, TypeOK, DeletedByAck
    <2> QED
      BY <2>4, <2>5
  <1>2. ASSUME NEW m \in Messages, NEW pc \in {"invoked", "throttled"},
               queue[m] \in {"visible", "hidden"}, Receive(m, pc)
        PROVE  AllSound' /\ DeletedByAck'
    <2> DEFINE n == received[m] + 1
               r == [Idle EXCEPT !.pc = pc]
    <2>1. n \in Deliveries /\ n > received[m]
      BY <1>2, QueueAssumption DEF Typing, TypeOK, Receive, Deliveries
    <2>2. answers[m][n] = {} /\ usage[m][n] = NoUsage /\ inv[m][n] = Idle
      BY <2>1 DEF Typing, Undelivered
    <2>3. Sound(body[m], r, {}, NoUsage)
      BY FreshSound DEF Typing, TypeOK
    <2> HIDE DEF r
    <2>4. /\ inv' = [inv EXCEPT ![m][n] = r]
          /\ queue' = [queue EXCEPT ![m] = "hidden"]
          /\ UNCHANGED <<body, answers, usage>>
      BY <1>2 DEF Receive, r
    <2> HIDE DEF n
    <2>5. /\ inv'[m][n] = r
          /\ \A k \in Messages, a \in Deliveries : k # m \/ a # n => inv'[k][a] = inv[k][a]
      BY <2>1, <2>4 DEF Typing, TypeOK
    <2>6. AllSound'
      BY <2>2, <2>3, <2>4, <2>5 DEF AllSound
    <2>7. inv[m][n].pc # "acked"
      BY <2>2 DEF Idle
    <2>8. DeletedByAck'
      <3> SUFFICES ASSUME NEW k \in Messages, queue'[k] = "deleted"
                   PROVE  \E a \in Deliveries : inv'[k][a].pc = "acked"
        BY DEF DeletedByAck
      <3>1. k # m /\ queue[k] = "deleted"
        BY <2>4 DEF Typing, TypeOK
      <3> QED
        BY <2>5, <3>1 DEF DeletedByAck
    <2> QED
      BY <2>6, <2>8
  <1>3. ASSUME NEW m \in Messages, Reappear(m) \/ Park(m)
        PROVE  AllSound' /\ DeletedByAck'
    <2>1. /\ \E q \in {"visible", "parked"} : queue' = [queue EXCEPT ![m] = q]
          /\ UNCHANGED <<body, received, inv, answers, usage>>
      BY <1>3 DEF Reappear, Park
    <2> QED
      BY <2>1 DEF Typing, TypeOK, AllSound, DeletedByAck
  <1>4. ASSUME NEW m \in Messages, NEW a \in Deliveries,
               Retry(m, a) \/ Execute(m, a) \/ Ack(m, a) \/ Die(m, a)
        PROVE  AllSound' /\ DeletedByAck'
    <2>1. PICK r \in Invocation : Moves(m, a, r)
      BY <1>4, ExecuteMoves
    <2>2. body' = body
      BY <2>1 DEF Moves
    <2>3. \A n \in Messages, c \in Deliveries : n # m \/ c # a =>
             /\ inv'[n][c] = inv[n][c] /\ answers'[n][c] = answers[n][c]
             /\ usage'[n][c] = usage[n][c]
      BY <1>4, <2>1, MovesFrame, ExecuteEffects DEF Typing
    <2>4. AllSound'
      BY <1>4, <2>2, <2>3, ExecuteSound DEF AllSound
    <2>5. CASE Ack(m, a)
      <3>1. /\ inv'[m][a].pc = "acked"
            /\ queue' = queue \/ queue' = [queue EXCEPT ![m] = "deleted"]
        <4>1. inv' = [inv EXCEPT ![m][a].pc = "acked"]
          BY <2>5 DEF Ack
        <4>2. inv[m][a] \in Invocation /\ inv \in [Messages -> [Deliveries -> Invocation]]
          BY DEF Typing, TypeOK
        <4>3. inv'[m][a] = [inv[m][a] EXCEPT !.pc = "acked"]
          BY <4>1, <4>2
        <4> QED
          BY <2>5, <4>2, <4>3 DEF Ack, Invocation
      <3>2. \A n \in Messages : queue'[n] = "deleted" => n = m \/ queue[n] = "deleted"
        BY <3>1 DEF Typing, TypeOK
      <3> QED
        BY <2>3, <2>4, <3>1, <3>2 DEF DeletedByAck
    <2>6. CASE Retry(m, a) \/ Execute(m, a) \/ Die(m, a)
      <3>1. inv[m][a].pc # "acked" /\ queue' = queue
        BY <2>6
        DEF Retry, Execute, Begin, LeaveLoop, NoPostback, NothingToPost, AtJob, Compute, RefuseSlot,
            PostOutput, Report, Return, Die, Executing
      <3> QED
        BY <2>3, <2>4, <3>1 DEF DeletedByAck
    <2> QED
      BY <1>4, <2>5, <2>6
  <1>5. CASE UNCHANGED vars
    BY <1>5 DEF vars, AllSound, DeletedByAck
  <1> QED
    BY <1>1, <1>2, <1>3, <1>4, <1>5 DEF Next, Serve, Deliver, DeliverCopy, Throttle

LEMMA InitSound == Init => AllSound /\ DeletedByAck
  <1>1. Sound(NoBody, Idle, {}, NoUsage)
    <2>1. Idle = [Idle EXCEPT !.pc = "none"]
      BY DEF Idle
    <2> QED
      BY <2>1, FreshSound
  <1> QED
    BY <1>1 DEF Init, AllSound, DeletedByAck

LEMMA SpecInvariant == Spec => []IInv
  <1>1. Init => IInv
    BY InitTyping, InitSound DEF IInv
  <1>2. IInv /\ [Next]_vars => IInv'
    BY NextTyping, NextSound DEF IInv
  <1> QED
    BY <1>1, <1>2, PTL DEF Spec

-----------------------------------------------------------------------------
(* What Sound says in the words of JobPipeline's properties. *)
LEMMA LandedInLooks ==
    ASSUME NEW m \in Messages, NEW a \in Deliveries, NEW j \in Positions(m),
           LandedIn(body[m], j, answers[m][a])
    PROVE  LooksLanded(m, a, j)
  BY DEF LandedIn, LooksLanded, AllAccepted, Answered, Outputs, Jobs

(* A message leaves the queue as done only after one delivery in which     *)
(* every job of its bundle was posted and accepted.                        *)
THEOREM DeletionCorrect == Spec => []DeletedMeansAccepted
  <1>1. IInv => DeletedMeansAccepted
    <2> SUFFICES ASSUME IInv, NEW m \in Messages, queue[m] = "deleted"
                 PROVE  /\ body[m].parsed
                        /\ \E a \in Deliveries : \A j \in Positions(m) : LooksLanded(m, a, j)
      BY DEF DeletedMeansAccepted
    <2>1. PICK a \in Deliveries : inv[m][a].pc = "acked"
      BY DEF IInv, DeletedByAck
    <2>2. Sound(body[m], inv[m][a], answers[m][a], usage[m][a])
      BY DEF IInv, AllSound
    <2>3. body[m].parsed /\ inv[m][a].failures = {} /\ inv[m][a].job = Len(Jobs(m)) + 1
      BY <2>1, <2>2 DEF Sound, InLoop, Clean, Jobs
    <2>4. Len(Jobs(m)) \in Nat
      BY BodyShape, QueueAssumption DEF IInv, Typing, TypeOK, Jobs
    <2>5. \A j \in Positions(m) : LandedIn(body[m], j, answers[m][a])
      BY <2>2, <2>3, <2>4 DEF Sound, Behind, Positions, Jobs
    <2> QED
      BY <2>3, <2>5, LandedInLooks
  <1> QED
    BY <1>1, SpecInvariant, PTL

(* Usage is recorded only for a metered job that landed in that delivery   *)
(* and that process_payload does not count as a failure.                   *)
THEOREM BillingCorrect == Spec => []BilledOnlyLanded
  <1>1. IInv => BilledOnlyLanded
    <2> SUFFICES ASSUME IInv, NEW m \in Messages, NEW a \in Deliveries, NEW j \in 1 .. MaxJobs,
                        usage[m][a][j] > 0
                 PROVE  /\ j \in Positions(m) /\ Jobs(m)[j].metered
                        /\ j < inv[m][a].job /\ j \notin inv[m][a].failures
                        /\ LooksLanded(m, a, j)
      BY DEF BilledOnlyLanded
    <2>1. Sound(body[m], inv[m][a], answers[m][a], usage[m][a])
      BY DEF IInv, AllSound
    <2>2. usage[m][a][j] = 1
      BY <2>1 DEF Sound, Billed
    <2>3. /\ j \in Positions(m) /\ Jobs(m)[j].metered
          /\ j < inv[m][a].job /\ j \notin inv[m][a].failures
      BY <2>1, <2>2 DEF Sound, Billed, Positions, Jobs
    <2>4. LandedIn(body[m], j, answers[m][a])
      BY <2>1, <2>3 DEF Sound, Behind, Positions, Jobs
    <2> QED
      BY <2>3, <2>4, LandedInLooks
  <1> QED
    BY <1>1, SpecInvariant, PTL

(* One delivery records at most one usage event for each job. *)
THEOREM BillingOncePerDelivery == Spec => []BilledOncePerDelivery
  <1>1. IInv => BilledOncePerDelivery
    BY DEF IInv, AllSound, Sound, Billed, BilledOncePerDelivery
  <1> QED
    BY <1>1, SpecInvariant, PTL

(* An invocation that reports on a bundle in which every job names a       *)
(* function has been through all of it, and fails iff a job failed.        *)
THEOREM SiblingsCorrect == Spec => []SiblingsAttempted
  <1>1. IInv => SiblingsAttempted
    <2> SUFFICES ASSUME IInv, NEW m \in Messages, NEW a \in Deliveries,
                        inv[m][a].pc \in {"succeeded", "failed", "acked"},
                        body[m].parsed, NamesAFunction(m)
                 PROVE  /\ inv[m][a].job = Len(Jobs(m)) + 1
                        /\ (inv[m][a].pc = "failed") <=> (inv[m][a].failures # {})
      BY DEF SiblingsAttempted
    <2>1. Clean(body[m], inv[m][a]) /\ Escalated(body[m], inv[m][a])
      BY DEF IInv, AllSound, Sound
    <2> QED
      BY <2>1 DEF Clean, Escalated, NamesAFunction, Positions, Jobs
  <1> QED
    BY <1>1, SpecInvariant, PTL

=============================================================================
